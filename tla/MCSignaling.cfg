CONSTANTS
  Conn = {c1, c2, c3}
  Room = {r1, r2}
  User = {u1, u2}
  Guest = Guest
  NoMember = NoMember
  NoTarget = NoTarget
SPECIFICATION Spec
SYMMETRY Symmetry
CHECK_DEADLOCK FALSE
INVARIANTS
  TypeOK
  RegistriesAgree
  NoDeadMembers
  OneHost
  HostIsOwner
  RosterExact
  SignalsStayInPair
PROPERTIES
  KeepsHostingPromise
