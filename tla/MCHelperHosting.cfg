CONSTANTS
  Browser = {b1}
  Agent = {a1, a2}
  Room = {r1}
  User = {u1}
  Guest = Guest
  NoMember = NoMember
  NoTarget = NoTarget
  NoRoom = NoRoom
  Command = {start}
  NoHelper = NoHelper
  NoAck = NoAck
  NoResult = NoResult
  PingInterval = 1
  StaleAfter = 1
  HelloTimeout = 1
  MaxCommands = 0
SPECIFICATION FairSpec
INVARIANTS
  TypeOK
  AttachedAgrees
  HostingHelperIsCurrent
  SignalsStayInPair
PROPERTIES
  KeepsHostingPromise
  PresenceUndisturbed
  SilentHostLosesSeat
