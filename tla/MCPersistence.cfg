CONSTANTS
  User = {u1, u2}
  Session = {s1}
  Token = {t1, t2}
  Room = {r1}
  Code = {c1}
  Turn = {turn}
  None = None
  MAX_HELPER_TOKENS_PER_USER = 1
  MaxWrites = 2
  MaxRequests = 1
  MaxBoots = 1
SPECIFICATION Spec
SYMMETRY Symmetry
CHECK_DEADLOCK FALSE
INVARIANTS
  TypeOK
  PairsOneDevice
PROPERTY
  ImplementsStore
