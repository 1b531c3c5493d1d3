CONSTANTS
  Agent = {a1, a2}
  User = {u1, u2}
  Guest = Guest
  Command = {start, stop}
  NoHelper = NoHelper
  NoAck = NoAck
  NoResult = NoResult
  PingInterval = 2
  StaleAfter = 6
  HelloTimeout = 2
  MaxCommands = 2
SPECIFICATION FairSpec
INVARIANTS
  TypeOK
  NoOrphanHelper
  HandshakeIsTimed
  HeardRecently
  ResultsAreAcked
  PendingIsNewest
PROPERTIES
  TalkersStay
  HandshakeEnds
