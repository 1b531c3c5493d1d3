CONSTANTS
  Agent = {a1}
  User = {u1}
  Guest = Guest
  Command = {start, stop}
  NoHelper = NoHelper
  NoAck = NoAck
  NoResult = NoResult
  PingInterval = 2
  StaleAfter = 6
  HelloTimeout = 2
  MaxCommands = 2
SPECIFICATION Spec
INVARIANTS
  ResultNamesItsCommand
