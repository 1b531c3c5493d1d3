CONSTANTS
  Viewer = {v1}
  NoEntry = NoEntry
  LateCallbacks = FALSE
  MaxCommands = 1
SPECIFICATION Spec
CHECK_DEADLOCK FALSE
INVARIANTS
  AnswerNeverEarly
