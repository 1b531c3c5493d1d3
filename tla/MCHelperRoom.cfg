CONSTANTS
  Viewer = {v1, v2}
  NoEntry = NoEntry
  LateCallbacks = TRUE
  MaxCommands = 1
SPECIFICATION FairSpec
CHECK_DEADLOCK FALSE
INVARIANTS
  TypeOK
  SeatFollowsStream
  ServesAudience
  EntriesTracked
  OfferIsSettled
PROPERTIES
  OfferedEventually
