CONSTANTS
  MaxOffers = 3
  maxAttempts = 2
SPECIFICATION Spec
CHECK_DEADLOCK FALSE
INVARIANTS
  TypeOK
  OneNegotiation
  CandidatesReachPeer
PROPERTIES
  RetryHappens
  LiveReported
