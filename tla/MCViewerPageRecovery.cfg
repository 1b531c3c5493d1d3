CONSTANTS
  MaxOffers = 2
  maxAttempts = 2
SPECIFICATION Spec
CHECK_DEADLOCK FALSE
PROPERTY
  RecoveryEndsRetry
