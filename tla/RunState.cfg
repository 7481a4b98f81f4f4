SPECIFICATION FairSpec
CONSTANTS
  MaxRequests = 3
  MaxLosses = 1
INVARIANTS
  QuietIsConsistent
  StopHolds
PROPERTIES
  RequestIsAnswered
CHECK_DEADLOCK FALSE
