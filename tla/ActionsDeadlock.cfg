SPECIFICATION FairActionsSpec
CONSTANTS
  MaxCalls = 1
  MaxFaults = 0
PROPERTIES
  CallEnds
CHECK_DEADLOCK FALSE
