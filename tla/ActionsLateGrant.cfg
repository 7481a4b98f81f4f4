SPECIFICATION ActionsSpec
CONSTANTS
  MaxCalls = 2
  MaxFaults = 0
INVARIANTS
  GrantRestartsCore
CHECK_DEADLOCK FALSE
