SPECIFICATION AppSpec
CONSTANTS
  Settings <- MCSettings
  MaxChanges = 3
  MaxPresses = 1
  MaxCalls = 3
  MaxFaults = 1
INVARIANTS
  RegistriesAgree
  OnlyTheWantedAction
  RunningIsTrue
  AuthorizedCoreIsPrivileged
PROPERTIES
  LastSettingsWin
  RestartCoversCaller
  OnlyTheWorkerBlocks
CHECK_DEADLOCK FALSE
