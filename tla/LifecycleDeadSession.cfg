SPECIFICATION Spec
CONSTANTS
  Cores = {c1, c2, c3}
  NoCore = noCore
  MaxRevision = 2
  VerifyPeerPid = FALSE
  LauncherLeaks = FALSE
  LossWhileLaunching = TRUE
INVARIANTS
  RunningIsConnected
SYMMETRY Symmetry
CHECK_DEADLOCK FALSE
