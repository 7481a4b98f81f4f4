SPECIFICATION FairSpec
CONSTANTS
  Cores = {c1, c2, c3}
  NoCore = noCore
  MaxRevision = 3
  VerifyPeerPid = TRUE
  LauncherLeaks = FALSE
  LossWhileLaunching = FALSE
INVARIANTS
  NoCoreForgotten
PROPERTIES
  KeepsPromise
  EveryCommandSettles
  LostCoreIsReported
CHECK_DEADLOCK FALSE
