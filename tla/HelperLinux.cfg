SPECIFICATION LinuxSpec
CONSTANTS
  Requests = {r1, r2, r3}
  Main = main
  Sessions = {s1, s2}
  Pids = {p1, p2}
  NoRequest = noRequest
  NoSession = noSession
  NoPid = noPid
  JobObject = FALSE
  MaxRestarts = 1
  MaxErrors = 0
  Installers = {i1, i2}
  Owners = {o1, o2}
  Absent = absent
  Partial = partial
  MaxFaults = 1
INVARIANTS
  SingleConfinedCore
  FallbackIsAlone
PROPERTIES
  ConfirmedMeansExited
  OkIsTrue
  HelperKeepsItsOwner
SYMMETRY Symmetry
CHECK_DEADLOCK FALSE
