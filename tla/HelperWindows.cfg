SPECIFICATION WindowsSpec
CONSTANTS
  Requests = {r1, r2}
  Main = main
  Sessions = {s1, s2}
  Pids = {p1, p2}
  NoRequest = noRequest
  NoSession = noSession
  NoPid = noPid
  JobObject = TRUE
  MaxRestarts = 1
  MaxErrors = 1
  Commands = {c1, c2}
  Procs = {w1, w2}
  NoProc = noProc
  MaxCrashes = 1
INVARIANTS
  ReleasedForGood
  OneHelper
PROPERTIES
  AnswerReachesClient
  StopTakesEffect
CHECK_DEADLOCK FALSE
