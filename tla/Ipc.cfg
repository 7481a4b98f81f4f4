SPECIFICATION FairSpec
CONSTANTS
  Callers = {c1, c2}
  NoCaller = noCaller
  MaxServers = 2
  MaxConnections = 2
INVARIANTS
  OneServer
  StoppedIsQuiet
PROPERTIES
  CallReturns
CHECK_DEADLOCK FALSE
