SPECIFICATION LeavingSpec
CONSTANTS
  NumThreads = 2
  MaxConns = 3
  Fds = {1}
  Peers = {"p", "q"}
  LateLoops = {}
  MainHasWakeup = FALSE
PROPERTIES
  ClosedIsReleased
  EveryClientAccepted
CHECK_DEADLOCK FALSE
