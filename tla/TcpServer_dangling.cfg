SPECIFICATION Spec
CONSTANTS
  NumThreads = 1
  MaxConns = 1
  Fds = {1, 2}
  Peers = {"p"}
  LateLoops = {}
  MainHasWakeup = TRUE
INVARIANTS
  AliveInHandleEvent
CHECK_DEADLOCK FALSE
