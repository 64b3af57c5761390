SPECIFICATION Spec
CONSTANTS
  NumThreads = 2
  MaxConns = 2
  Fds = {1, 2}
  Peers = {"p"}
  LateLoops = {0, 1}
  MainHasWakeup = TRUE
INVARIANTS
  RegisteredIsOwned
  CreateFindsConnection
  ErasedOnce
PROPERTIES
  ImplementsLife
CHECK_DEADLOCK FALSE
