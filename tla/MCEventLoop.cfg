SPECIFICATION FairSpec
CONSTANTS
  Threads = {main, io, other}
  main = main
  io = io
  c1 = c1
  c2 = c2
  c3 = c3
  LoopThread = io
  Creator = main
  Callbacks = {c1, c2, c3}
  EventfdMax = 2
  HasWakeupChannel = TRUE
  NoCallback = NoCallback
INVARIANTS
  NoLostWakeup
  QueueOrder
PROPERTIES
  OffThreadOnlyBeforeStart
  ImplementsTaskQueue
  EventuallyRuns
  StopsOnceWoken
