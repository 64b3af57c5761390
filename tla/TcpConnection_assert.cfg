SPECIFICATION Spec
CONSTANTS
  SndCap = 2
  MaxSize = 3
  MaxData = 2
INVARIANTS
  AssertInHandleWrite
CHECK_DEADLOCK FALSE
