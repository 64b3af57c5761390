SPECIFICATION Spec
CONSTANTS
  kPrependSize = 2
  kInitialSize = 2
  kMinNodeSize = 3
  kTmpBuffSize = 2
  Byte = {0, 1}
  Zero = 0
  MaxLen = 3
  MaxBuffered = 5
  IovMax = 2
  NodesPerChunk = 1
  InitialMap = 3
INVARIANTS
  WithinCapacity
  NodesFilled
  PiecesBounded
  ForwardArithmetic
PROPERTIES
  ImplementsByteQueue
CHECK_DEADLOCK FALSE
