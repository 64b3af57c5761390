SPECIFICATION BufferSpec
CONSTANTS
  kPrependSize = 2
  kInitialSize = 2
  kMinNodeSize = 3
  kTmpBuffSize = 2
  Byte = {0, 1}
  Zero = 0
  MaxLen = 3
  MaxBuffered = 5
INVARIANTS
  IndexOrder
  StorageBound
PROPERTIES
  ImplementsByteQueue
