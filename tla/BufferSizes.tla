---------------------------- MODULE BufferSizes ----------------------------
(* The sizes in buffer.h and linked_buffer.h, and the bytes of both.       *)
EXTENDS Naturals

CONSTANTS
  kPrependSize, kInitialSize,  \* Buffer
  kMinNodeSize,                \* LinkedBuffer
  kTmpBuffSize,                \* both
  Byte, Zero,     \* the byte values, and the one a fresh vector holds
  MaxLen,         \* bound: the longest chunk put by one operation
  MaxBuffered     \* bound: the most bytes left unread

ASSUME BufferAssumption ==
  /\ kPrependSize \in Nat /\ kInitialSize \in Nat
  /\ kTmpBuffSize \in Nat \ {0}
  /\ Zero \in Byte
  /\ MaxLen \in Nat \ {0} /\ MaxBuffered \in Nat

ASSUME LinkedBufferAssumption == kMinNodeSize \in Nat \ {0}
=============================================================================
