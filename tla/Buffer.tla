------------------------------- MODULE Buffer -------------------------------
(***************************************************************************)
(* Buffer (srcs/net/connection/buffer/buffer.cc): a vector with a reader   *)
(* and a writer index, used for both directions of a connection.  Offsets  *)
(* are the C++ ones: the byte at offset i is buffer_[i + 1].               *)
(***************************************************************************)
EXTENDS BufferSizes, Integers, Sequences

VARIABLES buffer_, reader_index_, writer_index_

bufferVars == <<buffer_, reader_index_, writer_index_>>

Chunks == UNION {[1..n -> Byte] : n \in 0..MaxLen}

\* The vector holds bytes, and the indices never go below zero.
BufferTypeOK ==
  /\ buffer_ \in Seq(Byte)
  /\ reader_index_ \in Nat
  /\ writer_index_ \in Nat

BufferInit ==
  /\ buffer_ = [i \in 1..(kPrependSize + kInitialSize) |-> Zero]
  /\ reader_index_ = kPrependSize
  /\ writer_index_ = kPrependSize

readableSize == writer_index_ - reader_index_
writableSize == Len(buffer_) - writer_index_

\* The bytes of a vector from offset r up to offset w.
Slice(vec, r, w) == SubSeq(vec, r + 1, w)

\* The unread bytes, [readerIter(), end()).
Readable == Slice(buffer_, reader_index_, writer_index_)

-----------------------------------------------------------------------------
\* std::copy of data to offset "at" of the vector.
CopyTo(vec, at, data) ==
  [i \in 1..Len(vec) |-> IF i \in (at + 1)..(at + Len(data))
                         THEN data[i - at] ELSE vec[i]]

\* vector::resize: new elements are value-initialised, surplus ones dropped.
Resize(vec, n) == [i \in 1..n |-> IF i <= Len(vec) THEN vec[i] ELSE Zero]

\* mutant: the unread bytes are not moved to the front
AppendedMut1(vec, r, w, data) ==
  IF r - kPrependSize >= Len(data)
  THEN [vec |-> CopyTo(vec, kPrependSize + (w - r), data),
        r |-> kPrependSize, w |-> kPrependSize + (w - r) + Len(data)]
  ELSE [vec |-> CopyTo(Resize(vec, w + Len(data)), w, data),
        r |-> r, w |-> w + Len(data)]

\* mutant: the prepended bytes are counted as reusable
AppendedMut2(vec, r, w, data) ==
  IF r >= Len(data)
  THEN [vec |-> CopyTo(CopyTo(vec, kPrependSize, Slice(vec, r, w)),
                       kPrependSize + (w - r), data),
        r |-> kPrependSize, w |-> kPrependSize + (w - r) + Len(data)]
  ELSE [vec |-> CopyTo(Resize(vec, w + Len(data)), w, data),
        r |-> r, w |-> w + Len(data)]

\* mutant: the space before the reader is never reused
AppendedMut3(vec, r, w, data) ==
  [vec |-> CopyTo(Resize(vec, w + Len(data)), w, data),
   r |-> r, w |-> w + Len(data)]

\* append(): move the unread bytes to the front when that makes room, else
\* resize to exactly what is needed; then copy the new bytes behind them.
Appended(vec, r, w, data) ==
  IF r - kPrependSize >= Len(data)
  THEN [vec |-> CopyTo(CopyTo(vec, kPrependSize, Slice(vec, r, w)),
                       kPrependSize + (w - r), data),
        r |-> kPrependSize, w |-> kPrependSize + (w - r) + Len(data)]
  ELSE [vec |-> CopyTo(Resize(vec, w + Len(data)), w, data),
        r |-> r, w |-> w + Len(data)]

Become(b) == buffer_' = b.vec /\ reader_index_' = b.r /\ writer_index_' = b.w

append(data) ==
  /\ readableSize + Len(data) <= MaxBuffered
  /\ Become(Appended(buffer_, reader_index_, writer_index_, data))

\* readv() put data into the free space and then into tmp_buf.
writeFromFD(data) ==
  /\ Len(data) > 0
  /\ Len(data) <= writableSize + kTmpBuffSize
  /\ readableSize + Len(data) <= MaxBuffered
  /\ IF Len(data) <= writableSize
     THEN Become([vec |-> CopyTo(buffer_, writer_index_, data),
                  r |-> reader_index_, w |-> writer_index_ + Len(data)])
     ELSE Become(Appended(
            CopyTo(buffer_, writer_index_, SubSeq(data, 1, writableSize)),
            reader_index_, writer_index_ + writableSize,
            SubSeq(data, writableSize + 1, Len(data))))

readAll ==
  /\ reader_index_' = kPrependSize
  /\ writer_index_' = kPrependSize
  /\ UNCHANGED buffer_

\* read(len), which returns false and changes nothing when len is too long.
read(len) ==
  \/ readableSize < len /\ UNCHANGED bufferVars
  \/ readableSize = len /\ readAll
  \/ /\ readableSize > len
     /\ reader_index_' = reader_index_ + len
     /\ UNCHANGED <<buffer_, writer_index_>>

\* readUntil(iter), iter given as an offset.
readUntil(iter) ==
  IF iter >= reader_index_ /\ iter <= writer_index_
  THEN read(iter - reader_index_)
  ELSE UNCHANGED bufferVars

\* write() took n of the unread bytes; the indices are not moved back.
readToFD(n) ==
  /\ reader_index_' = reader_index_ + n
  /\ UNCHANGED <<buffer_, writer_index_>>

BufferNext ==
  \/ \E data \in Chunks : append(data) \/ writeFromFD(data)
  \/ readAll
  \/ \E len \in 0..(MaxBuffered + 1) : read(len)
  \/ \E iter \in 0..Len(buffer_) : readUntil(iter)
  \/ \E n \in 0..readableSize : readToFD(n)

BufferSpec == BufferInit /\ [][BufferNext]_bufferVars

-----------------------------------------------------------------------------
(* Properties.                                                             *)

\* The indices stay ordered inside the vector, so that no copy of append(),
\* writeFromFD() or readToFD() reaches outside it and no size_t subtraction
\* in readableSize(), writableSize() or append() wraps around.
IndexOrder ==
  /\ kPrependSize <= reader_index_
  /\ reader_index_ <= writer_index_
  /\ writer_index_ <= Len(buffer_)

\* append() reuses the space that readToFD() and read() leave behind: the
\* vector never outgrows the most bytes ever unread at once plus one chunk,
\* however many bytes have gone through it.
StorageBound ==
  \/ Len(buffer_) <= kPrependSize + kInitialSize
  \/ Len(buffer_) < kPrependSize + MaxBuffered + MaxLen

\* The unread bytes are a first-in first-out queue: every operation puts its
\* bytes at the end or takes bytes from the front, whatever it moves.
Bytes == INSTANCE ByteQueue WITH queue <- Readable

ImplementsByteQueue == Bytes!Spec
=============================================================================
