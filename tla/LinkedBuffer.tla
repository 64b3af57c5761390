---------------------------- MODULE LinkedBuffer ----------------------------
(***************************************************************************)
(* LinkedBuffer (srcs/net/connection/buffer/linked_buffer.cc), the other   *)
(* BufferType of a connection: a deque of nodes, each a vector with the    *)
(* capacity it was given, and an iterator to the next byte to read.        *)
(*                                                                         *)
(* An iterator is <<node, char>>: char bytes of that node (counted from 1) *)
(* lie before it; end() is <<Len(buffer_) + 1, 0>>, and <<>> is the        *)
(* default-constructed iterator, while which is reader_iter_ only append() *)
(* and readAll() may be called.  Reading nothing at end() is not done      *)
(* either: TcpConnection writes only while there is something to write.    *)
(*                                                                         *)
(* std::deque keeps nodes in chunks and finds the chunks through a map; a  *)
(* deque iterator holds its place in the map.  When push_back() moves the  *)
(* map, reader_iter_ is stale: the way from it to end() leads past the old *)
(* map, and walking it is undefined.                                       *)
(***************************************************************************)
EXTENDS BufferSizes, Integers, Sequences

CONSTANTS
  IovMax,         \* the most pieces that writev(2) takes
  NodesPerChunk,  \* the nodes in one chunk of the deque
  InitialMap      \* the places in the map of a new deque

ASSUME DequeAssumption ==
  IovMax \in Nat /\ NodesPerChunk \in Nat \ {0} /\ InitialMap \in Nat \ {0}

VARIABLES buffer_,       \* sequence of [data, capacity]
          reader_iter_,
          start,         \* the place of the first node, from that of the map
          map_size,      \* the places in the map
          stale,         \* has the map moved under reader_iter_?
          undefined      \* was a stale reader_iter_ walked on?

dequeVars == <<start, map_size, stale>>
vars == <<buffer_, reader_iter_, dequeVars, undefined>>

Chunks == UNION {[1..n -> Byte] : n \in 0..MaxLen}
Unset == <<>>

Init ==
  /\ buffer_ = <<>> /\ reader_iter_ = Unset
  /\ map_size = InitialMap /\ start = ((InitialMap - 1) \div 2) * NodesPerChunk
  /\ stale = FALSE /\ undefined = FALSE

-----------------------------------------------------------------------------
(* LinkedBufferIter.                                                       *)

Size(node) == Len(buffer_[node].data)
end == <<Len(buffer_) + 1, 0>>

charDistanceToEndOfNode(it) == Size(it[1]) - it[2]
charDistanceToStartOfNode(it) == it[2] + 1
toFirstCharOfNextNode(it) == <<it[1] + 1, 0>>

\* The place in node i of an iterator that goes from node to node.
In(it, i) == IF i = it[1] THEN it ELSE <<i, 0>>

\* The loop of readableSize() and of operator-: the bytes up to each node.
Distance(it) ==
  LET diff[i \in it[1]..(Len(buffer_) + 1)] ==
        IF i = it[1] THEN 0 ELSE diff[i - 1] + charDistanceToEndOfNode(In(it, i - 1))
  IN  diff

\* operator+= stops in a node whose rest is longer than what is left of n, and
\* at the next node when nothing is left.
Stops(it, n, i) ==
  \/ i > it[1] /\ n = Distance(it)[i]
  \/ i <= Len(buffer_) /\ n - Distance(it)[i] < charDistanceToEndOfNode(In(it, i))

\* operator+=.  A negative n takes the branch that advances char_iter_ by -n.
plus(it, n) ==
  LET stop == CHOOSE i \in DOMAIN Distance(it) :
                Stops(it, n, i) /\ \A j \in it[1]..(i - 1) : ~Stops(it, n, j)
  IN  IF n < 0 THEN <<it[1], it[2] - n>>
               ELSE <<stop, In(it, stop)[2] + (n - Distance(it)[stop])>>

\* operator<, operator>
Before(it, rhs) == it[1] < rhs[1] \/ (it[1] = rhs[1] /\ it[2] < rhs[2])
After(it, rhs) == it[1] > rhs[1] \/ (it[1] = rhs[1] /\ it[2] > rhs[2])

\* operator++
next(it) == IF it[2] + 1 = Size(it[1]) THEN toFirstCharOfNextNode(it)
                                      ELSE <<it[1], it[2] + 1>>

\* operator--, which has no meaning at the first byte and at end().
toLastCharOfPrevNode(it) == <<it[1] - 1, Size(it[1] - 1) - 1>>
prev(it) == IF it[2] # 0 THEN <<it[1], it[2] - 1>> ELSE toLastCharOfPrevNode(it)

\* The other loop of operator-.
Backwards(it) ==
  LET diff[i \in it[1]..(Len(buffer_) + 1)] ==
        IF i = it[1] THEN 0 ELSE diff[i - 1] - charDistanceToStartOfNode(In(it, i - 1))
  IN  diff

\* mutant: the nodes between the two iterators are not counted
minusMut(it, rhs) ==
  IF it[1] = rhs[1] THEN it[2] - rhs[2]
                    ELSE charDistanceToEndOfNode(rhs) + it[2]

\* operator- of two iterators.
minus(it, rhs) ==
  IF Before(it, rhs) THEN Backwards(it)[rhs[1]] - (rhs[2] - In(it, rhs[1])[2])
                     ELSE Distance(rhs)[it[1]] + (it[2] - In(rhs, it[1])[2])

\* The readable bytes, in the pieces that toIOVec() lists.
Pieces ==
  IF reader_iter_ = Unset THEN <<>>
  ELSE [k \in 1..(Len(buffer_) + 1 - reader_iter_[1]) |->
          LET it == In(reader_iter_, reader_iter_[1] + k - 1)
          IN  SubSeq(buffer_[it[1]].data, it[2] + 1, Size(it[1]))]

readableSize ==
  IF reader_iter_ = Unset THEN 0 ELSE Distance(reader_iter_)[Len(buffer_) + 1]

numReadableNodes == Len(Pieces)

-----------------------------------------------------------------------------
(* The deque.                                                              *)

finish == start + Len(buffer_)

\* The next node is the last one that the map has room for.
MapFull == finish + 1 = map_size * NodesPerChunk

\* push_back(): a full map is centred again, or replaced by a larger one if
\* more than half of it is in use.
push_back(node) ==
  LET used == (finish \div NodesPerChunk) - (start \div NodesPerChunk) + 2
      size == IF map_size > 2 * used THEN map_size ELSE 2 * map_size + 2
  IN  /\ buffer_' = Append(buffer_, node)
      /\ IF MapFull
         THEN /\ map_size' = size
              /\ start' = ((size - used) \div 2) * NodesPerChunk
                          + (start % NodesPerChunk)
         ELSE UNCHANGED <<start, map_size>>

-----------------------------------------------------------------------------
(* LinkedBuffer.                                                           *)

Larger(a, b) == IF a > b THEN a ELSE b

addNewNode(data) ==
  push_back([data |-> data, capacity |-> Larger(kMinNodeSize, Len(data))])

last_node == buffer_[Len(buffer_)]

\* mutant: the length of the new bytes is not counted
FitsMut(data) == Len(last_node.data) < kMinNodeSize

\* mutant: a node that is half full is left as it is
FitsMut2(data) == 2 * Len(last_node.data) + Len(data) < kMinNodeSize

Fits(data) == Len(last_node.data) + Len(data) < kMinNodeSize

\* mutant: the bytes are inserted at the front of the node
InsertedMut(data) == [buffer_ EXCEPT ![Len(buffer_)].data = data \o @]

Inserted(data) == [buffer_ EXCEPT ![Len(buffer_)].data = @ \o data]

\* append() to an empty deque.
appendFirst(data) ==
  addNewNode(data) /\ reader_iter_' = <<1, 0>> /\ stale' = FALSE

append(data) ==
  /\ ~undefined /\ readableSize + Len(data) <= MaxBuffered
  /\ \/ buffer_ = <<>> /\ appendFirst(data)
     \/ /\ buffer_ # <<>> /\ Fits(data)
        /\ buffer_' = Inserted(data)
        /\ UNCHANGED <<reader_iter_, dequeVars>>
     \/ /\ buffer_ # <<>> /\ ~Fits(data)
        /\ addNewNode(data)
        /\ stale' = (stale \/ MapFull)
        /\ UNCHANGED reader_iter_
  /\ UNCHANGED undefined

writeFromFD(data) ==
  /\ 0 < Len(data) /\ Len(data) <= kTmpBuffSize
  /\ append(data)

\* reader_iter_ becomes it, and freeNodesBefore() pops the nodes before it.
freeNodesBefore(it) ==
  /\ buffer_' = SubSeq(buffer_, it[1], Len(buffer_))
  /\ reader_iter_' = <<1, it[2]>>
  /\ start' = start + it[1] - 1

\* read() and the iterators of readUntil() walk from reader_iter_ to end().
Walk ==
  /\ ~undefined /\ reader_iter_ # Unset
  /\ undefined' = stale
  /\ UNCHANGED <<map_size, stale>>

read(n) ==
  /\ Walk
  /\ IF stale \/ readableSize < n THEN UNCHANGED <<buffer_, reader_iter_, start>>
                                  ELSE freeNodesBefore(plus(reader_iter_, n))

readUntil(it) ==
  /\ Walk
  /\ IF stale \/ Before(it, reader_iter_)
     THEN UNCHANGED <<buffer_, reader_iter_, start>>
     ELSE freeNodesBefore(it)

\* writev() took n bytes, or none because there are too many pieces.
readToFD(n) ==
  IF numReadableNodes > IovMax THEN read(readableSize + 1)
                               ELSE n <= readableSize /\ read(n)

readAll ==
  /\ ~undefined
  /\ buffer_' = <<>> /\ reader_iter_' = Unset /\ stale' = FALSE
  /\ UNCHANGED <<start, map_size, undefined>>

\* Where the scan of an input buffer, which has no empty node, may end.
Iterators ==
  {it \in (1..Len(buffer_)) \X (0..kMinNodeSize + MaxLen) : it[2] < Size(it[1])}
    \cup {end}

Next ==
  \/ \E data \in Chunks : append(data) \/ writeFromFD(data)
  \/ readAll
  \/ \E n \in 0..(MaxBuffered + 1) :
       (n > 0 \/ reader_iter_ # end) /\ (read(n) \/ readToFD(n))
  \/ \E it \in Iterators : readUntil(it)

Spec == Init /\ [][Next]_vars
-----------------------------------------------------------------------------
(* Properties.                                                             *)

\* insert() never reallocates a node, as the comment in addNewNode() says:
\* the char iterators into it, reader_iter_ above all, stay valid.
WithinCapacity ==
  \A i \in DOMAIN buffer_ : Len(buffer_[i].data) <= buffer_[i].capacity

\* freeNodesBefore() gives back all that was read, and append() fills a node
\* before it starts the next: two neighbours hold kMinNodeSize bytes or more.
NodesFilled ==
  /\ IF reader_iter_ = Unset THEN buffer_ = <<>> ELSE reader_iter_[1] = 1
  /\ \A i \in 1..(Len(buffer_) - 1) : Size(i) + Size(i + 1) >= kMinNodeSize

\* So the pieces of toIOVec() are not many: writev() in readToFD() has more than
\* it takes only when about IovMax halves of kMinNodeSize are waiting.
PiecesBounded ==
  readableSize >= ((numReadableNodes - 1) \div 2) * kMinNodeSize

\* Forward arithmetic is consistent, as std::find and std::search need it: from
\* the reader, or from a place m bytes on, n bytes further is the place m + n
\* bytes on, operator- counts the n bytes back, and operator< and operator> see
\* the order; one byte more is operator++, and operator-- undoes it.  Nothing is
\* said of operator+= with n < 0 and of operator- with the nearer iterator on the
\* left, which are wrong across nodes and which no caller uses.
ForwardArithmetic ==
  reader_iter_ # Unset =>
    /\ minus(end, reader_iter_) = readableSize
    /\ \A m \in 0..readableSize : \A n \in 1..(readableSize - m) :
         LET from == IF m = 0 THEN reader_iter_ ELSE plus(reader_iter_, m)
             it == plus(from, n)
         IN  /\ it = plus(reader_iter_, m + n)
             /\ minus(it, from) = n
             /\ Before(from, it) /\ After(it, from)
    /\ (\A i \in DOMAIN buffer_ : Size(i) > 0) =>
         \A n \in 1..(readableSize - 1) :
           LET it == plus(reader_iter_, n)
           IN  /\ next(it) = plus(reader_iter_, n + 1)
               /\ n + 1 < readableSize => prev(next(it)) = it

\* The bytes of the first pieces, one piece after the other.
Prefixes(pieces) ==
  LET bytes[k \in 0..Len(pieces)] == IF k = 0 THEN <<>> ELSE bytes[k - 1] \o pieces[k]
  IN  bytes

Joined(pieces) == Prefixes(pieces)[Len(pieces)]

\* The buffer implements the byte queue that a connection expects, across the
\* boundaries of nodes and up to the use of a stale iterator.
Bytes == INSTANCE ByteQueue WITH queue <- Joined(Pieces)

ImplementsByteQueue == Bytes!Spec
=============================================================================
