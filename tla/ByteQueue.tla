----------------------------- MODULE ByteQueue -----------------------------
(***************************************************************************)
(* What a connection's buffer promises: a first-in first-out queue of      *)
(* bytes.  Bytes are put at the end in chunks and taken from the front.    *)
(***************************************************************************)
EXTENDS Naturals, Sequences

CONSTANT Chunks  \* the byte sequences one operation can put

VARIABLE queue

Init == queue = <<>>

Put(chunk) == queue' = queue \o chunk

Take(n) == queue' = SubSeq(queue, n + 1, Len(queue))

Next == \/ \E chunk \in Chunks : Put(chunk)
        \/ \E n \in 0..Len(queue) : Take(n)

Spec == Init /\ [][Next]_queue
=============================================================================
