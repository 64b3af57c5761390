-------------------------- MODULE ConnectionProofs --------------------------
(***************************************************************************)
(* A connection and the Buffer in which it keeps unsent bytes.             *)
(*   - TcpConnection for every size of the kernel's send buffer, every     *)
(*     length of responses and every amount of data: the types, that it is *)
(*     closed once, that a backlog is watched, that shutdown() waits for   *)
(*     it, that all of it is delivered before the end of the stream, and   *)
(*     that it has the stages of ConnectionLife.                           *)
(*   - Buffer for every prepend, initial and temporary size, every set of  *)
(*     bytes and every bound on chunks and on unread bytes.                *)
(***************************************************************************)
EXTENDS TcpConnection, Buffer, TLAPS

\* Sequences of the same kind, one after the other.
LEMMA SeqConcat ==
  ASSUME NEW S, NEW s \in Seq(S), NEW t \in Seq(S)
  PROVE  s \o t \in Seq(S) /\ Len(s \o t) = Len(s) + Len(t)
BY SMT

\* Sequences that agree one by one.
LEMMA SeqEqual ==
  ASSUME NEW S, NEW s \in Seq(S), NEW t \in Seq(S), Len(s) = Len(t),
         \A i \in 1..Len(s) : s[i] = t[i]
  PROVE  s = t
BY SMT

(* The connection.                                                         *)

\* What is left of the callbacks of handleEvent() after one of them.
LEMMA TailCalls ==
  ASSUME NEW s \in Seq(Callbacks), s # <<>>
  PROVE  Tail(s) \in Seq(Callbacks)
BY SMT

\* Channel::handleEvent() calls callbacks.
LEMMA CalledType ==
  ASSUME NEW revents
  PROVE  Called(revents) \in Seq(Callbacks)
<1>1. ASSUME NEW test, NEW cb \in Callbacks
      PROVE  When(test, cb) \in Seq(Callbacks)
  <2>1. <<cb>> \in Seq(Callbacks) /\ <<>> \in Seq(Callbacks)
    OBVIOUS
  <2> QED
    BY <2>1, Zenon DEF When
<1> DEFINE a == When("HUP" \in revents /\ "IN" \notin revents, "close")
           b == When("ERR" \in revents, "error")
           c == When("IN" \in revents, "read")
           d == When("OUT" \in revents, "write")
<1>2. /\ a \in Seq(Callbacks) /\ b \in Seq(Callbacks)
      /\ c \in Seq(Callbacks) /\ d \in Seq(Callbacks)
  BY <1>1, Zenon DEF Callbacks
<1> HIDE DEF a, b, c, d
<1>3. a \o b \in Seq(Callbacks)
  BY <1>2, SeqConcat, Zenon
<1>4. a \o b \o c \in Seq(Callbacks)
  BY <1>2, <1>3, SeqConcat, Zenon
<1>5. a \o b \o c \o d \in Seq(Callbacks)
  BY <1>2, <1>4, SeqConcat, Zenon
<1> QED
  BY <1>5, Zenon DEF Called, a, b, c, d

\* handleClose() keeps the types.
LEMMA CloseType ==
  ASSUME TypeOK, Close
  PROVE  /\ status_' \in {"kConnecting", "kConnected", "kDisconnecting",
                          "kDisconnected"}
         /\ closes' \in Nat
         /\ registered' \in BOOLEAN
         /\ events' = events /\ interest' = interest
<1>1. CASE status_ # "kDisconnected"
  <2>1. /\ registered' = FALSE /\ status_' = "kDisconnected"
        /\ closes' = closes + 1 /\ UNCHANGED <<events, interest>>
    BY <1>1, Zenon DEF Close
  <2>2. registered' \in BOOLEAN
    BY <2>1, Zenon
  <2> QED
    BY <2>1, <2>2 DEF TypeOK
<1>2. CASE status_ = "kDisconnected"
  <2>1. UNCHANGED <<registered, status_, closes, events, interest>>
    BY <1>2, Zenon DEF Close
  <2> QED
    BY <2>1, Zenon DEF TypeOK
<1> QED
  BY <1>1, <1>2, Zenon

\* So do enableWriting() and disableWriting().
LEMMA WatchType ==
  ASSUME TypeOK, NEW ev \in SUBSET {"R", "W"}, Watch(ev)
  PROVE  events' \subseteq {"R", "W"} /\ interest' \subseteq {"R", "W"}
<1>1. CASE registered
  BY <1>1, Zenon DEF Watch
<1>2. CASE ~registered
  BY <1>2, Zenon DEF Watch, TypeOK
<1> QED
  BY <1>1, <1>2, Zenon

\* So does the return from send().
LEMMA AfterSendType ==
  ASSUME TypeOK, AfterSend
  PROVE  /\ at' \in {"create", "poll", "dispatch", "app", "send", "shutdown",
                     "killed"}
         /\ todo' = todo
<1>1. CASE reply.close
  BY <1>1, Zenon DEF AfterSend, Step
<1>2. CASE ~reply.close
  BY <1>2, SMTT(30) DEF AfterSend, Step
<1> QED
  BY <1>1, <1>2, Zenon

\* The types are kept.
LEMMA TypeStep == TypeOK /\ [Next]_vars => TypeOK'
<1> SUFFICES ASSUME TypeOK, [Next]_vars PROVE TypeOK'
  BY Zenon
<1> USE TcpConnectionAssumption
    DEF TypeOK, Step, connVars, threadVars, socketVars, peerVars
<1>0. reply.size \in Nat
  OBVIOUS
<1>1. CASE handleCreate
  BY <1>1 DEF handleCreate
<1>2. CASE poll
  BY <1>2, CalledType DEF poll
<1>3. CASE handleEventDone
  BY <1>3, Zenon DEF handleEventDone
<1>4. ASSUME NEW cb, InCallback(cb) PROVE Tail(todo) \in Seq(Callbacks)
  BY <1>4, TailCalls, Zenon DEF InCallback
<1>5. CASE handleClose
  BY <1>4, <1>5, CloseType, Zenon DEF handleClose
<1>6. CASE handleReadData
  BY <1>4, <1>6 DEF handleReadData
<1>7. CASE handleReadEnd
  BY <1>4, <1>7, CloseType, Zenon DEF handleReadEnd
<1>8. CASE handleReadIgnored
  BY <1>4, <1>8, Zenon DEF handleReadIgnored
<1>9. CASE onReadNothing
  BY <1>9, Zenon DEF onReadNothing
<1>10. CASE onReadReply
  BY <1>10 DEF onReadReply
<1>11. CASE sendLater
  BY <1>0, <1>11, AfterSendType DEF sendLater
<1>12. CASE sendNow
  <2>1. /\ snd' \in 0..SndCap /\ out' \in Nat
        /\ queued' \in Nat
    BY <1>0, <1>12 DEF sendNow, WriteTakes
  <2>2. events' \subseteq {"R", "W"} /\ interest' \subseteq {"R", "W"}
    BY <1>12, WatchType, Zenon DEF sendNow
  <2> QED
    BY <1>12, <2>1, <2>2, AfterSendType, ZenonT(60) DEF sendNow
<1>13. CASE sendFailed
  <2>1. /\ Close /\ AfterSend
        /\ queued' = queued + reply.size /\ out' = out + reply.size
        /\ UNCHANGED <<reply, snd, shutWr, peerVars>> /\ reported' = rst
    BY <1>13, Zenon DEF sendFailed, WriteFails
  <2>2. queued' \in Nat /\ out' \in Nat
    BY <1>0, <2>1
  <2>3. /\ status_' \in {"kConnecting", "kConnected", "kDisconnecting",
                        "kDisconnected"}
        /\ closes' \in Nat
        /\ registered' \in BOOLEAN
        /\ events' = events /\ interest' = interest
    BY <2>1, CloseType, Zenon
  <2>4. /\ at' \in {"create", "poll", "dispatch", "app", "send", "shutdown",
                    "killed"}
        /\ todo' = todo
    BY <2>1, AfterSendType, Zenon
  <2> QED
    BY <2>1, <2>2, <2>3, <2>4, Zenon
<1>14. CASE sendKilled
  BY <1>14 DEF sendKilled
<1>15. CASE shutdown
  BY <1>15, Zenon DEF shutdown, Shutdown
<1>16. CASE handleWrite
  <2>1. snd' \in 0..SndCap /\ out' \in Nat
    BY <1>16 DEF handleWrite, WriteTakes
  <2>2. events' \subseteq {"R", "W"} /\ interest' \subseteq {"R", "W"}
    BY <1>16, WatchType, Zenon DEF handleWrite
  <2>3. /\ shutWr' \in BOOLEAN
        /\ status_' \in {"kConnecting", "kConnected", "kDisconnecting",
                        "kDisconnected"}
    BY <1>16, Zenon DEF handleWrite, AfterDrain, Shutdown
  <2> QED
    BY <1>4, <1>16, <2>1, <2>2, <2>3, Zenon DEF handleWrite
<1>17. CASE handleWriteFailed
  BY <1>4, <1>17, CloseType, Zenon DEF handleWriteFailed, WriteFails
<1>23. CASE handleWriteKilled
  BY <1>23 DEF handleWriteKilled
<1>18. CASE PeerSend
  BY <1>18 DEF PeerSend
<1>19. CASE PeerRecv
  BY <1>19 DEF PeerRecv
<1>20. CASE PeerClose
  BY <1>20 DEF PeerClose
<1>21. CASE PeerReset
  BY <1>21 DEF PeerReset
<1>22. CASE UNCHANGED vars
  BY <1>22 DEF vars
<1> QED
  BY <1>1, <1>2, <1>3, <1>5, <1>6, <1>7, <1>8, <1>9, <1>10, <1>11, <1>12,
     <1>13, <1>14, <1>15, <1>16, <1>17, <1>18, <1>19, <1>20, <1>21, <1>22,
     <1>23, ZenonT(60)
  DEF Next, IoThread, Peer

\* The variables of the connection and its socket have their types.
THEOREM TypeCorrect == Spec => []TypeOK
<1>1. Init => TypeOK
  <2> SUFFICES ASSUME Init PROVE TypeOK
    BY Zenon
  <2>1. reply \in [size : 0..MaxSize, close : BOOLEAN]
    BY TcpConnectionAssumption DEF Init, NoReply
  <2>2. snd \in 0..SndCap /\ sentByPeer \in 0..MaxData
    BY TcpConnectionAssumption DEF Init
  <2>3. registered \in BOOLEAN /\ shutWr \in BOOLEAN /\ fin \in BOOLEAN
        /\ rst \in BOOLEAN /\ reported \in BOOLEAN
    BY Zenon DEF Init
  <2> QED
    BY <2>1, <2>2, <2>3 DEF Init, TypeOK
<1> QED
  BY <1>1, TypeStep, PTL DEF Spec

-----------------------------------------------------------------------------
(* The invariant.  ClosedOnce and BacklogWatched need each other: send()   *)
(* and shutdown() are also called for a connection that is closed already. *)

\* Before handleCreate() there is nothing to send.
Created ==
  /\ at = "create" <=> status_ = "kConnecting"
  /\ at = "create" => events = {} /\ out = 0

\* No unit is lost or sent twice between out_buffer_ and the peer.
Conserved == rcvd + snd + out = queued

\* Nothing is put into out_buffer_ after SHUT_WR.
Sealed ==
  /\ shutWr => status_ \in {"kDisconnecting", "kDisconnected"}
  /\ shutWr /\ status_ = "kDisconnecting" /\ at # "killed" => out = 0

Inv == ClosedOnce /\ BacklogWatched /\ Created /\ Conserved /\ Sealed

\* Every handler, and whatever the peer does, keeps the invariant.
LEMMA InvStep == TypeOK /\ Inv /\ [Next]_vars => Inv'
<1> SUFFICES ASSUME TypeOK, Inv, [Next]_vars PROVE Inv'
  BY Zenon
<1> USE DEF TypeOK, Inv, ClosedOnce, BacklogWatched, Created, Conserved,
        Sealed, Step, connVars, threadVars, socketVars, peerVars
<1>1. CASE handleCreate
  BY <1>1 DEF handleCreate
<1>2. CASE poll
  BY <1>2, Zenon DEF poll
<1>3. CASE handleEventDone
  BY <1>3, Zenon DEF handleEventDone
<1>5. CASE handleClose
  BY <1>5 DEF handleClose, Close, InCallback
<1>6. CASE handleReadData
  BY <1>6, Zenon DEF handleReadData, InCallback
<1>7. CASE handleReadEnd
  BY <1>7 DEF handleReadEnd, Close, InCallback
<1>8. CASE handleReadIgnored
  BY <1>8, Zenon DEF handleReadIgnored, InCallback
<1>9. CASE onReadNothing
  BY <1>9, Zenon DEF onReadNothing
<1>10. CASE onReadReply
  BY <1>10, Zenon DEF onReadReply
<1>11. CASE sendLater
  <2>1. ClosedOnce'
    BY <1>11, Zenon DEF sendLater, AfterSend
  <2>2. BacklogWatched'
    BY <1>11 DEF sendLater, AfterSend
  <2>3. Created' /\ Conserved'
    BY <1>11, SMTT(60) DEF sendLater, AfterSend
  <2>4. Sealed'
    BY <1>11 DEF sendLater, AfterSend
  <2> QED
    BY ONLY <2>1, <2>2, <2>3, <2>4, Zenon DEF Inv
<1>12. CASE sendNow
  <2>1. PICK n \in 1..(out + reply.size) :
          /\ WriteTakes(n, out + reply.size)
          /\ snd' = snd + n
          /\ out' = out + reply.size - n
    BY <1>12, Zenon DEF sendNow
  <2>2. /\ at = "send" /\ "W" \notin events
        /\ queued' = queued + reply.size
        /\ UNCHANGED <<status_, registered, closes, reply, shutWr, peerVars>>
    BY <1>12, Zenon DEF sendNow
  <2>6. at' \in {"shutdown", "dispatch"}
    BY <1>12, Zenon DEF sendNow, AfterSend
  <2>3. ~shutWr
    BY <2>1, Zenon DEF WriteTakes, WriteRaises
  <2>4. Conserved'
    <3>1. /\ reply.size \in Nat /\ out \in Nat /\ snd \in Int /\ rcvd \in Nat
          /\ n \in Int /\ rcvd + snd + out = queued
      BY TcpConnectionAssumption
    <3>2. rcvd' = rcvd
      BY <2>2, Zenon
    <3>3. rcvd + (snd + n) + (out + reply.size - n) = queued + reply.size
      BY ONLY <3>1
    <3> QED
      BY <2>1, <2>2, <3>2, <3>3, Zenon
  <2>5. BacklogWatched'
    <3>1. CASE out' > 0
      <4>1. registered => interest' = events \cup {"W"} /\ events' = interest'
        BY <1>12, <3>1, Zenon DEF sendNow, Watch
      <4> QED
        BY <2>2, <3>1, <4>1, Zenon
    <3>2. CASE ~(out' > 0)
      BY <1>12, <2>2, <3>2 DEF sendNow
    <3> QED
      BY <3>1, <3>2, Zenon
  <2> QED
    BY <2>2, <2>3, <2>4, <2>5, <2>6, Zenon
<1>13. CASE sendFailed
  <2>1. ClosedOnce'
    BY <1>13 DEF sendFailed, Close, WriteFails, WriteRaises, AfterSend
  <2>2. BacklogWatched'
    BY <1>13, Zenon DEF sendFailed, Close, WriteFails, WriteRaises, AfterSend
  <2>3. Created' /\ Conserved'
    <3>1. Created'
      BY <1>13, SMT DEF sendFailed, Close, WriteFails, WriteRaises, AfterSend
    <3>2. Conserved'
      BY <1>13, SMTT(60) DEF sendFailed, Close, WriteFails, WriteRaises, AfterSend
    <3> QED
      BY <3>1, <3>2, Zenon
  <2>4. Sealed'
    BY <1>13, Zenon DEF sendFailed, Close, WriteFails, WriteRaises, AfterSend
  <2> QED
    BY ONLY <2>1, <2>2, <2>3, <2>4, Zenon DEF Inv
<1>14. CASE sendKilled
  BY <1>14, Zenon DEF sendKilled
<1>15. CASE shutdown
  BY <1>15 DEF shutdown, Shutdown
<1>16. CASE handleWrite
  <2>1. PICK n \in 1..out : WriteTakes(n, out) /\ snd' = snd + n /\ out' = out - n
    BY <1>16, Zenon DEF handleWrite
  <2>2. /\ at = "dispatch" /\ at' = "dispatch"
        /\ UNCHANGED <<registered, closes, queued, reply, peerVars>>
    BY <1>16, Zenon DEF handleWrite, InCallback
  <2>3. Conserved'
    BY <2>1, <2>2
  <2>4. CASE out' = 0
    <3>1. /\ events' = events \ {"W"}
          /\ registered => interest' = events'
          /\ AfterDrain(events \ {"W"})
      BY <1>16, <2>4, Zenon DEF handleWrite, Watch
    <3>2. BacklogWatched'
      BY <2>2, <2>4, <3>1
    <3>3. status_' = status_
      BY <3>1, Zenon DEF AfterDrain, Shutdown
    <3>4. shutWr' => shutWr \/ status_ = "kDisconnecting"
      BY <3>1, Zenon DEF AfterDrain
    <3> QED
      BY <2>2, <2>3, <2>4, <3>2, <3>3, <3>4, Zenon
  <2>5. CASE out' # 0
    <3>1. UNCHANGED <<events, interest, status_, shutWr>>
      BY <1>16, <2>5, Zenon DEF handleWrite
    <3>2. out > 0 /\ out' > 0
      BY <2>1, <2>5
    <3>3. BacklogWatched' /\ Sealed'
      BY <2>2, <3>1, <3>2
    <3> QED
      BY <2>2, <2>3, <3>1, <3>3, Zenon
  <2> QED
    BY <2>4, <2>5, Zenon
<1>17. CASE handleWriteFailed
  BY <1>17 DEF handleWriteFailed, Close, InCallback
<1>23. CASE handleWriteKilled
  BY <1>23, Zenon DEF handleWriteKilled, InCallback
<1>18. CASE PeerSend
  BY <1>18, Zenon DEF PeerSend
<1>19. CASE PeerRecv
  BY <1>19 DEF PeerRecv
<1>20. CASE PeerClose
  BY <1>20, Zenon DEF PeerClose
<1>21. CASE PeerReset
  BY <1>21, Zenon DEF PeerReset
<1>22. CASE UNCHANGED vars
  BY <1>22, Zenon DEF vars
<1> QED
  BY <1>1, <1>2, <1>3, <1>5, <1>6, <1>7, <1>8, <1>9, <1>10, <1>11, <1>12,
     <1>13, <1>14, <1>15, <1>16, <1>17, <1>18, <1>19, <1>20, <1>21, <1>22,
     <1>23, Zenon
  DEF Next, IoThread, Peer

\* The invariant holds in every state.
LEMMA InvHolds == Spec => [](TypeOK /\ Inv)
<1>1. Init => Inv
  BY DEF Init, Inv, ClosedOnce, BacklogWatched, Created, Conserved, Sealed
<1> QED
  BY <1>1, InvStep, TypeCorrect, PTL DEF Spec

\* The connection is in the poller while it is open, and closed once.
THEOREM ClosesOnce == Spec => []ClosedOnce
<1>1. Inv => ClosedOnce
  BY Zenon DEF Inv
<1> QED
  BY <1>1, InvHolds, PTL

\* The kernel watches for writability exactly while there is a backlog.
THEOREM BacklogIsWatched == Spec => []BacklogWatched
<1>1. Inv => BacklogWatched
  BY Zenon DEF Inv
<1> QED
  BY <1>1, InvHolds, PTL

\* The end of the stream comes after every unit of every response.
THEOREM AllDelivered == Spec => []DeliveredBeforeEnd
<1>1. TypeOK /\ Inv => DeliveredBeforeEnd
  BY DEF TypeOK, Inv, Conserved, Sealed, DeliveredBeforeEnd
<1> QED
  BY <1>1, InvHolds, PTL

\* shutdown() sends SHUT_WR only when out_buffer_ is empty.
THEOREM ShutdownWaits == Spec => ShutdownAfterBacklog
<1>1. TypeOK /\ Inv /\ Inv' /\ [Next]_vars =>
        [~shutWr /\ shutWr' => out' = 0]_vars
  <2> SUFFICES ASSUME TypeOK, Inv, Next, ~shutWr, shutWr' PROVE out' = 0
    BY Zenon DEF Inv
  <2>1. shutdown \/ handleWrite
    BY Zenon DEF Next, IoThread, Peer, handleCreate, poll, handleEventDone,
       handleClose, handleReadData, handleReadEnd, handleReadIgnored,
       onReadNothing, onReadReply, sendLater, sendNow, sendFailed, sendKilled,
       handleWriteFailed, handleWriteKilled, PeerSend, PeerRecv, PeerClose, PeerReset,
       socketVars
  <2>2. CASE shutdown
    <3>1. /\ status_ # "kDisconnected" /\ "W" \notin events
          /\ at # "create" /\ out' = out
      BY <2>2, Zenon DEF shutdown, Shutdown
    <3>2. status_ \in {"kConnected", "kDisconnecting"}
      BY <3>1, Zenon DEF TypeOK, Inv, Created
    <3> QED
      BY <3>1, <3>2 DEF TypeOK, Inv, ClosedOnce, BacklogWatched
  <2>3. CASE handleWrite
    BY <2>3, Zenon DEF handleWrite
  <2> QED
    BY <2>1, <2>2, <2>3, Zenon
<1> QED
  BY <1>1, InvHolds, PTL DEF Spec, ShutdownAfterBacklog

\* A connection that is closed stays closed: shutdown(), which a failed send()
\* may precede, tests for it, and so does handleClose() in every callback.
LEMMA StatusStep ==
  ASSUME TypeOK, Inv, Next, status_' # status_
  PROVE  \/ status_ = "kConnecting" /\ status_' = "kConnected"
         \/ /\ status_ \in {"kConnected", "kDisconnecting"}
            /\ status_' \in {"kDisconnecting", "kDisconnected"}
<1>1. CASE handleCreate
  BY <1>1, Zenon DEF handleCreate, Inv, Created
<1>2. CASE ~handleCreate
  <2>1. /\ at # "create" /\ status_ # "kDisconnected"
        /\ status_' \in {"kDisconnecting", "kDisconnected"}
    BY <1>2, Zenon DEF Next, IoThread, Peer, poll, handleEventDone,
       handleClose, handleReadData, handleReadEnd, handleReadIgnored,
       onReadNothing, onReadReply, sendLater, sendNow, sendFailed, sendKilled,
       shutdown, handleWrite, handleWriteFailed, handleWriteKilled, PeerSend, PeerRecv,
       PeerClose, PeerReset, InCallback, Close, Shutdown, AfterDrain, connVars, peerVars
  <2> QED
    BY <2>1, Zenon DEF TypeOK, Inv, Created
<1> QED
  BY <1>1, <1>2, Zenon

\* A connection goes through the stages that the server counts on.
THEOREM RefinesLife == Spec => ImplementsLife
<1> DEFINE shown(status) ==
      IF status = "kDisconnecting" THEN "kConnected" ELSE status
<1> DEFINE stages == [c \in {"this"} |-> shown(status_)]
<1>1. Init => Life!Init
  BY Zenon DEF Init, Life!Init
<1>2. TypeOK /\ Inv /\ [Next]_vars => [Life!Next]_stages
  <2> SUFFICES ASSUME TypeOK, Inv, [Next]_vars, stages' # stages
               PROVE  Life!Next
    BY Zenon
  <2>1. status_' # status_
    BY Zenon
  <2>2. Next
    BY <2>1, Zenon DEF vars, connVars
  <2>3. /\ stages["this"] = shown(status_) /\ stages'["this"] = shown(status_')
        /\ stages' = [stages EXCEPT !["this"] = stages'["this"]]
    BY SMT
  <2>4. shown(status_') # shown(status_)
    BY Zenon
  <2>5. CASE status_ = "kConnecting" /\ status_' = "kConnected"
    <3>1. <<shown(status_), shown(status_')>> \in Life!Follows
      BY <2>5, Zenon DEF Life!Follows
    <3> QED
      BY <2>3, <3>1, Zenon DEF Life!Next
  <2>6. CASE /\ status_ \in {"kConnected", "kDisconnecting"}
             /\ status_' \in {"kDisconnecting", "kDisconnected"}
    <3>1. shown(status_) = "kConnected" /\ shown(status_') = "kDisconnected"
      BY <2>4, <2>6, Zenon
    <3>2. <<shown(status_), shown(status_')>> \in Life!Follows
      BY <3>1, Zenon DEF Life!Follows
    <3> QED
      BY <2>3, <3>2, Zenon DEF Life!Next
  <2> QED
    BY <2>1, <2>2, <2>5, <2>6, StatusStep, Zenon
<1> QED
  BY <1>1, <1>2, InvHolds, PTL DEF Spec, ImplementsLife, Life!Spec

-----------------------------------------------------------------------------
(* The buffer.                                                             *)

\* The type invariant together with the order of the indices is inductive.
BufferInv == BufferTypeOK /\ IndexOrder /\ StorageBound

\* A vector of a connection: indices in order, inside the vector.
Valid(vec, r, w) ==
  /\ vec \in Seq(Byte)
  /\ r \in Nat /\ w \in Nat
  /\ kPrependSize <= r /\ r <= w /\ w <= Len(vec)

\* Copying inside the vector keeps its length; what was copied is there, and
\* the rest is as before.
LEMMA CopyToProperties ==
  ASSUME NEW vec \in Seq(Byte), NEW pos \in Nat, NEW data \in Seq(Byte),
         pos + Len(data) <= Len(vec)
  PROVE  /\ CopyTo(vec, pos, data) \in Seq(Byte)
         /\ Len(CopyTo(vec, pos, data)) = Len(vec)
         /\ \A i \in 1..Len(vec) :
              CopyTo(vec, pos, data)[i] =
                IF i \in (pos + 1)..(pos + Len(data)) THEN data[i - pos]
                                                    ELSE vec[i]
<1> DEFINE c == [i \in 1..Len(vec) |->
                   IF i \in (pos + 1)..(pos + Len(data)) THEN data[i - pos]
                                                       ELSE vec[i]]
<1>1. CopyTo(vec, pos, data) = c
  BY Zenon DEF CopyTo
<1>2. \A i \in 1..Len(vec) : c[i] \in Byte
  OBVIOUS
<1>3. c \in [1..Len(vec) -> Byte]
  BY <1>2, Zenon
<1>4. c \in Seq(Byte) /\ Len(c) = Len(vec)
  BY <1>3
<1> QED
  BY <1>1, <1>4, Zenon

\* Resizing keeps the elements that fit.
LEMMA ResizeProperties ==
  ASSUME NEW vec \in Seq(Byte), NEW n \in Nat
  PROVE  /\ Resize(vec, n) \in Seq(Byte)
         /\ Len(Resize(vec, n)) = n
         /\ \A i \in 1..n : i <= Len(vec) => Resize(vec, n)[i] = vec[i]
<1> DEFINE c == [i \in 1..n |-> IF i <= Len(vec) THEN vec[i] ELSE Zero]
<1>1. Resize(vec, n) = c
  BY Zenon DEF Resize
<1>2. \A i \in 1..n : c[i] \in Byte
  BY BufferAssumption
<1>3. c \in [1..n -> Byte]
  BY <1>2, Zenon
<1>4. c \in Seq(Byte) /\ Len(c) = n
  BY <1>3
<1> QED
  BY <1>1, <1>4, Zenon

\* The unread bytes of a valid vector.
LEMMA SliceProperties ==
  ASSUME NEW vec, NEW r, NEW w, Valid(vec, r, w)
  PROVE  /\ Slice(vec, r, w) \in Seq(Byte)
         /\ Len(Slice(vec, r, w)) = w - r
         /\ \A i \in 1..(w - r) : Slice(vec, r, w)[i] = vec[r + i]
<1>1. \A i \in (r + 1)..w : vec[i] \in Byte
  BY BufferAssumption DEF Valid
<1>2. r + 1 \in Int /\ w \in Int
  BY DEF Valid
<1> QED
  BY <1>1, <1>2, SMT DEF Valid, Slice

\* The unread bytes are s when they agree with s one by one.
LEMMA SliceEqual ==
  ASSUME NEW vec, NEW r, NEW w, Valid(vec, r, w),
         NEW s \in Seq(Byte), Len(s) = w - r,
         \A i \in 1..Len(s) : vec[r + i] = s[i]
  PROVE  Slice(vec, r, w) = s
<1> DEFINE t == Slice(vec, r, w)
<1>1. t \in Seq(Byte) /\ Len(t) = Len(s) /\ \A i \in 1..Len(s) : t[i] = vec[r + i]
  BY SliceProperties
<1> HIDE DEF t
<1>2. t = s
  BY <1>1, SeqEqual, Zenon
<1> QED
  BY <1>2, Zenon DEF t

\* From offset r on, the vector holds old and then data.
Holds(vec, r, old, data) ==
  /\ \A i \in 1..Len(old) : vec[r + i] = old[i]
  /\ \A i \in 1..Len(data) : vec[r + Len(old) + i] = data[i]

\* The unread bytes are two sequences one behind the other.
LEMMA SliceJoined ==
  ASSUME NEW vec, NEW r, NEW w, Valid(vec, r, w),
         NEW old \in Seq(Byte), NEW data \in Seq(Byte),
         w = r + Len(old) + Len(data), Holds(vec, r, old, data)
  PROVE  Slice(vec, r, w) = old \o data
<1> DEFINE s == old \o data
<1>1. s \in Seq(Byte) /\ Len(s) = Len(old) + Len(data) /\ Len(s) = w - r
  BY DEF Valid
<1>2. ASSUME NEW i \in 1..Len(s) PROVE vec[r + i] = s[i]
  <2>1. CASE i <= Len(old)
    BY <2>1 DEF Holds
  <2>2. CASE i > Len(old)
    <3>1. i - Len(old) \in 1..Len(data)
      BY <2>2, <1>1
    <3>2. r + Len(old) + (i - Len(old)) = r + i
      BY DEF Valid
    <3>3. s[i] = data[i - Len(old)]
      BY <2>2, <1>1
    <3> QED
      BY <3>1, <3>2, <3>3, Zenon DEF Holds
  <2> QED
    BY <2>1, <2>2, <1>1
<1> HIDE DEF s
<1>3. Slice(vec, r, w) = s
  BY <1>1, <1>2, SliceEqual
<1> QED
  BY <1>3, Zenon DEF s

\* What append() does: the indices stay valid, the vector only grows when the
\* space before the reader is too small, and then to less than the unread
\* bytes plus twice the new ones, and the new bytes follow the unread ones.
LEMMA AppendedProperties ==
  ASSUME NEW vec, NEW r, NEW w, NEW data \in Seq(Byte), Valid(vec, r, w),
         NEW b, b = Appended(vec, r, w, data)
  PROVE  /\ Valid(b.vec, b.r, b.w)
         /\ \/ Len(b.vec) = Len(vec)
            \/ Len(b.vec) < kPrependSize + (w - r) + 2 * Len(data)
         /\ Slice(b.vec, b.r, b.w) = Slice(vec, r, w) \o data
<1> DEFINE old == Slice(vec, r, w)
           k == kPrependSize
           n == Len(data)
<1>1. /\ old \in Seq(Byte)
      /\ Len(old) = w - r
      /\ \A i \in 1..Len(old) : old[i] = vec[r + i]
  BY SliceProperties
<1>2. /\ vec \in Seq(Byte) /\ Len(vec) \in Nat
      /\ r \in Nat /\ w \in Nat /\ k \in Nat /\ n \in Nat
      /\ Len(old) \in Nat /\ w = r + Len(old)
      /\ k <= r /\ w <= Len(vec)
  BY <1>1, BufferAssumption DEF Valid
<1>3. CASE r - k >= n
  <2> DEFINE m == k + (w - r)
             v1 == CopyTo(vec, k, old)
             v2 == CopyTo(v1, m, data)
             e == m + n
  <2>1. b.vec = v2 /\ b.r = k /\ b.w = e
    BY <1>3, Zenon DEF Appended
  <2>2. /\ m = k + Len(old) /\ m \in Nat /\ k + Len(old) <= Len(vec)
        /\ e = m + n /\ e = k + Len(old) + n /\ e \in Nat /\ e <= Len(vec)
    BY <1>2, <1>3, SMTT(60)
  <2> HIDE DEF old, n, k, m, e
  <2>3. /\ v1 \in Seq(Byte)
        /\ Len(v1) = Len(vec)
        /\ \A i \in 1..Len(vec) :
             v1[i] = IF i \in (k + 1)..(k + Len(old)) THEN old[i - k]
                                                      ELSE vec[i]
    <3>1. /\ vec \in Seq(Byte) /\ k \in Nat /\ old \in Seq(Byte)
          /\ k + Len(old) <= Len(vec)
      BY <2>2, <1>1, <1>2, Zenon
    <3> QED
      BY ONLY <3>1, CopyToProperties
  <2> HIDE DEF v1
  <2>4. /\ v2 \in Seq(Byte)
        /\ Len(v2) = Len(vec)
        /\ \A i \in 1..Len(vec) :
             v2[i] = IF i \in (m + 1)..(m + n) THEN data[i - m] ELSE v1[i]
    <3>1. /\ v1 \in Seq(Byte) /\ m \in Nat /\ data \in Seq(Byte)
          /\ m + Len(data) <= Len(v1)
      BY <1>2, <2>2, <2>3, Zenon DEF n
    <3>2. /\ v2 \in Seq(Byte)
          /\ Len(v2) = Len(v1)
          /\ \A i \in 1..Len(v1) :
               v2[i] = IF i \in (m + 1)..(m + Len(data)) THEN data[i - m]
                                                         ELSE v1[i]
      BY ONLY <3>1, CopyToProperties, ZenonT(60)
    <3> HIDE DEF v2
    <3> QED
      BY ONLY <3>2, <2>3, Zenon DEF n
  <2> HIDE DEF v2
  <2>5. ASSUME NEW i \in 1..Len(old) PROVE v2[k + i] = old[i]
    <3>1. /\ k + i \in 1..Len(vec)
          /\ k + i \in (k + 1)..(k + Len(old))
          /\ ~(k + i \in (m + 1)..(m + n))
          /\ (k + i) - k = i
      BY <1>2, <2>2
    <3> QED
      BY <3>1, <2>3, <2>4, Zenon
  <2>6. ASSUME NEW i \in 1..n PROVE v2[k + Len(old) + i] = data[i]
    <3>1. /\ m + i \in 1..Len(vec)
          /\ m + i \in (m + 1)..(m + n)
          /\ (m + i) - m = i
          /\ k + Len(old) + i = m + i
      BY <1>2, <2>2
    <3> QED
      BY <3>1, <2>4, Zenon
  <2>7. Valid(v2, k, e)
    BY <2>4, <2>2, <1>2 DEF Valid, k
  <2>8. Slice(v2, k, e) = old \o data
    <3>1. /\ old \in Seq(Byte) /\ data \in Seq(Byte)
          /\ e = k + Len(old) + Len(data)
          /\ Holds(v2, k, old, data)
      BY <1>1, <2>2, <2>5, <2>6, Zenon DEF n, Holds
    <3> QED
      BY <3>1, <2>7, SliceJoined, ZenonT(60)
  <2> QED
    BY <2>1, <2>4, <2>7, <2>8, Zenon DEF old
<1>4. CASE ~(r - k >= n)
  <2> DEFINE m == w + n
             v1 == Resize(vec, m)
             v2 == CopyTo(v1, w, data)
  <2>1. b.vec = v2 /\ b.r = r /\ b.w = m
    BY <1>4, Zenon DEF Appended
  <2>2. m = w + n /\ m = r + Len(old) + n /\ m \in Nat
    BY <1>2, SMTT(60)
  <2> HIDE DEF old, n, k, m
  <2>3. /\ v1 \in Seq(Byte)
        /\ Len(v1) = m
        /\ \A i \in 1..m : i <= Len(vec) => v1[i] = vec[i]
    BY <1>2, <2>2, ResizeProperties, Zenon
  <2> HIDE DEF v1
  <2>4. /\ v2 \in Seq(Byte)
        /\ Len(v2) = m
        /\ \A i \in 1..m :
             v2[i] = IF i \in (w + 1)..(w + n) THEN data[i - w] ELSE v1[i]
    <3>1. /\ v1 \in Seq(Byte) /\ w \in Nat /\ data \in Seq(Byte)
          /\ w + Len(data) <= Len(v1)
      BY <1>2, <2>2, <2>3 DEF n
    <3>2. /\ v2 \in Seq(Byte)
          /\ Len(v2) = Len(v1)
          /\ \A i \in 1..Len(v1) :
               v2[i] = IF i \in (w + 1)..(w + Len(data)) THEN data[i - w]
                                                         ELSE v1[i]
      BY ONLY <3>1, CopyToProperties, Zenon
    <3> HIDE DEF v2
    <3> QED
      BY ONLY <3>2, <2>3, Zenon DEF n
  <2> HIDE DEF v2
  <2>5. ASSUME NEW i \in 1..Len(old) PROVE v2[r + i] = old[i]
    <3>1. /\ r + i \in 1..m
          /\ ~(r + i \in (w + 1)..(w + n))
          /\ r + i <= Len(vec)
      BY <1>2, <2>2
    <3> QED
      BY <3>1, <2>3, <2>4, <1>1, Zenon
  <2>6. ASSUME NEW i \in 1..n PROVE v2[r + Len(old) + i] = data[i]
    <3>1. /\ w + i \in 1..m
          /\ w + i \in (w + 1)..(w + n)
          /\ (w + i) - w = i
          /\ r + Len(old) + i = w + i
      BY <1>2, <2>2
    <3> QED
      BY <3>1, <2>4, Zenon
  <2>7. Valid(v2, r, m)
    BY <2>2, <2>4, <1>2 DEF Valid, k
  <2>8. Len(v2) < kPrependSize + (w - r) + 2 * Len(data)
    BY <1>4, <2>2, <2>4, <1>2 DEF k, n
  <2>9. Slice(v2, r, m) = old \o data
    <3>1. /\ old \in Seq(Byte) /\ data \in Seq(Byte)
          /\ m = r + Len(old) + Len(data)
          /\ Holds(v2, r, old, data)
      BY <1>1, <2>2, <2>5, <2>6, Zenon DEF n, Holds
    <3> QED
      BY <3>1, <2>7, SliceJoined, SMTT(60)
  <2> QED
    BY <2>1, <2>7, <2>8, <2>9, Zenon DEF old
<1> QED
  BY <1>3, <1>4, Zenon

\* What readv() does to the free space: the bytes follow the unread ones.
LEMMA FilledProperties ==
  ASSUME NEW vec, NEW r, NEW w, NEW data \in Seq(Byte), Valid(vec, r, w),
         NEW e, e = w + Len(data), e <= Len(vec),
         NEW v, v = CopyTo(vec, w, data)
  PROVE  /\ Valid(v, r, e)
         /\ Len(v) = Len(vec)
         /\ Slice(v, r, e) = Slice(vec, r, w) \o data
<1> DEFINE old == Slice(vec, r, w)
<1>1. /\ old \in Seq(Byte)
      /\ Len(old) = w - r
      /\ \A i \in 1..Len(old) : old[i] = vec[r + i]
  BY SliceProperties
<1> HIDE DEF old
<1>2. /\ vec \in Seq(Byte) /\ Len(vec) \in Nat
      /\ r \in Nat /\ w \in Nat /\ w <= Len(vec)
      /\ Len(old) \in Nat /\ w = r + Len(old)
  BY <1>1 DEF Valid
<1>3. /\ v \in Seq(Byte)
      /\ Len(v) = Len(vec)
      /\ \A i \in 1..Len(vec) :
           v[i] = IF i \in (w + 1)..(w + Len(data)) THEN data[i - w]
                                                    ELSE vec[i]
  BY <1>2, CopyToProperties, SMTT(60)
<1>4. Valid(v, r, e)
  BY <1>2, <1>3, BufferAssumption DEF Valid
<1>5. Holds(v, r, old, data)
  <2>1. ASSUME NEW i \in 1..Len(old) PROVE v[r + i] = old[i]
    <3>1. r + i \in 1..Len(vec) /\ ~(r + i \in (w + 1)..(w + Len(data)))
      BY <1>2
    <3> QED
      BY <3>1, <1>1, <1>3, Zenon
  <2>2. ASSUME NEW i \in 1..Len(data) PROVE v[r + Len(old) + i] = data[i]
    <3>1. /\ w + i \in 1..Len(vec)
          /\ w + i \in (w + 1)..(w + Len(data))
          /\ (w + i) - w = i
          /\ r + Len(old) + i = w + i
      BY <1>2
    <3> QED
      BY <3>1, <1>3, Zenon
  <2> QED
    BY <2>1, <2>2, Zenon DEF Holds
<1>6. Slice(v, r, e) = old \o data
  <2>1. e = r + Len(old) + Len(data)
    BY <1>2, Zenon
  <2> QED
    BY <2>1, <1>1, <1>4, <1>5, SliceJoined, SMTT(60)
<1> QED
  BY <1>3, <1>4, <1>6, Zenon DEF old

\* A chunk is a byte sequence of bounded length, and can be cut in two.
LEMMA ChunkProperties ==
  ASSUME NEW data \in Chunks
  PROVE  /\ data \in Seq(Byte)
         /\ Len(data) \in 0..MaxLen
         /\ \A n \in 0..Len(data) :
              /\ SubSeq(data, 1, n) \in Seq(Byte)
              /\ Len(SubSeq(data, 1, n)) = n
              /\ SubSeq(data, n + 1, Len(data)) \in Seq(Byte)
              /\ Len(SubSeq(data, n + 1, Len(data))) = Len(data) - n
              /\ SubSeq(data, 1, n) \o SubSeq(data, n + 1, Len(data)) = data
<1>1. data \in Seq(Byte) /\ Len(data) \in 0..MaxLen
  BY BufferAssumption DEF Chunks
<1>2. ASSUME NEW n \in 0..Len(data)
      PROVE  /\ SubSeq(data, 1, n) \in Seq(Byte)
             /\ Len(SubSeq(data, 1, n)) = n
             /\ SubSeq(data, n + 1, Len(data)) \in Seq(Byte)
             /\ Len(SubSeq(data, n + 1, Len(data))) = Len(data) - n
  BY <1>1
<1>3. ASSUME NEW n \in 0..Len(data)
      PROVE  SubSeq(data, 1, n) \o SubSeq(data, n + 1, Len(data)) = data
  <2> DEFINE u == SubSeq(data, 1, n)
             v == SubSeq(data, n + 1, Len(data))
  <2>1. /\ u \in Seq(Byte) /\ Len(u) = n
        /\ v \in Seq(Byte) /\ Len(v) = Len(data) - n
        /\ \A i \in 1..n : u[i] = data[i]
        /\ \A i \in 1..(Len(data) - n) : v[i] = data[n + i]
    BY <1>1
  <2> HIDE DEF u, v
  <2>2. u \o v \in Seq(Byte) /\ Len(u \o v) = Len(data)
    <3>1. u \o v \in Seq(Byte) /\ Len(u \o v) = Len(u) + Len(v)
      BY <2>1, SeqConcat, Zenon
    <3>2. Len(u) + Len(v) = Len(data)
      BY <2>1, <1>1
    <3> QED
      BY <3>1, <3>2, Zenon
  <2>3. ASSUME NEW i \in 1..Len(data) PROVE (u \o v)[i] = data[i]
    BY <2>1, <1>1
  <2>4. u \o v = data
    BY <2>2, <2>3, <1>1, SeqEqual, Zenon
  <2> QED
    BY <2>4, Zenon DEF u, v
<1> QED
  BY <1>1, <1>2, <1>3, Zenon

-----------------------------------------------------------------------------
(* The steps of a buffer.                                                  *)

\* append() puts its bytes at the end and keeps the invariant.
LEMMA AppendStep ==
  ASSUME BufferInv, NEW data \in Chunks, append(data)
  PROVE  BufferInv' /\ Readable' = Readable \o data
<1> DEFINE b == Appended(buffer_, reader_index_, writer_index_, data)
<1>1. data \in Seq(Byte) /\ Len(data) \in 0..MaxLen
  BY ChunkProperties, Zenon
<1>2. Valid(buffer_, reader_index_, writer_index_)
  BY Zenon DEF BufferInv, BufferTypeOK, IndexOrder, Valid
<1>3. buffer_' = b.vec /\ reader_index_' = b.r /\ writer_index_' = b.w
  BY Zenon DEF append, Become
<1>4. /\ Valid(b.vec, b.r, b.w)
      /\ \/ Len(b.vec) = Len(buffer_)
         \/ Len(b.vec) < kPrependSize + readableSize + 2 * Len(data)
      /\ Slice(b.vec, b.r, b.w) = Readable \o data
  BY <1>1, <1>2, AppendedProperties DEF Readable, readableSize
<1> HIDE DEF b
<1>5. StorageBound'
  <2>1. /\ readableSize + Len(data) <= MaxBuffered
        /\ readableSize \in Nat
    BY <1>2 DEF append, readableSize, Valid
  <2> QED
    BY <1>1, <1>3, <1>4, <2>1, BufferAssumption, SMTT(60) DEF BufferInv, StorageBound, Valid
<1> QED
  BY <1>3, <1>4, <1>5, Zenon DEF BufferInv, BufferTypeOK, IndexOrder, Valid, Readable

\* writeFromFD() puts the bytes it read at the end, in the free space or, when
\* they do not fit there, through append().
LEMMA WriteFromFDStep ==
  ASSUME BufferInv, NEW data \in Chunks, writeFromFD(data)
  PROVE  BufferInv' /\ Readable' = Readable \o data
<1> DEFINE ws == writableSize
<1>1. data \in Seq(Byte) /\ Len(data) \in 0..MaxLen
  BY ChunkProperties, Zenon
<1>2. Valid(buffer_, reader_index_, writer_index_) /\ StorageBound
  BY Zenon DEF BufferInv, BufferTypeOK, IndexOrder, Valid
<1>3. /\ readableSize + Len(data) <= MaxBuffered
      /\ readableSize \in Nat /\ ws \in Nat
      /\ readableSize = writer_index_ - reader_index_
      /\ writer_index_ + ws = Len(buffer_)
  BY <1>2 DEF writeFromFD, readableSize, writableSize, Valid
<1>4. CASE Len(data) <= ws
  <2> DEFINE v == CopyTo(buffer_, writer_index_, data)
             e == writer_index_ + Len(data)
  <2>1. buffer_' = v /\ reader_index_' = reader_index_ /\ writer_index_' = e
    BY <1>4, Zenon DEF writeFromFD, Become
  <2>2. e = writer_index_ + Len(data) /\ e <= Len(buffer_)
    BY <1>1, <1>2, <1>3, <1>4 DEF Valid
  <2> HIDE DEF e
  <2>3. /\ Valid(v, reader_index_, e)
        /\ Len(v) = Len(buffer_)
        /\ Slice(v, reader_index_, e) = Readable \o data
    BY <1>1, <1>2, <2>2, FilledProperties, SMTT(60) DEF Readable
  <2> QED
    BY <1>2, <2>1, <2>3, Zenon
    DEF BufferInv, BufferTypeOK, IndexOrder, StorageBound, Valid, Readable
<1>5. CASE ~(Len(data) <= ws)
  <2> DEFINE u == SubSeq(data, 1, ws)
             t == SubSeq(data, ws + 1, Len(data))
             v == CopyTo(buffer_, writer_index_, u)
             e == writer_index_ + ws
             b == Appended(v, reader_index_, e, t)
  <2>1. buffer_' = b.vec /\ reader_index_' = b.r /\ writer_index_' = b.w
    BY <1>5, Zenon DEF writeFromFD, Become
  <2>2. ws \in 0..Len(data)
    BY <1>1, <1>3, <1>5
  <2>3. /\ u \in Seq(Byte) /\ Len(u) = ws
        /\ t \in Seq(Byte) /\ Len(t) = Len(data) - ws
        /\ u \o t = data
    BY <2>2, ChunkProperties, Zenon
  <2> HIDE DEF u, t
  <2>4. e = writer_index_ + Len(u) /\ e = Len(buffer_) /\ e <= Len(buffer_)
    BY <1>2, <1>3, <2>3 DEF Valid
  <2> HIDE DEF e, ws
  <2>5. /\ Valid(v, reader_index_, e)
        /\ Len(v) = Len(buffer_)
        /\ Slice(v, reader_index_, e) = Readable \o u
    <3>1. /\ Valid(buffer_, reader_index_, writer_index_) /\ u \in Seq(Byte)
          /\ e = writer_index_ + Len(u) /\ e <= Len(buffer_)
      BY <1>2, <2>3, <2>4, Zenon
    <3>2. /\ Valid(v, reader_index_, e)
          /\ Len(v) = Len(buffer_)
          /\ Slice(v, reader_index_, e)
               = Slice(buffer_, reader_index_, writer_index_) \o u
      BY ONLY <3>1, FilledProperties, SMTT(60)
    <3> QED
      BY ONLY <3>2, Zenon DEF Readable
  <2> HIDE DEF v
  <2>6. t \in Seq(Byte) /\ Valid(v, reader_index_, e)
    BY <2>3, <2>5, Zenon
  <2>7. /\ Valid(b.vec, b.r, b.w)
        /\ \/ Len(b.vec) = Len(v)
           \/ Len(b.vec) < kPrependSize + (e - reader_index_) + 2 * Len(t)
        /\ Slice(b.vec, b.r, b.w) = Slice(v, reader_index_, e) \o t
    BY ONLY <2>6, AppendedProperties
  <2> HIDE DEF b
  <2>8. Slice(v, reader_index_, e) \o t = Readable \o data
    <3>1. Readable \in Seq(Byte)
      BY <1>2, SliceProperties, Zenon DEF Readable
    <3>2. \A x, y, z \in Seq(Byte) : (x \o y) \o z = x \o (y \o z)
      BY ONLY SMTT(60)
    <3>3. (Readable \o u) \o t = Readable \o (u \o t)
      BY <3>1, <3>2, <2>3, Zenon
    <3> QED
      BY <3>3, <2>3, <2>5, Zenon
  <2>9. StorageBound'
    <3>1. e - reader_index_ = readableSize + ws
      BY <1>2, <1>3, <2>4 DEF Valid
    <3>2. Len(t) = Len(data) - ws /\ Len(t) <= MaxLen
      BY <1>1, <2>2, <2>3, BufferAssumption
    <3>3. /\ Len(buffer_') \in Nat
          /\ e \in Nat /\ reader_index_ \in Nat
          /\ Len(t) \in Nat /\ Len(data) \in Nat
      <4>1. b.vec \in Seq(Byte) /\ e \in Nat /\ reader_index_ \in Nat
        BY ONLY <2>5, <2>7, Zenon DEF Valid
      <4> QED
        BY ONLY <4>1, <1>1, <2>1, <2>3
    <3>4. (e - reader_index_) + Len(t) <= MaxBuffered
      <4>1. /\ ws \in Nat /\ readableSize \in Nat /\ MaxBuffered \in Nat
            /\ readableSize + Len(data) <= MaxBuffered
        BY ONLY <1>3, BufferAssumption, Zenon
      <4>2. Len(t) = Len(data) - ws /\ Len(data) \in Nat
        BY ONLY <3>2, <3>3, Zenon
      <4>3. readableSize + ws + (Len(data) - ws) <= MaxBuffered
        BY ONLY <4>1, <4>2
      <4> QED
        BY ONLY <4>2, <4>3, <3>1, Zenon
    <3>5. \/ Len(buffer_') = Len(buffer_)
          \/ Len(buffer_') < kPrependSize + (e - reader_index_) + 2 * Len(t)
      BY <2>1, <2>5, <2>7, Zenon
    <3> QED
      <4>1. CASE Len(buffer_') = Len(buffer_)
        BY ONLY <4>1, <1>2, Zenon DEF StorageBound
      <4>2. CASE Len(buffer_') < kPrependSize + (e - reader_index_) + 2 * Len(t)
        <5> DEFINE d == e - reader_index_
        <5>1. d \in Int /\ d + Len(t) <= MaxBuffered
          BY ONLY <3>3, <3>4
        <5>2. Len(buffer_') < kPrependSize + d + 2 * Len(t)
          BY ONLY <4>2, Zenon
        <5> HIDE DEF d
        <5>3. /\ kPrependSize \in Nat /\ MaxBuffered \in Nat /\ MaxLen \in Nat
          BY ONLY BufferAssumption, Zenon
        <5>4. Len(buffer_') < kPrependSize + MaxBuffered + MaxLen
          BY ONLY <5>1, <5>2, <5>3, <3>2, <3>3, SMTT(60)
        <5> QED
          BY ONLY <5>4, Zenon DEF StorageBound
      <4> QED
        BY ONLY <4>1, <4>2, <3>5, Zenon
  <2> QED
    BY <2>1, <2>7, <2>8, <2>9, Zenon DEF BufferInv, BufferTypeOK, IndexOrder, Valid, Readable
<1> QED
  BY <1>4, <1>5, Zenon

\* read(), readUntil(), readAll() and readToFD() take bytes from the front and
\* keep the invariant.
LEMMA TakeStep ==
  ASSUME BufferInv, NEW n \in 0..readableSize,
         buffer_' = buffer_,
         \/ reader_index_' = reader_index_ + n /\ writer_index_' = writer_index_
         \/ /\ n = readableSize
            /\ reader_index_' = kPrependSize /\ writer_index_' = kPrependSize
  PROVE  /\ BufferInv'
         /\ n \in 0..Len(Readable)
         /\ Readable' = SubSeq(Readable, n + 1, Len(Readable))
<1>1. Valid(buffer_, reader_index_, writer_index_)
  BY Zenon DEF BufferInv, BufferTypeOK, IndexOrder, Valid
<1>2. /\ Readable \in Seq(Byte)
      /\ Len(Readable) = readableSize
      /\ \A i \in 1..readableSize : Readable[i] = buffer_[reader_index_ + i]
  BY <1>1, SliceProperties DEF Readable, readableSize
<1>3. Valid(buffer_', reader_index_', writer_index_')
  BY <1>1, BufferAssumption DEF Valid, readableSize
<1>4. BufferInv'
  BY <1>3, Zenon DEF BufferInv, BufferTypeOK, IndexOrder, StorageBound, Valid
<1> DEFINE s == SubSeq(Readable, n + 1, Len(Readable))
<1>5. readableSize \in Nat /\ readableSize = writer_index_ - reader_index_
  BY <1>1 DEF Valid, readableSize
<1>6. /\ s \in Seq(Byte)
      /\ Len(s) = readableSize - n
      /\ \A i \in 1..Len(s) : s[i] = Readable[n + i]
  BY <1>2, <1>5
<1> HIDE DEF s
<1>7. Len(s) = writer_index_' - reader_index_'
  BY <1>1, <1>5, <1>6, BufferAssumption DEF Valid
<1>8. ASSUME NEW i \in 1..Len(s) PROVE buffer_'[reader_index_' + i] = s[i]
  <2>1. n + i \in 1..readableSize /\ n # readableSize
    BY <1>5, <1>6
  <2>2. reader_index_ + (n + i) = reader_index_' + i
    BY <2>1, <1>1 DEF Valid
  <2> QED
    BY <2>1, <2>2, <1>2, <1>6, Zenon
<1>9. Slice(buffer_', reader_index_', writer_index_') = s
  BY <1>3, <1>6, <1>7, <1>8, SliceEqual
<1> QED
  BY <1>2, <1>4, <1>9, Zenon DEF Readable, s

\* Every step that takes bytes is one of the two kinds of TakeStep.
LEMMA TakingStep ==
  ASSUME BufferInv,
         \/ readAll
         \/ \E len \in 0..(MaxBuffered + 1) : read(len)
         \/ \E iter \in 0..Len(buffer_) : readUntil(iter)
         \/ \E n \in 0..readableSize : readToFD(n)
         \/ UNCHANGED bufferVars
  PROVE  \E n \in 0..readableSize :
           /\ buffer_' = buffer_
           /\ \/ /\ reader_index_' = reader_index_ + n
                 /\ writer_index_' = writer_index_
              \/ /\ n = readableSize
                 /\ reader_index_' = kPrependSize
                 /\ writer_index_' = kPrependSize
<1>1. /\ reader_index_ \in Nat /\ writer_index_ \in Nat
      /\ readableSize \in Nat /\ readableSize = writer_index_ - reader_index_
  BY DEF BufferInv, BufferTypeOK, IndexOrder, readableSize
<1>2. CASE readAll
  BY <1>1, <1>2 DEF readAll
<1>3. CASE UNCHANGED bufferVars
  <2>1. 0 \in 0..readableSize /\ reader_index_ = reader_index_ + 0
    BY <1>1
  <2> QED
    BY <1>3, <2>1, Zenon DEF bufferVars
<1>4. ASSUME NEW len \in Nat, read(len)
      PROVE  \/ readAll
             \/ UNCHANGED bufferVars
             \/ len \in 0..readableSize /\ readToFD(len)
  BY <1>1, <1>4 DEF read, readToFD
<1>5. ASSUME NEW iter \in 0..Len(buffer_), readUntil(iter)
      PROVE  UNCHANGED bufferVars \/ \E len \in Nat : read(len)
  <2>1. iter \in Nat
    BY DEF BufferInv, BufferTypeOK
  <2>2. CASE iter >= reader_index_ /\ iter <= writer_index_
    <3>1. iter - reader_index_ \in Nat
      BY <1>1, <2>1, <2>2
    <3> QED
      BY <1>5, <2>2, <3>1, Zenon DEF readUntil
  <2> QED
    BY <1>5, <2>2, Zenon DEF readUntil
<1>6. ASSUME NEW n \in 0..readableSize, readToFD(n)
      PROVE  /\ buffer_' = buffer_
             /\ reader_index_' = reader_index_ + n
             /\ writer_index_' = writer_index_
  BY <1>6, Zenon DEF readToFD
<1>7. \A len \in 0..(MaxBuffered + 1) : len \in Nat
  BY BufferAssumption
<1> QED
  BY <1>2, <1>3, <1>4, <1>5, <1>6, <1>7, Zenon

-----------------------------------------------------------------------------
(* The theorems.                                                           *)

\* The inductive invariant of a Buffer: types, indices in order, bounded vector.
LEMMA BufferInvHolds == BufferSpec => []BufferInv
<1>1. BufferInit => BufferInv
  <2> SUFFICES ASSUME BufferInit PROVE BufferInv
    BY Zenon
  <2>1. buffer_ \in Seq(Byte) /\ Len(buffer_) = kPrependSize + kInitialSize
    BY BufferAssumption DEF BufferInit
  <2> QED
    BY <2>1, BufferAssumption
    DEF BufferInit, BufferInv, BufferTypeOK, IndexOrder, StorageBound
<1>2. BufferInv /\ [BufferNext]_bufferVars => BufferInv'
  BY AppendStep, WriteFromFDStep, TakingStep, TakeStep, Zenon DEF BufferNext
<1> QED
  BY <1>1, <1>2, PTL DEF BufferSpec

\* The indices of a Buffer never leave the vector nor pass each other.
THEOREM IndicesInOrder == BufferSpec => []IndexOrder
<1>1. BufferInv => IndexOrder
  BY Zenon DEF BufferInv
<1> QED
  BY <1>1, BufferInvHolds, PTL

\* The vector of a Buffer is bounded by what is unread at once.
THEOREM StorageBounded == BufferSpec => []StorageBound
<1>1. BufferInv => StorageBound
  BY Zenon DEF BufferInv
<1> QED
  BY <1>1, BufferInvHolds, PTL

\* A Buffer implements a first-in first-out queue of bytes.
THEOREM RefinesByteQueue == BufferSpec => ImplementsByteQueue
<1>1. BufferInit => Bytes!Init
  BY BufferAssumption DEF BufferInit, Bytes!Init, Readable, Slice
<1>2. BufferInv /\ [BufferNext]_bufferVars => [Bytes!Next]_Readable
  <2> SUFFICES ASSUME BufferInv, [BufferNext]_bufferVars PROVE Bytes!Next
    BY Zenon
  <2>1. ASSUME NEW data \in Chunks, append(data) \/ writeFromFD(data)
        PROVE  Bytes!Next
    BY <2>1, AppendStep, WriteFromFDStep, Zenon DEF Bytes!Next, Bytes!Put
  <2>2. ASSUME NEW n \in 0..Len(Readable),
               Readable' = SubSeq(Readable, n + 1, Len(Readable))
        PROVE  Bytes!Next
    BY <2>2, Zenon DEF Bytes!Next, Bytes!Take
  <2> QED
    BY <2>1, <2>2, TakingStep, TakeStep, Zenon DEF BufferNext
<1> QED
  BY <1>1, <1>2, BufferInvHolds, PTL DEF BufferSpec, ImplementsByteQueue, Bytes!Spec
=============================================================================
