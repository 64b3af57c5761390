--------------------------- MODULE TcpConnection ---------------------------
(***************************************************************************)
(* One TCPConnection (srcs/net/connection/tcp_connection.cc) with its      *)
(* Channel, its entry in the epoll instance, the socket and the peer.  All *)
(* its code runs in the io thread; what interleaves with it is the peer    *)
(* and the kernel, between the system calls the handlers make and between  *)
(* epoll_wait and the handlers.  Data is counted in units; the order of    *)
(* bytes is Buffer's.                                                      *)
(***************************************************************************)
EXTENDS Integers, Sequences

CONSTANTS
  SndCap,      \* the units the kernel's send buffer holds
  MaxSize,     \* bound: the longest response
  MaxData      \* bound: the units the peer sends

ASSUME TcpConnectionAssumption ==
  SndCap \in Nat \ {0} /\ MaxSize \in Nat \ {0} /\ MaxData \in Nat

VARIABLES
  status_,
  out,         \* out_buffer_.readableSize()
  events,      \* channel_->events_type()
  registered,  \* is the channel in the poller?
  interest,    \* the events the kernel watches for it
  closes,      \* how often closeCallback_ was called
  at,          \* where the io thread is
  todo,        \* the callbacks that handleEvent() has still to call
  reply,       \* the response that connectionOnRead() is sending
  inq,         \* socket: units received and unread
  snd,         \* socket: units in the send buffer
  shutWr,      \* socket: was SHUT_WR called?
  fin, rst,    \* the peer has closed or reset the connection
  reported,    \* socket: has a read or write returned the error of the reset?
  sentByPeer,  \* units the peer has sent so far
  rcvd,        \* units the peer has received so far
  queued       \* history: units appended to out_buffer_ so far

connVars == <<status_, out, events, registered, interest, closes, queued>>
threadVars == <<at, todo, reply>>
peerVars == <<inq, fin, rst, sentByPeer, rcvd>>
socketVars == <<snd, shutWr, reported>>
vars == <<connVars, threadVars, socketVars, peerVars>>

Callbacks == {"close", "error", "read", "write"}
NoReply == [size |-> 0, close |-> FALSE]

\* The variables of the connection and its socket have their types; what the
\* handlers write never exceeds the kernel's send buffer.
TypeOK ==
  /\ status_ \in {"kConnecting", "kConnected", "kDisconnecting",
                  "kDisconnected"}
  /\ out \in Nat /\ queued \in Nat /\ closes \in Nat
  /\ events \subseteq {"R", "W"} /\ interest \subseteq {"R", "W"}
  /\ registered \in BOOLEAN
  /\ at \in {"create", "poll", "dispatch", "app", "send", "shutdown", "killed"}
  /\ todo \in Seq(Callbacks)
  /\ reply \in [size : 0..MaxSize, close : BOOLEAN]
  /\ inq \in Nat /\ sentByPeer \in 0..MaxData /\ rcvd \in Nat
  /\ snd \in 0..SndCap
  /\ shutWr \in BOOLEAN /\ fin \in BOOLEAN /\ rst \in BOOLEAN
  /\ reported \in BOOLEAN

\* The constructor; handleCreate() is queued in the io loop.
Init ==
  /\ status_ = "kConnecting"
  /\ out = 0 /\ queued = 0 /\ closes = 0
  /\ events = {} /\ interest = {} /\ registered = FALSE
  /\ at = "create" /\ todo = <<>> /\ reply = NoReply
  /\ inq = 0 /\ snd = 0 /\ sentByPeer = 0 /\ rcvd = 0
  /\ shutWr = FALSE /\ fin = FALSE /\ rst = FALSE /\ reported = FALSE

-----------------------------------------------------------------------------
(* The peer and the kernel.                                                *)

PeerSend ==
  /\ ~fin /\ ~rst /\ sentByPeer < MaxData
  /\ inq' = inq + 1
  /\ sentByPeer' = sentByPeer + 1
  /\ UNCHANGED <<connVars, threadVars, socketVars, fin, rst, rcvd>>

PeerRecv ==
  /\ snd > 0 /\ ~rst
  /\ snd' = snd - 1
  /\ rcvd' = rcvd + 1
  /\ UNCHANGED <<connVars, threadVars, shutWr, reported, inq, fin, rst, sentByPeer>>

PeerClose ==
  /\ ~fin /\ ~rst
  /\ fin' = TRUE
  /\ UNCHANGED <<connVars, threadVars, socketVars, inq, rst, sentByPeer, rcvd>>

PeerReset ==
  /\ ~rst
  /\ rst' = TRUE
  /\ UNCHANGED <<connVars, threadVars, socketVars, inq, fin, sentByPeer, rcvd>>

\* What epoll_wait reports.  poll(2) does not promise IN with HUP.
Revents ==
  LET asked == (IF "R" \in interest /\ (inq > 0 \/ fin \/ rst) THEN {"IN"}
                                                                ELSE {})
               \cup (IF "W" \in interest /\ (snd < SndCap \/ rst) THEN {"OUT"}
                                                                  ELSE {})
      hangup == (IF rst THEN {"ERR", "HUP"} ELSE {})
                \cup (IF fin /\ shutWr THEN {"HUP"} ELSE {})
  IN  {asked \cup hangup}
      \cup (IF hangup # {} THEN {(asked \cup hangup) \ {"IN"}} ELSE {})

-----------------------------------------------------------------------------
(* TCPConnection and Channel.                                              *)

Step(where, rest) == at' = where /\ todo' = rest

handleCreate ==
  /\ at = "create"
  /\ events' = events \cup {"R"}
  /\ registered' = TRUE
  /\ interest' = events'
  /\ status_' = "kConnected"
  /\ Step("poll", <<>>)
  /\ UNCHANGED <<out, closes, queued, reply, socketVars, peerVars>>

When(test, cb) == IF test THEN <<cb>> ELSE <<>>

\* Channel::handleEvent(): which callbacks it calls, in this order.
Called(revents) ==
  When("HUP" \in revents /\ "IN" \notin revents, "close")
    \o When("ERR" \in revents, "error")
    \o When("IN" \in revents, "read")
    \o When("OUT" \in revents, "write")

poll ==
  /\ at = "poll" /\ registered
  /\ \E revents \in Revents \ {{}} : Step("dispatch", Called(revents))
  /\ UNCHANGED <<connVars, reply, socketVars, peerVars>>

handleEventDone ==
  /\ at = "dispatch" /\ todo = <<>>
  /\ Step("poll", <<>>)
  /\ UNCHANGED <<connVars, reply, socketVars, peerVars>>

InCallback(cb) == at = "dispatch" /\ todo # <<>> /\ Head(todo) = cb

\* mutant: handleClose() without the test of status_
CloseMut ==
  /\ registered' = FALSE
  /\ status_' = "kDisconnected"
  /\ closes' = closes + 1
  /\ UNCHANGED <<events, interest>>

\* handleClose(), which handleError() only forwards to.
Close ==
  /\ IF status_ # "kDisconnected"
     THEN /\ registered' = FALSE
          /\ status_' = "kDisconnected"
          /\ closes' = closes + 1
     ELSE UNCHANGED <<registered, status_, closes>>
  /\ UNCHANGED <<events, interest>>

handleClose ==
  /\ InCallback("close") \/ InCallback("error")
  /\ Close
  /\ Step("dispatch", Tail(todo))
  /\ UNCHANGED <<out, queued, reply, socketVars, peerVars>>

\* mutant: a connection that is shutting down is not read
CanReadMut == status_ = "kConnected"

CanRead == status_ \in {"kConnected", "kDisconnecting"}

\* n > 0: on to readCallback_.
handleReadData ==
  /\ InCallback("read") /\ CanRead
  /\ \E n \in 1..inq : inq' = inq - n
  /\ Step("app", Tail(todo))
  /\ UNCHANGED <<connVars, reply, socketVars, fin, rst, sentByPeer, rcvd>>

\* n = 0 (end of file) or n < 0 (reset).
handleReadEnd ==
  /\ InCallback("read") /\ CanRead
  /\ \/ rst /\ reported' = TRUE
     \/ fin /\ inq = 0 /\ UNCHANGED reported
  /\ Close
  /\ Step("dispatch", Tail(todo))
  /\ UNCHANGED <<out, queued, reply, snd, shutWr, peerVars>>

handleReadIgnored ==
  /\ InCallback("read") /\ ~CanRead
  /\ Step("dispatch", Tail(todo))
  /\ UNCHANGED <<connVars, reply, socketVars, peerVars>>

\* connectionOnRead(): the request is incomplete, or there is a response.
onReadNothing ==
  /\ at = "app"
  /\ Step("dispatch", todo)
  /\ UNCHANGED <<connVars, reply, socketVars, peerVars>>

onReadReply ==
  /\ at = "app"
  /\ \E n \in 1..MaxSize, c \in BOOLEAN : reply' = [size |-> n, close |-> c]
  /\ Step("send", todo)
  /\ UNCHANGED <<connVars, socketVars, peerVars>>

-----------------------------------------------------------------------------
(* write(2) of m > 0 units to the nonblocking socket: SIGPIPE after        *)
(* SHUT_WR or once the error of a reset was returned, -1 when the peer has *)
(* reset or the send buffer is full (EAGAIN), else some of them are taken. *)

WriteRaises == reported \/ (shutWr /\ ~rst)
WriteFails ==
  /\ ~WriteRaises /\ (rst \/ snd = SndCap)
  /\ reported' = rst

WriteTakes(n, m) == ~WriteRaises /\ ~rst /\ n <= m /\ snd + n <= SndCap

\* mutant: the channel is changed but not updated in the poller
WatchMut(ev) == events' = ev /\ UNCHANGED interest

\* enableWriting() or disableWriting(), and updateChannelInPoller(): for an
\* fd that is no longer registered EPOLL_CTL_MOD fails and changes nothing.
Watch(ev) ==
  /\ events' = ev
  /\ interest' = IF registered THEN ev ELSE interest

AfterSend == Step(IF reply.close THEN "shutdown" ELSE "dispatch", todo)

\* send(): the response is appended to what out_buffer_ holds already.
sendLater ==
  /\ at = "send" /\ "W" \in events
  /\ out' = out + reply.size
  /\ queued' = queued + reply.size
  /\ AfterSend
  /\ UNCHANGED <<status_, events, registered, interest, closes, reply, snd,
                 shutWr, reported, peerVars>>

sendNow ==
  /\ at = "send" /\ "W" \notin events
  /\ queued' = queued + reply.size
  /\ \E n \in 1..(out + reply.size) :
       /\ WriteTakes(n, out + reply.size)
       /\ snd' = snd + n
       /\ out' = out + reply.size - n
  /\ IF out' > 0 THEN Watch(events \cup {"W"})
                ELSE UNCHANGED <<events, interest>>
  /\ AfterSend
  /\ UNCHANGED <<status_, registered, closes, reply, shutWr, reported, peerVars>>

sendFailed ==
  /\ at = "send" /\ "W" \notin events /\ WriteFails
  /\ queued' = queued + reply.size
  /\ out' = out + reply.size
  /\ Close
  /\ AfterSend
  /\ UNCHANGED <<reply, snd, shutWr, peerVars>>

\* write() raises SIGPIPE, whose default action ends the process.
sendKilled ==
  /\ at = "send" /\ "W" \notin events /\ WriteRaises
  /\ Step("killed", <<>>)
  /\ UNCHANGED <<connVars, reply, socketVars, peerVars>>

\* mutant: SHUT_WR without waiting for the backlog
ShutdownMut(ev) ==
  IF status_ = "kDisconnected"
  THEN UNCHANGED <<status_, shutWr>>
  ELSE status_' = "kDisconnecting" /\ shutWr' = TRUE

\* mutant: without the test of status_
ShutdownMut2(ev) ==
  /\ status_' = "kDisconnecting"
  /\ shutWr' = (shutWr \/ "W" \notin ev)

\* shutdown(), for the channel events that hold when it is called.
Shutdown(ev) ==
  IF status_ = "kDisconnected"
  THEN UNCHANGED <<status_, shutWr>>
  ELSE /\ status_' = "kDisconnecting"
       /\ shutWr' = (shutWr \/ "W" \notin ev)

shutdown ==
  /\ at = "shutdown"
  /\ Shutdown(events)
  /\ Step("dispatch", todo)
  /\ UNCHANGED <<out, events, registered, interest, closes, queued, reply, snd,
                 reported, peerVars>>

\* mutant: the postponed shutdown() is forgotten
AfterDrainMut(ev) == UNCHANGED <<status_, shutWr>>

\* handleWrite(), once out_buffer_ is empty.
AfterDrain(ev) ==
  IF status_ = "kDisconnecting" THEN Shutdown(ev)
                                ELSE UNCHANGED <<status_, shutWr>>

handleWrite ==
  /\ InCallback("write")
  /\ \E n \in 1..out :
       /\ WriteTakes(n, out)
       /\ snd' = snd + n
       /\ out' = out - n
  /\ IF out' = 0
     THEN Watch(events \ {"W"}) /\ AfterDrain(events \ {"W"})
     ELSE UNCHANGED <<events, interest, status_, shutWr>>
  /\ Step("dispatch", Tail(todo))
  /\ UNCHANGED <<registered, closes, queued, reply, reported, peerVars>>

handleWriteFailed ==
  /\ InCallback("write") /\ WriteFails
  /\ Close
  /\ Step("dispatch", Tail(todo))
  /\ UNCHANGED <<out, queued, reply, snd, shutWr, peerVars>>

handleWriteKilled ==
  /\ InCallback("write") /\ WriteRaises
  /\ Step("killed", <<>>)
  /\ UNCHANGED <<connVars, reply, socketVars, peerVars>>

-----------------------------------------------------------------------------
IoThread ==
  \/ handleCreate \/ poll \/ handleEventDone \/ handleClose
  \/ handleReadData \/ handleReadEnd \/ handleReadIgnored
  \/ onReadNothing \/ onReadReply
  \/ sendLater \/ sendNow \/ sendFailed \/ sendKilled \/ shutdown
  \/ handleWrite \/ handleWriteFailed \/ handleWriteKilled

Peer == PeerSend \/ PeerRecv \/ PeerClose \/ PeerReset

Next == IoThread \/ Peer

Spec == Init /\ [][Next]_vars

\* The io thread runs whenever it can, and the peer goes on reading.  The
\* peer need not send, close or reset.
FairSpec == Spec /\ WF_vars(IoThread) /\ WF_vars(PeerRecv)

-----------------------------------------------------------------------------
(* Properties.                                                             *)

\* While the channel is in the poller the kernel watches what the channel
\* asks for, and it watches for writability exactly when out_buffer_ holds
\* unsent data: no response is forgotten and no idle connection makes the
\* loop spin.  handleWrite(), send() and shutdown() rely on it.
BacklogWatched ==
  registered => interest = events /\ ("W" \in interest <=> out > 0)

\* A connection is in the poller exactly while it is connected or
\* disconnecting, and closeCallback_ is called once, however many of
\* handleClose(), handleError(), handleRead() and handleWrite() see the end.
ClosedOnce ==
  /\ registered <=> status_ \in {"kConnected", "kDisconnecting"}
  /\ closes = IF status_ = "kDisconnected" THEN 1 ELSE 0

\* The stages that the server sees: kDisconnecting is a connection still.
Life ==
  INSTANCE ConnectionLife WITH
    Conns <- {"this"}, Start <- "kConnecting",
    stage <- [c \in {"this"} |->
                IF status_ = "kDisconnecting" THEN "kConnected" ELSE status_]

\* The handlers take a connection through the stages that TCPServer counts on:
\* shutdown(), send() and late callbacks never bring a closed one back.
ImplementsLife == Life!Spec

\* SHUT_WR is sent only when out_buffer_ is empty: shutdown() called with a
\* backlog waits for handleWrite() to drain it.
ShutdownAfterBacklog == [][~shutWr /\ shutWr' => out' = 0]_vars

\* A peer that reads up to the end of stream sent by shutdown() has received
\* every unit of every response.
DeliveredBeforeEnd ==
  (shutWr /\ snd = 0 /\ status_ = "kDisconnecting" /\ at # "killed")
    => rcvd = queued

Over == status_ = "kDisconnected" \/ at = "killed"

\* Unsent data is sent or the connection is closed.
Drains == (out > 0) ~> (out = 0 \/ Over)

\* A shutdown() postponed because of a backlog is carried out.
ShutdownCarriedOut == (status_ = "kDisconnecting") ~> (shutWr \/ Over)

\* The end of the connection at the peer is noticed and the connection is
\* handed to closeCallback_, whatever the handlers are doing.
PeerEndNoticed == (fin \/ rst) ~> Over

\* The assertion at tcp_connection.cc:84: handleWrite() is only called for a
\* connection in status kConnected.
AssertInHandleWrite == InCallback("write") => status_ = "kConnected"
=============================================================================
