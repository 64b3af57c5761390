----------------------------- MODULE TcpServer -----------------------------
(***************************************************************************)
(* TCPServer with its Acceptor, the pool of io loops, their EpollPollers   *)
(* and the life of every TCPConnection, Channel and descriptor             *)
(* (srcs/net/server, srcs/net/thread/event_loop_thread_pool.cc,            *)
(* srcs/net/poller, srcs/net/channel, srcs/net/fd_handler).                *)
(*                                                                         *)
(* The main loop accepts and erases, the io loops create, serve and close; *)
(* they talk through queued callbacks.  EventLoop shows that such a queue  *)
(* is first in, first out and wakes its loop up, so here it is a sequence. *)
(* TcpConnection has the detail of one connection's handlers.              *)
(*                                                                         *)
(* The threads of the pool start when they are scheduled: a loop that has  *)
(* not run startLoop() yet takes the main thread for its own, and the main *)
(* thread runs handleCreate() itself.  The loop may start meanwhile, and   *)
(* its thread then overtakes the main thread.                              *)
(* Objects are shared_ptrs: an object lives while someone holds it, and a  *)
(* descriptor is closed with its Channel, by whoever lets go of it last.   *)
(***************************************************************************)
EXTENDS Integers, Sequences, FiniteSets

CONSTANTS
  NumThreads,     \* num_io_threads
  MaxConns,       \* bound: the connections that clients open
  Fds,            \* the descriptors left for connections
  Peers,          \* the addresses of clients
  LateLoops,      \* bound: the io loops that may start after the acceptor
  MainHasWakeup   \* was setWakeupChannel() called on the main loop?

ASSUME TcpServerAssumption ==
  /\ NumThreads \in Nat \ {0}
  /\ MaxConns \in Nat
  /\ Fds \subseteq Nat \ {0}
  /\ MainHasWakeup \in BOOLEAN
  /\ LateLoops \subseteq 0..(NumThreads - 1)

\* Of the 64 bytes of buff one is for the '\0'; "%s->%s-#%d" needs two texts of
\* toIPPort(), "255.255.255.255:65535" at most as the acceptor's socket is
\* AF_INET, and an int: the id is never cut off.
ASSUME NameFits == 21 + 2 + 21 + 2 + 11 <= 64 - 1

VARIABLES
  \* the main loop
  next_conn_id_, next_thread_idx_,
  connections_,   \* name -> connection, None if there is no such key
  mainAt,         \* "listen", then "poll", "swap" or "run" in loop();
                  \* "check" in runInLoop(); "create" or "connect" in
                  \* handleCreate()
  mainPending,    \* its pending_callbacks_: the connections to erase
  mainRun,        \* doPendingCallbacks(): the callbacks still to run ...
  mainRan,        \* ... and to destroy afterwards
  \* each connection
  status,         \* "kConnected" stands for kDisconnecting too
  fd, loop, peer,
  \* each io loop
  fd2channels_,   \* descriptor -> the connection of its Channel, None if none
  pending,        \* its pending_callbacks_: the connections to create
  executing,      \* those that doPendingCallbacks() has still to run
  at,             \* "poll", "handle", "closing" or "tasks"
  active,         \* active_channels_
  unhandled,      \* those that loop() has still to handle
  current,        \* the one in handleEvent()
  todo,           \* connection -> the callbacks its handleEvent() has to call
  started,        \* has its thread run startLoop()?
  \* the network
  overtaken,      \* history: connections that the main thread was creating
                  \* when their loop's thread ran startLoop()
  bound,          \* does the acceptor listen at the address it was given?
  arrived,        \* how many clients have come; those not accepted wait
  net,            \* what the peer did last: "idle", "data", "fin" or "rst"
  ended           \* the process was ended by a signal

mainVars == <<next_conn_id_, next_thread_idx_, connections_, mainAt, mainRun,
              mainRan, fd, loop, peer>>
ioVars == <<status, fd2channels_, executing, at, active, unhandled, current,
            todo>>
startVars == <<started, overtaken, bound>>
netVars == <<arrived, net, startVars>>
vars == <<mainVars, ioVars, mainPending, pending, netVars, ended>>

Conns == 1..MaxConns
None == 0
Loops == 0..(NumThreads - 1)
Accepted == 1..next_conn_id_
Names == (Peers \X Conns) \cup (Peers \X {None})
SeqRange(s) == {s[i] : i \in DOMAIN s}

\* mutant: the name does not hold next_conn_id_
NameMut(c) == <<peer[c], None>>

\* The name acceptorReadCallback() gives to a connection.
Name(c) == <<peer[c], c>>

Init ==
  /\ next_conn_id_ = 0 /\ next_thread_idx_ = 0
  /\ connections_ = [n \in Names |-> None]
  /\ mainAt = "listen"
  /\ mainPending = <<>> /\ mainRun = <<>> /\ mainRan = <<>>
  /\ status = [c \in Conns |-> "none"]
  /\ fd = [c \in Conns |-> None]
  /\ loop = [c \in Conns |-> 0]
  /\ peer \in [Conns -> Peers]
  /\ fd2channels_ = [l \in Loops |-> [f \in Fds |-> None]]
  /\ pending = [l \in Loops |-> <<>>]
  /\ executing = [l \in Loops |-> <<>>]
  /\ at = [l \in Loops |-> "poll"]
  /\ active = [l \in Loops |-> {}]
  /\ unhandled = [l \in Loops |-> {}]
  /\ current = [l \in Loops |-> None]
  /\ todo = [c \in Conns |-> <<>>]
  /\ started = [l \in Loops |-> l \notin LateLoops]
  /\ overtaken = {}
  /\ bound = FALSE
  /\ arrived = 0
  /\ net = [c \in Conns |-> "idle"]
  /\ ended = FALSE

-----------------------------------------------------------------------------
(* Who holds what.                                                         *)

\* The shared_ptrs to a connection: in connections_, in the closure that
\* connectionCloseCallback() queues, and the temporary in handleClose().
ConnectionAlive(c) ==
  \/ \E n \in Names : connections_[n] = c
  \/ c \in SeqRange(mainPending \o mainRun \o mainRan)
  \/ \E l \in Loops : at[l] = "closing" /\ current[l] = c

\* Those to a Channel: channel_, fd2channels_ and active_channels_, which
\* poll() clears only when it is called again.
ChannelAlive(c) ==
  \/ ConnectionAlive(c)
  \/ \E l \in Loops : \/ c \in active[l]
                      \/ \E f \in Fds : fd2channels_[l][f] = c

FreeFds == Fds \ {fd[c] : c \in {d \in Accepted : ChannelAlive(d)}}

-----------------------------------------------------------------------------
(* The network.  Init chooses the clients' addresses.                      *)

\* An address is used again once its last connection is over at the client.
ClientConnects ==
  /\ ~ended /\ bound /\ arrived < MaxConns
  /\ \A c \in 1..arrived : peer[c] = peer[arrived + 1] =>
       c \in Accepted /\ net[c] \in {"fin", "rst"}
  /\ arrived' = arrived + 1
  /\ UNCHANGED <<mainVars, ioVars, mainPending, pending, net, startVars, ended>>

PeerDoes(c, what) ==
  /\ ~ended /\ c \in Accepted
  /\ net' = [net EXCEPT ![c] = what]
  /\ UNCHANGED <<mainVars, ioVars, mainPending, pending, arrived, startVars,
                 ended>>

PeerSends(c) == net[c] = "idle" /\ PeerDoes(c, "data")
PeerCloses(c) == net[c] = "idle" /\ PeerDoes(c, "fin")
PeerResets(c) == net[c] # "rst" /\ PeerDoes(c, "rst")

-----------------------------------------------------------------------------
(* The main loop.                                                          *)

\* Acceptor::listen(), before the main thread calls startLoop().  What bind()
\* and listen() return is not looked at, and SO_REUSEADDR was given a value
\* that is not initialized: the address may still be in use.
listen ==
  /\ mainAt = "listen"
  /\ mainAt' = "poll"
  /\ bound' \in BOOLEAN
  /\ UNCHANGED <<next_conn_id_, next_thread_idx_, connections_, mainRun,
                 mainRan, fd, loop, peer, ioVars, mainPending, pending,
                 arrived, net, started, overtaken, ended>>

\* epoll_wait reports the acceptor's socket.
AcceptReady == ~ended /\ mainAt = "poll" /\ arrived > next_conn_id_

\* getNextThread(): round robin over the threads of the pool.
getNextThread ==
  next_thread_idx_' = (next_thread_idx_ + 1) % NumThreads

\* Up to runInLoop().  accept4() takes the lowest free descriptor.
acceptorReadCallback ==
  /\ AcceptReady /\ FreeFds # {}
  /\ LET c == next_conn_id_ + 1
         f == CHOOSE x \in FreeFds : \A y \in FreeFds : x <= y
     IN  /\ fd' = [fd EXCEPT ![c] = f]
         /\ loop' = [loop EXCEPT ![c] = next_thread_idx_]
         /\ connections_' = [connections_ EXCEPT ![Name(c)] = c]
         /\ status' = [status EXCEPT ![c] = "kConnecting"]
  /\ getNextThread
  /\ next_conn_id_' = next_conn_id_ + 1
  /\ mainAt' = "check"
  /\ UNCHANGED <<mainRun, mainRan, mainPending, pending, peer, fd2channels_,
                 executing, at, active, unhandled, current, todo, netVars, ended>>

\* handleCreate() is queued in the io loop if its thread has started; else
\* isInLoopThread() is true, and the callback is called here and now.
runInLoop ==
  /\ ~ended /\ mainAt = "check"
  /\ LET l == loop[next_conn_id_]
     IN  IF started[l]
         THEN /\ pending' = [pending EXCEPT ![l] = Append(@, next_conn_id_)]
              /\ mainAt' = "swap"
         ELSE mainAt' = "create" /\ UNCHANGED pending
  /\ UNCHANGED <<next_conn_id_, next_thread_idx_, connections_, mainRun,
                 mainRan, fd, loop, peer, ioVars, mainPending, netVars, ended>>

\* EpollPoller::addChannel()
addChannel(l, c) == fd2channels_' = [fd2channels_ EXCEPT ![l][fd[c]] = c]

\* handleCreate() in the main thread, up to addChannelInPoller().  If the loop
\* has started by now, its poll() may find the socket before the Channel is in
\* fd2channels_, or read fd2channels_ while it changes: the process may end.
createHere ==
  /\ ~ended /\ mainAt = "create"
  /\ addChannel(loop[next_conn_id_], next_conn_id_)
  /\ mainAt' = "connect"
  /\ ended' \in IF started[loop[next_conn_id_]] THEN BOOLEAN ELSE {FALSE}
  /\ UNCHANGED <<next_conn_id_, next_thread_idx_, connections_, mainRun,
                 mainRan, fd, loop, peer, status, executing, at, active,
                 unhandled, current, todo, mainPending, pending, netVars>>

\* The rest of it: whatever the loop's thread has done with the connection.
connectHere ==
  /\ ~ended /\ mainAt = "connect"
  /\ status' = [status EXCEPT ![next_conn_id_] = "kConnected"]
  /\ mainAt' = "swap"
  /\ UNCHANGED <<next_conn_id_, next_thread_idx_, connections_, mainRun,
                 mainRan, fd, loop, peer, fd2channels_, executing, at, active,
                 unhandled, current, todo, mainPending, pending, netVars, ended>>

\* accept4() fails: the client stays in the listen queue.
acceptFailed ==
  /\ AcceptReady /\ FreeFds = {}
  /\ mainAt' = "swap"
  /\ UNCHANGED <<next_conn_id_, next_thread_idx_, connections_, mainRun,
                 mainRan, fd, loop, peer, ioVars, mainPending, pending,
                 netVars, ended>>

\* epoll_wait reports the eventfd only, if it is in the poller.
mainWoken ==
  /\ ~ended /\ mainAt = "poll"
  /\ MainHasWakeup /\ mainPending # <<>> /\ arrived = next_conn_id_
  /\ mainAt' = "swap"
  /\ UNCHANGED <<next_conn_id_, next_thread_idx_, connections_, mainRun,
                 mainRan, fd, loop, peer, ioVars, mainPending, pending,
                 netVars, ended>>

mainDoPendingCallbacks ==
  /\ ~ended /\ mainAt = "swap"
  /\ mainAt' = "run"
  /\ mainRun' = mainPending /\ mainPending' = <<>>
  /\ UNCHANGED <<next_conn_id_, next_thread_idx_, connections_, mainRan, fd,
                 loop, peer, ioVars, pending, netVars, ended>>

\* mutant: the callback holds no shared_ptr
eraseConnectionMut ==
  /\ ~ended /\ mainAt = "run" /\ mainRun # <<>>
  /\ connections_' = [connections_ EXCEPT ![Name(Head(mainRun))] = None]
  /\ mainRun' = Tail(mainRun)
  /\ UNCHANGED <<next_conn_id_, next_thread_idx_, mainAt, mainRan, fd, loop, peer,
                 ioVars, mainPending, pending, netVars, ended>>

\* The callback that connectionCloseCallback() queued.
eraseConnection ==
  /\ ~ended /\ mainAt = "run" /\ mainRun # <<>>
  /\ connections_' = [connections_ EXCEPT ![Name(Head(mainRun))] = None]
  /\ mainRun' = Tail(mainRun)
  /\ mainRan' = Append(mainRan, Head(mainRun))
  /\ UNCHANGED <<next_conn_id_, next_thread_idx_, mainAt, fd, loop, peer,
                 ioVars, mainPending, pending, netVars, ended>>

\* excuting_callbacks goes out of scope: the closures are destroyed in turn.
destroyCallback ==
  /\ ~ended /\ mainAt = "run" /\ mainRun = <<>>
  /\ IF mainRan = <<>> THEN mainAt' = "poll" /\ UNCHANGED mainRan
                       ELSE mainRan' = Tail(mainRan) /\ UNCHANGED mainAt
  /\ UNCHANGED <<next_conn_id_, next_thread_idx_, connections_, mainRun, fd,
                 loop, peer, ioVars, mainPending, pending, netVars, ended>>

-----------------------------------------------------------------------------
(* The io loops.                                                           *)

\* The thread of the pool is scheduled, be it while the main thread runs
\* handleCreate() for its loop.
startLoop(l) ==
  /\ ~ended /\ ~started[l]
  /\ started' = [started EXCEPT ![l] = TRUE]
  /\ overtaken' = overtaken \cup
       {c \in Conns : /\ mainAt \in {"create", "connect"}
                      /\ c = next_conn_id_ /\ loop[c] = l}
  /\ UNCHANGED <<mainVars, ioVars, mainPending, pending, arrived, net, bound,
                 ended>>

Ready(l) == {c \in Conns : \E f \in Fds : fd2channels_[l][f] = c
                                        /\ net[c] # "idle"}

\* The callbacks that handleEvent() calls, in order, for what epoll_wait
\* reports of a socket in this state; "write" is there if it was asked for.
Calls(c) ==
  LET asked == IF status[c] = "kConnected" THEN {<<>>, <<"write">>} ELSE {<<>>}
      first == IF net[c] = "rst" THEN {<<"error", "read">>, <<"close", "error">>}
                                 ELSE {<<"read">>}
  IN  {s \o w : s \in first, w \in asked}
      \cup (IF net[c] = "fin" THEN {<<"close">>} ELSE {})

\* poll(): everything that is ready fits in events_.
poll(l) ==
  /\ ~ended /\ started[l] /\ at[l] = "poll"
  /\ Ready(l) # {} \/ pending[l] # <<>>
  /\ \E calls \in [Ready(l) -> UNION {Calls(c) : c \in Ready(l)}] :
       /\ \A c \in Ready(l) : calls[c] \in Calls(c)
       /\ todo' = [c \in Conns |-> IF c \in Ready(l) THEN calls[c]
                                                     ELSE todo[c]]
  /\ active' = [active EXCEPT ![l] = Ready(l)]
  /\ unhandled' = [unhandled EXCEPT ![l] = Ready(l)]
  /\ at' = [at EXCEPT ![l] = "handle"]
  /\ UNCHANGED <<mainVars, status, fd2channels_, executing, current,
                 mainPending, pending, netVars, ended>>

handleEvent(l) ==
  /\ ~ended /\ at[l] = "handle" /\ current[l] = None
  /\ \E c \in unhandled[l] :
       /\ current' = [current EXCEPT ![l] = c]
       /\ unhandled' = [unhandled EXCEPT ![l] = @ \ {c}]
  /\ UNCHANGED <<mainVars, status, fd2channels_, executing, at, active, todo,
                 mainPending, pending, netVars, ended>>

Callbacks == {"close", "error", "read", "write"}

\* The thread is in handleEvent() of c and about to call one of cbs.
InCallback(l, c, cbs) ==
  /\ ~ended /\ at[l] = "handle" /\ c # None /\ current[l] = c
  /\ todo[c] # <<>> /\ Head(todo[c]) \in cbs

Called(c) == todo' = [todo EXCEPT ![c] = Tail(@)]

handleEventDone(l) ==
  /\ ~ended /\ at[l] = "handle" /\ current[l] # None
  /\ todo[current[l]] = <<>>
  /\ current' = [current EXCEPT ![l] = None]
  /\ UNCHANGED <<mainVars, status, fd2channels_, executing, at, active,
                 unhandled, todo, mainPending, pending, netVars, ended>>

\* mutant: the Channel stays in fd2channels_
removeChannelMut(l, c) == UNCHANGED fd2channels_

\* EpollPoller::removeChannel()
removeChannel(l, c) == fd2channels_' = [fd2channels_ EXCEPT ![l][fd[c]] = None]

\* mutant: without the test of status_
handleCloseMut(l, c) ==
  /\ removeChannel(l, c)
  /\ status' = [status EXCEPT ![c] = "kDisconnected"]
  /\ mainPending' = Append(mainPending, c)
  /\ at' = [at EXCEPT ![l] = "closing"]

\* handleClose() up to the end of connectionCloseCallback(), which queues the
\* erasure in the main loop.
handleClose(l, c) ==
  IF status[c] # "kDisconnected"
  THEN /\ removeChannel(l, c)
       /\ status' = [status EXCEPT ![c] = "kDisconnected"]
       /\ mainPending' = Append(mainPending, c)
       /\ at' = [at EXCEPT ![l] = "closing"]
  ELSE UNCHANGED <<fd2channels_, status, mainPending, at>>

\* The close and error callbacks; the read and write callbacks when read or
\* write fails or meets the end of file, the write in send() included.
closingCallback(l, c) ==
  /\ \/ InCallback(l, c, {"close", "error", "write"})
     \/ InCallback(l, c, {"read"}) /\ status[c] = "kConnected"
  /\ ConnectionAlive(c)
  /\ handleClose(l, c)
  /\ Called(c)
  /\ UNCHANGED <<mainVars, executing, active, unhandled, current, pending,
                 netVars, ended>>

\* handleClose() returns and gives up its shared_ptr.
handleCloseReturns(l) ==
  /\ ~ended /\ at[l] = "closing"
  /\ at' = [at EXCEPT ![l] = "handle"]
  /\ UNCHANGED <<mainVars, status, fd2channels_, executing, active, unhandled,
                 current, todo, mainPending, pending, netVars, ended>>

\* The read callback that finds data, or a connection that is not connected,
\* and the write callback that succeeds.
servingCallback(l, c) ==
  /\ \/ InCallback(l, c, {"read"}) /\ net[c] = "data" /\ status[c] = "kConnected"
        /\ net' = [net EXCEPT ![c] = "idle"]
     \/ InCallback(l, c, {"read"}) /\ status[c] # "kConnected" /\ UNCHANGED net
     \/ InCallback(l, c, {"write"}) /\ net[c] # "rst" /\ UNCHANGED net
  /\ ConnectionAlive(c)
  /\ Called(c)
  /\ UNCHANGED <<mainVars, status, fd2channels_, executing, at, active,
                 unhandled, current, mainPending, pending, arrived, startVars,
                 ended>>

\* A callback of a connection that is already destroyed: either it finds that
\* what is left of it has status_ kDisconnected and nothing happens, or the
\* process ends.
danglingCallback(l, c) ==
  /\ InCallback(l, c, Callbacks)
  /\ ~ConnectionAlive(c)
  /\ Called(c)
  /\ ended' \in BOOLEAN
  /\ UNCHANGED <<mainVars, status, fd2channels_, executing, at, active,
                 unhandled, current, mainPending, pending, netVars>>

doPendingCallbacks(l) ==
  /\ ~ended /\ at[l] = "handle" /\ unhandled[l] = {} /\ current[l] = None
  /\ executing' = [executing EXCEPT ![l] = pending[l]]
  /\ pending' = [pending EXCEPT ![l] = <<>>]
  /\ at' = [at EXCEPT ![l] = "tasks"]
  /\ UNCHANGED <<mainVars, status, fd2channels_, active, unhandled, current,
                 todo, mainPending, netVars, ended>>

\* The closure holds a reference to the value in connections_.
CreateValid(c) == connections_[Name(c)] = c /\ status[c] = "kConnecting"

handleCreate(l) ==
  /\ ~ended /\ at[l] = "tasks" /\ executing[l] # <<>>
  /\ LET c == Head(executing[l])
     IN  /\ CreateValid(c)
         /\ addChannel(l, c)
         /\ status' = [status EXCEPT ![c] = "kConnected"]
  /\ executing' = [executing EXCEPT ![l] = Tail(@)]
  /\ UNCHANGED <<mainVars, at, active, unhandled, current, todo, mainPending,
                 pending, netVars, ended>>

\* On to the next poll(), which clears active_channels_ first.
tasksDone(l) ==
  /\ ~ended /\ at[l] = "tasks" /\ executing[l] = <<>>
  /\ active' = [active EXCEPT ![l] = {}]
  /\ at' = [at EXCEPT ![l] = "poll"]
  /\ UNCHANGED <<mainVars, status, fd2channels_, executing, unhandled, current,
                 todo, mainPending, pending, netVars, ended>>

-----------------------------------------------------------------------------
MainStep ==
  \/ listen \/ acceptorReadCallback \/ runInLoop \/ createHere \/ connectHere
  \/ acceptFailed \/ mainWoken
  \/ mainDoPendingCallbacks \/ eraseConnection \/ destroyCallback

IoStep(l) ==
  \/ startLoop(l) \/ poll(l) \/ handleEvent(l) \/ handleEventDone(l)
  \/ handleCloseReturns(l) \/ doPendingCallbacks(l) \/ handleCreate(l)
  \/ tasksDone(l)
  \/ \E c \in Conns \cap {current[l]} :
       closingCallback(l, c) \/ servingCallback(l, c) \/ danglingCallback(l, c)

Network ==
  \/ ClientConnects
  \/ \E c \in Conns : PeerSends(c) \/ PeerCloses(c) \/ PeerResets(c)

Next == MainStep \/ (\E l \in Loops : IoStep(l)) \/ Network

Spec == Init /\ [][Next]_vars

\* Every thread runs whenever it can.
FairSpec == Spec /\ WF_vars(MainStep) /\ \A l \in Loops : WF_vars(IoStep(l))

\* And every client leaves in the end.
LeavingSpec ==
  FairSpec /\ \A c \in Conns :
    WF_vars(net[c] # "fin" /\ (PeerCloses(c) \/ PeerResets(c)))

-----------------------------------------------------------------------------
(* Properties.                                                             *)

\* What a poller knows of is alive and still the server's: a descriptor in
\* fd2channels_ is that of a connection of this loop which connections_ owns,
\* connected or about to be by the main thread.  Erasing, destroying, closing
\* and reusing a descriptor in other threads never leaves a poller with a stale
\* entry, even if the loop starts while the main thread is adding one.
RegisteredIsOwned ==
  \A l \in Loops, f \in Fds :
    LET c == fd2channels_[l][f]
    IN  c # None => /\ connections_[Name(c)] = c
                    /\ \/ status[c] = "kConnected"
                       \/ mainAt = "connect" /\ c = next_conn_id_
                    /\ fd[c] = f /\ loop[c] = l

\* handleCreate() is queued with a reference into connections_ (tcp_server.cc
\* line 67), not a shared_ptr: when it runs, the element is still there.
CreateFindsConnection ==
  \A l \in Loops : \A c \in SeqRange(executing[l] \o pending[l]) :
    CreateValid(c)

\* A connection is erased once: handleClose() hands it to the main loop at
\* most once, and connections_ holds it until that callback runs.  Not so one
\* whose loop overtook handleCreate(): status_ goes back to kConnected after
\* handleClose(), and a callback of the same handleEvent() closes it again.
ErasedOnce ==
  LET tasks == mainPending \o mainRun \o mainRan
  IN  /\ \A i, j \in DOMAIN tasks : tasks[i] = tasks[j] => i = j \/ tasks[i] \in overtaken
      /\ \A c \in Accepted \ overtaken :
           connections_[Name(c)] = c <=>
             status[c] # "kDisconnected" \/ c \in SeqRange(mainPending \o mainRun)

\* The stage of a connection, from who still holds it.
Stage(c) ==
  IF c \in overtaken THEN "overtaken"
  ELSE IF status[c] # "kDisconnected" THEN status[c]
  ELSE IF connections_[Name(c)] = c THEN "kDisconnected"
  ELSE IF ConnectionAlive(c) THEN "erased" ELSE "destroyed"

Life ==
  INSTANCE ConnectionLife WITH
    Start <- "none", stage <- [c \in Conns |-> Stage(c)]

\* Every connection goes through the stages in order, whichever threads bring
\* it on: none is closed before it is created or after it was erased, none is
\* destroyed while connections_ or the callback that erases it needs it, and
\* none comes back, unless its loop starts while the main thread creates it.
ImplementsLife == Life!Spec

\* A descriptor in use has one Channel: FDHandler closes it with the last holder
\* of the Channel, and only then accept4() can give the number away again, to
\* whichever io loop.
DescriptorsExclusive ==
  \A c, d \in Accepted :
    ChannelAlive(c) /\ ChannelAlive(d) /\ fd[c] = fd[d] => c = d

\* tcp_connection.cc:50 says that closeCallback_ lets another thread do the
\* close task: the descriptor of a closed connection is released, at once if
\* the main loop can be woken up and else when the next client has come.
ClosedIsReleased ==
  \A c \in Conns :
    (status[c] = "kDisconnected" /\ (MainHasWakeup \/ arrived > next_conn_id_))
      ~> (~ChannelAlive(c) \/ ended)

\* As long as clients leave, every client that comes is accepted, even if it
\* finds all descriptors taken.
EveryClientAccepted ==
  \A k \in Conns : (arrived >= k) ~> (next_conn_id_ >= k \/ ended)

\* channel.cc:38 keeps a reference for the scope of handleEvent(): the object
\* whose callbacks handleEvent() calls outlives the call.
AliveInHandleEvent ==
  \A l \in Loops : \A c \in Conns :
    InCallback(l, c, Callbacks) => ConnectionAlive(c)

\* It fails for closed connections only: one that handleEvent() still calls is
\* not destroyed before its status_ is kDisconnected, or was overtaken.
DestroyedWasClosed ==
  \A l \in Loops : \A c \in Conns \ overtaken :
    current[l] = c /\ ~ConnectionAlive(c) => status[c] = "kDisconnected"
=============================================================================
