----------------------------- MODULE EventLoop -----------------------------
(***************************************************************************)
(* One EventLoop (srcs/net/thread/event_loop.cc): the thread that runs     *)
(* loop(), and the threads that hand callbacks to it with runInLoop().     *)
(*                                                                         *)
(* A section that holds mutex_ is one step: every access to                *)
(* pending_callbacks_ is inside such a section.  thread_id_ and looping_   *)
(* are read outside it, so these reads are steps of their own.             *)
(***************************************************************************)
EXTENDS Naturals, Sequences

CONSTANTS
  Threads,           \* the threads that use the loop
  LoopThread,        \* the one that calls startLoop()
  Creator,           \* the one that ran the constructor
  Callbacks,         \* the callbacks they submit, each at most once
  EventfdMax,        \* the largest value of the eventfd counter
  HasWakeupChannel,  \* was setWakeupChannel() called after construction?
  NoCallback

ASSUME EventLoopAssumption ==
  /\ LoopThread \in Threads
  /\ Creator \in Threads
  /\ EventfdMax \in Nat \ {0}
  /\ HasWakeupChannel \in BOOLEAN
  /\ NoCallback \notin Callbacks

VARIABLES
  thread_id_, looping_, pending_callbacks_,
  wakeup_fd_,   \* counter of the eventfd
  ioReady,      \* is a channel other than the wakeup channel ready?
  lpc,          \* where the loop thread is in startLoop() and loop()
  active,       \* active_channels() that loop() has still to handle
  executing,    \* callbacks that doPendingCallbacks() has still to run
  pc,           \* where each thread is in runInLoop()
  arg,          \* its argument
  used,         \* the callbacks handed to runInLoop() so far
  pushed,       \* history: the callbacks queued, in order
  done          \* history: the callbacks run from the queue, in order

vars == <<thread_id_, looping_, pending_callbacks_, wakeup_fd_, ioReady, lpc,
          active, executing, pc, arg, used, pushed, done>>

loopVars == <<looping_, lpc, active, executing, done>>
callVars == <<pc, arg, used, pushed, pending_callbacks_>>

Sources == {"wakeup", "io"}

\* The variables have their types: the eventfd counter stays within its range,
\* and a thread inside runInLoop() has a callback.
TypeOK ==
  /\ thread_id_ \in Threads
  /\ looping_ \in BOOLEAN
  /\ pending_callbacks_ \in Seq(Callbacks)
  /\ wakeup_fd_ \in 0..EventfdMax
  /\ ioReady \in BOOLEAN
  /\ lpc \in {"start", "test", "poll", "handle", "exec", "stopped"}
  /\ active \subseteq Sources
  /\ executing \in Seq(Callbacks)
  /\ pc \in [Threads -> {"idle", "inline", "queue", "wakeup"}]
  /\ arg \in [Threads -> Callbacks \cup {NoCallback}]
  /\ \A t \in Threads : pc[t] \in {"inline", "queue"} => arg[t] \in Callbacks
  /\ used \subseteq Callbacks
  /\ pushed \in Seq(Callbacks)
  /\ done \in Seq(Callbacks)

\* EventLoop::EventLoop(): thread_id_ is the constructing thread's until
\* startLoop() replaces it.
Init ==
  /\ thread_id_ = Creator
  /\ looping_ = FALSE
  /\ pending_callbacks_ = <<>>
  /\ wakeup_fd_ = 0
  /\ ioReady = FALSE
  /\ lpc = "start"
  /\ active = {}
  /\ executing = <<>>
  /\ pc = [t \in Threads |-> "idle"]
  /\ arg = [t \in Threads |-> NoCallback]
  /\ used = {}
  /\ pushed = <<>>
  /\ done = <<>>

-----------------------------------------------------------------------------
(* runInLoop() and endLoop(), called by any thread.                        *)

isInLoopThread(t) == thread_id_ = t

\* The loop's own thread calls runInLoop() from a handler or a callback, or,
\* when it also built the loop, before startLoop() (Acceptor::listen does).
MayCall(t) ==
  t = LoopThread => \/ lpc \in {"handle", "exec"}
                    \/ lpc = "start" /\ Creator = LoopThread

Goto(t, where) == pc' = [pc EXCEPT ![t] = where]

runInLoop(t, c) ==
  /\ pc[t] = "idle"
  /\ MayCall(t)
  /\ c \notin used  \* a callback stands for one submission
  /\ used' = used \cup {c}
  /\ arg' = [arg EXCEPT ![t] = c]
  /\ Goto(t, IF isInLoopThread(t) THEN "inline" ELSE "queue")
  /\ UNCHANGED <<thread_id_, wakeup_fd_, ioReady, pushed, pending_callbacks_,
                 loopVars>>

\* runInLoop(), first branch: cb() in the calling thread.
runInline(t) ==
  /\ pc[t] = "inline"
  /\ Goto(t, "idle")
  /\ UNCHANGED <<thread_id_, wakeup_fd_, ioReady, arg, used, pushed,
                 pending_callbacks_, loopVars>>

\* mutant: wake the loop up only when it sleeps
queueInLoopMut(t) ==
  /\ pc[t] = "queue"
  /\ pending_callbacks_' = Append(pending_callbacks_, arg[t])
  /\ pushed' = Append(pushed, arg[t])
  /\ Goto(t, IF lpc = "poll" THEN "wakeup" ELSE "idle")
  /\ UNCHANGED <<thread_id_, wakeup_fd_, ioReady, arg, used, loopVars>>

\* queueInLoop() up to the end of the locked section.
queueInLoop(t) ==
  /\ pc[t] = "queue"
  /\ pending_callbacks_' = Append(pending_callbacks_, arg[t])
  /\ pushed' = Append(pushed, arg[t])
  /\ Goto(t, "wakeup")
  /\ UNCHANGED <<thread_id_, wakeup_fd_, ioReady, arg, used, loopVars>>

\* write(2) of 1 to a nonblocking eventfd: refused when it would overflow.
EventfdWrite(counter) == IF counter < EventfdMax THEN counter + 1 ELSE counter

wakeup(t) ==
  /\ pc[t] = "wakeup"
  /\ wakeup_fd_' = EventfdWrite(wakeup_fd_)
  /\ Goto(t, "idle")
  /\ UNCHANGED <<thread_id_, ioReady, arg, used, pushed, pending_callbacks_,
                 loopVars>>

endLoop(t) ==
  /\ pc[t] = "idle"
  /\ MayCall(t)
  /\ looping_' = FALSE
  /\ UNCHANGED <<thread_id_, wakeup_fd_, ioReady, lpc, active, executing,
                 done, callVars>>

-----------------------------------------------------------------------------
(* startLoop() and loop(), run by LoopThread.                              *)

LoopIdle == pc[LoopThread] = "idle"

\* mutant: thread_id_ stays the constructing thread's
startLoopMut ==
  /\ lpc = "start"
  /\ LoopIdle
  /\ looping_' = TRUE
  /\ lpc' = "test"
  /\ UNCHANGED <<thread_id_, wakeup_fd_, ioReady, active, executing, done,
                 callVars>>

startLoop ==
  /\ lpc = "start"
  /\ LoopIdle
  /\ looping_' = TRUE
  /\ thread_id_' = LoopThread
  /\ lpc' = "test"
  /\ UNCHANGED <<wakeup_fd_, ioReady, active, executing, done, callVars>>

\* mutant: looping_ is not read again
testLoopingMut ==
  /\ lpc = "test"
  /\ lpc' = "poll"
  /\ UNCHANGED <<thread_id_, wakeup_fd_, ioReady, looping_, active, executing,
                 done, callVars>>

testLooping ==
  /\ lpc = "test"
  /\ lpc' = IF looping_ THEN "poll" ELSE "stopped"
  /\ UNCHANGED <<thread_id_, wakeup_fd_, ioReady, looping_, active, executing,
                 done, callVars>>

\* What epoll_wait can report: level triggered, and the eventfd only when
\* setWakeupChannel() registered it.
Ready == (IF HasWakeupChannel /\ wakeup_fd_ > 0 THEN {"wakeup"} ELSE {})
         \cup (IF ioReady THEN {"io"} ELSE {})

\* poller_->poll(-1): events_ may be too small for all that is ready.
poll ==
  /\ lpc = "poll"
  /\ active' \in SUBSET Ready \ {{}}
  /\ lpc' = "handle"
  /\ UNCHANGED <<thread_id_, wakeup_fd_, ioReady, looping_, executing, done,
                 callVars>>

\* epoll_wait interrupted by a signal: no active channel.
pollInterrupted ==
  /\ lpc = "poll"
  /\ active' = {}
  /\ lpc' = "handle"
  /\ UNCHANGED <<thread_id_, wakeup_fd_, ioReady, looping_, executing, done,
                 callVars>>

\* handleEvent() of the wakeup channel: the read empties the counter.
wakeupCallback ==
  /\ lpc = "handle"
  /\ LoopIdle
  /\ "wakeup" \in active
  /\ wakeup_fd_' = 0
  /\ active' = active \ {"wakeup"}
  /\ UNCHANGED <<thread_id_, ioReady, looping_, lpc, executing, done,
                 callVars>>

\* handleEvent() of any other channel.
handleEvent ==
  /\ lpc = "handle"
  /\ LoopIdle
  /\ "io" \in active
  /\ ioReady' = FALSE
  /\ active' = active \ {"io"}
  /\ UNCHANGED <<thread_id_, wakeup_fd_, looping_, lpc, executing, done,
                 callVars>>

\* mutant: the callbacks are run in place and the vector is not emptied
doPendingCallbacksMut ==
  /\ lpc = "handle"
  /\ LoopIdle
  /\ active = {}
  /\ executing' = pending_callbacks_
  /\ lpc' = "exec"
  /\ UNCHANGED <<thread_id_, wakeup_fd_, ioReady, looping_, active, done,
                 callVars>>

\* doPendingCallbacks(), the locked section: swap.
doPendingCallbacks ==
  /\ lpc = "handle"
  /\ LoopIdle
  /\ active = {}
  /\ executing' = pending_callbacks_
  /\ pending_callbacks_' = <<>>
  /\ lpc' = "exec"
  /\ UNCHANGED <<thread_id_, wakeup_fd_, ioReady, looping_, active, done, pc,
                 arg, used, pushed>>

\* mutant: the callbacks are taken from the back of the vector
runCallbackMut ==
  /\ lpc = "exec"
  /\ LoopIdle
  /\ executing # <<>>
  /\ executing' = SubSeq(executing, 1, Len(executing) - 1)
  /\ done' = Append(done, executing[Len(executing)])
  /\ UNCHANGED <<thread_id_, wakeup_fd_, ioReady, looping_, lpc, active,
                 callVars>>

runCallback ==
  /\ lpc = "exec"
  /\ LoopIdle
  /\ executing # <<>>
  /\ executing' = Tail(executing)
  /\ done' = Append(done, Head(executing))
  /\ UNCHANGED <<thread_id_, wakeup_fd_, ioReady, looping_, lpc, active,
                 callVars>>

callbacksDone ==
  /\ lpc = "exec"
  /\ LoopIdle
  /\ executing = <<>>
  /\ lpc' = "test"
  /\ UNCHANGED <<thread_id_, wakeup_fd_, ioReady, looping_, active, executing,
                 done, callVars>>

\* The outside world makes some other channel ready.
IOBecomesReady ==
  /\ ~ioReady
  /\ ioReady' = TRUE
  /\ UNCHANGED <<thread_id_, wakeup_fd_, loopVars, callVars>>

-----------------------------------------------------------------------------
CallerStep(t) == runInline(t) \/ queueInLoop(t) \/ wakeup(t)

LoopStep ==
  \/ startLoop \/ testLooping \/ poll \/ wakeupCallback \/ handleEvent
  \/ doPendingCallbacks \/ runCallback \/ callbacksDone

Next ==
  \/ \E t \in Threads : \/ \E c \in Callbacks : runInLoop(t, c)
                        \/ CallerStep(t)
                        \/ endLoop(t)
  \/ LoopStep
  \/ pollInterrupted
  \/ IOBecomesReady

Spec == Init /\ [][Next]_vars

\* The scheduler runs every thread that can take a step.  Nothing makes a
\* thread submit a callback, a signal arrive or a channel become ready.
Fairness == WF_vars(LoopStep) /\ \A t \in Threads : WF_vars(CallerStep(t))

FairSpec == Spec /\ Fairness
-----------------------------------------------------------------------------
(* Properties.                                                             *)

\* No lost wakeup: whenever a callback waits in pending_callbacks_, the
\* eventfd is readable, or a thread has yet to call wakeup() in
\* queueInLoop(), or the loop is on its way from poll() to
\* doPendingCallbacks().  In particular poll(-1) never sleeps on it.
NoLostWakeup ==
  pending_callbacks_ # <<>> =>
    \/ wakeup_fd_ > 0
    \/ \E t \in Threads : pc[t] = "wakeup"
    \/ lpc = "handle"

\* What doPendingCallbacks() has run, what it is running and what is queued
\* are, in this order, what queueInLoop() was given: no callback is lost,
\* repeated or overtaken when queueInLoop() races with the swap.
QueueOrder == done \o executing \o pending_callbacks_ = pushed

\* runInLoop() runs its callback in a thread other than the loop's only when
\* it tested isInLoopThread() before startLoop() set thread_id_.
OffThreadOnlyBeforeStart ==
  [][\A t \in Threads \ {LoopThread} :
       pc[t] # "inline" /\ pc'[t] = "inline" => lpc = "start"]_vars

\* Every callback that queueInLoop() accepted is run by doPendingCallbacks(),
\* unless endLoop() stops the loop first.
EventuallyRuns ==
  \A c \in Callbacks :
    (\E i \in 1..Len(pushed) : pushed[i] = c) ~>
      \/ \E i \in 1..Len(done) : done[i] = c
      \/ lpc # "start" /\ ~looping_

\* endLoop() itself does not wake the loop, but a loop that was told to stop
\* leaves loop() once something is queued or a channel becomes ready.
StopsOnceWoken ==
  (lpc \notin {"start", "stopped"} /\ ~looping_ /\ (wakeup_fd_ > 0 \/ ioReady))
    ~> lpc = "stopped"

\* The loop implements the queue of callbacks that runInLoop() promises.
Tasks == INSTANCE TaskQueue WITH submitted <- pushed, executed <- done

ImplementsTaskQueue == Tasks!Spec
=============================================================================
