-------------------------- MODULE EventLoopProofs --------------------------
(***************************************************************************)
(* EventLoop for every set of threads and callbacks and every capacity of  *)
(* the eventfd: type correctness, no lost wakeup, the order of callbacks,  *)
(* thread confinement after startLoop(), refinement of TaskQueue.          *)
(***************************************************************************)
EXTENDS EventLoop, SequenceTheorems, TLAPS

\* The type invariant of the loop and of its callers.
THEOREM TypeCorrect == Spec => []TypeOK
<1>1. Init => TypeOK
  <2> SUFFICES ASSUME Init PROVE TypeOK
    BY Zenon
  <2>1. 0 \in 0..EventfdMax
    BY EventLoopAssumption
  <2>2. /\ pc \in [Threads -> {"idle", "inline", "queue", "wakeup"}]
        /\ arg \in [Threads -> Callbacks \cup {NoCallback}]
        /\ \A t \in Threads : pc[t] = "idle"
    BY Zenon DEF Init
  <2>3. /\ looping_ \in BOOLEAN
        /\ ioReady \in BOOLEAN
    BY Zenon DEF Init
  <2>4. /\ pending_callbacks_ \in Seq(Callbacks)
        /\ executing \in Seq(Callbacks)
        /\ pushed \in Seq(Callbacks)
        /\ done \in Seq(Callbacks)
    BY DEF Init
  <2>5. /\ thread_id_ \in Threads
        /\ lpc \in {"start", "test", "poll", "handle", "exec", "stopped"}
        /\ active \subseteq Sources
        /\ used \subseteq Callbacks
    BY EventLoopAssumption, SMTT(60) DEF Init
  <2> QED
    BY <2>1, <2>2, <2>3, <2>4, <2>5, Zenon DEF Init, TypeOK
<1>2. TypeOK /\ [Next]_vars => TypeOK'
  <2> SUFFICES ASSUME TypeOK, [Next]_vars PROVE TypeOK'
    BY Zenon
  <2> USE EventLoopAssumption DEF TypeOK, Sources, loopVars, callVars, Goto
  <2>1. ASSUME NEW t \in Threads, NEW c \in Callbacks, runInLoop(t, c)
        PROVE  TypeOK'
    BY <2>1, Zenon DEF runInLoop
  <2>2. ASSUME NEW t \in Threads, runInline(t) PROVE TypeOK'
    BY <2>2, Zenon DEF runInline
  <2>3. ASSUME NEW t \in Threads, queueInLoop(t) PROVE TypeOK'
    <3>1. arg[t] \in Callbacks
      BY <2>3, Zenon DEF queueInLoop
    <3>2. /\ pending_callbacks_' \in Seq(Callbacks)
          /\ pushed' \in Seq(Callbacks)
      BY <2>3, <3>1 DEF queueInLoop
    <3> QED
      BY <2>3, <3>2, Zenon DEF queueInLoop
  <2>4. ASSUME NEW t \in Threads, wakeup(t) PROVE TypeOK'
    BY <2>4 DEF wakeup, EventfdWrite
  <2>5. ASSUME NEW t \in Threads, endLoop(t) PROVE TypeOK'
    BY <2>5, Zenon DEF endLoop
  <2>6. CASE startLoop
    BY <2>6, Zenon DEF startLoop
  <2>7. CASE testLooping
    BY <2>7, Zenon DEF testLooping
  <2>8. CASE poll
    BY <2>8, Zenon DEF poll, Ready
  <2>9. CASE pollInterrupted
    BY <2>9, Zenon DEF pollInterrupted
  <2>10. CASE wakeupCallback
    BY <2>10 DEF wakeupCallback
  <2>11. CASE handleEvent
    BY <2>11, Zenon DEF handleEvent
  <2>12. CASE doPendingCallbacks
    BY <2>12 DEF doPendingCallbacks
  <2>13. CASE runCallback
    <3>1. /\ executing' \in Seq(Callbacks)
          /\ done' \in Seq(Callbacks)
      BY <2>13, HeadTailProperties DEF runCallback
    <3> QED
      BY <2>13, <3>1, Zenon DEF runCallback
  <2>14. CASE callbacksDone
    BY <2>14, Zenon DEF callbacksDone
  <2>15. CASE IOBecomesReady
    BY <2>15, Zenon DEF IOBecomesReady
  <2>16. CASE UNCHANGED vars
    BY <2>16, Zenon DEF vars
  <2> QED
    BY <2>1, <2>2, <2>3, <2>4, <2>5, <2>6, <2>7, <2>8, <2>9, <2>10, <2>11,
       <2>12, <2>13, <2>14, <2>15, <2>16 DEF Next, CallerStep, LoopStep
<1> QED
  BY <1>1, <1>2, PTL DEF Spec

-----------------------------------------------------------------------------
(* The wakeup protocol.  NoLostWakeup is inductive as it stands: the only  *)
(* step that empties the eventfd, wakeupCallback, happens where            *)
(* doPendingCallbacks is still to come.                                    *)

\* No callback is left in pending_callbacks_ with nobody to wake the loop.
THEOREM WakeupNeverLost == Spec => []NoLostWakeup
<1>1. Init => NoLostWakeup
  BY Zenon DEF Init, NoLostWakeup
<1>2. TypeOK /\ NoLostWakeup /\ [Next]_vars => NoLostWakeup'
  <2> SUFFICES ASSUME TypeOK, NoLostWakeup, [Next]_vars PROVE NoLostWakeup'
    BY Zenon
  <2> USE EventLoopAssumption
      DEF TypeOK, NoLostWakeup, loopVars, callVars, Goto
  <2>1. ASSUME NEW t \in Threads, NEW c \in Callbacks, runInLoop(t, c)
        PROVE  NoLostWakeup'
    BY <2>1, Zenon DEF runInLoop
  <2>2. ASSUME NEW t \in Threads, runInline(t) PROVE NoLostWakeup'
    BY <2>2, Zenon DEF runInline
  <2>3. ASSUME NEW t \in Threads, queueInLoop(t) PROVE NoLostWakeup'
    <3>1. pc'[t] = "wakeup"
      BY <2>3, Zenon DEF queueInLoop
    <3> QED
      BY <3>1, Zenon
  <2>4. ASSUME NEW t \in Threads, wakeup(t) PROVE NoLostWakeup'
    <3>1. wakeup_fd_' > 0
      BY <2>4 DEF wakeup, EventfdWrite
    <3> QED
      BY <3>1, Zenon
  <2>5. ASSUME NEW t \in Threads, endLoop(t) PROVE NoLostWakeup'
    BY <2>5, Zenon DEF endLoop
  <2>6. CASE startLoop
    BY <2>6, Zenon DEF startLoop
  <2>7. CASE testLooping
    BY <2>7, Zenon DEF testLooping
  <2>8. CASE poll \/ pollInterrupted
    BY <2>8, Zenon DEF poll, pollInterrupted
  <2>9. CASE wakeupCallback \/ handleEvent
    BY <2>9, Zenon DEF wakeupCallback, handleEvent
  <2>10. CASE doPendingCallbacks
    BY <2>10, Zenon DEF doPendingCallbacks
  <2>11. CASE runCallback \/ callbacksDone
    BY <2>11, Zenon DEF runCallback, callbacksDone
  <2>12. CASE IOBecomesReady
    BY <2>12, Zenon DEF IOBecomesReady
  <2>13. CASE UNCHANGED vars
    BY <2>13, Zenon DEF vars
  <2> QED
    BY <2>1, <2>2, <2>3, <2>4, <2>5, <2>6, <2>7, <2>8, <2>9, <2>10, <2>11,
       <2>12, <2>13, Zenon DEF Next, CallerStep, LoopStep
<1> QED
  BY <1>1, <1>2, TypeCorrect, PTL DEF Spec
-----------------------------------------------------------------------------
(* The order of callbacks.  QueueOrder is not inductive: the swap would    *)
(* drop callbacks if it could happen while some are still to be run.       *)

OrderInv == QueueOrder /\ (lpc # "exec" => executing = <<>>)

\* Appending to the second of two concatenated sequences.
LEMMA AppendToConcat ==
  ASSUME NEW S, NEW s \in Seq(S), NEW t \in Seq(S), NEW x \in S
  PROVE  s \o Append(t, x) = Append(s \o t, x)
<1> DEFINE u == s \o Append(t, x)
           v == Append(s \o t, x)
<1>1. u \in Seq(S) /\ v \in Seq(S) /\ Len(u) = Len(v)
  OBVIOUS
<1>2. ASSUME NEW i \in 1..Len(u) PROVE u[i] = v[i]
  OBVIOUS
<1> QED
  BY <1>1, <1>2, SeqEqual, Zenon

\* Moving the head of the second of two sequences to the end of the first.
LEMMA MoveHead ==
  ASSUME NEW S, NEW s \in Seq(S), NEW t \in Seq(S), t # <<>>
  PROVE  Append(s, Head(t)) \o Tail(t) = s \o t
<1> DEFINE u == Append(s, Head(t)) \o Tail(t)
           v == s \o t
<1>1. u \in Seq(S) /\ v \in Seq(S) /\ Len(u) = Len(v)
  BY HeadTailProperties
<1>2. ASSUME NEW i \in 1..Len(u) PROVE u[i] = v[i]
  BY HeadTailProperties
<1> QED
  BY <1>1, <1>2, SeqEqual, Zenon

\* Where the head of the middle one of three sequences is.
LEMMA HeadOfMiddle ==
  ASSUME NEW S, NEW s \in Seq(S), NEW t \in Seq(S), NEW u \in Seq(S),
         t # <<>>
  PROVE  /\ Len(s) < Len(s \o t \o u)
         /\ (s \o t \o u)[Len(s) + 1] = Head(t)
<1>1. /\ s \o t \in Seq(S)
      /\ Len(s \o t) = Len(s) + Len(t)
      /\ Len(t) > 0
      /\ (s \o t)[Len(s) + 1] = Head(t)
  BY EmptySeq
<1> QED
  BY <1>1

\* Callbacks are run once each, in the order in which they were queued.
THEOREM CallbackOrder == Spec => []OrderInv
<1>1. Init => OrderInv
  BY DEF Init, OrderInv, QueueOrder
<1>2. TypeOK /\ OrderInv /\ [Next]_vars => OrderInv'
  <2> SUFFICES ASSUME TypeOK, OrderInv, [Next]_vars PROVE OrderInv'
    BY Zenon
  <2> USE EventLoopAssumption
      DEF TypeOK, OrderInv, QueueOrder, loopVars, callVars
  <2>1. ASSUME NEW t \in Threads, queueInLoop(t) PROVE OrderInv'
    <3>1. /\ arg[t] \in Callbacks
          /\ done \o executing \in Seq(Callbacks)
          /\ pending_callbacks_ \in Seq(Callbacks)
      BY <2>1 DEF queueInLoop
    <3>2. \A u, v \in Seq(Callbacks), x \in Callbacks :
            u \o Append(v, x) = Append(u \o v, x)
      BY ONLY AppendToConcat
    <3>3. (done \o executing) \o pending_callbacks_' = pushed'
      <4> HIDE DEF TypeOK
      <4> QED
        BY <2>1, <3>1, <3>2, Zenon DEF queueInLoop
    <3> QED
      BY <2>1, <3>3, Zenon DEF queueInLoop
  <2>2. CASE doPendingCallbacks
    BY <2>2 DEF doPendingCallbacks
  <2>3. CASE runCallback
    <3>1. Append(done, Head(executing)) \o Tail(executing) = done \o executing
      BY <2>3, MoveHead, SMTT(60) DEF runCallback
    <3> QED
      BY <2>3, <3>1, Zenon DEF runCallback
  <2>4. CASE callbacksDone
    BY <2>4, Zenon DEF callbacksDone
  <2>5. ASSUME NEW t \in Threads,
               \/ \E c \in Callbacks : runInLoop(t, c)
               \/ runInline(t) \/ wakeup(t) \/ endLoop(t)
        PROVE  OrderInv'
    BY <2>5, Zenon DEF runInLoop, runInline, wakeup, endLoop
  <2>6. CASE \/ startLoop \/ testLooping \/ poll \/ pollInterrupted
             \/ wakeupCallback \/ handleEvent \/ IOBecomesReady
             \/ UNCHANGED vars
    BY <2>6, Zenon DEF startLoop, testLooping, poll, pollInterrupted,
                wakeupCallback, handleEvent, IOBecomesReady, vars
  <2> QED
    BY <2>1, <2>2, <2>3, <2>4, <2>5, <2>6, Zenon DEF Next, CallerStep, LoopStep
<1> QED
  BY <1>1, <1>2, TypeCorrect, PTL DEF Spec

\* The property the runs check: nothing is lost, repeated or overtaken.
THEOREM QueueOrderHolds == Spec => []QueueOrder
<1>1. OrderInv => QueueOrder
  BY Zenon DEF OrderInv
<1> QED
  BY <1>1, CallbackOrder, PTL

-----------------------------------------------------------------------------
(* Thread confinement.                                                     *)

\* startLoop() publishes the loop's own thread before loop() is entered.
StartedInv == lpc # "start" => thread_id_ = LoopThread

\* startLoop() gives thread_id_ the loop's own thread, and nothing changes it.
LEMMA Started == Spec => []StartedInv
<1>1. Init => StartedInv
  BY Zenon DEF Init, StartedInv
<1>2. StartedInv /\ [Next]_vars => StartedInv'
  BY Zenon DEF StartedInv, Next, CallerStep, LoopStep, vars, loopVars, callVars,
         runInLoop, runInline, queueInLoop, wakeup, endLoop, startLoop,
         testLooping, poll, pollInterrupted, wakeupCallback, handleEvent,
         doPendingCallbacks, runCallback, callbacksDone, IOBecomesReady
<1> QED
  BY <1>1, <1>2, PTL DEF Spec

\* After startLoop() no other thread decides to run a callback itself.
THEOREM ConfinedOnceStarted == Spec => OffThreadOnlyBeforeStart
<1> DEFINE Confined == \A t \in Threads \ {LoopThread} :
                         pc[t] # "inline" /\ pc'[t] = "inline" => lpc = "start"
<1>1. TypeOK /\ StartedInv /\ [Next]_vars => [Confined]_vars
  <2> SUFFICES ASSUME TypeOK, StartedInv, Next PROVE Confined
    BY Zenon
  <2> USE DEF TypeOK, loopVars, callVars, Goto
  <2>1. ASSUME NEW t \in Threads, NEW c \in Callbacks, runInLoop(t, c)
        PROVE  Confined
    BY <2>1, Zenon DEF runInLoop, isInLoopThread, StartedInv
  <2>2. ASSUME NEW t \in Threads, CallerStep(t) PROVE Confined
    BY <2>2, Zenon DEF CallerStep, runInline, queueInLoop, wakeup
  <2>3. CASE pc' = pc
    BY <2>3, Zenon
  <2> QED
    BY <2>1, <2>2, <2>3, Zenon
    DEF Next, LoopStep, endLoop, startLoop, testLooping, poll,
        pollInterrupted, wakeupCallback, handleEvent, doPendingCallbacks,
        runCallback, callbacksDone, IOBecomesReady
<1> QED
  BY <1>1, TypeCorrect, Started, PTL DEF Spec, OffThreadOnlyBeforeStart

-----------------------------------------------------------------------------
(* Refinement.                                                             *)

\* Every step of the loop is a step of the abstract queue of callbacks or
\* leaves it unchanged.
THEOREM RefinesTaskQueue == Spec => ImplementsTaskQueue
<1>1. Init => Tasks!Init
  BY Zenon DEF Init, Tasks!Init
<1>2. TypeOK /\ OrderInv /\ [Next]_vars => [Tasks!Next]_(Tasks!tqVars)
  <2> SUFFICES ASSUME TypeOK, OrderInv, [Next]_vars
               PROVE  Tasks!Next \/ UNCHANGED <<pushed, done>>
    BY Zenon DEF Tasks!tqVars
  <2> USE DEF TypeOK, loopVars, callVars
  <2>1. ASSUME NEW t \in Threads, queueInLoop(t)
        PROVE  \E c \in Callbacks : Tasks!Submit(c)
    BY <2>1, Zenon DEF queueInLoop, Tasks!Submit
  <2>2. ASSUME runCallback PROVE Tasks!Run
    <3> USE DEF runCallback
    <3>1. /\ done \in Seq(Callbacks) /\ executing \in Seq(Callbacks)
          /\ pending_callbacks_ \in Seq(Callbacks) /\ executing # <<>>
      BY <2>2, Zenon
    <3>2. LET all == done \o executing \o pending_callbacks_
          IN  Len(done) < Len(all) /\ all[Len(done) + 1] = Head(executing)
      BY ONLY <3>1, HeadOfMiddle, Zenon
    <3>3. /\ Len(done) < Len(pushed)
          /\ pushed[Len(done) + 1] = Head(executing)
      BY <3>2, Zenon DEF OrderInv, QueueOrder
    <3> QED
      BY <2>2, <3>3, Zenon DEF Tasks!Run
  <2>3. CASE UNCHANGED <<pushed, done>>
    BY <2>3, Zenon
  <2> QED
    BY <2>1, <2>2, <2>3, Zenon
    DEF Next, CallerStep, LoopStep, Tasks!Next, vars, runInLoop, runInline,
        wakeup, endLoop, startLoop, testLooping, poll, pollInterrupted,
        wakeupCallback, handleEvent, doPendingCallbacks, callbacksDone,
        IOBecomesReady
<1> QED
  BY <1>1, <1>2, TypeCorrect, CallbackOrder, PTL
  DEF Spec, ImplementsTaskQueue, Tasks!Spec
=============================================================================
