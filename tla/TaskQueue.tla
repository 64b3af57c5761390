----------------------------- MODULE TaskQueue -----------------------------
(***************************************************************************)
(* What EventLoop::runInLoop promises to a thread that is not the loop's:  *)
(* the callbacks handed over by all such threads are executed once each,   *)
(* in the order in which they were queued.  Nothing is said here of        *)
(* threads, locks, the eventfd or the poller: EventLoop implements this.   *)
(***************************************************************************)
EXTENDS Naturals, Sequences

CONSTANT Callbacks

VARIABLES submitted,  \* the callbacks queued so far, in order
          executed    \* the callbacks executed so far, in order

tqVars == <<submitted, executed>>

Init == submitted = <<>> /\ executed = <<>>

Submit(c) == submitted' = Append(submitted, c) /\ UNCHANGED executed

Run == /\ Len(executed) < Len(submitted)
       /\ executed' = Append(executed, submitted[Len(executed) + 1])
       /\ UNCHANGED submitted

Next == (\E c \in Callbacks : Submit(c)) \/ Run

Spec == Init /\ [][Next]_tqVars
=============================================================================
