--------------------------- MODULE ConnectionLife ---------------------------
(***************************************************************************)
(* What TCPConnections go through, abstractly: the acceptor makes one,     *)
(* handleCreate() connects it, handleClose() ends it, the server erases it *)
(* from connections_, and its last shared_ptr destroys it.  No stage comes *)
(* again and none is left out.  Nothing is said of a connection whose io   *)
(* loop starts while the main thread runs its handleCreate().              *)
(***************************************************************************)
CONSTANTS Conns,
          Start  \* "none", or "kConnecting" from the constructor on
VARIABLE stage

Init == stage = [c \in Conns |-> Start]

\* acceptorReadCallback(), handleCreate(), handleClose(), the callback queued by
\* connectionCloseCallback(), the last shared_ptr; startLoop() in between.
Follows ==
  { <<"none", "kConnecting">>, <<"kConnecting", "kConnected">>,
    <<"kConnected", "kDisconnected">>, <<"kDisconnected", "erased">>,
    <<"erased", "destroyed">>, <<"kConnecting", "overtaken">> }

Next == \E c \in Conns : /\ <<stage[c], stage'[c]>> \in Follows
                         /\ stage' = [stage EXCEPT ![c] = stage'[c]]
Spec == Init /\ [][Next]_stage
=============================================================================
