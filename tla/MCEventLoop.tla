---------------------------- MODULE MCEventLoop ----------------------------
(* Small instances of EventLoop.                                           *)
EXTENDS EventLoop, TLC

CONSTANTS main, io, c1, c2, c3

\* Only the safety runs use it: liveness properties are not symmetric.
CallbackSymmetry == Permutations(Callbacks)
=============================================================================
