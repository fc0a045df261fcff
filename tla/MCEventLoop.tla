---------------------------- MODULE MCEventLoop ----------------------------
(* EventLoop for TLC: two or three connections.                            *)
EXTENDS EventLoop, TLC

CONSTANTS c1, c2, c3

(* For the runs without liveness: connections are only told apart by the   *)
(* order in which they are made.                                           *)
Symmetry == Permutations(Conns)
=============================================================================
