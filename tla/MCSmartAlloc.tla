---------------------------- MODULE MCSmartAlloc ----------------------------
(* SmartAlloc for TLC: threads are told apart by nothing.                  *)
EXTENDS SmartAlloc, TLC

Symmetry == Permutations(Threads)
=============================================================================
