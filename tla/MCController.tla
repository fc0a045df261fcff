---------------------------- MODULE MCController ----------------------------
(* Controller and its bytes for TLC: two switches, two hosts and the       *)
(* broadcast address.                                                      *)
EXTENDS Wire, TLC

CONSTANTS s1, s2, h1, h2, bcast

(* The controller tells neither sockets nor hosts apart: it only compares  *)
(* them for equality, and every list starts with the row of socket 0.      *)
Symmetry == Permutations({s1, s2}) \cup Permutations({h1, h2})
=============================================================================
