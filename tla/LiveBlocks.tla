----------------------------- MODULE LiveBlocks -----------------------------
(***************************************************************************)
(* What the tracking allocator promises, whatever its hash table looks     *)
(* like and however many threads call it: a table of the blocks allocated  *)
(* and not freed with their sizes, changed one whole block at a time, and  *)
(* a total that is the sum of them.                                        *)
(***************************************************************************)
EXTENDS Naturals, FiniteSetsExt

CONSTANTS Addrs,   \* where a block may be
          Sizes    \* how large it may be

VARIABLE size      \* of each live block

Init == size = [a \in {} |-> 0]

Add ==
  \E a \in Addrs \ DOMAIN size, n \in Sizes :
    size' = [b \in DOMAIN size \cup {a} |-> IF b = a THEN n ELSE size[b]]

Drop ==
  \E a \in DOMAIN size : size' = [b \in DOMAIN size \ {a} |-> size[b]]

Spec == Init /\ [][Add \/ Drop]_size

Total == MapThenSumSet(LAMBDA a : size[a], DOMAIN size)
=============================================================================
