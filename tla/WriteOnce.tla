----------------------------- MODULE WriteOnce -----------------------------
(***************************************************************************)
(* What ll and flows promise of one entry, whatever their representation:  *)
(* once made it is never changed or lost.  The controller never closes a   *)
(* socket, never frees a node while it runs and never overwrites one, so   *)
(* what an entry is looked up by (which includes the socket) means the     *)
(* same thing for the life of the process.                                 *)
(***************************************************************************)
CONSTANTS Values,   \* what the entry may hold
          None      \* no entry

VARIABLE entry

Init == entry = None

Write == entry = None /\ entry' \in Values

Step == [Write]_entry

Spec == Init /\ [][Write]_entry
=============================================================================
