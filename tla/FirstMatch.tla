----------------------------- MODULE FirstMatch -----------------------------
(***************************************************************************)
(* Facts about the least of some numbers: the walk of a list, those of     *)
(* myGraph.c and the buckets of smartalloc.c, stops at the first match; and *)
(* what fails for some number fails for a least one, which is induction    *)
(* without an operator as a parameter.                                     *)
(***************************************************************************)
EXTENDS Naturals, Sequences, SequencesExt, WellFoundedInduction, TLAPS

(* A set of numbers has a least one.                                       *)
LEMMA LeastElement ==
  ASSUME NEW I \in SUBSET Nat, I # {}
  PROVE  \E m \in I : \A k \in I : m <= k
  <1> DEFINE below == OpToRel(<, Nat)
  <1>1. IsWellFoundedOn(below, Nat)
    BY NatLessThanWellFounded
  <1>2. \A x, y \in Nat : <<x, y>> \in below <=> x < y
    BY DEF OpToRel
  <1> HIDE DEF below
  <1>3. PICK m \in I : \A k \in I : ~ (<<k, m>> \in below)
    BY <1>1, WFMin
  <1>4. \A k \in I : ~ (k < m)
    BY <1>2, <1>3
  <1>5. \A k \in I : m <= k
    BY <1>4
  <1> QED
    BY <1>5

(* The walk of every lookup stops at the first position that satisfies its *)
(* test, and at none exactly when no position does.                        *)
LEMMA FirstPosition ==
  ASSUME NEW n \in Nat, NEW I \in SUBSET (1 .. n), I # {}
  PROVE  Min(I) \in I /\ \A i \in I : Min(I) <= i
  <1>1. I \in SUBSET Nat
    OBVIOUS
  <1>2. \E m \in I : \A k \in I : m <= k
    BY <1>1, LeastElement
  <1> QED
    BY <1>2 DEF Min
=============================================================================
