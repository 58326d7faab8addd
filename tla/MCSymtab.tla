------------------------------ MODULE MCSymtab ------------------------------
(***************************************************************************)
(* Two names that share a bucket: names in different buckets never meet.    *)
(***************************************************************************)
EXTENDS SymtabStack, TLC

CONSTANTS a, b, d1, d2

OneBucket == [n \in Names |-> 0]
Swaps     == Permutations({a, b}) \cup Permutations({d1, d2})
=============================================================================
