---------------------------- MODULE MCValueArray ----------------------------
(***************************************************************************)
(* Keys that share a bucket of the key table.                               *)
(***************************************************************************)
EXTENDS ValueArray, TLC

CONSTANTS k1, k2

ByName    == [void |-> 0, one |-> 1, two |-> 2]
Swaps     == Permutations({k1, k2})
OneBucket == [n \in Names |-> 0]
=============================================================================
