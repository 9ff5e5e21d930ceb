--------------------------- MODULE MCKnockBudget ---------------------------
(* Two keys, a key bucket of one token and a shared bucket of two. *)
EXTENDS KnockBudget, TLC

CONSTANTS k1, k2

Costs  == [b \in Buckets |-> 2]
Bursts == [b \in Buckets |-> IF b = Global THEN 4 ELSE 2]
KeySymmetry == Permutations(Keys)
=============================================================================
