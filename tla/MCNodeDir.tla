----------------------------- MODULE MCNodeDir -----------------------------
(* Two apps of different builds over one directory, empty or of an old node. *)
EXTENDS NodeDir, TLC

CONSTANTS p, q, a, b

MCBuild == [x \in Procs |-> IF x = p THEN 2 ELSE 1]

\* The two addresses are alike; the two apps are not.
AddrSymmetry == Permutations({a, b})
=============================================================================
