------------------------------ MODULE MCOutbox ------------------------------
(* Small instances of Outbox for TLC. *)
EXTENDS Outbox, TLC

CONSTANTS r1, r2, p1, p2, j1, j2

OnePeer  == [r \in Rows |-> p1]
TwoPeers == [r \in Rows |-> IF r = r1 THEN p1 ELSE p2]
WriteAndRead == [r \in Rows |-> IF r = r1 THEN "write" ELSE "read"]
WriteAndPlugin == [r \in Rows |-> IF r = r1 THEN "write" ELSE "plugin"]
AllPlugins   == [r \in Rows |-> "plugin"]

JobSymmetry == Permutations(Jobs)
=============================================================================
