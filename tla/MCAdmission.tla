---------------------------- MODULE MCAdmission ----------------------------
(***************************************************************************)
(* Small instances of the admission of requests for TLC: the chain with    *)
(* the tables it reads and the owner who writes them (Admission), where    *)
(* the policy tier answers what the rules say, and one evaluation of that  *)
(* tier, row by row (PolicyTier).  The evaluation has a table of its own,  *)
(* so a behaviour follows one of the two.                                  *)
(***************************************************************************)
EXTENDS Admission, PolicyTier

CONSTANTS p1, s1, t1, t2, o1, o2

VARIABLE cast   \* which of the two a behaviour follows

(* The chain: one peer, one shape. *)
DefaultChain == <<"cache", "policy", "human">>
ReadOfT1 == [s \in Shapes |-> "read"]
FootT1   == [s \in Shapes |-> <<t1>>]

AllowT1   == [who |-> p1, table |-> t1, action |-> "read", effect |-> "allow"]
OpenDoor  == [who |-> Star, table |-> Star, action |-> "knock", effect |-> "allow"]
DoorRules == {OpenDoor, AllowT1}

SomeGrants == {<<>>, <<[table |-> t1, action |-> "read"]>>}
SomeMasks  == {{}, {<<"policy", "allow", "read">>}}

(* The tier: all rows for the peer and the wildcards, and one of another action. *)
AllRows ==
  [who : {p1, Star}, table : {t1, Star}, action : {"read"},
   effect : {"allow", "deny"}]
  \cup [who : {p1}, table : {t2}, action : {"read"}, effect : {"allow", "deny"}]
  \cup [who : {p1}, table : {t1}, action : {"write"}, effect : {"deny"}]

IdleChain == Init /\ masked = {} /\ peers = {} /\ policy = {}
IdleTier  == TierInit /\ stored = {} /\ footprint = {} /\ ~hasDenied

MCInit ==
  \/ cast = "chain" /\ Init /\ IdleTier
  \/ cast = "tier" /\ IdleChain /\ TierInit

MCNext ==
  \/ cast = "chain" /\ Next /\ UNCHANGED <<cast, tierVars>>
  \/ cast = "tier" /\ TierNext /\ UNCHANGED <<cast, vars>>

MCSpec == MCInit /\ [][MCNext]_<<cast, vars, tierVars>>
=============================================================================
