----------------------------- MODULE PolicyRules -----------------------------
(***************************************************************************)
(* What a set of `_policy` rows says: most specific first, deny at equal   *)
(* specificity.  This is the reading of the table the comments at the head *)
(* of crates/authenticator/src/policy.rs give, as definitions without an   *)
(* order of evaluation; PolicyTier shows that the loops compute it.        *)
(***************************************************************************)
EXTENDS Naturals

CONSTANT Star   \* the '*' of peer_or_group and table_name

\* Rows the query of resolve() selects for one resource.
Matching(policy, peer, table, action) ==
  {r \in policy : /\ r.action = action
                  /\ r.who \in {peer, Star}
                  /\ r.table \in {table, Star}}

\* peer+table 3, peer+* 2, *+table 1, *+* 0.
Score(r) == (IF r.who # Star THEN 2 ELSE 0) + (IF r.table # Star THEN 1 ELSE 0)

MostSpecific(rows) == {r \in rows : \A q \in rows : Score(q) <= Score(r)}

Resolved(rows) ==
  IF rows = {} THEN "unmatched"
  ELSE IF \E r \in MostSpecific(rows) : r.effect # "allow" THEN "deny"
  ELSE "allow"

\* Resources of a request: its tables, or the one wildcard resource.
Resources(footprint) == IF footprint = {} THEN {Star} ELSE footprint

\* The policy tier's answer to a request.
PolicySays(policy, peer, footprint, action) ==
  LET of(t) == Resolved(Matching(policy, peer, t, action))
  IN  IF \E t \in Resources(footprint) : of(t) = "deny" THEN "deny"
      ELSE IF \E t \in Resources(footprint) : of(t) = "unmatched" THEN "escalate"
      ELSE "allow"
=============================================================================
