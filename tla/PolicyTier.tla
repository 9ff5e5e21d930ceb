----------------------------- MODULE PolicyTier -----------------------------
(***************************************************************************)
(* One evaluation of the policy tier, loop by loop: PolicyTier::decide     *)
(* over the resources of a request and PolicyTier::resolve over the rows   *)
(* of one resource (crates/authenticator/src/policy.rs).  sqlite returns   *)
(* rows in no particular order and a query may fail.                       *)
(***************************************************************************)
EXTENDS PolicyRules, Integers

CONSTANTS
  Rows,     \* rows that may be in `_policy`: [who, table, action, effect]
  Tables,   \* tables a footprint may name
  Peer, Wanted,
  NoTable

ASSUME NoTableAssumption == NoTable \notin Tables \cup {Star}

VARIABLES
  stored, footprint, hasDenied,   \* the table and the request
  pc,
  left,          \* resources still to resolve
  table, scan,   \* the resource being resolved; its rows not yet read
  best, bestAllows,   \* the loop's best: score (-1: none) and is_allow
  unmatched, verdict

request == <<stored, footprint, hasDenied>>
tierVars == <<request, pc, left, table, scan, best, bestAllows, unmatched, verdict>>

Verdicts == {"none", "allow", "deny", "escalate"}

TierTypeOK ==
  /\ stored \in SUBSET Rows /\ footprint \in SUBSET Tables
  /\ hasDenied \in BOOLEAN
  /\ pc \in {"start", "tables", "rows", "done", "failed"}
  /\ left \in SUBSET (Tables \cup {Star})
  /\ table \in Tables \cup {Star, NoTable}
  /\ scan \in SUBSET Rows
  /\ best \in -1..3 /\ bestAllows \in BOOLEAN
  /\ unmatched \in BOOLEAN
  /\ verdict \in Verdicts

TierInit ==
  /\ stored \in SUBSET Rows /\ footprint \in SUBSET Tables
  /\ hasDenied \in BOOLEAN
  /\ pc = "start" /\ left = {} /\ table = NoTable /\ scan = {}
  /\ best = -1 /\ bestAllows = FALSE /\ unmatched = FALSE /\ verdict = "none"

Answer(v) == verdict' = v /\ pc' = "done"

\* Denied constructs decide at once; otherwise collect the resources.
Start ==
  /\ pc = "start"
  /\ \/ /\ hasDenied /\ Answer("deny") /\ UNCHANGED left
     \/ /\ ~ hasDenied /\ pc' = "tables" /\ left' = Resources(footprint)
        /\ UNCHANGED verdict
  /\ UNCHANGED <<request, table, scan, best, bestAllows, unmatched>>

\* Calls resolve() for the next resource.
NextTable(t) ==
  /\ pc = "tables" /\ t \in left
  /\ pc' = "rows" /\ left' = left \ {t} /\ table' = t
  /\ scan' = Matching(stored, Peer, t, Wanted)
  /\ best' = -1 /\ bestAllows' = FALSE
  /\ UNCHANGED <<request, unmatched, verdict>>

\* Mutant: at equal specificity the last row read wins.
ReadRow_lastWins(r) ==
  /\ pc = "rows" /\ r \in scan
  /\ scan' = scan \ {r}
  /\ \/ /\ Score(r) >= best
        /\ best' = Score(r) /\ bestAllows' = (r.effect = "allow")
     \/ /\ Score(r) < best /\ UNCHANGED <<best, bestAllows>>
  /\ UNCHANGED <<request, pc, left, table, unmatched, verdict>>

\* One turn of the loop over the rows: a more specific row replaces the
\* best, an equally specific one can only turn it into a deny.
ReadRow(r) ==
  /\ pc = "rows" /\ r \in scan
  /\ scan' = scan \ {r}
  /\ \/ /\ Score(r) > best
        /\ best' = Score(r) /\ bestAllows' = (r.effect = "allow")
     \/ /\ Score(r) = best
        /\ bestAllows' = (bestAllows /\ r.effect = "allow") /\ UNCHANGED best
     \/ /\ Score(r) < best /\ UNCHANGED <<best, bestAllows>>
  /\ UNCHANGED <<request, pc, left, table, unmatched, verdict>>

\* resolve() returns: deny ends the request, no row makes it unmatched.
EndTable ==
  /\ pc = "rows" /\ scan = {}
  /\ table' = NoTable
  /\ \/ /\ best # -1 /\ ~ bestAllows /\ Answer("deny") /\ UNCHANGED unmatched
     \/ /\ best # -1 /\ bestAllows /\ pc' = "tables"
        /\ UNCHANGED <<unmatched, verdict>>
     \/ /\ best = -1 /\ pc' = "tables" /\ unmatched' = TRUE
        /\ UNCHANGED verdict
  /\ UNCHANGED <<request, left, scan, best, bestAllows>>

\* The query, or reading a row, fails: the tier abstains.
QueryFails ==
  /\ pc = "rows"
  /\ pc' = "failed" /\ verdict' = "escalate" /\ table' = NoTable
  /\ UNCHANGED <<request, left, scan, best, bestAllows, unmatched>>

Finish ==
  /\ pc = "tables" /\ left = {}
  /\ Answer(IF unmatched THEN "escalate" ELSE "allow")
  /\ UNCHANGED <<request, left, table, scan, best, bestAllows, unmatched>>

TierNext ==
  \/ Start \/ EndTable \/ QueryFails \/ Finish
  \/ \E t \in left : NextTable(t)
  \/ \E r \in scan : ReadRow(r)

TierSpec == TierInit /\ [][TierNext]_tierVars

-----------------------------------------------------------------------------
Says(t) == Resolved(Matching(stored, Peer, t, Wanted))

\* Whatever the order of rows and resources, the loops answer what the table
\* says under "most specific first, deny wins"; a failed query only abstains.
VerdictIsWhatTableSays ==
  /\ pc = "done" =>
       verdict = IF hasDenied THEN "deny"
                 ELSE PolicySays(stored, Peer, footprint, Wanted)
  /\ pc = "failed" => verdict = "escalate"

-----------------------------------------------------------------------------
(* The inductive invariant of the two loops. *)

\* After the rows of `read` the loop holds their highest score, and whether
\* all rows with that score allow.
LoopInv ==
  LET read == Matching(stored, Peer, table, Wanted) \ scan
  IN  pc = "rows" =>
        /\ scan \subseteq Matching(stored, Peer, table, Wanted)
        /\ best = -1 <=> read = {}
        /\ \A r \in read : Score(r) <= best
        /\ read # {} => \E r \in read : Score(r) = best
        /\ read # {} => (bestAllows <=>
                           \A r \in read : Score(r) = best => r.effect = "allow")

\* Resources already resolved: none denies, and `unmatched` remembers
\* whether one of them had no row.
TablesInv ==
  LET done == Resources(footprint) \ (left \cup {table})
  IN  pc \in {"tables", "rows"} =>
        /\ ~ hasDenied
        /\ left \subseteq Resources(footprint)
        /\ pc = "rows" => table \in Resources(footprint) \ left
        /\ pc = "tables" => table = NoTable
        /\ \A t \in done : Says(t) # "deny"
        /\ unmatched <=> \E t \in done : Says(t) = "unmatched"

StartInv == pc = "start" => ~ unmatched /\ left = {} /\ table = NoTable

TierInv == TierTypeOK /\ LoopInv /\ TablesInv /\ StartInv /\ VerdictIsWhatTableSays
=============================================================================
