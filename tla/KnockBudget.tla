---------------------------- MODULE KnockBudget ----------------------------
(***************************************************************************)
(* The token buckets that limit strangers' knocks: spend_knock_token,      *)
(* bucket_level and store_bucket of crates/node/src/pipeline.rs, over the  *)
(* `_knock_budget` table.  One bucket per knocking key and one shared by   *)
(* all; a knock is processed only if both hold a whole token.              *)
(*                                                                         *)
(* The level of a bucket is measured in the time it takes to refill it,    *)
(* so that every bucket refills by one per unit of time: Cost[b] is the    *)
(* time worth one token (1 / refill_per_sec), Burst[b] its capacity.       *)
(***************************************************************************)
EXTENDS Integers

CONSTANTS
  Keys,       \* endpoint ids that knock
  Global,     \* the bucket '*'
  Cost, Burst,
  MaxNow,     \* bound on the clock
  MaxElapsed, \* bound on the seconds counted in a window
  MaxFaults   \* bound on failed reads and writes of the table

Buckets == Keys \cup {Global}

ASSUME GlobalAssumption == Global \notin Keys
ASSUME LimitsAssumption ==
  /\ Cost \in [Buckets -> Nat \ {0}] /\ Burst \in [Buckets -> Nat \ {0}]
  /\ \A b \in Buckets : Cost[b] <= Burst[b]
ASSUME BoundsAssumption ==
  MaxNow \in Nat /\ MaxElapsed \in Nat /\ MaxFaults \in Nat

VARIABLES
  now,            \* the wall clock
  rows,           \* buckets with a row in `_knock_budget`
  tokens, stamp,  \* the row: the level and when it was computed
  elapsed,        \* seconds the clock has counted in the observed window
  spent,          \* what the knocks processed in the window cost a bucket
  excused,        \* what failed reads and writes in it may have given away
  faults

tableVars == <<rows, tokens, stamp>>
windowVars == <<elapsed, spent, excused>>
knockVars == <<now, tableVars, windowVars, faults>>

KnockTypeOK ==
  /\ now \in Nat
  /\ rows \in SUBSET Buckets
  /\ tokens \in [Buckets -> Nat] /\ stamp \in [Buckets -> Nat]
  /\ elapsed \in Nat
  /\ spent \in [Buckets -> Nat] /\ excused \in [Buckets -> Nat]
  /\ faults \in Nat

Zero == [b \in Buckets |-> 0]

KnockInit ==
  /\ now = 0 /\ rows = {} /\ tokens = Zero /\ stamp = Zero
  /\ elapsed = 0 /\ spent = Zero /\ excused = Zero /\ faults = MaxFaults

-----------------------------------------------------------------------------
Capped(level, b) == IF level < Burst[b] THEN level ELSE Burst[b]

\* Mutant: the refill is not capped at the burst.
bucket_level_uncapped(b) ==
  IF b \notin rows THEN Burst[b]
  ELSE tokens[b] + (IF now > stamp[b] THEN now - stamp[b] ELSE 0)

\* A bucket without a row starts full; time does not run backwards.
bucket_level(b) ==
  IF b \notin rows THEN Burst[b]
  ELSE Capped(tokens[b] + (IF now > stamp[b] THEN now - stamp[b] ELSE 0), b)

\* What bucket_level returns: a query that fails counts as no row.
Reads(b, failed) == IF failed THEN Burst[b] ELSE bucket_level(b)

\* store_bucket for the buckets in bs; an error is only logged.
store_bucket(bs, level) ==
  /\ rows' = rows \cup bs
  /\ tokens' = [b \in Buckets |-> IF b \in bs THEN level[b] ELSE tokens[b]]
  /\ stamp' = [b \in Buckets |-> IF b \in bs THEN now ELSE stamp[b]]

\* The faults of one knock: buckets whose read failed, whose write failed.
Faults(bad) ==
  /\ bad = {} \/ faults > 0
  /\ faults' = IF bad = {} THEN faults ELSE faults - 1
  /\ excused' = [b \in Buckets |-> IF b \in bad THEN excused[b] + Burst[b]
                                   ELSE excused[b]]

\* Mutant: the per-key token is spent before the global bucket is asked.
spend_knock_token_eager(k) ==
  \E unread \in SUBSET {k, Global} :
  \E unsaved \in SUBSET {k, Global} :
    LET level == [b \in Buckets |-> Reads(b, b \in unread)]
        grant == level[k] >= Cost[k] /\ level[Global] >= Cost[Global]
        left  == [b \in Buckets |->
                    IF grant \/ (b = k /\ level[b] >= Cost[b])
                    THEN level[b] - Cost[b] ELSE level[b]]
    IN  /\ Faults(unread \cup unsaved)
        /\ store_bucket({k, Global} \ unsaved, left)
        /\ spent' = [b \in Buckets |-> IF grant /\ b \in {k, Global}
                                       THEN spent[b] + Cost[b] ELSE spent[b]]
        /\ UNCHANGED <<now, elapsed>>

\* A stranger's knock: both levels are read, one token leaves each bucket if
\* both hold one, and the refilled levels are stored either way.
spend_knock_token(k) ==
  \E unread \in SUBSET {k, Global} :
  \E unsaved \in SUBSET {k, Global} :
    LET level == [b \in Buckets |-> Reads(b, b \in unread)]
        grant == level[k] >= Cost[k] /\ level[Global] >= Cost[Global]
        left  == [b \in Buckets |-> IF grant /\ b \in {k, Global}
                                    THEN level[b] - Cost[b] ELSE level[b]]
    IN  /\ Faults(unread \cup unsaved)
        /\ store_bucket({k, Global} \ unsaved, left)
        /\ spent' = [b \in Buckets |-> IF grant /\ b \in {k, Global}
                                       THEN spent[b] + Cost[b] ELSE spent[b]]
        /\ UNCHANGED <<now, elapsed>>

\* The process dies between the two stores, before the knock is weighed.
DiesBetweenStores(k) ==
  /\ faults > 0 /\ faults' = faults - 1
  /\ bucket_level(k) >= Cost[k] /\ bucket_level(Global) >= Cost[Global]
  /\ store_bucket({k}, [b \in Buckets |-> bucket_level(b) - Cost[b]])
  /\ UNCHANGED <<now, windowVars>>

Tick ==
  /\ now < MaxNow /\ elapsed < MaxElapsed
  /\ now' = now + 1 /\ elapsed' = elapsed + 1
  /\ UNCHANGED <<tableVars, spent, excused, faults>>

\* The wall clock is set back, to before the stamps of the rows.
SetBack ==
  /\ now > 0
  /\ now' \in 0..(now - 1)
  /\ UNCHANGED <<tableVars, windowVars, faults>>

\* An observer starts counting anew, at any moment.
StartWindow ==
  /\ elapsed' = 0 /\ spent' = Zero /\ excused' = Zero
  /\ UNCHANGED <<now, tableVars, faults>>

KnockNext == \/ \E k \in Keys : spend_knock_token(k) \/ DiesBetweenStores(k)
             \/ Tick \/ SetBack \/ StartWindow

KnockSpec == KnockInit /\ [][KnockNext]_knockVars

-----------------------------------------------------------------------------
\* In every window the knocks processed, in all and from each key, cost no
\* more than a full bucket and the seconds the clock counted refill, and what
\* the failed reads and writes of the window gave away.  Seconds a clock that
\* was set back counts again are refilled again, and no others are.
WindowBound ==
  \A b \in Buckets : spent[b] <= Burst[b] + excused[b] + elapsed

\* "otherwise nothing is spent, so draining one bucket cannot drain the
\* other": no step of the limiter that processes no knock takes anything
\* out of a bucket, unless the process dies in it or the clock is set back.
DropSpendsNothing ==
  [][(spent' = spent /\ faults' = faults /\ now' >= now) =>
       \A b \in Buckets : bucket_level(b)' >= bucket_level(b)]_knockVars

-----------------------------------------------------------------------------
LevelInv == \A b \in rows : tokens[b] <= Burst[b]

\* What a bucket still holds counts against the window too.
BudgetInv ==
  \A b \in Buckets :
    spent[b] + bucket_level(b) <= Burst[b] + excused[b] + elapsed

KnockInv == KnockTypeOK /\ LevelInv /\ BudgetInv
=============================================================================
