--------------------------- MODULE VibrationsProofs ---------------------------
(***************************************************************************)
(* Proofs, for any number of rows and faults, that no cursor of the hook   *)
(* runner or of `rsntr await` skips an event, and that entrainments        *)
(* vibrate only for writes.                                                *)
(***************************************************************************)
EXTENDS Vibrations, WellFoundedInduction, TLAPS

-----------------------------------------------------------------------------
(* The inductive invariant. *)

\* What the hooks have collected is of the open transaction, whose row has room.
DataInv ==
  /\ DataType
  /\ tx.st = "open" => pend \subseteq {tx.table}
  /\ tx.st = "hooked" => pend = {}
  /\ End("chat_messages") + End("_inbox") + (IF tx.st = "none" THEN 0 ELSE 1) <= MaxRows

\* What lies behind the runner's cursor has run, or is in its hands.
RunInv ==
  /\ hpc # "read" => batch = {}
  /\ \A t \in Tables : hcur[t] <= End(t) /\ (stored[t] = Never \/ stored[t] <= End(t))
  /\ hpc # "off" =>
       \A x \in RowIds : x[2] > base[x[1]] /\ x[2] <= hcur[x[1]] /\ IsEvent(x) => x \in ran \cup batch
  /\ HooksSkipNothing

\* What lies behind the cursor of `await` is printed, or is about to be.
AwaitInv ==
  /\ \A t \in Tables : acur[t] <= End(t) /\ (file # NoRow => file[t] <= End(t))
  /\ apc = "print" => hand \in RowIds
  /\ apc # "off" =>
       \A x \in RowsOf(acur) \ RowsOf(since) :
         IsEvent(x) => x \in printed \/ (apc = "print" /\ x = hand)
  /\ AwaitSkipsNothing

\* Only a server has a runner at work.
StopInv == server = "down" => hpc = "off"

Inv == DataInv /\ StopInv /\ EntrainType /\ RunnerType /\ RunInv /\ AwaitType /\ AwaitInv

-----------------------------------------------------------------------------
(* Numbers and logs. *)

LEMMA LeastFacts ==
  ASSUME NEW S \in SUBSET Nat, S # {}
  PROVE  Least(S) \in S /\ \A m \in S : Least(S) <= m
  <1>1. IsWellFoundedOn({ss \in Nat \X Nat : ss[1] < ss[2]}, Nat)
    BY NatLessThanWellFounded, Zenon DEF OpToRel
  <1>2. PICK R : R = {ss \in Nat \X Nat : ss[1] < ss[2]}
    OBVIOUS
  <1>3. \A m, n \in Nat : m < n => <<m, n>> \in R
    BY <1>2
  <1>4. PICK n \in S : \A m \in S : ~ (<<m, n>> \in R)
    BY <1>1, <1>2, WFMin, Zenon
  <1>5. \A m \in S : ~ (m < n)
    BY <1>3, <1>4
  <1>6. \A m \in S : n <= m
    BY <1>5
  <1> QED BY <1>6 DEF Least

\* The rows of a table.
LEMMA EndFacts ==
  ASSUME DataInv, NEW t \in Tables
  PROVE  End(t) \in Nat /\ End(t) <= MaxRows /\ MaxRows \in Nat
  <1>1. \A u \in Tables : log[u] \in Seq(Kinds) /\ End(u) \in Nat
    BY DEF DataInv, DataType, End
  <1>2. "chat_messages" \in Tables /\ "_inbox" \in Tables
    BY DEF Tables
  <1>3. End("chat_messages") + End("_inbox") <= MaxRows
    BY <1>1, <1>2, BoundsAssumption DEF DataInv
  <1>4. CASE t = "chat_messages"
    BY <1>1, <1>2, <1>3, <1>4, BoundsAssumption
  <1>5. CASE t = "_inbox"
    BY <1>1, <1>2, <1>3, <1>5, BoundsAssumption
  <1> QED BY <1>4, <1>5 DEF Tables

LEMMA RowFacts ==
  ASSUME NEW x \in RowIds
  PROVE  x[1] \in Tables /\ x[2] \in Nat /\ x[2] >= 1 /\ x[2] <= MaxRows
  BY BoundsAssumption DEF RowIds

\* The open events past a cursor.
LEMMA FreshFacts ==
  ASSUME DataInv, NEW t \in Tables, NEW cur \in Nat
  PROVE  /\ Fresh(t, cur) \in SUBSET Nat
         /\ \A n \in Nat : n \in Fresh(t, cur) <=> n > cur /\ n <= End(t) /\ log[t][n] = "event"
         /\ {t} \X Fresh(t, cur) \subseteq RowIds
  <1>1. End(t) \in Nat /\ End(t) <= MaxRows /\ MaxRows \in Nat
    BY EndFacts
  <1>2. \A n \in Fresh(t, cur) : n \in Nat /\ n \in 1..MaxRows
    BY <1>1 DEF Fresh
  <1>3. \A n \in Nat : n \in Fresh(t, cur) <=> n > cur /\ n <= End(t) /\ log[t][n] = "event"
    BY <1>1 DEF Fresh
  <1> QED BY <1>2, <1>3 DEF RowIds

\* A table only grows, and no row becomes an event again.
LogStep ==
  \A t \in Tables : /\ End(t)' \in Nat /\ End(t) <= End(t)'
                    /\ \A n \in 1..End(t) : log'[t][n] = "event" => log[t][n] = "event"

LEMMA LogStays == ASSUME DataInv, UNCHANGED log PROVE LogStep
  BY EndFacts DEF LogStep, End

LEMMA EventStays ==
  ASSUME DataInv, LogStep, NEW x \in RowIds, x[2] <= End(x[1]), IsEvent(x)'
  PROVE  IsEvent(x)
  <1>1. x[1] \in Tables /\ x[2] \in 1..End(x[1])
    BY RowFacts, EndFacts
  <1>2. log'[x[1]][x[2]] = "event"
    BY DEF IsEvent
  <1> QED BY <1>1, <1>2 DEF IsEvent, LogStep

LEMMA RowsStay ==
  ASSUME DataInv, LogStep, NEW cur \in Cursors, NEW x \in RowIds
  PROVE  /\ x \in RowsOf(cur) => x \in RowsOf(cur)'
         /\ (\A t \in Tables : cur[t] <= End(t)) /\ x \in RowsOf(cur)' => x \in RowsOf(cur)
  <1>1. x[1] \in Tables /\ x[2] \in Nat /\ End(x[1]) \in Nat /\ End(x[1])' \in Nat
        /\ End(x[1]) <= End(x[1])' /\ cur[x[1]] \in Nat
    BY RowFacts, EndFacts DEF LogStep, Cursors
  <1>2. x \in RowsOf(cur) <=> x[2] <= cur[x[1]] /\ x[2] <= End(x[1])
    BY DEF RowsOf
  <1>3. x \in RowsOf(cur)' <=> x[2] <= cur[x[1]] /\ x[2] <= End(x[1])'
    BY DEF RowsOf
  <1> QED BY <1>1, <1>2, <1>3

-----------------------------------------------------------------------------
(* Whatever happens to the tables, those who do not move keep their place. *)

LEMMA RunnerRests ==
  ASSUME DataInv, RunnerType, RunInv, LogStep, UNCHANGED <<hpc, batch, hcur, stored, base, ran>>
  PROVE  RunInv'
  <1> USE DEF RunnerType
  <1>1. \A t \in Tables : /\ hcur[t] \in Nat /\ stored[t] \in Nat /\ End(t) \in Nat /\ End(t)' \in Nat
                          /\ End(t) <= End(t)' /\ Never \in Nat
    BY EndFacts, BoundsAssumption DEF LogStep, Cursors, Never
  <1>2. \A t \in Tables : hcur'[t] <= End(t)' /\ (stored'[t] = Never \/ stored'[t] <= End(t)')
    BY <1>1 DEF RunInv
  <1>3. ASSUME NEW x \in RowIds, x[2] <= hcur[x[1]], IsEvent(x)' PROVE IsEvent(x)
    BY <1>1, <1>3, EventStays, RowFacts DEF RunInv
  <1>4. ASSUME NEW x \in RowIds, stored[x[1]] # Never, x[2] <= stored[x[1]], IsEvent(x)' PROVE IsEvent(x)
    BY <1>1, <1>4, EventStays, RowFacts DEF RunInv
  <1>5. HooksSkipNothing'
    BY <1>4 DEF RunInv, HooksSkipNothing
  <1>6. hpc' # "off" =>
          \A x \in RowIds : x[2] > base'[x[1]] /\ x[2] <= hcur'[x[1]] /\ IsEvent(x)' => x \in ran' \cup batch'
    BY <1>3 DEF RunInv
  <1> QED BY <1>2, <1>5, <1>6 DEF RunInv

LEMMA AwaitRests ==
  ASSUME DataInv, AwaitType, AwaitInv, LogStep, UNCHANGED awaiter
  PROVE  AwaitInv'
  <1> USE DEF AwaitType, awaiter
  <1>1. \A t \in Tables : acur[t] \in Nat /\ End(t) \in Nat /\ End(t)' \in Nat /\ End(t) <= End(t)'
    BY EndFacts, BoundsAssumption DEF LogStep, Cursors
  <1>2. file # NoRow => file \in Cursors
    OBVIOUS
  <1>3. \A t \in Tables : acur'[t] <= End(t)' /\ (file' # NoRow => file'[t] <= End(t)')
    <2>1. file # NoRow => \A t \in Tables : file[t] \in Nat
      BY <1>2, BoundsAssumption DEF Cursors
    <2> QED BY <1>1, <2>1 DEF AwaitInv
  <1>4. ASSUME NEW cur \in Cursors, \A t \in Tables : cur[t] <= End(t),
               NEW x \in RowsOf(cur)' \ RowsOf(since)', IsEvent(x)'
        PROVE  x \in RowsOf(cur) \ RowsOf(since) /\ IsEvent(x)
    <2>1. x \in RowIds
      BY DEF RowsOf
    <2>2. x \in RowsOf(cur) \ RowsOf(since)
      BY <1>4, <2>1, RowsStay
    <2>3. x[2] <= End(x[1])
      BY <2>2 DEF RowsOf
    <2> QED BY <1>4, <2>1, <2>2, <2>3, EventStays
  <1>5. apc' # "off" =>
          \A x \in RowsOf(acur)' \ RowsOf(since)' :
            IsEvent(x)' => x \in printed' \/ (apc' = "print" /\ x = hand')
    <2> SUFFICES ASSUME apc # "off", NEW x \in RowsOf(acur)' \ RowsOf(since)', IsEvent(x)'
                 PROVE  x \in printed \/ (apc = "print" /\ x = hand)
      OBVIOUS
    <2>1. PICK cur \in Cursors : cur = acur
      OBVIOUS
    <2>2. RowsOf(cur)' = RowsOf(acur)'
      BY <2>1 DEF RowsOf
    <2>3. x \in RowsOf(cur) \ RowsOf(since) /\ IsEvent(x)
      BY <1>4, <2>1, <2>2 DEF AwaitInv
    <2> QED BY <2>1, <2>3 DEF AwaitInv
  <1>6. AwaitSkipsNothing'
    <2> SUFFICES ASSUME file # NoRow, NEW x \in RowsOf(file)' \ RowsOf(since)', IsEvent(x)'
                 PROVE  x \in printed
      BY DEF AwaitSkipsNothing
    <2>1. PICK cur \in Cursors : cur = file
      BY <1>2
    <2>2. RowsOf(cur)' = RowsOf(file)'
      BY <2>1 DEF RowsOf
    <2>3. x \in RowsOf(cur) \ RowsOf(since) /\ IsEvent(x)
      BY <1>4, <2>1, <2>2 DEF AwaitInv
    <2> QED BY <2>1, <2>3 DEF AwaitInv, AwaitSkipsNothing
  <1> QED BY <1>3, <1>5, <1>6 DEF AwaitInv

LEMMA OthersRest ==
  ASSUME Inv, LogStep, UNCHANGED <<hpc, batch, hcur, stored, base, ran, dirty, moved, awaiter>>,
         wake' \in SUBSET Tables, DataInv', EntrainType', server' = "down" => server = "down"
  PROVE  Inv'
  <1>1. RunnerType' /\ AwaitType'
    BY DEF Inv, RunnerType, AwaitType, awaiter
  <1>2. RunInv' /\ AwaitInv'
    BY RunnerRests, AwaitRests DEF Inv
  <1> QED BY <1>1, <1>2 DEF Inv, StopInv

-----------------------------------------------------------------------------
(* Commits. *)

LEMMA NewRowType == ASSUME NEW r \in NewRows PROVE r[1] \in Tables /\ r[2] \in Kinds
  BY DEF NewRows, Tables, Kinds

\* The transaction on the node's connection.
LEMMA TxFacts ==
  ASSUME DataInv
  PROVE  /\ tx.st \in {"none", "open", "hooked"}
         /\ tx.st = "none" => tx = NoTx /\ pend = {}
         /\ tx.st # "none" => tx \in [st : {"open", "hooked"}, table : Tables, kind : Kinds]
  BY DEF DataInv, DataType, NoTx

Size == End("chat_messages") + End("_inbox")

LEMMA SizeFacts ==
  ASSUME DataInv
  PROVE  /\ Size \in Nat /\ Size <= MaxRows /\ (tx.st # "none" => Size + 1 <= MaxRows)
         /\ HasRoom => Size + 1 <= MaxRows
  <1>1. End("chat_messages") \in Nat /\ End("_inbox") \in Nat /\ MaxRows \in Nat
    BY EndFacts DEF Tables
  <1>2. CASE tx.st = "none"
    BY <1>1, <1>2 DEF Size, DataInv, HasRoom
  <1>3. CASE tx.st # "none"
    BY <1>1, <1>3 DEF Size, DataInv, HasRoom
  <1> QED BY <1>2, <1>3

\* Another row of a table.
LEMMA AppendGrows ==
  ASSUME DataInv, NEW t \in Tables, NEW k \in Kinds, log' = [log EXCEPT ![t] = Append(@, k)]
  PROVE  LogStep /\ log' \in [Tables -> Seq(Kinds)] /\ Size' = Size + 1
  <1>1. log \in [Tables -> Seq(Kinds)]
    BY DEF DataInv, DataType
  <1>2. /\ log' \in [Tables -> Seq(Kinds)] /\ log'[t] = Append(log[t], k)
        /\ \A u \in Tables \ {t} : log'[u] = log[u]
    BY <1>1
  <1>3. /\ Len(log'[t]) = Len(log[t]) + 1 /\ Len(log[t]) \in Nat
        /\ \A n \in 1..Len(log[t]) : log'[t][n] = log[t][n]
    BY <1>1, <1>2
  <1>4. LogStep
    <2>1. ASSUME NEW u \in Tables
          PROVE  /\ Len(log'[u]) \in Nat /\ Len(log[u]) <= Len(log'[u])
                 /\ \A n \in 1..Len(log[u]) : log'[u][n] = "event" => log[u][n] = "event"
      <3>1. CASE u = t
        BY <1>3, <3>1
      <3>2. CASE u # t
        BY <1>1, <1>2, <3>2
      <3> QED BY <3>1, <3>2
    <2> QED BY <2>1 DEF LogStep, End
  <1>5. Size' = Size + 1
    <2>1. Len(log["chat_messages"]) \in Nat /\ Len(log["_inbox"]) \in Nat
      BY <1>1 DEF Tables
    <2>2. CASE t = "chat_messages"
      BY <1>2, <1>3, <2>1, <2>2 DEF Size, End, Tables
    <2>3. CASE t = "_inbox"
      BY <1>2, <1>3, <2>1, <2>3 DEF Size, End, Tables
    <2> QED BY <2>2, <2>3 DEF Tables
  <1> QED BY <1>2, <1>4, <1>5

\* What is left to show of a step that changes the tables at most.
LEMMA DataFollows ==
  ASSUME DataInv, UNCHANGED cast, log' \in [Tables -> Seq(Kinds)],
         Size' \in Nat, tx' = NoTx, pend' = {}, Size' <= MaxRows,
         foreign' \in BOOLEAN, server' \in {"down", "spawned", "hooked", "up"}, missed' \in SUBSET Tables,
         faults' \in 0..MaxFaults
  PROVE  DataInv'
  <1>1. tx'.st = "none"
    BY DEF NoTx
  <1>2. DataType'
    BY <1>1 DEF DataInv, DataType
  <1>3. End("chat_messages")' + End("_inbox")' + 0 <= MaxRows
    BY DEF Size
  <1> QED BY <1>1, <1>2, <1>3 DEF DataInv

LEMMA EntrainRests == ASSUME EntrainType, UNCHANGED entrain PROVE EntrainType'
  BY DEF EntrainType, entrain

LEMMA SignalType ==
  ASSUME EntrainType, NEW ts, Signal(ts), UNCHANGED <<sub, vib, seen>> PROVE EntrainType'
  BY DEF EntrainType, Signal

LEMMA FaultType == ASSUME DataInv, Fault \/ UNCHANGED faults PROVE faults' \in 0..MaxFaults
  BY BoundsAssumption DEF Fault, DataInv, DataType

LEMMA CommitsKeepInv ==
  ASSUME Inv,
         \/ \E r \in NewRows : Write(r[1], r[2]) \/ ForeignWrite(r[1], r[2])
         \/ \E n \in 1..MaxRows : Decide(n)
         \/ Rollback \/ CommitHook \/ Commit \/ CommitFails \/ WatcherTick
  PROVE  Inv'
  <1> USE DEF Inv, runner
  <1>0. wake \in SUBSET Tables /\ missed \in SUBSET Tables /\ foreign \in BOOLEAN /\ pend \in SUBSET Tables
        /\ log \in [Tables -> Seq(Kinds)] /\ server \in {"down", "spawned", "hooked", "up"}
        /\ faults \in 0..MaxFaults /\ cast \in Casts
    BY DEF RunnerType, DataInv, DataType
  <1>1. ASSUME NEW r \in NewRows, Write(r[1], r[2]) PROVE Inv'
    <2>1. /\ UNCHANGED <<cast, log, foreign, server, entrain, runner, awaiter, missed, faults>>
          /\ tx' = [st |-> "open", table |-> r[1], kind |-> r[2]] /\ pend' \subseteq {r[1]} /\ HasRoom
      BY <1>1 DEF Write
    <2>2. tx'.st = "open" /\ tx'.table = r[1] /\ tx' \in [st : {"open", "hooked"}, table : Tables, kind : Kinds]
      BY <2>1, NewRowType
    <2>3. DataType'
      BY <1>0, <2>1, <2>2, NewRowType DEF DataInv, DataType
    <2>4. Size' = Size /\ Size + 1 <= MaxRows
      BY <2>1, SizeFacts DEF Size, End
    <2>5. DataInv'
      BY <2>1, <2>2, <2>3, <2>4 DEF DataInv, Size
    <2> QED BY <1>0, <2>1, <2>5, EntrainRests, LogStays, OthersRest
  <1>2. ASSUME NEW r \in NewRows, ForeignWrite(r[1], r[2]) PROVE Inv'
    <2>1. /\ log' = [log EXCEPT ![r[1]] = Append(@, r[2])] /\ foreign' = TRUE /\ tx.st = "none" /\ HasRoom
          /\ UNCHANGED <<cast, tx, pend, server, entrain, runner, awaiter, missed, faults>>
      BY <1>2 DEF ForeignWrite, DbFree
    <2>2. LogStep /\ log' \in [Tables -> Seq(Kinds)] /\ Size' = Size + 1
      BY <2>1, NewRowType, AppendGrows
    <2>3. Size' \in Nat /\ Size' <= MaxRows /\ tx' = NoTx /\ pend' = {}
      BY <2>1, <2>2, SizeFacts, TxFacts
    <2>4. DataInv'
      BY <1>0, <2>1, <2>2, <2>3, DataFollows
    <2> QED BY <1>0, <2>1, <2>2, <2>4, EntrainRests, OthersRest
  <1>3. ASSUME NEW n \in 1..MaxRows, Decide(n) PROVE Inv'
    <2>1. /\ log' = [log EXCEPT !["_inbox"][n] = "skip"] /\ foreign' = TRUE /\ tx.st = "none"
          /\ n \in Fresh("_inbox", 0) /\ UNCHANGED <<cast, tx, pend, server, entrain, runner, awaiter, missed, faults>>
      BY <1>3 DEF Decide, DbFree
    <2>2. n \in 1..Len(log["_inbox"]) /\ log["_inbox"] \in Seq(Kinds) /\ "_inbox" \in Tables
      BY <1>0, <2>1 DEF Fresh, End, Tables
    <2>3. /\ log'["_inbox"] \in Seq(Kinds) /\ Len(log'["_inbox"]) = Len(log["_inbox"])
          /\ \A m \in 1..Len(log["_inbox"]) : log'["_inbox"][m] = "event" => log["_inbox"][m] = "event"
      BY <1>0, <2>1, <2>2 DEF Kinds
    <2>4. log' \in [Tables -> Seq(Kinds)] /\ \A u \in Tables \ {"_inbox"} : log'[u] = log[u]
      BY <1>0, <2>1, <2>2, <2>3
    <2>5. LogStep
      <3>1. ASSUME NEW u \in Tables
            PROVE  /\ Len(log'[u]) \in Nat /\ Len(log[u]) <= Len(log'[u])
                   /\ \A m \in 1..Len(log[u]) : log'[u][m] = "event" => log[u][m] = "event"
        <4>1. CASE u = "_inbox"
          BY <2>2, <2>3, <4>1
        <4>2. CASE u # "_inbox"
          BY <1>0, <2>4, <4>2
        <4> QED BY <4>1, <4>2
      <3> QED BY <3>1 DEF LogStep, End
    <2>6. Size' = Size
      BY <2>3, <2>4 DEF Size, End, Tables
    <2>7. DataInv'
      BY <1>0, <2>1, <2>4, <2>6, SizeFacts, TxFacts, DataFollows
    <2> QED BY <1>0, <2>1, <2>5, <2>7, EntrainRests, OthersRest
  <1>4. ASSUME Rollback \/ CommitFails PROVE Inv'
    <2>1. /\ tx' = NoTx /\ pend' = {} /\ Fault /\ UNCHANGED <<cast, log, foreign, server, entrain, runner, awaiter, missed>>
      BY <1>4 DEF Rollback, CommitFails, DataInv
    <2>2. Size' = Size
      BY <2>1 DEF Size, End
    <2>3. DataInv'
      BY <1>0, <2>1, <2>2, SizeFacts, FaultType, DataFollows
    <2> QED BY <1>0, <2>1, <2>3, EntrainRests, LogStays, OthersRest
  <1>5. ASSUME CommitHook PROVE Inv'
    <2>1. /\ tx.st = "open" /\ tx' = [tx EXCEPT !.st = "hooked"] /\ pend' = {} /\ Signal(pend) /\ Observe(pend)
          /\ UNCHANGED <<cast, log, foreign, server, sub, vib, seen, hpc, dirty, batch, moved,
                         hcur, stored, ran, base, awaiter, missed, faults>>
      BY <1>5 DEF CommitHook
    <2>2. tx'.st = "hooked" /\ tx' \in [st : {"open", "hooked"}, table : Tables, kind : Kinds]
      BY <2>1, TxFacts
    <2>3. wake' \in SUBSET Tables
      BY <1>0, <2>1 DEF Observe
    <2>4. DataType'
      BY <1>0, <2>1, <2>2 DEF DataInv, DataType
    <2>5. Size' = Size /\ Size + 1 <= MaxRows
      BY <2>1, SizeFacts DEF Size, End
    <2>6. DataInv'
      BY <2>1, <2>2, <2>4, <2>5 DEF DataInv, Size
    <2> QED BY <2>1, <2>3, <2>6, SignalType, LogStays, OthersRest
  <1>6. ASSUME Commit PROVE Inv'
    <2>1. /\ tx.st = "hooked" /\ log' = [log EXCEPT ![tx.table] = Append(@, tx.kind)] /\ tx' = NoTx
          /\ UNCHANGED <<cast, pend, foreign, server, entrain, runner, awaiter, faults>>
      BY <1>6 DEF Commit
    <2>2. tx.table \in Tables /\ tx.kind \in Kinds /\ pend' = {}
      BY <2>1, TxFacts DEF DataInv
    <2>3. LogStep /\ log' \in [Tables -> Seq(Kinds)] /\ Size' = Size + 1
      BY <2>1, <2>2, AppendGrows
    <2>4. missed' \in SUBSET Tables
      BY <1>0, <1>6, <2>2 DEF Commit
    <2>5. Size' \in Nat /\ Size' <= MaxRows
      BY <2>1, <2>3, SizeFacts
    <2>6. DataInv'
      BY <1>0, <2>1, <2>2, <2>3, <2>4, <2>5, DataFollows
    <2> QED BY <1>0, <2>1, <2>3, <2>6, EntrainRests, OthersRest
  <1>7. ASSUME WatcherTick PROVE Inv'
    <2>1. /\ tx.st = "none" /\ foreign' = FALSE /\ Signal(Tables) /\ Observe(Tables)
          /\ UNCHANGED <<cast, log, tx, pend, server, sub, vib, seen, hpc, dirty, batch, moved,
                         hcur, stored, ran, base, awaiter, missed, faults>>
      BY <1>7 DEF WatcherTick, ForeignScan, DbFree
    <2>2. wake' \in SUBSET Tables
      BY <1>0, <2>1 DEF Observe
    <2>3. Size' = Size
      BY <2>1 DEF Size, End
    <2>4. DataInv'
      BY <1>0, <2>1, <2>3, SizeFacts, TxFacts, DataFollows
    <2> QED BY <2>1, <2>2, <2>4, SignalType, LogStays, OthersRest
  <1> QED BY <1>1, <1>2, <1>3, <1>4, <1>5, <1>6, <1>7

-----------------------------------------------------------------------------
(* The serving process and the streams. *)

LEMMA DataRests ==
  ASSUME DataInv, UNCHANGED <<cast, data>>, server' \in {"down", "spawned", "hooked", "up"},
         missed' \in SUBSET Tables, faults' \in 0..MaxFaults
  PROVE  DataInv' /\ LogStep /\ \A t \in Tables : End(t)' = End(t)
  <1>1. UNCHANGED <<log, tx, pend, foreign>>
    BY DEF data
  <1>2. DataInv'
    BY <1>1 DEF DataInv, DataType, End
  <1> QED BY <1>1, <1>2, LogStays DEF End

LEMMA StreamsKeepInv ==
  ASSUME Inv,
         \/ InstallHook \/ StartWatcher \/ PeerReads \/ PeerEntrains \/ PeerDamps
         \/ \E c \in Subs : SendVibration(c) \/ DampSlow(c)
  PROVE  Inv'
  <1> USE DEF Inv, runner
  <1>0. wake \in SUBSET Tables /\ missed \in SUBSET Tables /\ server \in {"down", "spawned", "hooked", "up"}
        /\ faults \in 0..MaxFaults /\ Peer \in Subs /\ TableOf(Peer) \in Tables
    BY DEF RunnerType, DataInv, DataType, Peer, Subs, TableOf, Tables
  <1>1. CASE InstallHook
    <2>1. UNCHANGED <<cast, data, entrain, runner, awaiter, missed, faults>> /\ server' = "hooked"
      BY <1>1 DEF InstallHook
    <2> QED BY <1>0, <2>1, DataRests, EntrainRests, OthersRest
  <1>2. CASE StartWatcher
    <2>1. /\ UNCHANGED <<cast, log, tx, pend, entrain, runner, awaiter, faults>> /\ tx.st = "none"
          /\ server' = "up" /\ foreign' = FALSE /\ missed' \in SUBSET Tables
      BY <1>0, <1>2 DEF StartWatcher, DbFree
    <2>2. Size' = Size /\ log \in [Tables -> Seq(Kinds)]
      BY <2>1 DEF Size, End, DataInv, DataType
    <2>3. DataInv'
      BY <1>0, <2>1, <2>2, SizeFacts, TxFacts, DataFollows
    <2> QED BY <1>0, <2>1, <2>3, EntrainRests, LogStays, OthersRest
  <1>3. CASE PeerReads \/ PeerEntrains \/ PeerDamps \/ \E c \in Subs : SendVibration(c) \/ DampSlow(c)
    <2>1. UNCHANGED <<cast, data, server, runner, awaiter, missed, faults>>
      BY <1>3 DEF PeerReads, PeerEntrains, PeerDamps, SendVibration, DampSlow
    <2>2. seen' \in 0..MaxRows
      BY <1>0, <1>3, EndFacts DEF PeerReads, PeerEntrains, PeerDamps, SendVibration, DampSlow, EntrainType
    <2>3. EntrainType'
      BY <1>0, <1>3, <2>2 DEF PeerReads, PeerEntrains, PeerDamps, SendVibration, DampSlow, EntrainType, Subscribe
    <2> QED BY <1>0, <2>1, <2>3, DataRests, OthersRest
  <1> QED BY <1>1, <1>2, <1>3

\* A stop loses what the runner has in hand, not what it has stored.
LEMMA ServerStopsKeepsInv == ASSUME Inv, ServerStops PROVE Inv'
  <1> USE DEF Inv
  <1>1. /\ server' = "down" /\ tx' = NoTx /\ pend' = {} /\ Fault /\ missed' = {}
        /\ hpc' = "off" /\ hcur' = Zero /\ wake' = {} /\ dirty' = {} /\ batch' = {} /\ moved' = FALSE
        /\ UNCHANGED <<cast, log, foreign, seen, stored, ran, base, awaiter>>
    BY DEF ServerStops
  <1>2. DataInv'
    <2>1. Size' = Size /\ log \in [Tables -> Seq(Kinds)] /\ foreign \in BOOLEAN
      BY <1>1 DEF Size, End, DataInv, DataType
    <2> QED BY <1>1, <2>1, SizeFacts, FaultType, DataFollows
  <1>3. EntrainType'
    BY DEF ServerStops, EntrainType
  <1>4. hcur' \in Cursors /\ \A t \in Tables : hcur'[t] = 0
    BY <1>1, BoundsAssumption DEF Cursors, Zero
  <1>5. RunnerType'
    BY <1>1, <1>4 DEF RunnerType
  <1>6. RunInv'
    <2>1. \A t \in Tables : End(t)' = End(t) /\ End(t) \in Nat
      BY <1>1, EndFacts DEF End
    <2>2. HooksSkipNothing'
      BY <1>1 DEF HooksSkipNothing, RunInv, IsEvent, End
    <2> QED BY <1>1, <1>4, <2>1, <2>2 DEF RunInv
  <1>7. AwaitType' /\ AwaitInv'
    BY <1>1, LogStays, AwaitRests DEF AwaitType, awaiter
  <1> QED BY <1>1, <1>2, <1>3, <1>5, <1>6, <1>7 DEF StopInv

\* HookRunner::spawn goes on from the stored cursors, or from where the tables end.
LEMMA SpawnKeepsInv == ASSUME Inv, SpawnRunner PROVE Inv'
  <1> USE DEF Inv
  <1>1. /\ server' = "spawned" /\ UNCHANGED <<cast, data, entrain, wake, dirty, batch, moved, stored, ran, awaiter, faults>>
    BY DEF SpawnRunner
  <1>2. missed' \in SUBSET Tables /\ faults' \in 0..MaxFaults
    BY DEF SpawnRunner, DataInv, DataType
  <1>3. DataInv' /\ LogStep /\ \A t \in Tables : End(t)' = End(t)
    BY <1>1, <1>2, DataRests
  <1>4. AwaitType' /\ AwaitInv' /\ EntrainType'
    BY <1>1, <1>3, AwaitRests, EntrainRests DEF AwaitType, awaiter
  <1>5. CASE "runner" \notin cast
    <2>1. UNCHANGED <<hpc, hcur, base>>
      BY <1>5 DEF SpawnRunner
    <2>2. RunnerType'
      BY <1>1, <2>1 DEF RunnerType
    <2>3. RunInv'
      BY <1>1, <1>3, <2>1, RunnerRests
    <2> QED BY <1>1, <1>3, <1>4, <2>2, <2>3 DEF StopInv
  <1>6. CASE "runner" \in cast
    <2>1. /\ hpc' = "idle"
          /\ hcur' = [t \in Tables |-> IF stored[t] = Never THEN End(t) ELSE stored[t]]
          /\ base' = [t \in Tables |-> IF stored[t] = Never THEN End(t) ELSE base[t]]
      BY <1>6 DEF SpawnRunner
    <2>2. \A t \in Tables : /\ End(t) \in 0..MaxRows /\ End(t) \in Nat /\ base[t] \in 0..MaxRows
                            /\ stored[t] \in Nat /\ (stored[t] = Never \/ stored[t] <= End(t))
      BY EndFacts, BoundsAssumption DEF RunnerType, Cursors, RunInv, Never
    <2>3. hcur' \in Cursors /\ base' \in Cursors
      BY <2>1, <2>2, BoundsAssumption DEF Cursors
    <2>4. RunnerType'
      BY <1>1, <2>1, <2>3 DEF RunnerType
    <2>5. \A t \in Tables : hcur'[t] <= End(t) /\ (stored[t] = Never => hcur'[t] = base'[t])
                            /\ (stored[t] # Never => hcur'[t] = stored[t] /\ base'[t] = base[t])
      BY <2>1, <2>2
    <2>6. \A x \in RowIds : IsEvent(x)' <=> IsEvent(x)
      BY <1>1 DEF IsEvent, End, data
    <2>7. HooksSkipNothing'
      BY <1>1, <2>5, <2>6, RowFacts DEF HooksSkipNothing, RunInv
    <2>8. ASSUME NEW x \in RowIds, x[2] > base'[x[1]], x[2] <= hcur'[x[1]], IsEvent(x)'
          PROVE  x \in ran'
      <3>1. x[1] \in Tables /\ x[2] \in Nat /\ hcur'[x[1]] \in Nat
        BY <2>3, RowFacts, BoundsAssumption DEF Cursors
      <3>2. CASE stored[x[1]] = Never
        BY <2>5, <2>8, <3>1, <3>2
      <3>3. CASE stored[x[1]] # Never
        BY <1>1, <2>5, <2>6, <2>8, <3>1, <3>3 DEF RunInv, HooksSkipNothing
      <3> QED BY <3>2, <3>3
    <2>9. batch = {}
      BY DEF SpawnRunner, StopInv, RunInv
    <2> QED BY <1>1, <1>3, <1>4, <2>1, <2>4, <2>5, <2>7, <2>8, <2>9 DEF RunInv, StopInv
  <1> QED BY <1>5, <1>6

-----------------------------------------------------------------------------
(* The hook runner. *)

\* With the tables at rest, events are the same.
LEMMA EventsRest ==
  ASSUME UNCHANGED data
  PROVE  (\A x \in RowIds : IsEvent(x)' <=> IsEvent(x)) /\ \A t \in Tables : End(t)' = End(t)
  BY DEF IsEvent, End, data

LEMMA RunnerFollows ==
  ASSUME Inv, RunnerOnly, missed' \in SUBSET Tables, faults' \in 0..MaxFaults,
         RunnerType', RunInv', hpc' = "off" <=> hpc = "off"
  PROVE  Inv'
  <1>1. UNCHANGED <<cast, data, server, entrain, awaiter>>
    BY DEF RunnerOnly
  <1>2. DataInv' /\ LogStep
    BY <1>1, DataRests DEF Inv, DataInv, DataType
  <1>3. AwaitType' /\ AwaitInv' /\ EntrainType'
    BY <1>1, <1>2, AwaitRests, EntrainRests DEF Inv, AwaitType, awaiter
  <1> QED BY <1>1, <1>2, <1>3 DEF Inv, StopInv

LEMMA RunnerKeepsInv ==
  ASSUME Inv,
         \/ RunnerStep \/ StoreFails
         \/ \E t \in Tables : Collect(t) \/ ReadFails(t)
  PROVE  Inv'
  <1> USE DEF Inv
  <1>0. /\ wake \in SUBSET Tables /\ dirty \in SUBSET Tables /\ batch \in SUBSET RowIds /\ hcur \in Cursors
        /\ base \in Cursors /\ stored \in [Tables -> 0..Never] /\ ran \in SUBSET RowIds /\ moved \in BOOLEAN
        /\ missed \in SUBSET Tables /\ faults \in 0..MaxFaults
    BY DEF RunnerType, DataInv, DataType
  \* Nothing moves but the place in the loop.
  <1>1. ASSUME RunnerOnly, UNCHANGED <<hcur, stored, ran, base, batch>>,
               batch = {}, hpc # "off", hpc' \in {"idle", "debounce", "read", "chat", "inbox"},
               wake' \in SUBSET Tables, dirty' \in SUBSET Tables, moved' \in BOOLEAN,
               missed' \in SUBSET Tables, faults' \in 0..MaxFaults
        PROVE  Inv'
    <2>1. RunnerType'
      BY <1>0, <1>1 DEF RunnerType
    <2>2. RunInv'
      BY <1>1, EventsRest DEF RunInv, HooksSkipNothing, RunnerOnly
    <2> QED BY <1>1, <2>1, <2>2, RunnerFollows
  <1>2. CASE \E t \in Tables : BeginBurst(t) \/ Collect(t)
    BY <1>0, <1>1, <1>2 DEF BeginBurst, Collect, RunInv
  <1>3. CASE Quiet \/ EndBurst
    BY <1>0, <1>1, <1>3 DEF Quiet, EndBurst, RunInv
  <1>4. CASE StoreFails \/ \E t \in Tables : ReadFails(t)
    BY <1>0, <1>1, <1>4, FaultType DEF StoreFails, ReadFails, InTurn, RunInv
  <1>5. ASSUME NEW t \in Tables, ReadTable(t) PROVE Inv'
    <2>1. /\ hpc = "read" /\ batch = {} /\ batch' = {t} \X Fresh(t, hcur[t])
          /\ hcur' = [hcur EXCEPT ![t] = End(t)] /\ dirty' = dirty \ {t}
          /\ RunnerOnly /\ UNCHANGED <<hpc, wake, stored, ran, base, faults>>
          /\ missed' \in SUBSET Tables /\ moved' \in BOOLEAN
      BY <1>0, <1>5 DEF ReadTable, InTurn
    <2>2. /\ \A u \in Tables : hcur[u] \in Nat /\ hcur[u] <= End(u) /\ End(u) \in Nat /\ End(u) \in 0..MaxRows
          /\ MaxRows \in Nat
      BY <1>0, EndFacts, BoundsAssumption DEF Cursors, RunInv
    <2>3. hcur' \in Cursors /\ hcur'[t] = End(t) /\ \A u \in Tables \ {t} : hcur'[u] = hcur[u]
      BY <1>0, <2>1, <2>2 DEF Cursors
    <2>4. batch' \subseteq RowIds
      BY <2>1, <2>2, FreshFacts
    <2>5. RunnerType'
      BY <1>0, <2>1, <2>3, <2>4 DEF RunnerType
    <2>6. (\A x \in RowIds : IsEvent(x)' <=> IsEvent(x)) /\ \A u \in Tables : End(u)' = End(u)
      BY <2>1, EventsRest DEF RunnerOnly
    <2>7. ASSUME NEW x \in RowIds, x[2] > base[x[1]], x[2] <= hcur'[x[1]], IsEvent(x) PROVE x \in ran \cup batch'
      <3>1. x[1] \in Tables /\ x[2] \in Nat /\ x = <<x[1], x[2]>>
        BY RowFacts DEF RowIds
      <3>2. CASE x[2] <= hcur[x[1]]
        BY <2>1, <2>7, <3>2 DEF RunInv
      <3>3. CASE x[1] = t /\ x[2] > hcur[t]
        <4>1. x[2] \in Fresh(t, hcur[t])
          BY <2>2, <2>3, <2>7, <3>1, <3>3, FreshFacts DEF IsEvent
        <4> QED BY <2>1, <3>1, <3>3, <4>1
      <3>4. x[1] = t \/ x[2] <= hcur[x[1]]
        BY <2>3, <2>7, <3>1
      <3> QED BY <2>2, <3>1, <3>2, <3>3, <3>4
    <2>8. RunInv'
      <3>1. \A u \in Tables : hcur'[u] <= End(u)' /\ (stored'[u] = Never \/ stored'[u] <= End(u)')
        BY <2>1, <2>2, <2>3, <2>6 DEF RunInv
      <3>2. HooksSkipNothing'
        BY <2>1, <2>6 DEF RunInv, HooksSkipNothing
      <3> QED BY <2>1, <2>6, <2>7, <3>1, <3>2 DEF RunInv
    <2> QED BY <1>0, <2>1, <2>5, <2>8, RunnerFollows
  <1>6. ASSUME Dispatch PROVE Inv'
    <2>1. PICK y \in batch : ran' = ran \cup {y} /\ batch' = batch \ {y}
      BY <1>6 DEF Dispatch
    <2>2. hpc = "read" /\ RunnerOnly /\ UNCHANGED <<hpc, wake, dirty, moved, hcur, stored, base, missed, faults>>
      BY <1>6 DEF Dispatch
    <2>3. RunnerType'
      BY <1>0, <2>1, <2>2 DEF RunnerType
    <2>4. RunInv'
      BY <2>1, <2>2, EventsRest DEF RunInv, HooksSkipNothing, RunnerOnly
    <2> QED BY <1>0, <2>2, <2>3, <2>4, RunnerFollows
  <1>7. ASSUME NEW t \in Tables, StoreCursor(t) PROVE Inv'
    <2>1. /\ hpc \in {"chat", "inbox"} /\ stored' = [stored EXCEPT ![t] = hcur[t]] /\ hpc' \in {"idle", "inbox"}
          /\ RunnerOnly /\ UNCHANGED <<wake, dirty, batch, moved, hcur, ran, base, missed, faults>>
      BY <1>7 DEF StoreCursor
    <2>2. stored' \in [Tables -> 0..Never] /\ stored'[t] = hcur[t] /\ \A u \in Tables \ {t} : stored'[u] = stored[u]
      BY <1>0, <2>1, BoundsAssumption DEF Cursors, Never
    <2>3. RunnerType'
      BY <1>0, <2>1, <2>2 DEF RunnerType
    <2>4. (\A x \in RowIds : IsEvent(x)' <=> IsEvent(x)) /\ \A u \in Tables : End(u)' = End(u)
      BY <2>1, EventsRest DEF RunnerOnly
    <2>5. HooksSkipNothing'
      <3> SUFFICES ASSUME NEW x \in RowIds, stored'[x[1]] # Never, x[2] > base[x[1]], x[2] <= stored'[x[1]], IsEvent(x)
                   PROVE  x \in ran
        BY <2>1, <2>4 DEF HooksSkipNothing
      <3>1. x[1] \in Tables
        BY RowFacts
      <3>2. CASE x[1] = t
        BY <2>1, <2>2, <3>2 DEF RunInv
      <3>3. CASE x[1] # t
        BY <2>2, <3>1, <3>3 DEF RunInv, HooksSkipNothing
      <3> QED BY <3>2, <3>3
    <2>6. RunInv'
      BY <2>1, <2>2, <2>4, <2>5 DEF RunInv
    <2> QED BY <1>0, <2>1, <2>3, <2>6, RunnerFollows
  <1> QED BY <1>2, <1>3, <1>4, <1>5, <1>6, <1>7 DEF RunnerStep

-----------------------------------------------------------------------------
(* rsntr await. *)

LEMMA AwaitFollows ==
  ASSUME Inv, AwaitOnly, faults' \in 0..MaxFaults, EntrainType', AwaitType', AwaitInv'
  PROVE  Inv'
  <1>1. UNCHANGED <<cast, data, server, runner, missed>>
    BY DEF AwaitOnly
  <1>2. DataInv' /\ LogStep
    BY <1>1, DataRests DEF Inv, DataInv, DataType
  <1>3. RunnerType' /\ RunInv'
    BY <1>1, <1>2, RunnerRests DEF Inv, RunnerType, runner
  <1> QED BY <1>1, <1>2, <1>3 DEF Inv, StopInv, runner

\* catch_up moves a cursor over no event but the one it takes.
LEMMA CatchUpKeeps ==
  ASSUME Inv, NEW none \in {"entrain", "blocked"}, catch_up(none), apc \in {"scan", "blocked"},
         UNCHANGED <<data, file, printed, since>>
  PROVE  acur' \in Cursors /\ apc' \in {"entrain", "blocked", "print"} /\ AwaitInv'
  <1> USE DEF Inv
  <1>1. (\A x \in RowIds : IsEvent(x)' <=> IsEvent(x)) /\ \A t \in Tables : End(t)' = End(t)
    BY EventsRest
  <1>2. \A t \in Tables : /\ acur[t] \in Nat /\ acur[t] <= End(t) /\ End(t) \in Nat /\ End(t) \in 0..MaxRows
                          /\ since[t] \in Nat
    BY EndFacts, BoundsAssumption DEF AwaitType, AwaitInv, Cursors
  <1>3. \A c : RowsOf(c)' = RowsOf(c)
    BY DEF RowsOf, End, data
  <1>4. \A x \in RowsOf(acur) \ RowsOf(since) : IsEvent(x) => x \in printed
    BY DEF AwaitInv
  <1>5. \A t \in Tables : \A n \in Nat :
          n \in Fresh(t, acur[t]) <=> n > acur[t] /\ n <= End(t) /\ log[t][n] = "event"
    BY <1>2, FreshFacts
  <1>6. AwaitSkipsNothing' /\ \A t \in Tables : file' # NoRow => file'[t] <= End(t)'
    BY <1>1, <1>3 DEF AwaitInv, AwaitSkipsNothing, RowsOf
  \* A new cursor is as good as the old one if no event lies between but the one in hand.
  <1>7. ASSUME NEW cur \in Cursors, acur' = cur, \A t \in Tables : cur[t] <= End(t),
               apc' \in {"entrain", "blocked", "print"}, apc' = "print" => hand' \in RowIds,
               \A t \in Tables : \A n \in Fresh(t, acur[t]) :
                 n <= cur[t] => apc' = "print" /\ hand' = <<t, n>>
        PROVE  acur' \in Cursors /\ apc' \in {"entrain", "blocked", "print"} /\ AwaitInv'
    <2>1. ASSUME NEW x \in RowsOf(cur) \ RowsOf(since), IsEvent(x)
          PROVE  x \in printed \/ (apc' = "print" /\ x = hand')
      <3>1. /\ x \in RowIds /\ x[1] \in Tables /\ x[2] \in Nat /\ x = <<x[1], x[2]>>
            /\ x[2] <= cur[x[1]] /\ x[2] <= End(x[1])
        BY <2>1, RowFacts DEF RowsOf, RowIds
      <3>2. CASE x[2] <= acur[x[1]]
        BY <1>4, <2>1, <3>1, <3>2 DEF RowsOf
      <3>3. CASE x[2] > acur[x[1]]
        <4>1. x[2] \in Fresh(x[1], acur[x[1]])
          BY <1>5, <2>1, <3>1, <3>3 DEF IsEvent
        <4> QED BY <1>7, <3>1, <4>1
      <3> QED BY <1>2, <3>1, <3>2, <3>3
    <2>2. \A t \in Tables : acur'[t] <= End(t)'
      BY <1>1, <1>7
    <2>3. \A x \in RowsOf(acur)' \ RowsOf(since)' : IsEvent(x)' => x \in printed' \/ (apc' = "print" /\ x = hand')
      <3>1. RowsOf(acur)' = RowsOf(cur) /\ RowsOf(since)' = RowsOf(since)
        BY <1>7 DEF RowsOf, End, data
      <3> QED BY <1>1, <2>1, <3>1 DEF RowsOf
    <2> QED BY <1>6, <1>7, <2>2, <2>3 DEF AwaitInv
  <1>8. CASE (\A t \in Tables : Fresh(t, acur[t]) = {}) /\ acur' = Ends /\ apc' = none
    <2>1. Ends \in Cursors /\ \A t \in Tables : Ends[t] = End(t)
      BY <1>2, BoundsAssumption DEF Ends, Cursors
    <2> QED BY <1>2, <1>7, <1>8, <2>1
  <1>9. ASSUME NEW t \in Tables, Fresh(t, acur[t]) # {},
               hand' = <<t, Least(Fresh(t, acur[t]))>>, apc' = "print",
               acur' = [u \in Tables |->
                     IF u = t THEN Least(Fresh(t, acur[t]))
                     ELSE IF Fresh(u, acur[u]) = {} THEN End(u) ELSE acur[u]]
        PROVE  acur' \in Cursors /\ apc' \in {"entrain", "blocked", "print"} /\ AwaitInv'
    <2>1. PICK l : l = Least(Fresh(t, acur[t]))
      OBVIOUS
    <2>2. /\ l \in Fresh(t, acur[t]) /\ l \in Nat /\ l <= End(t) /\ l \in 1..MaxRows
          /\ \A m \in Fresh(t, acur[t]) : m \in Nat /\ l <= m
      <3>1. Fresh(t, acur[t]) \in SUBSET Nat /\ {t} \X Fresh(t, acur[t]) \subseteq RowIds
        BY <1>2, FreshFacts
      <3>2. l \in Fresh(t, acur[t]) /\ \A m \in Fresh(t, acur[t]) : l <= m
        BY <1>9, <2>1, <3>1, LeastFacts
      <3>3. <<t, l>> \in RowIds
        BY <3>1, <3>2
      <3>4. l \in 1..MaxRows
        BY <3>3 DEF RowIds
      <3>5. l <= End(t)
        BY <1>5, <3>1, <3>2
      <3> QED BY <3>1, <3>2, <3>4, <3>5
    <2>3. PICK cur : cur = [u \in Tables |-> IF u = t THEN l
                                           ELSE IF Fresh(u, acur[u]) = {} THEN End(u) ELSE acur[u]]
      OBVIOUS
    <2>4. /\ cur[t] = l /\ acur' = cur
          /\ \A u \in Tables \ {t} : cur[u] = IF Fresh(u, acur[u]) = {} THEN End(u) ELSE acur[u]
      BY <1>9, <2>1, <2>3
    <2>5. cur \in Cursors /\ \A u \in Tables : cur[u] <= End(u)
      BY <1>2, <2>2, <2>3, BoundsAssumption DEF Cursors
    <2>6. hand' \in RowIds /\ hand' = <<t, l>>
      BY <1>9, <2>1, <2>2 DEF RowIds
    <2>7. ASSUME NEW u \in Tables, NEW n \in Fresh(u, acur[u]), n <= cur[u] PROVE u = t /\ n = l
      <3>1. n \in Nat /\ n > acur[u]
        BY <1>2, FreshFacts
      <3>2. CASE u = t
        BY <2>2, <2>4, <2>7, <3>1, <3>2
      <3>3. CASE u # t
        BY <1>2, <2>4, <2>7, <3>1, <3>3
      <3> QED BY <3>2, <3>3
    <2> QED BY <1>7, <1>9, <2>4, <2>5, <2>6, <2>7
  <1> QED BY <1>8, <1>9 DEF catch_up

LEMMA LeaveType == ASSUME EntrainType, Leave, UNCHANGED seen PROVE EntrainType'
  BY DEF Leave, EntrainType

LEMMA AwaitKeepsInv ==
  ASSUME Inv, AwaitStep \/ Timeout \/ AwaitDies
  PROVE  Inv'
  <1> USE DEF Inv, AwaitType
  <1>0. /\ (\A x \in RowIds : IsEvent(x)' <=> IsEvent(x)) /\ (\A t \in Tables : End(t)' = End(t))
        /\ (\A c : RowsOf(c)' = RowsOf(c)) /\ UNCHANGED data /\ AwaitOnly
    <2>1. AwaitOnly
      BY DEF AwaitStep, AwaitStarts, FirstScan, AwaitEntrains, AwaitBails, Rescan, PrintEvent, SaveCursor,
             ReadFrame, Timeout, AwaitDies
    <2>2. UNCHANGED data
      BY <2>1 DEF AwaitOnly
    <2>3. \A c : RowsOf(c)' = RowsOf(c)
      BY <2>2 DEF RowsOf, End, data
    <2> QED BY <2>1, <2>2, <2>3, EventsRest
  <1>1. /\ \A t \in Tables : End(t) \in Nat /\ End(t) \in 0..MaxRows
        /\ Zero \in Cursors /\ (\A t \in Tables : Zero[t] = 0) /\ faults \in 0..MaxFaults
    BY EndFacts, BoundsAssumption DEF Cursors, Zero, DataInv, DataType
  <1>2. \A x : x \in RowsOf(since) => x \in RowIds
    BY DEF RowsOf
  \* `await` leaves, having saved its cursor or not.
  <1>3. ASSUME Leave, faults' \in 0..MaxFaults, UNCHANGED <<printed, since>>, file' = file \/ (apc = "save" /\ file' = acur)
        PROVE  Inv'
    <2>1. apc' = "off" /\ acur' = Zero
      BY <1>3 DEF Leave
    <2>2. EntrainType'
      BY <1>0, <1>3, LeaveType DEF AwaitOnly
    <2>3. AwaitType'
      BY <1>1, <1>3, <2>1
    <2>4. \A t \in Tables : acur'[t] <= End(t)' /\ (file' # NoRow => file'[t] <= End(t)')
      BY <1>0, <1>1, <1>3, <2>1 DEF AwaitInv
    <2>5. AwaitSkipsNothing'
      <3>1. CASE file' = file
        BY <1>0, <1>3, <3>1 DEF AwaitInv, AwaitSkipsNothing, RowsOf
      <3>2. CASE apc = "save" /\ file' = acur
        <4>1. RowsOf(file)' = RowsOf(acur) /\ RowsOf(since)' = RowsOf(since)
          BY <1>3, <3>2, <1>0 DEF RowsOf, End, data
        <4>2. \A x \in RowsOf(acur) \ RowsOf(since) : x \in RowIds /\ (IsEvent(x) => x \in printed)
          BY <3>2 DEF AwaitInv, RowsOf
        <4> QED BY <1>0, <1>3, <4>1, <4>2 DEF AwaitSkipsNothing
      <3> QED BY <1>3, <3>1, <3>2
    <2>6. AwaitInv'
      BY <2>1, <2>4, <2>5 DEF AwaitInv
    <2> QED BY <1>0, <1>3, <2>2, <2>3, <2>6, AwaitFollows
  <1>4. CASE AwaitBails \/ SaveCursor \/ AwaitDies
    BY <1>1, <1>3, <1>4, FaultType DEF AwaitBails, SaveCursor, AwaitDies
  \* `await` looks at the tables.
  <1>5. ASSUME NEW none \in {"entrain", "blocked"}, catch_up(none), apc \in {"scan", "blocked"},
               UNCHANGED <<sub, sig, file, printed, since, faults>>, vib' \in [Subs -> BOOLEAN]
        PROVE  Inv'
    <2>1. acur' \in Cursors /\ apc' \in {"entrain", "blocked", "print"} /\ AwaitInv'
      BY <1>0, <1>5, CatchUpKeeps
    <2>2. EntrainType' /\ AwaitType'
      BY <1>0, <1>5, <2>1 DEF EntrainType, AwaitOnly
    <2> QED BY <1>0, <1>1, <1>5, <2>1, <2>2, AwaitFollows
  <1>6. CASE FirstScan \/ Rescan \/ \E t \in Tables : ReadFrame(t)
    <2>1. vib \in [Subs -> BOOLEAN]
      BY DEF EntrainType
    <2> QED BY <1>5, <1>6, <2>1 DEF FirstScan, Rescan, ReadFrame
  \* Its place changes, and at most one more row is printed.
  <1>7. ASSUME UNCHANGED <<acur, file, since, faults>>, EntrainType', apc # "off",
               apc' \in {"entrain", "blocked", "save"},
               \/ apc # "print" /\ UNCHANGED printed
               \/ apc = "print" /\ printed' = printed \cup {hand}
        PROVE  Inv'
    <2>1. AwaitType'
      BY <1>7 DEF AwaitInv
    <2>2. \A x \in RowsOf(acur)' \ RowsOf(since)' : IsEvent(x)' => x \in printed'
      BY <1>0, <1>7 DEF AwaitInv, RowsOf
    <2>3. AwaitSkipsNothing'
      BY <1>0, <1>7 DEF AwaitInv, AwaitSkipsNothing, RowsOf
    <2>4. AwaitInv'
      BY <1>0, <1>7, <2>2, <2>3 DEF AwaitInv
    <2> QED BY <1>0, <1>1, <1>7, <2>1, <2>4, AwaitFollows
  <1>8. CASE AwaitEntrains
    <2>1. EntrainType'
      BY <1>8 DEF AwaitEntrains, EntrainType, Subscribe, AwaitSub, Subs, AwaitOnly
    <2> QED BY <1>7, <1>8, <2>1 DEF AwaitEntrains
  <1>9. CASE Timeout \/ PrintEvent
    <2>1. EntrainType'
      BY <1>0, <1>9 DEF Timeout, PrintEvent, EntrainType, AwaitOnly
    <2> QED BY <1>7, <1>9, <2>1 DEF Timeout, PrintEvent
  <1>10. CASE AwaitStarts
    <2>1. /\ apc' = "scan" /\ acur' = IF file = NoRow THEN initial_cursor ELSE file
          /\ since' = IF file = NoRow THEN initial_cursor ELSE since
          /\ UNCHANGED <<sub, sig, vib, hand, file, printed, faults>>
      BY <1>10 DEF AwaitStarts
    <2>2. initial_cursor \in Cursors /\ \A t \in Tables : initial_cursor[t] <= End(t)
      <3>1. ASSUME NEW t \in Tables, Fresh(t, 0) # {}
            PROVE  Least(Fresh(t, 0)) - 1 \in 0..MaxRows /\ Least(Fresh(t, 0)) - 1 <= End(t)
        <4>1. PICK l : l = Least(Fresh(t, 0))
          OBVIOUS
        <4>2. Fresh(t, 0) \in SUBSET Nat /\ \A n \in Nat : n \in Fresh(t, 0) => n > 0 /\ n <= End(t)
          BY FreshFacts
        <4>3. l \in Nat /\ l > 0 /\ l <= End(t)
          BY <3>1, <4>1, <4>2, LeastFacts
        <4> QED BY <1>1, <4>1, <4>3, BoundsAssumption
      <3> QED BY <1>1, <3>1 DEF initial_cursor, Cursors
    <2>3. EntrainType'
      BY <1>0, <2>1 DEF EntrainType, AwaitOnly
    <2>4. AwaitType'
      BY <2>1, <2>2
    <2>5. AwaitInv'
      <3>1. CASE file = NoRow
        <4>1. RowsOf(acur)' \ RowsOf(since)' = {}
          BY <2>1, <3>1
        <4> QED BY <1>0, <2>1, <2>2, <3>1, <4>1 DEF AwaitInv, AwaitSkipsNothing
      <3>2. CASE file # NoRow
        <4>1. RowsOf(acur)' = RowsOf(file) /\ RowsOf(since)' = RowsOf(since) /\ RowsOf(file)' = RowsOf(file)
          BY <1>0, <2>1, <3>2 DEF RowsOf, End, data
        <4>2. \A x \in RowsOf(file) \ RowsOf(since) : x \in RowIds /\ (IsEvent(x) => x \in printed)
          BY <3>2 DEF AwaitInv, AwaitSkipsNothing, RowsOf
        <4>3. AwaitSkipsNothing' /\ \A x \in RowsOf(acur)' \ RowsOf(since)' : IsEvent(x)' => x \in printed'
          BY <1>0, <2>1, <4>1, <4>2 DEF AwaitSkipsNothing
        <4> QED BY <1>0, <2>1, <3>2, <4>3 DEF AwaitInv
      <3> QED BY <3>1, <3>2
    <2> QED BY <1>0, <1>1, <2>1, <2>3, <2>4, <2>5, AwaitFollows
  <1> QED BY <1>4, <1>6, <1>8, <1>9, <1>10 DEF AwaitStep

-----------------------------------------------------------------------------
(* The theorems. *)

LEMMA InitInv == ASSUME Init PROVE Inv
  <1> USE DEF Init
  <1>1. \A t \in Tables : End(t) = 0 /\ hcur[t] = 0 /\ acur[t] = 0 /\ stored[t] = Never
    BY DEF End, Zero
  <1>2. DataInv
    <2>1. tx.st = "none" /\ log \in [Tables -> Seq(Kinds)]
      BY DEF NoTx
    <2>2. End("chat_messages") = 0 /\ End("_inbox") = 0
      BY <1>1 DEF Tables
    <2>3. DataType
      <3>1. faults = 0 /\ foreign = FALSE /\ tx = NoTx
        BY Zenon
      <3>2. 0 \in 0..MaxFaults
        BY BoundsAssumption
      <3>3. faults \in 0..MaxFaults
        BY <3>1, <3>2
      <3> QED BY <2>1, <3>1, <3>3 DEF DataType
    <2> QED BY <2>1, <2>2, <2>3, BoundsAssumption DEF DataInv
  <1>3. EntrainType
    BY BoundsAssumption DEF EntrainType
  <1>4. Zero \in Cursors /\ Never \in 0..Never
    BY BoundsAssumption DEF Zero, Cursors, Never
  <1>5. RunnerType /\ AwaitType
    BY <1>4 DEF RunnerType, AwaitType
  <1>6. HooksSkipNothing /\ AwaitSkipsNothing
    BY <1>1, RowFacts DEF HooksSkipNothing, AwaitSkipsNothing
  <1>7. RunInv /\ AwaitInv
    BY <1>1, <1>6 DEF RunInv, AwaitInv
  <1> QED BY <1>2, <1>3, <1>5, <1>7 DEF Inv, StopInv

LEMMA NextKeepsInv == ASSUME Inv, [Next]_vars PROVE Inv'
  <1>1. CASE UNCHANGED vars
    <2>1. UNCHANGED <<cast, data, server, entrain, runner, awaiter, missed, faults>>
      BY <1>1 DEF vars
    <2>2. DataInv' /\ LogStep
      BY <2>1, DataRests DEF Inv, DataInv, DataType
    <2>3. UNCHANGED <<hpc, batch, hcur, stored, base, ran, dirty, moved>> /\ wake' \in SUBSET Tables
      BY <2>1 DEF runner, Inv, RunnerType
    <2> QED BY <2>1, <2>2, <2>3, EntrainRests, OthersRest DEF Inv
  <1>2. CASE Next
    BY <1>2, CommitsKeepInv, StreamsKeepInv, ServerStopsKeepsInv, SpawnKeepsInv, RunnerKeepsInv, AwaitKeepsInv
       DEF Next, Others, ServerStep
  <1> QED BY <1>1, <1>2

\* However commits, scans, stops, deaths and restarts interleave, what lies behind a cursor has
\* been handled or is in hand.
THEOREM Invariance == Spec => []Inv
  <1>1. Init => Inv
    BY InitInv
  <1>2. Inv /\ [Next]_vars => Inv'
    BY NextKeepsInv
  <1> QED BY <1>1, <1>2, PTL DEF Spec

\* The cursors the runner stores in `_rsntr` (hooks.rs) and the one `rsntr await` saves
\* (awaitcmd.rs) are never past an event that was not handled, wherever they were stopped.
THEOREM NothingIsSkipped == Spec => []CursorsSkipNothing
  <1>1. ASSUME Inv PROVE CursorsSkipNothing
    <2>1. Size <= MaxRows
      BY <1>1, SizeFacts DEF Inv
    <2>2. TypeOK
      BY <1>1, <2>1 DEF Inv, DataInv, TypeOK, Size
    <2> QED BY <1>1, <2>2 DEF Inv, RunInv, AwaitInv, CursorsSkipNothing
  <1>2. Inv => CursorsSkipNothing
    BY <1>1
  <1> QED BY <1>2, Invariance, PTL

\* The hooks of the connection signal an entrainment for the table of the transaction that
\* commits, and the watcher for commits of others: nothing else vibrates (entrain.rs).
THEOREM VibrationsAreWrites == Spec => VibratesForWrites
  <1> DEFINE A == \A c \in Subs : (~ sig[c] /\ sig'[c]) =>
                    \/ foreign /\ ~ foreign'
                    \/ tx.st = "open" /\ tx'.st = "hooked" /\ tx.table = TableOf(c)
  <1>1. ASSUME Inv, [Next]_vars PROVE A
    <2>1. CASE WatcherTick
      BY <2>1 DEF WatcherTick, ForeignScan
    <2>2. CASE CommitHook
      <3>1. tx.st = "open" /\ tx' = [tx EXCEPT !.st = "hooked"] /\ Signal(pend)
        BY <2>2 DEF CommitHook
      <3>2. tx'.st = "hooked" /\ pend \subseteq {tx.table}
        BY <1>1, <3>1, TxFacts DEF Inv, DataInv
      <3> QED BY <3>1, <3>2 DEF Signal
    <2>3. ASSUME \A c \in Subs : sig'[c] => sig[c] PROVE A
      BY <2>3
    <2>4. sig \in [Subs -> BOOLEAN]
      BY <1>1 DEF Inv, EntrainType
    <2>5. CASE UNCHANGED sig
      BY <2>3, <2>5
    <2>6. CASE ServerStops \/ Leave
      BY <2>3, <2>4, <2>6 DEF ServerStops, Leave
    <2>7. CASE PeerEntrains \/ PeerDamps \/ AwaitEntrains \/ \E c \in Subs : SendVibration(c) \/ DampSlow(c)
      BY <2>3, <2>4, <2>7 DEF PeerEntrains, PeerDamps, AwaitEntrains, SendVibration, DampSlow, Subscribe
    <2>8. Next => \/ WatcherTick \/ CommitHook \/ UNCHANGED sig \/ ServerStops \/ Leave
                  \/ PeerEntrains \/ PeerDamps \/ AwaitEntrains \/ \E c \in Subs : SendVibration(c) \/ DampSlow(c)
      BY DEF Next, Others, ServerStep, RunnerStep, AwaitStep, Write, ForeignWrite, Decide, Collect, ReadFails,
             Rollback, CommitFails, StoreFails, Timeout, AwaitDies, Commit, SpawnRunner, InstallHook, StartWatcher,
             Quiet, Dispatch, EndBurst, BeginBurst, ReadTable, StoreCursor, AwaitStarts, FirstScan, AwaitBails,
             Rescan, PrintEvent, SaveCursor, ReadFrame, PeerReads, RunnerOnly, entrain
    <2> QED BY <1>1, <2>1, <2>2, <2>5, <2>6, <2>7, <2>8 DEF vars, entrain
  <1>2. Inv /\ [Next]_vars => [A]_vars
    BY <1>1
  <1> QED BY <1>2, Invariance, PTL DEF Spec, VibratesForWrites
=============================================================================
