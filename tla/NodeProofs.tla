----------------------------- MODULE NodeProofs -----------------------------
(***************************************************************************)
(* Proofs about what a node keeps for itself: its outbox, for any rows,    *)
(* peers, streams and number of faults, of what OutboxSafety.cfg checks on *)
(* a small instance of Outbox; and its directory, for any processes,       *)
(* builds, addresses and bounds, of what NodeDir.cfg checks on two         *)
(* processes.                                                              *)
(***************************************************************************)
EXTENDS Outbox, NodeDir, TLAPS

-----------------------------------------------------------------------------
(* The outbox: the inductive invariant. *)

\* A stream slot is free exactly when it carries no row, and a row on a stream
\* has been enqueued.
SlotInv ==
  \A j \in Jobs : /\ phase[j] = "free" <=> rowOf[j] = NoRow
                  /\ rowOf[j] # NoRow => status[rowOf[j]] # "absent"

\* The worker has a row exactly during an attempt, and a live stream carries it.
WorkerInv ==
  /\ wpc \in {"opened", "marked", "recv"} <=> row # NoRow
  /\ cur # NoJob => row # NoRow /\ rowOf[cur] = row

\* A row the worker may still write to is pending, or peer removal got to it
\* after the scan.  Each row comes once per tick.
HandInv ==
  /\ row \notin todo
  /\ \A r \in Rows : InHand(r) => status[r] \in {"queued", "sent", "error"}

\* An open write transaction holds its node's lock on a row not yet applied.
TxInv ==
  \A j \in Jobs : phase[j] = "tx" =>
    /\ lock[NodeOf(j)] = j
    /\ Kind[rowOf[j]] = "write"
    /\ rowOf[j] \notin applied

\* A positive answer on its way stands for something that happened.
AnswerInv ==
  \A j \in Jobs : phase[j] \in {"rows", "replay"} =>
    /\ Kind[rowOf[j]] = "write" => rowOf[j] \in applied
    /\ Kind[rowOf[j]] = "plugin" => effects[rowOf[j]] > 0

Inv == /\ TypeOK
       /\ SlotInv /\ WorkerInv /\ HandInv /\ TxInv /\ AnswerInv
       /\ AppliedAtMostOnce /\ DoneMeansApplied /\ ResultsIffDone

-----------------------------------------------------------------------------
(* Inv is inductive: one lemma per actor, one step per action. *)

\* The tables of the sending node: applications, time and peer removal keep
\* the invariant.  Cancelling may hit a row in the worker's hand (HandInv).
LEMMA TablesKeepInv == ASSUME Inv, Tables PROVE Inv'
  <1> USE PeerOfAssumption, KindAssumption, NoneAssumption
      DEF Inv, TypeOK, SlotInv, WorkerInv, HandInv, TxInv, AnswerInv,
          AppliedAtMostOnce, DoneMeansApplied, ResultsIffDone, InHand, NodeOf,
          Ledgered, Statuses, workerVars, streamVars, nodeVars, Pending
  <1>1. ASSUME NEW r \in Rows, Enqueue(r) PROVE Inv'
    BY <1>1 DEF Enqueue
  <1>2. ASSUME NEW r \in Rows, Age(r) PROVE Inv'
    BY <1>2 DEF Age
  <1>3. ASSUME NEW p \in Peers, AddPeer(p) PROVE Inv'
    BY <1>3 DEF AddPeer
  <1>4. ASSUME NEW p \in Peers, ForgetPeer(p) PROVE Inv'
    BY <1>4 DEF ForgetPeer
  <1>5. ASSUME NEW p \in Peers, CancelUndelivered(p) PROVE Inv'
    BY <1>5 DEF CancelUndelivered
  <1> QED BY <1>1, <1>2, <1>3, <1>4, <1>5 DEF Tables

\* The worker's steps over the rows of a tick keep the invariant.
LEMMA RowStepKeepsInv == ASSUME Inv, NEW r \in Rows, RowStep(r) PROVE Inv'
  <1> USE PeerOfAssumption, KindAssumption, NoneAssumption, FaultsAssumption
      DEF Inv, TypeOK, SlotInv, WorkerInv, HandInv, TxInv, AnswerInv,
          AppliedAtMostOnce, DoneMeansApplied, ResultsIffDone, InHand, NodeOf,
          Ledgered, Statuses, Phases, Answers,
          senderDb, streamVars, nodeVars, Turn, Pass
  <1>1. CASE SkipBackedOff(r)
    BY <1>1 DEF SkipBackedOff
  <1>2. CASE ExpireRow(r)
    BY <1>2 DEF ExpireRow, mark_terminal, DbWrite
  <1>3. CASE RefuseRow(r)
    BY <1>3 DEF RefuseRow, mark_terminal, DbWrite
  <1>4. CASE DialFails(r)
    BY <1>4 DEF DialFails, Dialable
  <1>5. ASSUME NEW j \in Jobs, DialOpens(r, j) PROVE Inv'
    BY <1>5 DEF DialOpens, Dialable
  <1> QED BY <1>1, <1>2, <1>3, <1>4, <1>5 DEF RowStep

\* Closing the worker's stream frees its slot or orphans the node's job.
LEMMA DropStreamKeepsSlots ==
  ASSUME Inv, DropStream, UNCHANGED <<lock, applied, effects>>,
         \A r \in Rows : status[r] # "absent" => status'[r] # "absent"
  PROVE  /\ cur' = NoJob
         /\ phase' \in [Jobs -> Phases] /\ rowOf' \in [Jobs -> Rows \cup {NoRow}]
         /\ SlotInv' /\ TxInv' /\ AnswerInv'
  BY NoneAssumption
  DEF Inv, TypeOK, SlotInv, TxInv, AnswerInv, DropStream, Free, NodeOf,
      Phases, Answers

\* The rest of the worker keeps the invariant.
LEMMA WorkerKeepsInv == ASSUME Inv, Worker PROVE Inv'
  <1> USE PeerOfAssumption, KindAssumption, NoneAssumption, FaultsAssumption
  <1>1. CASE Scan
    BY <1>1 DEF Scan, Pending, senderDb, streamVars, nodeVars,
          Inv, TypeOK, SlotInv, WorkerInv, HandInv, TxInv, AnswerInv,
          AppliedAtMostOnce, DoneMeansApplied, ResultsIffDone, InHand, NodeOf
  <1>2. CASE EndTick
    BY <1>2 DEF EndTick, senderDb, streamVars, nodeVars,
          Inv, TypeOK, SlotInv, WorkerInv, HandInv, TxInv, AnswerInv,
          AppliedAtMostOnce, DoneMeansApplied, ResultsIffDone, InHand, NodeOf
  <1>3. CASE \E r \in Rows : RowStep(r)
    BY <1>3, RowStepKeepsInv
  <1>4. CASE MarkSent
    BY <1>4 DEF MarkSent, DbWrite, streamVars, nodeVars,
          Inv, TypeOK, SlotInv, WorkerInv, HandInv, TxInv, AnswerInv,
          AppliedAtMostOnce, DoneMeansApplied, ResultsIffDone, InHand, NodeOf,
          Statuses, Ledgered
  <1>5. CASE Ship
    BY <1>5 DEF Ship, senderDb, nodeVars,
          Inv, TypeOK, SlotInv, WorkerInv, HandInv, TxInv, AnswerInv, Phases,
          AppliedAtMostOnce, DoneMeansApplied, ResultsIffDone, InHand, NodeOf
  <1>6. ASSUME wpc \in {"marked", "recv"}, Again PROVE Inv'
    <2>1. cur' = NoJob /\ SlotInv' /\ TxInv' /\ AnswerInv'
          /\ phase' \in [Jobs -> Phases] /\ rowOf' \in [Jobs -> Rows \cup {NoRow}]
      BY <1>6, DropStreamKeepsSlots DEF Again, senderDb, nodeVars
    <2> QED
      BY <1>6, <2>1 DEF Again, NextRow, senderDb, nodeVars,
          Inv, TypeOK, WorkerInv, HandInv, InHand,
          AppliedAtMostOnce, DoneMeansApplied, ResultsIffDone
  <1>7. CASE ReadAnswer
    <2> DEFINE r == row
    <2>1. /\ r \in Rows /\ r # NoRow /\ rowOf[cur] = r /\ cur \in Jobs
          /\ wpc = "recv" /\ wpc' = "loop" /\ row' = NoRow
          /\ todo' = todo /\ old' = old /\ backoff' = backoff \ {r}
          /\ UNCHANGED <<aged, known, lock, policy, applied, effects>>
      BY <1>7 DEF ReadAnswer, NextRow, nodeVars, Inv, TypeOK, WorkerInv
    <2>2. status[r] \in {"queued", "sent", "error"}
      BY <2>1 DEF Inv, HandInv, InHand
    <2>3. \* What the worker writes about the row, if the write succeeds.
      \/ /\ UNCHANGED <<status, results>> /\ faults' \in 0..MaxFaults
      \/ /\ phase[cur] \in {"rows", "replay"}
         /\ status' = [status EXCEPT ![r] = "done"]
         /\ \E x \in {"rows", "empty"} : results' = [results EXCEPT ![r] = x]
         /\ faults' = faults
      \/ /\ \E s \in {"denied", "error"} : status' = [status EXCEPT ![r] = s]
         /\ results' = results /\ faults' = faults
      BY <1>7 DEF ReadAnswer, persist_done, mark_terminal, DbWrite, Inv, TypeOK
    <2>4. cur' = NoJob /\ SlotInv' /\ TxInv' /\ AnswerInv'
          /\ phase' \in [Jobs -> Phases] /\ rowOf' \in [Jobs -> Rows \cup {NoRow}]
      <3>1. \A q \in Rows : status[q] # "absent" => status'[q] # "absent"
        BY <2>1, <2>3 DEF Inv, TypeOK
      <3> QED BY <1>7, <2>1, <3>1, DropStreamKeepsSlots DEF ReadAnswer
    <2>5. TypeOK'
      BY <2>1, <2>3, <2>4 DEF Inv, TypeOK, Statuses
    <2>6. WorkerInv' /\ HandInv'
      BY <2>1, <2>3, <2>4 DEF Inv, TypeOK, WorkerInv, HandInv, InHand
    <2>7. DoneMeansApplied'
      BY <2>1, <2>3 DEF Inv, TypeOK, DoneMeansApplied, AnswerInv,
                        AppliedAtMostOnce, Ledgered
    <2>8. AppliedAtMostOnce' /\ ResultsIffDone'
      BY <2>1, <2>2, <2>3 DEF Inv, TypeOK, AppliedAtMostOnce, ResultsIffDone
    <2> QED BY <2>4, <2>5, <2>6, <2>7, <2>8 DEF Inv
  <1> QED
    BY <1>1, <1>2, <1>3, <1>4, <1>5, <1>6, <1>7 DEF Worker, SendFails, ReadCut

\* A serving node's step on stream j keeps the invariant.  The crux is Commit:
\* of two streams carrying the same row only one can hold the node's lock, so
\* no other open transaction was looking at the ledger before this commit.
LEMMA ServeKeepsInv == ASSUME Inv, NEW j \in Jobs, Serve(j) PROVE Inv'
  <1> USE PeerOfAssumption, KindAssumption, NoneAssumption
      DEF Inv, TypeOK, SlotInv, WorkerInv, HandInv, TxInv, AnswerInv,
          AppliedAtMostOnce, DoneMeansApplied, ResultsIffDone, InHand, NodeOf,
          Ledgered, Phases, Answers, senderDb, workerVars
  <1>1. CASE Screen(j)
    BY <1>1 DEF Screen, Move
  <1>2. CASE ExecuteRead(j)
    BY <1>2 DEF ExecuteRead, Move
  <1>3. CASE RunPlugin(j)
    BY <1>3 DEF RunPlugin, Move, Once
  <1>4. CASE ReplayApplied(j)
    BY <1>4 DEF ReplayApplied, CanBegin, Move
  <1>5. CASE BeginWrite(j)
    BY <1>5 DEF BeginWrite, CanBegin, Move
  <1>6. CASE Commit(j)
    <2> DEFINE r == rowOf[j]
    <2>1. /\ r \in Rows /\ Kind[r] = "write" /\ r \notin applied /\ effects[r] = 0
          /\ lock[PeerOf[r]] = j
      BY <1>6 DEF Commit
    <2>2. /\ applied' = applied \cup {r}
          /\ effects' = [effects EXCEPT ![r] = 1]
          /\ phase' = [phase EXCEPT ![j] = "rows"]
          /\ lock' = [p \in Peers |-> IF lock[p] = j THEN NoJob ELSE lock[p]]
          /\ UNCHANGED <<status, results, aged, known, wpc, todo, old, backoff,
                         row, cur, rowOf, policy, faults>>
      BY <1>6, <2>1 DEF Commit, Move, Unlock, Once
    <2>3. TypeOK'
      BY <2>1, <2>2
    <2>4. SlotInv' /\ WorkerInv' /\ HandInv' /\ ResultsIffDone'
      BY <1>6, <2>1, <2>2 DEF Commit
    <2>5. TxInv'
      BY <2>1, <2>2
    <2>6. AnswerInv' /\ AppliedAtMostOnce'
      BY <2>1, <2>2
    <2>7. DoneMeansApplied'
      BY <2>1, <2>2
    <2> QED BY <2>3, <2>4, <2>5, <2>6, <2>7
  <1>7. CASE ExecuteFails(j)
    BY <1>7 DEF ExecuteFails, Unlock, Move
  <1>8. CASE RollBackGone(j)
    BY <1>8 DEF RollBackGone, Unlock, Free
  <1>9. CASE DropAnswer(j)
    BY <1>9 DEF DropAnswer, Free, nodeVars
  <1> QED
    BY <1>1, <1>2, <1>3, <1>4, <1>5, <1>6, <1>7, <1>8, <1>9 DEF Serve

\* Timers, process deaths, restarts and connection failures keep the invariant.
LEMMA FaultsKeepInv ==
  ASSUME Inv,
         \/ \E r \in Rows : BackoffElapses(r)
         \/ SenderDies \/ SenderStarts \/ LoseLink
         \/ \E p \in Peers : NodeDies(p) \/ ChangePolicy(p)
  PROVE  Inv'
  <1> USE PeerOfAssumption, KindAssumption, NoneAssumption, FaultsAssumption
      DEF Inv, TypeOK, SlotInv, WorkerInv, HandInv, TxInv, AnswerInv,
          AppliedAtMostOnce, DoneMeansApplied, ResultsIffDone, InHand, NodeOf,
          Phases, senderDb, workerVars, streamVars, nodeVars
  <1>1. ASSUME NEW r \in Rows, BackoffElapses(r) PROVE Inv'
    BY <1>1 DEF BackoffElapses
  <1>2. CASE SenderDies
    BY <1>2 DEF SenderDies, DropStream, Free
  <1>3. CASE SenderStarts
    BY <1>3 DEF SenderStarts
  <1>4. CASE LoseLink
    BY <1>4 DEF LoseLink, DropStream, Free
  <1>5. ASSUME NEW p \in Peers, NodeDies(p) PROVE Inv'
    BY <1>5 DEF NodeDies, Free, On
  <1>6. ASSUME NEW p \in Peers, ChangePolicy(p) PROVE Inv'
    BY <1>6 DEF ChangePolicy
  <1> QED BY <1>1, <1>2, <1>3, <1>4, <1>5, <1>6

\* Inv holds throughout every behaviour of the outbox and its peers.
THEOREM Invariance == Spec => []Inv
  <1>1. Init => Inv
    BY FaultsAssumption, NoneAssumption
    DEF Init, Inv, TypeOK, SlotInv, WorkerInv, HandInv, TxInv, AnswerInv,
        AppliedAtMostOnce, DoneMeansApplied, ResultsIffDone, InHand,
        Statuses, Phases, Ledgered
  <1>2. Inv /\ [Next]_vars => Inv'
    <2> SUFFICES ASSUME Inv, [Next]_vars PROVE Inv'
      OBVIOUS
    <2>1. CASE Next
      BY <2>1, TablesKeepInv, WorkerKeepsInv, ServeKeepsInv, FaultsKeepInv DEF Next
    <2>2. CASE UNCHANGED vars
      BY <2>2 DEF vars, senderDb, workerVars, streamVars, nodeVars, Inv, TypeOK,
        SlotInv, WorkerInv, HandInv, TxInv, AnswerInv, AppliedAtMostOnce,
        DoneMeansApplied, ResultsIffDone, InHand, NodeOf
    <2> QED BY <2>1, <2>2
  <1> QED BY <1>1, <1>2, PTL DEF Spec

\* The state stays well typed.
THEOREM TypeCorrect == Spec => []TypeOK
  BY Invariance, PTL DEF Inv

\* Retries, restarts and lost answers never make the serving node commit a
\* ledgered write twice (execute_in_tx).
THEOREM AtMostOnce == Spec => []AppliedAtMostOnce
  BY Invariance, PTL DEF Inv

\* A row the application sees as 'done' has taken effect at the peer.
THEOREM DoneIsTrue == Spec => []DoneMeansApplied
  BY Invariance, PTL DEF Inv

\* `_results` holds results for exactly the rows shown as 'done'.
THEOREM ResultsMatchStatus == Spec => []ResultsIffDone
  BY Invariance, PTL DEF Inv

-----------------------------------------------------------------------------
(* What a step may do to a settled row *)

\* The one way to rewrite a settled row is the worker finishing a row that peer
\* removal cancelled under its hands (mark_terminal and persist_done do not
\* look at the status they overwrite).
THEOREM SettledRowsStay == Spec => SettledStays
  <1> DEFINE Stays == \A r \in Rows :
        status[r] \in Terminal /\ <<status[r], results[r]>>' # <<status[r], results[r]>>
          => status[r] = "error" /\ InHand(r)
  <1>1. Inv /\ [Next]_vars => Stays
    <2> SUFFICES ASSUME Inv, [Next]_vars, NEW r \in Rows, status[r] \in Terminal,
                        ~(status[r] = "error" /\ InHand(r))
                 PROVE  status'[r] = status[r] /\ results'[r] = results[r]
      OBVIOUS
    <2>1. ~InHand(r)
      BY DEF Inv, HandInv, Terminal
    <2>2. CASE Tables
      BY <2>2 DEF Tables, Enqueue, Age, AddPeer, ForgetPeer, CancelUndelivered,
                  Pending, Terminal, Inv, TypeOK
    <2>3. CASE Worker
      <3>1. ASSUME NEW q \in Rows, RowStep(q) PROVE UNCHANGED <<status[r], results[r]>>
        BY <2>1, <3>1 DEF RowStep, SkipBackedOff, ExpireRow, RefuseRow, DialFails,
          DialOpens, Dialable, Turn, mark_terminal, DbWrite, senderDb, InHand,
          Inv, TypeOK
      <3>2. CASE Scan \/ EndTick \/ Ship \/ SendFails \/ ReadCut
        BY <3>2 DEF Scan, EndTick, Ship, SendFails, ReadCut, Again, senderDb
      <3>3. CASE MarkSent \/ ReadAnswer
        <4>1. row # r
          BY <2>1 DEF InHand
        <4> QED
          BY <3>3, <4>1 DEF MarkSent, ReadAnswer, persist_done, mark_terminal,
             DbWrite, Inv, TypeOK
      <3> QED BY <2>3, <3>1, <3>2, <3>3 DEF Worker
    <2>4. CASE UNCHANGED senderDb
      BY <2>4 DEF senderDb
    <2>5. ASSUME ~Tables, ~Worker PROVE UNCHANGED senderDb
      <3>1. ASSUME NEW j \in Jobs, Serve(j) PROVE UNCHANGED senderDb
        BY <3>1 DEF Serve, Screen, ExecuteRead, RunPlugin, ReplayApplied, BeginWrite,
           Commit, ExecuteFails, RollBackGone, DropAnswer, Move
      <3> QED
        BY <2>5, <3>1 DEF Next, vars, BackoffElapses, SenderDies, SenderStarts,
           LoseLink, NodeDies, ChangePolicy
    <2> QED BY <2>2, <2>3, <2>4, <2>5
  <1> QED BY <1>1, Invariance, PTL DEF Spec, SettledStays

-----------------------------------------------------------------------------
(* Outbox implements Delivery *)

\* The values of the refinement mapping.
LEMMA FateValues ==
  /\ Fate("absent") = "none"
  /\ \A s \in {"queued", "sent"} : Fate(s) = "pending"
  /\ Fate("done") = "completed"
  /\ \A s \in {"denied", "error", "expired"} : Fate(s) = "failed"
  BY DEF Fate

\* What every step does to the status of rows, seen from Delivery: nothing,
\* or it submits, fails or completes.
LEMMA StatusSteps ==
  ASSUME Inv, [Next]_vars
  PROVE  \/ UNCHANGED status
         \/ \E r \in Rows : status[r] = "absent" /\ status' = [status EXCEPT ![r] = "queued"]
         \/ \E r \in Rows : status[r] = "queued" /\ status' = [status EXCEPT ![r] = "sent"]
         \/ \E r \in Rows : /\ status[r] \in {"queued", "sent", "error"}
                            /\ Kind[r] = "write" => effects[r] = 1
                            /\ status' = [status EXCEPT ![r] = "done"]
         \/ \E r \in Rows, s \in {"denied", "error", "expired"} :
              /\ status[r] \in {"queued", "sent", "error"}
              /\ status' = [status EXCEPT ![r] = s]
         \/ \E p \in Peers :
              status' = [r \in Rows |-> IF PeerOf[r] = p /\ Pending(r)
                                        THEN "error" ELSE status[r]]
  <1>1. CASE Tables
    BY <1>1 DEF Tables, Enqueue, Age, AddPeer, ForgetPeer, CancelUndelivered
  <1>2. ASSUME NEW r \in Rows, RowStep(r)
        PROVE  \/ UNCHANGED status
               \/ /\ status[r] \in {"queued", "sent", "error"}
                  /\ \E s \in {"denied", "error", "expired"} :
                       status' = [status EXCEPT ![r] = s]
    BY <1>2 DEF RowStep, SkipBackedOff, ExpireRow, RefuseRow, DialFails,
          DialOpens, Dialable, Turn, mark_terminal, DbWrite, senderDb,
          Inv, HandInv, InHand
  <1>3. CASE MarkSent
    BY <1>3 DEF MarkSent, DbWrite, Inv, TypeOK, WorkerInv
  <1>4. CASE ReadAnswer
    <2>1. row \in Rows /\ rowOf[cur] = row /\ cur \in Jobs
      BY <1>4 DEF ReadAnswer, Inv, TypeOK, WorkerInv
    <2>2. status[row] \in {"queued", "sent", "error"}
      BY <2>1 DEF Inv, HandInv, InHand
    <2>3. phase[cur] \in {"rows", "replay"} => (Kind[row] = "write" => effects[row] = 1)
      BY <2>1 DEF Inv, AnswerInv, AppliedAtMostOnce, Ledgered
    <2> QED
      BY <1>4, <2>1, <2>2, <2>3 DEF ReadAnswer, persist_done, mark_terminal, DbWrite
  <1>5. CASE Scan \/ EndTick \/ Ship \/ SendFails \/ ReadCut
    BY <1>5 DEF Scan, EndTick, Ship, SendFails, ReadCut, Again, senderDb
  <1>6. ASSUME NEW j \in Jobs, Serve(j) PROVE UNCHANGED status
    BY <1>6 DEF Serve, Screen, ExecuteRead, RunPlugin, ReplayApplied, BeginWrite,
       Commit, ExecuteFails, RollBackGone, DropAnswer, Move, senderDb
  <1>7. CASE \/ \E r \in Rows : BackoffElapses(r)
             \/ SenderDies \/ SenderStarts \/ LoseLink
             \/ \E p \in Peers : NodeDies(p) \/ ChangePolicy(p)
             \/ UNCHANGED vars
    BY <1>7 DEF vars, senderDb, BackoffElapses, SenderDies, SenderStarts,
       LoseLink, NodeDies, ChangePolicy
  <1> QED BY <1>1, <1>2, <1>3, <1>4, <1>5, <1>6, <1>7 DEF Next, Worker

\* Only a commit changes what has been executed, and then of one write that
\* was not executed before; it leaves every status alone.
LEMMA EffectSteps ==
  ASSUME Inv, [Next]_vars
  PROVE  \/ \A r \in Ledgered : effects'[r] = effects[r]
         \/ /\ UNCHANGED status
            /\ \E r \in Ledgered : /\ effects[r] = 0
                                   /\ status[r] \notin {"absent", "done"}
                                   /\ effects' = [effects EXCEPT ![r] = 1]
  <1>1. ASSUME NEW j \in Jobs, Commit(j)
        PROVE  /\ UNCHANGED status
               /\ \E r \in Ledgered : /\ effects[r] = 0
                                      /\ status[r] \notin {"absent", "done"}
                                      /\ effects' = [effects EXCEPT ![r] = 1]
    <2>1. rowOf[j] \in Ledgered /\ effects[rowOf[j]] = 0
      BY <1>1, NoneAssumption
      DEF Commit, Inv, TypeOK, SlotInv, TxInv, AppliedAtMostOnce, Ledgered
    <2>2. status[rowOf[j]] \notin {"absent", "done"}
      BY <1>1, <2>1, NoneAssumption
      DEF Commit, Inv, SlotInv, DoneMeansApplied, Ledgered
    <2> QED BY <1>1, <2>1, <2>2 DEF Commit, Move, Once, senderDb
  <1>2. ASSUME NEW j \in Jobs, RunPlugin(j)
        PROVE  \A r \in Ledgered : effects'[r] = effects[r]
    BY <1>2 DEF RunPlugin, Ledgered, Inv, TypeOK
  <1>3. ASSUME NEW j \in Jobs, Serve(j), ~Commit(j), ~RunPlugin(j)
        PROVE  UNCHANGED effects
    BY <1>3 DEF Serve, Screen, ExecuteRead, ReplayApplied, BeginWrite,
       ExecuteFails, RollBackGone, DropAnswer, Move, nodeVars
  <1>4. CASE Tables
    BY <1>4 DEF Tables, Enqueue, Age, AddPeer, ForgetPeer, CancelUndelivered, nodeVars
  <1>5. CASE Worker
    BY <1>5 DEF Worker, Scan, EndTick, RowStep, SkipBackedOff, ExpireRow, RefuseRow,
       DialFails, DialOpens, MarkSent, Ship, SendFails, ReadCut, Again, ReadAnswer,
       nodeVars
  <1>6. CASE \/ \E r \in Rows : BackoffElapses(r)
             \/ SenderDies \/ SenderStarts \/ LoseLink
             \/ \E p \in Peers : NodeDies(p) \/ ChangePolicy(p)
             \/ UNCHANGED vars
    BY <1>6 DEF vars, nodeVars, BackoffElapses, SenderDies, SenderStarts,
       LoseLink, NodeDies, ChangePolicy
  <1> QED BY <1>1, <1>2, <1>3, <1>4, <1>5, <1>6 DEF Next

\* The outbox, the nodes it sends to and peer removal implement Delivery for
\* the requests that go through the ledger.
THEOREM OutboxImplementsDelivery == Spec => KeepsPromise
  <1> DEFINE fate == [r \in Ledgered |-> Fate(status[r])]
             executed == {r \in Ledgered : effects[r] > 0}
  <1>1. Init => Promise!Init
    BY FateValues DEF Init, Promise!Init, Ledgered
  <1>2. Inv /\ [Next]_vars => [Promise!Next]_(Promise!vars)
    <2> SUFFICES ASSUME Inv, [Next]_vars
                 PROVE  Promise!Next \/ UNCHANGED Promise!vars
      OBVIOUS
    <2>1. CASE UNCHANGED status /\ \E r \in Ledgered :
                  /\ effects[r] = 0 /\ status[r] \notin {"absent", "done"}
                  /\ effects' = [effects EXCEPT ![r] = 1]
      <3>1. PICK r \in Ledgered : /\ effects[r] = 0
                                  /\ status[r] \notin {"absent", "done"}
                                  /\ effects' = [effects EXCEPT ![r] = 1]
        BY <2>1
      <3>2. fate[r] \in {"pending", "failed"}
        BY <3>1, FateValues DEF Inv, TypeOK, Statuses, Ledgered
      <3>3. executed' = executed \cup {r} /\ r \notin executed
        BY <3>1 DEF Ledgered, Inv, TypeOK
      <3>4. UNCHANGED fate
        BY <2>1
      <3>5. Promise!Execute(r)
        BY <3>2, <3>3, <3>4 DEF Promise!Execute
      <3> QED BY <3>5 DEF Promise!Next
    <2>2. ASSUME \A r \in Ledgered : effects'[r] = effects[r]
          PROVE  Promise!Next \/ UNCHANGED Promise!vars
      <3>0. UNCHANGED executed
        BY <2>2
      <3>1. CASE UNCHANGED status
        BY <3>0, <3>1 DEF Promise!vars
      <3>2. CASE \E r \in Rows : status[r] = "absent" /\ status' = [status EXCEPT ![r] = "queued"]
        <4>1. PICK r \in Rows : status[r] = "absent" /\ status' = [status EXCEPT ![r] = "queued"]
          BY <3>2
        <4>2. fate' = [fate EXCEPT ![r] = "pending"]
          BY <4>1, FateValues DEF Inv, TypeOK, Ledgered
        <4>3. r \in Ledgered => Promise!Submit(r)
          BY <3>0, <4>1, <4>2, FateValues DEF Promise!Submit
        <4>4. r \notin Ledgered => UNCHANGED fate
          BY <4>1 DEF Inv, TypeOK, Ledgered
        <4> QED BY <3>0, <4>3, <4>4 DEF Promise!Next, Promise!vars
      <3>3. CASE \E r \in Rows : status[r] = "queued" /\ status' = [status EXCEPT ![r] = "sent"]
        <4>1. UNCHANGED fate
          BY <3>3, FateValues DEF Inv, TypeOK, Ledgered
        <4> QED BY <3>0, <4>1 DEF Promise!vars
      <3>4. CASE \E r \in Rows : /\ status[r] \in {"queued", "sent", "error"}
                                 /\ Kind[r] = "write" => effects[r] = 1
                                 /\ status' = [status EXCEPT ![r] = "done"]
        <4>1. PICK r \in Rows : /\ status[r] \in {"queued", "sent", "error"}
                                /\ Kind[r] = "write" => effects[r] = 1
                                /\ status' = [status EXCEPT ![r] = "done"]
          BY <3>4
        <4>2. fate' = [fate EXCEPT ![r] = "completed"]
          BY <4>1, FateValues DEF Inv, TypeOK, Ledgered
        <4>3. r \in Ledgered => Promise!Complete(r)
          BY <3>0, <4>1, <4>2, FateValues DEF Promise!Complete, Ledgered
        <4>4. r \notin Ledgered => UNCHANGED fate
          BY <4>1 DEF Inv, TypeOK, Ledgered
        <4> QED BY <3>0, <4>3, <4>4 DEF Promise!Next, Promise!vars
      <3>5. CASE \E r \in Rows, s \in {"denied", "error", "expired"} :
                   /\ status[r] \in {"queued", "sent", "error"}
                   /\ status' = [status EXCEPT ![r] = s]
        <4>1. PICK r \in Rows, s \in {"denied", "error", "expired"} :
                   /\ status[r] \in {"queued", "sent", "error"}
                   /\ status' = [status EXCEPT ![r] = s]
          BY <3>5
        <4>2. fate' = [q \in Ledgered |-> IF q \in {r} \cap Ledgered THEN "failed" ELSE fate[q]]
          BY <4>1, FateValues DEF Inv, TypeOK, Ledgered
        <4>3. CASE r \in Ledgered /\ status[r] # "error"
          <5>1. Promise!Fail({r})
            BY <3>0, <4>1, <4>2, <4>3, FateValues DEF Promise!Fail
          <5> QED BY <4>3, <5>1 DEF Promise!Next
        <4>4. CASE ~(r \in Ledgered /\ status[r] # "error")
          <5>1. UNCHANGED fate
            BY <4>1, <4>2, <4>4, FateValues
          <5> QED BY <3>0, <5>1 DEF Promise!vars
        <4> QED BY <4>3, <4>4
      <3>6. CASE \E p \in Peers : status' = [r \in Rows |->
                   IF PeerOf[r] = p /\ Pending(r) THEN "error" ELSE status[r]]
        <4>1. PICK p \in Peers : status' = [r \in Rows |->
                   IF PeerOf[r] = p /\ Pending(r) THEN "error" ELSE status[r]]
          BY <3>6
        <4> DEFINE R == {r \in Ledgered : PeerOf[r] = p /\ Pending(r)}
        <4>2. \A r \in R : fate[r] = "pending"
          BY FateValues DEF Pending
        <4>3. fate' = [r \in Ledgered |-> IF r \in R THEN "failed" ELSE fate[r]]
          BY <4>1, FateValues DEF Ledgered
        <4>4. Promise!Fail(R)
          BY <3>0, <4>2, <4>3 DEF Promise!Fail
        <4> QED BY <4>4 DEF Promise!Next
      <3> QED BY <3>1, <3>2, <3>3, <3>4, <3>5, <3>6, StatusSteps
    <2> QED BY <2>1, <2>2, EffectSteps
  <1> QED BY <1>1, <1>2, Invariance, PTL DEF Spec, KeepsPromise, Promise!Spec

-----------------------------------------------------------------------------
(* The directory: the inductive invariant. *)

\* Where a process may listen on its socket, and at the port of its record.
Listening == {"tcp", "web", "armed", "serving", "stop.pid", "stop.sock"}
OnTcp     == {"web", "armed", "serving", "stop.pid", "stop.sock", "stop.tcp"}

\* Places of a process that only the holder of the lease reaches, and those of an open.
Held == HasEndpoint \cup {"hello", "stop.keys", "stop.lease"}
Opening == {"open", "begin", "migrate"}

\* Whoever is past the acquire holds the lease until its endpoint is gone, over a database
\* that is there.
LeaseInv ==
  /\ \A p \in Procs : pc[p] \in Held => lease = p
  /\ \A p \in Procs : pc[p] \in Held \cup Opening \cup {"seed", "ident"} => db.exists
  /\ ~db.exists => db = NoDb
  /\ wlock \in Addrs => db.exists /\ snap[wlock] = db.addrs

\* From its making to its removal each trace of a server is its own, or a stop has taken it;
\* an endpoint it could not bind leaves it none.
Named(p, f) == file[f] = Run(p) \/ Run(p) \in crossed
LanesInv(p) == /\ "sock" \in bound[p] => pc[p] \in Listening /\ Named(p, "sock")
               /\ "rec" \in bound[p] => pc[p] \in OnTcp /\ Named(p, "rec")
TraceInv ==
  \A p \in Procs :
    /\ pc[p] \in HasEndpoint \ {"addrs"} => db.pub = Run(p)
    /\ LanesInv(p)
    /\ pc[p] \in {"armed", "serving", "stop.pid"} => Named(p, "pid")

\* An acquire that never found a holder was only ever in the way of that many probes.
ProbeInv ==
  /\ \A p \in Procs : ~tries[p].held => tries[p].n + (IF shared THEN 1 ELSE 0) <= probes
  /\ shared => probes >= 1
  /\ refused # {} => probes > Retries

\* What an operator removed was marked as added, and the list still has its first entry.
ModsInv ==
  /\ removed \subseteq db.marked /\ removed \cap db.mods = {}
  /\ db.mods # {} => "sql-sqlite" \in db.mods
  /\ removed # {} => db.mods # {}

\* Initialisation happens under its lock.  As long as nobody is killed, the directory is empty
\* or whole whenever nobody is making it, and is made in order otherwise.
Making == {"key", "write", "create", "seed", "ident"}
Whole(i) == key = i /\ i \notin {None, "torn"} /\ db.exists /\ db.id = i /\ db.mods # {}
MakeInv ==
  /\ \A p \in Procs : pc[p] \in Making \cup {"init"} => initlk = p
  /\ stop.st = "wait" => stops > 0
  /\ deaths = 0 /\ stops = 0 =>
       /\ (\A p \in Procs : pc[p] \notin Making) => (key = None /\ ~db.exists) \/ Whole(key)
       /\ \A p \in Procs :
            /\ pc[p] = "key" => key = None /\ ~db.exists
            /\ pc[p] = "write" => key = "torn" /\ ~db.exists
            /\ pc[p] \in {"create", "seed", "ident"} => key = p /\ knownId[p] = p
            /\ pc[p] = "ident" => db.mods # {}
            /\ pc[p] = "ready" /\ knownId[p] # None =>
                 Whole(knownId[p]) /\ \A q \in Procs : pc[q] \notin Making

DirInv == DirTypeOK /\ LeaseInv /\ TraceInv /\ ProbeInv /\ ModsInv /\ MakeInv /\ FreshestAddrs

-----------------------------------------------------------------------------
(* Types. *)

LEMMA NoDbType == NoDb \in Dbs
  BY DEF NoDb, Ids, Dbs

LEMMA InitType == DirInit => DirTypeOK
  <1> SUFFICES ASSUME DirInit PROVE DirTypeOK
    OBVIOUS
  <1> USE BoundsAssumption, BuildAssumption DEF DirInit
  <1>1. ProcType
    BY DEF ProcType, Fresh, Ids
  <1>2. LockType
    BY DEF LockType
  <1>3. DbType
    <2>1. ASSUME NEW v \in Stored PROVE OldDb(v) \in Dbs
      BY NoDbType DEF OldDb, Ids, Dbs
    <2> QED BY <2>1, NoDbType DEF DbType, Ids
  <1>4. FileType
    BY DEF FileType
  <1>5. HistType
    BY DEF HistType
  <1> QED BY <1>1, <1>2, <1>3, <1>4, <1>5 DEF DirTypeOK

LEMMA GoneType ==
  ASSUME DirTypeOK, NEW p \in Procs, Gone(p), UNCHANGED <<nth, knownId, shared, merges, removed, refused, crossed>>,
         {stops', probes', deaths'} \subseteq Nat
  PROVE  /\ ProcType' /\ LockType' /\ HistType'
         /\ bound' \in [Procs -> SUBSET {"sock", "rec"}]
  <1> USE BoundsAssumption DEF Gone, Go, DirTypeOK
  <1>1. ProcType'
    BY DEF ProcType, Fresh
  <1>2. LockType'
    BY DEF LockType
  <1>3. HistType'
    BY DEF HistType
  <1>4. bound' \in [Procs -> SUBSET {"sock", "rec"}]
    BY DEF FileType
  <1> QED BY <1>1, <1>2, <1>3, <1>4

LEMMA SeqDef == ASSUME NEW S, NEW n \in Nat, NEW f \in [1..n -> S] PROVE f \in Seq(S)
  OBVIOUS

LEMMA RunType == ASSUME DirTypeOK, NEW p \in Procs PROVE Run(p) \in Runs
  BY DEF DirTypeOK, ProcType, Run, Runs

LEMMA MergedType ==
  ASSUME NEW a \in Addrs, NEW list \in Seq(Addrs)
  PROVE  Merged(a, list) \in Seq(Addrs)
  <1> DEFINE was == a \in Range(list)
             at == IF was THEN CHOOSE k \in DOMAIN list : list[k] = a ELSE Len(list) + 1
             all == IF was THEN Len(list) ELSE Len(list) + 1
             n == IF all < MAX_ADDRS THEN all ELSE MAX_ADDRS
             m == [i \in 1..n |-> IF i = 1 THEN a ELSE IF i <= at THEN list[i - 1] ELSE list[i]]
  <1>1. n \in Nat /\ n <= all /\ all \in Nat
    BY BoundsAssumption
  <1>2. was => at \in DOMAIN list
    BY DEF Range
  <1>3. \A i \in 1..n : m[i] \in Addrs
    <2>1. DOMAIN list = 1..Len(list) /\ \A i \in 1..Len(list) : list[i] \in Addrs
      OBVIOUS
    <2> QED BY <1>1, <1>2, <2>1
  <1> HIDE DEF n
  <1>4. m \in [1..n -> Addrs]
    BY <1>3
  <1>5. m \in Seq(Addrs)
    BY <1>1, <1>4, SeqDef
  <1> QED BY <1>5 DEF Merged, n

LEMMA ProcsType ==
  ASSUME DirTypeOK, NEW p \in Procs,
       \/ InitLock(p) \/ ensure_dir_initialized(p) \/ init_locked(p) \/ serve_detached(p)
       \/ acquire(p) \/ NoDatabase(p) \/ Migrate(p) \/ OpenLocal(p)
       \/ BindEndpoint(p) \/ serving_addrs(p) \/ publish_freshness(p)
       \/ owner_socket_bind(p) \/ owner_tcp_bind(p) \/ cmd_serve(p) \/ CtrlC(p)
       \/ shutdown(p) \/ Die(p)
  PROVE  DirTypeOK'
  <1> USE BoundsAssumption, BuildAssumption DEF DirTypeOK, Go, locks, lanes, count, hist
  <1>1. CASE InitLock(p) \/ serve_detached(p) \/ OpenLocal(p)
    <2> USE <1>1 DEF InitLock, serve_detached, OpenLocal, Start
    <2>1. ProcType'
      BY DEF ProcType, Ids
    <2>2. LockType' /\ DbType' /\ FileType' /\ HistType'
      BY DEF LockType, DbType, FileType, HistType
    <2> QED BY <2>1, <2>2
  <1>2. CASE ensure_dir_initialized(p)
    <2> USE <1>2 DEF ensure_dir_initialized, DropInitLock
    <2>1. ProcType'
      BY DEF ProcType, load_secret, DbType, Ids
    <2>2. LockType' /\ DbType' /\ FileType' /\ HistType'
      BY DEF LockType, DbType, FileType, HistType
    <2> QED BY <2>1, <2>2
  <1>3. CASE init_locked(p)
    <2> USE <1>3 DEF init_locked, DropInitLock
    <2>1. ProcType'
      BY DEF ProcType, Ids
    <2>2. DbType'
      <3>1. [NoDb EXCEPT !.exists = TRUE, !.ver = Build[p]] \in Dbs
        BY NoDbType DEF Dbs
      <3>2. knownId[p] \in Ids /\ key' \in {"torn"} \cup Ids
        BY DEF ProcType, DbType, Ids
      <3> QED BY <3>1, <3>2 DEF DbType, Dbs
    <2>3. LockType' /\ FileType' /\ HistType'
      BY DEF LockType, FileType, HistType
    <2> QED BY <2>1, <2>2, <2>3
  <1>4. CASE acquire(p)
    <2> USE <1>4 DEF acquire, Attempt, Granted, Refuse
    <2>1. ProcType'
      <3>1. CASE tries' = [tries EXCEPT ![p] = Fresh]
        BY <3>1 DEF ProcType, Fresh
      <3>2. CASE /\ tries[p].n < Retries /\ pc' = pc
                 /\ tries' = [tries EXCEPT ![p] = [n |-> @.n + 1, held |-> @.held \/ lease # None]]
        <4>1. tries[p].n \in 0..Retries /\ tries[p].held \in BOOLEAN
          BY DEF ProcType
        <4>2. [n |-> tries[p].n + 1, held |-> tries[p].held \/ lease # None]
                \in [n : 0..Retries, held : BOOLEAN]
          BY <3>2, <4>1
        <4> QED BY <3>2, <4>2 DEF ProcType
      <3> QED BY <3>1, <3>2
    <2>2. LockType'
      BY DEF LockType
    <2>3. DbType' /\ FileType'
      BY DEF DbType, FileType
    <2>4. HistType'
      BY RunType DEF HistType
    <2> QED BY <2>1, <2>2, <2>3, <2>4
  <1>5. CASE NoDatabase(p) \/ CtrlC(p)
    <2> USE <1>5 DEF NoDatabase, CtrlC, Step
    <2>1. ProcType'
      BY DEF ProcType
    <2>2. LockType' /\ DbType' /\ FileType' /\ HistType'
      BY DEF LockType, DbType, FileType, HistType
    <2> QED BY <2>1, <2>2
  <1>6. CASE Migrate(p)
    <2> USE <1>6 DEF Migrate, migrate, Opened
    <2>1. ProcType'
      BY DEF ProcType
    <2>2. DbType'
      <3>1. ensure_node_tables(db, p) \in Dbs
        BY DEF DbType, Dbs, ensure_node_tables, NewMods
      <3> QED BY <3>1 DEF DbType, Dbs, stamp_schema_version
    <2>3. LockType' /\ FileType' /\ HistType'
      BY DEF LockType, FileType, HistType
    <2> QED BY <2>1, <2>2, <2>3
  <1>7. CASE BindEndpoint(p)
    <2> USE <1>7 DEF BindEndpoint, Step
    <2>1. ProcType'
      BY DEF ProcType, load_secret, DbType, Ids
    <2>2. LockType' /\ DbType' /\ FileType' /\ HistType'
      BY DEF LockType, DbType, FileType, HistType
    <2> QED BY <2>1, <2>2
  <1>8. CASE serving_addrs(p) \/ publish_freshness(p)
    <2> USE <1>8 DEF serving_addrs, publish_freshness, Step, Publish
    <2>1. ProcType'
      BY DEF ProcType
    <2>2. DbType'
      BY RunType DEF DbType, Dbs
    <2>3. LockType' /\ FileType' /\ HistType'
      BY DEF LockType, FileType, HistType
    <2> QED BY <2>1, <2>2, <2>3
  <1>9. CASE owner_socket_bind(p) \/ owner_tcp_bind(p) \/ cmd_serve(p)
    <2> USE <1>9 DEF owner_socket_bind, owner_tcp_bind, cmd_serve, Listen, Step
    <2>1. ProcType'
      BY DEF ProcType
    <2>2. FileType'
      BY RunType DEF FileType
    <2>3. LockType' /\ DbType' /\ HistType'
      BY DEF LockType, DbType, HistType
    <2> QED BY <2>1, <2>2, <2>3
  <1>10. CASE shutdown(p)
    <2> USE <1>10 DEF shutdown, Step, Remove, Unlisten
    <2>1. ProcType'
      BY DEF ProcType
    <2>2. DbType'
      BY DEF DbType, Dbs
    <2>3. FileType'
      BY DEF FileType
    <2>4. LockType' /\ HistType'
      BY DEF LockType, HistType
    <2> QED BY <2>1, <2>2, <2>3, <2>4
  <1>11. CASE Die(p)
    <2> USE <1>11 DEF Die
    <2>1. ProcType' /\ LockType' /\ HistType'
      BY GoneType DEF HistType
    <2>2. DbType' /\ FileType'
      BY GoneType DEF DbType, FileType, HistType
    <2> QED BY <2>1, <2>2
  <1> QED BY <1>1, <1>2, <1>3, <1>4, <1>5, <1>6, <1>7, <1>8, <1>9, <1>10, <1>11

LEMMA OthersType ==
  ASSUME DirTypeOK, LeaseInv,
                 \/ holder \/ StopLooks \/ StopWaits \/ StopRemoves
                 \/ \E m \in {"pages"} : RemoveMod(m)
                 \/ \E a \in Addrs : merge_peer_addrs(a)
  PROVE  DirTypeOK'
  <1> USE BoundsAssumption DEF DirTypeOK, proc, locks, lanes, count, hist
  <1>1. CASE holder
    <2>0. shared' \in BOOLEAN /\ probes' \in Nat
      <3>1. probes \in Nat
        BY DEF HistType
      <3>2. probes' \in Nat
        BY <1>1, <3>1 DEF holder
      <3>3. shared' \in BOOLEAN
        BY <1>1 DEF holder
      <3> QED BY <3>2, <3>3
    <2>1. LockType' /\ HistType'
      BY <1>1, <2>0 DEF holder, LockType, HistType
    <2>2. ProcType' /\ DbType' /\ FileType'
      BY <1>1 DEF holder, ProcType, DbType, FileType
    <2> QED BY <2>1, <2>2
  <1>2. CASE StopLooks
    <2> USE <1>2 DEF StopLooks, StopAt
    <2>1. stops' \in Nat /\ UNCHANGED <<probes, deaths>>
      BY DEF HistType
    <2>2. /\ file' \in [{"sock", "rec", "pid"} -> {None} \cup Runs]
          /\ DOMAIN stop' = {"st", "run"} /\ stop'.run \in {None} \cup Runs
      <3>1. file["pid"] \in {None} \cup Runs
        BY DEF FileType
      <3> QED BY <3>1 DEF FileType
    <2>3. DbType'
      BY DEF DbType
    <2>4. ProcType' /\ LockType' /\ HistType' /\ bound' \in [Procs -> SUBSET {"sock", "rec"}]
      <3>1. CASE UNCHANGED <<pc, tries, bound, initlk, lease, wlock, snap>>
        BY <2>1, <3>1 DEF ProcType, LockType, HistType, FileType
      <3>2. CASE Alive(file["pid"]) /\ Signal(file["pid"][1])
        <4>1. file["pid"] \in Runs /\ file["pid"][1] \in Procs
          BY <3>2 DEF FileType, Alive, Runs
        <4>2. CASE Gone(file["pid"][1])
          BY <2>1, <4>1, <4>2, GoneType DEF HistType
        <4>3. CASE /\ Go(file["pid"][1], "stop.pid")
                   /\ UNCHANGED <<tries, bound, initlk, lease, wlock, snap>>
          BY <2>1, <4>1, <4>3 DEF Go, ProcType, LockType, HistType, FileType
        <4> QED BY <3>1, <3>2, <4>2, <4>3 DEF Signal
      <3> QED BY <3>1, <3>2
    <2> QED BY <2>2, <2>3, <2>4 DEF FileType
  <1>3. CASE StopWaits
    <2> USE <1>3 DEF StopWaits, StopAt
    <2>1. /\ DbType' /\ file' \in [{"sock", "rec", "pid"} -> {None} \cup Runs]
          /\ DOMAIN stop' = {"st", "run"} /\ stop'.run \in {None} \cup Runs
      BY DEF DbType, FileType
    <2>2. CASE UNCHANGED <<pc, tries, bound, initlk, lease, wlock, snap>>
      <3>1. ProcType' /\ LockType' /\ FileType' /\ HistType'
        BY <2>1, <2>2 DEF ProcType, LockType, FileType, HistType
      <3> QED BY <2>1, <3>1
    <2>3. CASE Alive(stop.run) /\ Gone(stop.run[1])
      <3>1. stop.run[1] \in Procs
        BY <2>3 DEF FileType, Alive, Runs
      <3>2. ProcType' /\ LockType' /\ HistType' /\ bound' \in [Procs -> SUBSET {"sock", "rec"}]
        BY <2>3, <3>1, GoneType DEF HistType
      <3> QED BY <2>1, <3>2 DEF FileType
    <2> QED BY <2>2, <2>3
  <1>4. CASE StopRemoves
    <2>1. PICK m \in {<<"rm.pid", "pid", "rm.sock">>, <<"rm.sock", "sock", "rm.rec">>,
                      <<"rm.rec", "rec", "off">>} :
            /\ Remove(m[2]) /\ m[2] \in {"sock", "rec", "pid"}
            /\ stop' = IF m[3] = "off" THEN [st |-> "off", run |-> None] ELSE [stop EXCEPT !.st = m[3]]
            /\ crossed' = IF Alive(file[m[2]]) THEN crossed \cup {file[m[2]]} ELSE crossed
            /\ bound' = bound
      BY <1>4 DEF StopRemoves
    <2>2. FileType'
      BY <2>1 DEF FileType, Remove
    <2>3. crossed' \in SUBSET Runs
      BY <2>1 DEF FileType, HistType, Alive
    <2>4. ProcType' /\ LockType' /\ DbType' /\ HistType'
      BY <1>4, <2>3 DEF StopRemoves, ProcType, LockType, DbType, HistType
    <2> QED BY <2>2, <2>4
  <1>5. CASE \E m \in {"pages"} : RemoveMod(m)
    <2>1. DbType'
      BY <1>5 DEF RemoveMod, DbType, Dbs
    <2>2. ProcType' /\ LockType' /\ FileType' /\ HistType'
      BY <1>5 DEF RemoveMod, ProcType, LockType, FileType, HistType
    <2> QED BY <2>1, <2>2
  <1>6. ASSUME NEW a \in Addrs, merge_peer_addrs(a) PROVE DirTypeOK'
    <2>0. ProcType' /\ FileType'
      BY <1>6 DEF merge_peer_addrs, ProcType, FileType
    <2>1. CASE wlock' = a /\ snap' = [snap EXCEPT ![a] = db.addrs] /\ UNCHANGED <<db, merges>>
      <3>1. db.addrs \in Seq(Addrs)
        BY DEF DbType, Dbs
      <3>2. LockType' /\ DbType'
        BY <1>6, <2>1 DEF merge_peer_addrs, LockType, DbType
      <3>3. HistType'
        BY <1>6, <2>1, <3>1 DEF merge_peer_addrs, HistType
      <3> QED BY <2>0, <3>2, <3>3
    <2>2. CASE wlock = a /\ Write(a, snap[a])
      <3>1. snap[a] = db.addrs
        BY <2>2 DEF LeaseInv
      <3>2. db.addrs \in Seq(Addrs) /\ merges \in Seq(Addrs)
        BY DEF DbType, Dbs, HistType
      <3>3. Merged(a, db.addrs) \in Seq(Addrs) /\ <<a>> \o merges \in Seq(Addrs)
        BY <3>2, MergedType
      <3>4. LockType' /\ DbType'
        BY <1>6, <2>2, <3>1, <3>3 DEF merge_peer_addrs, Write, LockType, DbType, Dbs
      <3>5. HistType'
        BY <1>6, <2>2, <3>3 DEF merge_peer_addrs, Write, HistType
      <3> QED BY <2>0, <3>4, <3>5
    <2> QED BY <1>6, <2>1, <2>2 DEF merge_peer_addrs
  <1> QED BY <1>1, <1>2, <1>3, <1>4, <1>5, <1>6

-----------------------------------------------------------------------------
(* The lease and the database under it. *)

\* A step of a process moves that process only.
LEMMA GoFacts ==
  ASSUME DirTypeOK, NEW p \in Procs, NEW s, Go(p, s)
  PROVE  pc'[p] = s /\ \A q \in Procs \ {p} : pc'[q] = pc[q]
  BY DEF Go, DirTypeOK, ProcType

LEMMA GoneKeepsLease ==
  ASSUME DirTypeOK, LeaseInv, NEW p \in Procs, Gone(p), UNCHANGED db
  PROVE  LeaseInv'
  <1> USE NamesAssumption
  <1>1. pc'[p] = "off" /\ \A q \in Procs \ {p} : pc'[q] = pc[q]
    BY GoFacts DEF Gone
  <1>2. \A q \in Procs : pc'[q] \in Held => lease' = q
    BY <1>1 DEF Gone, LeaseInv, Held, HasEndpoint, Listening, OnTcp
  <1>3. \A q \in Procs : pc'[q] \in Held \cup Opening \cup {"seed", "ident"} => db.exists
    BY <1>1 DEF LeaseInv, Held, HasEndpoint, Listening, OnTcp, Opening
  <1>4. wlock' \in Addrs => snap'[wlock'] = snap[wlock] /\ wlock' = wlock
    BY DEF Gone, DirTypeOK, HistType
  <1> QED BY <1>2, <1>3, <1>4 DEF LeaseInv

\* A process that moves on with what it holds.
LEMMA MoveKeepsLease ==
  ASSUME DirTypeOK, LeaseInv, NEW p \in Procs, NEW s, Go(p, s), UNCHANGED <<lease, snap>>,
         s \in Held => lease = p,
         s \in Held \cup Opening \cup {"seed", "ident"} => db'.exists,
         db.exists => db'.exists, ~db'.exists => db' = NoDb,
         wlock' \in Addrs => wlock' = wlock /\ db'.addrs = db.addrs
  PROVE  LeaseInv'
  <1>1. pc'[p] = s /\ \A q \in Procs \ {p} : pc'[q] = pc[q]
    BY GoFacts
  <1> QED BY <1>1 DEF LeaseInv

LEMMA ProcsKeepLease ==
  ASSUME DirTypeOK, LeaseInv, NEW p \in Procs,
       \/ InitLock(p) \/ ensure_dir_initialized(p) \/ init_locked(p) \/ serve_detached(p)
       \/ acquire(p) \/ NoDatabase(p) \/ Migrate(p) \/ OpenLocal(p)
       \/ BindEndpoint(p) \/ serving_addrs(p) \/ publish_freshness(p)
       \/ owner_socket_bind(p) \/ owner_tcp_bind(p) \/ cmd_serve(p) \/ CtrlC(p)
       \/ shutdown(p) \/ Die(p)
  PROVE  LeaseInv'
  <1> USE NamesAssumption DEF locks
  <1>a. ~db.exists => db = NoDb
    BY DEF LeaseInv
  <1>b. db \in Dbs
    BY DEF DirTypeOK, DbType
  <1>1. CASE InitLock(p) \/ serve_detached(p) \/ OpenLocal(p)
    <2>1. PICK s \in {"init", "ready", "open"} : Go(p, s) /\ (s = "open" => db.exists)
      BY <1>1 DEF InitLock, serve_detached, OpenLocal, Start
    <2>2. s \notin Held \cup {"seed", "ident"} /\ (s \in Opening => db.exists)
      BY <2>1 DEF Held, HasEndpoint, Listening, OnTcp, Opening
    <2> QED BY <1>1, <1>a, <2>1, <2>2, MoveKeepsLease DEF InitLock, serve_detached, OpenLocal, Start
  <1>2. CASE ensure_dir_initialized(p)
    <2>1. PICK s \in {"off", "ready", "key"} : Go(p, s)
      BY <1>2 DEF ensure_dir_initialized
    <2>2. s \notin Held \cup Opening \cup {"seed", "ident"}
      BY <2>1 DEF Held, HasEndpoint, Listening, OnTcp, Opening
    <2> QED BY <1>2, <1>a, <2>1, <2>2, MoveKeepsLease DEF ensure_dir_initialized
  <1>3. CASE init_locked(p)
    <2>0. pc[p] \in {"seed", "ident"} => db.exists
      BY DEF LeaseInv
    <2>1. PICK s \in {"off", "ready", "write", "create", "seed", "ident"} :
            Go(p, s) /\ (s \in {"seed", "ident"} => db'.exists)
      BY <1>3, <1>b, <2>0 DEF init_locked, Dbs, NoDb
    <2>2. s \notin Held \cup Opening
      BY <2>1 DEF Held, HasEndpoint, Listening, OnTcp, Opening
    <2>3. (db.exists => db'.exists) /\ (~db'.exists => db' = NoDb) /\ db'.addrs = db.addrs
      <3>1. CASE db' = db
        BY <1>a, <3>1
      <3>2. CASE ~db.exists /\ db' = [NoDb EXCEPT !.exists = TRUE, !.ver = Build[p]]
        BY <1>a, <3>2 DEF NoDb
      <3>3. CASE db' = [db EXCEPT !.mods = {"sql-sqlite", "pages"}] /\ db.exists
        BY <1>b, <3>3 DEF Dbs
      <3>4. CASE db' = [db EXCEPT !.id = knownId[p]] /\ db.exists
        BY <1>b, <3>4 DEF Dbs
      <3> QED BY <1>3, <2>0, <3>1, <3>2, <3>3, <3>4 DEF init_locked
    <2> QED BY <1>3, <2>1, <2>2, <2>3, MoveKeepsLease DEF init_locked
  <1>4. CASE acquire(p)
    <2>1. CASE Granted(p)
      <3>1. pc'[p] = "open" /\ \A q \in Procs \ {p} : pc'[q] = pc[q]
        BY <2>1, GoFacts DEF Granted
      <3>2. \A q \in Procs : pc'[q] \notin Held
        BY <2>1, <3>1 DEF Granted, LeaseInv, Held, HasEndpoint, Listening, OnTcp
      <3>3. db.exists /\ UNCHANGED <<db, wlock, snap>>
        BY <1>4 DEF acquire, Attempt
      <3> QED BY <3>1, <3>2, <3>3 DEF LeaseInv
    <2>2. CASE Refuse(p)
      <3>1. "off" \notin Held \cup Opening \cup {"seed", "ident"}
        BY DEF Held, HasEndpoint, Listening, OnTcp, Opening
      <3> QED BY <1>4, <1>a, <2>2, <3>1, MoveKeepsLease DEF acquire, Attempt, Refuse
    <2>3. CASE UNCHANGED <<lease, pc>>
      BY <1>4, <2>3 DEF acquire, Attempt, LeaseInv
    <2> QED BY <1>4, <2>1, <2>2, <2>3 DEF acquire, Attempt
  <1>5. CASE NoDatabase(p)
    <2>1. "off" \notin Held \cup Opening \cup {"seed", "ident"}
      BY DEF Held, HasEndpoint, Listening, OnTcp, Opening
    <2> QED BY <1>5, <1>a, <2>1, MoveKeepsLease DEF NoDatabase
  <1>6. CASE Migrate(p)
    <2>0. pc[p] \in Opening /\ db.exists
      BY <1>6 DEF Migrate, migrate, Opening, LeaseInv
    <2>1. PICK s \in {"hello", "off", "begin", "migrate"} : Go(p, s) /\ (s = "hello" => lease = p)
      BY <1>6 DEF Migrate, migrate, Opened
    <2>2. s \in Held => lease = p
      BY <2>1 DEF Held, HasEndpoint, Listening, OnTcp
    <2>3. db'.exists /\ db'.addrs = db.addrs
      <3>1. \A d \in Dbs : /\ ensure_node_tables(d, p) \in Dbs
                           /\ ensure_node_tables(d, p).exists = d.exists
                           /\ ensure_node_tables(d, p).addrs = d.addrs
        BY DEF ensure_node_tables, Dbs, NewMods
      <3>2. \A d \in Dbs : /\ stamp_schema_version(d, p).exists = d.exists
                           /\ stamp_schema_version(d, p).addrs = d.addrs
        BY DEF stamp_schema_version, Dbs
      <3> QED BY <1>6, <1>b, <2>0, <3>1, <3>2 DEF Migrate, migrate
    <2>4. UNCHANGED <<lease, snap>> /\ wlock' \in {wlock, p, None}
      BY <1>6 DEF Migrate, migrate
    <2> QED BY <2>0, <2>1, <2>2, <2>3, <2>4, MoveKeepsLease
  <1>7. CASE \/ BindEndpoint(p) \/ serving_addrs(p) \/ publish_freshness(p)
             \/ owner_socket_bind(p) \/ owner_tcp_bind(p) \/ cmd_serve(p) \/ CtrlC(p)
    <2>1. pc[p] \in Held /\ \E s \in Held : Go(p, s)
      BY <1>7 DEF BindEndpoint, serving_addrs, publish_freshness, owner_socket_bind, owner_tcp_bind,
                  cmd_serve, CtrlC, Step, Held, HasEndpoint, Listening, OnTcp
    <2>2. lease = p /\ db.exists
      BY <2>1 DEF LeaseInv
    <2>3. db'.exists /\ db'.addrs = db.addrs /\ UNCHANGED <<lease, wlock, snap>>
      BY <1>7, <1>b, <2>2
         DEF BindEndpoint, serving_addrs, publish_freshness, owner_socket_bind, owner_tcp_bind,
             cmd_serve, CtrlC, Publish, Dbs
    <2> QED BY <2>1, <2>2, <2>3, MoveKeepsLease
  <1>8. CASE shutdown(p)
    <2>0. pc[p] \in Held
      BY <1>8 DEF shutdown, Step, Held, HasEndpoint, Listening, OnTcp
    <2>1. lease = p /\ db.exists
      BY <2>0 DEF LeaseInv
    <2>2. db'.exists /\ db'.addrs = db.addrs /\ UNCHANGED <<wlock, snap>>
      BY <1>8, <1>b, <2>1 DEF shutdown, Dbs
    <2>3. CASE Go(p, "off")
      <3>1. pc'[p] = "off" /\ \A q \in Procs \ {p} : pc'[q] = pc[q]
        BY <2>3, GoFacts
      <3>2. \A q \in Procs : pc'[q] \notin Held
        BY <2>1, <3>1 DEF LeaseInv, Held, HasEndpoint, Listening, OnTcp
      <3> QED BY <2>2, <3>1, <3>2 DEF LeaseInv
    <2>4. CASE UNCHANGED lease /\ \E s \in Held : Go(p, s)
      BY <2>1, <2>2, <2>4, MoveKeepsLease
    <2> QED BY <1>8, <2>3, <2>4 DEF shutdown, Step, Held, HasEndpoint, Listening, OnTcp
  <1>9. CASE Die(p)
    BY <1>9, GoneKeepsLease DEF Die
  <1> QED BY <1>1, <1>2, <1>3, <1>4, <1>5, <1>6, <1>7, <1>8, <1>9

LEMMA OthersKeepLease ==
  ASSUME DirTypeOK, LeaseInv,
         \/ holder \/ StopLooks \/ StopWaits \/ StopRemoves
         \/ \E m \in {"pages"} : RemoveMod(m)
         \/ \E a \in Addrs : merge_peer_addrs(a)
  PROVE  LeaseInv'
  <1> USE NamesAssumption DEF proc, locks
  <1>b. db \in Dbs
    BY DEF DirTypeOK, DbType
  <1>1. CASE UNCHANGED <<pc, lease, wlock, snap, db>>
    BY <1>1 DEF LeaseInv
  <1>2. CASE StopLooks
    <2>1. CASE stop.st = "off" /\ Alive(file["pid"]) /\ Signal(file["pid"][1])
      <3>1. file["pid"][1] \in Procs
        BY <2>1 DEF DirTypeOK, FileType, Alive, Runs
      <3>2. CASE Gone(file["pid"][1])
        BY <1>2, <3>1, <3>2, GoneKeepsLease DEF StopLooks
      <3>3. CASE pc[file["pid"][1]] = "serving" /\ Go(file["pid"][1], "stop.pid")
                 /\ UNCHANGED <<lease, wlock, snap>>
        <4>1. "serving" \in Held /\ "stop.pid" \in Held
          BY DEF Held, HasEndpoint, Listening, OnTcp
        <4>2. lease = file["pid"][1] /\ db.exists
          BY <3>1, <3>3, <4>1 DEF LeaseInv
        <4> QED BY <1>2, <3>1, <3>3, <4>1, <4>2, MoveKeepsLease DEF StopLooks
      <3> QED BY <1>1, <1>2, <2>1, <3>2, <3>3 DEF Signal, StopLooks
    <2> QED BY <1>1, <1>2, <2>1 DEF StopLooks
  <1>3. CASE StopWaits
    <2>1. CASE Alive(stop.run) /\ Gone(stop.run[1])
      <3>1. stop.run[1] \in Procs
        BY <2>1 DEF DirTypeOK, FileType, Alive, Runs
      <3> QED BY <1>3, <2>1, <3>1, GoneKeepsLease DEF StopWaits
    <2> QED BY <1>1, <1>3, <2>1 DEF StopWaits
  <1>4. CASE \E m \in {"pages"} : RemoveMod(m)
    <2>1. db.exists
      BY <1>4 DEF RemoveMod, LeaseInv, NoDb
    <2>2. db'.exists /\ db'.addrs = db.addrs /\ UNCHANGED <<pc, lease, wlock, snap>>
      BY <1>4, <1>b, <2>1 DEF RemoveMod, Dbs
    <2> QED BY <2>2 DEF LeaseInv
  <1>5. ASSUME NEW a \in Addrs, merge_peer_addrs(a) PROVE LeaseInv'
    <2>1. CASE /\ wlock' = a /\ snap' = [snap EXCEPT ![a] = db.addrs] /\ UNCHANGED db
               /\ lease # None /\ pc[lease] = "serving"
      <3>1. db.exists
        BY <2>1 DEF LeaseInv, Held, HasEndpoint, Listening, OnTcp, DirTypeOK, LockType
      <3>2. snap'[a] = db.addrs
        BY <2>1 DEF DirTypeOK, HistType
      <3> QED BY <1>5, <2>1, <3>1, <3>2 DEF merge_peer_addrs, LeaseInv
    <2>2. CASE wlock = a /\ Write(a, snap[a])
      <3>1. db.exists /\ db'.exists /\ wlock' = None
        BY <1>b, <2>2 DEF LeaseInv, Write, Dbs
      <3> QED BY <1>5, <3>1 DEF merge_peer_addrs, LeaseInv
    <2> QED BY <1>5, <2>1, <2>2 DEF merge_peer_addrs
  <1> QED BY <1>1, <1>2, <1>3, <1>4, <1>5 DEF holder, StopRemoves

-----------------------------------------------------------------------------
(* The traces of the server, and the version. *)

\* Two processes are never both past the acquire.
LEMMA OneHolder ==
  ASSUME LeaseInv, NEW p \in Procs, NEW q \in Procs, pc[p] \in Held, pc[q] \in Held
  PROVE  p = q
  BY DEF LeaseInv

LEMMA PlacesHeld ==
  /\ HasEndpoint \ {"addrs"} \subseteq Held /\ Listening \subseteq Held /\ OnTcp \subseteq Held
  /\ {"armed", "serving", "stop.pid"} \subseteq Held /\ HasEndpoint \subseteq Held
  /\ "off" \notin Held /\ "ready" \notin Held
  BY DEF Held, HasEndpoint, Listening, OnTcp

\* A process that is not past the acquire, before and after, disturbs no trace.
LEMMA OutsidersKeepTraces ==
  ASSUME DirTypeOK, TraceInv, NEW p \in Procs, pc'[p] \notin Held,
         \A q \in Procs \ {p} : pc'[q] = pc[q] /\ nth'[q] = nth[q],
         bound'[p] = {}, \A q \in Procs \ {p} : bound'[q] = bound[q],
         UNCHANGED <<file, crossed>>,
         (\E q \in Procs : pc[q] \in Held) => db'.pub = db.pub
  PROVE  TraceInv'
  <1>0. LanesInv(p)'
    BY DEF LanesInv
  <1> SUFFICES ASSUME NEW q \in Procs, q # p
               PROVE  /\ pc'[q] \in HasEndpoint \ {"addrs"} => db'.pub = Run(q)'
                      /\ LanesInv(q)'
                      /\ pc'[q] \in {"armed", "serving", "stop.pid"} => Named(q, "pid")'
    BY <1>0, PlacesHeld DEF TraceInv
  <1>1. pc'[q] = pc[q] /\ bound'[q] = bound[q] /\ Run(q)' = Run(q)
    BY DEF Run
  <1>2. Named(q, "sock")' = Named(q, "sock") /\ Named(q, "rec")' = Named(q, "rec")
        /\ Named(q, "pid")' = Named(q, "pid")
    BY <1>1 DEF Named
  <1> QED BY <1>1, <1>2, PlacesHeld DEF TraceInv, LanesInv

\* Who is not past it listens nowhere.
LEMMA OutsidersUnbound ==
  ASSUME DirTypeOK, TraceInv, NEW p \in Procs, pc[p] \notin Held
  PROVE  bound[p] = {}
  <1>1. bound[p] \subseteq {"sock", "rec"}
    BY DEF DirTypeOK, FileType
  <1>2. "sock" \notin bound[p] /\ "rec" \notin bound[p]
    BY PlacesHeld DEF TraceInv, LanesInv
  <1> QED BY <1>1, <1>2

\* The one that is past it disturbs only its own.
LEMMA HolderKeepsTraces ==
  ASSUME DirTypeOK, LeaseInv, TraceInv, NEW p \in Procs, pc[p] \in Held, NEW s, Go(p, s),
         UNCHANGED <<nth, crossed>>,
         s \in HasEndpoint \ {"addrs"} => db'.pub = Run(p),
         \A q \in Procs \ {p} : bound'[q] = bound[q],
         "sock" \in bound'[p] => s \in Listening /\ Named(p, "sock")',
         "rec" \in bound'[p] => s \in OnTcp /\ Named(p, "rec")',
         s \in {"armed", "serving", "stop.pid"} => Named(p, "pid")'
  PROVE  TraceInv'
  <1>1. pc'[p] = s /\ \A q \in Procs \ {p} : pc'[q] = pc[q]
    BY GoFacts
  <1>2. \A q \in Procs \ {p} : pc'[q] \notin Held
    BY <1>1, OneHolder
  <1>3. Run(p)' = Run(p)
    BY DEF Run
  <1>4. \A q \in Procs \ {p} : bound'[q] = {}
    BY <1>1, <1>2, OutsidersUnbound
  <1> QED BY <1>1, <1>2, <1>3, <1>4, PlacesHeld DEF TraceInv, LanesInv

LEMMA ProcsKeepTraces ==
  ASSUME DirTypeOK, LeaseInv, TraceInv, NEW p \in Procs,
       \/ InitLock(p) \/ ensure_dir_initialized(p) \/ init_locked(p) \/ serve_detached(p)
       \/ acquire(p) \/ NoDatabase(p) \/ Migrate(p) \/ OpenLocal(p)
       \/ BindEndpoint(p) \/ serving_addrs(p) \/ publish_freshness(p)
       \/ owner_socket_bind(p) \/ owner_tcp_bind(p) \/ cmd_serve(p) \/ CtrlC(p)
       \/ shutdown(p) \/ Die(p)
  PROVE  TraceInv'
  <1> USE NamesAssumption DEF hist, lanes
  <1>b. /\ db \in Dbs /\ DOMAIN file = {"sock", "rec", "pid"}
        /\ bound \in [Procs -> SUBSET {"sock", "rec"}]
    BY DEF DirTypeOK, DbType, FileType
  <1>d. pc[p] \notin Held => bound[p] = {}
    BY OutsidersUnbound
  <1>c. \A q \in Procs : pc[q] \in Held => db.exists
    BY DEF LeaseInv
  <1>1. CASE InitLock(p) \/ serve_detached(p) \/ OpenLocal(p)
    <2>1. PICK s \in {"init", "ready", "open"} : Go(p, s) /\ nth' = [nth EXCEPT ![p] = @ + 1]
      BY <1>1 DEF InitLock, serve_detached, OpenLocal, Start
    <2>2. s \notin Held
      BY <2>1 DEF Held, HasEndpoint, Listening, OnTcp
    <2>3. pc'[p] = s /\ \A q \in Procs \ {p} : pc'[q] = pc[q] /\ nth'[q] = nth[q]
      BY <2>1, GoFacts DEF DirTypeOK, ProcType
    <2>4. bound'[p] = {} /\ bound' = bound
      BY <1>1, <1>d, PlacesHeld DEF InitLock, serve_detached, OpenLocal, Start
    <2> QED BY <1>1, <2>2, <2>3, <2>4, OutsidersKeepTraces DEF InitLock, serve_detached, OpenLocal
  <1>2. CASE \/ ensure_dir_initialized(p) \/ init_locked(p) \/ acquire(p) \/ NoDatabase(p)
             \/ (Migrate(p) /\ ~Go(p, "hello"))
    <2>1. \/ pc' = pc /\ pc[p] = "ready"
          \/ \E s \in {"off", "ready", "key", "write", "create", "seed", "ident", "open", "begin",
                      "migrate"} : Go(p, s)
      BY <1>2 DEF ensure_dir_initialized, init_locked, acquire, Attempt, Granted, Refuse, NoDatabase,
                  Migrate, migrate, Opened
    <2>2. pc'[p] \notin Held /\ \A q \in Procs \ {p} : pc'[q] = pc[q]
      BY <2>1, GoFacts DEF Held, HasEndpoint, Listening, OnTcp
    <2>3. db.exists => db'.pub = db.pub
      <3>1. CASE init_locked(p)
        BY <1>b, <3>1 DEF init_locked, Dbs
      <3>2. CASE Migrate(p)
        <4>1. \A d \in Dbs : ensure_node_tables(d, p) \in Dbs /\ ensure_node_tables(d, p).pub = d.pub
          BY DEF ensure_node_tables, Dbs, NewMods
        <4>2. \A d \in Dbs : stamp_schema_version(d, p).pub = d.pub
          BY DEF stamp_schema_version, Dbs
        <4> QED BY <1>b, <3>2, <4>1, <4>2 DEF Migrate, migrate
      <3> QED BY <1>2, <3>1, <3>2 DEF ensure_dir_initialized, acquire, Attempt, NoDatabase
    <2>4. UNCHANGED <<nth, file, bound, crossed>>
      BY <1>2 DEF ensure_dir_initialized, init_locked, acquire, Attempt, NoDatabase, Migrate, Refuse,
                  Granted
    <2>5. bound'[p] = {}
      <3>1. pc[p] \in {"init", "key", "write", "create", "seed", "ident", "ready"} \cup Opening
        BY <1>2 DEF ensure_dir_initialized, init_locked, acquire, Attempt, NoDatabase, Migrate,
                    migrate, Opening
      <3>2. pc[p] \notin Held
        BY <3>1 DEF Held, HasEndpoint, Opening
      <3> QED BY <1>d, <2>4, <3>2
    <2> QED BY <1>c, <2>2, <2>3, <2>4, <2>5, OutsidersKeepTraces
  <1>3. CASE Migrate(p) /\ Go(p, "hello")
    <2>1. pc'[p] = "hello" /\ \A q \in Procs \ {p} : pc'[q] = pc[q]
      BY <1>3, GoFacts
    <2>2. lease = p /\ \A q \in Procs \ {p} : pc'[q] \notin Held
      <3>1. lease = p
        BY <1>3, <2>1, GoFacts DEF Migrate, migrate, Opened, Go
      <3> QED BY <2>1, <3>1 DEF LeaseInv
    <2>3. "hello" \notin HasEndpoint
      BY DEF HasEndpoint
    <2>4. pc[p] \notin Held
      BY <1>3 DEF Migrate, migrate, Held, HasEndpoint
    <2>5. \A q \in Procs : pc[q] \notin Held
      BY <2>1, <2>2, <2>4
    <2>6. \A q \in Procs : bound'[q] = {}
      <3>1. bound' = bound
        BY <1>3 DEF Migrate
      <3> QED BY <2>5, <3>1, OutsidersUnbound
    <2> QED BY <2>1, <2>2, <2>3, <2>6, PlacesHeld DEF TraceInv, LanesInv, HasEndpoint
  <1>4. CASE BindEndpoint(p) \/ CtrlC(p)
    <2>1. CASE BindEndpoint(p)
      <3>1. pc[p] = "hello" /\ pc[p] \in Held /\ Go(p, "addrs") /\ UNCHANGED <<nth, crossed, lanes>>
        BY <2>1 DEF BindEndpoint, Step, Held
      <3>2. "sock" \notin bound'[p] /\ "rec" \notin bound'[p]
        BY <3>1 DEF TraceInv, LanesInv, Listening, OnTcp
      <3> QED BY <3>1, <3>2, HolderKeepsTraces
    <2>2. CASE CtrlC(p)
      <3>1. pc[p] = "serving" /\ Go(p, "stop.pid") /\ UNCHANGED <<nth, crossed, file, bound, db>>
        BY <2>2 DEF CtrlC, Step
      <3>2. /\ pc[p] \in Held /\ pc[p] \in HasEndpoint \ {"addrs"}
            /\ "stop.pid" \in Listening /\ "stop.pid" \in OnTcp
        BY <3>1 DEF Held, HasEndpoint, Listening, OnTcp
      <3>3. /\ db'.pub = Run(p) /\ Named(p, "pid")'
            /\ "sock" \in bound'[p] => Named(p, "sock")'
            /\ "rec" \in bound'[p] => Named(p, "rec")'
        BY <3>1, <3>2 DEF TraceInv, LanesInv, Named, Run
      <3> QED BY <3>1, <3>2, <3>3, HolderKeepsTraces
    <2> QED BY <1>4, <2>1, <2>2
  <1>5. CASE serving_addrs(p) \/ publish_freshness(p)
    <2>1. PICK s \in {"ticket", "sock"} : Go(p, s)
      BY <1>5 DEF serving_addrs, publish_freshness, Step
    <2>2. pc[p] \in {"addrs", "ticket"} /\ pc[p] \in Held /\ s \notin {"armed", "serving", "stop.pid"}
      BY <1>5, <2>1 DEF serving_addrs, publish_freshness, Step, Held, HasEndpoint
    <2>3. db'.pub = Run(p) /\ UNCHANGED <<nth, crossed, bound>>
      BY <1>5, <1>b DEF serving_addrs, publish_freshness, Publish, Dbs
    <2>4. "sock" \notin bound'[p] /\ "rec" \notin bound'[p]
      BY <2>2, <2>3 DEF TraceInv, LanesInv, Listening, OnTcp
    <2> QED BY <2>1, <2>2, <2>3, <2>4, HolderKeepsTraces
  <1>6. CASE owner_socket_bind(p)
    <2>1. pc[p] = "sock" /\ Go(p, "tcp") /\ UNCHANGED <<nth, crossed, db>>
      BY <1>6 DEF owner_socket_bind, Step
    <2>2. /\ pc[p] \in Held /\ pc[p] \in HasEndpoint \ {"addrs"}
          /\ "tcp" \in Listening /\ "tcp" \notin {"armed", "serving", "stop.pid"}
      BY <2>1 DEF Held, HasEndpoint, Listening
    <2>3. "sock" \notin bound[p] /\ "rec" \notin bound[p]
      BY <2>1 DEF TraceInv, LanesInv, Listening, OnTcp
    <2>4. /\ \A q \in Procs \ {p} : bound'[q] = bound[q]
          /\ "rec" \notin bound'[p]
          /\ "sock" \in bound'[p] => file'["sock"] = Run(p)
      BY <1>6, <1>b, <2>3 DEF owner_socket_bind, Listen
    <2>5. db'.pub = Run(p) /\ ("sock" \in bound'[p] => Named(p, "sock")')
      BY <2>1, <2>2, <2>4 DEF Named, Run, TraceInv
    <2> QED BY <2>1, <2>2, <2>4, <2>5, HolderKeepsTraces
  <1>7. CASE owner_tcp_bind(p)
    <2>1. pc[p] = "tcp" /\ Go(p, "web") /\ UNCHANGED <<nth, crossed, db>>
      BY <1>7 DEF owner_tcp_bind, Step
    <2>2. /\ pc[p] \in Held /\ pc[p] \in HasEndpoint \ {"addrs"} /\ "web" \in Listening
          /\ "web" \in OnTcp /\ "web" \notin {"armed", "serving", "stop.pid"}
      BY <2>1 DEF Held, HasEndpoint, Listening, OnTcp
    <2>3. "rec" \notin bound[p]
      BY <2>1 DEF TraceInv, LanesInv, OnTcp
    <2>4. /\ \A q \in Procs \ {p} : bound'[q] = bound[q]
          /\ "sock" \in bound'[p] => "sock" \in bound[p] /\ file'["sock"] = file["sock"]
          /\ "rec" \in bound'[p] => file'["rec"] = Run(p)
      BY <1>7, <1>b, <2>3 DEF owner_tcp_bind, Listen
    <2>5. /\ db'.pub = Run(p)
          /\ "sock" \in bound'[p] => Named(p, "sock")'
          /\ "rec" \in bound'[p] => Named(p, "rec")'
      BY <2>1, <2>2, <2>4 DEF Named, Run, TraceInv, LanesInv
    <2> QED BY <2>1, <2>2, <2>4, <2>5, HolderKeepsTraces
  <1>8. CASE cmd_serve(p)
    <2>1. PICK s \in {"armed", "serving"} : /\ Go(p, s) /\ UNCHANGED <<nth, crossed, db, bound>>
                      /\ \/ pc[p] = "web" /\ file' = [file EXCEPT !["pid"] = Run(p)]
                         \/ pc[p] = "armed" /\ file' = file
      BY <1>8 DEF cmd_serve, Step
    <2>2. pc[p] \in Held /\ pc[p] \in HasEndpoint \ {"addrs"} /\ s \in Listening /\ s \in OnTcp
      BY <2>1 DEF Held, HasEndpoint, Listening, OnTcp
    <2>3. /\ db'.pub = Run(p)
          /\ "sock" \in bound'[p] => Named(p, "sock")'
          /\ "rec" \in bound'[p] => Named(p, "rec")'
      BY <1>b, <2>1, <2>2 DEF Named, Run, TraceInv, LanesInv
    <2>4. Named(p, "pid")'
      BY <1>b, <2>1 DEF Named, Run, TraceInv
    <2> QED BY <2>1, <2>2, <2>3, <2>4, HolderKeepsTraces
  <1>9. CASE shutdown(p)
    <2>0. UNCHANGED <<nth, crossed>> /\ Run(p)' = Run(p)
      BY <1>9 DEF shutdown, Run
    <2>1. CASE Step(p, "stop.pid", "stop.sock") /\ Remove("pid") /\ UNCHANGED <<db, bound>>
      <3>1. pc[p] \in Held /\ pc[p] \in HasEndpoint \ {"addrs"} /\ "stop.sock" \in Listening
            /\ "stop.sock" \in OnTcp
        BY <2>1 DEF Step, Held, HasEndpoint, Listening, OnTcp
      <3>2. /\ db'.pub = Run(p)
            /\ "sock" \in bound'[p] => Named(p, "sock")'
            /\ "rec" \in bound'[p] => Named(p, "rec")'
        BY <1>b, <2>0, <2>1, <3>1 DEF Named, TraceInv, LanesInv, Remove
      <3> QED BY <2>0, <2>1, <3>1, <3>2, HolderKeepsTraces DEF Step
    <2>2. CASE Step(p, "stop.sock", "stop.tcp") /\ Unlisten(p, "sock") /\ UNCHANGED db
      <3>1. pc[p] \in Held /\ pc[p] \in HasEndpoint \ {"addrs"} /\ "stop.tcp" \in OnTcp
        BY <2>2 DEF Step, Held, HasEndpoint, OnTcp
      <3>2. /\ \A q \in Procs \ {p} : bound'[q] = bound[q]
            /\ "sock" \notin bound'[p]
            /\ "rec" \in bound'[p] => "rec" \in bound[p] /\ file'["rec"] = file["rec"]
        BY <1>b, <2>2 DEF Unlisten, Remove
      <3>3. db'.pub = Run(p) /\ ("rec" \in bound'[p] => Named(p, "rec")')
        BY <2>0, <2>2, <3>1, <3>2 DEF Named, TraceInv, LanesInv
      <3> QED BY <2>0, <2>2, <3>1, <3>2, <3>3, HolderKeepsTraces DEF Step
    <2>3. CASE Step(p, "stop.tcp", "stop.endpoint") /\ Unlisten(p, "rec") /\ UNCHANGED db
      <3>1. pc[p] = "stop.tcp" /\ pc[p] \in Held /\ pc[p] \in HasEndpoint \ {"addrs"}
        BY <2>3 DEF Step, Held, HasEndpoint
      <3>2. /\ \A q \in Procs \ {p} : bound'[q] = bound[q]
            /\ "sock" \notin bound'[p] /\ "rec" \notin bound'[p]
        BY <1>b, <2>3, <3>1 DEF Unlisten, TraceInv, LanesInv, Listening
      <3>3. db'.pub = Run(p)
        BY <2>3, <3>1 DEF TraceInv
      <3> QED BY <2>0, <2>3, <3>1, <3>2, <3>3, HolderKeepsTraces DEF Step
    <2>4. CASE /\ \/ Step(p, "stop.endpoint", "stop.keys") \/ Step(p, "stop.keys", "stop.lease")
                  \/ Step(p, "stop.lease", "off")
               /\ UNCHANGED bound
      <3>1. PICK s \in {"stop.keys", "stop.lease", "off"} : Go(p, s) /\ pc[p] \in Held
        BY <2>4 DEF Step, Held, HasEndpoint
      <3>2. s \notin HasEndpoint \cup {"armed", "serving", "stop.pid"}
        BY <3>1 DEF HasEndpoint
      <3>3. "sock" \notin bound'[p] /\ "rec" \notin bound'[p]
        BY <2>4 DEF Step, TraceInv, LanesInv, Listening, OnTcp
      <3> QED BY <2>0, <2>4, <3>1, <3>2, <3>3, HolderKeepsTraces
    <2> QED BY <1>9, <2>1, <2>2, <2>3, <2>4 DEF shutdown
  <1>10. CASE Die(p)
    <2>1. pc'[p] = "off" /\ \A q \in Procs \ {p} : pc'[q] = pc[q]
      BY <1>10, GoFacts DEF Die, Gone
    <2>2. bound'[p] = {} /\ \A q \in Procs \ {p} : bound'[q] = bound[q]
      BY <1>10, <1>b DEF Die, Gone
    <2> QED BY <1>10, <2>1, <2>2, OutsidersKeepTraces, PlacesHeld DEF Die
  <1> QED BY <1>1, <1>2, <1>3, <1>4, <1>5, <1>6, <1>7, <1>8, <1>9, <1>10

LEMMA OthersKeepTraces ==
  ASSUME DirTypeOK, LeaseInv, TraceInv,
         \/ holder \/ StopLooks \/ StopWaits \/ StopRemoves
         \/ \E m \in {"pages"} : RemoveMod(m)
         \/ \E a \in Addrs : merge_peer_addrs(a)
  PROVE  TraceInv'
  <1> USE NamesAssumption DEF proc, lanes, hist
  <1>b. /\ db \in Dbs /\ DOMAIN file = {"sock", "rec", "pid"}
        /\ bound \in [Procs -> SUBSET {"sock", "rec"}]
    BY DEF DirTypeOK, DbType, FileType
  <1>1. CASE UNCHANGED <<pc, nth, file, bound, crossed>> /\ db'.pub = db.pub
    BY <1>1 DEF TraceInv, LanesInv, Named, Run
  <1>2. ASSUME NEW p \in Procs, Gone(p), UNCHANGED <<nth, db, file, crossed>> PROVE TraceInv'
    <2>1. pc'[p] = "off" /\ \A q \in Procs \ {p} : pc'[q] = pc[q]
      BY <1>2, GoFacts DEF Gone
    <2>2. bound'[p] = {} /\ \A q \in Procs \ {p} : bound'[q] = bound[q]
      BY <1>2, <1>b DEF Gone
    <2> QED BY <1>2, <2>1, <2>2, OutsidersKeepTraces, PlacesHeld
  <1>3. CASE StopLooks
    <2>0. UNCHANGED <<nth, db, file, crossed>>
      BY <1>3 DEF StopLooks
    <2>1. CASE stop.st = "off" /\ Alive(file["pid"]) /\ Signal(file["pid"][1])
      <3>1. file["pid"][1] \in Procs
        BY <2>1 DEF DirTypeOK, FileType, Alive, Runs
      <3>2. CASE pc[file["pid"][1]] = "serving" /\ Go(file["pid"][1], "stop.pid") /\ UNCHANGED bound
        <4>0. PICK p \in Procs : p = file["pid"][1]
          BY <3>1
        <4>1. /\ pc[p] \in Held /\ pc[p] \in HasEndpoint \ {"addrs"}
              /\ "stop.pid" \in Listening /\ "stop.pid" \in OnTcp
          BY <3>2, <4>0 DEF Held, HasEndpoint, Listening, OnTcp
        <4>2. /\ db'.pub = Run(p) /\ Named(p, "pid")'
              /\ "sock" \in bound'[p] => Named(p, "sock")'
              /\ "rec" \in bound'[p] => Named(p, "rec")'
          BY <2>0, <3>2, <4>0, <4>1 DEF TraceInv, LanesInv, Named, Run
        <4>3. Go(p, "stop.pid")
          BY <3>2, <4>0
        <4> QED BY <2>0, <3>2, <4>1, <4>2, <4>3, HolderKeepsTraces
      <3> QED BY <1>1, <1>2, <2>0, <2>1, <3>1, <3>2 DEF Signal
    <2> QED BY <1>1, <1>3, <2>0, <2>1 DEF StopLooks
  <1>4. CASE StopWaits
    <2>0. UNCHANGED <<nth, db, file, crossed>>
      BY <1>4 DEF StopWaits
    <2>1. CASE Alive(stop.run) /\ Gone(stop.run[1])
      <3>1. stop.run[1] \in Procs
        BY <2>1 DEF DirTypeOK, FileType, Alive, Runs
      <3> QED BY <1>2, <2>0, <2>1, <3>1
    <2> QED BY <1>1, <1>4, <2>0, <2>1 DEF StopWaits
  <1>5. CASE StopRemoves
    <2>1. PICK f \in {"sock", "rec", "pid"} :
            /\ Remove(f)
            /\ crossed' = IF Alive(file[f]) THEN crossed \cup {file[f]} ELSE crossed
      BY <1>5 DEF StopRemoves
    <2>2. UNCHANGED <<pc, nth, db, bound>>
      BY <1>5 DEF StopRemoves
    <2>3. ASSUME NEW p \in Procs, pc[p] \in Held, NEW g \in {"sock", "rec", "pid"}, Named(p, g)
          PROVE  Named(p, g)'
      <3>1. Run(p) = <<p, nth[p]>> /\ Run(p)' = Run(p) /\ Run(p) # None
        BY <2>2, RunType DEF Run, Runs
      <3>2. CASE g = f /\ file[g] = Run(p)
        <4>1. Alive(file[f])
          BY <2>3, <3>1, <3>2, PlacesHeld DEF Alive
        <4> QED BY <2>1, <3>1, <3>2, <4>1 DEF Named
      <3>3. CASE g # f \/ Run(p) \in crossed
        BY <1>b, <2>1, <2>3, <3>1, <3>3 DEF Named, Remove
      <3> QED BY <2>3, <3>2, <3>3 DEF Named
    <2>4. \A p \in Procs : Run(p)' = Run(p)
      BY <2>2 DEF Run
    <2> QED BY <2>2, <2>3, <2>4, PlacesHeld DEF TraceInv, LanesInv
  <1>6. CASE \E m \in {"pages"} : RemoveMod(m)
    BY <1>1, <1>6, <1>b DEF RemoveMod, Dbs
  <1>7. ASSUME NEW a \in Addrs, merge_peer_addrs(a) PROVE TraceInv'
    BY <1>1, <1>7, <1>b DEF merge_peer_addrs, Write, Dbs
  <1> QED BY <1>1, <1>3, <1>4, <1>5, <1>6, <1>7 DEF holder

-----------------------------------------------------------------------------
(* Probes of the lease. *)

LEMMA StillProbes ==
  ASSUME ProbeInv, UNCHANGED <<tries, shared, probes, refused>>
  PROVE  ProbeInv'
  BY DEF ProbeInv

LEMMA GoneKeepsProbes ==
  ASSUME DirTypeOK, ProbeInv, NEW p \in Procs, Gone(p), UNCHANGED <<shared, probes, refused>>
  PROVE  ProbeInv'
  <1>1. tries' = [tries EXCEPT ![p] = Fresh] /\ DOMAIN tries = Procs
    BY DEF Gone, DirTypeOK, ProcType
  <1>2. tries[p].n \in Nat /\ probes \in Nat
    BY BoundsAssumption DEF DirTypeOK, ProcType, HistType
  <1> QED BY <1>1, <1>2 DEF ProbeInv, Fresh

LEMMA NextKeepsProbes == ASSUME DirTypeOK, ProbeInv, DirNext PROVE ProbeInv'
  <1> USE DEF proc, hist, count, locks
  <1>0. probes \in Nat /\ shared \in BOOLEAN /\ DOMAIN tries = Procs
        /\ \A p \in Procs : tries[p].n \in 0..Retries
    BY DEF DirTypeOK, ProcType, HistType, LockType
  <1>1. ASSUME NEW p \in Procs,
           \/ InitLock(p) \/ ensure_dir_initialized(p) \/ init_locked(p) \/ serve_detached(p)
           \/ NoDatabase(p) \/ Migrate(p) \/ OpenLocal(p)
           \/ BindEndpoint(p) \/ serving_addrs(p) \/ publish_freshness(p)
           \/ owner_socket_bind(p) \/ owner_tcp_bind(p) \/ cmd_serve(p) \/ CtrlC(p) \/ shutdown(p)
        PROVE  UNCHANGED <<tries, shared, probes, refused>>
    BY <1>1 DEF InitLock, ensure_dir_initialized, init_locked, serve_detached, NoDatabase, Migrate,
                OpenLocal, BindEndpoint, serving_addrs, publish_freshness, owner_socket_bind,
                owner_tcp_bind, cmd_serve, CtrlC, shutdown, Start, Publish
  <1>2. ASSUME NEW p \in Procs, acquire(p) PROVE ProbeInv'
    <2> USE <1>2 DEF acquire, Attempt
    <2>1. CASE Granted(p)
      BY <1>0, <2>1 DEF Granted, ProbeInv, Fresh
    <2>2. CASE Refuse(p) /\ (lease # None \/ shared) /\ ~(tries[p].n < Retries)
      <3>1. tries'[p].n = 0 /\ \A q \in Procs \ {p} : tries'[q] = tries[q]
        BY <1>0, <2>2 DEF Refuse, Fresh
      <3>2. refused' # {} => probes > Retries
        BY <1>0, <2>2, BoundsAssumption DEF Refuse, ProbeInv
      <3>3. UNCHANGED <<shared, probes>>
        BY <2>2 DEF Refuse
      <3> QED BY <1>0, <3>1, <3>2, <3>3 DEF ProbeInv
    <2>3. CASE /\ lease # None \/ shared
               /\ tries' = [tries EXCEPT ![p] = [n |-> @.n + 1, held |-> @.held \/ lease # None]]
               /\ shared' = FALSE /\ UNCHANGED refused
      <3>1. /\ tries'[p].n = tries[p].n + 1 /\ \A q \in Procs \ {p} : tries'[q] = tries[q]
            /\ probes' = probes
        BY <1>0, <2>3
      <3>2. ~tries'[p].held => ~tries[p].held /\ shared
        BY <1>0, <2>3
      <3> QED BY <1>0, <2>3, <3>1, <3>2, BoundsAssumption DEF ProbeInv
    <2> QED BY <2>1, <2>2, <2>3
  <1>3. ASSUME NEW p \in Procs, Die(p) PROVE ProbeInv'
    BY <1>3, GoneKeepsProbes DEF Die
  <1>4. CASE holder
    BY <1>0, <1>4, BoundsAssumption DEF holder, ProbeInv
  <1>5. CASE StopLooks
    <2>1. CASE stop.st = "off" /\ Alive(file["pid"]) /\ Signal(file["pid"][1])
      <3>1. file["pid"][1] \in Procs
        BY <2>1, NamesAssumption DEF DirTypeOK, FileType, Alive, Runs
      <3> QED BY <1>5, <2>1, <3>1, StillProbes, GoneKeepsProbes DEF StopLooks, Signal
    <2> QED BY <1>5, <2>1, StillProbes DEF StopLooks
  <1>6. CASE StopWaits
    <2>1. CASE Alive(stop.run) /\ Gone(stop.run[1])
      <3>1. stop.run[1] \in Procs
        BY <2>1, NamesAssumption DEF DirTypeOK, FileType, Alive, Runs
      <3> QED BY <1>6, <2>1, <3>1, GoneKeepsProbes DEF StopWaits
    <2> QED BY <1>6, <2>1, StillProbes DEF StopWaits
  <1>7. CASE \/ StopRemoves \/ \E m \in {"pages"} : RemoveMod(m)
             \/ \E a \in Addrs : merge_peer_addrs(a)
    BY <1>7, StillProbes DEF StopRemoves, RemoveMod, merge_peer_addrs
  <1> QED BY <1>1, <1>2, <1>3, <1>4, <1>5, <1>6, <1>7, StillProbes DEF DirNext

-----------------------------------------------------------------------------
(* What the steps do to the version and the builtins. *)

SameDb == /\ db'.exists = db.exists /\ db'.ver = db.ver /\ db'.id = db.id /\ db'.mods = db.mods
          /\ db'.marked = db.marked /\ removed' = removed
Creates(p) == pc[p] = "create" /\ ~db.exists /\ db' = [NoDb EXCEPT !.exists = TRUE, !.ver = Build[p]]
Seeds(p) == pc[p] = "seed" /\ db.mods = {} /\ db' = [db EXCEPT !.mods = {"sql-sqlite", "pages"}]
Names(p) == pc[p] = "ident" /\ db' = [db EXCEPT !.id = knownId[p]]
Migrates(p) == pc[p] = "migrate" /\ db' = stamp_schema_version(ensure_node_tables(db, p), p)
Edits == /\ "pages" \in db.mods \cap db.marked /\ removed' = removed \cup {"pages"}
         /\ db' = [db EXCEPT !.mods = @ \ {"pages"}]

LEMMA DbSteps ==
  ASSUME DirTypeOK, [DirNext]_dirVars
  PROVE  \/ SameDb \/ Edits
         \/ \E p \in Procs : /\ Creates(p) \/ Seeds(p) \/ Names(p) \/ Migrates(p)
                             /\ removed' = removed
  <1> USE DEF hist, dirVars
  <1>b. db \in Dbs
    BY DEF DirTypeOK, DbType
  <1>1. ASSUME NEW p \in Procs, init_locked(p)
        PROVE  SameDb \/ ((Creates(p) \/ Seeds(p) \/ Names(p)) /\ removed' = removed)
    BY <1>1 DEF init_locked, SameDb, Creates, Seeds, Names
  <1>2. ASSUME NEW p \in Procs, Migrate(p) PROVE SameDb \/ (Migrates(p) /\ removed' = removed)
    BY <1>2 DEF Migrate, migrate, SameDb, Migrates
  <1>3. ASSUME NEW p \in Procs, serving_addrs(p) \/ publish_freshness(p) PROVE SameDb
    BY <1>3, <1>b DEF serving_addrs, publish_freshness, Publish, SameDb, Dbs
  <1>4. ASSUME NEW p \in Procs, shutdown(p) PROVE SameDb
    BY <1>4, <1>b DEF shutdown, SameDb, Dbs
  <1>5. ASSUME NEW p \in Procs,
           \/ InitLock(p) \/ ensure_dir_initialized(p) \/ serve_detached(p) \/ acquire(p)
           \/ NoDatabase(p) \/ OpenLocal(p) \/ BindEndpoint(p) \/ owner_socket_bind(p)
           \/ owner_tcp_bind(p) \/ cmd_serve(p) \/ CtrlC(p) \/ Die(p)
        PROVE  SameDb
    BY <1>5 DEF InitLock, ensure_dir_initialized, serve_detached, acquire, Attempt, NoDatabase,
                OpenLocal, BindEndpoint, owner_socket_bind, owner_tcp_bind, cmd_serve, CtrlC, Die,
                SameDb
  <1>6. CASE holder \/ StopLooks \/ StopWaits \/ StopRemoves
    BY <1>6 DEF holder, StopLooks, StopWaits, StopRemoves, SameDb
  <1>7. CASE \E m \in {"pages"} : RemoveMod(m)
    BY <1>7 DEF RemoveMod, Edits
  <1>8. ASSUME NEW a \in Addrs, merge_peer_addrs(a) PROVE SameDb
    BY <1>8, <1>b DEF merge_peer_addrs, Write, SameDb, Dbs
  <1>9. CASE UNCHANGED dirVars
    BY <1>9 DEF SameDb
  <1> QED BY <1>1, <1>2, <1>3, <1>4, <1>5, <1>6, <1>7, <1>8, <1>9 DEF DirNext

\* A migration adds the builtins that are not marked and raises the version.
LEMMA MigrateFacts ==
  ASSUME DirTypeOK, NEW p \in Procs, Migrates(p)
  PROVE  /\ db'.exists = db.exists /\ db'.id = db.id /\ db'.ver >= db.ver /\ db'.addrs = db.addrs
         /\ db.mods = {} => db'.mods = {} /\ db'.marked = db.marked
         /\ db.mods \subseteq db'.mods /\ db.marked \subseteq db'.marked
         /\ db'.mods \cap db.marked \subseteq db.mods
  <1>1. db \in Dbs /\ Build[p] \in Nat
    BY BuildAssumption DEF DirTypeOK, DbType
  <1> DEFINE d == ensure_node_tables(db, p)
  <1>2. /\ d \in Dbs /\ d.exists = db.exists /\ d.id = db.id /\ d.ver = db.ver /\ d.addrs = db.addrs
        /\ db.mods = {} => d.mods = {} /\ d.marked = db.marked
        /\ db.mods \subseteq d.mods /\ db.marked \subseteq d.marked
        /\ d.mods \cap db.marked \subseteq db.mods
    <2>1. CASE db.mods = {}
      BY <1>1, <2>1 DEF ensure_node_tables
    <2>2. CASE db.mods # {}
      BY <1>1, <2>2 DEF ensure_node_tables, NewMods, Dbs
    <2> QED BY <2>1, <2>2
  <1> HIDE DEF d
  <1>3. db' = stamp_schema_version(d, p)
    BY DEF Migrates, d
  <1>4. /\ db'.exists = d.exists /\ db'.id = d.id /\ db'.mods = d.mods /\ db'.marked = d.marked
        /\ db'.addrs = d.addrs /\ db'.ver >= d.ver
    BY <1>1, <1>2, <1>3 DEF stamp_schema_version, Dbs
  <1> QED BY <1>2, <1>4

LEMMA NextKeepsMods == ASSUME DirTypeOK, LeaseInv, ModsInv, [DirNext]_dirVars PROVE ModsInv'
  <1>b. db \in Dbs
    BY DEF DirTypeOK, DbType
  <1>1. CASE SameDb
    BY <1>1 DEF SameDb, ModsInv
  <1>2. CASE Edits
    BY <1>2, <1>b DEF Edits, ModsInv, Dbs
  <1>3. ASSUME NEW p \in Procs, Creates(p), removed' = removed PROVE ModsInv'
    <2>1. db = NoDb
      BY <1>3 DEF Creates, LeaseInv
    <2>2. db'.mods = {} /\ db'.marked = {} /\ removed = {}
      BY <1>3, <2>1 DEF Creates, NoDb, ModsInv
    <2> QED BY <1>3, <2>2 DEF ModsInv
  <1>4. ASSUME NEW p \in Procs, Seeds(p) \/ Names(p), removed' = removed PROVE ModsInv'
    BY <1>4, <1>b DEF Seeds, Names, ModsInv, Dbs
  <1>5. ASSUME NEW p \in Procs, Migrates(p), removed' = removed PROVE ModsInv'
    BY <1>5, MigrateFacts DEF ModsInv
  <1> QED BY <1>1, <1>2, <1>3, <1>4, <1>5, DbSteps

LEMMA VersionGrows == ASSUME DirTypeOK, LeaseInv, [DirNext]_dirVars PROVE db'.ver >= db.ver
  <1>b. db \in Dbs /\ db.ver \in Nat
    BY DEF DirTypeOK, DbType, Dbs
  <1>1. CASE SameDb
    BY <1>1, <1>b DEF SameDb
  <1>2. CASE Edits
    BY <1>2, <1>b DEF Edits, Dbs
  <1>3. ASSUME NEW p \in Procs, Creates(p) PROVE db'.ver >= db.ver
    <2>1. db.ver = 0
      BY <1>3 DEF Creates, LeaseInv, NoDb
    <2>2. db'.ver = Build[p]
      BY <1>3 DEF Creates, NoDb
    <2> QED BY <2>1, <2>2, BuildAssumption
  <1>4. ASSUME NEW p \in Procs, Seeds(p) \/ Names(p) PROVE db'.ver >= db.ver
    BY <1>4, <1>b DEF Seeds, Names, Dbs
  <1>5. ASSUME NEW p \in Procs, Migrates(p) PROVE db'.ver >= db.ver
    BY <1>5, MigrateFacts
  <1> QED BY <1>1, <1>2, <1>3, <1>4, <1>5, DbSteps

-----------------------------------------------------------------------------
(* Initialisation. *)

\* A step that makes nothing: who is at it stays where it is.
LEMMA QuietKeepsMake ==
  ASSUME MakeInv, UNCHANGED <<key, initlk>>,
         \A q \in Procs : \/ pc'[q] = pc[q] /\ knownId'[q] = knownId[q]
                          \/ /\ pc[q] \notin Making \cup {"init"} /\ pc'[q] \notin Making \cup {"init"}
                             /\ pc'[q] = "ready" => knownId'[q] = None,
         db'.exists = db.exists, db'.id = db.id, db.mods # {} => db'.mods # {},
         stop'.st = "wait" => stops' > 0,
         deaths' = 0 /\ stops' = 0 => deaths = 0 /\ stops = 0
  PROVE  MakeInv'
  <1>1. \A q \in Procs : pc'[q] \in Making \cup {"init"} => pc'[q] = pc[q] /\ knownId'[q] = knownId[q]
    OBVIOUS
  <1>2. \A q \in Procs : pc[q] \in Making => pc'[q] = pc[q]
    OBVIOUS
  <1>3. \A i : Whole(i) => Whole(i)'
    BY DEF Whole
  <1>a. Making \subseteq Making \cup {"init"} /\ "ready" \notin Making \cup {"init"}
    BY DEF Making
  <1>4. SUFFICES ASSUME deaths' = 0, stops' = 0
        PROVE  /\ (\A p \in Procs : pc'[p] \notin Making) => (key' = None /\ ~db'.exists) \/ Whole(key)'
               /\ \A p \in Procs :
                    /\ pc'[p] = "key" => key' = None /\ ~db'.exists
                    /\ pc'[p] = "write" => key' = "torn" /\ ~db'.exists
                    /\ pc'[p] \in {"create", "seed", "ident"} => key' = p /\ knownId'[p] = p
                    /\ pc'[p] = "ident" => db'.mods # {}
                    /\ pc'[p] = "ready" /\ knownId'[p] # None =>
                         Whole(knownId[p])' /\ \A q \in Procs : pc'[q] \notin Making
    BY <1>1 DEF MakeInv
  <1>5. (\A p \in Procs : pc'[p] \notin Making) => (key' = None /\ ~db'.exists) \/ Whole(key)'
    BY <1>2, <1>4 DEF MakeInv, Whole
  <1>6. ASSUME NEW p \in Procs
        PROVE  /\ pc'[p] = "key" => key' = None /\ ~db'.exists
               /\ pc'[p] = "write" => key' = "torn" /\ ~db'.exists
               /\ pc'[p] \in {"create", "seed", "ident"} => key' = p /\ knownId'[p] = p
               /\ pc'[p] = "ident" => db'.mods # {}
    BY <1>1, <1>4 DEF MakeInv, Making
  <1>7. ASSUME NEW p \in Procs, pc'[p] = "ready", knownId'[p] # None
        PROVE  Whole(knownId[p])' /\ \A q \in Procs : pc'[q] \notin Making
    <2>1. pc[p] = "ready" /\ knownId'[p] = knownId[p]
      BY <1>7
    <2>2. Whole(knownId[p]) /\ \A q \in Procs : pc[q] \notin Making
      BY <1>4, <1>7, <2>1 DEF MakeInv
    <2> QED BY <1>1, <1>a, <2>1, <2>2 DEF Whole
  <1> QED BY <1>5, <1>6, <1>7

\* After a death or a stop only the lock is claimed.
LEMMA GoneKeepsMake ==
  ASSUME DirTypeOK, MakeInv, NEW p \in Procs, Gone(p), deaths' # 0 \/ stops' # 0,
         stop'.st = "wait" => stops' > 0
  PROVE  MakeInv'
  <1>1. pc'[p] = "off" /\ \A q \in Procs \ {p} : pc'[q] = pc[q]
    BY GoFacts DEF Gone
  <1>2. \A q \in Procs : pc'[q] \in Making \cup {"init"} => initlk' = q
    BY <1>1 DEF Gone, MakeInv, Making
  <1> QED BY <1>2 DEF MakeInv

LEMMA InitLockKeepsMake == ASSUME DirTypeOK, MakeInv, NEW p \in Procs, InitLock(p) PROVE MakeInv'
  <1> USE NamesAssumption DEF InitLock, Start, count
  <1>1. pc'[p] = "init" /\ (\A q \in Procs \ {p} : pc'[q] = pc[q] /\ knownId'[q] = knownId[q])
        /\ pc[p] = "off"
    BY GoFacts DEF DirTypeOK, ProcType
  <1>2. \A q \in Procs : pc[q] \notin Making \cup {"init"} /\ pc'[q] \notin Making
    BY <1>1 DEF MakeInv, Making
  <1>3. \A i : Whole(i)' <=> Whole(i)
    BY DEF Whole
  <1>4. \A q \in Procs : pc'[q] \in Making \cup {"init"} => q = p
    BY <1>1, <1>2
  <1>5. Whole(key)' <=> Whole(key)
    BY DEF Whole
  <1>6. \A q \in Procs \ {p} : Whole(knownId[q])' <=> Whole(knownId[q])
    BY <1>1 DEF Whole
  <1> QED BY <1>1, <1>2, <1>4, <1>5, <1>6 DEF MakeInv, Making

\* Whoever has the init lock is alone in making.
LEMMA OneMaker ==
  ASSUME MakeInv, NEW p \in Procs, pc[p] \in Making \cup {"init"}
  PROVE  initlk = p /\ \A q \in Procs \ {p} : pc[q] \notin Making \cup {"init"}
  BY DEF MakeInv

\* It goes on making, or leaves the directory empty or whole.
LEMMA MakerKeeps ==
  ASSUME DirTypeOK, MakeInv, NEW p \in Procs, pc[p] \in Making \cup {"init"}, NEW s, Go(p, s),
         s \in Making => initlk' = initlk,
         s \in Making \cup {"off", "ready"}, UNCHANGED <<deaths, stops, stop>>,
         \A q \in Procs \ {p} : knownId'[q] = knownId[q],
         deaths = 0 /\ stops = 0 =>
           /\ s \notin Making => (key' = None /\ ~db'.exists) \/ Whole(key)'
           /\ s = "key" => key' = None /\ ~db'.exists
           /\ s = "write" => key' = "torn" /\ ~db'.exists
           /\ s \in {"create", "seed", "ident"} => key' = p /\ knownId'[p] = p
           /\ s = "ident" => db'.mods # {}
           /\ s = "ready" /\ knownId'[p] # None => Whole(knownId[p])'
           /\ \A q \in Procs \ {p} : pc[q] = "ready" /\ knownId[q] # None => Whole(knownId[q])' /\ s \notin Making
  PROVE  MakeInv'
  <1>1. pc'[p] = s /\ \A q \in Procs \ {p} : pc'[q] = pc[q]
    BY GoFacts
  <1>2. initlk = p /\ \A q \in Procs \ {p} : pc[q] \notin Making \cup {"init"}
    BY OneMaker
  <1>3. "init" \notin Making \cup {"off", "ready"} /\ {"off", "ready"} \cap Making = {}
    BY DEF Making
  <1>4. \A q \in Procs : pc'[q] \in Making \cup {"init"} => q = p /\ s \in Making
    BY <1>1, <1>2, <1>3
  <1>5. \A q \in Procs : pc'[q] \in Making \cup {"init"} => initlk' = q
    BY <1>2, <1>4
  <1>6. {"key", "write", "create", "seed", "ident"} = Making
    BY DEF Making
  <1>7. SUFFICES ASSUME deaths = 0, stops = 0
        PROVE  /\ (\A q \in Procs : pc'[q] \notin Making) => (key' = None /\ ~db'.exists) \/ Whole(key)'
               /\ \A q \in Procs :
                    /\ pc'[q] = "key" => key' = None /\ ~db'.exists
                    /\ pc'[q] = "write" => key' = "torn" /\ ~db'.exists
                    /\ pc'[q] \in {"create", "seed", "ident"} => key' = q /\ knownId'[q] = q
                    /\ pc'[q] = "ident" => db'.mods # {}
                    /\ pc'[q] = "ready" /\ knownId'[q] # None =>
                         Whole(knownId[q])' /\ \A r \in Procs : pc'[r] \notin Making
    BY <1>5 DEF MakeInv
  <1>8. (\A q \in Procs : pc'[q] \notin Making) => (key' = None /\ ~db'.exists) \/ Whole(key)'
    BY <1>1, <1>7
  <1>9. ASSUME NEW q \in Procs
        PROVE  /\ pc'[q] = "key" => key' = None /\ ~db'.exists
               /\ pc'[q] = "write" => key' = "torn" /\ ~db'.exists
               /\ pc'[q] \in {"create", "seed", "ident"} => key' = q /\ knownId'[q] = q
               /\ pc'[q] = "ident" => db'.mods # {}
    BY <1>1, <1>4, <1>6, <1>7
  <1>10. ASSUME NEW q \in Procs, pc'[q] = "ready", knownId'[q] # None
         PROVE  Whole(knownId[q])' /\ \A r \in Procs : pc'[r] \notin Making
    <2>1. CASE q = p
      BY <1>1, <1>3, <1>4, <1>7, <1>10, <2>1
    <2>2. CASE q # p
      BY <1>1, <1>3, <1>4, <1>7, <1>10, <2>2
    <2> QED BY <2>1, <2>2
  <1> QED BY <1>8, <1>9, <1>10

LEMMA EnsureKeepsMake ==
  ASSUME DirTypeOK, MakeInv, NEW p \in Procs, ensure_dir_initialized(p) PROVE MakeInv'
  <1> USE DEF ensure_dir_initialized, count
  <1>0. pc[p] \in Making \cup {"init"} /\ UNCHANGED <<deaths, stops, stop, key, db>>
    OBVIOUS
  <1>1. initlk = p /\ \A q \in Procs : pc[q] \notin Making
    BY OneMaker DEF Making
  <1>2. \A q \in Procs \ {p} : knownId'[q] = knownId[q]
    BY DEF DirTypeOK, ProcType
  <1>3. deaths = 0 /\ stops = 0 => (key = None /\ ~db.exists) \/ Whole(key)
    BY <1>1 DEF MakeInv
  <1>4. Whole(key)' <=> Whole(key)
    BY <1>0 DEF Whole
  <1>5. deaths = 0 /\ stops = 0 =>
          \A q \in Procs \ {p} : pc[q] = "ready" /\ knownId[q] # None => Whole(knownId[q])' /\ key # None
    BY <1>0, <1>2 DEF MakeInv, Whole
  <1>6. CASE key # None
    <2>1. PICK s \in {"off", "ready"} : Go(p, s) /\ (s = "ready" => load_secret # None)
      BY <1>6
    <2>2. s = "ready" => knownId'[p] = key
      BY <1>6, <2>1 DEF load_secret, DirTypeOK, ProcType
    <2>3. s \notin Making /\ s \notin {"key", "write", "create", "seed", "ident"}
      BY <2>1 DEF Making
    <2>4. s = "ready" => (Whole(knownId[p])' <=> Whole(key))
      BY <1>0, <2>2 DEF Whole
    <2> QED BY <1>0, <1>2, <1>3, <1>4, <1>5, <1>6, <2>1, <2>3, <2>4, MakerKeeps
  <1>7. CASE key = None /\ db.exists
    <2>1. Go(p, "off") /\ UNCHANGED knownId /\ "off" \notin Making
      BY <1>7 DEF Making
    <2> QED BY <1>0, <1>2, <1>3, <1>4, <1>5, <1>7, <2>1, MakerKeeps
  <1>8. CASE key = None /\ ~db.exists
    <2>1. Go(p, "key") /\ UNCHANGED <<knownId, initlk>> /\ "key" \in Making
      BY <1>8 DEF Making
    <2> QED BY <1>0, <1>2, <1>5, <1>8, <2>1, MakerKeeps
  <1> QED BY <1>6, <1>7, <1>8

LEMMA InitKeepsMake ==
  ASSUME DirTypeOK, LeaseInv, MakeInv, NEW p \in Procs, init_locked(p) PROVE MakeInv'
  <1> USE NamesAssumption DEF count
  <1>0. pc[p] \in Making /\ UNCHANGED <<deaths, stops, stop>>
    BY DEF init_locked, Making
  <1>a. pc[p] \in Making \cup {"init"}
    BY <1>0
  <1>b. db \in Dbs
    BY DEF DirTypeOK, DbType
  <1>1. \A q \in Procs \ {p} : knownId'[q] = knownId[q]
    BY DEF init_locked, DirTypeOK, ProcType
  <1>2. deaths = 0 /\ stops = 0 => \A q \in Procs : ~(pc[q] = "ready" /\ knownId[q] # None)
    BY <1>0 DEF MakeInv
  <1>3. CASE pc[p] = "key"
    <2>1. CASE key = None
      <3>1. Go(p, "write") /\ key' = "torn" /\ UNCHANGED <<initlk, db>> /\ "write" \in Making
        BY <1>3, <2>1 DEF init_locked, Making
      <3>2. deaths = 0 /\ stops = 0 => ~db.exists
        BY <1>3 DEF MakeInv
      <3> QED BY <1>0, <1>a, <1>1, <1>2, <3>1, <3>2, MakerKeeps
    <2>2. CASE key # None
      <3>1. Go(p, "off") /\ UNCHANGED <<key, db>> /\ "off" \notin Making
        BY <1>3, <2>2 DEF init_locked, Making
      <3>2. ~(deaths = 0 /\ stops = 0)
        BY <1>3, <2>2 DEF MakeInv
      <3> QED BY <1>0, <1>a, <1>1, <3>1, <3>2, MakerKeeps
    <2> QED BY <2>1, <2>2
  <1>4. CASE pc[p] = "write"
    <2>1. /\ Go(p, "create") /\ key' = p /\ knownId'[p] = p /\ UNCHANGED <<initlk, db>>
          /\ "create" \in Making
      BY <1>4 DEF init_locked, Making, DirTypeOK, ProcType
    <2> QED BY <1>0, <1>a, <1>1, <1>2, <2>1, MakerKeeps
  <1>5. CASE pc[p] = "create"
    <2>1. Go(p, "seed") /\ UNCHANGED <<initlk, key, knownId>> /\ "seed" \in Making
      BY <1>5 DEF init_locked, Making
    <2>2. deaths = 0 /\ stops = 0 => key = p /\ knownId[p] = p
      BY <1>5 DEF MakeInv
    <2> QED BY <1>0, <1>a, <1>1, <1>2, <2>1, <2>2, MakerKeeps
  <1>6. CASE pc[p] = "seed"
    <2>1. Go(p, "ident") /\ UNCHANGED <<initlk, key, knownId>> /\ "ident" \in Making
      BY <1>6 DEF init_locked, Making
    <2>2. deaths = 0 /\ stops = 0 => key = p /\ knownId[p] = p
      BY <1>6 DEF MakeInv
    <2>3. db'.mods # {}
      BY <1>6, <1>b DEF init_locked, Dbs
    <2> QED BY <1>0, <1>a, <1>1, <1>2, <2>1, <2>2, <2>3, MakerKeeps
  <1>7. CASE pc[p] = "ident"
    <2>1. Go(p, "ready") /\ UNCHANGED <<key, knownId>> /\ "ready" \notin Making
          /\ db' = [db EXCEPT !.id = knownId[p]]
      BY <1>7 DEF init_locked, Making
    <2>2. deaths = 0 /\ stops = 0 => key = p /\ knownId[p] = p /\ db.mods # {}
      BY <1>7 DEF MakeInv
    <2>3. db.exists /\ p \notin {None, "torn"}
      BY <1>7 DEF LeaseInv
    <2>4. db'.exists /\ db'.id = knownId[p] /\ db'.mods = db.mods
      BY <1>b, <2>1, <2>3 DEF Dbs
    <2>5. deaths = 0 /\ stops = 0 => Whole(key)' /\ Whole(knownId[p])'
      BY <2>1, <2>2, <2>3, <2>4 DEF Whole
    <2> QED BY <1>0, <1>a, <1>1, <1>2, <2>1, <2>5, MakerKeeps
  <1> QED BY <1>0, <1>3, <1>4, <1>5, <1>6, <1>7 DEF Making

LEMMA ProcsKeepMake ==
  ASSUME DirTypeOK, LeaseInv, ModsInv, MakeInv, NEW p \in Procs,
       \/ serve_detached(p) \/ acquire(p) \/ NoDatabase(p) \/ Migrate(p) \/ OpenLocal(p)
       \/ BindEndpoint(p) \/ serving_addrs(p) \/ publish_freshness(p)
       \/ owner_socket_bind(p) \/ owner_tcp_bind(p) \/ cmd_serve(p) \/ CtrlC(p)
       \/ shutdown(p)
  PROVE  MakeInv'
  <1> USE DEF count, locks
  <1>1. /\ UNCHANGED <<key, initlk, stop, stops, deaths>>
        /\ \A q \in Procs \ {p} : knownId'[q] = knownId[q]
    BY DEF serve_detached, acquire, Attempt, NoDatabase, Migrate, OpenLocal, BindEndpoint,
           serving_addrs, publish_freshness, Publish, owner_socket_bind, owner_tcp_bind, cmd_serve,
           CtrlC, shutdown, Start, DirTypeOK, ProcType
  <1>2. \/ pc' = pc /\ knownId' = knownId
        \/ /\ pc[p] \notin Making \cup {"init"}
           /\ \E s : /\ Go(p, s) /\ s \notin Making \cup {"init"}
                     /\ s = "ready" => knownId'[p] = None
    <2>1. CASE serve_detached(p) \/ OpenLocal(p)
      BY <2>1 DEF serve_detached, OpenLocal, Start, Making, DirTypeOK, ProcType
    <2>2. CASE acquire(p)
      BY <2>2 DEF acquire, Attempt, Granted, Refuse, Making
    <2>3. CASE Migrate(p) \/ NoDatabase(p)
      BY <2>3 DEF Migrate, migrate, Opened, NoDatabase, Making
    <2>4. CASE \/ BindEndpoint(p) \/ serving_addrs(p) \/ publish_freshness(p) \/ owner_socket_bind(p)
               \/ owner_tcp_bind(p) \/ cmd_serve(p) \/ CtrlC(p)
      BY <2>4 DEF BindEndpoint, serving_addrs, publish_freshness, owner_socket_bind, owner_tcp_bind,
                  cmd_serve, CtrlC, Step, Making
    <2>5. CASE shutdown(p)
      BY <2>5 DEF shutdown, Step, Making
    <2> QED BY <2>1, <2>2, <2>3, <2>4, <2>5
  <1>3. \A q \in Procs : \/ pc'[q] = pc[q] /\ knownId'[q] = knownId[q]
                         \/ /\ pc[q] \notin Making \cup {"init"} /\ pc'[q] \notin Making \cup {"init"}
                            /\ pc'[q] = "ready" => knownId'[q] = None
    BY <1>1, <1>2, GoFacts
  <1>4. db'.exists = db.exists /\ db'.id = db.id /\ (db.mods # {} => db'.mods # {})
    <2>1. CASE Migrate(p)
      <3>1. UNCHANGED db \/ Migrates(p)
        BY <2>1 DEF Migrate, migrate, Migrates
      <3> QED BY <3>1, MigrateFacts
    <2>2. db \in Dbs
      BY DEF DirTypeOK, DbType
    <2> QED BY <2>1, <2>2
          DEF serve_detached, acquire, Attempt, NoDatabase, OpenLocal, BindEndpoint, serving_addrs,
              publish_freshness, Publish, owner_socket_bind, owner_tcp_bind, cmd_serve, CtrlC,
              shutdown, Dbs
  <1>5. stop'.st = "wait" => stops' > 0
    BY <1>1 DEF MakeInv
  <1> QED BY <1>1, <1>3, <1>4, <1>5, QuietKeepsMake

LEMMA OthersKeepMake ==
  ASSUME DirTypeOK, LeaseInv, ModsInv, MakeInv,
         \/ holder \/ StopLooks \/ StopWaits \/ StopRemoves
         \/ \E m \in {"pages"} : RemoveMod(m)
         \/ \E a \in Addrs : merge_peer_addrs(a)
  PROVE  MakeInv'
  <1> USE NamesAssumption DEF proc, locks, count
  <1>0. stops \in Nat /\ deaths \in Nat /\ db \in Dbs /\ DOMAIN stop = {"st", "run"}
    BY DEF DirTypeOK, HistType, DbType, FileType
  <1>1. CASE holder
    BY <1>1, QuietKeepsMake DEF holder, MakeInv
  <1>2. CASE StopRemoves
    <2>1. stop'.st # "wait"
      BY <1>0, <1>2 DEF StopRemoves
    <2> QED BY <1>2, <2>1, QuietKeepsMake DEF StopRemoves
  <1>3. CASE \E m \in {"pages"} : RemoveMod(m)
    <2>1. db'.exists = db.exists /\ db'.id = db.id /\ db'.mods # {}
      BY <1>0, <1>3 DEF RemoveMod, ModsInv, Dbs
    <2> QED BY <1>3, <2>1, QuietKeepsMake DEF RemoveMod, MakeInv
  <1>4. ASSUME NEW a \in Addrs, merge_peer_addrs(a) PROVE MakeInv'
    <2>1. db'.exists = db.exists /\ db'.id = db.id /\ db'.mods = db.mods
      BY <1>0, <1>4 DEF merge_peer_addrs, Write, Dbs
    <2> QED BY <1>4, <2>1, QuietKeepsMake DEF merge_peer_addrs, MakeInv
  <1>5. CASE StopLooks
    <2>1. CASE stop.st = "off" /\ stops' = stops + 1
      <3>1. stops' > 0 /\ stops' # 0
        BY <1>0, <2>1
      <3>2. CASE UNCHANGED <<pc, initlk>>
        BY <3>1, <3>2 DEF MakeInv
      <3>3. CASE Alive(file["pid"]) /\ Signal(file["pid"][1])
        <4>1. file["pid"][1] \in Procs
          BY <3>3 DEF DirTypeOK, FileType, Alive, Runs
        <4>2. CASE Gone(file["pid"][1])
          BY <3>1, <4>1, <4>2, GoneKeepsMake
        <4>3. CASE pc[file["pid"][1]] = "serving" /\ Go(file["pid"][1], "stop.pid") /\ UNCHANGED initlk
          <5>1. \A q \in Procs : pc'[q] \in Making \cup {"init"} => initlk' = q
            BY <4>1, <4>3, GoFacts DEF MakeInv, Making
          <5> QED BY <3>1, <5>1 DEF MakeInv
        <4> QED BY <3>2, <3>3, <4>2, <4>3 DEF Signal
      <3> QED BY <1>5, <2>1, <3>2, <3>3 DEF StopLooks
    <2>2. CASE stop.st # "off"
      <3>1. UNCHANGED <<pc, knownId, key, db, initlk, stops, deaths>> /\ stop'.st # "wait"
        BY <1>0, <1>5, <2>2 DEF StopLooks, StopAt
      <3> QED BY <3>1, QuietKeepsMake
    <2> QED BY <1>5, <2>1, <2>2 DEF StopLooks
  <1>6. CASE StopWaits
    <2>1. stops # 0 /\ UNCHANGED <<stops, deaths, knownId, key, db>> /\ stop'.st # "wait"
      BY <1>0, <1>6 DEF StopWaits, StopAt, MakeInv
    <2>2. CASE Alive(stop.run) /\ Gone(stop.run[1])
      <3>1. stop.run[1] \in Procs
        BY <2>2 DEF DirTypeOK, FileType, Alive, Runs
      <3> QED BY <2>1, <2>2, <3>1, GoneKeepsMake
    <2> QED BY <1>6, <2>1, <2>2, QuietKeepsMake DEF StopWaits
  <1> QED BY <1>1, <1>2, <1>3, <1>4, <1>5, <1>6

-----------------------------------------------------------------------------
(* Dial hints. *)

\* Newer and FreshestAddrs, of a list of hints and a history of reports.
Later(s, x, y) == \E i \in DOMAIN s : s[i] = x /\ \A j \in 1..i : s[j] # y
Hints(list, s) ==
  /\ Len(list) <= MAX_ADDRS
  /\ \A i \in DOMAIN list : \E j \in DOMAIN s : s[j] = list[i]
  /\ \A i, j \in DOMAIN list : i < j => Later(s, list[i], list[j])
  /\ \A k \in DOMAIN s :
       \/ \E i \in DOMAIN list : list[i] = s[k]
       \/ Len(list) = MAX_ADDRS /\ \A i \in DOMAIN list : Later(s, list[i], s[k])

LEMMA HintsAre == FreshestAddrs <=> Hints(db.addrs, merges)
  BY DEF FreshestAddrs, Newer, Hints, Later

\* A report of a is later than all of another address, and changes nothing between two others.
LEMMA LaterGrows ==
  ASSUME NEW s \in Seq(Addrs), NEW a \in Addrs
  PROVE  /\ \A y : y # a => Later(<<a>> \o s, a, y)
         /\ \A x, y : y # a /\ Later(s, x, y) => Later(<<a>> \o s, x, y)
  <1> DEFINE t == <<a>> \o s
  <1>1. /\ t \in Seq(Addrs) /\ Len(t) = Len(s) + 1 /\ t[1] = a
        /\ \A i \in 1..Len(s) : t[i + 1] = s[i]
    OBVIOUS
  <1>2. DOMAIN t = 1..Len(t) /\ DOMAIN s = 1..Len(s) /\ Len(s) \in Nat
    BY <1>1
  <1> HIDE DEF t
  <1>3. ASSUME NEW y, y # a PROVE Later(t, a, y)
    <2>1. 1 \in DOMAIN t /\ \A j \in 1..1 : t[j] # y
      BY <1>1, <1>2, <1>3
    <2> QED BY <1>1, <2>1 DEF Later
  <1>4. ASSUME NEW x, NEW y, y # a, Later(s, x, y) PROVE Later(t, x, y)
    <2>1. PICK i \in DOMAIN s : s[i] = x /\ \A j \in 1..i : s[j] # y
      BY <1>4 DEF Later
    <2>2. i + 1 \in DOMAIN t /\ t[i + 1] = x
      BY <1>1, <1>2, <2>1
    <2>3. ASSUME NEW j \in 1..(i + 1) PROVE t[j] # y
      <3>1. CASE j = 1
        BY <1>1, <1>4, <3>1
      <3>2. CASE j # 1
        <4>1. j - 1 \in 1..i /\ j - 1 \in 1..Len(s) /\ (j - 1) + 1 = j
          BY <1>2, <2>1, <3>2
        <4>2. t[(j - 1) + 1] = s[j - 1]
          BY <1>1, <4>1
        <4> QED BY <2>1, <4>1, <4>2
      <3> QED BY <3>1, <3>2
    <2> QED BY <2>2, <2>3 DEF Later
  <1> QED BY <1>3, <1>4 DEF t

\* What a merge makes of a list of length len that has each address once: a comes first, the
\* others keep their order, and only the last of a full list is dropped.
IsMerge(a, list, len, m, n, max) ==
  /\ n > 0 /\ n <= max /\ (len = max => n = max) /\ m[1] = a
  /\ \A i \in 2..n : m[i] # a /\ \E k \in DOMAIN list : m[i] = list[k]
  /\ \A i, j \in 2..n : i < j =>
       \E k, l \in DOMAIN list : k < l /\ m[i] = list[k] /\ m[j] = list[l]
  /\ \A k \in DOMAIN list :
       \/ \E i \in DOMAIN m : m[i] = list[k]
       \/ n = max /\ \A i \in 2..n : \E l \in DOMAIN list : l < k /\ m[i] = list[l]

LEMMA MovedToFront ==
  ASSUME NEW a, NEW list, NEW len \in Nat, NEW max \in Nat, len <= max,
         NEW at \in 1..len, list[at] = a, NEW m, m[1] = a, DOMAIN list = 1..len,
         DOMAIN m = 1..len, \A i \in 1..len : i # at => list[i] # a,
         \A i \in 2..at : m[i] = list[i - 1], \A i \in (at + 1)..len : m[i] = list[i]
  PROVE  IsMerge(a, list, len, m, len, max)
  <1>1. ASSUME NEW i \in 2..len PROVE m[i] # a /\ \E k \in DOMAIN list : m[i] = list[k]
    <2>1. CASE i <= at
      <3>1. i \in 2..at /\ i - 1 \in 1..len /\ i - 1 # at
        BY <2>1
      <3> QED BY <3>1
    <2>2. CASE i > at
      <3>1. i \in (at + 1)..len /\ i \in 1..len /\ i # at
        BY <2>2
      <3> QED BY <3>1
    <2> QED BY <2>1, <2>2
  <1>2. ASSUME NEW i \in 2..len, NEW j \in 2..len, i < j
        PROVE  \E k, l \in DOMAIN list : k < l /\ m[i] = list[k] /\ m[j] = list[l]
    <2>1. CASE j <= at
      <3>1. i \in 2..at /\ j \in 2..at /\ i - 1 < j - 1 /\ i - 1 \in 1..len /\ j - 1 \in 1..len
        BY <1>2, <2>1
      <3>2. m[i] = list[i - 1] /\ m[j] = list[j - 1]
        BY <3>1
      <3> QED BY <3>1, <3>2
    <2>2. CASE i <= at /\ j > at
      <3>1. i \in 2..at /\ j \in (at + 1)..len /\ i - 1 < j /\ i - 1 \in 1..len /\ j \in 1..len
        BY <1>2, <2>2
      <3>2. m[i] = list[i - 1] /\ m[j] = list[j]
        BY <3>1
      <3> QED BY <3>1, <3>2
    <2>3. CASE i > at
      <3>1. i \in (at + 1)..len /\ j \in (at + 1)..len /\ i \in 1..len /\ j \in 1..len
        BY <1>2, <2>3
      <3>2. m[i] = list[i] /\ m[j] = list[j]
        BY <3>1
      <3> QED BY <1>2, <3>1, <3>2
    <2>4. j <= at \/ (i <= at /\ j > at) \/ i > at
      OBVIOUS
    <2> QED BY <2>1, <2>2, <2>3, <2>4
  <1>3. ASSUME NEW k \in DOMAIN list PROVE \E i \in DOMAIN m : m[i] = list[k]
    <2>1. CASE k = at
      BY <2>1
    <2>2. CASE k < at
      <3>1. k + 1 \in 2..at /\ k + 1 \in 1..len /\ (k + 1) - 1 = k
        BY <2>2
      <3>2. m[k + 1] = list[(k + 1) - 1]
        BY <3>1
      <3> QED BY <3>1, <3>2
    <2>3. CASE k > at
      BY <2>3
    <2> QED BY <2>1, <2>2, <2>3
  <1>4. len > 0 /\ len <= max
    OBVIOUS
  <1> QED BY <1>1, <1>2, <1>3, <1>4, Zenon DEF IsMerge

LEMMA PutInFront ==
  ASSUME NEW a, NEW list, NEW len \in Nat, NEW max \in Nat, \A i \in 1..len : list[i] # a,
         NEW n \in Nat, n > 0, n <= len + 1, n >= len, n <= max, n = len => n = max,
         NEW m, m[1] = a, DOMAIN list = 1..len,
         DOMAIN m = 1..n, \A i \in 2..n : m[i] = list[i - 1]
  PROVE  IsMerge(a, list, len, m, n, max)
  <1>1. \A i \in 2..n : i - 1 \in 1..len
    OBVIOUS
  <1>2. ASSUME NEW i \in 2..n, NEW j \in 2..n, i < j
        PROVE  \E k, l \in DOMAIN list : k < l /\ m[i] = list[k] /\ m[j] = list[l]
    <2>1. i - 1 < j - 1 /\ m[i] = list[i - 1] /\ m[j] = list[j - 1]
      BY <1>2
    <2> QED BY <1>1, <2>1
  <1>3. ASSUME NEW k \in DOMAIN list
        PROVE  \/ \E i \in DOMAIN m : m[i] = list[k]
               \/ n = max /\ \A i \in 2..n : \E l \in DOMAIN list : l < k /\ m[i] = list[l]
    <2>1. CASE k + 1 <= n
      <3>0. k \in Nat /\ k >= 1
        OBVIOUS
      <3>1. k + 1 \in 2..n /\ k + 1 \in 1..n /\ (k + 1) - 1 = k
        <4>1. k + 1 \in Nat /\ k + 1 >= 2 /\ k + 1 <= n /\ (k + 1) - 1 = k
          BY <2>1, <3>0
        <4> QED BY <4>1
      <3>2. m[k + 1] = list[(k + 1) - 1]
        BY <3>1
      <3> QED BY <3>1, <3>2
    <2>2. CASE k + 1 > n
      <3>1. n = max /\ \A i \in 2..n : i - 1 < k
        BY <2>2
      <3> QED BY <1>1, <3>1
    <2> QED BY <2>1, <2>2
  <1>4. \A i \in 2..n : m[i] # a /\ \E k \in DOMAIN list : m[i] = list[k]
    BY <1>1
  <1>5. len = max => n = max
    OBVIOUS
  <1> QED BY <1>2, <1>3, <1>4, <1>5, Zenon DEF IsMerge

LEMMA MergedFacts ==
  ASSUME NEW a \in Addrs, NEW list \in Seq(Addrs), Len(list) <= MAX_ADDRS,
         \A i, j \in DOMAIN list : i < j => list[i] # list[j]
  PROVE  IsMerge(a, list, Len(list), Merged(a, list), Len(Merged(a, list)), MAX_ADDRS)
  <1>1. PICK len \in Nat : len = Len(list) /\ DOMAIN list = 1..len
    OBVIOUS
  <1>2. PICK max \in Nat : max = MAX_ADDRS /\ max > 0 /\ len <= max
    BY <1>1, BoundsAssumption
  <1>3. PICK m : m = Merged(a, list)
    OBVIOUS
  <1>4. m \in Seq(Addrs)
    BY <1>3, MergedType
  <1>5. CASE a \in Range(list)
    <2>1. PICK at : at = (CHOOSE k \in DOMAIN list : list[k] = a)
      OBVIOUS
    <2>2. at \in 1..len /\ list[at] = a
      BY <1>1, <1>5, <2>1 DEF Range
    <2>3. (IF len < max THEN len ELSE max) = len
      BY <1>2
    <2>4. m = [i \in 1..len |-> IF i = 1 THEN a ELSE IF i <= at THEN list[i - 1] ELSE list[i]]
      BY <1>1, <1>2, <1>3, <1>5, <2>1, <2>3, Zenon DEF Merged
    <2>5. DOMAIN m = 1..len
      BY <2>4, Zenon
    <2>6. Len(m) = len
      BY <1>4, <2>5
    <2>7. m[1] = a
      BY <2>2, <2>4
    <2>8. \A i \in 2..at : m[i] = list[i - 1]
      BY <2>2, <2>4
    <2>9. \A i \in (at + 1)..len : m[i] = list[i]
      BY <2>2, <2>4
    <2>10. \A i \in 1..len : i # at => list[i] # a
      BY <1>1, <2>2
    <2>11. IsMerge(a, list, len, m, len, max)
      BY <1>1, <1>2, <2>2, <2>5, <2>7, <2>8, <2>9, <2>10, MovedToFront, Zenon
    <2> QED BY <1>1, <1>2, <1>3, <2>6, <2>11, Zenon
  <1>6. CASE a \notin Range(list)
    <2>1. PICK n : n = IF len + 1 < max THEN len + 1 ELSE max
      OBVIOUS
    <2>2. n \in Nat /\ n > 0 /\ n <= len + 1 /\ n >= len /\ n <= max /\ (n = len => n = max)
      BY <1>2, <2>1
    <2>3. m = [i \in 1..n |-> IF i = 1 THEN a ELSE IF i <= len + 1 THEN list[i - 1] ELSE list[i]]
      BY <1>1, <1>2, <1>3, <1>6, <2>1, Zenon DEF Merged
    <2>4. DOMAIN m = 1..n
      BY <2>3, Zenon
    <2>5. Len(m) = n
      BY <1>4, <2>2, <2>4
    <2>6. \A i \in 1..len : list[i] # a
      BY <1>1, <1>6 DEF Range
    <2>7. m[1] = a
      BY <2>2, <2>3
    <2>8. \A i \in 2..n : m[i] = list[i - 1]
      BY <2>2, <2>3
    <2>9. IsMerge(a, list, len, m, n, max)
      BY <1>1, <2>2, <2>4, <2>6, <2>7, <2>8, PutInFront, Zenon
    <2> QED BY <1>1, <1>2, <1>3, <2>5, <2>9, Zenon
  <1> QED BY <1>5, <1>6

LEMMA MergeKeepsHints ==
  ASSUME NEW a \in Addrs, NEW list \in Seq(Addrs), NEW s \in Seq(Addrs), Hints(list, s)
  PROVE  Hints(Merged(a, list), <<a>> \o s)
  <1> DEFINE m == Merged(a, list)
             t == <<a>> \o s
  <1>1. \A i, j \in DOMAIN list : i < j => list[i] # list[j]
    <2> SUFFICES ASSUME NEW i \in DOMAIN list, NEW j \in DOMAIN list, i < j, list[i] = list[j]
                 PROVE  FALSE
      OBVIOUS
    <2>1. PICK k \in DOMAIN s : s[k] = list[i] /\ \A l \in 1..k : s[l] # list[j]
      BY DEF Hints, Later
    <2>2. k \in 1..k
      OBVIOUS
    <2> QED BY <2>1, <2>2
  <1>2. Len(list) <= MAX_ADDRS
    BY DEF Hints
  <1>m. IsMerge(a, list, Len(list), m, Len(m), MAX_ADDRS)
    BY <1>1, <1>2, MergedFacts
  <1>n. Len(m) \in Nat /\ DOMAIN m = 1..Len(m) /\ DOMAIN list = 1..Len(list)
    BY MergedType
  <1> HIDE DEF m
  <1>3. /\ Len(m) \in Nat /\ DOMAIN m = 1..Len(m) /\ Len(m) > 0 /\ Len(m) <= MAX_ADDRS /\ m[1] = a
        /\ Len(list) = MAX_ADDRS => Len(m) = MAX_ADDRS
        /\ \A i \in 2..Len(m) : m[i] # a /\ \E k \in DOMAIN list : m[i] = list[k]
        /\ \A i, j \in 2..Len(m) : i < j =>
             \E k, l \in DOMAIN list : k < l /\ m[i] = list[k] /\ m[j] = list[l]
        /\ \A k \in DOMAIN list :
             \/ \E i \in DOMAIN m : m[i] = list[k]
             \/ /\ Len(m) = MAX_ADDRS
                /\ \A i \in 2..Len(m) : \E l \in DOMAIN list : l < k /\ m[i] = list[l]
    BY <1>m, <1>n DEF IsMerge
  <1>4. /\ DOMAIN t = 1..(Len(s) + 1) /\ Len(s) \in Nat /\ DOMAIN s = 1..Len(s) /\ t[1] = a
        /\ \A i \in 1..Len(s) : t[i + 1] = s[i]
    OBVIOUS
  <1>5. /\ \A y : y # a => Later(t, a, y)
        /\ \A x, y : y # a /\ Later(s, x, y) => Later(t, x, y)
    BY LaterGrows
  <1> HIDE DEF t
  <1>d. 1 \in DOMAIN m /\ DOMAIN m \ {1} = 2..Len(m)
    BY <1>3
  <1>6. \A i \in DOMAIN m : \E j \in DOMAIN t : t[j] = m[i]
    <2>1. \A j \in DOMAIN s : j + 1 \in DOMAIN t /\ t[j + 1] = s[j]
      BY <1>4
    <2>2. 1 \in DOMAIN t
      BY <1>4
    <2>3. ASSUME NEW i \in DOMAIN m \ {1} PROVE \E j \in DOMAIN t : t[j] = m[i]
      <3>1. PICK k \in DOMAIN list : m[i] = list[k]
        BY <1>3, <1>d
      <3>2. PICK j \in DOMAIN s : s[j] = list[k]
        BY DEF Hints
      <3> QED BY <2>1, <3>1, <3>2
    <2> QED BY <1>3, <1>4, <2>2, <2>3
  <1>7. ASSUME NEW i \in DOMAIN m, NEW j \in DOMAIN m, i < j PROVE Later(t, m[i], m[j])
    <2>1. j # 1
      BY <1>3, <1>7
    <2>2. m[j] # a
      BY <1>3, <1>d, <2>1
    <2>3. CASE i = 1
      BY <1>3, <1>5, <2>2, <2>3
    <2>4. CASE i # 1
      <3>1. PICK k \in DOMAIN list, l \in DOMAIN list : k < l /\ m[i] = list[k] /\ m[j] = list[l]
        BY <1>3, <1>7, <1>d, <2>1, <2>4
      <3>2. Later(s, m[i], m[j])
        BY <3>1 DEF Hints
      <3> QED BY <1>5, <2>2, <3>2
    <2> QED BY <2>3, <2>4
  <1>8. ASSUME NEW k \in DOMAIN t
        PROVE  \/ \E i \in DOMAIN m : m[i] = t[k]
               \/ Len(m) = MAX_ADDRS /\ \A i \in DOMAIN m : Later(t, m[i], t[k])
    <2>1. CASE t[k] = a
      BY <1>3, <1>d, <2>1
    <2>2. CASE t[k] # a
      <3>1. PICK h \in DOMAIN s : t[k] = s[h]
        <4>1. k # 1 /\ k - 1 \in 1..Len(s) /\ (k - 1) + 1 = k
          BY <1>4, <2>2
        <4> QED BY <1>4, <4>1
      <3>2. CASE \E i \in DOMAIN list : list[i] = s[h]
        <4>1. PICK i \in DOMAIN list : list[i] = s[h]
          BY <3>2
        <4>2. CASE /\ Len(m) = MAX_ADDRS
                   /\ \A j \in 2..Len(m) : \E l \in DOMAIN list : l < i /\ m[j] = list[l]
          <5>1. ASSUME NEW j \in DOMAIN m PROVE Later(t, m[j], t[k])
            <6>1. CASE j = 1
              BY <1>3, <1>5, <2>2, <6>1
            <6>2. CASE j # 1
              <7>1. PICK l \in DOMAIN list : l < i /\ m[j] = list[l]
                BY <1>d, <4>2, <6>2
              <7>2. Later(s, m[j], t[k])
                BY <3>1, <4>1, <7>1 DEF Hints
              <7> QED BY <1>5, <2>2, <7>2
            <6> QED BY <6>1, <6>2
          <5> QED BY <4>2, <5>1
        <4> QED BY <1>3, <3>1, <4>1, <4>2
      <3>3. CASE Len(list) = MAX_ADDRS /\ \A i \in DOMAIN list : Later(s, list[i], s[h])
        <4>1. ASSUME NEW j \in DOMAIN m PROVE Later(t, m[j], t[k])
          <5>1. CASE j = 1
            BY <1>3, <1>5, <2>2, <5>1
          <5>2. CASE j # 1
            <6>1. Later(s, m[j], t[k])
              BY <1>3, <1>d, <3>1, <3>3, <5>2
            <6> QED BY <1>5, <2>2, <6>1
          <5> QED BY <5>1, <5>2
        <4> QED BY <1>3, <3>3, <4>1
      <3> QED BY <3>2, <3>3 DEF Hints
    <2> QED BY <2>1, <2>2
  <1> QED BY <1>3, <1>6, <1>7, <1>8 DEF Hints, m, t

\* The hints and the history change together, in the transaction that has read the row.
LEMMA NextKeepsHints ==
  ASSUME DirTypeOK, LeaseInv, [DirNext]_dirVars, FreshestAddrs
  PROVE  FreshestAddrs'
  <1> USE DEF hist, dirVars
  <1>b. db \in Dbs /\ merges \in Seq(Addrs) /\ db.addrs \in Seq(Addrs)
    BY DEF DirTypeOK, DbType, HistType, Dbs
  <1>h. FreshestAddrs' <=> Hints(db.addrs, merges)'
    BY DEF FreshestAddrs, Newer, Hints, Later
  <1>k. ASSUME merges' = merges, db'.addrs = db.addrs PROVE FreshestAddrs'
    <2>1. Hints(db.addrs, merges)
      BY HintsAre
    <2>2. Hints(db.addrs, merges)'
      BY <1>k, <2>1
    <2> QED BY <1>h, <2>2
  <1>1. ASSUME NEW p \in Procs, init_locked(p) PROVE FreshestAddrs'
    <2>1. merges' = merges
      BY <1>1 DEF init_locked
    <2>2. db'.addrs = db.addrs
      <3>1. CASE ~db.exists
        BY <1>1, <3>1, <1>b DEF init_locked, LeaseInv, NoDb, Dbs
      <3>2. CASE db.exists
        BY <1>1, <3>2, <1>b DEF init_locked, Dbs
      <3> QED BY <3>1, <3>2
    <2> QED BY <1>k, <2>1, <2>2
  <1>2. ASSUME NEW p \in Procs, Migrate(p) PROVE FreshestAddrs'
    <2>1. merges' = merges /\ (UNCHANGED db \/ Migrates(p))
      BY <1>2 DEF Migrate, migrate, Migrates
    <2> QED BY <1>k, <2>1, MigrateFacts
  <1>3. ASSUME NEW p \in Procs, serving_addrs(p) \/ publish_freshness(p) \/ shutdown(p)
        PROVE  FreshestAddrs'
    <2>1. merges' = merges /\ db'.addrs = db.addrs
      BY <1>3, <1>b DEF serving_addrs, publish_freshness, Publish, shutdown, Dbs
    <2> QED BY <1>k, <2>1
  <1>4. ASSUME NEW p \in Procs,
           \/ InitLock(p) \/ ensure_dir_initialized(p) \/ serve_detached(p) \/ acquire(p)
           \/ NoDatabase(p) \/ OpenLocal(p) \/ BindEndpoint(p) \/ owner_socket_bind(p)
           \/ owner_tcp_bind(p) \/ cmd_serve(p) \/ CtrlC(p) \/ Die(p)
        PROVE  FreshestAddrs'
    <2>1. merges' = merges /\ db' = db
      BY <1>4 DEF InitLock, ensure_dir_initialized, serve_detached, acquire, Attempt, NoDatabase,
                  OpenLocal, BindEndpoint, owner_socket_bind, owner_tcp_bind, cmd_serve, CtrlC, Die
    <2> QED BY <1>k, <2>1
  <1>5. CASE holder \/ StopLooks \/ StopWaits \/ StopRemoves
    <2>1. merges' = merges /\ db' = db
      BY <1>5 DEF holder, StopLooks, StopWaits, StopRemoves
    <2> QED BY <1>k, <2>1
  <1>6. CASE \E m \in {"pages"} : RemoveMod(m)
    <2>1. merges' = merges /\ db'.addrs = db.addrs
      BY <1>6, <1>b DEF RemoveMod, Dbs
    <2> QED BY <1>k, <2>1
  <1>7. ASSUME NEW a \in Addrs, merge_peer_addrs(a) PROVE FreshestAddrs'
    <2>1. CASE merges' = merges /\ db' = db
      BY <1>k, <2>1
    <2>2. CASE wlock = a /\ Write(a, snap[a])
      <3>1. snap[a] = db.addrs
        BY <2>2 DEF LeaseInv
      <3>2. db'.addrs = Merged(a, db.addrs) /\ merges' = <<a>> \o merges
        BY <1>b, <2>2, <3>1 DEF Write, Dbs
      <3>3. Hints(Merged(a, db.addrs), <<a>> \o merges)
        BY <1>b, HintsAre, MergeKeepsHints
      <3>4. Hints(db.addrs, merges)'
        BY <3>2, <3>3
      <3> QED BY <1>h, <3>4
    <2> QED BY <1>7, <2>1, <2>2 DEF merge_peer_addrs
  <1>8. CASE UNCHANGED dirVars
    BY <1>8, <1>k
  <1> QED BY <1>1, <1>2, <1>3, <1>4, <1>5, <1>6, <1>7, <1>8 DEF DirNext

-----------------------------------------------------------------------------
(* The theorems. *)

LEMMA InitInv == DirInit => DirInv
  <1> SUFFICES ASSUME DirInit PROVE DirInv
    OBVIOUS
  <1>0. /\ DOMAIN pc = Procs /\ \A p \in Procs : pc[p] = "off" /\ tries[p] = Fresh
        /\ wlock = None /\ stops = 0 /\ probes = 0 /\ refused = {} /\ removed = {} /\ merges = <<>>
        /\ stop.st = "off" /\ shared = FALSE
    BY DEF DirInit
  <1>1. PICK v \in Stored : /\ key = IF v = 0 THEN None ELSE "old"
                            /\ db = IF v = 0 THEN NoDb ELSE OldDb(v)
    BY DEF DirInit
  <1>2. /\ db.addrs = <<>> /\ (~db.exists => db = NoDb)
        /\ (db.mods # {} => "sql-sqlite" \in db.mods)
    BY <1>1 DEF NoDb, OldDb
  <1>3. LeaseInv
    BY <1>0, <1>2, NamesAssumption DEF LeaseInv, Held, HasEndpoint, Listening, OnTcp, Opening
  <1>4. TraceInv
    <2>1. \A p \in Procs : bound[p] = {}
      BY DEF DirInit
    <2> QED BY <1>0, <2>1 DEF TraceInv, LanesInv, HasEndpoint
  <1>5. ProbeInv
    BY <1>0 DEF ProbeInv, Fresh
  <1>6. ModsInv
    BY <1>0, <1>2 DEF ModsInv
  <1>7. MakeInv
    <2>1. (key = None /\ ~db.exists) \/ Whole(key)
      BY <1>1, NamesAssumption DEF Whole, NoDb, OldDb
    <2> QED BY <1>0, <2>1 DEF MakeInv, Making
  <1>8. FreshestAddrs
    <2>1. MAX_ADDRS \in Nat
      BY BoundsAssumption
    <2> QED BY <1>0, <1>2, <2>1 DEF FreshestAddrs
  <1> QED BY <1>3, <1>4, <1>5, <1>6, <1>7, <1>8, InitType DEF DirInv

LEMMA NextKeepsInv == ASSUME DirInv, [DirNext]_dirVars PROVE DirInv'
  <1> USE DEF DirInv
  <1>1. ModsInv' /\ FreshestAddrs'
    BY NextKeepsMods, NextKeepsHints
  <1>2. CASE UNCHANGED dirVars
    <2> USE <1>2 DEF dirVars, locks, lanes, proc, count, hist
    <2>1. DirTypeOK'
      BY DEF DirTypeOK, ProcType, LockType, DbType, FileType, HistType
    <2>2. LeaseInv'
      BY DEF LeaseInv
    <2>3. TraceInv'
      BY DEF TraceInv, LanesInv, Named, Run
    <2>4. ProbeInv'
      BY StillProbes
    <2>5. MakeInv'
      BY DEF MakeInv, Whole
    <2> QED BY <1>1, <2>1, <2>2, <2>3, <2>4, <2>5
  <1>3. ASSUME NEW p \in Procs,
           \/ InitLock(p) \/ ensure_dir_initialized(p) \/ init_locked(p) \/ serve_detached(p)
           \/ acquire(p) \/ NoDatabase(p) \/ Migrate(p) \/ OpenLocal(p)
           \/ BindEndpoint(p) \/ serving_addrs(p) \/ publish_freshness(p)
           \/ owner_socket_bind(p) \/ owner_tcp_bind(p) \/ cmd_serve(p) \/ CtrlC(p)
           \/ shutdown(p) \/ Die(p)
        PROVE  DirInv'
    <2>1. DirTypeOK' /\ LeaseInv' /\ TraceInv' /\ ProbeInv'
      <3>1. DirNext
        BY <1>3 DEF DirNext
      <3> QED BY <1>3, <3>1, ProcsType, ProcsKeepLease, ProcsKeepTraces, NextKeepsProbes
    <2>2. MakeInv'
      <3>1. CASE InitLock(p)
        BY <3>1, InitLockKeepsMake
      <3>2. CASE ensure_dir_initialized(p)
        BY <3>2, EnsureKeepsMake
      <3>3. CASE init_locked(p)
        BY <3>3, InitKeepsMake
      <3>4. CASE Die(p)
        <4>1. deaths' # 0
          <5>1. deaths \in Nat /\ deaths' = deaths + 1
            BY <3>4 DEF Die, DirTypeOK, HistType
          <5> QED BY <5>1
        <4>2. Gone(p) /\ UNCHANGED <<stop, stops>>
          BY <3>4 DEF Die
        <4> QED BY <4>1, <4>2, GoneKeepsMake DEF MakeInv
      <3> QED BY <1>3, <3>1, <3>2, <3>3, <3>4, ProcsKeepMake
    <2> QED BY <1>1, <2>1, <2>2
  <1>4. CASE \/ holder \/ StopLooks \/ StopWaits \/ StopRemoves
             \/ \E m \in {"pages"} : RemoveMod(m)
             \/ \E a \in Addrs : merge_peer_addrs(a)
    <2>1. DirNext
      BY <1>4 DEF DirNext
    <2>2. DirTypeOK' /\ LeaseInv' /\ TraceInv' /\ ProbeInv' /\ MakeInv'
      BY <1>4, <2>1, OthersType, OthersKeepLease, OthersKeepTraces, NextKeepsProbes, OthersKeepMake
    <2> QED BY <1>1, <2>2
  <1> QED BY <1>2, <1>3, <1>4 DEF DirNext

\* Every reachable state satisfies the inductive invariant: the lease of lease.rs is held from
\* the acquire to the end of the shutdown, and initialisation happens in order under its lock.
THEOREM DirInvariance == DirSpec => []DirInv
  <1>1. DirInit => DirInv
    BY InitInv
  <1>2. DirInv /\ [DirNext]_dirVars => DirInv'
    BY NextKeepsInv
  <1> QED BY <1>1, <1>2, PTL DEF DirSpec

\* DirectorySound, of any number of processes: ensure_dir_initialized lets nobody through to a
\* directory that is half made, migrations keep an operator's edits of the modulations, and
\* merge_peer_addrs keeps the latest addresses, each once.
THEOREM DirectoryIsSound == DirSpec => []DirectorySound
  <1>1. DirInv => DirectorySound
    <2>1. MakeInv => ReadyIsWhole
      BY DEF MakeInv, ReadyIsWhole, Whole
    <2>2. ModsInv => RemovedStaysRemoved
      BY DEF ModsInv, RemovedStaysRemoved
    <2> QED BY <2>1, <2>2 DEF DirInv, DirectorySound
  <1> QED BY <1>1, DirInvariance, PTL

\* Never two live endpoints under one key: ServeLease is taken before the bind in start_node_full
\* and let go after the transport is down, whatever kills and stops come between.
THEOREM EndpointsExclude == DirSpec => []OneEndpoint
  <1>1. DirInv => OneEndpoint
    BY OneHolder, PlacesHeld DEF DirInv, OneEndpoint
  <1> QED BY <1>1, DirInvariance, PTL

\* Whoever answers a dial is past the acquire.
LEMMA AnswersHold ==
  ASSUME DirInv, NEW f \in {"sock", "rec"}, Reaches(f)
  PROVE  file[f] \in Runs /\ pc[file[f][1]] \in Held
  <1>1. file[f] \in Runs /\ file[f][1] \in Procs
    BY NamesAssumption DEF DirInv, DirTypeOK, FileType, Reaches, Alive, Runs
  <1> QED BY <1>1, OutsidersUnbound DEF DirInv, Reaches

\* A serving process is found through its lease, its pid file, its ticket and every endpoint that
\* owner_socket::bind and owner_tcp::bind gave it, whichever of them failed and however the
\* shutdown of the run before it and the sweep of `rsntr stop` interleave with its start.
THEOREM ServersAreReachable == DirSpec => []ServingIsReachable
  <1>1. ASSUME DirInv PROVE Dialed # None => lease = Dialed[1]
    <2>1. ASSUME NEW f \in {"sock", "rec"}, Reaches(f) PROVE lease = file[f][1]
      BY <1>1, <2>1, AnswersHold DEF DirInv, LeaseInv, Runs
    <2> QED BY <2>1 DEF Dialed
  <1>2. ASSUME DirInv, NEW p \in Procs, pc[p] = "serving", Run(p) \notin crossed
        PROVE  /\ lease = p /\ file["pid"] = Run(p) /\ db.pub = Run(p)
               /\ \A f \in bound[p] : file[f] = Run(p)
               /\ Dialed = IF bound[p] = {} THEN None ELSE Run(p)
    <2>1. lease = p
      BY <1>2 DEF DirInv, LeaseInv, Held, HasEndpoint
    <2>2. file["pid"] = Run(p) /\ db.pub = Run(p)
      BY <1>2 DEF DirInv, TraceInv, Named, HasEndpoint
    <2>3. bound[p] \subseteq {"sock", "rec"}
      BY <1>2 DEF DirInv, DirTypeOK, FileType
    <2>4. \A f \in bound[p] : file[f] = Run(p)
      BY <1>2, <2>3 DEF DirInv, TraceInv, LanesInv, Named
    <2>5. ASSUME NEW f \in {"sock", "rec"} PROVE Reaches(f) <=> f \in bound[p]
      <3>1. Run(p) \in Runs /\ Run(p) # None /\ Run(p)[1] = p /\ Run(p)[2] = nth[p]
        BY <1>2, RunType, NamesAssumption DEF DirInv, Run, Runs
      <3>2. f \in bound[p] => Reaches(f)
        BY <1>2, <2>4, <3>1 DEF Reaches, Alive
      <3>3. Reaches(f) => f \in bound[p]
        BY <1>2, <2>1, AnswersHold DEF DirInv, LeaseInv, Reaches, Runs
      <3> QED BY <3>2, <3>3
    <2>6. Dialed = IF bound[p] = {} THEN None ELSE Run(p)
      BY <2>3, <2>4, <2>5 DEF Dialed
    <2> QED BY <2>1, <2>2, <2>4, <2>6
  <1>3. DirInv => ServingIsReachable
    BY <1>1, <1>2 DEF ServingIsReachable
  <1> QED BY <1>3, DirInvariance, PTL

\* One process serves, it is found as far as its binds went, and ServeLease::acquire turns nobody
\* away who found no server, short of a probe in the way of every attempt.
THEOREM ServerIsFound == DirSpec => []OneServerFound
  <1>1. DirInv => RefusedByServer
    BY DEF DirInv, ProbeInv, RefusedByServer
  <1>2. DirInv /\ OneEndpoint /\ ServingIsReachable => OneServerFound
    BY <1>1 DEF OneServerFound
  <1> QED BY <1>2, DirInvariance, EndpointsExclude, ServersAreReachable, PTL

\* stamp_schema_version, over any builds and migrations: the version in a database never falls.
THEOREM VersionsGrow == DirSpec => VersionNeverFalls
  <1>1. DirInv /\ [DirNext]_dirVars => [db'.ver >= db.ver]_db
    BY VersionGrows DEF DirInv
  <1> QED BY <1>1, DirInvariance, PTL DEF DirSpec, VersionNeverFalls
=============================================================================
