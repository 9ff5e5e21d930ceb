------------------------------- MODULE Outbox -------------------------------
(***************************************************************************)
(* Store-and-forward requests of one node: the `_outbox`/`_results` tables *)
(* and the OutboxWorker on the sending side (crates/surfaces/src/outbox.rs)*)
(* composed with the request lane of the nodes it sends to                 *)
(* (crates/node/src/pipeline.rs: screening, then execution in a            *)
(* transaction with the `_applied` ledger) and with `rsntr peer remove`    *)
(* (crates/cli/src/peercmd.rs).                                            *)
(*                                                                         *)
(* A row of `_outbox` is identified with its request id, which is also the *)
(* id on the wire for every resend.  A job is one request stream; the      *)
(* worker opens them one at a time, but a stream it has given up on may    *)
(* still be running at the serving node.                                   *)
(***************************************************************************)
EXTENDS Naturals

CONSTANTS
  Rows,        \* request ids
  Peers,       \* serving nodes
  Jobs,        \* request streams that may exist at the same time
  NoJob, NoRow,
  PeerOf,      \* the node a row is addressed to
  Kind,        \* what the signal is for the serving node
  Malformed,   \* rows whose params are not a JSON array of values
  ByName,      \* rows naming the peer by petname, not by endpoint id
  MaxFaults    \* bound on process deaths and failed database writes

Kinds == {"read", "write", "plugin"}

ASSUME PeerOfAssumption == PeerOf \in [Rows -> Peers]
ASSUME KindAssumption == Kind \in [Rows -> Kinds]
ASSUME NoneAssumption == NoJob \notin Jobs /\ NoRow \notin Rows
ASSUME SubsetAssumption == Malformed \subseteq Rows /\ ByName \subseteq Rows
ASSUME FaultsAssumption == MaxFaults \in Nat

VARIABLES
  status,      \* _outbox.status, "absent" before the INSERT
  results,     \* _results of the row: "none", "rows" or "empty" (a replay)
  aged,        \* rows whose created_at lies further back than the expiry
  known,       \* peers with a row in the sender's `_peers`
  wpc,         \* where the worker task is
  todo, old,   \* rows the running tick has scanned; those scanned as expired
  backoff,     \* rows whose next_attempt lies in the future
  row, cur,    \* the row being shipped; its stream, NoJob once that broke
  phase, rowOf,  \* each stream at the serving node
  lock,        \* the stream whose transaction holds a node's write lock
  policy,      \* nodes that now authorize this sender
  applied,     \* request ids recorded in `_applied`
  effects,     \* how often the row's statement was committed: 0, 1, 2 = more
  faults       \* process deaths and failed writes still to come

senderDb  == <<status, results, aged, known>>
workerVars == <<wpc, todo, old, backoff, row>>
streamVars == <<cur, phase, rowOf>>
nodeVars  == <<lock, policy, applied, effects>>
vars == <<senderDb, workerVars, streamVars, nodeVars, faults>>

Statuses == {"absent", "queued", "sent", "done", "denied", "error", "expired"}
Terminal == {"done", "denied", "error", "expired"}
Answers  == {"rows", "replay", "denied", "error"}
Phases   == {"free", "open", "asked", "cleared", "tx"} \cup Answers

TypeOK ==
  /\ status \in [Rows -> Statuses]
  /\ results \in [Rows -> {"none", "rows", "empty"}]
  /\ aged \in SUBSET Rows
  /\ known \in SUBSET Peers
  /\ wpc \in {"down", "idle", "loop", "opened", "marked", "recv"}
  /\ todo \in SUBSET Rows /\ old \in SUBSET todo
  /\ backoff \in SUBSET Rows
  /\ row \in Rows \cup {NoRow}
  /\ cur \in Jobs \cup {NoJob}
  /\ phase \in [Jobs -> Phases]
  /\ rowOf \in [Jobs -> Rows \cup {NoRow}]
  /\ lock \in [Peers -> Jobs \cup {NoJob}]
  /\ policy \in SUBSET Peers
  /\ applied \in SUBSET Rows
  /\ effects \in [Rows -> 0..2]
  /\ faults \in 0..MaxFaults

Init ==
  /\ status = [r \in Rows |-> "absent"]
  /\ results = [r \in Rows |-> "none"]
  /\ aged = {}
  /\ known = Peers
  /\ wpc = "idle" /\ todo = {} /\ old = {} /\ backoff = {}
  /\ row = NoRow /\ cur = NoJob
  /\ phase = [j \in Jobs |-> "free"]
  /\ rowOf = [j \in Jobs |-> NoRow]
  /\ lock = [p \in Peers |-> NoJob]
  /\ policy \in SUBSET Peers
  /\ applied = {}
  /\ effects = [r \in Rows |-> 0]
  /\ faults = MaxFaults

-----------------------------------------------------------------------------
(* The sending node's tables: applications, time, and peer removal. *)

Pending(r) == status[r] \in {"queued", "sent"}

\* enqueue, or a plain INSERT.
Enqueue(r) ==
  /\ status[r] = "absent"
  /\ status' = [status EXCEPT ![r] = "queued"]
  /\ UNCHANGED <<results, aged, known, workerVars, streamVars, nodeVars, faults>>

\* The row's age reaches OutboxConfig.expiry.
Age(r) ==
  /\ Pending(r) /\ r \notin aged
  /\ aged' = aged \cup {r}
  /\ UNCHANGED <<status, results, known,
                 workerVars, streamVars, nodeVars, faults>>

AddPeer(p) ==
  /\ p \notin known
  /\ known' = known \cup {p}
  /\ UNCHANGED <<status, results, aged,
                 workerVars, streamVars, nodeVars, faults>>

\* First statement of peer_remove_with.  The others are separate owner
\* requests, so anything may happen between this one and the last.
ForgetPeer(p) ==
  /\ p \in known
  /\ known' = known \ {p}
  /\ UNCHANGED <<status, results, aged,
                 workerVars, streamVars, nodeVars, faults>>

\* Mutant: the UPDATE without its condition on the status.
CancelUndelivered_anyStatus(p) ==
  /\ p \notin known
  /\ status' = [r \in Rows |-> IF PeerOf[r] = p THEN "error" ELSE status[r]]
  /\ UNCHANGED <<results, aged, known, workerVars, streamVars, nodeVars, faults>>

\* Last statement of peer_remove_with.
CancelUndelivered(p) ==
  /\ p \notin known
  /\ \E r \in Rows : PeerOf[r] = p /\ Pending(r)
  /\ status' = [r \in Rows |-> IF PeerOf[r] = p /\ Pending(r)
                               THEN "error" ELSE status[r]]
  /\ UNCHANGED <<results, aged, known,
                 workerVars, streamVars, nodeVars, faults>>

-----------------------------------------------------------------------------
(* The worker: one tick walks a snapshot of the actionable rows. *)

InHand(r) == r \in todo \/ row = r

\* The database write W, or a failed one: its error is only logged.
DbWrite(W, same) ==
  \/ W /\ faults' = faults
  \/ faults > 0 /\ faults' = faults - 1 /\ UNCHANGED same

mark_terminal(r, s) ==
  DbWrite(status' = [status EXCEPT ![r] = s], status) /\ UNCHANGED results

\* Mutant: results and status written by two statements, not one transaction.
persist_done_twoWrites(r, rows) ==
  /\ DbWrite(results' = [results EXCEPT ![r] = rows], results)
  /\ status' = [status EXCEPT ![r] = "done"]

persist_done(r, rows) ==
  DbWrite(/\ status' = [status EXCEPT ![r] = "done"]
          /\ results' = [results EXCEPT ![r] = rows], <<status, results>>)

\* Mutants: a scan that forgets the 'sent' rows, and one with no condition.
Scan_queuedOnly ==
  /\ wpc = "idle" /\ wpc' = "loop"
  /\ todo' = {r \in Rows : status[r] = "queued"}
  /\ old' = {r \in aged : status[r] = "queued"}
  /\ UNCHANGED <<senderDb, backoff, row, streamVars, nodeVars, faults>>

Scan_anyStatus ==
  /\ wpc = "idle" /\ wpc' = "loop"
  /\ todo' = {r \in Rows : status[r] # "absent"}
  /\ old' = {r \in aged : status[r] # "absent"}
  /\ UNCHANGED <<senderDb, backoff, row, streamVars, nodeVars, faults>>

\* scan: rows and their ages as of now, used for the whole tick.
Scan ==
  /\ wpc = "idle" /\ wpc' = "loop"
  /\ todo' = {r \in Rows : Pending(r)}
  /\ old' = {r \in aged : Pending(r)}
  /\ UNCHANGED <<senderDb, backoff, row, streamVars, nodeVars, faults>>

EndTick ==
  /\ wpc = "loop" /\ todo = {} /\ wpc' = "idle"
  /\ UNCHANGED <<senderDb, todo, old, backoff, row, streamVars, nodeVars, faults>>

\* The scan is ORDER BY created_at, in whole seconds: rows inserted within a
\* second come in any order, and here all of them do.
Turn(r) == wpc = "loop" /\ r \in todo

\* Mutant: the age read for one row is used for the next.
Pass_keepsAge(r) == todo' = todo \ {r} /\ UNCHANGED old

Pass(r) == todo' = todo \ {r} /\ old' = old \ {r}

SkipBackedOff(r) ==
  /\ Turn(r) /\ r \in backoff
  /\ Pass(r)
  /\ UNCHANGED <<senderDb, wpc, backoff, row, streamVars, nodeVars, faults>>

ExpireRow(r) ==
  /\ Turn(r) /\ r \notin backoff /\ r \in old
  /\ mark_terminal(r, "expired")
  /\ Pass(r)
  /\ UNCHANGED <<aged, known, wpc, backoff, row, streamVars, nodeVars>>

\* resolve_peer: a petname needs its `_peers` row, an endpoint id does not.
Resolves(r) == r \notin ByName \/ PeerOf[r] \in known

RefuseRow(r) ==
  /\ Turn(r) /\ r \notin backoff /\ r \notin old
  /\ r \in Malformed \/ ~Resolves(r)
  /\ mark_terminal(r, "error")
  /\ Pass(r)
  /\ UNCHANGED <<aged, known, wpc, backoff, row, streamVars, nodeVars>>

Dialable(r) ==
  /\ Turn(r) /\ r \notin backoff /\ r \notin old
  /\ r \notin Malformed /\ Resolves(r)

DialFails(r) ==
  /\ Dialable(r)
  /\ backoff' = backoff \cup {r}
  /\ Pass(r)
  /\ UNCHANGED <<senderDb, wpc, row, streamVars, nodeVars, faults>>

DialOpens(r, j) ==
  /\ Dialable(r) /\ phase[j] = "free"
  /\ Pass(r)
  /\ wpc' = "opened" /\ row' = r /\ cur' = j
  /\ phase' = [phase EXCEPT ![j] = "open"]
  /\ rowOf' = [rowOf EXCEPT ![j] = r]
  /\ UNCHANGED <<senderDb, backoff, nodeVars, faults>>

\* mark_sent: only a row that is still 'queued'.
MarkSent ==
  /\ wpc = "opened" /\ wpc' = "marked"
  /\ IF status[row] = "queued"
     THEN DbWrite(status' = [status EXCEPT ![row] = "sent"], status)
     ELSE UNCHANGED <<status, faults>>
  /\ UNCHANGED <<results, aged, known, todo, old, backoff, row,
                 streamVars, nodeVars>>

Ship ==
  /\ wpc = "marked" /\ cur # NoJob /\ wpc' = "recv"
  /\ phase' = [phase EXCEPT ![cur] = "asked"]
  /\ UNCHANGED <<senderDb, todo, old, backoff, row, cur, rowOf, nodeVars, faults>>

Free(J) ==
  /\ phase' = [j \in Jobs |-> IF j \in J THEN "free" ELSE phase[j]]
  /\ rowOf' = [j \in Jobs |-> IF j \in J THEN NoRow ELSE rowOf[j]]

\* The worker's stream closes or breaks.  A request the node already has is
\* worked on all the same.
DropStream ==
  /\ cur' = NoJob
  /\ Free({j \in Jobs : j = cur /\ phase[j] \in {"open"} \cup Answers})

\* The row is dealt with; on to the next one of the tick.
NextRow == wpc' = "loop" /\ row' = NoRow /\ UNCHANGED <<todo, old>>

\* Step::Again.
Again ==
  /\ backoff' = backoff \cup {row}
  /\ NextRow
  /\ DropStream
  /\ UNCHANGED <<senderDb, nodeVars, faults>>

SendFails == wpc = "marked" /\ Again

\* A transport error, or the stream ends without a terminal frame.
ReadCut == wpc = "recv" /\ cur = NoJob /\ Again

\* The terminal frame arrives; Step::Settled whether or not the write of the
\* outcome succeeds.
ReadAnswer ==
  /\ wpc = "recv" /\ cur # NoJob
  /\ \/ phase[cur] = "rows" /\ persist_done(row, "rows")
     \/ phase[cur] = "replay" /\ persist_done(row, "empty")
     \/ phase[cur] \in {"denied", "error"} /\ mark_terminal(row, phase[cur])
  /\ backoff' = backoff \ {row}
  /\ NextRow
  /\ DropStream
  /\ UNCHANGED <<aged, known, nodeVars>>

\* next_attempt passes.
BackoffElapses(r) ==
  /\ r \in backoff
  /\ backoff' = backoff \ {r}
  /\ UNCHANGED <<senderDb, wpc, todo, old, row, streamVars, nodeVars, faults>>

\* The sending process ends, wherever the worker is; its memory is lost.
SenderDies ==
  /\ wpc # "down" /\ faults > 0
  /\ faults' = faults - 1
  /\ wpc' = "down" /\ todo' = {} /\ old' = {} /\ backoff' = {} /\ row' = NoRow
  /\ DropStream
  /\ UNCHANGED <<senderDb, nodeVars>>

SenderStarts ==
  /\ wpc = "down" /\ wpc' = "idle"
  /\ UNCHANGED <<senderDb, todo, old, backoff, row, streamVars, nodeVars, faults>>

-----------------------------------------------------------------------------
(* The serving nodes. *)

NodeOf(j) == PeerOf[rowOf[j]]
On(j, p) == phase[j] # "free" /\ NodeOf(j) = p

Move(j, ph) ==
  /\ phase' = [phase EXCEPT ![j] = ph]
  /\ UNCHANGED <<senderDb, workerVars, cur, rowOf, policy, faults>>

\* screen_request (a first database job): peer gate, footprint and chain.
Screen(j) ==
  /\ phase[j] = "asked"
  /\ \/ NodeOf(j) \notin policy /\ Move(j, "denied")
     \/ NodeOf(j) \in policy /\ Move(j, "cleared")
     \/ Move(j, "error")     \* the statement does not prepare
  /\ UNCHANGED <<lock, applied, effects>>

\* A read: executed, never recorded.
ExecuteRead(j) ==
  /\ phase[j] = "cleared" /\ Kind[rowOf[j]] = "read"
  /\ Move(j, "rows")
  /\ UNCHANGED <<lock, applied, effects>>

Once(n) == IF n = 0 THEN 1 ELSE 2

\* Mutant: a plugin's failed statement is answered as a success.
RunPlugin_swallowsError(j) ==
  /\ phase[j] = "cleared" /\ Kind[rowOf[j]] = "plugin"
  /\ Move(j, "rows")
  /\ UNCHANGED <<lock, applied, effects>>

\* A mod plugin: its statements commit in transactions of their own, no
\* `_applied` row is written, and it may fail after one of them.
RunPlugin(j) ==
  /\ phase[j] = "cleared" /\ Kind[rowOf[j]] = "plugin"
  /\ effects' = [effects EXCEPT ![rowOf[j]] = Once(@)]
  /\ \E a \in {"rows", "error"} : Move(j, a)
  /\ UNCHANGED <<lock, applied>>

\* Mutant: a deferred transaction, so the ledger is read without the lock.
CanBegin_deferred(j) == phase[j] = "cleared" /\ Kind[rowOf[j]] = "write"

CanBegin(j) ==
  /\ phase[j] = "cleared" /\ Kind[rowOf[j]] = "write"
  /\ lock[NodeOf(j)] = NoJob

\* Mutant: a missing `_applied` row is taken for a recorded outcome.
ReplayApplied_unrecorded(j) ==
  /\ CanBegin(j)
  /\ Move(j, "replay")
  /\ UNCHANGED <<lock, applied, effects>>

\* answer_from_applied: the id is recorded, nothing is executed.
ReplayApplied(j) ==
  /\ CanBegin(j) /\ rowOf[j] \in applied
  /\ Move(j, "replay")
  /\ UNCHANGED <<lock, applied, effects>>

\* The immediate transaction, from the `_applied` lookup on.
BeginWrite(j) ==
  /\ CanBegin(j) /\ rowOf[j] \notin applied
  /\ lock' = [lock EXCEPT ![NodeOf(j)] = j]
  /\ Move(j, "tx")
  /\ UNCHANGED <<applied, effects>>

Unlock(j) == lock' = [p \in Peers |-> IF lock[p] = j THEN NoJob ELSE lock[p]]

\* The statement and its `_applied` row, committed together.
Commit(j) ==
  /\ phase[j] = "tx"
  /\ applied' = applied \cup {rowOf[j]}
  /\ effects' = [effects EXCEPT ![rowOf[j]] = Once(@)]
  /\ Unlock(j)
  /\ Move(j, "rows")

\* A deadline, a limit, a refused prepare or a busy database: rolled back.
ExecuteFails(j) ==
  /\ phase[j] \in {"cleared", "tx"}
  /\ Unlock(j)
  /\ Move(j, "error")
  /\ UNCHANGED <<applied, effects>>

\* Halt::ClientGone before the commit: rolled back, nothing is answered.
RollBackGone(j) ==
  /\ phase[j] = "tx" /\ cur # j
  /\ Unlock(j) /\ Free({j})
  /\ UNCHANGED <<senderDb, workerVars, cur, policy, applied, effects, faults>>

\* The client is gone when the terminal frame is to be sent: it is lost.
DropAnswer(j) ==
  /\ phase[j] \in Answers /\ cur # j
  /\ Free({j})
  /\ UNCHANGED <<senderDb, workerVars, cur, nodeVars, faults>>

\* The connection fails; the worker finds out when it next uses it.
LoseLink ==
  /\ cur # NoJob
  /\ DropStream
  /\ UNCHANGED <<senderDb, workerVars, nodeVars, faults>>

\* The serving process dies: its streams are gone, its open transaction is
\* rolled back, its tables stay.
NodeDies(p) ==
  /\ faults > 0 /\ faults' = faults - 1
  /\ Free({j \in Jobs : On(j, p)})
  /\ lock' = [lock EXCEPT ![p] = NoJob]
  /\ cur' = IF cur \in Jobs /\ On(cur, p) THEN NoJob ELSE cur
  /\ UNCHANGED <<senderDb, workerVars, policy, applied, effects>>

\* The serving node's owner grants or revokes.
ChangePolicy(p) ==
  /\ policy' = IF p \in policy THEN policy \ {p} ELSE policy \cup {p}
  /\ UNCHANGED <<senderDb, workerVars, streamVars, lock, applied, effects, faults>>

-----------------------------------------------------------------------------
Tables == \/ \E r \in Rows : Enqueue(r) \/ Age(r)
          \/ \E p \in Peers : AddPeer(p) \/ ForgetPeer(p) \/ CancelUndelivered(p)

RowStep(r) == \/ SkipBackedOff(r) \/ ExpireRow(r) \/ RefuseRow(r)
              \/ DialFails(r) \/ \E j \in Jobs : DialOpens(r, j)

Worker == \/ Scan \/ EndTick \/ (\E r \in Rows : RowStep(r))
          \/ MarkSent \/ Ship \/ SendFails \/ ReadCut \/ ReadAnswer

Serve(j) == \/ Screen(j) \/ ExecuteRead(j) \/ RunPlugin(j)
            \/ ReplayApplied(j) \/ BeginWrite(j) \/ Commit(j)
            \/ ExecuteFails(j) \/ RollBackGone(j) \/ DropAnswer(j)

Next == \/ Tables \/ Worker
        \/ \E r \in Rows : BackoffElapses(r)
        \/ SenderDies \/ SenderStarts
        \/ \E j \in Jobs : Serve(j)
        \/ LoseLink
        \/ \E p \in Peers : NodeDies(p) \/ ChangePolicy(p)

Spec == Init /\ [][Next]_vars

\* Time passes and the sending process is scheduled: the worker task runs
\* whenever it can, its timers fire, and a dead process is started again.
SenderFairness ==
  /\ WF_vars(Worker)
  /\ WF_vars(SenderStarts)
  /\ \A r \in Rows : WF_vars(BackoffElapses(r)) /\ WF_vars(Age(r))

\* Peers may accept a stream and never answer on it.
SenderSpec == Spec /\ SenderFairness

\* Every node works its requests off: execution is bounded by a deadline and
\* waiting for the write lock by the busy timeout.
FairSpec == SenderSpec /\ \A j \in Jobs : WF_vars(Serve(j))

-----------------------------------------------------------------------------
(* Properties *)

Ledgered == {r \in Rows : Kind[r] = "write"}

\* However often a row is resent, by retries, restarts or after lost answers,
\* the serving node commits its statement at most once, and the `_applied`
\* ledger knows exactly the requests that were committed (execute_in_tx).
AppliedAtMostOnce ==
  \A r \in Ledgered : effects[r] = IF r \in applied THEN 1 ELSE 0

\* What the application reads is true: a request shown as 'done' that was to
\* change something has been committed by the peer, a write exactly once
\* (persist_done against execute_in_tx and run_mod_statement).
DoneMeansApplied ==
  \A r \in Rows : status[r] = "done" =>
    /\ Kind[r] = "write" => effects[r] = 1
    /\ Kind[r] = "plugin" => effects[r] > 0

\* `_results` and the status agree: results exist for exactly the rows that
\* are 'done', whatever dies between the answer and the write (persist_done).
ResultsIffDone == \A r \in Rows : status[r] = "done" <=> results[r] # "none"

\* A settled row stays as it is, with one exception: an 'error' that peer
\* removal wrote over a row the running tick had already scanned.
SettledStays ==
  [][\A r \in Rows :
       status[r] \in Terminal /\ <<status[r], results[r]>>' # <<status[r], results[r]>>
         => status[r] = "error" /\ InHand(r)]_vars

\* outbox.rs: "re-shipping a `sent` row after a restart cannot apply twice".
\* Said of every row, mod plugins included, which this model refutes (README, section 6).
CannotApplyTwice == \A r \in Rows : effects[r] < 2

\* outbox.rs: "Rows older than this without completion flip to `expired`".
\* Said with no condition on how peers behave, which this model refutes (README, section 6).
OldRowsExpire == \A r \in Rows : r \in aged /\ Pending(r) ~> status[r] \in Terminal

\* The fate an application reads off a row's status.
Fate(s) == CASE s = "absent" -> "none"
             [] s \in {"queued", "sent"} -> "pending"
             [] s = "done" -> "completed"
             [] s \in {"denied", "error", "expired"} -> "failed"

Promise == INSTANCE Delivery WITH
             Requests <- Ledgered,
             fate <- [r \in Ledgered |-> Fate(status[r])],
             executed <- {r \in Ledgered : effects[r] > 0}

\* The worker, the ledger and peer removal together keep the promise of
\* Delivery for every recorded kind of request, through resends, lost answers
\* and the death of either process.
KeepsPromise == Promise!Spec

\* Every row settles in the end: the peer's answer, or the expiry.
EverySettles == \A r \in Rows : Pending(r) ~> status[r] \in Terminal
=============================================================================
