---------------------------- MODULE RemoteTables ----------------------------
(***************************************************************************)
(* SQL over a peer's tables: `remote_query` and `iroh_remote` virtual      *)
(* tables (crates/surfaces/src/remote.rs), on the thread of DbThread.      *)
(*                                                                         *)
(* sqlite calls a virtual table on the database thread, which then blocks  *)
(* in run_blocking until a task of the runtime has an answer, an error or  *)
(* a timeout for it.  Nothing else runs on the thread meanwhile and an     *)
(* interrupt is not noticed.  A statement that writes is one remote        *)
(* Execute per row, each committed at the peer; nothing undoes them.       *)
(***************************************************************************)
EXTENDS DbThread, SequencesExt

CONSTANTS
  Plans   \* scenarios: the tasks that run, and what one request's statement is

ASSUME PlansAssumption ==
  \A p \in Plans : /\ p.by \in Requests \cup {None}
                   /\ p.op \in {"none", "select", "update", "delete", "insert", "call"}
                   /\ p.op = "none" <=> p.by = None
                   /\ p.op = "call" => p.args # {}  \* of remote_query

VARIABLES
  plan,
  vt,        \* the table in the running statement: connect, ready, rows, failed
  wire,      \* the call the thread is blocked in
  strays,    \* writes sent by calls that were given up
  ptable,    \* the peer's table: rowid -> [a, b]
  cursor,    \* what filter fetched: the rows, iterated by rowid
  pos,       \* rows written
  insertId,  \* the rowid insert() returned
  wrote,     \* writes of this statement the peer has served: which row, and at which rowid
  snapshot,  \* the peer's table when the scan ran there, None if it was cut short
  others     \* what somebody else still does at the peer

remoteVars == <<plan, vt, wire, strays, ptable, cursor, pos, insertId, wrote, snapshot, others>>
rvars == <<vars, remoteVars>>

NoCall == [st |-> "idle", kind |-> "none", arg |-> None, ans |-> "none", last |-> 0]

RInit ==
  /\ Init
  /\ plan \in Plans
  /\ vt = "connect" /\ wire = NoCall /\ strays = {} /\ cursor = {} /\ pos = 0
  /\ ptable = plan.table /\ insertId = 0 /\ wrote = <<>> /\ snapshot = None
  /\ others = plan.others

-----------------------------------------------------------------------------
(* Constraints: a column or the rowid, an operator, a value, and whether   *)
(* sqlite can use it in the plan at hand.                                  *)

Holds(id, row, c) ==
  LET v == IF c.col = "rowid" THEN id ELSE row[c.col]
  IN  CASE c.op = "=" -> v = c.val
        [] c.op = "<" -> v < c.val
        [] c.op = "<>" -> v # c.val
        [] c.op = "isnot" -> v # c.val

PushedOps == {"=", "<", "<>"}

\* Mutant: what the peer cannot evaluate is omitted too.
best_index_omitsAll(cons) ==
  [clause |-> {c \in cons : c.usable /\ c.op \in PushedOps}, local |-> {}]

\* Usable predicates with an operator of the list go to the peer and are not
\* checked again; the others are left to sqlite.
best_index(cons) ==
  LET pushed == {c \in cons : c.usable /\ c.op \in PushedOps}
  IN  [clause |-> pushed, local |-> cons \ pushed]

\* remote_query's own: the hidden columns that sqlite gives it, or no such plan
\* if it must do without the peer or the signal although they are constrained.
remote_query_index(args) ==
  LET missing == {"peer", "signal"} \ {c.col : c \in {x \in args : x.usable /\ x.op = "="}}
  IN  [refused |-> missing # {} /\ \E c \in args :
                     ~c.usable /\ c.col \in {"peer", "signal"},
       complete |-> missing = {}]

Satisfies(x, cons) == \A c \in cons : Holds(x.id, x.row, c)

\* The rows of a table that satisfy some constraints.
Select(t, cons) == {x \in {[id |-> i, row |-> t[i]] : i \in DOMAIN t} : Satisfies(x, cons)}

\* The first n rows of an answer.
Cut(found, n) == {x \in found : Cardinality({y \in found : y.id <= x.id}) <= n}

Scans == plan.op \in {"select", "update", "delete"}
Writes == plan.op \in {"update", "delete", "insert", "call"}
IsCall == plan.args # {}  \* of remote_query

\* What the peer evaluates and what is left: all of a remote_query's signal is the peer's.
Split == IF IsCall THEN [clause |-> plan.where, local |-> {}] ELSE best_index(plan.where)

\* The rows sqlite has after its own checks, and the order it meets them in.
Checked == {x \in cursor : Satisfies(x, Split.local)}
Matching == SetToSortSeq(Checked, LAMBDA x, y : x.id < y.id)
Rows == IF plan.op \in {"insert", "call"} THEN 1 ELSE Cardinality(Checked)

-----------------------------------------------------------------------------
(* The thread in a virtual table. *)

IsRemote(r) == job = r /\ r = plan.by
Blocked == wire.st # "idle"

\* run_blocking: the task is spawned and the thread waits, or the peer's name
\* resolves to nothing.
run_blocking(kind, arg) ==
  \/ /\ wire' = [st |-> "open", kind |-> kind, arg |-> arg, ans |-> "none", last |-> 0]
     /\ UNCHANGED vt
  \/ vt' = "failed" /\ UNCHANGED wire

\* connect: remote_query needs nothing, though sqlite may find no plan for it;
\* columns=... are taken, otherwise the peer is probed.  This happens when the
\* first statement that names the table is prepared.
connect(r) ==
  /\ IsRemote(r) /\ jpc = "header" /\ vt = "connect" /\ ~Blocked
  /\ \/ IsCall /\ remote_query_index(plan.args).refused /\ vt' = "failed" /\ UNCHANGED wire
     \/ IsCall /\ ~remote_query_index(plan.args).refused /\ vt' = "ready" /\ UNCHANGED wire
     \/ ~IsCall /\ plan.columns /\ vt' = "ready" /\ UNCHANGED wire
     \/ ~IsCall /\ ~plan.columns /\ run_blocking("probe", None)
  /\ UNCHANGED <<vars, plan, strays, ptable, cursor, pos, insertId, wrote, snapshot, others>>

\* update, delete and insert: the statement for one row, at `id`, which an update
\* may move.  An update sends every column, those it does not change as the scan
\* read them.
RowWrite(i) ==
  CASE plan.op = "update" -> [op |-> "update", id |-> Matching[i].id, n |-> i,
                              to |-> IF plan.rowid # 0 THEN plan.rowid ELSE Matching[i].id,
                              row |-> [c \in {"a", "b"} |-> IF c \in DOMAIN plan.set
                                         THEN plan.set[c] ELSE Matching[i].row[c]]]
    [] plan.op = "delete" -> [op |-> "delete", id |-> Matching[i].id, n |-> i]
    [] plan.op \in {"insert", "call"} -> [op |-> "insert", id |-> plan.rowid, n |-> i,
                                          row |-> plan.set]

\* filter: one request fetches every row; a remote_query sends its signal, which
\* may be a write.
filter(r) ==
  /\ IsRemote(r) /\ jpc = "stmt" /\ vt = "ready" /\ ~Blocked
  /\ CASE IsCall /\ ~remote_query_index(plan.args).complete ->
            vt' = "failed" /\ UNCHANGED wire
       [] plan.op = "call" /\ remote_query_index(plan.args).complete ->
            run_blocking("write", RowWrite(1))
       [] Scans /\ (IsCall => remote_query_index(plan.args).complete) ->
            run_blocking("scan", Split.clause)
       [] plan.op = "insert" -> vt' = "rows" /\ UNCHANGED wire
  /\ UNCHANGED <<vars, plan, strays, ptable, cursor, pos, insertId, wrote, snapshot, others>>

exec(r) ==
  /\ IsRemote(r) /\ jpc = "stmt" /\ vt = "rows" /\ ~Blocked
  /\ Writes /\ pos < Rows
  /\ run_blocking("write", RowWrite(pos + 1))
  /\ UNCHANGED <<vars, plan, strays, ptable, cursor, pos, insertId, wrote, snapshot, others>>

\* Mutant: a write that failed is passed over.
Resume_passes ==
  /\ wire.st = "over"
  /\ wire' = NoCall
  /\ vt' = (IF wire.kind = "write" THEN "rows" ELSE IF wire.ans # "ok" THEN "failed"
            ELSE IF wire.kind = "probe" THEN "ready" ELSE "rows")
  /\ pos' = (IF wire.kind = "write" THEN pos + 1 ELSE pos)
  /\ UNCHANGED <<vars, plan, strays, ptable, cursor, insertId, wrote, snapshot, others>>

\* Mutant: the cursor ends with the first row that is written.
Resume_one ==
  /\ wire.st = "over"
  /\ wire' = NoCall
  /\ vt' = (IF wire.ans # "ok" THEN "failed" ELSE IF wire.kind = "probe" THEN "ready" ELSE "rows")
  /\ pos' = (IF wire.kind = "write" /\ wire.ans = "ok" THEN Rows ELSE pos)
  /\ UNCHANGED <<vars, plan, strays, ptable, cursor, insertId, wrote, snapshot, others>>

\* rx.recv_timeout returns: the callback gives sqlite a result or an error.
Resume ==
  /\ wire.st = "over"
  /\ wire' = NoCall
  /\ vt' = (IF wire.ans # "ok" THEN "failed" ELSE IF wire.kind = "probe" THEN "ready" ELSE "rows")
  /\ pos' = (IF wire.kind = "write" /\ wire.ans = "ok" THEN pos + 1 ELSE pos)
  /\ UNCHANGED <<vars, plan, strays, ptable, cursor, insertId, wrote, snapshot, others>>

-----------------------------------------------------------------------------
(* The task on the runtime, and the peer. *)

Answered1(ans) == wire' = [wire EXCEPT !.st = "over", !.ans = ans]

\* run_remote: open, send, finish.
SendRequest ==
  /\ wire.st = "open"
  /\ \/ wire' = [wire EXCEPT !.st = "sent"]
     \/ Answered1("failed")
  /\ UNCHANGED <<vars, plan, vt, strays, ptable, cursor, pos, insertId, wrote, snapshot, others>>

\* The rowid a write ends at: an insert without one gets the next.
At(w) == CASE w.op = "update" -> w.to
           [] w.op = "insert" /\ w.id = 0 -> Max({0} \cup DOMAIN ptable) + 1
           [] w.op = "delete" \/ (w.op = "insert" /\ w.id # 0) -> w.id

\* A row of the peer's table is written, unless it is not there any more.
Wrote(w) ==
  LET put(ids, row) == [x \in ids \cup {At(w)} |-> IF x = At(w) THEN row ELSE ptable[x]]
  IN  /\ ptable' = CASE w.op = "delete" -> [x \in DOMAIN ptable \ {w.id} |-> ptable[x]]
                     [] w.op = "update" -> IF w.id \notin DOMAIN ptable THEN ptable
                                           ELSE put(DOMAIN ptable \ {w.id}, w.row)
                     [] w.op = "insert" -> put(DOMAIN ptable, w.row)
      /\ wrote' = Append(wrote, [n |-> w.n, at |-> At(w)])

\* The peer serves it: its own gates and limits apply, and a scan may be truncated,
\* which the surface does not look at.
PeerServes ==
  /\ wire.st = "sent"
  /\ \/ /\ wire.kind = "write"
        /\ Wrote(wire.arg) /\ wire' = [wire EXCEPT !.st = "served", !.last = At(wire.arg)]
        /\ UNCHANGED <<cursor, snapshot>>
     \/ /\ wire.kind = "scan"
        /\ LET found == Select(ptable, wire.arg)
           IN  \/ cursor' = found /\ snapshot' = ptable
              \/ /\ Cardinality(found) > plan.limit
                 /\ cursor' = Cut(found, plan.limit) /\ snapshot' = None
        /\ wire' = [wire EXCEPT !.st = "served"] /\ UNCHANGED <<ptable, wrote>>
     \/ /\ wire.kind = "probe"
        /\ wire' = [wire EXCEPT !.st = "served"]
        /\ UNCHANGED <<cursor, snapshot, ptable, wrote>>
     \/ /\ Answered1("failed")
        /\ UNCHANGED <<cursor, snapshot, ptable, wrote>>
  /\ UNCHANGED <<vars, plan, vt, strays, pos, insertId, others>>

\* The frames are read to Done, or the stream breaks before it, or what it carries
\* is not the answer to this request (no columns, no integer rowid).
ReadReply ==
  /\ wire.st = "served"
  /\ \/ /\ Answered1("ok")
        /\ insertId' = IF wire.kind = "write" /\ plan.op = "insert"
                       THEN IF plan.rowid # 0 THEN plan.rowid ELSE wire.last
                       ELSE insertId
     \/ Answered1("failed") /\ UNCHANGED insertId
  /\ UNCHANGED <<vars, plan, vt, strays, ptable, cursor, pos, wrote, snapshot, others>>

\* Mutant: only the dial has a deadline.
Elapsed_dialOnly ==
  /\ wire.st = "open"
  /\ Answered1("failed")
  /\ UNCHANGED <<vars, plan, vt, strays, ptable, cursor, pos, insertId, wrote, snapshot, others>>

\* tokio::time::timeout around the whole exchange, or the grace of recv_timeout
\* if the runtime is wedged.  What was sent may yet be served.
Elapsed ==
  /\ wire.st \in {"open", "sent", "served"}
  /\ Answered1("failed")
  /\ strays' = IF wire.st = "sent" /\ wire.kind = "write" THEN strays \cup {wire.arg} ELSE strays
  /\ UNCHANGED <<vars, plan, vt, ptable, cursor, pos, insertId, wrote, snapshot, others>>

\* The peer serves a request whose caller gave up, or sees that it did.
StrayServed(w) ==
  /\ strays' = strays \ {w}
  /\ Wrote(w) \/ UNCHANGED <<ptable, wrote>>
  /\ UNCHANGED <<vars, plan, vt, wire, cursor, pos, insertId, snapshot, others>>

\* Somebody else writes a row at the peer.
OtherWrites ==
  /\ others # <<>>
  /\ ptable' = [x \in DOMAIN ptable |->
                  IF x = Head(others).id THEN Head(others).row ELSE ptable[x]]
  /\ others' = Tail(others)
  /\ UNCHANGED <<vars, plan, vt, wire, strays, cursor, pos, insertId, wrote, snapshot>>

-----------------------------------------------------------------------------
(* The two together. *)

\* A statement goes on with its tables: it is prepared, if the ledger does not answer it,
\* once they are connected, gives rows once they are scanned, ends well once all rows are
\* written, and fails with them.
InStep ==
  job = plan.by =>
    /\ jpc = "header" /\ vt \in {"connect", "failed"} => jpc' # "ready"
    /\ jpc = "header" /\ vt # "connect" => committed' = committed
    /\ jpc = "stmt" /\ vt \in {"ready", "failed"} => jpc' \notin {"push", "commit"}
    /\ jpc = "stmt" /\ vt = "rows" =>
         /\ jpc' = "push" => plan.op = "select"
         /\ jpc' = "commit" => ~Writes \/ pos = Rows

RThreadStep == ThreadStep /\ ~Blocked /\ InStep /\ UNCHANGED remoteVars
RCallerStep == /\ CallerStep /\ UNCHANGED remoteVars
               /\ \A t \in Tasks \ plan.tasks : pc'[t] = pc[t]
RDriver(r) == (TimerStep(r) \/ DriverStep(r) \/ ClientStep(r)) /\ UNCHANGED remoteVars
TableStep == Resume \/ \E r \in Requests : connect(r) \/ filter(r) \/ exec(r)

RNext ==
  \/ RThreadStep \/ RCallerStep \/ TableStep
  \/ Panic /\ ~Blocked /\ UNCHANGED remoteVars
  \/ CloserStep /\ UNCHANGED remoteVars
  \/ \E r \in Requests : RDriver(r)
  \/ SendRequest \/ PeerServes \/ ReadReply \/ Elapsed \/ OtherWrites
  \/ \E w \in strays : StrayServed(w)

RSpec == RInit /\ [][RNext]_rvars

\* As in DbThread; and the runtime has a timer.  The peer need not do anything: it may itself be
\* blocked in a table of this node.
RFairSpec ==
  /\ RSpec /\ WF_rvars(RThreadStep \/ TableStep) /\ WF_rvars(CloserStep /\ UNCHANGED remoteVars)
  /\ WF_rvars(Elapsed)
  /\ \A r \in Requests : /\ WF_rvars(TimerStep(r) /\ UNCHANGED remoteVars)
                         /\ WF_rvars(DriverStep(r) /\ UNCHANGED remoteVars)
                         /\ WF_rvars(ClientStep(r) /\ UNCHANGED remoteVars)

-----------------------------------------------------------------------------
(* Properties. *)

\* The thread's state is well formed, and a thread that is blocked has a job whose statement
\* names a remote table.  Nothing that was submitted after a close() returned has run.
ThreadSound ==
  /\ TypeOK /\ NothingRunsAfterClose
  /\ Blocked => job \in Requests /\ job = plan.by /\ jpc \in {"header", "stmt"}

\* What sqlite works on is what the peer's table held at one moment, restricted by the whole
\* WHERE, whichever part of it was evaluated where (best_index, filter).
PushdownExact ==
  vt = "rows" /\ Scans /\ snapshot # None => Checked = Select(snapshot, plan.where)

\* The writes of a statement reach the peer once each, in order and without a gap, those of a
\* call that was given up included (exec, run_blocking).
WritesInOrder == \A i \in DOMAIN wrote : wrote[i].n = i

\* A statement that was answered as done wrote every row it had to, and an insert reports the
\* rowid its row got at the peer.
DoneMeansWritten ==
  plan.by # None /\ told[plan.by] = "done" /\ vt = "rows" /\ Writes =>
    Len(wrote) = Rows /\ (plan.op = "insert" => insertId = wrote[1].at)

\* A remote table tells the truth about the peer's.
RemoteTruly == PushdownExact /\ WritesInOrder /\ DoneMeansWritten
=============================================================================
