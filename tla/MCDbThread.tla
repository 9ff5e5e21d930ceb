----------------------------- MODULE MCDbThread -----------------------------
(* Small instances of DbThread and RemoteTables for TLC. *)
EXTENDS RemoteTables

CONSTANTS c1, q1, k1, k2

Row(a, b) == [a |-> a, b |-> b]
Where(col, op, val, usable) == [col |-> col, op |-> op, val |-> val, usable |-> usable]

\* A statement on local tables, with everything else that can use the thread.
Local ==
  [tasks |-> Tasks, by |-> None, op |-> "none", columns |-> TRUE, where |-> {}, set |-> <<>>,
   rowid |-> 0, args |-> {}, table |-> <<>>, limit |-> 9, others |-> <<>>]

\* One on a peer's table.
Remote(op, columns, where) ==
  [Local EXCEPT !.tasks = {q1}, !.by = q1, !.op = op, !.columns = columns,
                !.where = where,
                !.table = <<Row(1, 1), Row(1, 2)>>]

\* The hidden columns of remote_query.
RqArgs(op) == {Where("peer", op, 0, TRUE), Where("signal", "=", 0, TRUE)}

\* Two closes beside a call and beside a request, and one beside both.
MCLocal == {[Local EXCEPT !.tasks = ts] : ts \in {{c1, k1, k2}, {q1, k1, k2}, {c1, q1, k1}}}

MCPlans == MCLocal \cup {
   [Remote("select", FALSE, {Where("a", "=", 1, TRUE), Where("b", "isnot", 1, TRUE)})
      EXCEPT !.limit = 1, !.tasks = {q1, k1}],
   [Remote("update", TRUE, {Where("a", "=", 1, TRUE), Where("b", "<", 2, FALSE)})
      EXCEPT !.set = [b |-> 3], !.rowid = 5, !.others = <<[id |-> 1, row |-> Row(2, 1)]>>],
   [Remote("update", TRUE, {Where("rowid", "<>", 3, TRUE)}) EXCEPT !.set = [b |-> 3]],
   Remote("delete", TRUE, {Where("a", "<", 2, TRUE)}),
   [Remote("insert", TRUE, {}) EXCEPT !.set = Row(2, 2)],
   [Remote("insert", TRUE, {}) EXCEPT !.set = Row(2, 2), !.rowid = 5],
   \* remote_query with a SELECT and with an INSERT, and without a usable peer.
   [Remote("select", TRUE, {Where("b", "isnot", 1, TRUE)}) EXCEPT !.args = RqArgs("=")],
   [Remote("call", TRUE, {}) EXCEPT !.args = RqArgs("="), !.set = Row(2, 2)],
   [Remote("call", TRUE, {}) EXCEPT !.args = RqArgs("<"), !.set = Row(2, 2)],
   [Remote("call", TRUE, {}) EXCEPT !.args = {Where("peer", "=", 0, FALSE)}]}
=============================================================================
