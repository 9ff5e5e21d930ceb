-------------------------------- MODULE Chat --------------------------------
(***************************************************************************)
(* Chat between nodes: the receiving handler (crates/node/src/chat.rs), the *)
(* `rsntr chat` commands that write a node's tables and queue deliveries   *)
(* (crates/cli/src/chat.rs) and `rsntr peer remove` (peercmd.rs).          *)
(*                                                                         *)
(* A command is a process of its own: it reads the database once, then     *)
(* sends its statements one Execute at a time, and may die between two of  *)
(* them.  The handler is one job of the db thread.  Deliveries are those   *)
(* of the outbox worker, with answers that get lost.  There is one room.   *)
(***************************************************************************)
EXTENDS Naturals, Sequences, FiniteSets, SequencesExt

CONSTANTS
  Nodes,      \* endpoint ids
  Host,       \* the node that creates the room
  Workloads,  \* sequences of sets of commands, each to be run once and
              \* together, when those before it are through
  Scaffolded, \* nodes where `rsntr chat init` has been run
  MaxFaults,  \* bound on killed commands and lost answers
  None        \* an absent field or row

Room == "urn:rsntr:room"
Direct == "chat:direct"

Commands == UNION {UNION Range(w) : w \in Workloads}

\* Commands that give a message an id of its own.
Posts(c) == c.op \in {"send", "raw"}

\* The arguments of a command.  A room has a fresh IRI and so one creator, and
\* nobody joins a room at itself, or removes itself.  An application that writes
\* `_outbox` itself names no message, author or blob of others.
IsCommand(c) ==
  /\ {"n", "op"} \subseteq DOMAIN c /\ "of" \notin DOMAIN c /\ c.n \in Nodes
  /\ c.op \in {"init", "send", "create", "add", "join", "remove", "raw"}
  /\ c.op = "create" => c.n = Host
  /\ c.op \in {"add", "join", "remove"} => c.p \in Nodes \ {c.n}
  /\ c.op = "send" => /\ c.to \in (Nodes \ {c.n}) \cup {Room} /\ c.text # None
                      /\ c.file \in BOOLEAN /\ c.socket \in BOOLEAN
  /\ c.op = "raw" => /\ c.to \in Nodes \ {c.n}
                     /\ \A p \in c.wire : p[1] \notin {"id", "from", "hash"}

ASSUME NodesAssumption == /\ IsFiniteSet(Nodes) /\ Host \in Nodes /\ Scaffolded \subseteq Nodes
ASSUME FaultsAssumption == MaxFaults \in Nat
ASSUME CommandsAssumption == \A c \in Commands : IsCommand(c) /\ c # None
ASSUME WorkloadsAssumption ==
  \A w \in Workloads :
    /\ w \in Seq(SUBSET Commands) /\ w # <<>>
    /\ \A i, j \in DOMAIN w : \A c \in w[i] \cap w[j] : Posts(c) => i = j
ASSUME NoneAssumption ==
  None \notin Nodes \cup {Room, "big", "preview", "spill", "file", "label",
                      "protocol-error", "limit-exceeded"}

VARIABLES
  db,       \* a node's tables
  outbox,   \* `_outbox` rows of every node
  blobs,    \* the messages whose text is in a node's blob store
  todo,     \* sets of commands still to be given
  run,      \* statements left to the commands that are running
  faults,
  crossed,  \* removals that a command putting rows back ran across
  gone,     \* <<node, peer>>: removed, with no such command, and not addressed since
  heard     \* <<id, member>>: on the roster when the host took the message

vars == <<db, outbox, blobs, todo, run, faults, crossed, gone, heard>>

\* CHAT_TABLES_DDL, the view, the projection points, and the modulation in
\* `_rsntr`, which `rsntr init` already writes.
Parts == {"tables", "view", "points", "comments", "mods"}

NewDb(n) ==
  [have    |-> IF n \in Scaffolded THEN Parts ELSE {"mods"},
   msgs    |-> <<>>,           \* by message id
   host    |-> None,           \* the room's row in chat_rooms
   members |-> {},
   policy  |-> IF n \in Scaffolded THEN {<<"*", Direct>>} ELSE {},
   peers   |-> Nodes \ {n},
   applied |-> {}]

Init ==
  /\ db = [n \in Nodes |-> NewDb(n)]
  /\ outbox = {} /\ blobs = [n \in Nodes |-> {}]
  /\ todo \in Workloads
  /\ run = <<>> /\ faults = 0 /\ crossed = {} /\ gone = {} /\ heard = {}

Put(f, x, v) == [y \in DOMAIN f \cup {x} |-> IF y = x THEN v ELSE f[y]]
Drop(f, x) == [y \in DOMAIN f \ {x} |-> f[y]]

\* The author and the text of a message are those of the command it is from.
Author(id) == id.n
Attached(c) == c.file \/ c.text = "big"

-----------------------------------------------------------------------------
(* Messages on the wire: sets of <<predicate, object>>. *)

Fields == {"id", "from", "room", "body", "re", "hash", "name", "room_name"}
Blank == [f \in Fields |-> None]

\* A field that is None is not written, and the room's label only with it.
message_to_turtle(m) ==
  {<<"a", "Message">>} \cup
  {<<f, m[f]>> : f \in {g \in Fields : /\ m[g] # None
                                       /\ g = "room_name" => m.room # None
                                       /\ g = "name" => m.hash # None}}

\* A body over the ceiling, or a `re` out of its bounds, and so on.
validate_thread_fields(re) == re # "long"

parse_message(w) ==
  LET field(f) == IF \E p \in w : p[1] = f
                  THEN (CHOOSE p \in w : p[1] = f)[2] ELSE None
      m == [f \in Fields |-> field(f)]
  IN IF <<"a", "Message">> \notin w \/ m.body = None THEN [err |-> "protocol-error"]
     ELSE IF m.body = "big" THEN [err |-> "limit-exceeded"]
     ELSE IF ~validate_thread_fields(m.re) THEN [err |-> "protocol-error"]
     ELSE IF m.hash = None /\ m.name # None THEN [err |-> "protocol-error"]
     ELSE [err |-> None, msg |-> m]

-----------------------------------------------------------------------------
(* The handler.  It returns what it answers, the tables and new rows. *)

\* The policy tier's answer; PolicyTier has the rest of the chain.
Allows(d, peer, resource) == {<<peer, resource>>, <<"*", resource>>} \cap d.policy # {}

\* Who is trusted about what.
Role(d, n, peer, m) ==
  LET from == IF m.from = None THEN peer ELSE m.from
      role(res, sender, scope, fan, bind) ==
        [resource |-> res, sender |-> sender, scope |-> scope, fan |-> fan, bind |-> bind]
  IN IF m.room = None THEN role(Direct, peer, peer, FALSE, d.host)
     ELSE IF d.host = n THEN role(Room, peer, Room, TRUE, n)
     ELSE role(Direct, from, Room, FALSE, IF d.host = None THEN peer ELSE d.host)

\* The k-th row for a message and a recipient.
NewRow(n, id, to, wire) ==
  LET k == Cardinality({r \in outbox : r.n = n /\ r.id = id /\ r.to = to}) + 1
  IN [n |-> n, id |-> id, to |-> to, k |-> k, rid |-> [n |-> n, of |-> id, to |-> to, k |-> k],
      wire |-> wire, st |-> "queued"]

\* Mutant: the author is left out of what the host passes on.
FanOut_noAuthor(d, n, id, m, sender) ==
  LET out == [m EXCEPT !.id = id, !.room = Room, !.room_name = "label"]
  IN {NewRow(n, id, p, message_to_turtle(out)) : p \in d.members \ {sender, n}}

\* Mutant: the host is sent its own room's messages.
FanOut_toSelf(d, n, id, m, sender) ==
  LET out == [m EXCEPT !.id = id, !.from = sender, !.room = Room, !.room_name = "label"]
  IN {NewRow(n, id, p, message_to_turtle(out)) : p \in d.members \ {sender}}

\* Fresh request ids, the original message id and authorship.
FanOut(d, n, id, m, sender) ==
  LET out == [m EXCEPT !.id = id, !.from = sender, !.room = Room, !.room_name = "label"]
  IN {NewRow(n, id, p, message_to_turtle(out)) : p \in d.members \ {sender, n}}

Reply(out, d, rows) == [out |-> out, db |-> d, rows |-> rows]

Entry(m, sender, scope, outgoing) ==
  [sender |-> sender, scope |-> scope, body |-> m.body, hash |-> m.hash,
   name |-> m.name, re |-> m.re, outgoing |-> outgoing]

\* Mutant: INSERT OR REPLACE, and no look at the ledger.
apply_message_replaces(d, n, rid, m, role) ==
  LET id == IF m.id = None THEN rid ELSE m.id
  IN Reply("applied",
           [d EXCEPT !.host = role.bind, !.applied = @ \cup {rid},
                     !.msgs = Put(@, id, Entry(m, role.sender, role.scope, FALSE))],
           IF role.fan THEN FanOut(d, n, id, m, role.sender) ELSE {})

\* One transaction: replay, binding, append, fan-out, ledger.
apply_message(d, n, rid, m, role) ==
  LET id  == IF m.id = None THEN rid ELSE m.id
      new == id \notin DOMAIN d.msgs
  IN IF rid \in d.applied THEN Reply("applied", d, {})
     ELSE Reply("applied",
                [d EXCEPT !.host = role.bind, !.applied = @ \cup {rid},
                          !.msgs = IF new THEN Put(@, id, Entry(m, role.sender, role.scope, FALSE))
                                   ELSE @],
                IF role.fan /\ new THEN FanOut(d, n, id, m, role.sender) ELSE {})

\* The handler creates what is missing of the tables and the view.
ensure_chat_columns(d) == [d EXCEPT !.have = @ \cup {"tables", "view"}]

\* On the owner lane there is neither a peer gate nor a chain.
handle_chat(n, peer, rid, wire, owner) ==
  LET d == db[n]
      parsed == parse_message(wire)
      ready == ensure_chat_columns(d)
  IN IF ~owner /\ peer \notin d.peers THEN Reply("denied", d, {})
     ELSE IF "mods" \notin d.have THEN Reply("error", d, {})
     ELSE IF parsed.err # None THEN Reply("error", ready, {})
     ELSE LET m == parsed.msg
              role == Role(d, n, peer, m)
          IN IF m.room # None /\ d.host \notin {None, n, peer} THEN Reply("denied", ready, {})
             ELSE IF ~owner /\ ~Allows(d, peer, role.resource) THEN Reply("denied", ready, {})
             ELSE apply_message(ready, n, rid, m, role)

-----------------------------------------------------------------------------
(* Commands: what each reads when it starts, and its statements. *)

IsReady(n) == "tables" \in db[n].have
Preview(c) == IF c.text = "big" THEN "preview" ELSE c.text

\* The wire form of a message sent with `rsntr chat send`.
Outgoing(c) ==
  [Blank EXCEPT !.id = c, !.body = Preview(c), !.re = c.re,
                !.hash = IF Attached(c) THEN c ELSE None,
                !.name = IF c.text = "big" THEN "spill" ELSE IF c.file THEN "file" ELSE None]

\* The mods entry is written only if it was missing when the command began.
chat_init_with(c) ==
  <<<<"have", "tables">>, <<"have", "view">>, <<"have", "points">>, <<"have", "comments">>,
    <<"policy", "*", Direct>>, <<"policy", c.n, "chat_messages">>>>
  \o (IF "mods" \in db[c.n].have THEN <<>> ELSE <<<<"have", "mods">>>>)

\* A room resolves before a peer; a room nobody told this node of does not.
resolve_target(c) == c.to # Room \/ db[c.n].host # None

\* The delivery: to the peer, to the host, or, by the host, to every member
\* on the roster at that moment.
Enqueues(c) ==
  IF c.to # Room THEN <<<<"enqueue", c.to, c, message_to_turtle(Outgoing(c))>>>>
  ELSE IF db[c.n].host = c.n THEN <<<<"roster">>>>
  ELSE <<<<"enqueue", db[c.n].host, c, message_to_turtle([Outgoing(c) EXCEPT !.room = Room])>>>>

\* Mutant: over the socket the file is handed over once all is queued.
chat_send_opts_importsLast(c) ==
  (IF Attached(c) /\ ~c.socket THEN <<<<"import">>>> ELSE <<>>)
  \o <<<<"append">>>> \o Enqueues(c)
  \o (IF Attached(c) /\ c.socket THEN <<<<"handover">>>> ELSE <<>>)

chat_send_opts(c) ==
  (IF Attached(c) /\ ~c.socket THEN <<<<"import">>>> ELSE <<>>)
  \o <<<<"append">>>>
  \o (IF Attached(c) /\ c.socket THEN <<<<"handover">>>> ELSE <<>>)
  \o Enqueues(c)

room_create_with(c) == <<<<"bind", c.n>>, <<"member", c.n>>>>
room_add_with(c) == <<<<"member", c.p>>, <<"policy", c.p, Room>>>>
room_join_with(c) == <<<<"bind", c.p>>>>

\* Mutant: memberships go after the deliveries.
peer_remove_with_membersLast(c) ==
  <<<<"forget", c.p>>, <<"revoke", c.p>>, <<"cancel", c.p>>>>
  \o (IF IsReady(c.n) THEN <<<<"unroster", c.p>>>> ELSE <<>>)

\* `_decisions` is Admission's.
peer_remove_with(c) ==
  <<<<"forget", c.p>>, <<"revoke", c.p>>>>
  \o (IF IsReady(c.n) THEN <<<<"unroster", c.p>>>> ELSE <<>>)
  \o <<<<"cancel", c.p>>>>

\* What is left of the workload, without sets that are through.
Work == IF Head(todo) = {} /\ run = <<>> /\ Len(todo) > 1 THEN Tail(todo) ELSE todo

\* The checks a command makes before its first statement.
Accepted(c) ==
  CASE c.op = "send"   -> IsReady(c.n) /\ resolve_target(c) /\ ~(c.text = "big" /\ c.file)
    [] c.op = "create" -> IsReady(c.n)
    [] c.op = "add"    -> IsReady(c.n) /\ db[c.n].host = c.n /\ c.p \in db[c.n].peers
    [] c.op = "join"   -> IsReady(c.n)
    [] OTHER -> TRUE

\* "raw" is an application that writes `_outbox` itself.
Statements(c) ==
  CASE c.op = "init"   -> chat_init_with(c)
    [] c.op = "send"   -> chat_send_opts(c)
    [] c.op = "create" -> room_create_with(c)
    [] c.op = "add"    -> room_add_with(c)
    [] c.op = "join"   -> room_join_with(c)
    [] c.op = "remove" -> peer_remove_with(c)
    [] c.op = "raw"    -> <<<<"enqueue", c.to, c, c.wire>>>>

\* Commands that may put back what a removal takes away.
PutsBack(c) == c.op \in {"add", "send", "raw"}
\* The peer whose removal such a command undoes.
Addressed(c) ==
  CASE c.op = "add" -> {c.p}
    [] c.op = "raw" -> {c.to}
    [] c.op = "send" -> {IF c.to = Room THEN db[c.n].host ELSE c.to}
    [] OTHER -> {}
Running(n) == {d \in DOMAIN run : d.n = n}

Begin(c) ==
  /\ c \in Head(Work)
  /\ todo' = [Work EXCEPT ![1] = @ \ {c}]
  /\ run' = IF Accepted(c) THEN Put(run, c, Statements(c)) ELSE run
  /\ crossed' = crossed \cup
       (IF PutsBack(c) THEN {d \in Running(c.n) : d.op = "remove"}
        ELSE IF c.op = "remove" /\ \E d \in Running(c.n) : PutsBack(d) THEN {c} ELSE {})
  /\ gone' = gone \ ({c.n} \X Addressed(c))
  /\ UNCHANGED <<db, outbox, blobs, faults, heard>>

\* One more statement done.
Next1(c, more) == LET rest == more \o Tail(run[c])
                  IN run' = IF rest = <<>> THEN Drop(run, c) ELSE Put(run, c, rest)

Statement(c) == Head(run[c])
Writes(c, d) == /\ db' = [db EXCEPT ![c.n] = d]
                /\ Next1(c, <<>>)
                /\ UNCHANGED <<outbox, blobs, todo, faults, crossed, gone, heard>>

\* The owner's Executes on the tables.
Execute(c) ==
  LET s == Statement(c)
      d == db[c.n]
  IN /\ c \in DOMAIN run
     /\ \/ s[1] = "have"     /\ Writes(c, [d EXCEPT !.have = @ \cup {s[2]}])
        \/ s[1] = "policy"   /\ Writes(c, [d EXCEPT !.policy = @ \cup {<<s[2], s[3]>>}])
        \/ s[1] = "bind"     /\ Writes(c, [d EXCEPT !.host = s[2]])
        \/ s[1] = "member"   /\ Writes(c, [d EXCEPT !.members = @ \cup {s[2]}])
        \/ s[1] = "forget"   /\ Writes(c, [d EXCEPT !.peers = @ \ {s[2]}])
        \/ s[1] = "revoke"   /\ Writes(c, [d EXCEPT !.policy = {r \in @ : r[1] # s[2]}])
        \/ s[1] = "unroster" /\ Writes(c, [d EXCEPT !.members = @ \ {s[2]}])

\* Local history keeps the full text, and the file's name.
LocalAppend(c) ==
  /\ c \in DOMAIN run /\ Statement(c)[1] = "append"
  /\ Writes(c, [db[c.n] EXCEPT !.msgs =
       Put(@, c, Entry([Outgoing(c) EXCEPT !.body = c.text], c.n, c.to, TRUE))])

\* In process, the command writes the blob store itself.
Import(c) ==
  /\ c \in DOMAIN run /\ Statement(c)[1] = "import"
  /\ blobs' = [blobs EXCEPT ![c.n] = @ \cup {c}]
  /\ Next1(c, <<>>)
  /\ UNCHANGED <<db, outbox, todo, faults, crossed, gone, heard>>

\* Over the socket the serving process imports the file, then runs the chat
\* handler for its owner.
serve_chat_owner(c) ==
  /\ c \in DOMAIN run /\ Statement(c)[1] = "handover"
  /\ blobs' = [blobs EXCEPT ![c.n] = @ \cup {c}]
  /\ LET r == handle_chat(c.n, c.n, [n |-> c.n, file |-> c], message_to_turtle(Outgoing(c)), TRUE)
     IN /\ db' = [db EXCEPT ![c.n] = r.db]
        /\ outbox' = outbox \cup r.rows
        /\ IF r.out = "applied" THEN Next1(c, <<>>) ELSE run' = Drop(run, c)
  /\ UNCHANGED <<todo, faults, crossed, gone, heard>>

Roster(c) ==
  /\ c \in DOMAIN run /\ Statement(c)[1] = "roster"
  /\ LET wire == message_to_turtle([Outgoing(c) EXCEPT !.from = c.n, !.room = Room,
                                                       !.room_name = "label"])
         to == SetToSeq(db[c.n].members \ {c.n})
     IN Next1(c, [i \in DOMAIN to |-> <<"enqueue", to[i], None, wire>>])
  /\ UNCHANGED <<db, outbox, blobs, todo, faults, crossed, gone, heard>>

\* The message id is the request id of a single delivery.
Enqueue(c) ==
  /\ c \in DOMAIN run /\ Statement(c)[1] = "enqueue"
  /\ LET s == Statement(c)
         row == NewRow(c.n, c, s[2], s[4])
     IN outbox' = outbox \cup {IF s[3] = None THEN row ELSE [row EXCEPT !.rid = s[3]]}
  /\ Next1(c, <<>>)
  /\ UNCHANGED <<db, blobs, todo, faults, crossed, gone, heard>>

\* The last statement of a removal.
Cancel(c) ==
  /\ c \in DOMAIN run /\ Statement(c)[1] = "cancel"
  /\ LET p == Statement(c)[2] IN
     /\ outbox' = {IF r.n = c.n /\ r.to = p /\ r.st = "queued" THEN [r EXCEPT !.st = "error"]
                   ELSE r : r \in outbox}
     /\ gone' = IF c \in crossed THEN gone ELSE gone \cup {<<c.n, p>>}
  /\ Next1(c, <<>>)
  /\ UNCHANGED <<db, blobs, todo, faults, crossed, heard>>

\* The command is killed, or a statement of it fails.
Abort(c) ==
  /\ c \in DOMAIN run /\ faults < MaxFaults
  /\ faults' = faults + 1 /\ run' = Drop(run, c)
  /\ UNCHANGED <<db, outbox, blobs, todo, crossed, gone, heard>>

-----------------------------------------------------------------------------
(* Deliveries, and what readers do with a spilled body. *)

\* Mutant: whatever the peer answered, it has answered.
answer_chat_outcome_any(out) == IF out = "error" THEN out ELSE "done"

\* How the sender's worker books the answer.
answer_chat_outcome(out) == IF out = "applied" THEN "done" ELSE out

\* Mutant: a delivery whose answer was lost counts as done.
Deliver_lostIsDone(r, lost) ==
  /\ r \in outbox /\ r.st = "queued" /\ (lost => faults < MaxFaults)
  /\ LET h == handle_chat(r.to, r.n, r.rid, r.wire, FALSE) IN
     /\ db' = IF lost THEN db ELSE [db EXCEPT ![r.to] = h.db]
     /\ outbox' = (outbox \ {r}) \cup (IF lost THEN {} ELSE h.rows) \cup {[r EXCEPT !.st = "done"]}
     /\ heard' = heard \cup {<<x.id, x.to>> : x \in h.rows}
  /\ faults' = IF lost THEN faults + 1 ELSE faults
  /\ UNCHANGED <<blobs, todo, run, crossed, gone>>

\* The outbox worker sends a row; a row whose answer is lost stays queued.
Deliver(r, lost) ==
  /\ r \in outbox /\ r.st = "queued" /\ (lost => faults < MaxFaults)
  /\ LET h == handle_chat(r.to, r.n, r.rid, r.wire, FALSE) IN
     /\ db' = [db EXCEPT ![r.to] = h.db]
     /\ outbox' = (outbox \ {r}) \cup h.rows \cup
          {IF lost THEN r ELSE [r EXCEPT !.st = answer_chat_outcome(h.out)]}
     /\ heard' = heard \cup {<<x.id, x.to>> : x \in h.rows}
  /\ faults' = IF lost THEN faults + 1 ELSE faults
  /\ UNCHANGED <<blobs, todo, run, crossed, gone>>

is_spilled(e) == ~e.outgoing /\ e.hash # None /\ e.name = "spill"

\* Mutant: the marker goes whatever the fetch brought.
inline_spilled_always(n, id) ==
  /\ id \in DOMAIN db[n].msgs /\ is_spilled(db[n].msgs[id])
  /\ LET e == db[n].msgs[id]
     IN \E body \in {"big", e.body} :
          db' = [db EXCEPT ![n].msgs[id].body = body, ![n].msgs[id].name = None]
  /\ UNCHANGED <<outbox, blobs, todo, run, faults, crossed, gone, heard>>

\* Fetched from its sender, who must have it; a failure changes nothing.
inline_spilled(n, id) ==
  /\ id \in DOMAIN db[n].msgs /\ is_spilled(db[n].msgs[id])
  /\ LET e == db[n].msgs[id] IN
     /\ id \in blobs[e.sender]
     /\ db' = [db EXCEPT ![n].msgs[id].body = "big", ![n].msgs[id].name = None]
  /\ UNCHANGED <<outbox, blobs, todo, run, faults, crossed, gone, heard>>

\* The log of a node: its messages, and for its own the status of the row that
\* has the message's id.
chat_log_filtered(n) ==
  {[id |-> id, entry |-> db[n].msgs[id],
    status |-> {r.st : r \in {x \in outbox : x.n = n /\ x.rid = id}}] : id \in DOMAIN db[n].msgs}

Command(c) == Execute(c) \/ LocalAppend(c) \/ Import(c) \/ serve_chat_owner(c) \/ Roster(c)
              \/ Enqueue(c) \/ Cancel(c)

Next ==
  \/ \E c \in Head(Work) : Begin(c)
  \/ \E c \in DOMAIN run : Command(c)
  \/ \E c \in DOMAIN run : Abort(c)
  \/ \E r \in outbox, lost \in BOOLEAN : Deliver(r, lost)
  \/ \E n \in Nodes : \E id \in DOMAIN db[n].msgs : inline_spilled(n, id)

Spec == Init /\ [][Next]_vars

\* The outbox worker keeps trying; nobody has to give or finish a command.
FairSpec == Spec /\ WF_vars(\E r \in outbox : Deliver(r, FALSE))

-----------------------------------------------------------------------------
TypeOK ==
  /\ \A n \in Nodes :
       /\ db[n].have \subseteq Parts /\ db[n].host \in Nodes \cup {None}
       /\ db[n].members \subseteq Nodes /\ db[n].peers \subseteq Nodes
       /\ \A id \in DOMAIN db[n].msgs : db[n].msgs[id].sender \in Nodes
  /\ \A r \in outbox : r.n \in Nodes /\ r.to \in Nodes \ {r.n}
                       /\ r.st \in {"queued", "done", "denied", "error"}
  /\ \A n \in Nodes : \A c \in blobs[n] : Author(c) = n
  /\ faults \in 0..MaxFaults

\* Whoever a node believes wrote a message wrote it, directly or through the
\* host, also where a room was joined at the wrong host or bound on first use
\* (handle_chat's Plan and the `from` of the fan-out).
AuthorsAreTrue ==
  \A n \in Nodes : \A id \in DOMAIN db[n].msgs : db[n].msgs[id].sender = Author(id)

\* A message goes to a member once, however often its delivery to the host is
\* repeated (apply_message: `_applied`, INSERT OR IGNORE, affected == 1).
FanOutOnce == \A r \in outbox : r.k = 1

\* Once a peer is removed, with no command in the removal's way, it is on no
\* roster and no delivery to it is under way, although members' messages kept
\* arriving and were fanned out between the removal's statements.
RemovalHolds ==
  \A g \in gone : /\ g[2] \notin db[g[1]].members
                  /\ \A r \in outbox : r.n = g[1] /\ r.to = g[2] => r.st # "queued"

\* A node that holds a preview can fetch the text: its author has imported it
\* by then, although appending, importing and queueing are separate steps.
SpillsAreFetchable ==
  \A n \in Nodes : \A id \in DOMAIN db[n].msgs :
    is_spilled(db[n].msgs[id]) => id \in blobs[Author(id)]

\* What a node shows as the text is the text, or a preview marked as one, and
\* a message answers what its author said it answers.
TextsAreTrue ==
  \A n \in Nodes : \A id \in DOMAIN db[n].msgs :
    LET e == db[n].msgs[id] IN
    id.op = "send" => /\ e.re = id.re
                      /\ \/ e.body = id.text
                         \/ e.body = "preview" /\ is_spilled(e)

\* A message the log shows as delivered is stored where it was sent: at the
\* peer, or at the host of its room (the join of `chat log` and chat_log_v).
DeliveredMeansStored ==
  \A n \in Nodes : \A l \in chat_log_filtered(n) :
    "done" \in l.status => \E r \in outbox : r.rid = l.id /\ l.id \in DOMAIN db[r.to].msgs

\* Everyone who was on the roster when the host took a message gets it in the
\* end, or the host's row says why not.
MembersHear ==
  <>[](\A h \in heard :
         \/ h[1] \in DOMAIN db[h[2]].msgs
         \/ \E r \in outbox : /\ r.n = Host /\ r.id = h[1] /\ r.to = h[2]
                             /\ r.st \in {"denied", "error"})

\* What a room shows is true: who wrote a message, what it says and what it answers, each
\* message fanned out once (handle_chat, apply_message, the fan-out).
RoomIsTrue == TypeOK /\ AuthorsAreTrue /\ TextsAreTrue /\ FanOutOnce

\* What the node tells its user about a room holds: a removed peer gets nothing more, a
\* spilled text can be fetched, a message shown as delivered is stored at its receiver.
RoomPromises == RemovalHolds /\ SpillsAreFetchable /\ DeliveredMeansStored
=============================================================================
