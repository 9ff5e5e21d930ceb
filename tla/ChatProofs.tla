----------------------------- MODULE ChatProofs -----------------------------
(***************************************************************************)
(* Proofs, for any nodes, any workload of commands and any number of       *)
(* faults, that what a room shows is true and that what a node tells its   *)
(* user about it holds.                                                    *)
(***************************************************************************)
EXTENDS Chat, FiniteSetTheorems, SequenceTheorems, TLAPS

-----------------------------------------------------------------------------
(* The inductive invariant. *)

\* What parse_message reads of a field.
Field(w, f) == IF \E p \in w : p[1] = f THEN (CHOOSE p \in w : p[1] = f)[2] ELSE None

\* The message that a request id is for: a command's own, one passed on, or a
\* file handed over.
MessageOf(rid) ==
  IF "of" \in DOMAIN rid THEN rid.of ELSE IF "op" \in DOMAIN rid THEN rid ELSE rid.file

\* What is on its way from n to a node about a message is what its author said.
WireTrue(n, to, id, w) ==
  /\ Field(w, "id") \in {None, id}
  /\ Field(w, "from") = None => n = Author(id)
  /\ Field(w, "from") # None =>
       Field(w, "from") = Author(id) /\ to # Host /\ Field(w, "room") # None
  /\ Field(w, "hash") # None => id.op = "send" /\ Attached(id)
  /\ id.op = "send" => /\ Field(w, "re") = id.re /\ Field(w, "body") = Preview(id)
                       /\ (Field(w, "name") = "spill") = (id.text = "big")
                       /\ id.text = "big" => Field(w, "hash") # None

IsRow(r) == r = [n |-> r.n, id |-> r.id, to |-> r.to, k |-> r.k, rid |-> r.rid,
                 wire |-> r.wire, st |-> r.st]

\* A row, which passes a message on only if the node has it, and is done only
\* if the receiver has it.
RowTrue(r) ==
  /\ IsRow(r) /\ r.n \in Nodes /\ r.to \in Nodes \ {r.n} /\ r.k = 1
  /\ r.st \in {"queued", "done", "denied", "error"}
  /\ r.id \in Commands /\ Posts(r.id) /\ MessageOf(r.rid) = r.id
  /\ WireTrue(r.n, r.to, r.id, r.wire)
  /\ Field(r.wire, "id") = None => r.rid = r.id
  /\ Field(r.wire, "hash") # None => r.id \in blobs[Author(r.id)]
  /\ r.n # Author(r.id) => r.id \in DOMAIN db[r.n].msgs
  /\ r.st = "done" => r.id \in DOMAIN db[r.to].msgs

IsEntry(e) == e = [sender |-> e.sender, scope |-> e.scope, body |-> e.body, hash |-> e.hash,
                   name |-> e.name, re |-> e.re, outgoing |-> e.outgoing]

\* A stored message, where b are the blobs that nodes have.
EntryTrue(b, id, e) ==
  /\ IsEntry(e) /\ id \in Commands /\ Posts(id) /\ e.sender = Author(id)
  /\ id.op = "send" => /\ e.re = id.re
                       /\ e.body = id.text \/ (e.body = "preview" /\ is_spilled(e))
  /\ is_spilled(e) => id.op = "send" /\ id.text = "big" /\ id \in b[Author(id)]

IsDb(d) == d = [have |-> d.have, msgs |-> d.msgs, host |-> d.host, members |-> d.members,
                policy |-> d.policy, peers |-> d.peers, applied |-> d.applied]

\* The tables of a node.  Only the creator is bound to itself, only a node with
\* tables has members, and what it has applied it has stored.
DbTrue(b, n, d) ==
  /\ IsDb(d) /\ d.have \subseteq Parts /\ d.members \subseteq Nodes /\ d.peers \subseteq Nodes
  /\ d.host \in Nodes \cup {None} /\ (d.host = n => n = Host)
  /\ d.members # {} => "tables" \in d.have
  /\ \A id \in DOMAIN d.msgs : EntryTrue(b, id, d.msgs[id])
  /\ \A rid \in d.applied : MessageOf(rid) \in DOMAIN d.msgs

\* A statement of a command that is running.
StatementTrue(c, s) ==
  \/ s[1] = "have" /\ s[2] \in Parts
  \/ s[1] \in {"policy", "forget", "revoke"}
  \/ s[1] = "bind" /\ s[2] \in Nodes /\ (s[2] = c.n => c.n = Host)
  \/ /\ s[1] = "member" /\ s[2] \in Nodes /\ "tables" \in db[c.n].have
     /\ c.op = "add" \/ (c.op = "create" /\ s[2] = c.n)
  \/ s[1] \in {"unroster", "cancel"} /\ c.op = "remove" /\ s[2] = c.p
  \/ s[1] \in {"append", "import", "handover"} /\ c.op = "send"
  \/ s[1] = "roster" /\ c.op = "send" /\ c.n = Host
  \/ /\ s[1] = "enqueue" /\ Posts(c) /\ s[2] \in Nodes \ {c.n} /\ s[3] \in {None, c}
     /\ WireTrue(c.n, s[2], c, s[4]) /\ (Field(s[4], "id") = None => s[3] = c)

\* What comes before what: the text before the deliveries, the roster before the
\* cancellation.
OrderTrue(c, q) ==
  /\ \A i \in 1..Len(q) :
       q[i][1] \in {"enqueue", "roster"} /\ c.op = "send" /\ Attached(c) =>
         c \in blobs[c.n] \/ \E j \in 1..Len(q) : j < i /\ q[j][1] \in {"import", "handover"}
  /\ \A i \in 1..Len(q) :
       q[i][1] = "cancel" /\ c \notin crossed =>
         c.p \notin db[c.n].members \/ \E j \in 1..Len(q) : j < i /\ q[j][1] = "unroster"

\* A message goes to nobody twice.
OnceTrue(c, q) ==
  /\ \A i, j \in 1..Len(q) : q[i][1] = "enqueue" /\ q[j][1] = "enqueue" /\ i # j => q[i][2] # q[j][2]
  /\ \A i \in 1..Len(q) : q[i][1] = "roster" => i = Len(q)
  /\ \A i, j \in 1..Len(q) : ~ (q[i][1] = "roster" /\ q[j][1] = "enqueue")
  /\ \A i \in 1..Len(q), r \in outbox :
       r.n = c.n /\ r.id = c => /\ q[i][1] # "roster"
                                /\ q[i][1] = "enqueue" => q[i][2] # r.to

IsSeq(q) == q \in Seq(Range(q))

\* The commands that are running.
RunInv ==
  /\ DOMAIN run \subseteq Commands
  /\ \A c \in DOMAIN run : /\ IsSeq(run[c]) /\ run[c] # <<>>
                           /\ \A i \in 1..Len(run[c]) : StatementTrue(c, run[c][i])
                           /\ OrderTrue(c, run[c]) /\ OnceTrue(c, run[c])

\* The commands to come: no message is sent by two of them.
TodoInv ==
  /\ todo \in Seq(SUBSET Commands) /\ todo # <<>>
  /\ \A i, j \in DOMAIN todo : \A c \in todo[i] \cap todo[j] : Posts(c) => i = j
  /\ \A i \in DOMAIN todo : \A c \in todo[i] :
       Posts(c) => c \notin DOMAIN run /\ \A r \in outbox : r.id # c
  /\ todo[1] \cap DOMAIN run = {}

\* A removal that nothing crosses: no command beside it puts rows back, and
\* afterwards none is about to.
GoneInv ==
  /\ \A c \in DOMAIN run : c.op = "remove" /\ c \notin crossed =>
       \A d \in Running(c.n) : ~ PutsBack(d)
  /\ \A g \in gone :
       /\ g = <<g[1], g[2]>> /\ g[1] \in Nodes /\ g[2] \in Nodes \ {g[1]}
       /\ \A c \in Running(g[1]) : \A i \in 1..Len(run[c]) :
            run[c][i][1] \in {"member", "enqueue"} => run[c][i][2] # g[2]
  /\ RemovalHolds

TablesInv ==
  /\ DOMAIN db = Nodes /\ \A n \in Nodes : DbTrue(blobs, n, db[n])
  /\ blobs \in [Nodes -> SUBSET Commands] /\ \A n \in Nodes : \A c \in blobs[n] : Author(c) = n
  /\ faults \in 0..MaxFaults

RowsInv == \A r \in outbox : RowTrue(r)

Inv == TablesInv /\ RowsInv /\ RunInv /\ TodoInv /\ GoneInv

-----------------------------------------------------------------------------
(* Wires. *)

\* A field reads back as it was written, or as None if it was left out.
LEMMA FieldWritten ==
  ASSUME NEW m, NEW f \in Fields
  PROVE  Field(message_to_turtle(m), f) =
           IF (f = "room_name" => m["room"] # None) /\ (f = "name" => m["hash"] # None)
           THEN m[f] ELSE None
  <1> DEFINE w == message_to_turtle(m)
             written == /\ m[f] # None
                        /\ f = "room_name" => m["room"] # None
                        /\ f = "name" => m["hash"] # None
  <1>1. f # "a"
    BY DEF Fields
  <1>2. \A p \in w : p[1] = f => p = <<f, m[f]>> /\ written
    BY <1>1 DEF message_to_turtle
  <1>3. written => <<f, m[f]>> \in w
    BY DEF message_to_turtle
  <1> HIDE DEF w
  <1>4. CASE written
    <2>1. \E p \in w : p[1] = f
      BY <1>3, <1>4
    <2>2. PICK q : q = CHOOSE p \in w : p[1] = f
      OBVIOUS
    <2>3. q \in w /\ q[1] = f
      BY <2>1, <2>2, Zenon
    <2>4. q[2] = m[f]
      BY <1>2, <2>3
    <2>5. Field(w, f) = m[f]
      BY <2>1, <2>2, <2>4, Zenon DEF Field
    <2> QED BY <1>4, <2>5 DEF w
  <1>5. CASE ~ written
    <2>1. ~ \E p \in w : p[1] = f
      BY <1>2, <1>5
    <2>2. Field(w, f) = None
      BY <2>1 DEF Field
    <2> QED BY <1>5, <2>2 DEF w
  <1> QED BY <1>4, <1>5

\* A message that is accepted is read field by field.
LEMMA ParseFacts ==
  ASSUME NEW w, parse_message(w).err = None
  PROVE  /\ parse_message(w).msg = [f \in Fields |-> Field(w, f)]
         /\ Field(w, "hash") = None => Field(w, "name") = None
  <1>1. "protocol-error" # None /\ "limit-exceeded" # None
    BY NoneAssumption
  <1>2. parse_message(w) = [err |-> None, msg |-> [f \in Fields |-> Field(w, f)]]
    BY <1>1 DEF parse_message, Field
  <1>3. parse_message(w).msg = [f \in Fields |-> Field(w, f)]
    BY <1>2
  <1>4. Field(w, "hash") = None => Field(w, "name") = None
    BY <1>1 DEF parse_message, Field, Fields
  <1> QED BY <1>3, <1>4

-----------------------------------------------------------------------------
(* The handler. *)

LEMMA CommandFacts ==
  ASSUME NEW c \in Commands
  PROVE  /\ IsCommand(c) /\ c # None /\ c.n \in Nodes /\ c.n # None
         /\ MessageOf(c) = c
  <1>1. IsCommand(c) /\ c # None
    BY CommandsAssumption
  <1>2. c.n \in Nodes /\ "op" \in DOMAIN c /\ "of" \notin DOMAIN c
    BY <1>1 DEF IsCommand
  <1>3. MessageOf(c) = c
    BY <1>2 DEF MessageOf
  <1> QED BY <1>1, <1>2, <1>3, NoneAssumption

LEMMA FreshRow ==
  ASSUME NEW n, NEW id, NEW to, NEW w, \A r \in outbox : ~ (r.n = n /\ r.id = id /\ r.to = to)
  PROVE  /\ NewRow(n, id, to, w) =
              [n |-> n, id |-> id, to |-> to, k |-> 1,
               rid |-> [n |-> n, of |-> id, to |-> to, k |-> 1], wire |-> w, st |-> "queued"]
         /\ MessageOf([n |-> n, of |-> id, to |-> to, k |-> 1]) = id
  <1>1. {r \in outbox : r.n = n /\ r.id = id /\ r.to = to} = {}
    OBVIOUS
  <1>2. Cardinality({r \in outbox : r.n = n /\ r.id = id /\ r.to = to}) + 1 = 1
    BY <1>1, FS_EmptySet
  <1>3. NewRow(n, id, to, w) =
          [n |-> n, id |-> id, to |-> to, k |-> 1,
           rid |-> [n |-> n, of |-> id, to |-> to, k |-> 1], wire |-> w, st |-> "queued"]
    BY <1>2 DEF NewRow
  <1>4. MessageOf([n |-> n, of |-> id, to |-> to, k |-> 1]) = id
    BY DEF MessageOf
  <1> QED BY <1>3, <1>4

\* What reaches a node: from a peer, or from its own owner outside the room.
Received(b, n, peer, id, rid, w, owner) ==
  /\ n \in Nodes /\ peer \in Nodes /\ id \in Commands /\ Posts(id) /\ MessageOf(rid) = id
  /\ WireTrue(peer, n, id, w)
  /\ Field(w, "id") = None => rid = id
  /\ Field(w, "hash") # None => id \in b[Author(id)]
  /\ peer = n => owner /\ Field(w, "room") = None

\* What the handler does to the tables: it may store the message, and bind a
\* room nobody was bound to.
Stores(b, d, n, id, rid, h) ==
  /\ IsDb(h.db) /\ h.out \in {"applied", "denied", "error"}
  /\ h.db.have = d.have \/ h.db.have = d.have \cup {"tables", "view"}
  /\ h.db.members = d.members /\ h.db.peers = d.peers /\ h.db.policy = d.policy
  /\ h.db.host = d.host \/ (d.host = None /\ h.db.host \in Nodes \ {n})
  /\ h.db.applied \subseteq d.applied \cup {rid}
  /\ rid \in h.db.applied => id \in DOMAIN h.db.msgs
  /\ h.out = "applied" => id \in DOMAIN h.db.msgs
  /\ DOMAIN d.msgs \subseteq DOMAIN h.db.msgs
  /\ \A x \in DOMAIN h.db.msgs : IF x \in DOMAIN d.msgs THEN h.db.msgs[x] = d.msgs[x]
                                 ELSE x = id /\ EntryTrue(b, x, h.db.msgs[x])

\* What it passes on: a message that is new, as the host, to the other members.
PassesOn(b, d, n, id, h) ==
  \/ h.rows = {}
  \/ /\ n = Host /\ Author(id) # Host /\ id \notin DOMAIN d.msgs /\ id \in DOMAIN h.db.msgs
     /\ \E w : /\ h.rows = {NewRow(n, id, p, w) : p \in d.members \ {Author(id), n}}
               /\ \A p \in Nodes \ {Host} : WireTrue(n, p, id, w)
               /\ Field(w, "id") # None
               /\ Field(w, "hash") # None => id \in b[Author(id)]

LEMMA RoleFacts ==
  ASSUME NEW b, NEW d, NEW n, NEW peer, NEW id, NEW rid, NEW w, NEW owner, DbTrue(blobs, n, d),
         Received(b, n, peer, id, rid, w, owner),
         NEW m, m = [f \in Fields |-> Field(w, f)],
         ~ (m.room # None /\ d.host \notin {None, n, peer})
  PROVE  /\ Role(d, n, peer, m).sender = Author(id)
         /\ \/ Role(d, n, peer, m).bind = d.host
            \/ d.host = None /\ Role(d, n, peer, m).bind \in Nodes \ {n}
         /\ Role(d, n, peer, m).fan \in BOOLEAN
         /\ Role(d, n, peer, m).fan => n = Host /\ peer = Author(id) /\ Author(id) # Host
  <1>1. m.room = Field(w, "room") /\ m.from = Field(w, "from")
    BY DEF Fields
  <1>2. d.host = n => n = Host
    BY DEF DbTrue
  <1>3. /\ n \in Nodes /\ peer \in Nodes /\ None \notin Nodes
        /\ m.from = None => peer = Author(id)
        /\ m.from # None => m.from = Author(id) /\ n # Host /\ m.room # None
        /\ peer = n => m.room = None
    BY <1>1, NoneAssumption DEF Received, WireTrue
  <1>4. CASE m.room = None
    BY <1>3, <1>4 DEF Role
  <1>5. CASE m.room # None /\ d.host = n
    BY <1>2, <1>3, <1>5 DEF Role
  <1>6. CASE m.room # None /\ d.host # n
    BY <1>3, <1>6 DEF Role
  <1> QED BY <1>4, <1>5, <1>6

LEMMA EntryStored ==
  ASSUME NEW b, NEW n, NEW peer, NEW id, NEW rid, NEW w, NEW owner,
         Received(b, n, peer, id, rid, w, owner),
         NEW m, m = [f \in Fields |-> Field(w, f)], NEW scope
  PROVE  EntryTrue(b, id, Entry(m, Author(id), scope, FALSE))
  <1> DEFINE e == Entry(m, Author(id), scope, FALSE)
  <1>1. /\ e.sender = Author(id) /\ e.body = Field(w, "body") /\ e.hash = Field(w, "hash")
        /\ e.name = Field(w, "name") /\ e.re = Field(w, "re") /\ e.outgoing = FALSE /\ IsEntry(e)
    BY DEF Entry, IsEntry, Fields
  <1> HIDE DEF e
  <1>2. id \in Commands /\ Posts(id)
    BY DEF Received
  <1>3. id.op = "send" => /\ e.re = id.re /\ e.body = Preview(id)
                          /\ (e.name = "spill") = (id.text = "big")
                          /\ id.text = "big" => e.hash # None
    BY <1>1 DEF Received, WireTrue
  <1>4. e.hash # None => id.op = "send" /\ id \in b[Author(id)]
    BY <1>1 DEF Received, WireTrue
  <1>5. is_spilled(e) <=> e.hash # None /\ e.name = "spill"
    BY <1>1 DEF is_spilled
  <1>6. id.op = "send" => e.body = id.text \/ (e.body = "preview" /\ is_spilled(e))
    BY <1>3, <1>5 DEF Preview
  <1>7. is_spilled(e) => id.op = "send" /\ id.text = "big" /\ id \in b[Author(id)]
    BY <1>3, <1>4, <1>5
  <1> QED BY <1>1, <1>2, <1>3, <1>6, <1>7 DEF EntryTrue, e

LEMMA PassedOn ==
  ASSUME NEW b, NEW peer, NEW id, NEW rid, NEW w, NEW owner,
         Received(b, Host, peer, id, rid, w, owner), peer = Author(id),
         NEW m, m = [f \in Fields |-> Field(w, f)], NEW d,
         Field(w, "hash") = None => Field(w, "name") = None
  PROVE  \E v : /\ FanOut(d, Host, id, m, Author(id)) =
                     {NewRow(Host, id, p, v) : p \in d.members \ {Author(id), Host}}
                /\ \A p \in Nodes \ {Host} : WireTrue(Host, p, id, v)
                /\ Field(v, "id") # None
                /\ Field(v, "hash") # None => id \in b[Author(id)]
  <1>1. PICK out : out = [m EXCEPT !.id = id, !.from = Author(id), !.room = Room, !.room_name = "label"]
    OBVIOUS
  <1>2. PICK v : v = message_to_turtle(out)
    OBVIOUS
  <1>3. FanOut(d, Host, id, m, Author(id)) =
          {NewRow(Host, id, p, v) : p \in d.members \ {Author(id), Host}}
    BY <1>1, <1>2 DEF FanOut
  <1>4. /\ out["id"] = id /\ out["from"] = Author(id) /\ out["room"] = Room
        /\ out["body"] = Field(w, "body") /\ out["re"] = Field(w, "re")
        /\ out["hash"] = Field(w, "hash") /\ out["name"] = Field(w, "name")
    BY <1>1 DEF Fields
  <1>5. /\ Field(v, "id") = id /\ Field(v, "from") = Author(id) /\ Field(v, "room") = Room
        /\ Field(v, "body") = Field(w, "body") /\ Field(v, "re") = Field(w, "re")
        /\ Field(v, "hash") = Field(w, "hash") /\ Field(v, "name") = Field(w, "name")
    <2>1. /\ Field(v, "id") = out["id"] /\ Field(v, "from") = out["from"]
          /\ Field(v, "room") = out["room"]
          /\ Field(v, "body") = out["body"] /\ Field(v, "re") = out["re"]
          /\ Field(v, "hash") = out["hash"]
          /\ Field(v, "name") = IF out["hash"] # None THEN out["name"] ELSE None
      BY <1>2, FieldWritten DEF Fields
    <2> QED BY <1>4, <2>1
  <1>6. Author(id) # None /\ id # None /\ Room # None
    BY CommandFacts, NoneAssumption DEF Received, Author
  <1>7. \A p \in Nodes \ {Host} : WireTrue(Host, p, id, v)
    BY <1>5, <1>6 DEF Received, WireTrue
  <1>8. Field(v, "hash") # None => id \in b[Author(id)]
    BY <1>5 DEF Received
  <1> QED BY <1>3, <1>5, <1>6, <1>7, <1>8

LEMMA ApplyFacts ==
  ASSUME NEW b, NEW d, NEW n, NEW peer, NEW id, NEW rid, NEW w, NEW owner, DbTrue(blobs, n, d),
         Received(b, n, peer, id, rid, w, owner),
         NEW m, m = [f \in Fields |-> Field(w, f)],
         Field(w, "hash") = None => Field(w, "name") = None,
         NEW role, role.sender = Author(id),
         role.bind = d.host \/ (d.host = None /\ role.bind \in Nodes \ {n}),
         role.fan \in BOOLEAN,
         role.fan => n = Host /\ peer = Author(id) /\ Author(id) # Host
  PROVE  /\ Stores(b, d, n, id, rid, apply_message(ensure_chat_columns(d), n, rid, m, role))
         /\ PassesOn(b, d, n, id, apply_message(ensure_chat_columns(d), n, rid, m, role))
  <1>1. PICK e : e = ensure_chat_columns(d)
    OBVIOUS
  <1>2. /\ IsDb(e) /\ e.have = d.have \cup {"tables", "view"} /\ e.msgs = d.msgs /\ e.host = d.host
        /\ e.members = d.members /\ e.policy = d.policy /\ e.peers = d.peers /\ e.applied = d.applied
    BY <1>1 DEF DbTrue, IsDb, ensure_chat_columns
  <1>3. PICK h : h = apply_message(e, n, rid, m, role)
    OBVIOUS
  <1>4. MessageOf(rid) = id
    BY DEF Received
  <1>5. m.id \in {None, id} /\ (m.id = None => rid = id)
    BY DEF Received, WireTrue, Fields
  <1>6. PICK i : i = IF m.id = None THEN rid ELSE m.id
    OBVIOUS
  <1>7. i = id
    BY <1>5, <1>6
  <1>8. CASE rid \in d.applied
    <2>1. h = Reply("applied", e, {})
      BY <1>2, <1>3, <1>8 DEF apply_message
    <2>2. id \in DOMAIN d.msgs
      BY <1>4, <1>8 DEF DbTrue
    <2>3. Stores(b, d, n, id, rid, h) /\ PassesOn(b, d, n, id, h)
      BY <1>2, <2>1, <2>2 DEF Stores, PassesOn, Reply
    <2> QED BY <1>1, <1>3, <2>3
  <1>9. CASE rid \notin d.applied
    <2>1. PICK en : en = Entry(m, Author(id), role.scope, FALSE)
      OBVIOUS
    <2>2. EntryTrue(b, id, en)
      BY <2>1, EntryStored
    <2>3. PICK ms : ms = IF id \notin DOMAIN d.msgs THEN Put(d.msgs, id, en) ELSE d.msgs
      OBVIOUS
    <2>4. PICK rows : rows = IF role.fan /\ id \notin DOMAIN d.msgs
                             THEN FanOut(e, n, id, m, Author(id)) ELSE {}
      OBVIOUS
    <2>5. h = Reply("applied", [e EXCEPT !.host = role.bind, !.applied = @ \cup {rid}, !.msgs = ms], rows)
      <3>1. h = Reply("applied",
                  [e EXCEPT !.host = role.bind, !.applied = @ \cup {rid},
                            !.msgs = IF i \notin DOMAIN e.msgs
                                     THEN Put(@, i, Entry(m, role.sender, role.scope, FALSE)) ELSE @],
                  IF role.fan /\ i \notin DOMAIN e.msgs THEN FanOut(e, n, i, m, role.sender) ELSE {})
        BY <1>2, <1>3, <1>6, <1>9 DEF apply_message
      <3>2. ms = IF i \notin DOMAIN e.msgs
                 THEN Put(e.msgs, i, Entry(m, role.sender, role.scope, FALSE)) ELSE e.msgs
        BY <1>2, <1>7, <2>1, <2>3
      <3>3. rows = IF role.fan /\ i \notin DOMAIN e.msgs THEN FanOut(e, n, i, m, role.sender) ELSE {}
        BY <1>2, <1>7, <2>4
      <3> QED BY <3>1, <3>2, <3>3
    <2>6. /\ h.out = "applied" /\ IsDb(h.db) /\ h.db.have = e.have /\ h.db.members = e.members
          /\ h.db.peers = e.peers /\ h.db.policy = e.policy /\ h.db.host = role.bind
          /\ h.db.applied = e.applied \cup {rid} /\ h.db.msgs = ms /\ h.rows = rows
      BY <1>2, <2>5 DEF Reply, IsDb
    <2>7. /\ DOMAIN ms = DOMAIN d.msgs \cup {id}
          /\ \A x \in DOMAIN ms : IF x \in DOMAIN d.msgs THEN ms[x] = d.msgs[x] ELSE x = id /\ ms[x] = en
      BY <2>3 DEF Put
    <2>8. Stores(b, d, n, id, rid, h)
      BY <1>2, <2>2, <2>6, <2>7 DEF Stores
    <2>9. PassesOn(b, d, n, id, h)
      <3>1. CASE role.fan /\ id \notin DOMAIN d.msgs
        <4>1. \E v : /\ FanOut(e, n, id, m, Author(id)) =
                          {NewRow(n, id, p, v) : p \in e.members \ {Author(id), n}}
                     /\ \A p \in Nodes \ {Host} : WireTrue(n, p, id, v)
                     /\ Field(v, "id") # None
                     /\ Field(v, "hash") # None => id \in b[Author(id)]
          BY <3>1, PassedOn
        <4> QED BY <1>2, <2>4, <2>6, <2>7, <3>1, <4>1 DEF PassesOn
      <3>2. CASE ~ (role.fan /\ id \notin DOMAIN d.msgs)
        BY <2>4, <2>6, <3>2 DEF PassesOn
      <3> QED BY <3>1, <3>2
    <2> QED BY <1>1, <1>3, <2>8, <2>9
  <1> QED BY <1>8, <1>9

LEMMA HandlerFacts ==
  ASSUME NEW b, NEW n, NEW peer, NEW id, NEW rid, NEW w, NEW owner \in BOOLEAN, DbTrue(blobs, n, db[n]),
         Received(b, n, peer, id, rid, w, owner)
  PROVE  /\ Stores(b, db[n], n, id, rid, handle_chat(n, peer, rid, w, owner))
         /\ PassesOn(b, db[n], n, id, handle_chat(n, peer, rid, w, owner))
  <1>1. PICK d : d = db[n]
    OBVIOUS
  <1>2. PICK h : h = handle_chat(n, peer, rid, w, owner)
    OBVIOUS
  <1>3. PICK e : e = ensure_chat_columns(d)
    OBVIOUS
  <1>4. /\ IsDb(e) /\ e.have = d.have \cup {"tables", "view"} /\ e.msgs = d.msgs /\ e.host = d.host
        /\ e.members = d.members /\ e.policy = d.policy /\ e.peers = d.peers /\ e.applied = d.applied
    BY <1>1, <1>3 DEF DbTrue, IsDb, ensure_chat_columns
  <1>5. IsDb(d) /\ (rid \in d.applied => id \in DOMAIN d.msgs)
    BY <1>1 DEF DbTrue, Received
  <1>6. ASSUME NEW out \in {"denied", "error"}, h = Reply(out, d, {}) \/ h = Reply(out, e, {})
        PROVE  Stores(b, d, n, id, rid, h) /\ PassesOn(b, d, n, id, h)
    BY <1>4, <1>5, <1>6 DEF Stores, PassesOn, Reply
  <1>7. CASE parse_message(w).err # None \/ (~ owner /\ peer \notin d.peers) \/ "mods" \notin d.have
    <2>1. \E out \in {"denied", "error"} : h = Reply(out, d, {}) \/ h = Reply(out, e, {})
      BY <1>1, <1>2, <1>3, <1>7 DEF handle_chat
    <2> QED BY <1>1, <1>2, <1>6, <2>1
  <1>8. CASE ~ (parse_message(w).err # None \/ (~ owner /\ peer \notin d.peers) \/ "mods" \notin d.have)
    <2>1. PICK m : m = parse_message(w).msg
      OBVIOUS
    <2>2. PICK role : role = Role(d, n, peer, m)
      OBVIOUS
    <2>3. h = IF m.room # None /\ d.host \notin {None, n, peer} THEN Reply("denied", e, {})
              ELSE IF ~ owner /\ ~ Allows(d, peer, role.resource) THEN Reply("denied", e, {})
              ELSE apply_message(e, n, rid, m, role)
      BY <1>1, <1>2, <1>3, <1>8, <2>1, <2>2 DEF handle_chat
    <2>4. m = [f \in Fields |-> Field(w, f)] /\ (Field(w, "hash") = None => Field(w, "name") = None)
      BY <1>8, <2>1, ParseFacts
    <2>5. CASE h = Reply("denied", e, {})
      BY <1>1, <1>2, <1>6, <2>5
    <2>6. CASE ~ (m.room # None /\ d.host \notin {None, n, peer}) /\ h = apply_message(e, n, rid, m, role)
      <3>1. /\ role.sender = Author(id)
            /\ role.bind = d.host \/ (d.host = None /\ role.bind \in Nodes \ {n})
            /\ role.fan \in BOOLEAN
            /\ role.fan => n = Host /\ peer = Author(id) /\ Author(id) # Host
        BY <1>1, <2>2, <2>4, <2>6, RoleFacts
      <3> QED BY <1>1, <1>2, <1>3, <2>4, <2>6, <3>1, ApplyFacts
    <2> QED BY <2>3, <2>5, <2>6
  <1> QED BY <1>7, <1>8

-----------------------------------------------------------------------------
(* Tables, blobs and schema parts only grow, and what was true stays true. *)

Grows ==
  \A n \in Nodes : /\ DOMAIN db[n].msgs \subseteq DOMAIN db'[n].msgs
                   /\ db[n].have \subseteq db'[n].have /\ blobs[n] \subseteq blobs'[n]

LEMMA DbStays ==
  ASSUME NEW n, NEW d, DbTrue(blobs, n, d), Grows
  PROVE  DbTrue(blobs', n, d)
  <1>1. ASSUME NEW id \in DOMAIN d.msgs
        PROVE  EntryTrue(blobs', id, d.msgs[id])
    <2>1. EntryTrue(blobs, id, d.msgs[id])
      BY DEF DbTrue
    <2>2. id \in Commands /\ Author(id) \in Nodes
      BY <2>1, CommandFacts DEF EntryTrue, Author
    <2> QED BY <2>1, <2>2 DEF EntryTrue, Grows
  <1> QED BY <1>1 DEF DbTrue

LEMMA RowStays ==
  ASSUME NEW r, RowTrue(r), Grows
  PROVE  RowTrue(r)'
  <1>1. r.id \in Commands /\ Author(r.id) \in Nodes /\ r.n \in Nodes /\ r.to \in Nodes
    BY CommandFacts DEF RowTrue, Author
  <1> QED BY <1>1 DEF RowTrue, Grows, IsRow

LEMMA StatementStays ==
  ASSUME NEW c \in Commands, NEW s, StatementTrue(c, s), Grows
  PROVE  StatementTrue(c, s)'
  <1>1. c.n \in Nodes
    BY CommandFacts
  <1> QED BY <1>1 DEF StatementTrue, Grows

LEMMA HandledDb ==
  ASSUME NEW b, NEW n, NEW d, NEW id, NEW rid, NEW h, DbTrue(b, n, d), Stores(b, d, n, id, rid, h),
         MessageOf(rid) = id
  PROVE  DbTrue(b, n, h.db)
  <1>1. IsDb(h.db) /\ h.db.have \subseteq Parts /\ h.db.members \subseteq Nodes /\ h.db.peers \subseteq Nodes
    BY DEF DbTrue, Stores, Parts
  <1>2. h.db.host \in Nodes \cup {None} /\ (h.db.host = n => n = Host)
    BY DEF DbTrue, Stores
  <1>3. h.db.members # {} => "tables" \in h.db.have
    BY DEF DbTrue, Stores
  <1>4. \A x \in DOMAIN h.db.msgs : EntryTrue(b, x, h.db.msgs[x])
    BY DEF DbTrue, Stores
  <1>5. \A x \in h.db.applied : MessageOf(x) \in DOMAIN h.db.msgs
    BY DEF DbTrue, Stores
  <1> QED BY <1>1, <1>2, <1>3, <1>4, <1>5 DEF DbTrue

-----------------------------------------------------------------------------
(* A command moves on by one statement, or ends. *)

\* q is what is left of p after its first statement.
Rest(q, p) == /\ IsSeq(q) /\ q # <<>> /\ Len(p) = Len(q) + 1
              /\ \A i \in 1..Len(q) : q[i] = p[i + 1]

Moves(c) ==
  /\ DOMAIN run \ {c} \subseteq DOMAIN run' /\ DOMAIN run' \subseteq DOMAIN run
  /\ \A d \in DOMAIN run' : d # c => run'[d] = run[d]
  /\ c \in DOMAIN run' => Rest(run'[c], run[c])

LEMMA SeqFacts ==
  ASSUME NEW S, NEW q \in Seq(S)
  PROVE  /\ IsSeq(q) /\ Len(q) \in Nat /\ DOMAIN q = 1..Len(q) /\ (q # <<>> => Len(q) > 0)
  <1>1. Len(q) \in Nat /\ DOMAIN q = 1..Len(q) /\ (q # <<>> => Len(q) > 0)
    OBVIOUS
  <1>2. \A i \in 1..Len(q) : q[i] \in Range(q)
    BY <1>1 DEF Range
  <1>3. q = [i \in 1..Len(q) |-> q[i]]
    OBVIOUS
  <1>4. q \in Seq(Range(q))
    BY <1>1, <1>2, <1>3, IsASeq
  <1> QED BY <1>1, <1>4 DEF IsSeq

LEMMA TailFacts ==
  ASSUME NEW p, IsSeq(p), p # <<>>
  PROVE  /\ Head(p) = p[1] /\ Len(p) \in Nat /\ Len(p) > 0
         /\ Tail(p) # <<>> => Rest(Tail(p), p)
         /\ <<>> \o Tail(p) = Tail(p)
  <1>1. p \in Seq(Range(p))
    BY DEF IsSeq
  <1>2. Tail(p) \in Seq(Range(p)) /\ Len(p) \in Nat /\ Len(p) > 0
    BY <1>1
  <1>3. Len(Tail(p)) = Len(p) - 1 /\ \A i \in 1..Len(Tail(p)) : Tail(p)[i] = p[i + 1]
    BY <1>1, <1>2
  <1>4. IsSeq(Tail(p))
    BY <1>2, SeqFacts
  <1>5. Head(p) = p[1]
    BY <1>1
  <1>6. <<>> \o Tail(p) = Tail(p)
    BY <1>2
  <1> QED BY <1>2, <1>3, <1>4, <1>5, <1>6 DEF Rest

LEMMA EndsOrMoves ==
  ASSUME NEW c, \/ run' = Drop(run, c) \/ (UNCHANGED run /\ c \notin DOMAIN run)
                \/ (RunInv /\ c \in DOMAIN run /\ Next1(c, <<>>))
  PROVE  Moves(c)
  <1>1. CASE run' = Drop(run, c)
    BY <1>1 DEF Drop, Moves
  <1>2. CASE UNCHANGED run /\ c \notin DOMAIN run
    BY <1>2 DEF Moves
  <1>3. CASE RunInv /\ c \in DOMAIN run /\ Next1(c, <<>>)
    <2>1. IsSeq(run[c]) /\ run[c] # <<>>
      BY <1>3 DEF RunInv
    <2>2. <<>> \o Tail(run[c]) = Tail(run[c])
      BY <2>1, TailFacts
    <2>3. run' = IF Tail(run[c]) = <<>> THEN Drop(run, c) ELSE Put(run, c, Tail(run[c]))
      BY <1>3, <2>2 DEF Next1
    <2>4. CASE Tail(run[c]) = <<>>
      BY <2>3, <2>4 DEF Drop, Moves
    <2>5. CASE Tail(run[c]) # <<>>
      <3>1. Rest(Tail(run[c]), run[c])
        BY <2>1, <2>5, TailFacts
      <3> QED BY <1>3, <2>3, <2>5, <3>1 DEF Put, Moves
    <2> QED BY <2>4, <2>5
  <1> QED BY <1>1, <1>2, <1>3

\* Where the rows of the next state come from: they were there, they pass a
\* message on, or the command c queues one.
RowsFrom(c) ==
  \A x \in outbox' :
    \/ \E r \in outbox : x.n = r.n /\ x.id = r.id /\ x.to = r.to
    \/ x.n # Author(x.id) /\ \E r \in outbox : x.id = r.id
    \/ /\ c \in DOMAIN run /\ Statement(c)[1] = "enqueue"
       /\ x.n = c.n /\ x.id = c /\ x.to = Statement(c)[2]

\* No member comes back in the way of a removal that nothing crosses.
RosterStep(c) ==
  /\ \A d \in DOMAIN run : d.op = "remove" /\ d \notin crossed' /\ d.p \notin db[d.n].members =>
       d.p \notin db'[d.n].members
  /\ c \in DOMAIN run \cap DOMAIN run' /\ Statement(c)[1] = "unroster" => c.p \notin db'[c.n].members

Shifted(q, p) ==
  /\ Len(q) \in Nat /\ Len(p) \in Nat
  /\ \A i \in 1..Len(q) : i + 1 \in 1..Len(p) /\ q[i] = p[i + 1]
  /\ \A j \in 1..Len(p) : j # 1 => \E k \in 1..Len(q) : j = k + 1 /\ q[k] = p[j]

LEMMA RestFacts == ASSUME NEW q, NEW p, IsSeq(p), Rest(q, p) PROVE Shifted(q, p)
  <1>1. Len(q) \in Nat /\ Len(p) \in Nat
    BY SeqFacts DEF IsSeq, Rest
  <1>2. Len(p) = Len(q) + 1 /\ \A i \in 1..Len(q) : q[i] = p[i + 1]
    BY DEF Rest
  <1>3. ASSUME NEW j \in 1..Len(p), j # 1
        PROVE  \E k \in 1..Len(q) : j = k + 1 /\ q[k] = p[j]
    <2>1. j - 1 \in 1..Len(q) /\ (j - 1) + 1 = j
      BY <1>1, <1>2, <1>3
    <2>2. q[j - 1] = p[(j - 1) + 1]
      BY <1>2, <2>1
    <2> QED BY <2>1, <2>2
  <1> QED BY <1>1, <1>2, <1>3 DEF Shifted

\* The text is there once it was imported.
ImportStep(c) ==
  c \in DOMAIN run \cap DOMAIN run' /\ Statement(c)[1] \in {"import", "handover"} => c \in blobs'[c.n]

LEMMA OrderMoves ==
  ASSUME RunInv, NEW c, Moves(c), Grows, RosterStep(c), crossed \subseteq crossed',
         ImportStep(c),
         NEW d \in DOMAIN run'
  PROVE  OrderTrue(d, run[d])'
  <1>1. PICK q : q = run'[d]
    OBVIOUS
  <1>2. PICK p : p = run[d]
    OBVIOUS
  <1>3. /\ d \in DOMAIN run /\ d \in Commands /\ d.n \in Nodes /\ OrderTrue(d, p) /\ IsSeq(p) /\ p # <<>>
    BY <1>2, CommandFacts DEF Moves, RunInv
  <1>4. blobs[d.n] \subseteq blobs'[d.n]
    BY <1>3 DEF Grows
  <1>5. Len(p) \in Nat /\ Head(p) = p[1]
    BY <1>3, TailFacts
  <1>6. CASE d # c
    <2>1. q = p
      BY <1>1, <1>2, <1>6 DEF Moves
    <2>2. ASSUME NEW i \in 1..Len(p), p[i][1] = "cancel", d \notin crossed', d.p \notin db[d.n].members
          PROVE  d.p \notin db'[d.n].members
      <3>1. StatementTrue(d, p[i])
        BY <1>2, <1>3, <2>2 DEF RunInv
      <3>2. d.op = "remove"
        BY <2>2, <3>1 DEF StatementTrue
      <3> QED BY <1>3, <2>2, <3>2 DEF RosterStep
    <2> QED BY <1>1, <1>3, <1>4, <2>1, <2>2 DEF OrderTrue
  <1>7. CASE d = c
    <2>1. Rest(q, p)
      BY <1>1, <1>2, <1>7 DEF Moves
    <2>2. /\ Statement(d) = p[1]
          /\ p[1][1] \in {"import", "handover"} => d \in blobs'[d.n]
          /\ p[1][1] = "unroster" => d.p \notin db'[d.n].members
      BY <1>2, <1>3, <1>5, <1>7 DEF Statement, RosterStep, ImportStep
    <2>3. Shifted(q, p)
      BY <1>3, <2>1, RestFacts
    <2>4. ASSUME NEW i \in 1..Len(q), q[i][1] \in {"enqueue", "roster"}, d.op = "send", Attached(d)
          PROVE  d \in blobs'[d.n] \/ \E j \in 1..Len(q) : j < i /\ q[j][1] \in {"import", "handover"}
      <3>1. i + 1 \in 1..Len(p) /\ p[i + 1][1] \in {"enqueue", "roster"}
        BY <2>3, <2>4 DEF Shifted
      <3>2. d \in blobs[d.n] \/ \E j \in 1..Len(p) : j < i + 1 /\ p[j][1] \in {"import", "handover"}
        BY <1>3, <2>4, <3>1 DEF OrderTrue
      <3>3. ASSUME NEW j \in 1..Len(p), j < i + 1, p[j][1] \in {"import", "handover"}, j # 1
            PROVE  \E k \in 1..Len(q) : k < i /\ q[k][1] \in {"import", "handover"}
        <4>1. PICK k \in 1..Len(q) : j = k + 1 /\ q[k] = p[j]
          BY <2>3, <3>3 DEF Shifted
        <4>2. k < i
          BY <2>3, <3>3, <4>1 DEF Shifted
        <4> QED BY <3>3, <4>1, <4>2
      <3> QED BY <1>4, <2>2, <3>2, <3>3
    <2>5. ASSUME NEW i \in 1..Len(q), q[i][1] = "cancel", d \notin crossed'
          PROVE  d.p \notin db'[d.n].members \/ \E j \in 1..Len(q) : j < i /\ q[j][1] = "unroster"
      <3>1. i + 1 \in 1..Len(p) /\ p[i + 1][1] = "cancel"
        BY <2>3, <2>5 DEF Shifted
      <3>2. d.p \notin db[d.n].members \/ \E j \in 1..Len(p) : j < i + 1 /\ p[j][1] = "unroster"
        BY <1>3, <2>5, <3>1 DEF OrderTrue
      <3>3. ASSUME NEW j \in 1..Len(p), j < i + 1, p[j][1] = "unroster", j # 1
            PROVE  \E k \in 1..Len(q) : k < i /\ q[k][1] = "unroster"
        <4>1. PICK k \in 1..Len(q) : j = k + 1 /\ q[k] = p[j]
          BY <2>3, <3>3 DEF Shifted
        <4>2. k < i
          BY <2>3, <3>3, <4>1 DEF Shifted
        <4> QED BY <3>3, <4>1, <4>2
      <3>4. CASE d.p \notin db[d.n].members
        <4>1. d \in Commands /\ IsCommand(d)
          BY <1>3, CommandFacts
        <4>2. StatementTrue(d, p[i + 1])
          BY <1>2, <1>3, <3>1 DEF RunInv
        <4>3. d.op = "remove"
          BY <3>1, <4>2 DEF StatementTrue
        <4> QED BY <1>3, <2>5, <3>4, <4>3 DEF RosterStep
      <3> QED BY <2>2, <3>2, <3>3, <3>4
    <2> QED BY <1>1, <2>4, <2>5 DEF OrderTrue
  <1> QED BY <1>6, <1>7

LEMMA OnceMoves ==
  ASSUME RunInv, RowsInv, NEW c, Moves(c), RowsFrom(c), NEW d \in DOMAIN run'
  PROVE  OnceTrue(d, run[d])'
  <1>1. PICK q : q = run'[d]
    OBVIOUS
  <1>2. PICK p : p = run[d]
    OBVIOUS
  <1>3. /\ d \in DOMAIN run /\ d \in Commands /\ OnceTrue(d, p) /\ IsSeq(p) /\ p # <<>>
    BY <1>2 DEF Moves, RunInv
  <1>4. Len(p) \in Nat /\ Head(p) = p[1] /\ Len(p) > 0
    BY <1>3, TailFacts
  <1>5. \A x \in outbox' : x.n = d.n /\ x.id = d =>
          \/ \E r \in outbox : r.n = d.n /\ r.id = d /\ x.to = r.to
          \/ d = c /\ Statement(c)[1] = "enqueue" /\ x.to = Statement(c)[2]
    BY DEF RowsFrom, Author
  <1>6. CASE d # c
    <2>1. q = p
      BY <1>1, <1>2, <1>6 DEF Moves
    <2> QED BY <1>1, <1>3, <1>5, <1>6, <2>1 DEF OnceTrue
  <1>7. CASE d = c
    <2>1. Shifted(q, p)
      BY <1>1, <1>2, <1>3, <1>7, RestFacts DEF Moves
    <2>2. Statement(c) = p[1]
      BY <1>2, <1>4, <1>7 DEF Statement
    <2>3. Len(p) = Len(q) + 1
      BY <1>1, <1>2, <1>7 DEF Moves, Rest
    <2>4. \A i \in 1..Len(q) : i + 1 \in 1..Len(p) /\ q[i] = p[i + 1] /\ i \in Nat
      BY <2>1 DEF Shifted
    <2>5. \A i, j \in 1..Len(q) :
            /\ q[i][1] = "enqueue" /\ q[j][1] = "enqueue" /\ i # j => q[i][2] # q[j][2]
            /\ ~ (q[i][1] = "roster" /\ q[j][1] = "enqueue")
      <3> SUFFICES ASSUME NEW i \in 1..Len(q), NEW j \in 1..Len(q)
                   PROVE  /\ q[i][1] = "enqueue" /\ q[j][1] = "enqueue" /\ i # j => q[i][2] # q[j][2]
                          /\ ~ (q[i][1] = "roster" /\ q[j][1] = "enqueue")
        OBVIOUS
      <3>1. PICK a \in 1..Len(p) : a = i + 1 /\ q[i] = p[a] /\ i \in Nat
        BY <2>4
      <3>2. PICK b \in 1..Len(p) : b = j + 1 /\ q[j] = p[b] /\ j \in Nat
        BY <2>4
      <3>3. i # j => a # b
        BY <3>1, <3>2
      <3> QED BY <1>3, <3>1, <3>2, <3>3 DEF OnceTrue
    <2>6. \A i \in 1..Len(q) : q[i][1] = "roster" => i = Len(q)
      <3> SUFFICES ASSUME NEW i \in 1..Len(q), q[i][1] = "roster" PROVE i = Len(q)
        OBVIOUS
      <3>1. PICK a \in 1..Len(p) : a = i + 1 /\ q[i] = p[a] /\ i \in Nat
        BY <2>4
      <3>2. a = Len(p)
        BY <1>3, <3>1 DEF OnceTrue
      <3> QED BY <2>1, <2>3, <3>1, <3>2 DEF Shifted
    <2>7. ASSUME NEW i \in 1..Len(q), NEW x \in outbox', x.n = d.n, x.id = d
          PROVE  /\ q[i][1] # "roster"
                 /\ q[i][1] = "enqueue" => q[i][2] # x.to
      <3>1. PICK a \in 1..Len(p) : a = i + 1 /\ q[i] = p[a] /\ i \in 1..Len(q)
        BY <2>4
      <3>2. a # 1 /\ 1 \in 1..Len(p)
        BY <1>4, <2>1, <3>1 DEF Shifted
      <3>3. CASE \E r \in outbox : r.n = d.n /\ r.id = d /\ x.to = r.to
        BY <1>3, <3>1, <3>3 DEF OnceTrue
      <3>4. CASE Statement(c)[1] = "enqueue" /\ x.to = Statement(c)[2]
        BY <1>3, <2>2, <3>1, <3>2, <3>4 DEF OnceTrue
      <3> QED BY <1>5, <2>7, <3>3, <3>4
    <2> QED BY <1>1, <2>5, <2>6, <2>7 DEF OnceTrue
  <1> QED BY <1>6, <1>7

\* What a step leaves of the commands when it moves c, or none, along.
LEMMA RunKeeps ==
  ASSUME RunInv, RowsInv, TodoInv, NEW c, Moves(c), Grows, RosterStep(c), ImportStep(c),
         RowsFrom(c), crossed \subseteq crossed', UNCHANGED todo
  PROVE  RunInv' /\ TodoInv'
  <1>1. DOMAIN run' \subseteq DOMAIN run /\ DOMAIN run \subseteq Commands
    BY DEF Moves, RunInv
  <1>2. ASSUME NEW d \in DOMAIN run'
        PROVE  /\ IsSeq(run'[d]) /\ run'[d] # <<>>
               /\ (\A i \in 1..Len(run[d]) : StatementTrue(d, run[d][i]))'
    <2>1. PICK q : q = run'[d]
      OBVIOUS
    <2>2. PICK p : p = run[d]
      OBVIOUS
    <2>3. d \in DOMAIN run /\ d \in Commands
      BY <1>1, <1>2
    <2>4. IsSeq(p) /\ p # <<>> /\ \A i \in 1..Len(p) : StatementTrue(d, p[i])
      BY <2>2, <2>3 DEF RunInv
    <2>5. \A i \in 1..Len(p) : StatementTrue(d, p[i])'
      BY <2>3, <2>4, StatementStays
    <2>6. CASE d # c
      BY <1>2, <2>1, <2>2, <2>4, <2>5, <2>6 DEF Moves
    <2>7. CASE d = c
      <3>1. Rest(q, p)
        BY <1>2, <2>1, <2>2, <2>7 DEF Moves
      <3>2. Shifted(q, p)
        BY <2>4, <3>1, RestFacts
      <3>3. \A i \in 1..Len(q) : StatementTrue(d, q[i])'
        BY <2>5, <3>2 DEF Shifted
      <3> QED BY <2>1, <3>1, <3>3 DEF Rest
    <2> QED BY <2>6, <2>7
  <1>3. RunInv'
    BY <1>1, <1>2, OrderMoves, OnceMoves DEF RunInv
  <1>4. \A i \in DOMAIN todo : \A d \in todo[i] :
          Posts(d) => d \notin DOMAIN run' /\ \A x \in outbox' : x.id # d
    <2> SUFFICES ASSUME NEW i \in DOMAIN todo, NEW d \in todo[i], Posts(d)
                 PROVE  d \notin DOMAIN run' /\ \A x \in outbox' : x.id # d
      OBVIOUS
    <2>1. d \notin DOMAIN run /\ \A r \in outbox : r.id # d
      BY DEF TodoInv
    <2> QED BY <1>1, <2>1 DEF RowsFrom
  <1>5. TodoInv'
    BY <1>1, <1>4 DEF TodoInv
  <1> QED BY <1>3, <1>5

-----------------------------------------------------------------------------
(* The parts of a step. *)

\* No member and no row comes back for a peer that is gone.
GoneStep ==
  /\ \A g \in gone : g[2] \notin db'[g[1]].members
  /\ \A g \in gone, x \in outbox' : x.n = g[1] /\ x.to = g[2] => x.st # "queued"

\* The commands that still run are in no removal's way.
GoneRuns(gs) ==
  /\ \A d \in DOMAIN run : d.op = "remove" /\ d \notin crossed => \A e \in Running(d.n) : ~ PutsBack(e)
  /\ \A g \in gs : /\ g = <<g[1], g[2]>> /\ g[1] \in Nodes /\ g[2] \in Nodes \ {g[1]}
                   /\ \A d \in Running(g[1]) : \A i \in 1..Len(run[d]) :
                        run[d][i][1] \in {"member", "enqueue"} => run[d][i][2] # g[2]

LEMMA GoneRest ==
  ASSUME RunInv, GoneInv, NEW c, Moves(c), crossed \subseteq crossed', NEW gs, gs = gone
  PROVE  GoneRuns(gs)'
  <1>1. DOMAIN run' \subseteq DOMAIN run
    BY DEF Moves
  <1>2. \A d \in DOMAIN run' : d.op = "remove" /\ d \notin crossed' =>
          \A e \in {x \in DOMAIN run' : x.n = d.n} : ~ PutsBack(e)
    BY <1>1 DEF GoneInv, Running
  <1>3. ASSUME NEW g \in gone, NEW d \in DOMAIN run', d.n = g[1], NEW i \in 1..Len(run'[d]),
               run'[d][i][1] \in {"member", "enqueue"}
        PROVE  run'[d][i][2] # g[2]
    <2>1. PICK q : q = run'[d]
      OBVIOUS
    <2>2. PICK p : p = run[d]
      OBVIOUS
    <2>3. /\ d \in DOMAIN run /\ IsSeq(p)
          /\ \A j \in 1..Len(p) : p[j][1] \in {"member", "enqueue"} => p[j][2] # g[2]
      BY <1>1, <1>3, <2>2 DEF GoneInv, Running, RunInv
    <2>4. CASE d # c
      BY <1>3, <2>1, <2>2, <2>3, <2>4 DEF Moves
    <2>5. CASE d = c
      <3>1. Rest(q, p)
        BY <1>3, <2>1, <2>2, <2>5 DEF Moves
      <3>2. Shifted(q, p)
        BY <2>3, <3>1, RestFacts
      <3>3. PICK j \in 1..Len(p) : q[i] = p[j]
        BY <1>3, <2>1, <3>2 DEF Shifted
      <3> QED BY <1>3, <2>1, <2>3, <3>3
    <2> QED BY <2>4, <2>5
  <1>4. \A g \in gone : g = <<g[1], g[2]>> /\ g[1] \in Nodes /\ g[2] \in Nodes \ {g[1]}
    BY DEF GoneInv
  <1> QED BY <1>2, <1>3, <1>4 DEF GoneRuns, Running

LEMMA GoneKeeps ==
  ASSUME RunInv, GoneInv, NEW c, Moves(c), GoneStep, crossed \subseteq crossed', UNCHANGED gone
  PROVE  GoneInv'
  <1>1. PICK gs : gs = gone
    OBVIOUS
  <1>2. GoneRuns(gs)'
    BY <1>1, GoneRest
  <1>3. RemovalHolds'
    BY DEF RemovalHolds, GoneStep
  <1> QED BY <1>1, <1>2, <1>3 DEF GoneInv, GoneRuns

LEMMA TablesKeep ==
  ASSUME TablesInv, NEW n \in Nodes, NEW d, db' = [db EXCEPT ![n] = d], DbTrue(blobs', n, d), Grows,
         blobs' \in [Nodes -> SUBSET Commands], \A m \in Nodes : \A c \in blobs'[m] : Author(c) = m,
         faults' \in 0..MaxFaults
  PROVE  TablesInv'
  <1>1. DOMAIN db' = Nodes /\ db'[n] = d /\ \A m \in Nodes : m # n => db'[m] = db[m]
    BY DEF TablesInv
  <1>2. \A m \in Nodes : DbTrue(blobs', m, db'[m])
    BY <1>1, DbStays DEF TablesInv
  <1> QED BY <1>1, <1>2 DEF TablesInv

\* A step that moves c, or none, along, and leaves tables and rows in order.
LEMMA StepKeeps ==
  ASSUME Inv, NEW c, Moves(c), Grows, RosterStep(c), ImportStep(c), RowsFrom(c), GoneStep,
         TablesInv', RowsInv', UNCHANGED <<todo, crossed, gone>>
  PROVE  Inv'
  BY RunKeeps, GoneKeeps DEF Inv

\* Nothing is in the way of p as a member of n.
Unhindered(n, p) ==
  /\ \A g \in gone : ~ (g[1] = n /\ g[2] = p)
  /\ \A e \in DOMAIN run : e.op = "remove" /\ e \notin crossed /\ e.n = n => e.p # p

LEMMA RowsRest == ASSUME RowsInv, Grows, UNCHANGED outbox PROVE RowsInv'
  BY RowStays DEF RowsInv

LEMMA RosterFrom ==
  ASSUME Inv, NEW n \in Nodes, NEW d, db' = [db EXCEPT ![n] = d], UNCHANGED crossed,
         \A p \in d.members : p \in db[n].members \/ Unhindered(n, p),
         NEW c, c \in DOMAIN run /\ Statement(c)[1] = "unroster" => c.n = n /\ c.p \notin d.members
  PROVE  RosterStep(c) /\ \A g \in gone : g[2] \notin db'[g[1]].members
  <1>1. DOMAIN db = Nodes /\ db'[n] = d /\ \A m \in Nodes : m # n => db'[m] = db[m]
    BY DEF Inv, TablesInv
  <1>2. \A e \in DOMAIN run : e \in Commands /\ e.n \in Nodes
    BY CommandFacts DEF Inv, RunInv
  <1>3. \A g \in gone : g[1] \in Nodes /\ g[2] \notin db[g[1]].members
    BY DEF Inv, GoneInv, RemovalHolds
  <1>4. \A e \in DOMAIN run : e.op = "remove" /\ e \notin crossed' /\ e.p \notin db[e.n].members =>
          e.p \notin db'[e.n].members
    BY <1>1, <1>2 DEF Unhindered
  <1>5. \A g \in gone : g[2] \notin db'[g[1]].members
    BY <1>1, <1>3 DEF Unhindered
  <1> QED BY <1>1, <1>4, <1>5 DEF RosterStep

LEMMA WritesKeep ==
  ASSUME Inv, NEW c \in DOMAIN run, NEW d, Writes(c, d), DbTrue(blobs, c.n, d),
         DOMAIN db[c.n].msgs \subseteq DOMAIN d.msgs, db[c.n].have \subseteq d.have,
         \A p \in d.members : p \in db[c.n].members \/ Unhindered(c.n, p),
         Statement(c)[1] \notin {"import", "handover"},
         Statement(c)[1] = "unroster" => c.p \notin d.members
  PROVE  Inv'
  <1>1. /\ db' = [db EXCEPT ![c.n] = d] /\ Next1(c, <<>>)
        /\ UNCHANGED <<outbox, blobs, todo, faults, crossed, gone, heard>>
    BY DEF Writes
  <1>2. c \in Commands /\ c.n \in Nodes /\ DOMAIN db = Nodes
    BY CommandFacts DEF Inv, RunInv, TablesInv
  <1>3. Moves(c)
    BY <1>1, EndsOrMoves DEF Inv
  <1>4. Grows
    BY <1>1, <1>2 DEF Grows
  <1>5. RosterStep(c) /\ \A g \in gone : g[2] \notin db'[g[1]].members
    BY <1>1, <1>2, RosterFrom
  <1>6. GoneStep
    BY <1>1, <1>5 DEF GoneStep, Inv, GoneInv, RemovalHolds
  <1>7. ImportStep(c) /\ RowsFrom(c)
    BY <1>1 DEF ImportStep, RowsFrom
  <1>8. TablesInv'
    <2>1. DbTrue(blobs', c.n, d)
      BY <1>1
    <2>2. /\ blobs' \in [Nodes -> SUBSET Commands] /\ faults' \in 0..MaxFaults
          /\ \A m \in Nodes : \A x \in blobs'[m] : Author(x) = m
      BY <1>1 DEF Inv, TablesInv
    <2> QED BY <1>1, <1>2, <1>4, <2>1, <2>2, TablesKeep DEF Inv
  <1>9. RowsInv'
    BY <1>1, <1>4, RowsRest DEF Inv
  <1> QED BY <1>1, <1>3, <1>4, <1>5, <1>6, <1>7, <1>8, <1>9, StepKeeps


-----------------------------------------------------------------------------
(* Commands, one action at a time. *)

\* What is known of a command that is running, and of its next statement.
LEMMA RunningFacts ==
  ASSUME Inv, NEW c \in DOMAIN run
  PROVE  /\ c \in Commands /\ IsCommand(c) /\ c.n \in Nodes
         /\ IsSeq(run[c]) /\ run[c] # <<>> /\ Len(run[c]) \in Nat /\ 1 \in 1..Len(run[c])
         /\ Statement(c) = run[c][1] /\ StatementTrue(c, Statement(c))
         /\ OrderTrue(c, run[c]) /\ OnceTrue(c, run[c])
         /\ DbTrue(blobs, c.n, db[c.n])
  <1>1. c \in Commands /\ IsSeq(run[c]) /\ run[c] # <<>> /\ OrderTrue(c, run[c]) /\ OnceTrue(c, run[c])
    BY DEF Inv, RunInv
  <1>2. IsCommand(c) /\ c.n \in Nodes
    BY <1>1, CommandFacts
  <1>3. Len(run[c]) \in Nat /\ 1 \in 1..Len(run[c]) /\ Statement(c) = run[c][1]
    BY <1>1, TailFacts DEF Statement
  <1>4. StatementTrue(c, Statement(c))
    BY <1>3 DEF Inv, RunInv
  <1> QED BY <1>1, <1>2, <1>3, <1>4 DEF Inv, TablesInv

\* A member that is added is in nobody's way.
LEMMA MemberFree ==
  ASSUME Inv, NEW c \in DOMAIN run, Statement(c)[1] = "member"
  PROVE  Unhindered(c.n, Statement(c)[2])
  <1>1. PICK s : s = Statement(c)
    OBVIOUS
  <1>2. /\ c \in Commands /\ c.n \in Nodes /\ 1 \in 1..Len(run[c]) /\ s = run[c][1] /\ StatementTrue(c, s)
    BY <1>1, RunningFacts
  <1>3. s[1] = "member" /\ (c.op = "add" \/ (c.op = "create" /\ s[2] = c.n))
    BY <1>1, <1>2 DEF StatementTrue
  <1>4. \A g \in gone : ~ (g[1] = c.n /\ g[2] = s[2])
    BY <1>2, <1>3 DEF Inv, GoneInv, Running
  <1>5. ASSUME NEW e \in DOMAIN run, e.op = "remove", e \notin crossed, e.n = c.n
        PROVE  e.p # s[2]
    <2>1. ~ PutsBack(c)
      BY <1>5 DEF Inv, GoneInv, Running
    <2>2. s[2] = c.n
      BY <1>3, <2>1 DEF PutsBack
    <2>3. e \in Commands /\ IsCommand(e)
      BY <1>5, RunningFacts
    <2>4. e.p # e.n
      BY <1>5, <2>3 DEF IsCommand
    <2> QED BY <1>5, <2>2, <2>4
  <1> QED BY <1>1, <1>4, <1>5 DEF Unhindered

LEMMA ExecuteKeeps == ASSUME Inv, NEW c, Execute(c) PROVE Inv'
  <1>1. c \in DOMAIN run
    BY DEF Execute
  <1>2. PICK s : s = Statement(c)
    OBVIOUS
  <1>3. PICK d : d = db[c.n]
    OBVIOUS
  <1>4. StatementTrue(c, s) /\ DbTrue(blobs, c.n, d)
    BY <1>1, <1>2, <1>3, RunningFacts
  <1>5. IsDb(d)
    BY <1>4 DEF DbTrue
  <1>6. ASSUME NEW e, Writes(c, e), DbTrue(blobs, c.n, e), d.msgs = e.msgs, d.have \subseteq e.have,
               \A p \in e.members : p \in d.members \/ Unhindered(c.n, p),
               s[1] \notin {"import", "handover"}, s[1] = "unroster" => c.p \notin e.members
        PROVE  Inv'
    BY <1>1, <1>2, <1>3, <1>6, WritesKeep
  <1>7. CASE s[1] = "have" /\ Writes(c, [d EXCEPT !.have = @ \cup {s[2]}])
    <2>1. PICK e : e = [d EXCEPT !.have = @ \cup {s[2]}]
      OBVIOUS
    <2>2. IsDb(e) /\ e.msgs = d.msgs /\ e.have = d.have \cup {s[2]} /\ e.members = d.members
          /\ e.host = d.host /\ e.policy = d.policy /\ e.peers = d.peers /\ e.applied = d.applied
      BY <1>5, <2>1 DEF IsDb
    <2>3. s[2] \in Parts
      BY <1>4, <1>7 DEF StatementTrue
    <2>4. DbTrue(blobs, c.n, e)
      BY <1>4, <2>2, <2>3 DEF DbTrue
    <2> QED BY <1>6, <1>7, <2>1, <2>2, <2>4
  <1>8. CASE s[1] = "policy" /\ Writes(c, [d EXCEPT !.policy = @ \cup {<<s[2], s[3]>>}])
    <2>1. PICK e : e = [d EXCEPT !.policy = @ \cup {<<s[2], s[3]>>}]
      OBVIOUS
    <2>2. IsDb(e) /\ e.msgs = d.msgs /\ e.have = d.have /\ e.members = d.members
          /\ e.host = d.host /\ e.peers = d.peers /\ e.applied = d.applied
      BY <1>5, <2>1 DEF IsDb
    <2>3. DbTrue(blobs, c.n, e)
      BY <1>4, <2>2 DEF DbTrue
    <2> QED BY <1>6, <1>8, <2>1, <2>2, <2>3
  <1>9. CASE s[1] = "bind" /\ Writes(c, [d EXCEPT !.host = s[2]])
    <2>1. PICK e : e = [d EXCEPT !.host = s[2]]
      OBVIOUS
    <2>2. IsDb(e) /\ e.msgs = d.msgs /\ e.have = d.have /\ e.members = d.members
          /\ e.host = s[2] /\ e.peers = d.peers /\ e.applied = d.applied
      BY <1>5, <2>1 DEF IsDb
    <2>3. s[2] \in Nodes /\ (s[2] = c.n => c.n = Host)
      BY <1>4, <1>9 DEF StatementTrue
    <2>4. DbTrue(blobs, c.n, e)
      BY <1>4, <2>2, <2>3 DEF DbTrue
    <2> QED BY <1>6, <1>9, <2>1, <2>2, <2>4
  <1>10. CASE s[1] = "member" /\ Writes(c, [d EXCEPT !.members = @ \cup {s[2]}])
    <2>1. PICK e : e = [d EXCEPT !.members = @ \cup {s[2]}]
      OBVIOUS
    <2>2. IsDb(e) /\ e.msgs = d.msgs /\ e.have = d.have /\ e.members = d.members \cup {s[2]}
          /\ e.host = d.host /\ e.peers = d.peers /\ e.applied = d.applied
      BY <1>5, <2>1 DEF IsDb
    <2>3. s[2] \in Nodes /\ "tables" \in d.have
      BY <1>3, <1>4, <1>10 DEF StatementTrue
    <2>4. DbTrue(blobs, c.n, e)
      BY <1>4, <2>2, <2>3 DEF DbTrue
    <2>5. Unhindered(c.n, s[2])
      BY <1>1, <1>2, <1>10, MemberFree
    <2> QED BY <1>6, <1>10, <2>1, <2>2, <2>4, <2>5
  <1>11. CASE s[1] = "forget" /\ Writes(c, [d EXCEPT !.peers = @ \ {s[2]}])
    <2>1. PICK e : e = [d EXCEPT !.peers = @ \ {s[2]}]
      OBVIOUS
    <2>2. IsDb(e) /\ e.msgs = d.msgs /\ e.have = d.have /\ e.members = d.members
          /\ e.host = d.host /\ e.peers = d.peers \ {s[2]} /\ e.applied = d.applied
      BY <1>5, <2>1 DEF IsDb
    <2>3. DbTrue(blobs, c.n, e)
      BY <1>4, <2>2 DEF DbTrue
    <2> QED BY <1>6, <1>11, <2>1, <2>2, <2>3
  <1>12. CASE s[1] = "revoke" /\ Writes(c, [d EXCEPT !.policy = {r \in @ : r[1] # s[2]}])
    <2>1. PICK e : e = [d EXCEPT !.policy = {r \in @ : r[1] # s[2]}]
      OBVIOUS
    <2>2. IsDb(e) /\ e.msgs = d.msgs /\ e.have = d.have /\ e.members = d.members
          /\ e.host = d.host /\ e.peers = d.peers /\ e.applied = d.applied
      BY <1>5, <2>1 DEF IsDb
    <2>3. DbTrue(blobs, c.n, e)
      BY <1>4, <2>2 DEF DbTrue
    <2> QED BY <1>6, <1>12, <2>1, <2>2, <2>3
  <1>13. CASE s[1] = "unroster" /\ Writes(c, [d EXCEPT !.members = @ \ {s[2]}])
    <2>1. PICK e : e = [d EXCEPT !.members = @ \ {s[2]}]
      OBVIOUS
    <2>2. IsDb(e) /\ e.msgs = d.msgs /\ e.have = d.have /\ e.members = d.members \ {s[2]}
          /\ e.host = d.host /\ e.peers = d.peers /\ e.applied = d.applied
      BY <1>5, <2>1 DEF IsDb
    <2>3. s[2] = c.p
      BY <1>4, <1>13 DEF StatementTrue
    <2>4. DbTrue(blobs, c.n, e)
      BY <1>4, <2>2 DEF DbTrue
    <2> QED BY <1>6, <1>13, <2>1, <2>2, <2>3, <2>4
  <1> QED BY <1>2, <1>3, <1>7, <1>8, <1>9, <1>10, <1>11, <1>12, <1>13 DEF Execute

\* A node's own history has the full text.
LEMMA AppendKeeps == ASSUME Inv, NEW c, LocalAppend(c) PROVE Inv'
  <1>1. c \in DOMAIN run /\ Statement(c)[1] = "append"
    BY DEF LocalAppend
  <1>2. PICK en : en = Entry([Outgoing(c) EXCEPT !.body = c.text], c.n, c.to, TRUE)
    OBVIOUS
  <1>3. PICK d : d = db[c.n]
    OBVIOUS
  <1>4. /\ c \in Commands /\ StatementTrue(c, Statement(c)) /\ DbTrue(blobs, c.n, d)
    BY <1>1, <1>3, RunningFacts
  <1>5. c.op = "send"
    BY <1>1, <1>4 DEF StatementTrue
  <1>6. EntryTrue(blobs, c, en)
    <2>1. /\ en.sender = c.n /\ en.body = c.text /\ en.re = c.re /\ en.outgoing = TRUE /\ IsEntry(en)
      BY <1>2 DEF Entry, IsEntry, Outgoing, Blank, Fields
    <2>2. ~ is_spilled(en)
      BY <2>1 DEF is_spilled
    <2> QED BY <1>4, <1>5, <2>1, <2>2 DEF EntryTrue, Author, Posts
  <1>7. PICK ms : ms = Put(d.msgs, c, en)
    OBVIOUS
  <1>8. /\ DOMAIN ms = DOMAIN d.msgs \cup {c}
        /\ \A x \in DOMAIN ms : (x = c /\ ms[x] = en) \/ (x \in DOMAIN d.msgs /\ ms[x] = d.msgs[x])
    BY <1>7 DEF Put
  <1>9. PICK e : e = [d EXCEPT !.msgs = ms]
    OBVIOUS
  <1>10. IsDb(e) /\ e.msgs = ms /\ e.have = d.have /\ e.members = d.members
         /\ e.host = d.host /\ e.peers = d.peers /\ e.applied = d.applied
    BY <1>4, <1>9 DEF DbTrue, IsDb
  <1>11. \A x \in DOMAIN ms : EntryTrue(blobs, x, ms[x])
    BY <1>4, <1>6, <1>8 DEF DbTrue
  <1>12. DbTrue(blobs, c.n, e)
    BY <1>4, <1>8, <1>10, <1>11 DEF DbTrue
  <1>13. Writes(c, e)
    BY <1>2, <1>3, <1>7, <1>9 DEF LocalAppend
  <1> QED BY <1>1, <1>3, <1>8, <1>10, <1>12, <1>13, WritesKeep

\* Tables that stay as they are.
LEMMA SameTables ==
  ASSUME Inv, NEW c \in DOMAIN run, UNCHANGED <<db, crossed, gone>>,
         c \in DOMAIN run' => Statement(c)[1] # "unroster"
  PROVE  RosterStep(c) /\ \A g \in gone : g[2] \notin db'[g[1]].members
  BY DEF RosterStep, Inv, GoneInv, RemovalHolds

LEMMA BlobsKeep ==
  ASSUME Inv, NEW c \in Commands, blobs' = [blobs EXCEPT ![c.n] = @ \cup {c}]
  PROVE  /\ \A n \in Nodes : blobs[n] \subseteq blobs'[n]
         /\ c \in blobs'[c.n] /\ blobs' \in [Nodes -> SUBSET Commands]
         /\ \A m \in Nodes : \A x \in blobs'[m] : Author(x) = m
  <1>1. c.n \in Nodes /\ blobs \in [Nodes -> SUBSET Commands]
    BY CommandFacts DEF Inv, TablesInv
  <1>2. /\ blobs'[c.n] = blobs[c.n] \cup {c}
        /\ \A n \in Nodes : n # c.n => blobs'[n] = blobs[n]
        /\ blobs' \in [Nodes -> SUBSET Commands]
    BY <1>1
  <1>3. \A m \in Nodes : \A x \in blobs[m] : Author(x) = m
    BY DEF Inv, TablesInv
  <1>4. \A m \in Nodes : \A x \in blobs'[m] : Author(x) = m
    BY <1>2, <1>3 DEF Author
  <1> QED BY <1>1, <1>2, <1>4

LEMMA ImportKeeps == ASSUME Inv, NEW c, Import(c) PROVE Inv'
  <1>1. /\ c \in DOMAIN run /\ Statement(c)[1] = "import"
        /\ blobs' = [blobs EXCEPT ![c.n] = @ \cup {c}] /\ Next1(c, <<>>)
        /\ UNCHANGED <<db, outbox, todo, faults, crossed, gone, heard>>
    BY DEF Import
  <1>2. c \in Commands /\ c.n \in Nodes
    BY <1>1, RunningFacts
  <1>3. /\ \A n \in Nodes : blobs[n] \subseteq blobs'[n]
        /\ c \in blobs'[c.n] /\ blobs' \in [Nodes -> SUBSET Commands]
        /\ \A m \in Nodes : \A x \in blobs'[m] : Author(x) = m
    BY <1>1, <1>2, BlobsKeep
  <1>4. Moves(c)
    BY <1>1, EndsOrMoves DEF Inv
  <1>5. Grows
    BY <1>1, <1>3 DEF Grows
  <1>6. RosterStep(c) /\ \A g \in gone : g[2] \notin db'[g[1]].members
    BY <1>1, SameTables
  <1>7. GoneStep
    BY <1>1, <1>6 DEF GoneStep, Inv, GoneInv, RemovalHolds
  <1>8. ImportStep(c) /\ RowsFrom(c)
    BY <1>1, <1>3 DEF ImportStep, RowsFrom
  <1>9. TablesInv'
    <2>1. \A n \in Nodes : DbTrue(blobs', n, db[n])
      BY <1>5, DbStays DEF Inv, TablesInv
    <2> QED BY <1>1, <1>3, <2>1 DEF Inv, TablesInv
  <1>10. RowsInv'
    BY <1>1, <1>5, RowsRest DEF Inv
  <1> QED BY <1>1, <1>4, <1>5, <1>6, <1>7, <1>8, <1>9, <1>10, StepKeeps

LEMMA AbortKeeps == ASSUME Inv, NEW c, Abort(c) PROVE Inv'
  <1>1. /\ c \in DOMAIN run /\ faults < MaxFaults /\ faults' = faults + 1 /\ run' = Drop(run, c)
        /\ UNCHANGED <<db, outbox, blobs, todo, crossed, gone, heard>>
    BY DEF Abort
  <1>2. c \notin DOMAIN run'
    BY <1>1 DEF Drop
  <1>3. Moves(c)
    BY <1>1, EndsOrMoves
  <1>4. Grows
    BY <1>1 DEF Grows
  <1>5. RosterStep(c) /\ \A g \in gone : g[2] \notin db'[g[1]].members
    BY <1>1, <1>2, SameTables
  <1>6. GoneStep
    BY <1>1, <1>5 DEF GoneStep, Inv, GoneInv, RemovalHolds
  <1>7. ImportStep(c) /\ RowsFrom(c)
    BY <1>1, <1>2 DEF ImportStep, RowsFrom
  <1>8. TablesInv'
    <2>1. faults' \in 0..MaxFaults
      BY <1>1, FaultsAssumption DEF Inv, TablesInv
    <2> QED BY <1>1, <2>1 DEF Inv, TablesInv
  <1>9. RowsInv'
    BY <1>1, <1>4, RowsRest DEF Inv
  <1> QED BY <1>1, <1>3, <1>4, <1>5, <1>6, <1>7, <1>8, <1>9, StepKeeps

\* The row that a command queues.
Queued(c, s) == IF s[3] = None THEN NewRow(c.n, c, s[2], s[4])
                ELSE [NewRow(c.n, c, s[2], s[4]) EXCEPT !.rid = s[3]]

LEMMA QueuedRow ==
  ASSUME Inv, NEW c \in DOMAIN run, NEW s, s = Statement(c), s[1] = "enqueue", NEW x,
         x = Queued(c, s)
  PROVE  RowTrue(x) /\ x.n = c.n /\ x.id = c /\ x.to = s[2]
  <1>1. /\ c \in Commands /\ c.n \in Nodes /\ 1 \in 1..Len(run[c]) /\ s = run[c][1] /\ StatementTrue(c, s)
        /\ OrderTrue(c, run[c]) /\ OnceTrue(c, run[c])
    BY RunningFacts
  <1>2. /\ Posts(c) /\ s[2] \in Nodes \ {c.n} /\ s[3] \in {None, c}
        /\ WireTrue(c.n, s[2], c, s[4]) /\ (Field(s[4], "id") = None => s[3] = c)
    BY <1>1 DEF StatementTrue
  <1>3. \A r \in outbox : ~ (r.n = c.n /\ r.id = c /\ r.to = s[2])
    BY <1>1 DEF OnceTrue
  <1>4. PICK rid : rid = [n |-> c.n, of |-> c, to |-> s[2], k |-> 1]
    OBVIOUS
  <1>5. /\ NewRow(c.n, c, s[2], s[4]) = [n |-> c.n, id |-> c, to |-> s[2], k |-> 1, rid |-> rid,
                                         wire |-> s[4], st |-> "queued"]
        /\ MessageOf(rid) = c
    BY <1>3, <1>4, FreshRow
  <1>6. MessageOf(c) = c /\ c # None
    BY <1>1, CommandFacts
  <1>7. /\ x.n = c.n /\ x.id = c /\ x.to = s[2] /\ x.k = 1 /\ x.wire = s[4] /\ x.st = "queued"
        /\ x.rid = (IF s[3] = None THEN rid ELSE c) /\ IsRow(x)
    BY <1>2, <1>5 DEF IsRow, Queued
  <1>8. MessageOf(x.rid) = c /\ (s[3] = c => x.rid = c)
    BY <1>5, <1>6, <1>7
  <1>9. Field(s[4], "hash") # None => c \in blobs[c.n]
    <2>1. Field(s[4], "hash") # None => c.op = "send" /\ Attached(c)
      BY <1>2 DEF WireTrue
    <2>2. c.op = "send" /\ Attached(c) => c \in blobs[c.n] \/ \E j \in 1..Len(run[c]) : j < 1
      BY <1>1 DEF OrderTrue
    <2> QED BY <2>1, <2>2
  <1> QED BY <1>1, <1>2, <1>7, <1>8, <1>9 DEF RowTrue, Author

LEMMA EnqueueKeeps == ASSUME Inv, NEW c, Enqueue(c) PROVE Inv'
  <1>1. PICK s : s = Statement(c)
    OBVIOUS
  <1>2. PICK x : x = Queued(c, s)
    OBVIOUS
  <1>3. /\ c \in DOMAIN run /\ s[1] = "enqueue" /\ outbox' = outbox \cup {x} /\ Next1(c, <<>>)
        /\ UNCHANGED <<db, blobs, todo, faults, crossed, gone, heard>>
    BY <1>1, <1>2 DEF Enqueue, Queued
  <1>4. RowTrue(x) /\ x.n = c.n /\ x.id = c /\ x.to = s[2]
    BY <1>1, <1>2, <1>3, QueuedRow
  <1>5. Moves(c)
    BY <1>3, EndsOrMoves DEF Inv
  <1>6. Grows
    BY <1>3 DEF Grows
  <1>7. RosterStep(c) /\ \A g \in gone : g[2] \notin db'[g[1]].members
    BY <1>1, <1>3, SameTables
  <1>8. GoneStep
    <2>1. 1 \in 1..Len(run[c]) /\ s = run[c][1]
      BY <1>1, <1>3, RunningFacts
    <2>2. \A g \in gone : ~ (c.n = g[1] /\ s[2] = g[2])
      BY <1>3, <2>1 DEF Inv, GoneInv, Running
    <2> QED BY <1>3, <1>4, <1>7, <2>2 DEF GoneStep, Inv, GoneInv, RemovalHolds
  <1>9. ImportStep(c) /\ RowsFrom(c)
    BY <1>1, <1>3, <1>4 DEF ImportStep, RowsFrom
  <1>10. TablesInv'
    BY <1>3 DEF Inv, TablesInv
  <1>11. RowsInv'
    BY <1>3, <1>4, <1>6, RowStays DEF Inv, RowsInv
  <1> QED BY <1>3, <1>5, <1>6, <1>7, <1>8, <1>9, <1>10, <1>11, StepKeeps

\* The rows of a peer that is removed are cancelled.
LEMMA CancelKeeps == ASSUME Inv, NEW c, Cancel(c) PROVE Inv'
  <1>1. PICK p : p = Statement(c)[2]
    OBVIOUS
  <1>2. /\ c \in DOMAIN run /\ Statement(c)[1] = "cancel" /\ Next1(c, <<>>)
        /\ UNCHANGED <<db, blobs, todo, faults, crossed, heard>>
        /\ outbox' = {IF r.n = c.n /\ r.to = p /\ r.st = "queued" THEN [r EXCEPT !.st = "error"]
                      ELSE r : r \in outbox}
        /\ gone' = IF c \in crossed THEN gone ELSE gone \cup {<<c.n, p>>}
    BY <1>1 DEF Cancel
  <1>3. /\ c \in Commands /\ IsCommand(c) /\ c.n \in Nodes /\ 1 \in 1..Len(run[c])
        /\ Statement(c) = run[c][1] /\ StatementTrue(c, Statement(c)) /\ OrderTrue(c, run[c])
    BY <1>2, RunningFacts
  <1>4. c.op = "remove" /\ p = c.p /\ p \in Nodes \ {c.n}
    BY <1>1, <1>2, <1>3 DEF StatementTrue, IsCommand
  <1>5. Moves(c)
    BY <1>2, EndsOrMoves DEF Inv
  <1>6. Grows
    BY <1>2 DEF Grows
  <1>7. RosterStep(c) /\ TablesInv' /\ ImportStep(c) /\ \A g \in gone : g[2] \notin db'[g[1]].members
    BY <1>2 DEF RosterStep, ImportStep, Inv, TablesInv, GoneInv, RemovalHolds
  <1>8. ASSUME NEW x \in outbox'
        PROVE  \E r \in outbox : /\ x.n = r.n /\ x.id = r.id /\ x.to = r.to /\ RowTrue(x)'
                                 /\ (x = r \/ x.st = "error")
                                 /\ (x.n = c.n /\ x.to = p => x.st # "queued")
    <2>1. PICK r \in outbox : x = IF r.n = c.n /\ r.to = p /\ r.st = "queued"
                                  THEN [r EXCEPT !.st = "error"] ELSE r
      BY <1>2, <1>8
    <2>2. RowTrue(r)' /\ RowTrue(r)
      BY <1>6, RowStays DEF Inv, RowsInv
    <2>3. CASE x = r /\ ~ (r.n = c.n /\ r.to = p /\ r.st = "queued")
      BY <2>2, <2>3
    <2>4. CASE x = [r EXCEPT !.st = "error"]
      <3>1. /\ x.n = r.n /\ x.id = r.id /\ x.to = r.to /\ x.k = r.k /\ x.rid = r.rid /\ x.wire = r.wire
            /\ x.st = "error" /\ IsRow(x)
        BY <2>2, <2>4 DEF RowTrue, IsRow
      <3>2. RowTrue(x)'
        BY <2>2, <3>1 DEF RowTrue, IsRow
      <3> QED BY <3>1, <3>2
    <2> QED BY <2>1, <2>3, <2>4
  <1>9. RowsInv' /\ RowsFrom(c)
    BY <1>8 DEF RowsInv, RowsFrom
  <1>10. RunInv' /\ TodoInv'
    BY <1>2, <1>5, <1>6, <1>7, <1>9, RunKeeps DEF Inv
  <1>11. PICK gs : gs = gone
    OBVIOUS
  <1>12. GoneRuns(gs)'
    BY <1>2, <1>5, <1>11, GoneRest DEF Inv
  <1>13. \A x \in outbox', g \in gone : x.n = g[1] /\ x.to = g[2] => x.st # "queued"
    BY <1>8 DEF Inv, GoneInv, RemovalHolds
  <1>14. CASE c \in crossed
    BY <1>2, <1>7, <1>9, <1>10, <1>11, <1>12, <1>13, <1>14 DEF Inv, GoneInv, GoneRuns, RemovalHolds
  <1>15. CASE c \notin crossed
    <2>1. p \notin db[c.n].members
      <3>1. c.p \notin db[c.n].members \/ \E j \in 1..Len(run[c]) : j < 1
        BY <1>2, <1>3, <1>15 DEF OrderTrue
      <3> QED BY <1>4, <3>1
    <2>2. ASSUME NEW d \in DOMAIN run', d.n = c.n, NEW i \in 1..Len(run'[d]),
                 run'[d][i][1] \in {"member", "enqueue"}
          PROVE  run'[d][i][2] # p
      <3>1. d \in DOMAIN run /\ ~ PutsBack(d)
        BY <1>2, <1>4, <1>5, <1>15, <2>2 DEF Inv, GoneInv, Running, Moves
      <3>2. StatementTrue(d, run[d][i])'
        BY <1>10, <2>2 DEF RunInv
      <3>3. d.op \notin {"add", "send", "raw"}
        BY <3>1 DEF PutsBack
      <3>4. run'[d][i][2] = d.n
        BY <2>2, <3>2, <3>3 DEF StatementTrue, Posts
      <3> QED BY <1>4, <2>2, <3>4
    <2>3. \A x \in outbox' : x.n = c.n /\ x.to = p => x.st # "queued"
      BY <1>8
    <2>4. PICK g : g = <<c.n, p>>
      OBVIOUS
    <2>5. g[1] = c.n /\ g[2] = p /\ g = <<g[1], g[2]>>
      BY <2>4
    <2>6. gone' = gs \cup {g}
      BY <1>2, <1>11, <1>15, <2>4
    <2>7. RemovalHolds'
      BY <1>2, <1>7, <1>11, <1>13, <2>1, <2>3, <2>5, <2>6 DEF RemovalHolds
    <2>8. GoneInv'
      BY <1>3, <1>4, <1>12, <2>2, <2>5, <2>6, <2>7 DEF GoneInv, GoneRuns, Running
    <2> QED BY <1>7, <1>9, <1>10, <2>8 DEF Inv
  <1> QED BY <1>14, <1>15

-----------------------------------------------------------------------------
(* The handler's steps. *)

\* A message as `rsntr chat send` writes it.
SentAs(c, m) ==
  /\ m["id"] = c /\ m["body"] = Preview(c) /\ m["re"] = c.re
  /\ m["hash"] = (IF Attached(c) THEN c ELSE None)
  /\ m["name"] = (IF c.text = "big" THEN "spill" ELSE IF c.file THEN "file" ELSE None)

LEMMA SentWire ==
  ASSUME NEW c \in Commands, c.op = "send", NEW m, SentAs(c, m), NEW v, v = message_to_turtle(m)
  PROVE  /\ Field(v, "id") = c /\ Field(v, "from") = m["from"] /\ Field(v, "room") = m["room"]
         /\ Field(v, "re") = c.re /\ Field(v, "body") = Preview(c)
         /\ Field(v, "hash") # None => Attached(c)
         /\ (Field(v, "name") = "spill") = (c.text = "big")
         /\ c.text = "big" => Field(v, "hash") # None
  <1>1. /\ Field(v, "id") = m["id"] /\ Field(v, "from") = m["from"] /\ Field(v, "room") = m["room"]
        /\ Field(v, "re") = m["re"] /\ Field(v, "body") = m["body"] /\ Field(v, "hash") = m["hash"]
        /\ Field(v, "name") = IF m["hash"] # None THEN m["name"] ELSE None
    BY FieldWritten DEF Fields
  <1>2. c # None /\ None # "spill"
    BY CommandFacts, NoneAssumption
  <1>3. c.text = "big" => Attached(c)
    BY DEF Attached
  <1>4. Field(v, "hash") = IF Attached(c) THEN c ELSE None
    BY <1>1 DEF SentAs
  <1>5. CASE c.text = "big"
    <2>1. Field(v, "hash") = c
      BY <1>3, <1>4, <1>5
    <2>2. Field(v, "name") = "spill"
      BY <1>1, <1>2, <1>5, <2>1 DEF SentAs
    <2> QED BY <1>1, <1>2, <1>3, <1>5, <2>1, <2>2 DEF SentAs
  <1>6. CASE c.text # "big"
    <2>1. Field(v, "name") # "spill"
      BY <1>1, <1>2, <1>6 DEF SentAs
    <2> QED BY <1>1, <1>4, <1>6, <2>1 DEF SentAs
  <1> QED BY <1>5, <1>6

LEMMA OwnerReceives ==
  ASSUME NEW b, NEW c \in Commands, c.op = "send", c \in b[c.n], NEW rid, rid = [n |-> c.n, file |-> c]
  PROVE  Received(b, c.n, c.n, c, rid, message_to_turtle(Outgoing(c)), TRUE)
  <1>1. PICK m : m = Outgoing(c)
    OBVIOUS
  <1>2. SentAs(c, m) /\ m["from"] = None /\ m["room"] = None
    BY <1>1 DEF SentAs, Outgoing, Blank, Fields
  <1>3. PICK v : v = message_to_turtle(m)
    OBVIOUS
  <1>4. /\ Field(v, "id") = c /\ Field(v, "from") = None /\ Field(v, "room") = None
        /\ Field(v, "re") = c.re /\ Field(v, "body") = Preview(c)
        /\ Field(v, "hash") # None => Attached(c)
        /\ (Field(v, "name") = "spill") = (c.text = "big")
        /\ c.text = "big" => Field(v, "hash") # None
    BY <1>2, <1>3, SentWire
  <1>5. WireTrue(c.n, c.n, c, v)
    BY <1>4 DEF WireTrue, Author
  <1>6. MessageOf(rid) = c
    BY DEF MessageOf
  <1>7. c # None /\ c.n \in Nodes
    BY CommandFacts
  <1> QED BY <1>1, <1>3, <1>4, <1>5, <1>6, <1>7 DEF Received, Author, Posts

LEMMA OwnerKeeps == ASSUME Inv, NEW c, serve_chat_owner(c) PROVE Inv'
  <1>1. PICK rid : rid = [n |-> c.n, file |-> c]
    OBVIOUS
  <1>2. PICK h : h = handle_chat(c.n, c.n, rid, message_to_turtle(Outgoing(c)), TRUE)
    OBVIOUS
  <1>3. /\ c \in DOMAIN run /\ Statement(c)[1] = "handover"
        /\ blobs' = [blobs EXCEPT ![c.n] = @ \cup {c}] /\ db' = [db EXCEPT ![c.n] = h.db]
        /\ outbox' = outbox \cup h.rows
        /\ Next1(c, <<>>) \/ run' = Drop(run, c)
        /\ UNCHANGED <<todo, faults, crossed, gone, heard>>
    BY <1>1, <1>2 DEF serve_chat_owner
  <1>4. /\ c \in Commands /\ c.n \in Nodes /\ StatementTrue(c, Statement(c)) /\ DbTrue(blobs, c.n, db[c.n])
    BY <1>3, RunningFacts
  <1>5. c.op = "send"
    BY <1>3, <1>4 DEF StatementTrue
  <1>6. /\ \A n \in Nodes : blobs[n] \subseteq blobs'[n]
        /\ c \in blobs'[c.n] /\ blobs' \in [Nodes -> SUBSET Commands]
        /\ \A m \in Nodes : \A x \in blobs'[m] : Author(x) = m
    BY <1>3, <1>4, BlobsKeep
  <1>7. PICK b : b = blobs'
    OBVIOUS
  <1>8. Received(b, c.n, c.n, c, rid, message_to_turtle(Outgoing(c)), TRUE)
    BY <1>1, <1>4, <1>5, <1>6, <1>7, OwnerReceives
  <1>9. Stores(b, db[c.n], c.n, c, rid, h) /\ PassesOn(b, db[c.n], c.n, c, h)
    BY <1>2, <1>4, <1>8, HandlerFacts
  <1>10. h.rows = {}
    BY <1>9 DEF PassesOn, Author
  <1>11. DOMAIN db = Nodes /\ db'[c.n] = h.db /\ \A m \in Nodes : m # c.n => db'[m] = db[m]
    BY <1>3, <1>4 DEF Inv, TablesInv
  <1>12. Grows
    BY <1>6, <1>9, <1>11 DEF Grows, Stores
  <1>13. Moves(c)
    BY <1>3, EndsOrMoves DEF Inv
  <1>14. RosterStep(c) /\ \A g \in gone : g[2] \notin db'[g[1]].members
    <2>1. \A p \in h.db.members : p \in db[c.n].members
      BY <1>9 DEF Stores
    <2>2. Statement(c)[1] # "unroster"
      BY <1>3
    <2> QED BY <1>3, <1>4, <2>1, <2>2, RosterFrom
  <1>15. UNCHANGED outbox
    BY <1>3, <1>10
  <1>16. GoneStep
    BY <1>3, <1>14, <1>15 DEF GoneStep, Inv, GoneInv, RemovalHolds
  <1>17. ImportStep(c) /\ RowsFrom(c)
    BY <1>6, <1>15 DEF ImportStep, RowsFrom
  <1>18. TablesInv'
    <2>1. DbTrue(b, c.n, db[c.n])
      BY <1>4, <1>7, <1>12, DbStays
    <2>2. MessageOf(rid) = c
      BY <1>8 DEF Received
    <2>3. DbTrue(blobs', c.n, h.db)
      BY <1>7, <1>9, <2>1, <2>2, HandledDb
    <2>4. faults' \in 0..MaxFaults
      BY <1>3 DEF Inv, TablesInv
    <2> QED BY <1>3, <1>4, <1>6, <1>12, <2>3, <2>4, TablesKeep DEF Inv
  <1>19. RowsInv'
    BY <1>12, <1>15, RowsRest DEF Inv
  <1> QED BY <1>3, <1>12, <1>13, <1>14, <1>16, <1>17, <1>18, <1>19, StepKeeps

\* Rows that pass a message on.
LEMMA PassedRow ==
  ASSUME Inv, NEW n \in Nodes, NEW id \in Commands, Posts(id), NEW h, NEW d, d = db[n],
         PassesOn(blobs, d, n, id, h), NEW x \in h.rows
  PROVE  /\ IsRow(x) /\ x.n = n /\ n = Host /\ x.id = id /\ x.to \in d.members \ {n} /\ x.k = 1 /\ x.st = "queued"
         /\ MessageOf(x.rid) = id /\ WireTrue(n, x.to, id, x.wire) /\ Field(x.wire, "id") # None
         /\ Field(x.wire, "hash") # None => id \in blobs[Author(id)]
         /\ n # Author(id) /\ id \in DOMAIN h.db.msgs
  <1>1. /\ n = Host /\ Author(id) # Host /\ id \notin DOMAIN d.msgs /\ id \in DOMAIN h.db.msgs
        /\ \E w : /\ h.rows = {NewRow(n, id, p, w) : p \in d.members \ {Author(id), n}}
                  /\ \A p \in Nodes \ {Host} : WireTrue(n, p, id, w)
                  /\ Field(w, "id") # None
                  /\ Field(w, "hash") # None => id \in blobs[Author(id)]
    BY DEF PassesOn
  <1>2. PICK w : /\ h.rows = {NewRow(n, id, p, w) : p \in d.members \ {Author(id), n}}
                 /\ \A p \in Nodes \ {Host} : WireTrue(n, p, id, w)
                 /\ Field(w, "id") # None
                 /\ Field(w, "hash") # None => id \in blobs[Author(id)]
    BY <1>1
  <1>3. PICK p \in d.members \ {Author(id), n} : x = NewRow(n, id, p, w)
    BY <1>2
  <1>4. p \in Nodes
    BY <1>3 DEF Inv, TablesInv, DbTrue
  <1>5. \A r \in outbox : ~ (r.n = n /\ r.id = id /\ r.to = p)
    BY <1>1 DEF Inv, RowsInv, RowTrue
  <1>6. PICK rid : rid = [n |-> n, of |-> id, to |-> p, k |-> 1]
    OBVIOUS
  <1>7. /\ x = [n |-> n, id |-> id, to |-> p, k |-> 1, rid |-> rid, wire |-> w, st |-> "queued"]
        /\ MessageOf(rid) = id
    BY <1>3, <1>5, <1>6, FreshRow
  <1>8. /\ x.n = n /\ x.id = id /\ x.to = p /\ x.k = 1 /\ x.rid = rid /\ x.wire = w /\ x.st = "queued"
        /\ IsRow(x)
    BY <1>7 DEF IsRow
  <1> QED BY <1>1, <1>2, <1>3, <1>4, <1>7, <1>8

LEMMA DeliverKeeps == ASSUME Inv, NEW r, NEW lost \in BOOLEAN, Deliver(r, lost) PROVE Inv'
  <1>1. PICK h : h = handle_chat(r.to, r.n, r.rid, r.wire, FALSE)
    OBVIOUS
  <1>2. PICK y : y = IF lost THEN r ELSE [r EXCEPT !.st = answer_chat_outcome(h.out)]
    OBVIOUS
  <1>3. /\ r \in outbox /\ r.st = "queued" /\ (lost => faults < MaxFaults)
        /\ db' = [db EXCEPT ![r.to] = h.db]
        /\ outbox' = (outbox \ {r}) \cup h.rows \cup {y}
        /\ faults' = IF lost THEN faults + 1 ELSE faults
        /\ UNCHANGED <<blobs, todo, run, crossed, gone>>
    BY <1>1, <1>2 DEF Deliver
  <1>4. RowTrue(r)
    BY <1>3 DEF Inv, RowsInv
  <1>5. Received(blobs, r.to, r.n, r.id, r.rid, r.wire, FALSE)
    BY <1>4 DEF RowTrue, Received
  <1>6. DOMAIN db = Nodes /\ DbTrue(blobs, r.to, db[r.to]) /\ r.to \in Nodes /\ r.id \in Commands /\ Posts(r.id)
        /\ IsRow(r)
    BY <1>4 DEF Inv, TablesInv, RowTrue
  <1>7. PICK b : b = blobs
    OBVIOUS
  <1>8. Stores(b, db[r.to], r.to, r.id, r.rid, h) /\ PassesOn(b, db[r.to], r.to, r.id, h)
    BY <1>1, <1>5, <1>6, <1>7, HandlerFacts
  <1>9. db'[r.to] = h.db /\ \A m \in Nodes : m # r.to => db'[m] = db[m]
    BY <1>3, <1>6
  <1>10. Grows
    BY <1>3, <1>8, <1>9 DEF Grows, Stores
  <1>11. None \notin DOMAIN run
    BY CommandFacts DEF Inv, RunInv
  <1>12. Moves(None) /\ ImportStep(None)
    BY <1>3, <1>11, EndsOrMoves DEF ImportStep
  <1>13. RosterStep(None) /\ \A g \in gone : g[2] \notin db'[g[1]].members
    <2>1. \A p \in h.db.members : p \in db[r.to].members
      BY <1>8 DEF Stores
    <2> QED BY <1>3, <1>6, <1>11, <2>1, RosterFrom
  <1>14. TablesInv'
    <2>1. MessageOf(r.rid) = r.id
      BY <1>5 DEF Received
    <2>2. DbTrue(blobs', r.to, h.db)
      BY <1>3, <1>6, <1>7, <1>8, <2>1, HandledDb
    <2>3. /\ blobs' \in [Nodes -> SUBSET Commands] /\ faults' \in 0..MaxFaults
          /\ \A m \in Nodes : \A x \in blobs'[m] : Author(x) = m
      BY <1>3, FaultsAssumption DEF Inv, TablesInv
    <2> QED BY <1>3, <1>6, <1>10, <2>2, <2>3, TablesKeep DEF Inv
  <1>15. /\ RowTrue(y)' /\ y.n = r.n /\ y.id = r.id /\ y.to = r.to
    <2>1. RowTrue(r)'
      BY <1>4, <1>10, RowStays
    <2>2. CASE lost
      BY <1>2, <2>1, <2>2
    <2>3. CASE ~ lost
      <3>1. PICK st : st = answer_chat_outcome(h.out)
        OBVIOUS
      <3>2. st \in {"done", "denied", "error"} /\ (st = "done" => r.id \in DOMAIN h.db.msgs)
        BY <1>8, <3>1 DEF Stores, answer_chat_outcome
      <3>3. y = [r EXCEPT !.st = st]
        BY <1>2, <2>3, <3>1
      <3>4. /\ y.n = r.n /\ y.id = r.id /\ y.to = r.to /\ y.k = r.k /\ y.rid = r.rid /\ y.wire = r.wire
            /\ y.st = st /\ IsRow(y)
        BY <1>6, <3>3 DEF IsRow
      <3>5. st = "done" => r.id \in DOMAIN db'[r.to].msgs
        BY <1>9, <3>2
      <3>6. RowTrue(y)'
        BY <2>1, <3>2, <3>4, <3>5 DEF RowTrue, IsRow
      <3> QED BY <3>4, <3>6
    <2> QED BY <2>2, <2>3
  <1>16. PICK d : d = db[r.to]
    OBVIOUS
  <1>17. ASSUME NEW x \in h.rows
         PROVE  /\ RowTrue(x)' /\ x.n = r.to /\ x.id = r.id /\ x.n # Author(x.id)
                /\ x.to \in db[r.to].members
    <2>1. /\ IsRow(x) /\ x.n = r.to /\ r.to = Host /\ x.id = r.id /\ x.to \in d.members \ {r.to} /\ x.k = 1
          /\ x.st = "queued"
          /\ MessageOf(x.rid) = r.id /\ WireTrue(r.to, x.to, r.id, x.wire) /\ Field(x.wire, "id") # None
          /\ Field(x.wire, "hash") # None => r.id \in blobs[Author(r.id)]
          /\ r.to # Author(r.id) /\ r.id \in DOMAIN h.db.msgs
      BY <1>6, <1>7, <1>8, <1>16, <1>17, PassedRow
    <2>2. x.to \in Nodes \ {r.to}
      BY <1>6, <1>16, <2>1 DEF DbTrue
    <2>3. r.id \in DOMAIN db'[r.to].msgs
      BY <1>9, <2>1
    <2>4. RowTrue(x)'
      BY <1>3, <1>6, <2>1, <2>2, <2>3 DEF RowTrue, IsRow
    <2> QED BY <1>16, <2>1, <2>4
  <1>18. RowsInv'
    BY <1>3, <1>10, <1>15, <1>17, RowStays DEF Inv, RowsInv
  <1>19. RowsFrom(None)
    BY <1>3, <1>15, <1>17 DEF RowsFrom
  <1>20. GoneStep
    <2>1. \A g \in gone : /\ g[2] \notin db[g[1]].members
                          /\ \A q \in outbox : q.n = g[1] /\ q.to = g[2] => q.st # "queued"
      BY DEF Inv, GoneInv, RemovalHolds
    <2>2. \A g \in gone, x \in outbox' : x.n = g[1] /\ x.to = g[2] => x.st # "queued"
      BY <1>3, <1>15, <1>17, <2>1
    <2> QED BY <1>13, <2>2 DEF GoneStep
  <1> QED BY <1>3, <1>10, <1>12, <1>13, <1>14, <1>18, <1>19, <1>20, StepKeeps

\* A reader puts the full text in.
LEMMA SpillKeeps == ASSUME Inv, NEW n \in Nodes, NEW id, inline_spilled(n, id) PROVE Inv'
  <1>1. PICK d : d = db[n]
    OBVIOUS
  <1>2. PICK e : e = [d.msgs[id] EXCEPT !.body = "big", !.name = None]
    OBVIOUS
  <1>3. PICK ms : ms = [d.msgs EXCEPT ![id] = e]
    OBVIOUS
  <1>4. PICK f : f = [d EXCEPT !.msgs = ms]
    OBVIOUS
  <1>5. /\ id \in DOMAIN d.msgs /\ is_spilled(d.msgs[id]) /\ db' = [db EXCEPT ![n] = f]
        /\ UNCHANGED <<outbox, blobs, todo, run, faults, crossed, gone, heard>>
    <2>1. /\ id \in DOMAIN d.msgs /\ is_spilled(d.msgs[id])
          /\ db' = [db EXCEPT ![n].msgs[id].body = "big", ![n].msgs[id].name = None]
          /\ UNCHANGED <<outbox, blobs, todo, run, faults, crossed, gone, heard>>
      BY <1>1 DEF inline_spilled
    <2>2. DOMAIN db = Nodes /\ IsDb(d)
      BY <1>1 DEF Inv, TablesInv, DbTrue
    <2>3. PICK a : a = [d.msgs[id] EXCEPT !.body = "big"]
      OBVIOUS
    <2>4. PICK g : g = [d EXCEPT !.msgs = [d.msgs EXCEPT ![id] = a]]
      OBVIOUS
    <2>5. db' = [[db EXCEPT ![n] = g] EXCEPT ![n].msgs[id].name = None]
      BY <1>1, <2>1, <2>3, <2>4
    <2>6. g.msgs[id] = a /\ g.msgs = [d.msgs EXCEPT ![id] = a]
      BY <2>1, <2>2, <2>4 DEF IsDb
    <2>7. db' = [db EXCEPT ![n] = [g EXCEPT !.msgs = [g.msgs EXCEPT ![id] = [a EXCEPT !.name = None]]]]
      BY <2>2, <2>5, <2>6
    <2>8. [g EXCEPT !.msgs = [g.msgs EXCEPT ![id] = [a EXCEPT !.name = None]]] = f
      BY <1>2, <1>3, <1>4, <2>2, <2>3, <2>4, <2>6 DEF IsDb
    <2> QED BY <2>1, <2>7, <2>8
  <1>6. DbTrue(blobs, n, d) /\ DOMAIN db = Nodes
    BY <1>1 DEF Inv, TablesInv
  <1>7. EntryTrue(blobs, id, d.msgs[id])
    BY <1>5, <1>6 DEF DbTrue
  <1>8. EntryTrue(blobs, id, e)
    <2>1. /\ IsEntry(e) /\ e.body = "big" /\ e.name = None /\ e.sender = d.msgs[id].sender
          /\ e.re = d.msgs[id].re
      BY <1>2, <1>7 DEF EntryTrue, IsEntry
    <2>2. ~ is_spilled(e)
      BY <2>1, NoneAssumption DEF is_spilled
    <2>3. id.text = "big"
      BY <1>5, <1>7 DEF EntryTrue
    <2> QED BY <1>7, <2>1, <2>2, <2>3 DEF EntryTrue
  <1>9. /\ DOMAIN ms = DOMAIN d.msgs /\ ms[id] = e
        /\ \A x \in DOMAIN ms : x # id => ms[x] = d.msgs[x]
    BY <1>3, <1>5
  <1>10. IsDb(f) /\ f.msgs = ms /\ f.have = d.have /\ f.members = d.members
         /\ f.host = d.host /\ f.peers = d.peers /\ f.applied = d.applied
    BY <1>4, <1>6 DEF DbTrue, IsDb
  <1>11. \A x \in DOMAIN ms : EntryTrue(blobs, x, ms[x])
    BY <1>6, <1>8, <1>9 DEF DbTrue
  <1>12. DbTrue(blobs, n, f)
    BY <1>6, <1>9, <1>10, <1>11 DEF DbTrue
  <1>13. Grows
    BY <1>1, <1>5, <1>6, <1>9, <1>10 DEF Grows
  <1>14. None \notin DOMAIN run
    BY CommandFacts DEF Inv, RunInv
  <1>15. Moves(None) /\ ImportStep(None) /\ RowsFrom(None)
    BY <1>5, <1>14, EndsOrMoves DEF ImportStep, RowsFrom
  <1>16. RosterStep(None) /\ \A g \in gone : g[2] \notin db'[g[1]].members
    <2>1. \A p \in f.members : p \in db[n].members
      BY <1>1, <1>10
    <2> QED BY <1>5, <1>14, <2>1, RosterFrom
  <1>17. GoneStep
    BY <1>5, <1>16 DEF GoneStep, Inv, GoneInv, RemovalHolds
  <1>18. TablesInv'
    <2>1. DbTrue(blobs', n, f)
      BY <1>5, <1>12
    <2>2. /\ blobs' \in [Nodes -> SUBSET Commands] /\ faults' \in 0..MaxFaults
          /\ \A m \in Nodes : \A x \in blobs'[m] : Author(x) = m
      BY <1>5 DEF Inv, TablesInv
    <2> QED BY <1>5, <1>13, <2>1, <2>2, TablesKeep DEF Inv
  <1>19. RowsInv'
    BY <1>5, <1>13, RowsRest DEF Inv
  <1> QED BY <1>5, <1>13, <1>15, <1>16, <1>17, <1>18, <1>19, StepKeeps

-----------------------------------------------------------------------------
(* The statements that a command starts with. *)

LEMMA Joined2 == ASSUME NEW a, NEW b PROVE <<a>> \o <<b>> = <<a, b>>
  <1>1. PICK q : q = <<a>> \o <<b>>
    OBVIOUS
  <1>2. PICK p : p = <<a, b>>
    OBVIOUS
  <1>3. p \in Seq({a, b}) /\ Len(p) = 2 /\ p[1] = a /\ p[2] = b
    BY <1>2
  <1>4. q \in Seq({a, b}) /\ Len(q) = 2 /\ q[1] = a /\ q[2] = b
    BY <1>1
  <1>5. \A i \in 1..Len(p) : p[i] = q[i]
    BY <1>3, <1>4
  <1>6. p = q
    BY <1>3, <1>4, <1>5, SeqEqual
  <1> QED BY <1>1, <1>2, <1>6

LEMMA Joined3 == ASSUME NEW a, NEW b, NEW d PROVE <<a, b>> \o <<d>> = <<a, b, d>>
  <1>1. PICK q : q = <<a, b>> \o <<d>>
    OBVIOUS
  <1>2. PICK p : p = <<a, b, d>>
    OBVIOUS
  <1>3. p \in Seq({a, b, d}) /\ Len(p) = 3 /\ p[1] = a /\ p[2] = b /\ p[3] = d
    BY <1>2
  <1>4. q \in Seq({a, b, d}) /\ Len(q) = 3 /\ q[1] = a /\ q[2] = b /\ q[3] = d
    BY <1>1
  <1>5. \A i \in 1..Len(p) : p[i] = q[i]
    BY <1>3, <1>4
  <1>6. p = q
    BY <1>3, <1>4, <1>5, SeqEqual
  <1> QED BY <1>1, <1>2, <1>6

LEMMA Joined4 == ASSUME NEW a, NEW b, NEW d, NEW e PROVE <<a, b, d>> \o <<e>> = <<a, b, d, e>>
  <1>1. PICK q : q = <<a, b, d>> \o <<e>>
    OBVIOUS
  <1>2. PICK p : p = <<a, b, d, e>>
    OBVIOUS
  <1>3. p \in Seq({a, b, d, e}) /\ Len(p) = 4 /\ p[1] = a /\ p[2] = b /\ p[3] = d /\ p[4] = e
    BY <1>2
  <1>4. q \in Seq({a, b, d, e}) /\ Len(q) = 4 /\ q[1] = a /\ q[2] = b /\ q[3] = d /\ q[4] = e
    BY <1>1
  <1>5. \A i \in 1..Len(p) : p[i] = q[i]
    BY <1>3, <1>4
  <1>6. p = q
    BY <1>3, <1>4, <1>5, SeqEqual
  <1> QED BY <1>1, <1>2, <1>6

\* A statement that puts rows back does so for the peer the command addresses,
\* or makes the creator a member of its own room.
Fine(c, s) ==
  /\ StatementTrue(c, s)
  /\ s[1] \in {"member", "enqueue"} => s[2] \in Addressed(c) \cup {c.n}

\* The statements of a command with no rows yet.
Sound(c, q) ==
  /\ IsSeq(q) /\ q # <<>>
  /\ \A i \in 1..Len(q) : Fine(c, q[i])
  /\ OrderTrue(c, q)
  /\ \A i, j \in 1..Len(q) : q[i][1] = "enqueue" /\ q[j][1] = "enqueue" /\ i # j => q[i][2] # q[j][2]
  /\ \A i \in 1..Len(q) : q[i][1] = "roster" => i = Len(q)
  /\ \A i, j \in 1..Len(q) : ~ (q[i][1] = "roster" /\ q[j][1] = "enqueue")

\* Statements on the tables only.
LEMMA PlainSound ==
  ASSUME NEW c, NEW T, NEW q \in Seq(T), q # <<>>,
         \A s \in T : Fine(c, s) /\ s[1] \notin {"enqueue", "roster", "cancel"}
  PROVE  Sound(c, q)
  <1>1. IsSeq(q)
    BY SeqFacts
  <1>2. \A i \in 1..Len(q) : q[i] \in T
    OBVIOUS
  <1> QED BY <1>1, <1>2 DEF Sound, OrderTrue

LEMMA InitSound ==
  ASSUME NEW c \in Commands, c.op = "init"
  PROVE  Sound(c, chat_init_with(c))
  <1> DEFINE T == {<<"have", x>> : x \in Parts} \cup {<<"policy", "*", Direct>>, <<"policy", c.n, "chat_messages">>}
  <1>1. \A s \in T : Fine(c, s) /\ s[1] \notin {"enqueue", "roster", "cancel"}
    BY DEF Fine, StatementTrue
  <1>2. PICK p : p = <<<<"have", "tables">>, <<"have", "view">>, <<"have", "points">>, <<"have", "comments">>,
                       <<"policy", "*", Direct>>, <<"policy", c.n, "chat_messages">>>>
    OBVIOUS
  <1>3. /\ <<"have", "tables">> \in T /\ <<"have", "view">> \in T /\ <<"have", "points">> \in T
        /\ <<"have", "comments">> \in T /\ <<"policy", "*", Direct>> \in T
        /\ <<"policy", c.n, "chat_messages">> \in T /\ <<"have", "mods">> \in T
    BY DEF Parts
  <1> HIDE DEF T
  <1>4. p \in Seq(T) /\ Len(p) = 6
    BY <1>2, <1>3
  <1>5. PICK r : r = IF "mods" \in db[c.n].have THEN <<>> ELSE <<<<"have", "mods">>>>
    OBVIOUS
  <1>6. r \in Seq(T) /\ Len(r) \in Nat
    BY <1>3, <1>5
  <1>7. PICK q : q = p \o r
    OBVIOUS
  <1>8. q \in Seq(T) /\ Len(q) = Len(p) + Len(r)
    BY <1>4, <1>6, <1>7, ConcatProperties, Zenon
  <1>9. q # <<>>
    BY <1>4, <1>6, <1>8
  <1>10. chat_init_with(c) = q
    BY <1>2, <1>5, <1>7 DEF chat_init_with
  <1>11. Sound(c, q)
    BY <1>1, <1>8, <1>9, PlainSound, Zenon
  <1> QED BY <1>10, <1>11

LEMMA RoomSound ==
  ASSUME Inv, NEW c \in Commands, Accepted(c)
  PROVE  /\ c.op = "create" => Sound(c, room_create_with(c))
         /\ c.op = "add" => Sound(c, room_add_with(c))
         /\ c.op = "join" => Sound(c, room_join_with(c))
  <1>1. IsCommand(c) /\ c.n \in Nodes
    BY CommandFacts
  <1>2. CASE c.op = "create"
    <2>1. c.n = Host /\ "tables" \in db[c.n].have
      BY <1>1, <1>2 DEF IsCommand, Accepted, IsReady
    <2>2. PICK a : a = <<"bind", c.n>>
      OBVIOUS
    <2>3. PICK b : b = <<"member", c.n>>
      OBVIOUS
    <2>4. Fine(c, a) /\ Fine(c, b) /\ a[1] = "bind" /\ b[1] = "member"
      BY <1>1, <1>2, <2>1, <2>2, <2>3 DEF Fine, StatementTrue
    <2>5. \A s \in {a, b} : Fine(c, s) /\ s[1] \notin {"enqueue", "roster", "cancel"}
      BY <2>4
    <2>6. PICK q, T : q = <<a, b>> /\ T = {a, b}
      OBVIOUS
    <2>7. q \in Seq(T) /\ q # <<>> /\ \A s \in T : Fine(c, s) /\ s[1] \notin {"enqueue", "roster", "cancel"}
      BY <2>5, <2>6
    <2>8. Sound(c, q)
      BY <2>7, PlainSound, Zenon
    <2> QED BY <1>2, <2>2, <2>3, <2>6, <2>8 DEF room_create_with
  <1>3. CASE c.op = "add"
    <2>1. c.p \in Nodes /\ "tables" \in db[c.n].have /\ Addressed(c) = {c.p}
      BY <1>1, <1>3 DEF IsCommand, Accepted, IsReady, Addressed
    <2>2. PICK a : a = <<"member", c.p>>
      OBVIOUS
    <2>3. PICK b : b = <<"policy", c.p, Room>>
      OBVIOUS
    <2>4. Fine(c, a) /\ Fine(c, b) /\ a[1] = "member" /\ b[1] = "policy"
      BY <1>1, <1>3, <2>1, <2>2, <2>3 DEF Fine, StatementTrue
    <2>5. \A s \in {a, b} : Fine(c, s) /\ s[1] \notin {"enqueue", "roster", "cancel"}
      BY <2>4
    <2>6. PICK q, T : q = <<a, b>> /\ T = {a, b}
      OBVIOUS
    <2>7. q \in Seq(T) /\ q # <<>> /\ \A s \in T : Fine(c, s) /\ s[1] \notin {"enqueue", "roster", "cancel"}
      BY <2>5, <2>6
    <2>8. Sound(c, q)
      BY <2>7, PlainSound, Zenon
    <2> QED BY <1>3, <2>2, <2>3, <2>6, <2>8 DEF room_add_with
  <1>4. CASE c.op = "join"
    <2>1. c.p \in Nodes \ {c.n}
      BY <1>1, <1>4 DEF IsCommand
    <2>2. PICK a : a = <<"bind", c.p>>
      OBVIOUS
    <2>3. Fine(c, a) /\ a[1] = "bind"
      BY <2>1, <2>2 DEF Fine, StatementTrue
    <2>4. \A s \in {a} : Fine(c, s) /\ s[1] \notin {"enqueue", "roster", "cancel"}
      BY <2>3
    <2>5. PICK q, T : q = <<a>> /\ T = {a}
      OBVIOUS
    <2>6. q \in Seq(T) /\ q # <<>> /\ \A s \in T : Fine(c, s) /\ s[1] \notin {"enqueue", "roster", "cancel"}
      BY <2>4, <2>5
    <2>7. Sound(c, q)
      BY <2>6, PlainSound, Zenon
    <2> QED BY <1>4, <2>2, <2>5, <2>7 DEF room_join_with
  <1> QED BY <1>2, <1>3, <1>4

\* Off the roster first, where there is one.
LEMMA RemoveSound ==
  ASSUME Inv, NEW c \in Commands, c.op = "remove"
  PROVE  Sound(c, peer_remove_with(c))
  <1>1. PICK a : a = <<"forget", c.p>>
    OBVIOUS
  <1>2. PICK b : b = <<"revoke", c.p>>
    OBVIOUS
  <1>3. PICK u : u = <<"unroster", c.p>>
    OBVIOUS
  <1>4. PICK x : x = <<"cancel", c.p>>
    OBVIOUS
  <1>5. /\ a[1] = "forget" /\ b[1] = "revoke" /\ u[1] = "unroster" /\ x[1] = "cancel"
        /\ Fine(c, a) /\ Fine(c, b) /\ Fine(c, u) /\ Fine(c, x)
    BY <1>1, <1>2, <1>3, <1>4 DEF Fine, StatementTrue
  <1>6. PICK q : q = peer_remove_with(c)
    OBVIOUS
  <1>7. CASE IsReady(c.n)
    <2>1. q = (<<a, b>> \o <<u>>) \o <<x>>
      BY <1>1, <1>2, <1>3, <1>4, <1>6, <1>7 DEF peer_remove_with
    <2>2. q = <<a, b, u, x>>
      <3>1. <<a, b>> \o <<u>> = <<a, b, u>>
        BY Joined3
      <3>2. <<a, b, u>> \o <<x>> = <<a, b, u, x>>
        BY Joined4
      <3> QED BY <2>1, <3>1, <3>2
    <2>3. /\ q \in Seq({a, b, u, x}) /\ q # <<>> /\ Len(q) = 4
          /\ q[1] = a /\ q[2] = b /\ q[3] = u /\ q[4] = x
      BY <2>2
    <2>4. IsSeq(q)
      BY <2>3, SeqFacts
    <2>5. /\ 1..Len(q) = {1, 2, 3, 4} /\ 3 < 4
      BY <2>3
    <2>6. \A i \in 1..Len(q) : Fine(c, q[i]) /\ q[i][1] \notin {"enqueue", "roster"} /\ (q[i][1] = "cancel" => i = 4)
      BY <1>5, <2>3, <2>5
    <2>7. OrderTrue(c, q)
      BY <1>5, <2>3, <2>5, <2>6 DEF OrderTrue
    <2> QED BY <1>6, <2>3, <2>4, <2>6, <2>7 DEF Sound
  <1>8. CASE ~ IsReady(c.n)
    <2>1. q = (<<a, b>> \o <<>>) \o <<x>>
      BY <1>1, <1>2, <1>4, <1>6, <1>8 DEF peer_remove_with
    <2>2. <<a, b>> \o <<>> = <<a, b>>
      OBVIOUS
    <2>3. q = <<a, b, x>>
      BY <2>1, <2>2, Joined3
    <2>4. /\ q \in Seq({a, b, x}) /\ q # <<>> /\ Len(q) = 3
          /\ q[1] = a /\ q[2] = b /\ q[3] = x
      BY <2>3
    <2>5. IsSeq(q)
      BY <2>4, SeqFacts
    <2>6. 1..Len(q) = {1, 2, 3}
      BY <2>4
    <2>7. \A i \in 1..Len(q) : Fine(c, q[i]) /\ q[i][1] \notin {"enqueue", "roster"}
      BY <1>5, <2>4, <2>6
    <2>8. c.p \notin db[c.n].members
      BY <1>8, CommandFacts DEF IsReady, Inv, TablesInv, DbTrue
    <2>9. OrderTrue(c, q)
      BY <2>7, <2>8 DEF OrderTrue
    <2> QED BY <1>6, <2>4, <2>5, <2>7, <2>9 DEF Sound
  <1> QED BY <1>7, <1>8

\* An application's row names no message, author or blob of others.
LEMMA RawSound ==
  ASSUME NEW c \in Commands, c.op = "raw", NEW q, q = <<<<"enqueue", c.to, c, c.wire>>>>
  PROVE  Sound(c, q)
  <1>1. IsCommand(c) /\ c.n \in Nodes
    BY CommandFacts
  <1>2. c.to \in Nodes \ {c.n} /\ \A p \in c.wire : p[1] \notin {"id", "from", "hash"}
    BY <1>1 DEF IsCommand
  <1>3. Field(c.wire, "id") = None /\ Field(c.wire, "from") = None /\ Field(c.wire, "hash") = None
    BY <1>2 DEF Field
  <1>4. WireTrue(c.n, c.to, c, c.wire)
    BY <1>3 DEF WireTrue, Author
  <1>5. PICK s : s = <<"enqueue", c.to, c, c.wire>>
    OBVIOUS
  <1>6. s[1] = "enqueue" /\ s[2] = c.to /\ s[3] = c /\ s[4] = c.wire
    BY <1>5
  <1>7. Addressed(c) = {c.to}
    BY DEF Addressed
  <1>8. Fine(c, s)
    BY <1>2, <1>4, <1>6, <1>7 DEF Fine, StatementTrue, Posts
  <1>9. q \in Seq({s}) /\ q # <<>> /\ Len(q) = 1 /\ q[1] = s
    BY <1>5
  <1>10. IsSeq(q)
    BY <1>9, SeqFacts
  <1>11. 1..Len(q) = {1}
    BY <1>9
  <1>12. OrderTrue(c, q)
    BY <1>6, <1>9, <1>11 DEF OrderTrue
  <1> QED BY <1>6, <1>8, <1>9, <1>10, <1>11, <1>12 DEF Sound

\* The delivery of a message that is sent: to a peer, to the host, or to the
\* roster of a room of one's own.
LEMMA SendDelivers ==
  ASSUME Inv, NEW c \in Commands, c.op = "send", Accepted(c)
  PROVE  \E s : Enqueues(c) = <<s>> /\ s[1] \in {"enqueue", "roster"} /\ Fine(c, s)
  <1>1. IsCommand(c) /\ c.n \in Nodes /\ c # None /\ DbTrue(blobs, c.n, db[c.n]) /\ Room # None
    BY CommandFacts, NoneAssumption DEF Inv, TablesInv
  <1>2. PICK to : to = IF c.to = Room THEN db[c.n].host ELSE c.to
    OBVIOUS
  <1>3. Addressed(c) = {to}
    BY <1>2 DEF Addressed
  <1>4. c.to = Room => db[c.n].host \in Nodes /\ (db[c.n].host = c.n => c.n = Host)
    BY <1>1 DEF DbTrue, Accepted, resolve_target
  <1>5. CASE c.to = Room /\ db[c.n].host = c.n
    <2>1. PICK s : s = <<"roster">>
      OBVIOUS
    <2>2. Enqueues(c) = <<s>> /\ s[1] = "roster"
      BY <1>5, <2>1 DEF Enqueues
    <2>3. Fine(c, s)
      BY <1>4, <1>5, <2>2 DEF Fine, StatementTrue
    <2> QED BY <2>2, <2>3
  <1>6. CASE ~ (c.to = Room /\ db[c.n].host = c.n)
    <2>1. PICK m : m = IF c.to = Room THEN [Outgoing(c) EXCEPT !.room = Room] ELSE Outgoing(c)
      OBVIOUS
    <2>2. SentAs(c, m) /\ m["from"] = None
      BY <2>1 DEF SentAs, Outgoing, Blank, Fields
    <2>3. PICK v : v = message_to_turtle(m)
      OBVIOUS
    <2>4. PICK s : s = <<"enqueue", to, c, v>>
      OBVIOUS
    <2>5. s[1] = "enqueue" /\ s[2] = to /\ s[3] = c /\ s[4] = v
      BY <2>4
    <2>6. Enqueues(c) = <<s>>
      BY <1>2, <1>6, <2>1, <2>3, <2>4 DEF Enqueues
    <2>7. /\ Field(v, "id") = c /\ Field(v, "from") = None
          /\ Field(v, "re") = c.re /\ Field(v, "body") = Preview(c)
          /\ Field(v, "hash") # None => Attached(c)
          /\ (Field(v, "name") = "spill") = (c.text = "big")
          /\ c.text = "big" => Field(v, "hash") # None
      BY <2>2, <2>3, SentWire
    <2>8. WireTrue(c.n, to, c, v)
      BY <2>7 DEF WireTrue, Author
    <2>9. to \in Nodes \ {c.n}
      BY <1>1, <1>2, <1>4, <1>6 DEF IsCommand
    <2>10. Fine(c, s)
      BY <1>1, <1>3, <2>5, <2>7, <2>8, <2>9 DEF Fine, StatementTrue, Posts
    <2> QED BY <2>5, <2>6, <2>10
  <1> QED BY <1>5, <1>6

\* The text is imported before the delivery is queued.
LEMMA SendSound ==
  ASSUME Inv, NEW c \in Commands, c.op = "send", Accepted(c)
  PROVE  Sound(c, chat_send_opts(c))
  <1>1. PICK s : Enqueues(c) = <<s>> /\ s[1] \in {"enqueue", "roster"} /\ Fine(c, s)
    BY SendDelivers
  <1>2. PICK a : a = <<"append">>
    OBVIOUS
  <1>3. PICK im : im = <<"import">>
    OBVIOUS
  <1>4. PICK ho : ho = <<"handover">>
    OBVIOUS
  <1>5. /\ a[1] = "append" /\ im[1] = "import" /\ ho[1] = "handover"
        /\ Fine(c, a) /\ Fine(c, im) /\ Fine(c, ho)
    BY <1>2, <1>3, <1>4 DEF Fine, StatementTrue
  <1>6. PICK q : q = chat_send_opts(c)
    OBVIOUS
  <1>7. IsCommand(c)
    BY CommandFacts
  <1>8. c.socket \in BOOLEAN
    BY <1>7 DEF IsCommand
  <1>9. ASSUME NEW x, NEW y, q = <<x, y, s>>, {x, y} = {a, im} \/ {x, y} = {a, ho}
        PROVE  Sound(c, q)
    <2>1. q \in Seq({x, y, s}) /\ q # <<>> /\ Len(q) = 3 /\ q[1] = x /\ q[2] = y /\ q[3] = s
      BY <1>9
    <2>2. IsSeq(q)
      BY <2>1, SeqFacts
    <2>3. 1..Len(q) = {1, 2, 3} /\ 1 < 3 /\ 2 < 3
      BY <2>1
    <2>4. /\ Fine(c, x) /\ Fine(c, y) /\ {x[1], y[1]} \cap {"enqueue", "roster", "cancel"} = {}
          /\ x[1] \in {"import", "handover"} \/ y[1] \in {"import", "handover"}
      BY <1>5, <1>9
    <2>5. \A i \in 1..Len(q) : Fine(c, q[i]) /\ q[i][1] # "cancel" /\ (q[i][1] \in {"enqueue", "roster"} => i = 3)
      BY <1>1, <2>1, <2>3, <2>4
    <2>6. OrderTrue(c, q)
      BY <2>1, <2>3, <2>4, <2>5 DEF OrderTrue
    <2> QED BY <2>1, <2>2, <2>5, <2>6 DEF Sound
  <1>10. CASE Attached(c) /\ ~ c.socket
    <2>1. q = ((<<im>> \o <<a>>) \o <<>>) \o <<s>>
      BY <1>1, <1>2, <1>3, <1>6, <1>10 DEF chat_send_opts
    <2>2. <<im>> \o <<a>> = <<im, a>>
      BY Joined2
    <2>3. <<im, a>> \o <<>> = <<im, a>>
      OBVIOUS
    <2>4. <<im, a>> \o <<s>> = <<im, a, s>>
      BY Joined3
    <2>5. q = <<im, a, s>>
      BY <2>1, <2>2, <2>3, <2>4
    <2>6. {im, a} = {a, im}
      OBVIOUS
    <2> QED BY <1>6, <1>9, <2>5, <2>6
  <1>11. CASE Attached(c) /\ c.socket
    <2>1. q = ((<<>> \o <<a>>) \o <<ho>>) \o <<s>>
      BY <1>1, <1>2, <1>4, <1>6, <1>11 DEF chat_send_opts
    <2>2. <<>> \o <<a>> = <<a>>
      OBVIOUS
    <2>3. <<a>> \o <<ho>> = <<a, ho>>
      BY Joined2
    <2>4. <<a, ho>> \o <<s>> = <<a, ho, s>>
      BY Joined3
    <2>5. q = <<a, ho, s>>
      BY <2>1, <2>2, <2>3, <2>4
    <2> QED BY <1>6, <1>9, <2>5
  <1>12. CASE ~ Attached(c)
    <2>1. q = ((<<>> \o <<a>>) \o <<>>) \o <<s>>
      BY <1>1, <1>2, <1>6, <1>12 DEF chat_send_opts
    <2>2. <<>> \o <<a>> = <<a>> /\ <<a>> \o <<>> = <<a>>
      OBVIOUS
    <2>3. <<a>> \o <<s>> = <<a, s>>
      BY Joined2
    <2>4. q = <<a, s>>
      BY <2>1, <2>2, <2>3
    <2>5. q \in Seq({a, s}) /\ q # <<>> /\ Len(q) = 2 /\ q[1] = a /\ q[2] = s
      BY <2>4
    <2>6. IsSeq(q)
      BY <2>5, SeqFacts
    <2>7. 1..Len(q) = {1, 2}
      BY <2>5
    <2>8. \A i \in 1..Len(q) : Fine(c, q[i]) /\ q[i][1] # "cancel" /\ (q[i][1] \in {"enqueue", "roster"} => i = 2)
      BY <1>1, <1>5, <2>5, <2>7
    <2>9. OrderTrue(c, q)
      BY <1>12, <2>8 DEF OrderTrue
    <2> QED BY <1>6, <2>5, <2>6, <2>8, <2>9 DEF Sound
  <1> QED BY <1>8, <1>10, <1>11, <1>12

LEMMA StatementsSound ==
  ASSUME Inv, NEW c \in Commands, Accepted(c)
  PROVE  Sound(c, Statements(c))
  <1>1. c.op \in {"init", "send", "create", "add", "join", "remove", "raw"}
    BY CommandFacts DEF IsCommand
  <1>2. CASE c.op = "init"
    BY <1>2, InitSound DEF Statements
  <1>3. CASE c.op = "send"
    BY <1>3, SendSound DEF Statements
  <1>4. CASE c.op \in {"create", "add", "join"}
    BY <1>4, RoomSound DEF Statements
  <1>5. CASE c.op = "remove"
    BY <1>5, RemoveSound DEF Statements
  <1>6. CASE c.op = "raw"
    BY <1>6, RawSound DEF Statements
  <1> QED BY <1>1, <1>2, <1>3, <1>4, <1>5, <1>6

-----------------------------------------------------------------------------
(* Beginning a command, and spreading one over a roster. *)

\* A command is given new statements, and tables and rows stay.
LEMMA RunPut ==
  ASSUME RunInv, NEW c \in Commands, NEW q, IsSeq(q), q # <<>>,
         \A i \in 1..Len(q) : StatementTrue(c, q[i]), OrderTrue(c, q), OnceTrue(c, q),
         run' = Put(run, c, q), UNCHANGED <<db, outbox, blobs>>, crossed \subseteq crossed'
  PROVE  RunInv'
  <1>1. DOMAIN run' = DOMAIN run \cup {c} /\ run'[c] = q /\ \A d \in DOMAIN run : d # c => run'[d] = run[d]
    BY DEF Put
  <1>2. ASSUME NEW d, NEW p, IsSeq(p), p # <<>>, \A i \in 1..Len(p) : StatementTrue(d, p[i]),
               OrderTrue(d, p), OnceTrue(d, p)
        PROVE  /\ \A i \in 1..Len(p) : StatementTrue(d, p[i])'
               /\ OrderTrue(d, p)' /\ OnceTrue(d, p)'
    BY <1>2 DEF StatementTrue, OrderTrue, OnceTrue
  <1>3. ASSUME NEW d \in DOMAIN run', NEW p, p = run'[d]
        PROVE  /\ IsSeq(p) /\ p # <<>>
               /\ \A i \in 1..Len(p) : StatementTrue(d, p[i])'
               /\ OrderTrue(d, p)' /\ OnceTrue(d, p)'
    <2>1. CASE d = c
      BY <1>1, <1>2, <1>3, <2>1
    <2>2. CASE d # c
      <3>1. d \in DOMAIN run /\ p = run[d]
        BY <1>1, <1>3, <2>2
      <3>2. IsSeq(p) /\ p # <<>> /\ (\A i \in 1..Len(p) : StatementTrue(d, p[i])) /\ OrderTrue(d, p) /\ OnceTrue(d, p)
        BY <3>1 DEF RunInv
      <3> QED BY <1>2, <3>2
    <2> QED BY <2>1, <2>2
  <1>4. DOMAIN run' \subseteq Commands
    BY <1>1 DEF RunInv
  <1> QED BY <1>3, <1>4 DEF RunInv

LEMMA WorkFacts ==
  ASSUME Inv
  PROVE  /\ Work \in Seq(SUBSET Commands) /\ Len(Work) \in Nat /\ 1 \in 1..Len(Work)
         /\ DOMAIN Work = 1..Len(Work) /\ Head(Work) = Work[1]
         /\ \A i, j \in 1..Len(Work) : \A c \in Work[i] \cap Work[j] : Posts(c) => i = j
         /\ \A i \in 1..Len(Work) : \A c \in Work[i] :
              Posts(c) => c \notin DOMAIN run /\ \A r \in outbox : r.id # c
         /\ Work[1] \cap DOMAIN run = {}
  <1>1. TodoInv
    BY DEF Inv
  <1>2. /\ todo \in Seq(SUBSET Commands) /\ todo # <<>> /\ Len(todo) \in Nat /\ DOMAIN todo = 1..Len(todo)
        /\ Len(todo) > 0
    BY <1>1, SeqFacts DEF TodoInv
  <1>3. CASE Work = todo
    <2>1. Head(todo) = todo[1] /\ 1 \in 1..Len(todo)
      BY <1>2
    <2> QED BY <1>1, <1>2, <1>3, <2>1 DEF TodoInv
  <1>4. CASE Work # todo
    <2>1. Work = Tail(todo) /\ run = <<>> /\ Len(todo) > 1
      BY <1>4 DEF Work
    <2>2. PICK w : w = Tail(todo)
      OBVIOUS
    <2>3. w \in Seq(SUBSET Commands) /\ Len(w) = Len(todo) - 1
      BY <1>2, <2>1, <2>2
    <2>4. Len(w) \in Nat /\ 1 \in 1..Len(w) /\ DOMAIN w = 1..Len(w)
      BY <1>2, <2>1, <2>3
    <2>5. Head(w) = w[1]
      BY <2>3, <2>4
    <2>6. \A i \in 1..Len(w) : i + 1 \in 1..Len(todo) /\ w[i] = todo[i + 1] /\ i \in Nat
      BY <1>2, <2>1, <2>2, <2>3, <2>4
    <2>7. ASSUME NEW i \in 1..Len(w), NEW j \in 1..Len(w), NEW c \in w[i] \cap w[j], Posts(c)
          PROVE  i = j
      <3>1. PICK a \in 1..Len(todo) : a = i + 1 /\ w[i] = todo[a] /\ i \in Nat
        BY <2>6
      <3>2. PICK b \in 1..Len(todo) : b = j + 1 /\ w[j] = todo[b] /\ j \in Nat
        BY <2>6
      <3>3. a = b
        BY <1>1, <1>2, <2>7, <3>1, <3>2 DEF TodoInv
      <3> QED BY <3>1, <3>2, <3>3
    <2>8. \A i \in 1..Len(w) : \A c \in w[i] :
            Posts(c) => c \notin DOMAIN run /\ \A r \in outbox : r.id # c
      BY <1>1, <1>2, <2>6 DEF TodoInv
    <2>9. w[1] \cap DOMAIN run = {}
      BY <2>1
    <2>10. Work = w
      BY <2>1, <2>2
    <2> QED BY <2>3, <2>4, <2>5, <2>7, <2>8, <2>9, <2>10
  <1> QED BY <1>3, <1>4

\* No message is sent twice: a command that posts leaves the workload as it begins.
LEMMA TodoBegins ==
  ASSUME Inv, NEW c, Begin(c)
  PROVE  TodoInv' /\ c \in Commands /\ c \notin DOMAIN run /\ \A r \in outbox : r.id # c
  <1>1. PICK w : w = Work
    OBVIOUS
  <1>2. /\ w \in Seq(SUBSET Commands) /\ Len(w) \in Nat /\ 1 \in 1..Len(w)
        /\ DOMAIN w = 1..Len(w) /\ Head(w) = w[1]
        /\ \A i, j \in 1..Len(w) : \A d \in w[i] \cap w[j] : Posts(d) => i = j
        /\ \A i \in 1..Len(w) : \A d \in w[i] :
              Posts(d) => d \notin DOMAIN run /\ \A r \in outbox : r.id # d
        /\ w[1] \cap DOMAIN run = {}
    BY <1>1, WorkFacts
  <1>3. c \in w[1] /\ todo' = [w EXCEPT ![1] = @ \ {c}] /\ UNCHANGED outbox
        /\ run' = IF Accepted(c) THEN Put(run, c, Statements(c)) ELSE run
    BY <1>1, <1>2 DEF Begin
  <1>4. c \in Commands /\ c \notin DOMAIN run
    <2>1. w[1] \in SUBSET Commands
      BY <1>2
    <2> QED BY <1>2, <1>3, <2>1
  <1>5. \A r \in outbox : r.id # c
    <2>1. \A r \in outbox : Posts(r.id)
      BY DEF Inv, RowsInv, RowTrue
    <2> QED BY <1>2, <1>3, <2>1
  <1>6. DOMAIN run' \subseteq DOMAIN run \cup {c}
    BY <1>3 DEF Put
  <1>7. PICK t : t = todo'
    OBVIOUS
  <1>8. /\ DOMAIN t = 1..Len(w) /\ t[1] = w[1] \ {c}
        /\ \A i \in 1..Len(w) : t[i] \subseteq w[i] /\ (i # 1 => t[i] = w[i])
    BY <1>2, <1>3, <1>7
  <1>9. t \in Seq(SUBSET Commands) /\ t # <<>>
    <2>1. \A i \in 1..Len(w) : w[i] \in SUBSET Commands
      BY <1>2
    <2>2. \A i \in 1..Len(w) : t[i] \in SUBSET Commands
      BY <1>8, <2>1
    <2>3. t = [i \in 1..Len(w) |-> t[i]]
      BY <1>3, <1>7, <1>8
    <2>4. t \in Seq(SUBSET Commands)
      BY <1>2, <2>2, <2>3, IsASeq
    <2> QED BY <1>2, <1>8, <2>4
  <1>10. ASSUME NEW i \in 1..Len(w), NEW d \in t[i], Posts(d)
         PROVE  d \notin DOMAIN run' /\ \A r \in outbox' : r.id # d
    <2>1. d \in w[i] /\ d \notin DOMAIN run /\ \A r \in outbox : r.id # d
      BY <1>2, <1>8, <1>10
    <2>2. d # c
      BY <1>2, <1>3, <1>8, <1>10, <2>1
    <2> QED BY <1>3, <1>6, <2>1, <2>2
  <1>11. t[1] \cap DOMAIN run' = {}
    BY <1>2, <1>6, <1>8
  <1>12. \A i, j \in 1..Len(w) : \A d \in t[i] \cap t[j] : Posts(d) => i = j
    BY <1>2, <1>8
  <1>13. TodoInv'
    BY <1>7, <1>8, <1>9, <1>10, <1>11, <1>12 DEF TodoInv
  <1> QED BY <1>4, <1>5, <1>13

LEMMA GoneBegins ==
  ASSUME Inv, NEW c \in Commands, Begin(c), c \notin DOMAIN run
  PROVE  GoneInv'
  <1>1. /\ run' = IF Accepted(c) THEN Put(run, c, Statements(c)) ELSE run
        /\ crossed' = crossed \cup
             (IF PutsBack(c) THEN {d \in Running(c.n) : d.op = "remove"}
              ELSE IF c.op = "remove" /\ \E d \in Running(c.n) : PutsBack(d) THEN {c} ELSE {})
        /\ gone' = gone \ ({c.n} \X Addressed(c))
        /\ UNCHANGED <<db, outbox, blobs, faults, heard>>
    BY DEF Begin
  <1>2. /\ DOMAIN run' \subseteq DOMAIN run \cup {c} /\ \A d \in DOMAIN run : d \in DOMAIN run' /\ run'[d] = run[d]
        /\ c \in DOMAIN run' => Accepted(c) /\ run'[c] = Statements(c)
    BY <1>1 DEF Put
  <1>3. ASSUME NEW d \in DOMAIN run', d.op = "remove", d \notin crossed',
               NEW e \in DOMAIN run', e.n = d.n
        PROVE  ~ PutsBack(e)
    <2>1. CASE d \in DOMAIN run /\ e \in DOMAIN run
      BY <1>1, <1>3, <2>1 DEF Inv, GoneInv, Running
    <2>2. CASE d \in DOMAIN run /\ e = c
      BY <1>1, <1>3, <2>2 DEF Running
    <2>3. CASE d = c /\ e \in DOMAIN run
      BY <1>1, <1>3, <2>3 DEF Running, PutsBack
    <2>4. CASE d = c /\ e = c
      BY <1>3, <2>4 DEF PutsBack
    <2> QED BY <1>2, <1>3, <2>1, <2>2, <2>3, <2>4
  <1>4. ASSUME NEW g \in gone'
        PROVE  /\ g \in gone /\ g = <<g[1], g[2]>> /\ g[1] \in Nodes /\ g[2] \in Nodes \ {g[1]}
               /\ c.n = g[1] => g[2] \notin Addressed(c)
    <2>1. g \in gone /\ g \notin {c.n} \X Addressed(c)
      BY <1>1, <1>4
    <2>2. g = <<g[1], g[2]>> /\ g[1] \in Nodes /\ g[2] \in Nodes \ {g[1]}
      BY <2>1 DEF Inv, GoneInv
    <2>3. c.n = g[1] /\ g[2] \in Addressed(c) => <<g[1], g[2]>> \in {c.n} \X Addressed(c)
      OBVIOUS
    <2> QED BY <2>1, <2>2, <2>3
  <1>5. ASSUME NEW g \in gone', NEW d \in DOMAIN run', d.n = g[1], NEW i \in 1..Len(run'[d]),
               run'[d][i][1] \in {"member", "enqueue"}
        PROVE  run'[d][i][2] # g[2]
    <2>1. /\ g \in gone /\ g[2] \in Nodes \ {g[1]}
          /\ c.n = g[1] => g[2] \notin Addressed(c)
      BY <1>4, <1>5
    <2>2. CASE d \in DOMAIN run
      BY <1>2, <1>5, <2>1, <2>2 DEF Inv, GoneInv, Running
    <2>3. CASE d = c
      <3>1. PICK q : q = Statements(c)
        OBVIOUS
      <3>2. run'[d] = q /\ Sound(c, q)
        BY <1>2, <1>5, <2>3, <3>1, StatementsSound
      <3>3. Fine(c, q[i]) /\ q[i][1] \in {"member", "enqueue"}
        BY <1>5, <3>2 DEF Sound
      <3>4. q[i][2] \in Addressed(c) \cup {c.n}
        BY <3>3 DEF Fine
      <3> QED BY <1>5, <2>1, <2>3, <3>2, <3>4
    <2> QED BY <1>2, <1>5, <2>2, <2>3
  <1>6. RemovalHolds'
    BY <1>1, <1>4 DEF Inv, GoneInv, RemovalHolds
  <1> QED BY <1>3, <1>4, <1>5, <1>6 DEF GoneInv, Running

LEMMA BeginKeeps == ASSUME Inv, NEW c, Begin(c) PROVE Inv'
  <1>1. TodoInv' /\ c \in Commands /\ c \notin DOMAIN run /\ \A r \in outbox : r.id # c
    BY TodoBegins
  <1>2. GoneInv'
    BY <1>1, GoneBegins
  <1>3. /\ run' = IF Accepted(c) THEN Put(run, c, Statements(c)) ELSE run
        /\ crossed \subseteq crossed'
        /\ UNCHANGED <<db, outbox, blobs, faults, heard>>
    BY DEF Begin
  <1>4. TablesInv'
    BY <1>3 DEF Inv, TablesInv
  <1>5. Grows
    BY <1>3 DEF Grows
  <1>6. RowsInv'
    BY <1>3, <1>5, RowsRest DEF Inv
  <1>7. RunInv'
    <2>1. CASE Accepted(c)
      <3>1. PICK q : q = Statements(c)
        OBVIOUS
      <3>2. Sound(c, q)
        BY <1>1, <2>1, <3>1, StatementsSound
      <3>3. /\ IsSeq(q) /\ q # <<>> /\ OrderTrue(c, q) /\ \A i \in 1..Len(q) : StatementTrue(c, q[i])
        BY <3>2 DEF Sound, Fine
      <3>4. OnceTrue(c, q)
        BY <1>1, <3>2 DEF Sound, OnceTrue
      <3>5. run' = Put(run, c, q)
        BY <1>3, <2>1, <3>1
      <3> QED BY <1>1, <1>3, <3>3, <3>4, <3>5, RunPut DEF Inv
    <2>2. CASE ~ Accepted(c)
      <3>1. UNCHANGED run
        BY <1>3, <2>2
      <3> QED BY <1>3, <3>1 DEF Inv, RunInv, StatementTrue, OrderTrue, OnceTrue
    <2> QED BY <2>1, <2>2
  <1> QED BY <1>1, <1>2, <1>4, <1>6, <1>7 DEF Inv

\* A sequence of a finite set has each member once.
LEMMA SequenceOf ==
  ASSUME NEW S, IsFiniteSet(S), NEW t, t = SetToSeq(S)
  PROVE  /\ Cardinality(S) \in Nat /\ t \in [1..Cardinality(S) -> S]
         /\ \A i, j \in 1..Cardinality(S) : t[i] = t[j] => i = j
  <1>1. Cardinality(S) \in Nat /\ ExistsBijection(1..Cardinality(S), S)
    BY FS_CardinalityType
  <1>2. \E f \in [1..Cardinality(S) -> S] : IsInjective(f)
    BY <1>1 DEF ExistsBijection, Bijection, Injection
  <1>3. t \in [1..Cardinality(S) -> S] /\ IsInjective(t)
    BY <1>2, Zenon DEF SetToSeq
  <1>4. DOMAIN t = 1..Cardinality(S)
    BY <1>3
  <1> QED BY <1>1, <1>3, <1>4 DEF IsInjective

\* The deliveries to the members of a room.
LEMMA RosterSpreads ==
  ASSUME Inv, NEW c \in DOMAIN run, Roster(c)
  PROVE  \E q : /\ IsSeq(q) /\ Len(q) \in Nat
                /\ run' = IF q = <<>> THEN Drop(run, c) ELSE Put(run, c, q)
                /\ \A i \in 1..Len(q) : /\ q[i][1] = "enqueue" /\ q[i][2] \in db[c.n].members \ {c.n}
                                        /\ StatementTrue(c, q[i])
                /\ \A i, j \in 1..Len(q) : i # j => q[i][2] # q[j][2]
  <1>1. PICK m : m = [Outgoing(c) EXCEPT !.from = c.n, !.room = Room, !.room_name = "label"]
    OBVIOUS
  <1>2. PICK wire : wire = message_to_turtle(m)
    OBVIOUS
  <1>3. PICK S : S = db[c.n].members \ {c.n}
    OBVIOUS
  <1>4. PICK to : to = SetToSeq(S)
    OBVIOUS
  <1>5. PICK q : q = [i \in DOMAIN to |-> <<"enqueue", to[i], None, wire>>]
    OBVIOUS
  <1>6. Statement(c)[1] = "roster" /\ Next1(c, q)
    BY <1>1, <1>2, <1>3, <1>4, <1>5 DEF Roster
  <1>7. /\ c \in Commands /\ c.n \in Nodes /\ 1 \in 1..Len(run[c]) /\ Statement(c) = run[c][1]
        /\ StatementTrue(c, Statement(c)) /\ OnceTrue(c, run[c]) /\ IsSeq(run[c]) /\ run[c] # <<>>
        /\ Len(run[c]) \in Nat /\ DbTrue(blobs, c.n, db[c.n])
    BY RunningFacts
  <1>8. c.op = "send" /\ c.n = Host
    BY <1>6, <1>7 DEF StatementTrue
  <1>9. S \subseteq Nodes /\ IsFiniteSet(S)
    <2>1. S \subseteq Nodes
      BY <1>3, <1>7 DEF DbTrue
    <2> QED BY <2>1, NodesAssumption, FS_Subset
  <1>10. PICK k : k = Cardinality(S)
    OBVIOUS
  <1>11. k \in Nat /\ to \in [1..k -> S] /\ \A i, j \in 1..k : to[i] = to[j] => i = j
    BY <1>4, <1>9, <1>10, SequenceOf
  <1>12. DOMAIN q = 1..k /\ \A i \in 1..k : q[i] = <<"enqueue", to[i], None, wire>>
    BY <1>5, <1>11
  <1>13. \A i \in 1..k : q[i][1] = "enqueue" /\ q[i][2] = to[i] /\ q[i][3] = None /\ q[i][4] = wire /\ to[i] \in S
    BY <1>11, <1>12
  <1>14. q \in Seq(Range(q)) /\ Len(q) = k
    <2>1. \A i \in 1..k : q[i] \in Range(q)
      BY <1>12 DEF Range
    <2>2. q = [i \in 1..k |-> q[i]]
      BY <1>5, <1>12
    <2>3. q \in Seq(Range(q))
      BY <1>11, <2>1, <2>2, IsASeq
    <2> QED BY <1>11, <1>12, <2>3
  <1>15. run' = IF q = <<>> THEN Drop(run, c) ELSE Put(run, c, q)
    <2>1. Len(run[c]) = 1
      BY <1>6, <1>7 DEF OnceTrue
    <2>2. Tail(run[c]) = <<>>
      <3>1. PICK t : t = Tail(run[c])
        OBVIOUS
      <3>2. ASSUME t # <<>> PROVE FALSE
        <4>1. Len(run[c]) = Len(t) + 1 /\ IsSeq(t)
          BY <1>7, <3>1, <3>2, TailFacts DEF Rest
        <4>2. Len(t) \in Nat /\ Len(t) > 0
          BY <3>2, <4>1, SeqFacts DEF IsSeq
        <4>3. PICK l : l = Len(t)
          OBVIOUS
        <4>4. l \in Nat /\ l > 0 /\ 1 = l + 1
          BY <2>1, <4>1, <4>2, <4>3
        <4> QED BY <4>4
      <3> QED BY <3>1, <3>2
    <2>3. q \o <<>> = q
      BY <1>14
    <2> QED BY <1>6, <2>2, <2>3 DEF Next1
  <1>16. SentAs(c, m) /\ m["from"] = c.n /\ m["room"] = Room
    BY <1>1 DEF SentAs, Outgoing, Blank, Fields
  <1>17. /\ Field(wire, "id") = c /\ Field(wire, "from") = c.n /\ Field(wire, "room") = Room
         /\ Field(wire, "re") = c.re /\ Field(wire, "body") = Preview(c)
         /\ Field(wire, "hash") # None => Attached(c)
         /\ (Field(wire, "name") = "spill") = (c.text = "big")
         /\ c.text = "big" => Field(wire, "hash") # None
    BY <1>2, <1>7, <1>8, <1>16, SentWire
  <1>18. c # None /\ c.n # None /\ Room # None
    BY <1>7, CommandFacts, NoneAssumption
  <1>19. \A p \in S : WireTrue(c.n, p, c, wire)
    BY <1>3, <1>8, <1>17, <1>18 DEF WireTrue, Author
  <1>20. \A i \in 1..k : StatementTrue(c, q[i])
    BY <1>3, <1>8, <1>9, <1>13, <1>17, <1>18, <1>19 DEF StatementTrue, Posts
  <1> QED BY <1>3, <1>11, <1>13, <1>14, <1>15, <1>20 DEF IsSeq

LEMMA RosterKeeps == ASSUME Inv, NEW c, Roster(c) PROVE Inv'
  <1>1. c \in DOMAIN run /\ Statement(c)[1] = "roster" /\ UNCHANGED <<db, outbox, blobs, todo, faults, crossed, gone, heard>>
    BY DEF Roster
  <1>2. PICK q : /\ IsSeq(q) /\ Len(q) \in Nat
                 /\ run' = IF q = <<>> THEN Drop(run, c) ELSE Put(run, c, q)
                 /\ \A i \in 1..Len(q) : /\ q[i][1] = "enqueue" /\ q[i][2] \in db[c.n].members \ {c.n}
                                         /\ StatementTrue(c, q[i])
                 /\ \A i, j \in 1..Len(q) : i # j => q[i][2] # q[j][2]
    BY <1>1, RosterSpreads
  <1>3. Grows
    BY <1>1 DEF Grows
  <1>4. TablesInv' /\ RowsInv'
    BY <1>1, <1>3, RowsRest DEF Inv, TablesInv
  <1>5. CASE q = <<>>
    <2>1. run' = Drop(run, c)
      BY <1>2, <1>5
    <2>2. Moves(c)
      BY <2>1, EndsOrMoves
    <2>3. RosterStep(c) /\ \A g \in gone : g[2] \notin db'[g[1]].members
      BY <1>1, SameTables
    <2>4. GoneStep
      BY <1>1, <2>3 DEF GoneStep, Inv, GoneInv, RemovalHolds
    <2>5. ImportStep(c) /\ RowsFrom(c)
      BY <1>1 DEF ImportStep, RowsFrom
    <2> QED BY <1>1, <1>3, <1>4, <2>2, <2>3, <2>4, <2>5, StepKeeps
  <1>6. CASE q # <<>>
    <2>1. run' = Put(run, c, q)
      BY <1>2, <1>6
    <2>2. DOMAIN run' = DOMAIN run /\ run'[c] = q /\ \A d \in DOMAIN run : d # c => run'[d] = run[d]
      BY <1>1, <2>1 DEF Put
    <2>3. /\ c \in Commands /\ 1 \in 1..Len(run[c]) /\ Statement(c) = run[c][1]
          /\ OrderTrue(c, run[c]) /\ OnceTrue(c, run[c])
      BY <1>1, RunningFacts
    <2>4. OrderTrue(c, q)
      <3>1. c.op = "send" /\ Attached(c) => c \in blobs[c.n] \/ \E j \in 1..Len(run[c]) : j < 1
        BY <1>1, <2>3 DEF OrderTrue
      <3>2. c.op = "send" /\ Attached(c) => c \in blobs[c.n]
        BY <3>1
      <3> QED BY <1>2, <3>2 DEF OrderTrue
    <2>5. OnceTrue(c, q)
      <3>1. \A r \in outbox : ~ (r.n = c.n /\ r.id = c)
        BY <1>1, <2>3 DEF OnceTrue
      <3> QED BY <1>2, <3>1 DEF OnceTrue
    <2>6. RunInv'
      BY <1>1, <1>2, <1>6, <2>1, <2>3, <2>4, <2>5, RunPut DEF Inv
    <2>7. TodoInv'
      BY <1>1, <2>2 DEF Inv, TodoInv
    <2>8. ASSUME NEW g \in gone, NEW d \in DOMAIN run', d.n = g[1], NEW i \in 1..Len(run'[d]),
                 run'[d][i][1] \in {"member", "enqueue"}
          PROVE  run'[d][i][2] # g[2]
      <3>1. g[2] \notin db[g[1]].members
        BY DEF Inv, GoneInv, RemovalHolds
      <3>2. CASE d = c
        BY <1>2, <2>2, <2>8, <3>1, <3>2
      <3>3. CASE d # c
        BY <2>2, <2>8, <3>3 DEF Inv, GoneInv, Running
      <3> QED BY <3>2, <3>3
    <2>9. GoneInv'
      <3>1. RemovalHolds'
        BY <1>1 DEF Inv, GoneInv, RemovalHolds
      <3>2. \A g \in gone : g = <<g[1], g[2]>> /\ g[1] \in Nodes /\ g[2] \in Nodes \ {g[1]}
        BY DEF Inv, GoneInv
      <3>3. \A d \in DOMAIN run' : d.op = "remove" /\ d \notin crossed' =>
              \A e \in {x \in DOMAIN run' : x.n = d.n} : ~ PutsBack(e)
        BY <1>1, <2>2 DEF Inv, GoneInv, Running
      <3> QED BY <1>1, <2>8, <3>1, <3>2, <3>3 DEF GoneInv, Running
    <2> QED BY <1>4, <2>6, <2>7, <2>9 DEF Inv
  <1> QED BY <1>5, <1>6

-----------------------------------------------------------------------------
(* The theorems. *)

LEMMA InitInv == ASSUME Init PROVE Inv
  <1>1. /\ db = [n \in Nodes |-> NewDb(n)] /\ outbox = {} /\ blobs = [n \in Nodes |-> {}]
        /\ todo \in Workloads /\ run = <<>> /\ faults = 0 /\ crossed = {} /\ gone = {}
    BY DEF Init
  <1>2. DOMAIN run = {}
    BY <1>1
  <1>3. ASSUME NEW n \in Nodes
        PROVE  DbTrue(blobs, n, NewDb(n))
    <2>1. PICK d : d = NewDb(n)
      OBVIOUS
    <2>2. /\ d.have \subseteq Parts /\ d.msgs = <<>> /\ d.host = None /\ d.members = {}
          /\ d.peers = Nodes \ {n} /\ d.applied = {} /\ IsDb(d)
      BY <2>1 DEF NewDb, Parts, IsDb
    <2>3. DOMAIN d.msgs = {} /\ None # n
      BY <2>2, NoneAssumption
    <2>4. DbTrue(blobs, n, d)
      BY <2>2, <2>3 DEF DbTrue
    <2> QED BY <2>1, <2>4
  <1>4. TablesInv
    <2>1. DOMAIN db = Nodes /\ \A n \in Nodes : db[n] = NewDb(n)
      BY <1>1
    <2>2. blobs \in [Nodes -> SUBSET Commands] /\ \A n \in Nodes : blobs[n] = {}
      BY <1>1
    <2>3. faults \in 0..MaxFaults
      BY <1>1, FaultsAssumption
    <2>4. \A n \in Nodes : DbTrue(blobs, n, db[n])
      BY <1>3, <2>1
    <2> QED BY <2>1, <2>2, <2>3, <2>4 DEF TablesInv
  <1>5. RowsInv /\ RunInv
    BY <1>1, <1>2 DEF RowsInv, RunInv
  <1>6. TodoInv
    BY <1>1, <1>2, WorkloadsAssumption DEF TodoInv
  <1>7. GoneInv
    BY <1>1, <1>2 DEF GoneInv, RemovalHolds
  <1> QED BY <1>4, <1>5, <1>6, <1>7 DEF Inv

LEMMA NextKeeps == ASSUME Inv, [Next]_vars PROVE Inv'
  <1>1. CASE UNCHANGED vars
    BY <1>1 DEF vars, Inv, TablesInv, RowsInv, RowTrue, RunInv, StatementTrue, OrderTrue, OnceTrue,
                TodoInv, GoneInv, Running, RemovalHolds
  <1>2. CASE Next
    <2>1. CASE \E c \in Head(Work) : Begin(c)
      BY <2>1, BeginKeeps
    <2>2. ASSUME NEW c \in DOMAIN run, Command(c)
          PROVE  Inv'
      BY <2>2, ExecuteKeeps, AppendKeeps, ImportKeeps, OwnerKeeps, RosterKeeps, EnqueueKeeps,
         CancelKeeps DEF Command
    <2>3. CASE \E c \in DOMAIN run : Abort(c)
      BY <2>3, AbortKeeps
    <2>4. CASE \E r \in outbox, lost \in BOOLEAN : Deliver(r, lost)
      BY <2>4, DeliverKeeps
    <2>5. CASE \E n \in Nodes : \E id \in DOMAIN db[n].msgs : inline_spilled(n, id)
      BY <2>5, SpillKeeps
    <2> QED BY <1>2, <2>1, <2>2, <2>3, <2>4, <2>5 DEF Next
  <1> QED BY <1>1, <1>2

\* Every reachable state is in order: tables, rows, and what commands have left to do.
THEOREM Invariance == Spec => []Inv
  <1>1. Init => Inv
    BY InitInv
  <1>2. Inv /\ [Next]_vars => Inv'
    BY NextKeeps
  <1> QED BY <1>1, <1>2, PTL DEF Spec

LEMMA InvTrue == Inv => RoomIsTrue
  <1> SUFFICES ASSUME Inv PROVE RoomIsTrue
    OBVIOUS
  <1>1. ASSUME NEW n \in Nodes, NEW id \in DOMAIN db[n].msgs
        PROVE  EntryTrue(blobs, id, db[n].msgs[id]) /\ id \in Commands /\ Author(id) \in Nodes
    <2>1. EntryTrue(blobs, id, db[n].msgs[id])
      BY DEF Inv, TablesInv, DbTrue
    <2> QED BY <2>1, CommandFacts DEF EntryTrue, Author
  <1>2. TypeOK
    <2>1. \A n \in Nodes : DbTrue(blobs, n, db[n])
      BY DEF Inv, TablesInv
    <2>2. \A n \in Nodes : \A id \in DOMAIN db[n].msgs : db[n].msgs[id].sender \in Nodes
      BY <1>1 DEF EntryTrue
    <2>3. \A r \in outbox : r.n \in Nodes /\ r.to \in Nodes \ {r.n}
                            /\ r.st \in {"queued", "done", "denied", "error"}
      BY DEF Inv, RowsInv, RowTrue
    <2>4. (\A n \in Nodes : \A c \in blobs[n] : Author(c) = n) /\ faults \in 0..MaxFaults
      BY DEF Inv, TablesInv
    <2> QED BY <2>1, <2>2, <2>3, <2>4 DEF TypeOK, DbTrue
  <1>3. AuthorsAreTrue
    BY <1>1 DEF AuthorsAreTrue, EntryTrue
  <1>4. TextsAreTrue
    BY <1>1 DEF TextsAreTrue, EntryTrue
  <1>5. FanOutOnce
    BY DEF Inv, RowsInv, RowTrue, FanOutOnce
  <1> QED BY <1>2, <1>3, <1>4, <1>5 DEF RoomIsTrue

\* What a room shows is true, for any nodes, commands and faults: who wrote a message, what it
\* says and answers, and nobody is passed a message twice, however deliveries are repeated
\* (handle_chat, apply_message, chat_send_opts).
THEOREM TrueRooms == Spec => []RoomIsTrue
  BY Invariance, InvTrue, PTL

LEMMA InvPromises == Inv => RoomPromises
  <1> SUFFICES ASSUME Inv PROVE RoomPromises
    OBVIOUS
  <1>1. \A n \in Nodes : \A id \in DOMAIN db[n].msgs : EntryTrue(blobs, id, db[n].msgs[id])
    BY DEF Inv, TablesInv, DbTrue
  <1>2. SpillsAreFetchable
    BY <1>1 DEF SpillsAreFetchable, EntryTrue
  <1>3. RemovalHolds
    BY DEF Inv, GoneInv
  <1>4. DeliveredMeansStored
    <2> SUFFICES ASSUME NEW n \in Nodes, NEW l \in chat_log_filtered(n), "done" \in l.status
                 PROVE  \E r \in outbox : r.rid = l.id /\ l.id \in DOMAIN db[r.to].msgs
      BY DEF DeliveredMeansStored
    <2>1. PICK id \in DOMAIN db[n].msgs :
            /\ l.id = id /\ l.status = {r.st : r \in {x \in outbox : x.n = n /\ x.rid = id}}
      BY DEF chat_log_filtered
    <2>2. PICK r \in outbox : r.rid = id /\ r.st = "done"
      BY <2>1
    <2>3. MessageOf(id) = id
      BY <1>1, CommandFacts DEF EntryTrue
    <2>4. RowTrue(r)
      BY DEF Inv, RowsInv
    <2>5. r.id = id /\ id \in DOMAIN db[r.to].msgs
      BY <2>2, <2>3, <2>4 DEF RowTrue
    <2> QED BY <2>1, <2>2, <2>5
  <1> QED BY <1>2, <1>3, <1>4 DEF RoomPromises

\* What a node tells its user about a room holds: a removed peer gets nothing more, a preview
\* can be fetched in full, a message shown as delivered is stored where it was sent
\* (peer_remove_with, chat_send_opts, answer_chat_outcome).
THEOREM KeptPromises == Spec => []RoomPromises
  BY Invariance, InvPromises, PTL
=============================================================================
