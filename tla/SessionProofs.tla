---------------------------- MODULE SessionProofs ----------------------------
(***************************************************************************)
(* Proofs, for any sources, callers, acceptors and capacities, and beside  *)
(* any calls of the embedding application, that every media and duplex     *)
(* session of Media, composed with Embed, is sound.  What a step does to   *)
(* one session is first proved of the session's record, its audit rows and *)
(* the feeds, and then carried to the actions.                             *)
(***************************************************************************)
EXTENDS EmbedProofs, FiniteSetTheorems

-----------------------------------------------------------------------------
(* The inductive invariant of the sessions, part by part, of a session's record r. *)

SessFields == {"pc", "started", "lost", "err", "held", "phase", "src", "group", "at", "made", "out",
               "pin", "heard", "tx", "writer", "q", "up", "fin", "gone", "down", "got", "caller",
               "said", "pending", "posting", "post", "relay", "quit", "attached", "from", "pos",
               "skipped"}
Closing == {"Denied", "Error"}
Opening == {"Media", "AudioDuplex"}
Classes == {"Denied", "Error", "Media", "AudioDuplex", "Raw"}
Items == [class : Classes, n : Nat]
SentOf(r) == r.got \o r.down

Places == {"new", "asked", "open", "header", "pump", "send", "tear", "over", "type", "watch",
           "sendFeed", "done"}
Callings == {"idle", "dial", "wait", "on", "left"}
Flags == {"started", "lost", "err", "tx", "writer", "fin", "gone", "quit", "posting"}
Numbers == {"made", "held", "said", "pending", "from", "pos", "skipped"}
Queues == {"out", "pin", "heard", "q", "up", "post"}
Streams == {"got", "down"}
Fits(r, fields) ==
  /\ "pc" \in fields => r.pc \in Places
  /\ "caller" \in fields => r.caller \in Callings
  /\ \A x \in fields \cap Flags : r[x] \in BOOLEAN
  /\ \A x \in fields \cap Numbers : r[x] \in Nat
  /\ \A x \in fields \cap Queues : r[x] \in Seq(Nat)
  /\ \A x \in fields \cap Streams : r[x] \in Seq(Items)
SessType(r) == DOMAIN r = SessFields /\ Fits(r, SessFields)

\* Where a session is: what it was asked and audited, whom it has left behind.
Waiting == {"new", "asked"}
Hosted == {"type", "watch", "sendFeed"}
LifeOf(r, a) ==
  /\ r.pc = "new" <=> r.caller \in {"idle", "dial"}
  /\ r.pc \in Waiting => a = <<>>
  /\ r.pc \notin Waiting \cup {"done"} => a = <<"allow">>
  /\ a \in {<<>>, <<"allow">>, <<"deny">>}
  /\ r.pc \in Waiting \cup Hosted \cup {"open", "over"} \/ (r.pc = "done" /\ ~r.lost)
       => r.group = {}
  /\ r.gone \/ r.caller = "left" => r.quit \/ r.pc = "done"
  /\ r.pc = "new" => ~r.gone

\* What was sent: nothing, one closing frame, or a header and chunks.
HeadOf(r, a) ==
  /\ \A i \in DOMAIN SentOf(r) : SentOf(r)[i].class = "Raw" <=> i > 1
  /\ r.started => SentOf(r) # <<>> /\ SentOf(r)[1].class \in Opening /\ a = <<"allow">>
  /\ ~r.started => Len(SentOf(r)) <= 1
  /\ ~r.started /\ SentOf(r) # <<>> => SentOf(r)[1].class \in Closing /\ r.pc = "done"
  /\ SentOf(r) # <<>> /\ SentOf(r)[1].class = "Denied" => a = <<"deny">>
  /\ r.pc \in Waiting \cup {"open", "header", "type"} => ~r.started
  /\ r.pc \in {"send", "watch", "sendFeed"} => r.started
  /\ r.pc = "done" /\ a # <<>> /\ ~r.quit /\ ~r.err => SentOf(r) # <<>>

\* The chunks of a child: those sent, the one in hand and those in the pipe are the first it made.
Count(r) == IF r.started THEN Len(SentOf(r)) - 1 ELSE 0
InHand(r) == IF r.pc = "send" THEN 1 ELSE 0
BytesOf(r) ==
  /\ r.pc \in Hosted => r.src.command = "host"
  /\ r.src.command # "host" =>
      /\ \A i \in 1..(Len(SentOf(r)) - 1) : SentOf(r)[i + 1].n = i
      /\ r.pc \in {"open", "header", "pump", "send"} =>
           /\ Count(r) + InHand(r) + Len(r.out) = r.made
           /\ r.pc = "send" => r.held = Count(r) + 1
           /\ \A i \in DOMAIN r.out : r.out[i] = Count(r) + InHand(r) + i
      /\ r.started /\ SentOf(r)[1].class = "Media" /\ ~r.quit /\ r.pc # "send" => Count(r) > 0

\* What goes upstream, in the order of its stages.
Pending(r) == IF r.pending = 0 THEN <<>> ELSE <<r.pending>>
Stages(r) == <<r.heard, r.pin, r.q, r.up, Pending(r), r.post>>
Inc(q) == \A i, j \in DOMAIN q : i < j /\ q[i] # 0 /\ q[j] # 0 => q[i] < q[j]
Values(q) == {q[i] : i \in DOMAIN q} \ {0}
Precedes(p, q) == \A x \in Values(p), y \in Values(q) : x < y
InOrder(L) == \A k \in 1..6 : Inc(L[k]) /\ \A m \in 1..6 : k < m => Precedes(L[k], L[m])
UpTo(L, n) == \A k \in 1..6 : \A x \in Values(L[k]) : x <= n
NoZero(q) == \A i \in DOMAIN q : q[i] # 0
StreamOf(r) ==
  /\ InOrder(Stages(r)) /\ UpTo(Stages(r), r.said)
  /\ NoZero(r.pin) /\ NoZero(r.q) /\ NoZero(r.up)
  /\ ~r.writer => r.q = <<>>
  /\ \A i \in DOMAIN r.heard : r.heard[i] = 0 =>
       /\ ~r.writer /\ r.pin = <<>>
       /\ \A j \in DOMAIN r.heard : j > i => r.heard[j] = 0
  /\ r.pc \in Waiting \cup {"open"} => r.heard = <<>> /\ r.pin = <<>> /\ r.q = <<>> /\ ~r.writer
  /\ r.pc \in Waiting \cup {"open"} => r.out = <<>> /\ r.made = 0

\* Who talks how, and what fits where.
KindOf(c, r) ==
  /\ c.kind # "talk" => r.pending = 0
  /\ c.kind # "relay" => r.post = <<>> /\ r.relay = "none" /\ r.caller # "dial"
  /\ r.relay = "send" => r.post # <<>> /\ Head(r.post) # 0
  /\ r.pc = "new" => r.relay = "none"
  /\ Len(r.q) <= StdinCap /\ Len(r.pin) <= PipeCap /\ Len(r.out) <= PipeCap
  /\ Len(r.down) <= Window /\ Len(r.post) <= PostCap
  /\ Len(r.up) <= IF c.kind = "local" THEN PostCap ELSE Window

\* A viewer of a host feed: its position, what it was sent and what it skipped.
ViewOf(r, f) ==
  /\ r.attached # None <=> r.pc \in Hosted
  /\ r.pc \in Waiting \cup {"open"} => r.skipped = 0
  /\ r.attached # None =>
       /\ r.attached \in DOMAIN f /\ r.pos <= f[r.attached].head
       /\ r.pos - r.from = Count(r) + r.skipped + (IF r.pc = "sendFeed" THEN 1 ELSE 0)
       /\ r.pc = "sendFeed" => r.held = r.pos
       /\ \A i \in DOMAIN SentOf(r) : i > 1 =>
            /\ SentOf(r)[i].n <= r.pos /\ (r.pc = "sendFeed" => SentOf(r)[i].n < r.pos)
            /\ \A j \in DOMAIN SentOf(r) : j > i => SentOf(r)[i].n < SentOf(r)[j].n

Session(c, r, a, f) ==
  /\ SessType(r) /\ LifeOf(r, a) /\ HeadOf(r, a) /\ BytesOf(r) /\ StreamOf(r) /\ KindOf(c, r)
  /\ ViewOf(r, f)
SessInv ==
  /\ DOMAIN sess = Sess /\ DOMAIN audit = Sess
  /\ \A s \in DOMAIN scen.callers : Session(Caller(s), S(s), audit[s], feed)
  /\ \A s \in Sess \ DOMAIN scen.callers : sess[s] = NewSession

\* The feeds, with the sessions attached to each, and the browsers' entries.
FeedType == [head : Nat, senders : SUBSET (STRING \cup {"registry"}), viewers : Nat]
Viewers(i) == {s \in Sess : S(s).attached = i}
FeedInv ==
  /\ feed \in Seq(FeedType)
  /\ \A n \in DOMAIN feeds : feeds[n] \in DOMAIN feed
  /\ \A i \in DOMAIN feed : feed[i].viewers = Cardinality(Viewers(i))
EntryInv ==
  /\ duplex \subseteq DOMAIN scen.callers
  /\ \A s \in duplex : Caller(s).kind = "relay" => S(s).relay # "done"

\* Ephemeral(n), of the rows m.
Lent(m, n) == n \in DOMAIN m /\ m[n].note = "accept"

\* The rows of `_media`: a row of an acceptor stands while it is at work, and an endpoint that came
\* late enough stays.
AtWork == {"waiting", "busy", "half", "clean", "killed"}
BridgePcs == {"start", "checked", "end"} \cup AtWork
RowsInv == \A n \in DOMAIN media : media[n] \in Rows(scen.accepts)
PlacesInv ==
  /\ DOMAIN bridge = DOMAIN scen.accepts
  /\ \A b \in DOMAIN bridge :
       /\ DOMAIN bridge[b] = {"pc", "with"} /\ bridge[b].pc \in BridgePcs
       /\ Accepts(b).op # "accept" => bridge[b].pc \in {"start", "end"}
       /\ Accepts(b).op # "accept" /\ bridge[b].pc = "end" /\ Accepts(b).after # None =>
            bridge[Accepts(b).after].pc \notin {"start", "checked"}
LateInv ==
  \A b \in DOMAIN bridge : AddedLate(b) /\ bridge[b].pc = "end" =>
     Accepts(b).name \in DOMAIN media /\ ~Lent(media, Accepts(b).name)
LentInv ==
  \A n \in DOMAIN media : Lent(media, n) =>
     \E b \in DOMAIN bridge :
        Accepts(b).op = "accept" /\ Accepts(b).name = n /\ bridge[b].pc \in AtWork
BridgeInv == RowsInv /\ PlacesInv /\ LateInv /\ LentInv

SInv == SessInv /\ FeedInv /\ EntryInv /\ BridgeInv

-----------------------------------------------------------------------------
(* What a sequence that grows or shrinks keeps. *)

LEMMA TailIs ==
  ASSUME NEW T, NEW q \in Seq(T), q # <<>>
  PROVE  /\ Tail(q) \in Seq(T) /\ Head(q) \in T /\ 1 \in DOMAIN q /\ Head(q) = q[1]
         /\ Len(Tail(q)) = Len(q) - 1 /\ Len(q) \in Nat /\ Len(q) > 0
         /\ \A i \in DOMAIN Tail(q) : /\ i \in Nat \ {0} /\ i + 1 \in DOMAIN q
                                      /\ Tail(q)[i] = q[i + 1]
  BY HeadTailProperties, LenProperties, EmptySeq

LEMMA AppendIs ==
  ASSUME NEW T, NEW q \in Seq(T), NEW x \in T
  PROVE  /\ Append(q, x) \in Seq(T) /\ Len(Append(q, x)) = Len(q) + 1 /\ Len(q) \in Nat
         /\ DOMAIN q = 1..Len(q) /\ DOMAIN Append(q, x) = 1..(Len(q) + 1)
         /\ \A i \in DOMAIN q : Append(q, x)[i] = q[i]
         /\ Append(q, x)[Len(q) + 1] = x
  BY AppendProperties, LenProperties

\* Two sequences behind each other, when the second grows at its end or is read at its head.
LEMMA Grows ==
  ASSUME NEW T, NEW p \in Seq(T), NEW q \in Seq(T), NEW x \in T
  PROVE  p \o Append(q, x) = Append(p \o q, x)
  <1> DEFINE e == <<x>>
  <1>1. e \in Seq(T)
    OBVIOUS
  <1>2. Append(q, x) = q \o e
    BY AppendIsConcat
  <1>3. p \o q \in Seq(T)
    BY ConcatProperties
  <1>4. Append(p \o q, x) = (p \o q) \o e
    BY <1>3, AppendIsConcat
  <1> HIDE DEF e
  <1>5. (p \o q) \o e = p \o (q \o e)
    BY <1>1, ConcatAssociative
  <1> QED
    BY <1>2, <1>4, <1>5, Zenon

LEMMA HeadAndTail ==
  ASSUME NEW T, NEW q \in Seq(T), q # <<>>, NEW e \in Seq(T), Len(e) = 1, e[1] = Head(q)
  PROVE  q = e \o Tail(q)
  <1> DEFINE t == Tail(q)
             w == e \o t
  <1>1. /\ t \in Seq(T) /\ Head(q) = q[1] /\ Len(q) \in Nat /\ Len(t) = Len(q) - 1 /\ Len(q) > 0
        /\ \A i \in 1..Len(t) : t[i] = q[i + 1]
    BY TailIs, HeadTailProperties
  <1> HIDE DEF t
  <1>2. /\ w \in Seq(T) /\ Len(w) = Len(e) + Len(t)
        /\ \A i \in 1..(Len(e) + Len(t)) : w[i] = IF i <= Len(e) THEN e[i] ELSE t[i - Len(e)]
    <2>1. t \in Seq(T)
      BY <1>1
    <2> QED
      BY <2>1, ConcatProperties
  <1> HIDE DEF w
  <1>3. Len(w) = Len(q)
    BY <1>1, <1>2
  <1>4. ASSUME NEW i \in 1..Len(q) PROVE q[i] = w[i]
    <2>1. CASE i = 1
      BY <1>1, <1>2, <2>1
    <2>2. CASE i > 1
      <3>1. i - 1 \in 1..Len(t) /\ (i - 1) + 1 = i
        BY <1>1, <2>2
      <3>2. t[i - 1] = q[i]
        BY <1>1, <3>1
      <3> QED
        BY <1>1, <1>2, <2>2, <3>2
    <2> QED
      BY <2>1, <2>2
  <1> QED
    BY <1>2, <1>3, <1>4, SeqEqual DEF w, t

LEMMA HandsOn ==
  ASSUME NEW T, NEW p \in Seq(T), NEW q \in Seq(T), q # <<>>
  PROVE  /\ Append(p, Head(q)) \o Tail(q) = p \o q
         /\ \E i \in DOMAIN (p \o q) : (p \o q)[i] = Head(q)
  <1> DEFINE e == <<Head(q)>>
             t == Tail(q)
  <1>1. Head(q) \in T /\ t \in Seq(T) /\ 1 \in DOMAIN q /\ Head(q) = q[1]
    BY TailIs
  <1>2. e \in Seq(T) /\ Len(e) = 1 /\ e[1] = Head(q)
    BY <1>1
  <1>3. Append(p, Head(q)) = p \o e
    BY <1>1, AppendIsConcat
  <1> HIDE DEF e, t
  <1>4. q = e \o t
    BY <1>2, HeadAndTail DEF t
  <1>5. (p \o e) \o t = p \o (e \o t)
    BY <1>1, <1>2, ConcatAssociative
  <1>6. Append(p, Head(q)) \o t = p \o q
    BY <1>3, <1>4, <1>5, Zenon
  <1>7. Len(p) \in Nat /\ Len(q) \in Nat /\ DOMAIN q = 1..Len(q)
    BY LenProperties
  <1>8. /\ p \o q \in Seq(T) /\ Len(p \o q) = Len(p) + Len(q)
        /\ \A i \in 1..(Len(p) + Len(q)) :
             (p \o q)[i] = IF i <= Len(p) THEN p[i] ELSE q[i - Len(p)]
    BY ConcatProperties, Zenon
  <1>9. Len(p) + 1 \in 1..(Len(p) + Len(q)) /\ ~(Len(p) + 1 <= Len(p)) /\ (Len(p) + 1) - Len(p) = 1
    BY <1>1, <1>7
  <1>10. (p \o q)[Len(p) + 1] = q[1]
    BY <1>8, <1>9, Zenon
  <1>11. DOMAIN (p \o q) = 1..(Len(p) + Len(q))
    BY <1>8, LenProperties, Zenon
  <1> QED
    BY <1>1, <1>6, <1>9, <1>10, <1>11, Zenon DEF t

\* The numbers of a stage that loses its head, and of one that gets a number.
LEMMA TailValues ==
  ASSUME NEW q \in Seq(Nat), q # <<>>, Inc(q)
  PROVE  /\ Values(Tail(q)) \subseteq Values(q) /\ Inc(Tail(q))
         /\ Head(q) # 0 => Head(q) \in Values(q) /\ \A y \in Values(Tail(q)) : Head(q) < y
  <1>1. /\ 1 \in DOMAIN q /\ Head(q) = q[1]
        /\ \A i \in DOMAIN Tail(q) : /\ i \in Nat \ {0} /\ i + 1 \in DOMAIN q
                                     /\ Tail(q)[i] = q[i + 1]
    BY TailIs
  <1> QED
    BY <1>1 DEF Values, Inc

LEMMA AppendValues ==
  ASSUME NEW q \in Seq(Nat), NEW x \in Nat, Inc(q), x # 0 => \A y \in Values(q) : y < x
  PROVE  Values(Append(q, x)) = Values(q) \cup ({x} \ {0}) /\ Inc(Append(q, x))
  <1>1. /\ Len(q) \in Nat /\ DOMAIN q = 1..Len(q) /\ DOMAIN Append(q, x) = 1..(Len(q) + 1)
        /\ \A i \in DOMAIN q : Append(q, x)[i] = q[i]
        /\ Append(q, x)[Len(q) + 1] = x
    BY AppendIs
  <1>2. /\ DOMAIN Append(q, x) = DOMAIN q \cup {Len(q) + 1}
        /\ \A i \in DOMAIN q : i \in Nat /\ i < Len(q) + 1
    BY <1>1
  <1>3. Inc(Append(q, x))
    <2> SUFFICES ASSUME NEW i \in DOMAIN Append(q, x), NEW j \in DOMAIN Append(q, x), i < j,
                        Append(q, x)[i] # 0, Append(q, x)[j] # 0
                 PROVE  Append(q, x)[i] < Append(q, x)[j]
      BY DEF Inc
    <2>1. i \in DOMAIN q
      BY <1>1
    <2>2. Append(q, x)[i] = q[i] /\ q[i] \in Values(q)
      BY <1>1, <2>1 DEF Values
    <2>3. CASE j \in DOMAIN q
      BY <1>1, <2>1, <2>2, <2>3 DEF Inc
    <2>4. CASE j = Len(q) + 1
      BY <1>1, <2>2, <2>4
    <2> QED
      BY <1>2, <2>3, <2>4
  <1> QED
    BY <1>1, <1>2, <1>3 DEF Values

\* Six stages in order, and what one step does to them: a number is passed on from the head of one
\* to the end of an earlier one, past stages that are empty ...
AreStages(L) == \A j \in 1..6 : L[j] \in Seq(Nat)
Except(L, M, F) == \A j \in 1..6 : j \notin F => M[j] = L[j]
LEMMA Passes ==
  ASSUME NEW L, NEW M, NEW n \in Nat, NEW k \in 1..6, NEW m \in 1..6, k < m, AreStages(L),
         InOrder(L), UpTo(L, n), L[m] # <<>>, Head(L[m]) # 0,
         \A j \in 1..6 : k < j /\ j < m => L[j] = <<>>,
         M[k] = Append(L[k], Head(L[m])), M[m] = Tail(L[m]), Except(L, M, {k, m})
  PROVE  InOrder(M) /\ UpTo(M, n)
  <1> DEFINE x == Head(L[m])
  <1>1. L[k] \in Seq(Nat) /\ L[m] \in Seq(Nat) /\ x \in Nat
    BY TailIs DEF AreStages
  <1>2. \A j \in 1..6 : Inc(L[j]) /\ \A g \in 1..6 : j < g => Precedes(L[j], L[g])
    BY DEF InOrder
  <1>3. /\ Values(M[m]) \subseteq Values(L[m]) /\ Inc(M[m])
        /\ x \in Values(L[m]) /\ \A y \in Values(M[m]) : x < y
    BY <1>1, <1>2, TailValues
  <1>4. Values(M[k]) = Values(L[k]) \cup {x} /\ Inc(M[k])
    <2>1. \A y \in Values(L[k]) : y < x
      BY <1>2, <1>3 DEF Precedes
    <2>2. Inc(L[k]) /\ M[k] = Append(L[k], x)
      BY <1>2
    <2>3. Values(Append(L[k], x)) = Values(L[k]) \cup ({x} \ {0}) /\ Inc(Append(L[k], x))
      BY <1>1, <2>1, <2>2, AppendValues
    <2> QED
      BY <2>2, <2>3
  <1>5. \A j \in 1..6 : j # k /\ j # m => M[j] = L[j]
    BY DEF Except
  <1>6. UpTo(M, n)
    <2> SUFFICES ASSUME NEW j \in 1..6, NEW y \in Values(M[j]) PROVE y <= n
      BY DEF UpTo
    <2>1. \A g \in 1..6 : \A v \in Values(L[g]) : v <= n
      BY DEF UpTo
    <2> QED
      BY <1>3, <1>4, <1>5, <2>1
  <1>7. \A j \in 1..6 : Inc(M[j])
    BY <1>2, <1>3, <1>4, <1>5
  <1>8. ASSUME NEW j \in 1..6, NEW g \in 1..6, j < g PROVE Precedes(M[j], M[g])
    <2>1. \A v \in Values(L[j]), w \in Values(L[g]) : v < w
      BY <1>2, <1>8 DEF Precedes
    <2>2. CASE j = k /\ g = m
      BY <1>3, <1>4, <2>1, <2>2 DEF Precedes
    <2>3. CASE j = k /\ g # m
      <3>1. CASE g < m
        <4>1. Values(M[g]) = {}
          BY <1>5, <1>8, <2>3, <3>1 DEF Values
        <4> QED
          BY <4>1 DEF Precedes
      <3>2. CASE m < g
        <4>1. (\A v \in Values(L[m]), w \in Values(L[g]) : v < w) /\ M[g] = L[g]
          BY <1>2, <1>5, <1>8, <2>3, <3>2 DEF Precedes
        <4> QED
          BY <1>3, <1>4, <2>1, <2>3, <4>1 DEF Precedes
      <3> QED
        BY <2>3, <3>1, <3>2
    <2>4. CASE j = m
      <3>1. M[g] = L[g]
        BY <1>5, <1>8, <2>4
      <3> QED
        BY <1>3, <2>1, <2>4, <3>1 DEF Precedes
    <2>5. CASE g = k
      <3>1. (\A v \in Values(L[j]), w \in Values(L[m]) : v < w) /\ M[j] = L[j]
        BY <1>2, <1>5, <1>8, <2>5 DEF Precedes
      <3> QED
        BY <1>3, <1>4, <2>1, <2>5, <3>1 DEF Precedes
    <2>6. CASE g = m /\ j # k
      <3>1. M[j] = L[j]
        BY <1>5, <1>8, <2>6
      <3> QED
        BY <1>3, <2>1, <2>6, <3>1 DEF Precedes
    <2>7. CASE j # k /\ j # m /\ g # k /\ g # m
      BY <1>2, <1>5, <1>8, <2>7
    <2> QED
      BY <2>2, <2>3, <2>4, <2>5, <2>6, <2>7
  <1> QED
    BY <1>6, <1>7, <1>8 DEF InOrder

\* ... or one loses its head, or everything ...
LEMMA Drops ==
  ASSUME NEW L, NEW M, NEW n \in Nat, NEW m \in 1..6, AreStages(L), InOrder(L), UpTo(L, n),
         M[m] = <<>> \/ (L[m] # <<>> /\ M[m] = Tail(L[m])), Except(L, M, {m})
  PROVE  InOrder(M) /\ UpTo(M, n)
  <1>1. \A j \in 1..6 : Inc(L[j]) /\ \A g \in 1..6 : j < g => Precedes(L[j], L[g])
    BY DEF InOrder
  <1>2. Values(M[m]) \subseteq Values(L[m]) /\ Inc(M[m])
    <2>1. CASE M[m] = <<>>
      BY <2>1 DEF Values, Inc
    <2>2. CASE L[m] # <<>> /\ M[m] = Tail(L[m])
      BY <1>1, <2>2, TailValues DEF AreStages
    <2> QED
      BY <2>1, <2>2
  <1>3. \A j \in 1..6 : Values(M[j]) \subseteq Values(L[j]) /\ Inc(M[j])
    BY <1>1, <1>2 DEF Except
  <1> QED
    BY <1>1, <1>3 DEF InOrder, UpTo, Precedes

\* ... or gets a number above all others, with nothing in the stages behind it ...
LEMMA Enters ==
  ASSUME NEW L, NEW M, NEW n \in Nat, NEW x \in Nat, x > n, NEW k \in 1..6, AreStages(L),
         InOrder(L), UpTo(L, n), \A j \in 1..6 : k < j => L[j] = <<>>,
         M[k] = Append(L[k], x), Except(L, M, {k})
  PROVE  InOrder(M) /\ UpTo(M, x)
  <1>1. \A j \in 1..6 : Inc(L[j]) /\ \A g \in 1..6 : j < g => Precedes(L[j], L[g])
    BY DEF InOrder
  <1>2. \A j \in 1..6 : \A y \in Values(L[j]) : y < x /\ y <= x
    <2> SUFFICES ASSUME NEW j \in 1..6, NEW y \in Values(L[j]) PROVE y < x /\ y <= x
      OBVIOUS
    <2>1. y \in Nat
      <3>1. PICK i \in DOMAIN L[j] : y = L[j][i]
        BY DEF Values
      <3>2. L[j] \in Seq(Nat)
        BY DEF AreStages
      <3>3. DOMAIN L[j] = 1..Len(L[j])
        BY <3>2, LenProperties
      <3> QED
        BY <3>1, <3>2, <3>3, ElementOfSeq
    <2>2. y <= n
      BY DEF UpTo
    <2> QED
      BY <2>1, <2>2
  <1>3. Values(M[k]) = Values(L[k]) \cup {x} /\ Inc(M[k])
    <2>1. L[k] \in Seq(Nat) /\ ({x} \ {0}) = {x}
      <3>1. x # 0
        OBVIOUS
      <3> QED
        BY <3>1 DEF AreStages
    <2> QED
      BY <1>1, <1>2, <2>1, AppendValues
  <1>4. \A j \in 1..6 : j # k => M[j] = L[j]
    BY DEF Except
  <1>5. UpTo(M, x)
    <2>1. x <= x
      OBVIOUS
    <2>2. \A y \in Values(M[k]) : y <= x
      BY <1>2, <1>3, <2>1
    <2>3. \A j \in 1..6 : j # k => \A y \in Values(M[j]) : y <= x
      BY <1>2, <1>4
    <2> QED
      BY <2>2, <2>3 DEF UpTo
  <1>6. \A j \in 1..6 : Inc(M[j])
    BY <1>1, <1>3, <1>4
  <1>7. ASSUME NEW j \in 1..6, NEW g \in 1..6, j < g PROVE Precedes(M[j], M[g])
    <2>1. Precedes(L[j], L[g]) /\ j # g
      BY <1>1, <1>7
    <2>2. CASE j = k
      BY <1>4, <1>7, <2>2 DEF Precedes, Values
    <2>3. CASE g = k
      BY <1>2, <1>3, <1>4, <2>1, <2>3 DEF Precedes
    <2>4. CASE j # k /\ g # k
      BY <1>4, <2>1, <2>4
    <2> QED
      BY <2>2, <2>3, <2>4
  <1> QED
    BY <1>5, <1>6, <1>7 DEF InOrder

\* ... or a zero, which stands for no number.
LEMMA EntersZero ==
  ASSUME NEW L, NEW M, NEW n \in Nat, NEW k \in 1..6, AreStages(L), InOrder(L), UpTo(L, n),
         M[k] = Append(L[k], 0), Except(L, M, {k})
  PROVE  InOrder(M) /\ UpTo(M, n)
  <1>1. \A j \in 1..6 : Inc(L[j]) /\ \A g \in 1..6 : j < g => Precedes(L[j], L[g])
    BY DEF InOrder
  <1>2. Values(M[k]) = Values(L[k]) /\ Inc(M[k])
    <2>1. L[k] \in Seq(Nat) /\ Inc(L[k])
      BY <1>1 DEF AreStages
    <2>2. Values(M[k]) = Values(L[k]) \cup ({0} \ {0}) /\ Inc(M[k])
      BY <2>1, AppendValues
    <2> QED
      BY <2>2
  <1>3. \A j \in 1..6 : Values(M[j]) = Values(L[j]) /\ Inc(M[j])
    BY <1>1, <1>2 DEF Except
  <1> QED
    BY <1>1, <1>3 DEF InOrder, UpTo, Precedes

-----------------------------------------------------------------------------
(* A session's record in which few fields change. *)

Same(r, n, Ch) == DOMAIN n = DOMAIN r /\ \A x \in SessFields \ Ch : n[x] = r[x]
LifeFields == {"pc", "caller", "group", "lost", "gone", "quit"}
HeadFields == {"got", "down", "started"}
BytesFields == {"src", "got", "down", "started", "out", "made", "held"}
StreamFields == {"heard", "pin", "q", "up", "pending", "post", "said", "writer"}
KindFields == {"pending", "post", "relay", "q", "pin", "out", "down", "up"}
ViewFields == {"attached", "skipped", "pos", "from", "held", "got", "down", "started"}

LEMMA TypeKept ==
  ASSUME NEW r, NEW n, NEW Ch, SessType(r), Same(r, n, Ch), Fits(n, Ch)
  PROVE  SessType(n)
  <1>1. /\ \A x \in SessFields \ Ch : n[x] = r[x] 
        /\ "pc" \notin Ch => n.pc = r.pc
        /\ "caller" \notin Ch => n.caller = r.caller
    BY DEF Same, SessFields
  <1>2. DOMAIN n = SessFields /\ {"pc", "caller"} \subseteq SessFields
    BY DEF Same, SessType, SessFields
  <1> QED
    BY <1>1, <1>2 DEF SessType, Fits

LEMMA LifeKept ==
  ASSUME NEW r, NEW n, NEW a, NEW Ch, Same(r, n, Ch), Ch \cap LifeFields = {}, LifeOf(r, a)
  PROVE  LifeOf(n, a)
  <1>1. \A x \in LifeFields : n[x] = r[x]
    BY DEF Same, SessFields, LifeFields
  <1>2. /\ n.pc = r.pc /\ n.caller = r.caller /\ n.group = r.group
        /\ n.lost = r.lost /\ n.gone = r.gone /\ n.quit = r.quit
    BY <1>1 DEF LifeFields
  <1> QED
    BY <1>2 DEF LifeOf

\* Where its parts hold on, whatever becomes of the rest.
Early == Waiting \cup {"open"}
HeadMove(r, n, Ch) ==
  /\ Ch \cap HeadFields = {} /\ ("quit" \in Ch => n.quit) /\ ("err" \in Ch => n.err)
  /\ \/ n.pc = r.pc
     \/ r.pc # "done" /\ n.pc \in {"pump", "tear", "over"}
     \/ r.pc \in Early /\ n.pc \in {"asked", "open", "header", "type"}
BytesMove(r, n, Ch) ==
  /\ Ch \cap BytesFields = {} /\ ("quit" \in Ch => n.quit)
  /\ \/ n.pc = r.pc
     \/ n.pc \in {"asked", "tear", "over", "done"} /\ (r.pc # "send" \/ r.quit)
     \/ {n.pc, r.pc} \subseteq {"open", "header", "pump"}
StreamMove(r, n, Ch) ==
  /\ Ch \cap StreamFields = {}
  /\ \/ n.pc \notin Early
     \/ (n.pc = r.pc \/ r.pc \in Early) /\ Ch \cap {"out", "made"} = {}
KindMove(r, n, Ch) ==
  /\ Ch \cap KindFields = {} /\ (n.pc = r.pc \/ n.pc # "new")
  /\ "caller" \in Ch => n.caller # "dial"
ViewMove(r, n, Ch) ==
  /\ Ch \cap ViewFields = {}
  /\ n.pc = r.pc \/ ({n.pc, r.pc} \cap Hosted = {} /\ (n.pc \notin Early \/ r.pc \in Early))

LEMMA HeadKept ==
  ASSUME NEW r, NEW n, NEW a, NEW Ch, Same(r, n, Ch), HeadMove(r, n, Ch), HeadOf(r, a)
  PROVE  HeadOf(n, a)
  <1>1. /\ \A x \in HeadFields : n[x] = r[x]
        /\ r.quit => n.quit
        /\ r.err => n.err
    BY DEF Same, SessFields, HeadFields, HeadMove
  <1>2. n.got = r.got /\ n.down = r.down /\ n.started = r.started
    BY <1>1 DEF HeadFields
  <1>3. SentOf(n) = SentOf(r)
    BY <1>2 DEF SentOf
  <1>4. \/ n.pc = r.pc
        \/ r.pc # "done" /\ n.pc \in {"pump", "tear", "over"}
        \/ r.pc \in Early /\ n.pc \in {"asked", "open", "header", "type"}
    BY DEF HeadMove
  <1> QED
    BY <1>1, <1>2, <1>3, <1>4 DEF HeadOf, Waiting, Early

LEMMA BytesKept ==
  ASSUME NEW r, NEW n, NEW Ch, Same(r, n, Ch), BytesMove(r, n, Ch), BytesOf(r)
  PROVE  BytesOf(n)
  <1>1. /\ \A x \in BytesFields : n[x] = r[x]
        /\ r.quit => n.quit
    BY DEF Same, SessFields, BytesFields, BytesMove
  <1>2. /\ n.got = r.got /\ n.down = r.down /\ n.started = r.started
        /\ n.src = r.src /\ n.out = r.out /\ n.made = r.made /\ n.held = r.held
    BY <1>1 DEF BytesFields
  <1>3. /\ SentOf(n) = SentOf(r) /\ Count(n) = Count(r)
        /\ n.pc = r.pc \/ (n.pc # "send" /\ r.pc # "send") => InHand(n) = InHand(r)
    BY <1>2 DEF SentOf, Count, InHand
  <1>4. \/ n.pc = r.pc
        \/ n.pc \in {"asked", "tear", "over", "done"} /\ (r.pc # "send" \/ r.quit)
        \/ {n.pc, r.pc} \subseteq {"open", "header", "pump"}
    BY DEF BytesMove
  <1> QED
    BY <1>1, <1>2, <1>3, <1>4 DEF BytesOf, Hosted

LEMMA StreamKept ==
  ASSUME NEW r, NEW n, NEW Ch, Same(r, n, Ch), StreamMove(r, n, Ch), StreamOf(r)
  PROVE  StreamOf(n)
  <1>1. /\ \A x \in StreamFields : n[x] = r[x]
        /\ n.pc \in Early => n.out = r.out /\ n.made = r.made /\ r.pc \in Early
    BY DEF Same, SessFields, StreamFields, StreamMove
  <1>2. /\ n.heard = r.heard /\ n.pin = r.pin /\ n.q = r.q /\ n.up = r.up /\ n.pending = r.pending
        /\ n.post = r.post /\ n.said = r.said /\ n.writer = r.writer
    BY <1>1 DEF StreamFields
  <1>3. Stages(n) = Stages(r)
    BY <1>2 DEF Stages, Pending
  <1> QED
    BY <1>1, <1>2, <1>3 DEF StreamOf, Early

LEMMA KindKept ==
  ASSUME NEW c, NEW r, NEW n, NEW Ch, Same(r, n, Ch), KindMove(r, n, Ch), KindOf(c, r)
  PROVE  KindOf(c, n)
  <1>1. /\ \A x \in KindFields : n[x] = r[x]
        /\ n.caller = r.caller \/ n.caller # "dial"
        /\ n.pc = r.pc \/ n.pc # "new"
    BY DEF Same, SessFields, KindFields, KindMove
  <1>2. /\ n.pending = r.pending /\ n.post = r.post /\ n.relay = r.relay
        /\ n.q = r.q /\ n.pin = r.pin /\ n.out = r.out /\ n.down = r.down
        /\ n.up = r.up
    BY <1>1 DEF KindFields
  <1> QED
    BY <1>1, <1>2 DEF KindOf

LEMMA ViewKept ==
  ASSUME NEW r, NEW n, NEW f, NEW Ch, Same(r, n, Ch), ViewMove(r, n, Ch), ViewOf(r, f)
  PROVE  ViewOf(n, f)
  <1>1. \A x \in ViewFields : n[x] = r[x]
    BY DEF Same, SessFields, ViewFields, ViewMove
  <1>2. /\ n.attached = r.attached /\ n.skipped = r.skipped /\ n.pos = r.pos
        /\ n.from = r.from /\ n.held = r.held /\ n.got = r.got /\ n.down = r.down
        /\ n.started = r.started
    BY <1>1 DEF ViewFields
  <1>3. SentOf(n) = SentOf(r) /\ Count(n) = Count(r)
    BY <1>2 DEF SentOf, Count
  <1>4. n.pc = r.pc \/ ({n.pc, r.pc} \cap Hosted = {} /\ (n.pc \notin Early \/ r.pc \in Early))
    BY DEF ViewMove
  <1> QED
    BY <1>2, <1>3, <1>4 DEF ViewOf, Waiting, Hosted, Early

LEMMA Typed ==
  ASSUME NEW r, SessType(r)
  PROVE  /\ DOMAIN r = SessFields /\ r.pc \in Places /\ r.caller \in Callings
         /\ r.started \in BOOLEAN /\ r.lost \in BOOLEAN /\ r.err \in BOOLEAN /\ r.tx \in BOOLEAN
         /\ r.writer \in BOOLEAN /\ r.fin \in BOOLEAN /\ r.gone \in BOOLEAN /\ r.quit \in BOOLEAN
         /\ r.made \in Nat /\ r.held \in Nat /\ r.said \in Nat /\ r.pending \in Nat
         /\ r.from \in Nat /\ r.pos \in Nat /\ r.skipped \in Nat
         /\ r.out \in Seq(Nat) /\ r.pin \in Seq(Nat) /\ r.heard \in Seq(Nat) /\ r.q \in Seq(Nat)
         /\ r.up \in Seq(Nat) /\ r.post \in Seq(Nat)
         /\ r.got \in Seq(Items) /\ r.down \in Seq(Items)
  <1>1. /\ \A x \in Flags : r[x] \in BOOLEAN
        /\ \A x \in Numbers : r[x] \in Nat
        /\ \A x \in Queues : r[x] \in Seq(Nat)
        /\ \A x \in Streams : r[x] \in Seq(Items)
    BY DEF SessType, Fits, SessFields, Flags, Numbers, Queues, Streams
  <1>2. DOMAIN r = SessFields /\ r.pc \in Places /\ r.caller \in Callings
    BY DEF SessType, Fits, SessFields
  <1> QED
    BY <1>1, <1>2 DEF Flags, Numbers, Queues, Streams

\* A step of a session: the fields it changes, and the parts of the invariant that speak of them.
LEMMA Keeps ==
  ASSUME NEW c, NEW r, NEW n, NEW a, NEW b, NEW f, NEW Ch, Session(c, r, a, f),
         Same(r, n, Ch), Fits(n, Ch),
         LifeOf(n, b) \/ (a = b /\ Ch \cap LifeFields = {}),
         HeadOf(n, b) \/ (a = b /\ HeadMove(r, n, Ch)),
         BytesOf(n) \/ BytesMove(r, n, Ch),
         StreamOf(n) \/ StreamMove(r, n, Ch),
         KindOf(c, n) \/ KindMove(r, n, Ch),
         ViewOf(n, f) \/ ViewMove(r, n, Ch)
  PROVE  Session(c, n, b, f)
  <1>1. SessType(n)
    BY TypeKept DEF Session
  <1>2. LifeOf(n, b)
    BY LifeKept DEF Session
  <1>3. HeadOf(n, b)
    BY HeadKept DEF Session
  <1>4. BytesOf(n)
    BY BytesKept DEF Session
  <1>5. StreamOf(n)
    BY StreamKept DEF Session
  <1>6. KindOf(c, n)
    BY KindKept DEF Session
  <1>7. ViewOf(n, f)
    BY ViewKept DEF Session
  <1> QED
    BY <1>1, <1>2, <1>3, <1>4, <1>5, <1>6, <1>7 DEF Session

\* What was sent, when an item is appended and when one is read.
LEMMA Adds ==
  ASSUME NEW r, NEW n, NEW x \in Items, SessType(r), n.got = r.got, n.down = Append(r.down, x)
  PROVE  /\ Len(SentOf(r)) \in Nat /\ Len(SentOf(n)) = Len(SentOf(r)) + 1
         /\ Len(n.down) = Len(r.down) + 1 /\ Len(r.down) \in Nat /\ Len(r.down) <= Len(SentOf(r))
         /\ DOMAIN SentOf(r) = 1..Len(SentOf(r)) /\ DOMAIN SentOf(n) = 1..(Len(SentOf(r)) + 1)
         /\ \A i \in DOMAIN SentOf(r) : SentOf(n)[i] = SentOf(r)[i]
         /\ SentOf(n)[Len(SentOf(r)) + 1] = x /\ SentOf(n) # <<>> /\ n.down \in Seq(Items)
  <1> DEFINE g == r.got
             d == r.down
             v == g \o d
  <1>1. g \in Seq(Items) /\ d \in Seq(Items)
    BY Typed
  <1>2. SentOf(r) = v /\ SentOf(n) = g \o Append(d, x) /\ n.down = Append(d, x)
    BY DEF SentOf
  <1> HIDE DEF g, d
  <1>3. v \in Seq(Items) /\ Len(v) = Len(g) + Len(d)
    BY <1>1, ConcatProperties
  <1>4. g \o Append(d, x) = Append(v, x)
    BY <1>1, Grows
  <1> HIDE DEF v
  <1>5. /\ Len(v) \in Nat /\ Len(Append(v, x)) = Len(v) + 1
        /\ DOMAIN v = 1..Len(v) /\ DOMAIN Append(v, x) = 1..(Len(v) + 1)
        /\ \A i \in DOMAIN v : Append(v, x)[i] = v[i]
        /\ Append(v, x)[Len(v) + 1] = x
    BY <1>3, AppendIs
  <1>6. Append(v, x) # <<>>
    BY <1>3, AppendProperties
  <1>7. /\ Append(d, x) \in Seq(Items) /\ Len(Append(d, x)) = Len(d) + 1 /\ Len(d) \in Nat
        /\ Len(g) \in Nat
    BY <1>1, AppendIs, LenProperties
  <1>8. Len(d) <= Len(v)
    BY <1>3, <1>7
  <1>9. d = r.down
    BY DEF d
  <1> QED
    BY <1>2, <1>4, <1>5, <1>6, <1>7, <1>8, <1>9, Zenon

LEMMA Hears ==
  ASSUME NEW r, NEW n, SessType(r), r.down # <<>>,
         n.got = Append(r.got, Head(r.down)), n.down = Tail(r.down)
  PROVE  /\ SentOf(n) = SentOf(r) /\ n.got \in Seq(Items) /\ n.down \in Seq(Items)
         /\ Len(n.down) <= Len(r.down)
         /\ \E i \in DOMAIN SentOf(r) : SentOf(r)[i] = Head(r.down)
  <1>1. r.got \in Seq(Items) /\ r.down \in Seq(Items)
    BY Typed
  <1>2. /\ Append(r.got, Head(r.down)) \o Tail(r.down) = r.got \o r.down
        /\ \E i \in DOMAIN (r.got \o r.down) : (r.got \o r.down)[i] = Head(r.down)
    BY <1>1, HandsOn
  <1>3. SentOf(n) = SentOf(r) /\ \E i \in DOMAIN SentOf(r) : SentOf(r)[i] = Head(r.down)
    BY <1>2, Zenon DEF SentOf
  <1>4. /\ Head(r.down) \in Items /\ Tail(r.down) \in Seq(Items)
        /\ Len(Tail(r.down)) = Len(r.down) - 1 /\ Len(r.down) \in Nat
    BY <1>1, TailIs
  <1>5. n.got \in Seq(Items)
    BY <1>1, <1>4, AppendIs
  <1> QED
    BY <1>3, <1>4, <1>5

-----------------------------------------------------------------------------
(* The steps of a session, as what becomes of its record. *)

\* A caller asks, or a relay does for it.
LEMMA AskOk ==
  ASSUME NEW c, NEW r, NEW a, NEW f, NEW relay, Session(c, r, a, f),
         r.caller \in {"idle", "dial"}, relay \in {r.relay, "first"},
         c.kind # "relay" => relay = r.relay
  PROVE  Session(c, [r EXCEPT !.caller = "wait", !.pc = "asked", !.relay = relay], a, f)
  <1> DEFINE n == [r EXCEPT !.caller = "wait", !.pc = "asked", !.relay = relay]
             Ch == {"caller", "pc", "relay"}
  <1> SUFFICES Session(c, n, a, f)
    OBVIOUS
  <1>1. Same(r, n, Ch) /\ n.pc = "asked" /\ n.caller = "wait" /\ n.relay = relay
    BY DEF Session, SessType, Same, SessFields
  <1> HIDE DEF n
  <1>2. SessType(r)
    BY DEF Session
  <1>3. /\ n.group = r.group /\ n.lost = r.lost /\ n.gone = r.gone /\ n.quit = r.quit
        /\ n.pending = r.pending /\ n.post = r.post /\ n.q = r.q /\ n.pin = r.pin /\ n.out = r.out
        /\ n.down = r.down /\ n.up = r.up
    BY <1>1 DEF Same, SessFields
  <1>4. Fits(n, Ch)
    BY <1>1 DEF Fits, Places, Callings, Flags, Numbers, Queues, Streams
  <1>5. LifeOf(n, a)
    BY <1>1, <1>3 DEF Session, LifeOf, Waiting, Hosted
  <1>6. r.pc = "new"
    BY DEF Session, LifeOf
  <1>7. KindOf(c, n)
    BY <1>1, <1>3, <1>6 DEF Session, KindOf
  <1>8. HeadMove(r, n, Ch)
    BY <1>1, <1>4, <1>5, <1>6, <1>7 DEF HeadMove, HeadFields, Early, Waiting
  <1>9. BytesMove(r, n, Ch)
    BY <1>1, <1>4, <1>5, <1>6, <1>7 DEF BytesMove, BytesFields
  <1>10. StreamMove(r, n, Ch)
    BY <1>1, <1>4, <1>5, <1>6, <1>7 DEF StreamMove, StreamFields, Early, Waiting
  <1>11. ViewMove(r, n, Ch)
    BY <1>1, <1>4, <1>5, <1>6, <1>7 DEF ViewMove, ViewFields, Hosted, Early, Waiting
  <1> HIDE DEF Ch
  <1> QED
    BY <1>1, <1>4, <1>5, <1>7, <1>8, <1>9, <1>10, <1>11, Keeps

\* Nobody answers.
LEMMA DialFails ==
  ASSUME NEW c, NEW r, NEW a, NEW f, Session(c, r, a, f), r.caller = "dial"
  PROVE  Session(c, [r EXCEPT !.caller = "left", !.pc = "done"], a, f)
  <1> DEFINE n == [r EXCEPT !.caller = "left", !.pc = "done"]
             Ch == {"caller", "pc"}
  <1> SUFFICES Session(c, n, a, f)
    OBVIOUS
  <1>1. Same(r, n, Ch) /\ n.pc = "done" /\ n.caller = "left"
    BY DEF Session, SessType, Same, SessFields
  <1> HIDE DEF n
  <1>2. SessType(r)
    BY DEF Session
  <1>3. /\ n.group = r.group /\ n.lost = r.lost /\ n.gone = r.gone /\ n.quit = r.quit
        /\ n.got = r.got /\ n.down = r.down /\ n.started = r.started /\ n.err = r.err
        /\ n.attached = r.attached /\ n.skipped = r.skipped
    BY <1>1 DEF Same, SessFields
  <1>4. Fits(n, Ch)
    BY <1>1 DEF Fits, Places, Callings, Flags, Numbers, Queues, Streams
  <1>5. r.pc = "new"
    BY DEF Session, LifeOf
  <1>6. LifeOf(n, a)
    BY <1>1, <1>3, <1>5 DEF Session, LifeOf, Waiting, Hosted
  <1>7. HeadOf(n, a)
    <2>1. SentOf(n) = SentOf(r)
      BY <1>3 DEF SentOf
    <2>2. a = <<>>
      BY <1>5 DEF Session, LifeOf, Waiting
    <2> QED
      BY <1>1, <1>3, <1>5, <2>1, <2>2 DEF Session, HeadOf, Waiting
  <1>8. BytesMove(r, n, Ch)
    BY <1>1, <1>4, <1>5, <1>6, <1>7 DEF BytesMove, BytesFields
  <1>9. StreamMove(r, n, Ch)
    BY <1>1, <1>4, <1>5, <1>6, <1>7 DEF StreamMove, StreamFields, Early, Waiting
  <1>10. KindMove(r, n, Ch)
    BY <1>1, <1>4, <1>5, <1>6, <1>7 DEF KindMove, KindFields
  <1>11. ViewMove(r, n, Ch)
    BY <1>1, <1>4, <1>5, <1>6, <1>7 DEF ViewMove, ViewFields, Hosted, Early, Waiting
  <1> HIDE DEF Ch
  <1> QED
    BY <1>1, <1>4, <1>6, <1>7, <1>8, <1>9, <1>10, <1>11, Keeps

\* A child is reaped.
LEMMA TearOk ==
  ASSUME NEW c, NEW r, NEW a, NEW f, Session(c, r, a, f), r.pc = "tear"
  PROVE  Session(c, Teardown(r), a, f)
  <1> DEFINE n == Teardown(r)
             Ch == {"pc", "group", "tx"}
  <1> SUFFICES Session(c, n, a, f)
    OBVIOUS
  <1>1. Same(r, n, Ch) /\ n.pc = "over" /\ n.group = {} /\ n.tx = FALSE
    BY DEF Session, SessType, Same, SessFields, Teardown
  <1> HIDE DEF n
  <1>2. SessType(r)
    BY DEF Session
  <1>3. n.caller = r.caller /\ n.quit = r.quit /\ n.gone = r.gone /\ n.lost = r.lost
    BY <1>1 DEF Same, SessFields
  <1>4. Fits(n, Ch)
    BY <1>1 DEF Fits, Places, Callings, Flags, Numbers, Queues, Streams
  <1>5. LifeOf(n, a)
    BY <1>1, <1>3 DEF Session, LifeOf, Waiting, Hosted
  <1>6. HeadMove(r, n, Ch)
    BY <1>1, <1>4, <1>5 DEF HeadMove, HeadFields, Early, Waiting
  <1>7. BytesMove(r, n, Ch)
    BY <1>1, <1>4, <1>5 DEF BytesMove, BytesFields
  <1>8. StreamMove(r, n, Ch)
    BY <1>1, <1>4, <1>5 DEF StreamMove, StreamFields, Early, Waiting
  <1>9. KindMove(r, n, Ch)
    BY <1>1, <1>4, <1>5 DEF KindMove, KindFields
  <1>10. ViewMove(r, n, Ch)
    BY <1>1, <1>4, <1>5 DEF ViewMove, ViewFields, Hosted, Early, Waiting
  <1> HIDE DEF Ch
  <1> QED
    BY <1>1, <1>4, <1>5, <1>6, <1>7, <1>8, <1>9, <1>10, Keeps

\* Nothing was sent before a session has started.
LEMMA Unsent ==
  ASSUME NEW r, NEW a, SessType(r), HeadOf(r, a), ~r.started, r.pc # "done"
  PROVE  Len(SentOf(r)) = 0 /\ SentOf(r) = <<>> /\ Len(r.down) = 0
  <1> DEFINE g == r.got
             d == r.down
             v == g \o d
  <1>1. g \in Seq(Items) /\ d \in Seq(Items)
    BY Typed
  <1>2. v = <<>>
    BY DEF HeadOf, SentOf
  <1>3. SentOf(r) = <<>>
    BY DEF HeadOf
  <1> HIDE DEF g, d
  <1>4. Len(v) = Len(g) + Len(d) /\ Len(g) \in Nat /\ Len(d) \in Nat
    BY <1>1, ConcatProperties, LenProperties
  <1>5. Len(v) = 0
    BY <1>2
  <1> HIDE DEF v
  <1>6. Len(d) = 0
    BY <1>4, <1>5
  <1> QED
    BY <1>3, <1>6 DEF d

\* The frames.
LEMMA FrameIs ==
  ASSUME NEW class \in Classes
  PROVE  Frame(class) \in Items /\ Frame(class).class = class
  <1>1. 0 \in Nat
    OBVIOUS
  <1> QED
    BY <1>1 DEF Frame, Items

LEMMA RawIs ==
  ASSUME NEW n \in Nat
  PROVE  Raw(n) \in Items /\ Raw(n).class = "Raw" /\ Raw(n).n = n
  <1>1. Raw(n) = [class |-> "Raw", n |-> n]
    BY DEF Raw
  <1>2. "Raw" \in Classes
    BY DEF Classes
  <1>3. [class |-> "Raw", n |-> n] \in Items
    BY <1>2 DEF Items
  <1> QED
    BY <1>1, <1>3

\* A frame that ends the exchange is the only one.
LEMMA AnswerOk ==
  ASSUME NEW c, NEW r, NEW a, NEW f, NEW b \in {<<"allow">>, <<"deny">>}, NEW class \in Closing,
         Session(c, r, a, f), r.group = {}, ~r.started, r.pc \in {"asked", "open", "over"},
         r.pc # "asked" => b = a, class = "Denied" => b = <<"deny">>
  PROVE  Session(c, Answer(r, class), b, f)
  <1> DEFINE n == Answer(r, class)
             Ch == {"pc", "down"}
  <1> SUFFICES Session(c, n, b, f)
    OBVIOUS
  <1>1. /\ Same(r, n, Ch) /\ n.pc = "done"
        /\ n.down = IF r.gone THEN r.down ELSE Append(r.down, Frame(class))
    BY DEF Session, SessType, Same, SessFields, Answer
  <1> HIDE DEF n
  <1>2. SessType(r)
    BY DEF Session
  <1>3. /\ n.got = r.got /\ n.started = r.started /\ n.quit = r.quit /\ n.err = r.err
        /\ n.caller = r.caller /\ n.group = r.group /\ n.gone = r.gone /\ n.lost = r.lost
        /\ n.src = r.src /\ n.attached = r.attached /\ n.pending = r.pending /\ n.post = r.post
        /\ n.relay = r.relay /\ n.q = r.q /\ n.pin = r.pin /\ n.out = r.out /\ n.up = r.up
    BY <1>1 DEF Same, SessFields
  <1>4. Len(SentOf(r)) = 0 /\ SentOf(r) = <<>> /\ Len(r.down) = 0
    BY <1>2, Unsent DEF Session
  <1>5. ~r.gone => /\ SentOf(n) # <<>> /\ Len(SentOf(n)) = 1 /\ DOMAIN SentOf(n) = 1..1
                   /\ SentOf(n)[1].class = class /\ Len(n.down) = 1 /\ n.down \in Seq(Items)
    <2> SUFFICES ASSUME ~r.gone
                 PROVE  /\ SentOf(n) # <<>> /\ Len(SentOf(n)) = 1 /\ DOMAIN SentOf(n) = 1..1
                        /\ SentOf(n)[1].class = class /\ Len(n.down) = 1 /\ n.down \in Seq(Items)
      OBVIOUS
    <2>1. n.down = Append(r.down, Frame(class)) /\ n.got = r.got
      BY <1>1, <1>3
    <2>2. Frame(class) \in Items /\ Frame(class).class = class
      <3>1. class \in Classes
        BY DEF Closing, Classes
      <3> QED
        BY <3>1, FrameIs
    <2>3. /\ Len(SentOf(n)) = Len(SentOf(r)) + 1 /\ Len(n.down) = Len(r.down) + 1
          /\ DOMAIN SentOf(n) = 1..(Len(SentOf(r)) + 1)
          /\ SentOf(n)[Len(SentOf(r)) + 1] = Frame(class) /\ SentOf(n) # <<>>
          /\ n.down \in Seq(Items)
      BY <1>2, <2>1, <2>2, Adds
    <2> QED
      BY <1>4, <2>2, <2>3
  <1>6. /\ r.gone => SentOf(n) = <<>> /\ Len(SentOf(n)) = 0 /\ DOMAIN SentOf(n) = {}
        /\ Len(n.down) <= 1 /\ n.down \in Seq(Items)
    <2>1. CASE r.gone
      <3>1. n.down = r.down /\ SentOf(n) = SentOf(r)
        BY <1>1, <1>3, <2>1 DEF SentOf
      <3>2. r.down \in Seq(Items)
        BY <1>2, Typed
      <3> QED
        BY <1>4, <2>1, <3>1, <3>2
    <2>2. CASE ~r.gone
      <3>1. Len(n.down) = 1 /\ n.down \in Seq(Items)
        BY <1>5, <2>2
      <3>2. Len(n.down) <= 1
        BY <3>1
      <3> QED
        BY <2>2, <3>1, <3>2
    <2> QED
      BY <2>1, <2>2
  <1>7. Fits(n, Ch)
    BY <1>1, <1>6 DEF Fits, Places, Callings, Flags, Numbers, Queues, Streams
  <1>8. LifeOf(n, b)
    BY <1>1, <1>3 DEF Session, LifeOf, Waiting, Hosted
  <1>9. HeadOf(n, b)
    <2>1. r.gone => r.quit
      BY DEF Session, LifeOf
    <2>2. CASE r.gone
      <3>1. SentOf(n) = <<>> /\ Len(SentOf(n)) = 0 /\ DOMAIN SentOf(n) = {}
        BY <1>6, <2>2
      <3> QED
        BY <1>1, <1>3, <2>1, <2>2, <3>1 DEF HeadOf, Waiting
    <2>3. CASE ~r.gone
      <3>1. /\ SentOf(n) # <<>> /\ Len(SentOf(n)) = 1 /\ DOMAIN SentOf(n) = 1..1
            /\ SentOf(n)[1].class = class
        BY <1>5, <2>3
      <3>2. /\ Len(SentOf(n)) <= 1 /\ class # "Raw"
            /\ \A i \in DOMAIN SentOf(n) : i = 1
        BY <3>1 DEF Closing
      <3> QED
        BY <1>1, <1>3, <3>1, <3>2 DEF HeadOf, Waiting
    <2> QED
      BY <2>2, <2>3
  <1>10. BytesOf(n)
    BY <1>1, <1>3, <1>5, <1>6 DEF BytesOf, Hosted
  <1>11. KindOf(c, n)
    <2>1. Len(n.down) <= Window
      BY <1>6, BoundsAssumption, LenProperties
    <2> QED
      BY <1>1, <1>3, <2>1 DEF Session, KindOf
  <1>12. ViewOf(n, f)
    BY <1>1, <1>3 DEF Session, ViewOf, Hosted, Waiting
  <1>13. StreamMove(r, n, Ch)
    BY <1>1, <1>4, <1>5, <1>6, <1>7, <1>8, <1>9, <1>10, <1>11, <1>12 DEF StreamMove, StreamFields, Early, Waiting
  <1> HIDE DEF Ch
  <1> QED
    BY <1>1, <1>7, <1>8, <1>9, <1>10, <1>11, <1>12, <1>13, Keeps

\* An allowed caller takes the row as it is now.
LEMMA OpenOk ==
  ASSUME NEW c, NEW r, NEW a, NEW f, NEW row, Session(c, r, a, f), r.pc = "asked"
  PROVE  Session(c, [r EXCEPT !.pc = "open", !.src = row], <<"allow">>, f)
  <1> DEFINE n == [r EXCEPT !.pc = "open", !.src = row]
             Ch == {"pc", "src"}
  <1> SUFFICES Session(c, n, <<"allow">>, f)
    OBVIOUS
  <1>1. Same(r, n, Ch) /\ n.pc = "open"
    BY DEF Session, SessType, Same, SessFields
  <1> HIDE DEF n
  <1>2. SessType(r)
    BY DEF Session
  <1>3. /\ n.got = r.got /\ n.down = r.down /\ n.started = r.started /\ n.quit = r.quit
        /\ n.caller = r.caller /\ n.group = r.group /\ n.gone = r.gone /\ n.lost = r.lost
        /\ n.attached = r.attached /\ n.skipped = r.skipped /\ n.out = r.out /\ n.made = r.made
    BY <1>1 DEF Same, SessFields
  <1>4. Fits(n, Ch)
    BY <1>1 DEF Fits, Places, Callings, Flags, Numbers, Queues, Streams
  <1>5. LifeOf(n, <<"allow">>)
    BY <1>1, <1>3 DEF Session, LifeOf, Waiting, Hosted
  <1>6. ~r.started /\ Len(SentOf(r)) = 0 /\ SentOf(r) = <<>>
    <2>1. ~r.started
      BY DEF Session, HeadOf, Waiting
    <2> QED
      BY <1>2, <2>1, Unsent DEF Session
  <1>7. SentOf(n) = <<>> /\ Len(SentOf(n)) = 0 /\ Count(n) = 0 /\ InHand(n) = 0
    BY <1>1, <1>3, <1>6 DEF SentOf, Count, InHand
  <1>8. HeadOf(n, <<"allow">>)
    BY <1>1, <1>3, <1>6, <1>7 DEF HeadOf, Waiting
  <1>9. r.out = <<>> /\ r.made = 0
    BY DEF Session, StreamOf, Waiting
  <1>10. BytesOf(n)
    BY <1>1, <1>3, <1>6, <1>7, <1>9 DEF BytesOf, Hosted
  <1>11. StreamMove(r, n, Ch)
    BY <1>1, <1>4, <1>5, <1>6, <1>7, <1>8, <1>9, <1>10 DEF StreamMove, StreamFields, Early, Waiting
  <1>12. KindMove(r, n, Ch)
    BY <1>1, <1>4, <1>5, <1>6, <1>7, <1>8, <1>9, <1>10 DEF KindMove, KindFields
  <1>13. ViewMove(r, n, Ch)
    BY <1>1, <1>4, <1>5, <1>6, <1>7, <1>8, <1>9, <1>10 DEF ViewMove, ViewFields, Hosted, Early, Waiting
  <1> HIDE DEF Ch
  <1> QED
    BY <1>1, <1>4, <1>5, <1>8, <1>10, <1>11, <1>12, <1>13, Keeps

\* What a header and a chunk add to what was sent.
LEMMA HeaderIs ==
  ASSUME NEW r, NEW n, NEW a, NEW class \in Opening, SessType(r), HeadOf(r, a), ~r.started,
         r.pc # "done", a = <<"allow">>, n.pc \in {"pump", "send", "watch"}, n.got = r.got,
         n.started, n.down = Append(r.down, Frame(class))
  PROVE  /\ HeadOf(n, a) /\ Count(n) = 0 /\ Len(SentOf(n)) = 1 /\ DOMAIN SentOf(n) = 1..1
         /\ Count(r) = 0 /\ SentOf(n)[1].class = class
         /\ Len(n.down) <= Window /\ n.down \in Seq(Items)
  <1>1. class \in Classes /\ class # "Raw"
    BY DEF Opening, Classes
  <1>2. Frame(class) \in Items /\ Frame(class).class = class
    BY <1>1, FrameIs
  <1>3. Len(SentOf(r)) = 0 /\ SentOf(r) = <<>> /\ Len(r.down) = 0
    BY Unsent
  <1>4. /\ Len(SentOf(n)) = Len(SentOf(r)) + 1 /\ Len(n.down) = Len(r.down) + 1
        /\ DOMAIN SentOf(n) = 1..(Len(SentOf(r)) + 1)
        /\ SentOf(n)[Len(SentOf(r)) + 1] = Frame(class) /\ SentOf(n) # <<>>
        /\ n.down \in Seq(Items)
    BY <1>2, Adds
  <1>5. /\ Len(SentOf(n)) = 1 /\ DOMAIN SentOf(n) = 1..1 /\ SentOf(n)[1].class = class
        /\ Len(n.down) = 1
    BY <1>2, <1>3, <1>4
  <1>6. \A i \in DOMAIN SentOf(n) : i = 1
    BY <1>5
  <1>7. HeadOf(n, a)
    BY <1>1, <1>4, <1>5, <1>6 DEF HeadOf, Waiting, Opening, Closing
  <1>8. Len(n.down) <= Window
    BY <1>5, BoundsAssumption
  <1> QED
    BY <1>4, <1>5, <1>7, <1>8 DEF Count

LEMMA ChunkIs ==
  ASSUME NEW r, NEW n, NEW a, NEW k \in Nat, SessType(r), HeadOf(r, a), r.started,
         n.pc \in {"pump", "watch"}, n.got = r.got, n.started, n.down = Append(r.down, Raw(k))
  PROVE  /\ HeadOf(n, a) /\ Count(n) = Count(r) + 1 /\ Count(r) \in Nat
         /\ Count(r) = Len(SentOf(r)) - 1 /\ Len(SentOf(r)) \in Nat /\ Len(SentOf(r)) > 0
         /\ Len(SentOf(n)) = Len(SentOf(r)) + 1
         /\ DOMAIN SentOf(r) = 1..Len(SentOf(r)) /\ DOMAIN SentOf(n) = 1..(Len(SentOf(r)) + 1)
         /\ \A i \in DOMAIN SentOf(r) : SentOf(n)[i] = SentOf(r)[i]
         /\ SentOf(n)[Len(SentOf(r)) + 1].n = k
         /\ Len(n.down) = Len(r.down) + 1 /\ Len(r.down) \in Nat /\ n.down \in Seq(Items)
  <1>1. Raw(k) \in Items /\ Raw(k).class = "Raw" /\ Raw(k).n = k
    BY RawIs
  <1>2. /\ Len(SentOf(r)) \in Nat /\ Len(SentOf(n)) = Len(SentOf(r)) + 1
        /\ Len(n.down) = Len(r.down) + 1 /\ Len(r.down) \in Nat
        /\ DOMAIN SentOf(r) = 1..Len(SentOf(r)) /\ DOMAIN SentOf(n) = 1..(Len(SentOf(r)) + 1)
        /\ \A i \in DOMAIN SentOf(r) : SentOf(n)[i] = SentOf(r)[i]
        /\ SentOf(n)[Len(SentOf(r)) + 1] = Raw(k) /\ SentOf(n) # <<>> /\ n.down \in Seq(Items)
    BY <1>1, Adds
  <1>3. SentOf(r) # <<>> /\ SentOf(r)[1].class \in Opening /\ a = <<"allow">>
    BY DEF HeadOf
  <1>4. Len(SentOf(r)) > 0
    <2> DEFINE g == r.got
               d == r.down
               v == g \o d
    <2>1. g \in Seq(Items) /\ d \in Seq(Items)
      BY Typed
    <2> HIDE DEF g, d
    <2>2. v \in Seq(Items)
      BY <2>1, ConcatProperties
    <2>3. v = SentOf(r)
      BY DEF SentOf, g, d
    <2> HIDE DEF v
    <2>4. Len(v) = 0 => v = <<>>
      BY <2>2, EmptySeq
    <2> QED
      BY <1>2, <1>3, <2>3, <2>4
  <1>5. SentOf(n)[1] = SentOf(r)[1]
    BY <1>2, <1>4
  <1>6. \A i \in DOMAIN SentOf(n) : SentOf(n)[i].class = "Raw" <=> i > 1
    <2> SUFFICES ASSUME NEW i \in 1..(Len(SentOf(r)) + 1)
                 PROVE  SentOf(n)[i].class = "Raw" <=> i > 1
      BY <1>2
    <2>1. CASE i \in DOMAIN SentOf(r)
      BY <1>2, <2>1 DEF HeadOf
    <2>2. CASE i = Len(SentOf(r)) + 1
      BY <1>1, <1>2, <1>4, <2>2
    <2> QED
      BY <1>2, <2>1, <2>2
  <1>7. HeadOf(n, a)
    BY <1>2, <1>3, <1>5, <1>6 DEF HeadOf, Waiting, Opening, Closing
  <1> QED
    BY <1>1, <1>2, <1>4, <1>7 DEF Count

\* A child is started.
LEMMA SpawnOk ==
  ASSUME NEW c, NEW r, NEW a, NEW f, NEW duplexed, Session(c, r, a, f), r.pc = "open",
         duplexed \in BOOLEAN
  PROVE  Session(c, Spawned(r, duplexed), a, f)
  <1> DEFINE n == Spawned(r, duplexed)
             Ch == {"pc", "group", "tx", "writer"}
  <1> SUFFICES Session(c, n, a, f)
    OBVIOUS
  <1>1. /\ Same(r, n, Ch) /\ n.pc = (IF duplexed THEN "header" ELSE "pump") /\ n.group = {"sh"}
        /\ n.tx = duplexed /\ n.writer = duplexed
    BY DEF Session, SessType, Same, SessFields, Spawned
  <1> HIDE DEF n
  <1>2. SessType(r)
    BY DEF Session
  <1>3. /\ n.caller = r.caller /\ n.lost = r.lost /\ n.gone = r.gone /\ n.quit = r.quit
        /\ n.heard = r.heard /\ n.pin = r.pin /\ n.q = r.q /\ n.up = r.up /\ n.pending = r.pending
        /\ n.post = r.post /\ n.said = r.said
    BY <1>1 DEF Same, SessFields
  <1>4. Fits(n, Ch)
    BY <1>1 DEF Fits, Places, Callings, Flags, Numbers, Queues, Streams
  <1>5. LifeOf(n, a)
    BY <1>1, <1>3 DEF Session, LifeOf, Waiting, Hosted
  <1>6. r.heard = <<>> /\ r.q = <<>>
    BY DEF Session, StreamOf, Waiting
  <1>7. StreamOf(n)
    <2>1. Stages(n) = Stages(r)
      BY <1>3 DEF Stages, Pending
    <2> QED
      BY <1>1, <1>3, <1>6, <2>1 DEF Session, StreamOf, Waiting
  <1>8. HeadMove(r, n, Ch)
    BY <1>1, <1>4, <1>5, <1>6, <1>7 DEF HeadMove, HeadFields, Early, Waiting
  <1>9. BytesMove(r, n, Ch)
    BY <1>1, <1>4, <1>5, <1>6, <1>7 DEF BytesMove, BytesFields
  <1>10. KindMove(r, n, Ch)
    BY <1>1, <1>4, <1>5, <1>6, <1>7 DEF KindMove, KindFields
  <1>11. ViewMove(r, n, Ch)
    BY <1>1, <1>4, <1>5, <1>6, <1>7 DEF ViewMove, ViewFields, Hosted, Early, Waiting
  <1> HIDE DEF Ch
  <1> QED
    BY <1>1, <1>4, <1>5, <1>7, <1>8, <1>9, <1>10, <1>11, Keeps

\* A header that cannot be sent.
LEMMA HeaderLostOk ==
  ASSUME NEW c, NEW r, NEW a, NEW f, Session(c, r, a, f), r.gone, r.pc \in {"header", "pump"}
  PROVE  Session(c, HeaderLost(r), a, f)
  <1> DEFINE n == HeaderLost(r)
             Ch == {"pc", "lost", "group", "tx"}
  <1> SUFFICES Session(c, n, a, f)
    OBVIOUS
  <1>1. Same(r, n, Ch) /\ n.pc = "done" /\ n.lost = TRUE /\ n.tx = FALSE
    BY DEF Session, SessType, Same, SessFields, HeaderLost
  <1> HIDE DEF n
  <1>2. SessType(r)
    BY DEF Session
  <1>3. /\ n.caller = r.caller /\ n.gone = r.gone /\ n.quit = r.quit /\ n.got = r.got
        /\ n.down = r.down /\ n.started = r.started /\ n.err = r.err
    BY <1>1 DEF Same, SessFields
  <1>4. Fits(n, Ch)
    BY <1>1 DEF Fits, Places, Callings, Flags, Numbers, Queues, Streams
  <1>5. LifeOf(n, a)
    BY <1>1, <1>3 DEF Session, LifeOf, Waiting, Hosted
  <1>6. HeadOf(n, a)
    <2>1. SentOf(n) = SentOf(r)
      BY <1>3 DEF SentOf
    <2>2. r.quit
      BY DEF Session, LifeOf
    <2> QED
      BY <1>1, <1>3, <2>1, <2>2 DEF Session, HeadOf, Waiting
  <1>7. BytesMove(r, n, Ch)
    BY <1>1, <1>4, <1>5, <1>6 DEF BytesMove, BytesFields
  <1>8. StreamMove(r, n, Ch)
    BY <1>1, <1>4, <1>5, <1>6 DEF StreamMove, StreamFields, Early, Waiting
  <1>9. KindMove(r, n, Ch)
    BY <1>1, <1>4, <1>5, <1>6 DEF KindMove, KindFields
  <1>10. ViewMove(r, n, Ch)
    BY <1>1, <1>4, <1>5, <1>6 DEF ViewMove, ViewFields, Hosted, Early, Waiting
  <1> HIDE DEF Ch
  <1> QED
    BY <1>1, <1>4, <1>5, <1>6, <1>7, <1>8, <1>9, <1>10, Keeps

\* The header of a duplex session.
LEMMA DuplexHeaderOk ==
  ASSUME NEW c, NEW r, NEW a, NEW f, Session(c, r, a, f), r.pc = "header"
  PROVE  Session(c, [r EXCEPT !.pc = "pump", !.phase = "both", !.started = TRUE,
                             !.down = Append(@, Frame("AudioDuplex"))],
                 a, f)
  <1> DEFINE n == [r EXCEPT !.pc = "pump", !.phase = "both", !.started = TRUE,
                             !.down = Append(@, Frame("AudioDuplex"))]
             Ch == {"pc", "started", "down", "phase"}
  <1> SUFFICES Session(c, n, a, f)
    OBVIOUS
  <1>1. /\ Same(r, n, Ch) /\ n.pc = "pump" /\ n.started = TRUE
        /\ n.down = Append(r.down, Frame("AudioDuplex"))
    BY DEF Session, SessType, Same, SessFields
  <1> HIDE DEF n
  <1>2. SessType(r)
    BY DEF Session
  <1>3. /\ n.caller = r.caller /\ n.gone = r.gone /\ n.quit = r.quit /\ n.group = r.group
        /\ n.lost = r.lost /\ n.got = r.got /\ n.src = r.src /\ n.attached = r.attached
        /\ n.pending = r.pending /\ n.post = r.post /\ n.relay = r.relay /\ n.q = r.q
        /\ n.pin = r.pin /\ n.up = r.up /\ n.made = r.made /\ n.out = r.out /\ n.pos = r.pos
        /\ n.from = r.from /\ n.skipped = r.skipped
    BY <1>1 DEF Same, SessFields
  <1>4. a = <<"allow">> /\ ~r.started
    BY DEF Session, LifeOf, HeadOf, Waiting
  <1>5. /\ HeadOf(n, a) /\ Count(n) = 0 /\ Len(SentOf(n)) = 1 /\ DOMAIN SentOf(n) = 1..1
        /\ Count(r) = 0 /\ SentOf(n)[1].class = "AudioDuplex"
        /\ Len(n.down) <= Window /\ n.down \in Seq(Items)
    <2>1. "AudioDuplex" \in Opening /\ r.pc # "done"
      BY DEF Opening
    <2> QED
      BY <1>1, <1>2, <1>3, <1>4, <2>1, HeaderIs DEF Session
  <1>6. Fits(n, Ch)
    BY <1>1, <1>5 DEF Fits, Places, Callings, Flags, Numbers, Queues, Streams
  <1>7. LifeOf(n, a)
    BY <1>1, <1>3 DEF Session, LifeOf, Waiting, Hosted
  <1>8. BytesOf(n)
    BY <1>1, <1>3, <1>5 DEF Session, BytesOf, InHand, Hosted
  <1>9. KindOf(c, n)
    BY <1>1, <1>3, <1>5 DEF Session, KindOf
  <1>10. ViewOf(n, f)
    BY <1>1, <1>3 DEF Session, ViewOf, Hosted, Waiting
  <1>11. StreamMove(r, n, Ch)
    BY <1>1, <1>4, <1>5, <1>6, <1>7, <1>8, <1>9, <1>10 DEF StreamMove, StreamFields, Early, Waiting
  <1> HIDE DEF Ch
  <1> QED
    BY <1>1, <1>5, <1>6, <1>7, <1>8, <1>9, <1>10, <1>11, Keeps

\* The first byte of a source brings the header, and is read.
LEMMA FirstReadOk ==
  ASSUME NEW c, NEW r, NEW a, NEW f, Session(c, r, a, f), r.pc = "pump", ~r.started, r.out # <<>>
  PROVE  Session(c, [r EXCEPT !.pc = "send", !.held = Head(r.out), !.out = Tail(r.out),
                             !.started = TRUE, !.down = Append(@, Frame("Media"))],
                 a, f)
  <1> DEFINE n == [r EXCEPT !.pc = "send", !.held = Head(r.out), !.out = Tail(r.out),
                             !.started = TRUE, !.down = Append(@, Frame("Media"))]
             Ch == {"pc", "started", "down", "held", "out"}
  <1> SUFFICES Session(c, n, a, f)
    OBVIOUS
  <1>1. /\ Same(r, n, Ch) /\ n.pc = "send" /\ n.started = TRUE
        /\ n.down = Append(r.down, Frame("Media")) /\ n.held = Head(r.out) /\ n.out = Tail(r.out)
    BY DEF Session, SessType, Same, SessFields
  <1> HIDE DEF n
  <1>2. SessType(r)
    BY DEF Session
  <1>3. /\ n.caller = r.caller /\ n.gone = r.gone /\ n.quit = r.quit /\ n.group = r.group
        /\ n.lost = r.lost /\ n.got = r.got /\ n.src = r.src /\ n.attached = r.attached
        /\ n.pending = r.pending /\ n.post = r.post /\ n.relay = r.relay /\ n.q = r.q
        /\ n.pin = r.pin /\ n.up = r.up /\ n.made = r.made /\ n.pos = r.pos /\ n.from = r.from
        /\ n.skipped = r.skipped
    BY <1>1 DEF Same, SessFields
  <1>4. a = <<"allow">> /\ ~r.started
    BY DEF Session, LifeOf, HeadOf, Waiting
  <1>5. /\ HeadOf(n, a) /\ Count(n) = 0 /\ Len(SentOf(n)) = 1 /\ DOMAIN SentOf(n) = 1..1
        /\ Count(r) = 0 /\ SentOf(n)[1].class = "Media"
        /\ Len(n.down) <= Window /\ n.down \in Seq(Items)
    <2>1. "Media" \in Opening /\ r.pc # "done"
      BY DEF Opening
    <2> QED
      BY <1>1, <1>2, <1>3, <1>4, <2>1, HeaderIs DEF Session
  <1>6. /\ Head(r.out) \in Nat /\ Tail(r.out) \in Seq(Nat) /\ 1 \in DOMAIN r.out /\ Head(r.out) = r.out[1]
        /\ Len(Tail(r.out)) = Len(r.out) - 1 /\ Len(r.out) \in Nat
        /\ \A i \in DOMAIN Tail(r.out) : /\ i \in Nat \ {0} /\ i + 1 \in DOMAIN r.out
                                         /\ Tail(r.out)[i] = r.out[i + 1]
    <2>1. r.out \in Seq(Nat)
      BY <1>2, Typed
    <2> QED
      BY <2>1, TailIs
  <1>7. Fits(n, Ch)
    BY <1>1, <1>5, <1>6 DEF Fits, Places, Callings, Flags, Numbers, Queues, Streams
  <1>8. LifeOf(n, a)
    BY <1>1, <1>3 DEF Session, LifeOf, Waiting, Hosted
  <1>9. BytesOf(n)
    <2>1. CASE r.src.command # "host"
      <3>1. /\ Len(r.out) = r.made
            /\ \A i \in DOMAIN r.out : r.out[i] = i
        <4>1. InHand(r) = 0
          BY DEF InHand
        <4>2. /\ Count(r) + InHand(r) + Len(r.out) = r.made
              /\ \A i \in DOMAIN r.out : r.out[i] = Count(r) + InHand(r) + i
          BY <2>1 DEF Session, BytesOf
        <4>3. r.out \in Seq(Nat)
          BY <1>2, Typed
        <4>4. DOMAIN r.out = 1..Len(r.out)
          BY <4>3, LenProperties
        <4> QED
          BY <1>5, <1>6, <4>1, <4>2, <4>4
      <3>2. InHand(n) = 1
        BY <1>1 DEF InHand
      <3>3. n.held = 1 /\ 1 + Len(n.out) = n.made
        BY <1>1, <1>3, <1>6, <3>1
      <3>4. \A i \in DOMAIN n.out : n.out[i] = 1 + i
        BY <1>1, <1>6, <3>1
      <3> QED
        BY <1>1, <1>5, <3>2, <3>3, <3>4 DEF BytesOf, Hosted
    <2>2. CASE r.src.command = "host"
      BY <1>1, <1>3, <2>2 DEF BytesOf
    <2> QED
      BY <2>1, <2>2
  <1>10. KindOf(c, n)
    BY <1>1, <1>3, <1>5, <1>6, BoundsAssumption DEF Session, KindOf
  <1>11. ViewOf(n, f)
    BY <1>1, <1>3 DEF Session, ViewOf, Hosted, Waiting
  <1>12. StreamMove(r, n, Ch)
    BY <1>1, <1>4, <1>5, <1>7, <1>8, <1>9, <1>10, <1>11 DEF StreamMove, StreamFields, Early, Waiting
  <1> HIDE DEF Ch
  <1> QED
    BY <1>1, <1>5, <1>7, <1>8, <1>9, <1>10, <1>11, <1>12, Keeps

\* The next bytes are read.
LEMMA ReadOk ==
  ASSUME NEW c, NEW r, NEW a, NEW f, Session(c, r, a, f), r.pc = "pump", r.started, r.out # <<>>
  PROVE  Session(c, [r EXCEPT !.pc = "send", !.held = Head(r.out), !.out = Tail(r.out)], a, f)
  <1> DEFINE n == [r EXCEPT !.pc = "send", !.held = Head(r.out), !.out = Tail(r.out)]
             Ch == {"pc", "held", "out"}
  <1> SUFFICES Session(c, n, a, f)
    OBVIOUS
  <1>1. Same(r, n, Ch) /\ n.pc = "send" /\ n.held = Head(r.out) /\ n.out = Tail(r.out)
    BY DEF Session, SessType, Same, SessFields
  <1> HIDE DEF n
  <1>2. SessType(r)
    BY DEF Session
  <1>3. /\ n.caller = r.caller /\ n.gone = r.gone /\ n.quit = r.quit /\ n.group = r.group
        /\ n.lost = r.lost /\ n.got = r.got /\ n.down = r.down /\ n.started = r.started
        /\ n.err = r.err /\ n.src = r.src /\ n.made = r.made /\ n.attached = r.attached
        /\ n.pending = r.pending /\ n.post = r.post /\ n.relay = r.relay /\ n.q = r.q
        /\ n.pin = r.pin /\ n.up = r.up /\ n.pos = r.pos /\ n.from = r.from
        /\ n.skipped = r.skipped
    BY <1>1 DEF Same, SessFields
  <1>4. /\ Head(r.out) \in Nat /\ Tail(r.out) \in Seq(Nat) /\ 1 \in DOMAIN r.out /\ Head(r.out) = r.out[1]
        /\ Len(Tail(r.out)) = Len(r.out) - 1 /\ Len(r.out) \in Nat
        /\ \A i \in DOMAIN Tail(r.out) : /\ i \in Nat \ {0} /\ i + 1 \in DOMAIN r.out
                                         /\ Tail(r.out)[i] = r.out[i + 1]
    <2>1. r.out \in Seq(Nat)
      BY <1>2, Typed
    <2> QED
      BY <2>1, TailIs
  <1>5. Fits(n, Ch)
    BY <1>1, <1>4 DEF Fits, Places, Callings, Flags, Numbers, Queues, Streams
  <1>6. LifeOf(n, a)
    BY <1>1, <1>3 DEF Session, LifeOf, Waiting, Hosted
  <1>7. SentOf(n) = SentOf(r)
    BY <1>3 DEF SentOf
  <1>8. HeadOf(n, a)
    BY <1>1, <1>3, <1>7 DEF Session, HeadOf, Waiting
  <1>9. BytesOf(n)
    <2>1. CASE r.src.command # "host"
      <3>1. Count(r) \in Int /\ Count(n) = Count(r) /\ InHand(r) = 0 /\ InHand(n) = 1
        <4>1. Len(SentOf(r)) \in Nat
          <5>1. r.got \in Seq(Items) /\ r.down \in Seq(Items)
            BY <1>2, Typed
          <5>2. SentOf(r) \in Seq(Items)
            BY <5>1, ConcatProperties DEF SentOf
          <5> QED
            BY <5>2, LenProperties
        <4> QED
          BY <1>1, <1>3, <1>7, <4>1 DEF Count, InHand
      <3>2. /\ Count(r) + InHand(r) + Len(r.out) = r.made
            /\ \A i \in DOMAIN r.out : r.out[i] = Count(r) + InHand(r) + i
        BY <2>1 DEF Session, BytesOf
      <3>3. n.held = Count(n) + 1 /\ Count(n) + 1 + Len(n.out) = n.made
        BY <1>1, <1>3, <1>4, <3>1, <3>2
      <3>4. \A i \in DOMAIN n.out : n.out[i] = Count(n) + 1 + i
        BY <1>1, <1>4, <3>1, <3>2
      <3>5. \A i \in 1..(Len(SentOf(n)) - 1) : SentOf(n)[i + 1].n = i
        BY <1>7, <2>1 DEF Session, BytesOf
      <3> QED
        BY <1>1, <3>1, <3>3, <3>4, <3>5 DEF BytesOf, Hosted
    <2>2. CASE r.src.command = "host"
      BY <1>1, <1>3, <2>2 DEF BytesOf
    <2> QED
      BY <2>1, <2>2
  <1>10. KindOf(c, n)
    BY <1>1, <1>3, <1>4, BoundsAssumption DEF Session, KindOf
  <1>11. ViewOf(n, f)
    BY <1>1, <1>3 DEF Session, ViewOf, Hosted, Waiting
  <1>12. StreamMove(r, n, Ch)
    BY <1>1, <1>5, <1>6, <1>7, <1>8, <1>9, <1>10, <1>11 DEF StreamMove, StreamFields, Early, Waiting
  <1> HIDE DEF Ch
  <1> QED
    BY <1>1, <1>5, <1>6, <1>8, <1>9, <1>10, <1>11, <1>12, Keeps

\* The six stages of what goes upstream.
LEMMA StagesAre ==
  ASSUME NEW r
  PROVE  /\ Stages(r)[1] = r.heard /\ Stages(r)[2] = r.pin /\ Stages(r)[3] = r.q
         /\ Stages(r)[4] = r.up /\ Stages(r)[5] = Pending(r) /\ Stages(r)[6] = r.post
  BY DEF Stages

LEMMA StagesType ==
  ASSUME NEW r, SessType(r)
  PROVE  AreStages(Stages(r)) /\ Pending(r) \in Seq(Nat)
  <1>1. /\ r.heard \in Seq(Nat) /\ r.pin \in Seq(Nat) /\ r.q \in Seq(Nat) /\ r.up \in Seq(Nat)
        /\ r.post \in Seq(Nat) /\ r.pending \in Nat
    BY Typed
  <1>2. Pending(r) \in Seq(Nat)
    BY <1>1 DEF Pending
  <1>3. ASSUME NEW j \in 1..6 PROVE Stages(r)[j] \in Seq(Nat)
    <2>1. j = 1 \/ j = 2 \/ j = 3 \/ j = 4 \/ j = 5 \/ j = 6
      OBVIOUS
    <2> QED
      BY <1>1, <1>2, <2>1, StagesAre
  <1> QED
    BY <1>2, <1>3 DEF AreStages

\* The steps of the stages, by name.
PassStep(L, M, k, m) ==
  /\ k \in 1..6 /\ m \in 1..6 /\ k < m /\ L[m] # <<>> /\ Head(L[m]) # 0
  /\ \A j \in 1..6 : k < j /\ j < m => L[j] = <<>>
  /\ M[k] = Append(L[k], Head(L[m])) /\ M[m] = Tail(L[m]) /\ Except(L, M, {k, m})
NextStep(L, M, k, n) ==
  /\ k \in 1..6 /\ \A j \in 1..6 : k < j => L[j] = <<>>
  /\ M[k] = Append(L[k], n + 1) /\ Except(L, M, {k})

LEMMA PassSteps ==
  ASSUME NEW L, NEW M, NEW n \in Nat, NEW k, NEW m, AreStages(L), InOrder(L), UpTo(L, n),
         PassStep(L, M, k, m)
  PROVE  InOrder(M) /\ UpTo(M, n)
  <1>1. /\ k \in 1..6 /\ m \in 1..6 /\ k < m /\ L[m] # <<>> /\ Head(L[m]) # 0
        /\ \A j \in 1..6 : k < j /\ j < m => L[j] = <<>>
        /\ M[k] = Append(L[k], Head(L[m])) /\ M[m] = Tail(L[m]) /\ Except(L, M, {k, m})
    BY DEF PassStep
  <1> QED
    BY <1>1, Passes

LEMMA NextSteps ==
  ASSUME NEW L, NEW M, NEW n \in Nat, NEW k, AreStages(L), InOrder(L), UpTo(L, n),
         NextStep(L, M, k, n)
  PROVE  InOrder(M) /\ UpTo(M, n + 1)
  <1> DEFINE x == n + 1
  <1>1. x \in Nat /\ x > n
    OBVIOUS
  <1>2. /\ k \in 1..6 /\ \A j \in 1..6 : k < j => L[j] = <<>>
        /\ M[k] = Append(L[k], x) /\ Except(L, M, {k})
    BY DEF NextStep
  <1> HIDE DEF x
  <1>3. InOrder(M) /\ UpTo(M, x)
    BY <1>1, <1>2, Enters
  <1> QED
    BY <1>3 DEF x

LEMMA ExceptIs ==
  ASSUME NEW r, NEW n, NEW F, 1 \in F \/ n.heard = r.heard, 2 \in F \/ n.pin = r.pin,
         3 \in F \/ n.q = r.q, 4 \in F \/ n.up = r.up, 5 \in F \/ n.pending = r.pending,
         6 \in F \/ n.post = r.post
  PROVE  Except(Stages(r), Stages(n), F)
  <1> DEFINE L == Stages(r)
             M == Stages(n)
  <1>1. /\ 1 \in F \/ M[1] = L[1]
        /\ 2 \in F \/ M[2] = L[2]
        /\ 3 \in F \/ M[3] = L[3]
        /\ 4 \in F \/ M[4] = L[4]
        /\ 5 \in F \/ M[5] = L[5]
        /\ 6 \in F \/ M[6] = L[6]
    BY StagesAre DEF Pending
  <1> HIDE DEF L, M
  <1>2. ASSUME NEW j \in 1..6, j \notin F PROVE M[j] = L[j]
    <2>1. j = 1 \/ j = 2 \/ j = 3 \/ j = 4 \/ j = 5 \/ j = 6
      OBVIOUS
    <2> QED
      BY <1>1, <1>2, <2>1
  <1> QED
    BY <1>2 DEF Except, L, M

\* The pump stops, because the caller left, at the end, or because the pipe broke.
LEMMA BreaksOk ==
  ASSUME NEW c, NEW r, NEW a, NEW f, Session(c, r, a, f),
         r.pc = "pump" \/ (r.pc = "send" /\ r.gone)
  PROVE  Session(c, [r EXCEPT !.pc = "tear"], a, f)
  <1> DEFINE n == [r EXCEPT !.pc = "tear"]
             Ch == {"pc"}
  <1> SUFFICES Session(c, n, a, f)
    OBVIOUS
  <1>1. Same(r, n, Ch) /\ n.pc = "tear"
    BY DEF Session, SessType, Same, SessFields
  <1> HIDE DEF n
  <1>2. SessType(r)
    BY DEF Session
  <1>3. /\ n.caller = r.caller /\ n.gone = r.gone /\ n.quit = r.quit /\ n.group = r.group
        /\ n.lost = r.lost /\ n.got = r.got /\ n.down = r.down /\ n.started = r.started
        /\ n.src = r.src /\ n.attached = r.attached /\ n.pos = r.pos /\ n.from = r.from
        /\ n.skipped = r.skipped /\ n.held = r.held /\ n.made = r.made /\ n.out = r.out
        /\ n.pending = r.pending /\ n.post = r.post /\ n.relay = r.relay /\ n.q = r.q
        /\ n.pin = r.pin /\ n.up = r.up /\ n.heard = r.heard /\ n.said = r.said
        /\ n.writer = r.writer
    BY <1>1 DEF Same, SessFields
  <1>4. Fits(n, Ch)
    BY <1>1 DEF Fits, Places, Callings, Flags, Numbers, Queues, Streams
  <1>5. LifeOf(n, a)
    BY <1>1, <1>3 DEF Session, LifeOf, Waiting, Hosted
  <1>6. r.gone => r.quit \/ r.pc = "done"
    BY DEF Session, LifeOf
  <1>7. HeadMove(r, n, Ch)
    BY <1>1, <1>4, <1>5, <1>6 DEF HeadMove, HeadFields, Early, Waiting
  <1>8. BytesMove(r, n, Ch)
    BY <1>1, <1>4, <1>5, <1>6 DEF BytesMove, BytesFields
  <1>9. StreamMove(r, n, Ch)
    BY <1>1, <1>4, <1>5, <1>6 DEF StreamMove, StreamFields, Early, Waiting
  <1>10. KindMove(r, n, Ch)
    BY <1>1, <1>4, <1>5, <1>6 DEF KindMove, KindFields
  <1>11. ViewMove(r, n, Ch)
    BY <1>1, <1>4, <1>5, <1>6 DEF ViewMove, ViewFields, Hosted, Early, Waiting
  <1> HIDE DEF Ch
  <1> QED
    BY <1>1, <1>4, <1>5, <1>7, <1>8, <1>9, <1>10, <1>11, Keeps

LEMMA BrokenOk ==
  ASSUME NEW c, NEW r, NEW a, NEW f, Session(c, r, a, f), r.pc = "pump"
  PROVE  Session(c, [r EXCEPT !.pc = "tear", !.err = TRUE], a, f)
  <1> DEFINE n == [r EXCEPT !.pc = "tear", !.err = TRUE]
             Ch == {"pc", "err"}
  <1> SUFFICES Session(c, n, a, f)
    OBVIOUS
  <1>1. Same(r, n, Ch) /\ n.pc = "tear" /\ n.err = TRUE
    BY DEF Session, SessType, Same, SessFields
  <1> HIDE DEF n
  <1>2. SessType(r)
    BY DEF Session
  <1>3. /\ n.caller = r.caller /\ n.gone = r.gone /\ n.quit = r.quit /\ n.group = r.group
        /\ n.lost = r.lost /\ n.got = r.got /\ n.down = r.down /\ n.started = r.started
        /\ n.src = r.src /\ n.attached = r.attached /\ n.pos = r.pos /\ n.from = r.from
        /\ n.skipped = r.skipped /\ n.held = r.held /\ n.made = r.made /\ n.out = r.out
        /\ n.pending = r.pending /\ n.post = r.post /\ n.relay = r.relay /\ n.q = r.q
        /\ n.pin = r.pin /\ n.up = r.up /\ n.heard = r.heard /\ n.said = r.said
        /\ n.writer = r.writer
    BY <1>1 DEF Same, SessFields
  <1>4. Fits(n, Ch)
    BY <1>1 DEF Fits, Places, Callings, Flags, Numbers, Queues, Streams
  <1>5. LifeOf(n, a)
    BY <1>1, <1>3 DEF Session, LifeOf, Waiting, Hosted
  <1>6. r.gone => r.quit \/ r.pc = "done"
    BY DEF Session, LifeOf
  <1>7. HeadMove(r, n, Ch)
    BY <1>1, <1>4, <1>5, <1>6 DEF HeadMove, HeadFields, Early, Waiting
  <1>8. BytesMove(r, n, Ch)
    BY <1>1, <1>4, <1>5, <1>6 DEF BytesMove, BytesFields
  <1>9. StreamMove(r, n, Ch)
    BY <1>1, <1>4, <1>5, <1>6 DEF StreamMove, StreamFields, Early, Waiting
  <1>10. KindMove(r, n, Ch)
    BY <1>1, <1>4, <1>5, <1>6 DEF KindMove, KindFields
  <1>11. ViewMove(r, n, Ch)
    BY <1>1, <1>4, <1>5, <1>6 DEF ViewMove, ViewFields, Hosted, Early, Waiting
  <1> HIDE DEF Ch
  <1> QED
    BY <1>1, <1>4, <1>5, <1>7, <1>8, <1>9, <1>10, <1>11, Keeps

\* Bytes are sent.
LEMMA SendRawOk ==
  ASSUME NEW c, NEW r, NEW a, NEW f, Session(c, r, a, f), r.pc = "send", Len(r.down) < Window
  PROVE  Session(c, [r EXCEPT !.pc = "pump", !.down = Append(@, Raw(r.held))], a, f)
  <1> DEFINE n == [r EXCEPT !.pc = "pump", !.down = Append(@, Raw(r.held))]
             Ch == {"pc", "down"}
  <1> SUFFICES Session(c, n, a, f)
    OBVIOUS
  <1>1. Same(r, n, Ch) /\ n.pc = "pump" /\ n.down = Append(r.down, Raw(r.held))
    BY DEF Session, SessType, Same, SessFields
  <1> HIDE DEF n
  <1>2. SessType(r)
    BY DEF Session
  <1>3. /\ n.caller = r.caller /\ n.gone = r.gone /\ n.quit = r.quit /\ n.group = r.group
        /\ n.lost = r.lost /\ n.got = r.got /\ n.started = r.started /\ n.err = r.err
        /\ n.src = r.src /\ n.attached = r.attached /\ n.pos = r.pos /\ n.from = r.from
        /\ n.skipped = r.skipped /\ n.held = r.held /\ n.made = r.made /\ n.out = r.out
        /\ n.pending = r.pending /\ n.post = r.post /\ n.relay = r.relay /\ n.q = r.q
        /\ n.pin = r.pin /\ n.up = r.up /\ n.heard = r.heard /\ n.said = r.said
        /\ n.writer = r.writer
    BY <1>1 DEF Same, SessFields
  <1>4. r.started /\ n.started /\ r.held \in Nat /\ n.pc \in {"pump", "watch"}
    <2>1. r.started
      BY DEF Session, HeadOf
    <2> QED
      BY <1>1, <1>2, <1>3, <2>1, Typed
  <1>5. /\ HeadOf(n, a) /\ Count(n) = Count(r) + 1 /\ Count(r) \in Nat
        /\ Count(r) = Len(SentOf(r)) - 1 /\ Len(SentOf(r)) \in Nat /\ Len(SentOf(r)) > 0
        /\ Len(SentOf(n)) = Len(SentOf(r)) + 1
        /\ DOMAIN SentOf(r) = 1..Len(SentOf(r)) /\ DOMAIN SentOf(n) = 1..(Len(SentOf(r)) + 1)
        /\ \A i \in DOMAIN SentOf(r) : SentOf(n)[i] = SentOf(r)[i]
        /\ SentOf(n)[Len(SentOf(r)) + 1].n = r.held
        /\ Len(n.down) = Len(r.down) + 1 /\ Len(r.down) \in Nat /\ n.down \in Seq(Items)
    <2>1. HeadOf(r, a) /\ n.got = r.got /\ n.down = Append(r.down, Raw(r.held))
      BY <1>1, <1>3 DEF Session
    <2> QED
      BY <1>2, <1>4, <2>1, ChunkIs
  <1>6. HeadOf(n, a) /\ n.down \in Seq(Items)
    BY <1>5
  <1>7. Fits(n, Ch)
    BY <1>1, <1>6 DEF Fits, Places, Callings, Flags, Numbers, Queues, Streams
  <1>8. LifeOf(n, a)
    BY <1>1, <1>3 DEF Session, LifeOf, Waiting, Hosted
  <1>9. BytesOf(n)
    <2>1. CASE r.src.command # "host"
      <3>1. /\ Count(r) + InHand(r) + Len(r.out) = r.made /\ r.held = Count(r) + 1
            /\ \A i \in DOMAIN r.out : r.out[i] = Count(r) + InHand(r) + i
            /\ \A i \in 1..(Len(SentOf(r)) - 1) : SentOf(r)[i + 1].n = i
        BY <2>1 DEF Session, BytesOf
      <3>2. InHand(r) = 1 /\ InHand(n) = 0
        BY <1>1 DEF InHand
      <3>3. Count(n) + Len(n.out) = n.made
        BY <1>3, <1>5, <3>1, <3>2
      <3>4. \A i \in DOMAIN n.out : n.out[i] = Count(n) + 0 + i
        BY <1>3, <1>5, <3>1, <3>2
      <3>5. ASSUME NEW i \in 1..(Len(SentOf(n)) - 1) PROVE SentOf(n)[i + 1].n = i
        <4>1. i \in 1..Len(SentOf(r))
          BY <1>5
        <4>2. CASE i = Len(SentOf(r))
          BY <1>5, <3>1, <4>2
        <4>3. CASE i \in 1..(Len(SentOf(r)) - 1)
          <5>1. i + 1 \in DOMAIN SentOf(r)
            BY <1>5, <4>3
          <5> QED
            BY <1>5, <3>1, <4>3, <5>1
        <4> QED
          BY <1>5, <4>1, <4>2, <4>3
      <3>6. Count(n) > 0
        BY <1>5
      <3>7. Count(n) + InHand(n) + Len(n.out) = n.made
        BY <1>5, <3>2, <3>3
      <3> QED
        BY <1>1, <3>2, <3>4, <3>5, <3>6, <3>7 DEF BytesOf, Hosted
    <2>2. CASE r.src.command = "host"
      BY <1>1, <1>3, <2>2 DEF BytesOf, Hosted
    <2> QED
      BY <2>1, <2>2
  <1>10. KindOf(c, n)
    <2>1. Len(n.down) <= Window
      BY <1>5, BoundsAssumption
    <2> QED
      BY <1>1, <1>3, <2>1 DEF Session, KindOf
  <1>11. ViewOf(n, f)
    BY <1>1, <1>3 DEF Session, ViewOf, Hosted, Waiting
  <1>12. StreamMove(r, n, Ch)
    BY <1>1, <1>4, <1>6, <1>7, <1>8, <1>9, <1>10, <1>11 DEF StreamMove, StreamFields, Early, Waiting
  <1> HIDE DEF Ch
  <1> QED
    BY <1>1, <1>5, <1>6, <1>7, <1>8, <1>9, <1>10, <1>11, <1>12, Keeps

\* A handler returns without a word more.
LEMMA OverDone ==
  ASSUME NEW c, NEW r, NEW a, NEW f, Session(c, r, a, f), r.pc = "over", r.started \/ r.err
  PROVE  Session(c, [r EXCEPT !.pc = "done"], a, f)
  <1> DEFINE n == [r EXCEPT !.pc = "done"]
             Ch == {"pc"}
  <1> SUFFICES Session(c, n, a, f)
    OBVIOUS
  <1>1. Same(r, n, Ch) /\ n.pc = "done"
    BY DEF Session, SessType, Same, SessFields
  <1> HIDE DEF n
  <1>2. SessType(r)
    BY DEF Session
  <1>3. /\ n.caller = r.caller /\ n.gone = r.gone /\ n.quit = r.quit /\ n.group = r.group
        /\ n.lost = r.lost /\ n.got = r.got /\ n.down = r.down /\ n.started = r.started
        /\ n.err = r.err /\ n.src = r.src /\ n.attached = r.attached /\ n.pos = r.pos
        /\ n.from = r.from /\ n.skipped = r.skipped /\ n.held = r.held /\ n.made = r.made
        /\ n.out = r.out /\ n.pending = r.pending /\ n.post = r.post /\ n.relay = r.relay
        /\ n.q = r.q /\ n.pin = r.pin /\ n.up = r.up /\ n.heard = r.heard /\ n.said = r.said
        /\ n.writer = r.writer
    BY <1>1 DEF Same, SessFields
  <1>4. Fits(n, Ch)
    BY <1>1 DEF Fits, Places, Callings, Flags, Numbers, Queues, Streams
  <1>5. LifeOf(n, a)
    BY <1>1, <1>3 DEF Session, LifeOf, Waiting, Hosted
  <1>6. HeadOf(n, a)
    <2>1. SentOf(n) = SentOf(r)
      BY <1>3 DEF SentOf
    <2> QED
      BY <1>1, <1>3, <2>1 DEF Session, HeadOf, Waiting
  <1>7. BytesMove(r, n, Ch)
    BY <1>1, <1>4, <1>5, <1>6 DEF BytesMove, BytesFields
  <1>8. StreamMove(r, n, Ch)
    BY <1>1, <1>4, <1>5, <1>6 DEF StreamMove, StreamFields, Early, Waiting
  <1>9. KindMove(r, n, Ch)
    BY <1>1, <1>4, <1>5, <1>6 DEF KindMove, KindFields
  <1>10. ViewMove(r, n, Ch)
    BY <1>1, <1>4, <1>5, <1>6 DEF ViewMove, ViewFields, Hosted, Early, Waiting
  <1> HIDE DEF Ch
  <1> QED
    BY <1>1, <1>4, <1>5, <1>6, <1>7, <1>8, <1>9, <1>10, Keeps

\* The caller finished; the sender of stdin is dropped.
LEMMA HalfOk ==
  ASSUME NEW c, NEW r, NEW a, NEW f, Session(c, r, a, f)
  PROVE  Session(c, [r EXCEPT !.phase = "half", !.tx = FALSE], a, f)
  <1> DEFINE n == [r EXCEPT !.phase = "half", !.tx = FALSE]
             Ch == {"phase", "tx"}
  <1> SUFFICES Session(c, n, a, f)
    OBVIOUS
  <1>1. Same(r, n, Ch) /\ n.tx = FALSE /\ n.pc = r.pc
    BY DEF Session, SessType, Same, SessFields
  <1> HIDE DEF n
  <1>2. SessType(r)
    BY DEF Session
  <1>4. Fits(n, Ch)
    BY <1>1 DEF Fits, Places, Callings, Flags, Numbers, Queues, Streams
  <1>5. HeadMove(r, n, Ch)
    BY <1>1, <1>4 DEF HeadMove, HeadFields, Early, Waiting
  <1>6. BytesMove(r, n, Ch)
    BY <1>1, <1>4 DEF BytesMove, BytesFields
  <1>7. StreamMove(r, n, Ch)
    BY <1>1, <1>4 DEF StreamMove, StreamFields, Early, Waiting
  <1>8. KindMove(r, n, Ch)
    BY <1>1, <1>4 DEF KindMove, KindFields
  <1>9. ViewMove(r, n, Ch)
    BY <1>1, <1>4 DEF ViewMove, ViewFields, Hosted, Early, Waiting
  <1>10. Ch \cap LifeFields = {}
    BY DEF LifeFields
  <1> HIDE DEF Ch
  <1> QED
    BY <1>1, <1>4, <1>5, <1>6, <1>7, <1>8, <1>9, <1>10, Keeps

\* A chunk of the caller is read and dropped.
LEMMA RecvDropsOk ==
  ASSUME NEW c, NEW r, NEW a, NEW f, NEW tx, Session(c, r, a, f), r.up # <<>>, r.pc = "pump",
         tx \in BOOLEAN
  PROVE  Session(c, [r EXCEPT !.tx = tx, !.up = Tail(@)], a, f)
  <1> DEFINE n == [r EXCEPT !.tx = tx, !.up = Tail(@)]
             Ch == {"tx", "up"}
  <1> SUFFICES Session(c, n, a, f)
    OBVIOUS
  <1>1. Same(r, n, Ch) /\ n.tx = tx /\ n.up = Tail(r.up) /\ n.pc = r.pc
    BY DEF Session, SessType, Same, SessFields
  <1> HIDE DEF n
  <1>2. SessType(r)
    BY DEF Session
  <1>3. /\ n.caller = r.caller /\ n.gone = r.gone /\ n.quit = r.quit /\ n.group = r.group
        /\ n.lost = r.lost /\ n.got = r.got /\ n.down = r.down /\ n.started = r.started
        /\ n.err = r.err /\ n.src = r.src /\ n.attached = r.attached /\ n.pos = r.pos
        /\ n.from = r.from /\ n.skipped = r.skipped /\ n.held = r.held /\ n.made = r.made
        /\ n.out = r.out /\ n.pending = r.pending /\ n.post = r.post /\ n.relay = r.relay
        /\ n.q = r.q /\ n.pin = r.pin /\ n.heard = r.heard /\ n.said = r.said
        /\ n.writer = r.writer
    BY <1>1 DEF Same, SessFields
  <1>4. /\ Head(r.up) \in Nat /\ Tail(r.up) \in Seq(Nat) /\ Head(r.up) = r.up[1]
        /\ Len(Tail(r.up)) = Len(r.up) - 1 /\ Len(r.up) \in Nat /\ 1 \in DOMAIN r.up
        /\ \A i \in DOMAIN Tail(r.up) : i + 1 \in DOMAIN r.up /\ Tail(r.up)[i] = r.up[i + 1]
    <2>1. r.up \in Seq(Nat)
      BY <1>2, Typed
    <2> QED
      BY <2>1, TailIs
  <1>5. n.up \in Seq(Nat)
    BY <1>1, <1>4
  <1>6. Fits(n, Ch)
    BY <1>1, <1>5 DEF Fits, Places, Callings, Flags, Numbers, Queues, Streams
  <1>7. InOrder(Stages(n)) /\ UpTo(Stages(n), n.said)
    <2> DEFINE L == Stages(r)
               M == Stages(n)
    <2>1. AreStages(L) /\ InOrder(L) /\ UpTo(L, r.said) /\ r.said \in Nat
      BY <1>2, Typed, StagesType DEF Session, StreamOf
    <2>2. Except(L, M, {4})
      BY <1>1, <1>3, ExceptIs
    <2>3. /\ L[1] = r.heard /\ L[2] = r.pin /\ L[3] = r.q /\ L[4] = r.up /\ L[6] = r.post
          /\ M[1] = n.heard /\ M[2] = n.pin /\ M[3] = n.q /\ M[4] = n.up /\ M[6] = n.post
          /\ L[5] = Pending(r) /\ M[5] = Pending(n)
      BY StagesAre
    <2> HIDE DEF L, M
    <2>4. 4 \in 1..6 /\ L[4] # <<>> /\ M[4] = Tail(L[4])
      BY <1>1, <1>3, <2>3
    <2>7. InOrder(M) /\ UpTo(M, r.said)
      BY <2>1, <2>2, <2>4, Drops
    <2> QED
      BY <1>1, <1>3, <2>7 DEF M
  <1>8. StreamOf(n)
    <2>1. NoZero(n.up)
      BY <1>1, <1>4 DEF Session, StreamOf, NoZero
    <2> QED
      BY <1>1, <1>3, <1>7, <2>1 DEF Session, StreamOf, Waiting
  <1>9. KindOf(c, n)
    BY <1>1, <1>3, <1>4, BoundsAssumption DEF Session, KindOf
  <1>10. HeadMove(r, n, Ch)
    BY <1>1, <1>5, <1>6, <1>7, <1>8, <1>9 DEF HeadMove, HeadFields, Early, Waiting
  <1>11. BytesMove(r, n, Ch)
    BY <1>1, <1>5, <1>6, <1>7, <1>8, <1>9 DEF BytesMove, BytesFields
  <1>12. ViewMove(r, n, Ch)
    BY <1>1, <1>5, <1>6, <1>7, <1>8, <1>9 DEF ViewMove, ViewFields, Hosted, Early, Waiting
  <1>13. Ch \cap LifeFields = {}
    BY DEF LifeFields
  <1> HIDE DEF Ch
  <1> QED
    BY <1>1, <1>6, <1>8, <1>9, <1>10, <1>11, <1>12, <1>13, Keeps

\* ... or handed to the writer task.
LEMMA RecvTakesOk ==
  ASSUME NEW c, NEW r, NEW a, NEW f, Session(c, r, a, f), r.up # <<>>, r.pc = "pump", r.writer,
         Len(r.q) < StdinCap
  PROVE  Session(c, [r EXCEPT !.q = Append(@, Head(r.up)), !.up = Tail(r.up)], a, f)
  <1> DEFINE n == [r EXCEPT !.q = Append(@, Head(r.up)), !.up = Tail(r.up)]
             Ch == {"q", "up"}
  <1> SUFFICES Session(c, n, a, f)
    OBVIOUS
  <1>1. Same(r, n, Ch) /\ n.q = Append(r.q, Head(r.up)) /\ n.up = Tail(r.up) /\ n.pc = r.pc
    BY DEF Session, SessType, Same, SessFields
  <1> HIDE DEF n
  <1>2. SessType(r)
    BY DEF Session
  <1>3. /\ n.caller = r.caller /\ n.gone = r.gone /\ n.quit = r.quit /\ n.group = r.group
        /\ n.lost = r.lost /\ n.got = r.got /\ n.down = r.down /\ n.started = r.started
        /\ n.err = r.err /\ n.src = r.src /\ n.attached = r.attached /\ n.pos = r.pos
        /\ n.from = r.from /\ n.skipped = r.skipped /\ n.held = r.held /\ n.made = r.made
        /\ n.out = r.out /\ n.pending = r.pending /\ n.post = r.post /\ n.relay = r.relay
        /\ n.pin = r.pin /\ n.heard = r.heard /\ n.said = r.said /\ n.writer = r.writer
    BY <1>1 DEF Same, SessFields
  <1>4. /\ Head(r.up) \in Nat /\ Tail(r.up) \in Seq(Nat) /\ Head(r.up) = r.up[1]
        /\ Len(Tail(r.up)) = Len(r.up) - 1 /\ Len(r.up) \in Nat /\ 1 \in DOMAIN r.up
        /\ \A i \in DOMAIN Tail(r.up) : i + 1 \in DOMAIN r.up /\ Tail(r.up)[i] = r.up[i + 1]
    <2>1. r.up \in Seq(Nat)
      BY <1>2, Typed
    <2> QED
      BY <2>1, TailIs
  <1>5. /\ Append(r.q, Head(r.up)) \in Seq(Nat) /\ Len(Append(r.q, Head(r.up))) = Len(r.q) + 1
        /\ DOMAIN r.q = 1..Len(r.q) /\ DOMAIN Append(r.q, Head(r.up)) = 1..(Len(r.q) + 1)
        /\ Len(r.q) \in Nat /\ Append(r.q, Head(r.up))[Len(r.q) + 1] = Head(r.up)
        /\ \A i \in DOMAIN r.q : Append(r.q, Head(r.up))[i] = r.q[i]
    <2>1. r.q \in Seq(Nat) /\ Head(r.up) \in Nat
      BY <1>2, <1>4, Typed
    <2> QED
      BY <2>1, AppendIs
  <1>6. n.up \in Seq(Nat) /\ n.q \in Seq(Nat)
    BY <1>1, <1>4, <1>5
  <1>7. Fits(n, Ch)
    BY <1>1, <1>6 DEF Fits, Places, Callings, Flags, Numbers, Queues, Streams
  <1>8. Head(r.up) # 0 /\ NoZero(n.up) /\ NoZero(n.q)
    <2>1. NoZero(r.up) /\ NoZero(r.q)
      BY DEF Session, StreamOf
    <2>2. Head(r.up) # 0 /\ NoZero(n.up)
      BY <1>1, <1>4, <2>1 DEF NoZero
    <2>3. \A i \in DOMAIN n.q : i \in DOMAIN r.q \/ i = Len(r.q) + 1
      BY <1>1, <1>5
    <2> QED
      BY <1>1, <1>5, <2>1, <2>2, <2>3 DEF NoZero
  <1>9. InOrder(Stages(n)) /\ UpTo(Stages(n), n.said)
    <2> DEFINE L == Stages(r)
               M == Stages(n)
    <2>1. AreStages(L) /\ InOrder(L) /\ UpTo(L, r.said) /\ r.said \in Nat
      BY <1>2, Typed, StagesType DEF Session, StreamOf
    <2>2. Except(L, M, {3, 4})
      BY <1>1, <1>3, <1>8, ExceptIs
    <2>3. /\ L[1] = r.heard /\ L[2] = r.pin /\ L[3] = r.q /\ L[4] = r.up /\ L[6] = r.post
          /\ M[1] = n.heard /\ M[2] = n.pin /\ M[3] = n.q /\ M[4] = n.up /\ M[6] = n.post
          /\ L[5] = Pending(r) /\ M[5] = Pending(n)
      BY StagesAre
    <2> HIDE DEF L, M
    <2>4. /\ 3 \in 1..6 /\ 4 \in 1..6 /\ 3 < 4 /\ L[4] # <<>> /\ M[4] = Tail(L[4])
          /\ M[3] = Append(L[3], Head(L[4])) /\ Head(L[4]) # 0
      BY <1>1, <1>3, <1>8, <2>3
    <2>5. \A j \in 1..6 : 3 < j /\ j < 4 => L[j] = <<>>
      OBVIOUS
    <2>6. PassStep(L, M, 3, 4)
      BY <2>2, <2>4, <2>5 DEF PassStep
    <2>7. InOrder(M) /\ UpTo(M, r.said)
      <3> DEFINE v == r.said
      <3>1. AreStages(L) /\ InOrder(L) /\ UpTo(L, v) /\ v \in Nat
        BY <2>1
      <3> HIDE DEF v
      <3>2. InOrder(M) /\ UpTo(M, v)
        BY <2>6, <3>1, PassSteps
      <3> QED
        BY <3>2 DEF v
    <2> QED
      BY <1>1, <1>3, <2>7 DEF M
  <1>10. StreamOf(n)
    BY <1>1, <1>3, <1>8, <1>9 DEF Session, StreamOf, Waiting
  <1>11. KindOf(c, n)
    <2>1. Len(n.q) <= StdinCap
      BY <1>1, <1>5, BoundsAssumption
    <2>2. Len(n.up) <= Len(r.up) /\ Len(n.up) \in Nat /\ Len(r.up) \in Nat
      BY <1>1, <1>4
    <2>3. Len(n.up) <= IF c.kind = "local" THEN PostCap ELSE Window
      <3>1. Len(r.up) <= IF c.kind = "local" THEN PostCap ELSE Window
        BY DEF Session, KindOf
      <3> QED
        BY <2>2, <3>1, BoundsAssumption
    <2> QED
      BY <1>1, <1>3, <2>1, <2>3 DEF Session, KindOf
  <1>12. HeadMove(r, n, Ch)
    BY <1>1, <1>6, <1>7, <1>8, <1>9, <1>10, <1>11 DEF HeadMove, HeadFields, Early, Waiting
  <1>13. BytesMove(r, n, Ch)
    BY <1>1, <1>6, <1>7, <1>8, <1>9, <1>10, <1>11 DEF BytesMove, BytesFields
  <1>14. ViewMove(r, n, Ch)
    BY <1>1, <1>6, <1>7, <1>8, <1>9, <1>10, <1>11 DEF ViewMove, ViewFields, Hosted, Early, Waiting
  <1>15. Ch \cap LifeFields = {}
    BY DEF LifeFields
  <1> HIDE DEF Ch
  <1> QED
    BY <1>1, <1>7, <1>10, <1>11, <1>12, <1>13, <1>14, <1>15, Keeps

\* The writer task: into the pipe.
LEMMA WriteTakesOk ==
  ASSUME NEW c, NEW r, NEW a, NEW f, Session(c, r, a, f), r.q # <<>>, r.writer,
         Len(r.pin) < PipeCap
  PROVE  Session(c, [r EXCEPT !.pin = Append(@, Head(r.q)), !.q = Tail(@)], a, f)
  <1> DEFINE n == [r EXCEPT !.pin = Append(@, Head(r.q)), !.q = Tail(@)]
             Ch == {"q", "pin"}
  <1> SUFFICES Session(c, n, a, f)
    OBVIOUS
  <1>1. Same(r, n, Ch) /\ n.pin = Append(r.pin, Head(r.q)) /\ n.q = Tail(r.q) /\ n.pc = r.pc
    BY DEF Session, SessType, Same, SessFields
  <1> HIDE DEF n
  <1>2. SessType(r)
    BY DEF Session
  <1>3. /\ n.caller = r.caller /\ n.gone = r.gone /\ n.quit = r.quit /\ n.group = r.group
        /\ n.lost = r.lost /\ n.got = r.got /\ n.down = r.down /\ n.started = r.started
        /\ n.err = r.err /\ n.src = r.src /\ n.attached = r.attached /\ n.pos = r.pos
        /\ n.from = r.from /\ n.skipped = r.skipped /\ n.held = r.held /\ n.made = r.made
        /\ n.out = r.out /\ n.pending = r.pending /\ n.post = r.post /\ n.relay = r.relay
        /\ n.up = r.up /\ n.heard = r.heard /\ n.said = r.said /\ n.writer = r.writer
    BY <1>1 DEF Same, SessFields
  <1>4. /\ Head(r.q) \in Nat /\ Tail(r.q) \in Seq(Nat) /\ Head(r.q) = r.q[1]
        /\ Len(Tail(r.q)) = Len(r.q) - 1 /\ Len(r.q) \in Nat /\ 1 \in DOMAIN r.q
        /\ \A i \in DOMAIN Tail(r.q) : i + 1 \in DOMAIN r.q /\ Tail(r.q)[i] = r.q[i + 1]
    <2>1. r.q \in Seq(Nat)
      BY <1>2, Typed
    <2> QED
      BY <2>1, TailIs
  <1>5. /\ Append(r.pin, Head(r.q)) \in Seq(Nat) /\ Len(Append(r.pin, Head(r.q))) = Len(r.pin) + 1
        /\ DOMAIN r.pin = 1..Len(r.pin) /\ DOMAIN Append(r.pin, Head(r.q)) = 1..(Len(r.pin) + 1)
        /\ Len(r.pin) \in Nat /\ Append(r.pin, Head(r.q))[Len(r.pin) + 1] = Head(r.q)
        /\ \A i \in DOMAIN r.pin : Append(r.pin, Head(r.q))[i] = r.pin[i]
    <2>1. r.pin \in Seq(Nat) /\ Head(r.q) \in Nat
      BY <1>2, <1>4, Typed
    <2> QED
      BY <2>1, AppendIs
  <1>6. n.q \in Seq(Nat) /\ n.pin \in Seq(Nat)
    BY <1>1, <1>4, <1>5
  <1>7. Fits(n, Ch)
    BY <1>1, <1>6 DEF Fits, Places, Callings, Flags, Numbers, Queues, Streams
  <1>8. Head(r.q) # 0 /\ NoZero(n.q) /\ NoZero(n.pin)
    <2>1. NoZero(r.q) /\ NoZero(r.pin)
      BY DEF Session, StreamOf
    <2>2. Head(r.q) # 0 /\ NoZero(n.q)
      BY <1>1, <1>4, <2>1 DEF NoZero
    <2>3. \A i \in DOMAIN n.pin : i \in DOMAIN r.pin \/ i = Len(r.pin) + 1
      BY <1>1, <1>5
    <2> QED
      BY <1>1, <1>5, <2>1, <2>2, <2>3 DEF NoZero
  <1>9. InOrder(Stages(n)) /\ UpTo(Stages(n), n.said)
    <2> DEFINE L == Stages(r)
               M == Stages(n)
    <2>1. AreStages(L) /\ InOrder(L) /\ UpTo(L, r.said) /\ r.said \in Nat
      BY <1>2, Typed, StagesType DEF Session, StreamOf
    <2>2. Except(L, M, {2, 3})
      BY <1>1, <1>3, <1>8, ExceptIs
    <2>3. /\ L[1] = r.heard /\ L[2] = r.pin /\ L[3] = r.q /\ L[4] = r.up /\ L[6] = r.post
          /\ M[1] = n.heard /\ M[2] = n.pin /\ M[3] = n.q /\ M[4] = n.up /\ M[6] = n.post
          /\ L[5] = Pending(r) /\ M[5] = Pending(n)
      BY StagesAre
    <2> HIDE DEF L, M
    <2>4. /\ 2 \in 1..6 /\ 3 \in 1..6 /\ 2 < 3 /\ L[3] # <<>> /\ M[3] = Tail(L[3])
          /\ M[2] = Append(L[2], Head(L[3])) /\ Head(L[3]) # 0
      BY <1>1, <1>3, <1>8, <2>3
    <2>5. \A j \in 1..6 : 2 < j /\ j < 3 => L[j] = <<>>
      OBVIOUS
    <2>6. PassStep(L, M, 2, 3)
      BY <2>2, <2>4, <2>5 DEF PassStep
    <2>7. InOrder(M) /\ UpTo(M, r.said)
      <3> DEFINE v == r.said
      <3>1. AreStages(L) /\ InOrder(L) /\ UpTo(L, v) /\ v \in Nat
        BY <2>1
      <3> HIDE DEF v
      <3>2. InOrder(M) /\ UpTo(M, v)
        BY <2>6, <3>1, PassSteps
      <3> QED
        BY <3>2 DEF v
    <2> QED
      BY <1>1, <1>3, <2>7 DEF M
  <1>10. StreamOf(n)
    BY <1>1, <1>3, <1>8, <1>9 DEF Session, StreamOf, Waiting
  <1>11. KindOf(c, n)
    BY <1>1, <1>3, <1>4, <1>5, BoundsAssumption DEF Session, KindOf
  <1>12. HeadMove(r, n, Ch)
    BY <1>1, <1>6, <1>7, <1>8, <1>9, <1>10, <1>11 DEF HeadMove, HeadFields, Early, Waiting
  <1>13. BytesMove(r, n, Ch)
    BY <1>1, <1>6, <1>7, <1>8, <1>9, <1>10, <1>11 DEF BytesMove, BytesFields
  <1>14. ViewMove(r, n, Ch)
    BY <1>1, <1>6, <1>7, <1>8, <1>9, <1>10, <1>11 DEF ViewMove, ViewFields, Hosted, Early, Waiting
  <1>15. Ch \cap LifeFields = {}
    BY DEF LifeFields
  <1> HIDE DEF Ch
  <1> QED
    BY <1>1, <1>7, <1>10, <1>11, <1>12, <1>13, <1>14, <1>15, Keeps

\* ... which fails once the source is gone ...
LEMMA WriterFailsOk ==
  ASSUME NEW c, NEW r, NEW a, NEW f, Session(c, r, a, f), r.writer
  PROVE  Session(c, [r EXCEPT !.writer = FALSE, !.q = <<>>], a, f)
  <1> DEFINE n == [r EXCEPT !.writer = FALSE, !.q = <<>>]
             Ch == {"writer", "q"}
  <1> SUFFICES Session(c, n, a, f)
    OBVIOUS
  <1>1. Same(r, n, Ch) /\ n.writer = FALSE /\ n.q = <<>> /\ n.pc = r.pc
    BY DEF Session, SessType, Same, SessFields
  <1> HIDE DEF n
  <1>2. SessType(r)
    BY DEF Session
  <1>3. /\ n.caller = r.caller /\ n.gone = r.gone /\ n.quit = r.quit /\ n.group = r.group
        /\ n.lost = r.lost /\ n.got = r.got /\ n.down = r.down /\ n.started = r.started
        /\ n.err = r.err /\ n.src = r.src /\ n.attached = r.attached /\ n.pos = r.pos
        /\ n.from = r.from /\ n.skipped = r.skipped /\ n.held = r.held /\ n.made = r.made
        /\ n.out = r.out /\ n.pending = r.pending /\ n.post = r.post /\ n.relay = r.relay
        /\ n.pin = r.pin /\ n.up = r.up /\ n.heard = r.heard /\ n.said = r.said
    BY <1>1 DEF Same, SessFields
  <1>4. Len(n.q) = 0 /\ n.q \in Seq(Nat)
    BY <1>1
  <1>5. Fits(n, Ch)
    BY <1>1, <1>4 DEF Fits, Places, Callings, Flags, Numbers, Queues, Streams
  <1>6. InOrder(Stages(n)) /\ UpTo(Stages(n), n.said)
    <2> DEFINE L == Stages(r)
               M == Stages(n)
    <2>1. AreStages(L) /\ InOrder(L) /\ UpTo(L, r.said) /\ r.said \in Nat
      BY <1>2, Typed, StagesType DEF Session, StreamOf
    <2>2. Except(L, M, {3})
      BY <1>1, <1>3, ExceptIs
    <2>3. /\ L[1] = r.heard /\ L[2] = r.pin /\ L[3] = r.q /\ L[4] = r.up /\ L[6] = r.post
          /\ M[1] = n.heard /\ M[2] = n.pin /\ M[3] = n.q /\ M[4] = n.up /\ M[6] = n.post
          /\ L[5] = Pending(r) /\ M[5] = Pending(n)
      BY StagesAre
    <2> HIDE DEF L, M
    <2>4. 3 \in 1..6 /\ M[3] = <<>>
      BY <1>1, <1>3, <2>3
    <2>7. InOrder(M) /\ UpTo(M, r.said)
      BY <2>1, <2>2, <2>4, Drops
    <2> QED
      BY <1>1, <1>3, <2>7 DEF M
  <1>7. StreamOf(n)
    BY <1>1, <1>3, <1>6 DEF Session, StreamOf, Waiting, NoZero
  <1>8. KindOf(c, n)
    BY <1>1, <1>3, <1>4, BoundsAssumption DEF Session, KindOf
  <1>9. HeadMove(r, n, Ch)
    BY <1>1, <1>4, <1>5, <1>6, <1>7, <1>8 DEF HeadMove, HeadFields, Early, Waiting
  <1>10. BytesMove(r, n, Ch)
    BY <1>1, <1>4, <1>5, <1>6, <1>7, <1>8 DEF BytesMove, BytesFields
  <1>11. ViewMove(r, n, Ch)
    BY <1>1, <1>4, <1>5, <1>6, <1>7, <1>8 DEF ViewMove, ViewFields, Hosted, Early, Waiting
  <1>12. Ch \cap LifeFields = {}
    BY DEF LifeFields
  <1> HIDE DEF Ch
  <1> QED
    BY <1>1, <1>5, <1>7, <1>8, <1>9, <1>10, <1>11, <1>12, Keeps

\* ... and ends when all is written.
LEMMA WriterEndsOk ==
  ASSUME NEW c, NEW r, NEW a, NEW f, Session(c, r, a, f), r.writer, r.q = <<>>
  PROVE  Session(c, [r EXCEPT !.writer = FALSE], a, f)
  <1> DEFINE n == [r EXCEPT !.writer = FALSE]
             Ch == {"writer"}
  <1> SUFFICES Session(c, n, a, f)
    OBVIOUS
  <1>1. Same(r, n, Ch) /\ n.writer = FALSE /\ n.pc = r.pc
    BY DEF Session, SessType, Same, SessFields
  <1> HIDE DEF n
  <1>2. SessType(r)
    BY DEF Session
  <1>3. /\ n.caller = r.caller /\ n.gone = r.gone /\ n.quit = r.quit /\ n.group = r.group
        /\ n.lost = r.lost /\ n.got = r.got /\ n.down = r.down /\ n.started = r.started
        /\ n.err = r.err /\ n.src = r.src /\ n.attached = r.attached /\ n.pos = r.pos
        /\ n.from = r.from /\ n.skipped = r.skipped /\ n.held = r.held /\ n.made = r.made
        /\ n.out = r.out /\ n.pending = r.pending /\ n.post = r.post /\ n.relay = r.relay
        /\ n.q = r.q /\ n.pin = r.pin /\ n.up = r.up /\ n.heard = r.heard /\ n.said = r.said
    BY <1>1 DEF Same, SessFields
  <1>4. Fits(n, Ch)
    BY <1>1 DEF Fits, Places, Callings, Flags, Numbers, Queues, Streams
  <1>5. StreamOf(n)
    <2>1. Stages(n) = Stages(r)
      BY <1>3 DEF Stages, Pending
    <2> QED
      BY <1>1, <1>3, <2>1 DEF Session, StreamOf, Waiting
  <1>6. HeadMove(r, n, Ch)
    BY <1>1, <1>4, <1>5 DEF HeadMove, HeadFields, Early, Waiting
  <1>7. BytesMove(r, n, Ch)
    BY <1>1, <1>4, <1>5 DEF BytesMove, BytesFields
  <1>8. KindMove(r, n, Ch)
    BY <1>1, <1>4, <1>5 DEF KindMove, KindFields
  <1>9. ViewMove(r, n, Ch)
    BY <1>1, <1>4, <1>5 DEF ViewMove, ViewFields, Hosted, Early, Waiting
  <1>10. Ch \cap LifeFields = {}
    BY DEF LifeFields
  <1> HIDE DEF Ch
  <1> QED
    BY <1>1, <1>4, <1>5, <1>6, <1>7, <1>8, <1>9, <1>10, Keeps

\* What the source does: it forks or exits ...
LEMMA GroupOk ==
  ASSUME NEW c, NEW r, NEW a, NEW f, NEW at, NEW group, Session(c, r, a, f), r.group # {}
  PROVE  Session(c, [r EXCEPT !.at = at, !.group = group], a, f)
  <1> DEFINE n == [r EXCEPT !.at = at, !.group = group]
             Ch == {"at", "group"}
  <1> SUFFICES Session(c, n, a, f)
    OBVIOUS
  <1>1. Same(r, n, Ch) /\ n.pc = r.pc
    BY DEF Session, SessType, Same, SessFields
  <1> HIDE DEF n
  <1>2. SessType(r)
    BY DEF Session
  <1>3. /\ n.caller = r.caller /\ n.gone = r.gone /\ n.quit = r.quit /\ n.lost = r.lost
        /\ n.got = r.got /\ n.down = r.down /\ n.started = r.started /\ n.err = r.err
        /\ n.src = r.src /\ n.attached = r.attached /\ n.pos = r.pos /\ n.from = r.from
        /\ n.skipped = r.skipped /\ n.held = r.held /\ n.made = r.made /\ n.out = r.out
        /\ n.pending = r.pending /\ n.post = r.post /\ n.relay = r.relay /\ n.q = r.q
        /\ n.pin = r.pin /\ n.up = r.up /\ n.heard = r.heard /\ n.said = r.said
        /\ n.writer = r.writer
    BY <1>1 DEF Same, SessFields
  <1>4. Fits(n, Ch)
    BY <1>1 DEF Fits, Places, Callings, Flags, Numbers, Queues, Streams
  <1>5. LifeOf(n, a)
    BY <1>1, <1>3 DEF Session, LifeOf, Waiting, Hosted
  <1>6. HeadMove(r, n, Ch)
    BY <1>1, <1>4, <1>5 DEF HeadMove, HeadFields, Early, Waiting
  <1>7. BytesMove(r, n, Ch)
    BY <1>1, <1>4, <1>5 DEF BytesMove, BytesFields
  <1>8. StreamMove(r, n, Ch)
    BY <1>1, <1>4, <1>5 DEF StreamMove, StreamFields, Early, Waiting
  <1>9. KindMove(r, n, Ch)
    BY <1>1, <1>4, <1>5 DEF KindMove, KindFields
  <1>10. ViewMove(r, n, Ch)
    BY <1>1, <1>4, <1>5 DEF ViewMove, ViewFields, Hosted, Early, Waiting
  <1> HIDE DEF Ch
  <1> QED
    BY <1>1, <1>4, <1>5, <1>6, <1>7, <1>8, <1>9, <1>10, Keeps

\* ... writes ...
LEMMA SourceOutOk ==
  ASSUME NEW c, NEW r, NEW a, NEW f, NEW at, Session(c, r, a, f), r.group # {},
         Len(r.out) < PipeCap
  PROVE  Session(c, [r EXCEPT !.at = at, !.out = Append(@, r.made + 1), !.made = @ + 1], a, f)
  <1> DEFINE n == [r EXCEPT !.at = at, !.out = Append(@, r.made + 1), !.made = @ + 1]
             Ch == {"at", "out", "made"}
  <1> SUFFICES Session(c, n, a, f)
    OBVIOUS
  <1>1. /\ Same(r, n, Ch) /\ n.out = Append(r.out, r.made + 1) /\ n.made = r.made + 1
        /\ n.pc = r.pc
    BY DEF Session, SessType, Same, SessFields
  <1> HIDE DEF n
  <1>2. SessType(r)
    BY DEF Session
  <1>3. /\ n.caller = r.caller /\ n.gone = r.gone /\ n.quit = r.quit /\ n.group = r.group
        /\ n.lost = r.lost /\ n.got = r.got /\ n.down = r.down /\ n.started = r.started
        /\ n.err = r.err /\ n.src = r.src /\ n.attached = r.attached /\ n.pos = r.pos
        /\ n.from = r.from /\ n.skipped = r.skipped /\ n.held = r.held /\ n.pending = r.pending
        /\ n.post = r.post /\ n.relay = r.relay /\ n.q = r.q /\ n.pin = r.pin /\ n.up = r.up
        /\ n.heard = r.heard /\ n.said = r.said /\ n.writer = r.writer
    BY <1>1 DEF Same, SessFields
  <1>4. /\ Append(r.out, (r.made + 1)) \in Seq(Nat) /\ Len(Append(r.out, (r.made + 1))) = Len(r.out) + 1
        /\ DOMAIN r.out = 1..Len(r.out) /\ DOMAIN Append(r.out, (r.made + 1)) = 1..(Len(r.out) + 1)
        /\ Len(r.out) \in Nat /\ Append(r.out, (r.made + 1))[Len(r.out) + 1] = (r.made + 1)
        /\ \A i \in DOMAIN r.out : Append(r.out, (r.made + 1))[i] = r.out[i]
    <2>1. r.out \in Seq(Nat) /\ (r.made + 1) \in Nat
      BY <1>2, Typed
    <2> QED
      BY <2>1, AppendIs
  <1>5. n.made \in Nat /\ n.out \in Seq(Nat) /\ r.made \in Nat
    BY <1>1, <1>2, <1>4, Typed
  <1>6. Fits(n, Ch)
    BY <1>1, <1>5 DEF Fits, Places, Callings, Flags, Numbers, Queues, Streams
  <1>7. r.pc \notin Early
    BY DEF Session, LifeOf, Waiting, Hosted, Early
  <1>8. BytesOf(n)
    <2>1. SentOf(n) = SentOf(r) /\ Count(n) = Count(r) /\ InHand(n) = InHand(r)
      BY <1>1, <1>3 DEF SentOf, Count, InHand
    <2>2. Count(r) \in Int /\ InHand(r) \in Int
      <3>1. r.got \in Seq(Items) /\ r.down \in Seq(Items)
        BY <1>2, Typed
      <3>2. SentOf(r) \in Seq(Items)
        BY <3>1, ConcatProperties DEF SentOf
      <3>3. Len(SentOf(r)) \in Nat
        BY <3>2, LenProperties
      <3> QED
        BY <3>3 DEF Count, InHand
    <2>3. CASE r.src.command # "host" /\ r.pc \in {"open", "header", "pump", "send"}
      <3>1. /\ Count(r) + InHand(r) + Len(r.out) = r.made
            /\ \A i \in DOMAIN r.out : r.out[i] = Count(r) + InHand(r) + i
        BY <2>3 DEF Session, BytesOf
      <3>2. Count(n) + InHand(n) + Len(n.out) = n.made
        BY <1>1, <1>4, <1>5, <2>1, <2>2, <3>1
      <3>3. \A i \in DOMAIN n.out : i \in DOMAIN r.out \/ i = Len(r.out) + 1
        BY <1>1, <1>4
      <3>4. \A i \in DOMAIN n.out : n.out[i] = Count(n) + InHand(n) + i
        BY <1>1, <1>4, <1>5, <2>1, <2>2, <3>1, <3>3
      <3> QED
        BY <1>1, <1>3, <2>1, <2>3, <3>2, <3>4 DEF Session, BytesOf, Hosted
    <2>4. CASE ~(r.src.command # "host" /\ r.pc \in {"open", "header", "pump", "send"})
      BY <1>1, <1>3, <2>1, <2>4 DEF Session, BytesOf, Hosted
    <2> QED
      BY <2>3, <2>4
  <1>9. KindOf(c, n)
    BY <1>1, <1>3, <1>4, BoundsAssumption DEF Session, KindOf
  <1>10. HeadMove(r, n, Ch)
    BY <1>1, <1>5, <1>6, <1>7, <1>8, <1>9 DEF HeadMove, HeadFields, Early, Waiting
  <1>11. StreamMove(r, n, Ch)
    BY <1>1, <1>5, <1>6, <1>7, <1>8, <1>9 DEF StreamMove, StreamFields, Early, Waiting
  <1>12. ViewMove(r, n, Ch)
    BY <1>1, <1>5, <1>6, <1>7, <1>8, <1>9 DEF ViewMove, ViewFields, Hosted, Early, Waiting
  <1>13. Ch \cap LifeFields = {}
    BY DEF LifeFields
  <1> HIDE DEF Ch
  <1> QED
    BY <1>1, <1>6, <1>8, <1>9, <1>10, <1>11, <1>12, <1>13, Keeps

\* ... reads ...
LEMMA SourceInOk ==
  ASSUME NEW c, NEW r, NEW a, NEW f, NEW at, Session(c, r, a, f), r.pin # <<>>
  PROVE  Session(c, [r EXCEPT !.at = at, !.heard = Append(@, Head(r.pin)), !.pin = Tail(@)], a, f)
  <1> DEFINE n == [r EXCEPT !.at = at, !.heard = Append(@, Head(r.pin)), !.pin = Tail(@)]
             Ch == {"at", "heard", "pin"}
  <1> SUFFICES Session(c, n, a, f)
    OBVIOUS
  <1>1. /\ Same(r, n, Ch) /\ n.heard = Append(r.heard, Head(r.pin)) /\ n.pin = Tail(r.pin)
        /\ n.pc = r.pc
    BY DEF Session, SessType, Same, SessFields
  <1> HIDE DEF n
  <1>2. SessType(r)
    BY DEF Session
  <1>3. /\ n.caller = r.caller /\ n.gone = r.gone /\ n.quit = r.quit /\ n.group = r.group
        /\ n.lost = r.lost /\ n.got = r.got /\ n.down = r.down /\ n.started = r.started
        /\ n.err = r.err /\ n.src = r.src /\ n.attached = r.attached /\ n.pos = r.pos
        /\ n.from = r.from /\ n.skipped = r.skipped /\ n.held = r.held /\ n.made = r.made
        /\ n.out = r.out /\ n.pending = r.pending /\ n.post = r.post /\ n.relay = r.relay
        /\ n.q = r.q /\ n.up = r.up /\ n.said = r.said /\ n.writer = r.writer
    BY <1>1 DEF Same, SessFields
  <1>4. /\ Head(r.pin) \in Nat /\ Tail(r.pin) \in Seq(Nat) /\ Head(r.pin) = r.pin[1]
        /\ Len(Tail(r.pin)) = Len(r.pin) - 1 /\ Len(r.pin) \in Nat /\ 1 \in DOMAIN r.pin
        /\ \A i \in DOMAIN Tail(r.pin) : i + 1 \in DOMAIN r.pin /\ Tail(r.pin)[i] = r.pin[i + 1]
    <2>1. r.pin \in Seq(Nat)
      BY <1>2, Typed
    <2> QED
      BY <2>1, TailIs
  <1>5. /\ Append(r.heard, Head(r.pin)) \in Seq(Nat) /\ Len(Append(r.heard, Head(r.pin))) = Len(r.heard) + 1
        /\ DOMAIN r.heard = 1..Len(r.heard) /\ DOMAIN Append(r.heard, Head(r.pin)) = 1..(Len(r.heard) + 1)
        /\ Len(r.heard) \in Nat /\ Append(r.heard, Head(r.pin))[Len(r.heard) + 1] = Head(r.pin)
        /\ \A i \in DOMAIN r.heard : Append(r.heard, Head(r.pin))[i] = r.heard[i]
    <2>1. r.heard \in Seq(Nat) /\ Head(r.pin) \in Nat
      BY <1>2, <1>4, Typed
    <2> QED
      BY <2>1, AppendIs
  <1>6. n.pin \in Seq(Nat) /\ n.heard \in Seq(Nat)
    BY <1>1, <1>4, <1>5
  <1>7. Fits(n, Ch)
    BY <1>1, <1>6 DEF Fits, Places, Callings, Flags, Numbers, Queues, Streams
  <1>8. Head(r.pin) # 0 /\ NoZero(n.pin) /\ NoZero(n.heard)
    <2>1. NoZero(r.pin) /\ NoZero(r.heard)
      BY DEF Session, StreamOf, NoZero
    <2>2. Head(r.pin) # 0 /\ NoZero(n.pin)
      BY <1>1, <1>4, <2>1 DEF NoZero
    <2>3. \A i \in DOMAIN n.heard : i \in DOMAIN r.heard \/ i = Len(r.heard) + 1
      BY <1>1, <1>5
    <2> QED
      BY <1>1, <1>5, <2>1, <2>2, <2>3 DEF NoZero
  <1>9. InOrder(Stages(n)) /\ UpTo(Stages(n), n.said)
    <2> DEFINE L == Stages(r)
               M == Stages(n)
    <2>1. AreStages(L) /\ InOrder(L) /\ UpTo(L, r.said) /\ r.said \in Nat
      BY <1>2, Typed, StagesType DEF Session, StreamOf
    <2>2. Except(L, M, {1, 2})
      BY <1>1, <1>3, <1>8, ExceptIs
    <2>3. /\ L[1] = r.heard /\ L[2] = r.pin /\ L[3] = r.q /\ L[4] = r.up /\ L[6] = r.post
          /\ M[1] = n.heard /\ M[2] = n.pin /\ M[3] = n.q /\ M[4] = n.up /\ M[6] = n.post
          /\ L[5] = Pending(r) /\ M[5] = Pending(n)
      BY StagesAre
    <2> HIDE DEF L, M
    <2>4. /\ 1 \in 1..6 /\ 2 \in 1..6 /\ 1 < 2 /\ L[2] # <<>> /\ M[2] = Tail(L[2])
          /\ M[1] = Append(L[1], Head(L[2])) /\ Head(L[2]) # 0
      BY <1>1, <1>3, <1>8, <2>3
    <2>5. \A j \in 1..6 : 1 < j /\ j < 2 => L[j] = <<>>
      OBVIOUS
    <2>6. PassStep(L, M, 1, 2)
      BY <2>2, <2>4, <2>5 DEF PassStep
    <2>7. InOrder(M) /\ UpTo(M, r.said)
      <3> DEFINE v == r.said
      <3>1. AreStages(L) /\ InOrder(L) /\ UpTo(L, v) /\ v \in Nat
        BY <2>1
      <3> HIDE DEF v
      <3>2. InOrder(M) /\ UpTo(M, v)
        BY <2>6, <3>1, PassSteps
      <3> QED
        BY <3>2 DEF v
    <2> QED
      BY <1>1, <1>3, <2>7 DEF M
  <1>10. StreamOf(n)
    BY <1>1, <1>3, <1>8, <1>9 DEF Session, StreamOf, Waiting, NoZero
  <1>11. KindOf(c, n)
    BY <1>1, <1>3, <1>4, <1>5, BoundsAssumption DEF Session, KindOf
  <1>12. HeadMove(r, n, Ch)
    BY <1>1, <1>6, <1>7, <1>8, <1>9, <1>10, <1>11 DEF HeadMove, HeadFields, Early, Waiting
  <1>13. BytesMove(r, n, Ch)
    BY <1>1, <1>6, <1>7, <1>8, <1>9, <1>10, <1>11 DEF BytesMove, BytesFields
  <1>14. ViewMove(r, n, Ch)
    BY <1>1, <1>6, <1>7, <1>8, <1>9, <1>10, <1>11 DEF ViewMove, ViewFields, Hosted, Early, Waiting
  <1>15. Ch \cap LifeFields = {}
    BY DEF LifeFields
  <1> HIDE DEF Ch
  <1> QED
    BY <1>1, <1>7, <1>10, <1>11, <1>12, <1>13, <1>14, <1>15, Keeps

\* ... or reads the end of its stdin.
LEMMA SourceEofOk ==
  ASSUME NEW c, NEW r, NEW a, NEW f, NEW at, Session(c, r, a, f), r.group # {}, r.pin = <<>>,
         ~r.writer
  PROVE  Session(c, [r EXCEPT !.at = at, !.heard = Append(@, 0)], a, f)
  <1> DEFINE n == [r EXCEPT !.at = at, !.heard = Append(@, 0)]
             Ch == {"at", "heard"}
  <1> SUFFICES Session(c, n, a, f)
    OBVIOUS
  <1>1. Same(r, n, Ch) /\ n.heard = Append(r.heard, 0) /\ n.pc = r.pc
    BY DEF Session, SessType, Same, SessFields
  <1> HIDE DEF n
  <1>2. SessType(r)
    BY DEF Session
  <1>3. /\ n.caller = r.caller /\ n.gone = r.gone /\ n.quit = r.quit /\ n.group = r.group
        /\ n.lost = r.lost /\ n.got = r.got /\ n.down = r.down /\ n.started = r.started
        /\ n.err = r.err /\ n.src = r.src /\ n.attached = r.attached /\ n.pos = r.pos
        /\ n.from = r.from /\ n.skipped = r.skipped /\ n.held = r.held /\ n.made = r.made
        /\ n.out = r.out /\ n.pending = r.pending /\ n.post = r.post /\ n.relay = r.relay
        /\ n.q = r.q /\ n.pin = r.pin /\ n.up = r.up /\ n.said = r.said /\ n.writer = r.writer
    BY <1>1 DEF Same, SessFields
  <1>4. /\ Append(r.heard, 0) \in Seq(Nat) /\ Len(Append(r.heard, 0)) = Len(r.heard) + 1
        /\ DOMAIN r.heard = 1..Len(r.heard) /\ DOMAIN Append(r.heard, 0) = 1..(Len(r.heard) + 1)
        /\ Len(r.heard) \in Nat /\ Append(r.heard, 0)[Len(r.heard) + 1] = 0
        /\ \A i \in DOMAIN r.heard : Append(r.heard, 0)[i] = r.heard[i]
    <2>1. r.heard \in Seq(Nat) /\ 0 \in Nat
      BY <1>2, Typed
    <2> QED
      BY <2>1, AppendIs
  <1>5. n.heard \in Seq(Nat)
    BY <1>1, <1>4
  <1>6. Fits(n, Ch)
    BY <1>1, <1>5 DEF Fits, Places, Callings, Flags, Numbers, Queues, Streams
  <1>7. r.pc \notin Early
    BY DEF Session, LifeOf, Waiting, Hosted, Early
  <1>8. InOrder(Stages(n)) /\ UpTo(Stages(n), n.said)
    <2> DEFINE L == Stages(r)
               M == Stages(n)
    <2>1. AreStages(L) /\ InOrder(L) /\ UpTo(L, r.said) /\ r.said \in Nat
      BY <1>2, Typed, StagesType DEF Session, StreamOf
    <2>2. Except(L, M, {1})
      BY <1>1, <1>3, ExceptIs
    <2>3. /\ L[1] = r.heard /\ L[2] = r.pin /\ L[3] = r.q /\ L[4] = r.up /\ L[6] = r.post
          /\ M[1] = n.heard /\ M[2] = n.pin /\ M[3] = n.q /\ M[4] = n.up /\ M[6] = n.post
          /\ L[5] = Pending(r) /\ M[5] = Pending(n)
      BY StagesAre
    <2> HIDE DEF L, M
    <2>4. 1 \in 1..6 /\ M[1] = Append(L[1], 0)
      BY <1>1, <1>3, <2>3
    <2>7. InOrder(M) /\ UpTo(M, r.said)
      BY <2>1, <2>2, <2>4, EntersZero
    <2> QED
      BY <1>1, <1>3, <2>7 DEF M
  <1>9. \A i \in DOMAIN n.heard : n.heard[i] = 0 => \A j \in DOMAIN n.heard : j > i => n.heard[j] = 0
    <2> SUFFICES ASSUME NEW i \in DOMAIN n.heard, n.heard[i] = 0, NEW j \in DOMAIN n.heard, j > i
                 PROVE  n.heard[j] = 0
      OBVIOUS
    <2>1. CASE j = Len(r.heard) + 1
      BY <1>1, <1>4, <2>1
    <2>2. CASE j \in DOMAIN r.heard
      <3>1. i \in DOMAIN r.heard
        BY <1>1, <1>4, <2>2
      <3>2. r.heard[i] = 0 /\ n.heard[j] = r.heard[j]
        BY <1>1, <1>4, <2>2, <3>1
      <3> QED
        BY <2>2, <3>1, <3>2 DEF Session, StreamOf
    <2> QED
      BY <1>1, <1>4, <2>1, <2>2
  <1>10. StreamOf(n)
    BY <1>1, <1>3, <1>7, <1>8, <1>9 DEF Session, StreamOf, Waiting, Early
  <1>11. HeadMove(r, n, Ch)
    BY <1>1, <1>5, <1>6, <1>7, <1>8, <1>10 DEF HeadMove, HeadFields, Early, Waiting
  <1>12. BytesMove(r, n, Ch)
    BY <1>1, <1>5, <1>6, <1>7, <1>8, <1>10 DEF BytesMove, BytesFields
  <1>13. KindMove(r, n, Ch)
    BY <1>1, <1>5, <1>6, <1>7, <1>8, <1>10 DEF KindMove, KindFields
  <1>14. ViewMove(r, n, Ch)
    BY <1>1, <1>5, <1>6, <1>7, <1>8, <1>10 DEF ViewMove, ViewFields, Hosted, Early, Waiting
  <1>15. Ch \cap LifeFields = {}
    BY DEF LifeFields
  <1> HIDE DEF Ch
  <1> QED
    BY <1>1, <1>6, <1>10, <1>11, <1>12, <1>13, <1>14, <1>15, Keeps

\* A feed that only grows changes nothing for a session.
LEMMA FeedsGrow ==
  ASSUME NEW c, NEW r, NEW a, NEW f, NEW g, Session(c, r, a, f),
         \A i \in DOMAIN f : /\ i \in DOMAIN g /\ f[i].head \in Nat /\ g[i].head \in Nat
                             /\ f[i].head <= g[i].head
  PROVE  Session(c, r, a, g)
  <1>1. r.pos \in Nat
    BY Typed DEF Session
  <1>2. ViewOf(r, g)
    BY <1>1 DEF Session, ViewOf
  <1> QED
    BY <1>2 DEF Session

\* A viewer joins a host feed at its live edge ...
LEMMA SubscribeOk ==
  ASSUME NEW c, NEW r, NEW a, NEW f, NEW i, NEW h, Session(c, r, a, f), r.pc = "open",
         r.src.command = "host", i \in DOMAIN f, i # None, h \in Nat, h = f[i].head
  PROVE  Session(c, [r EXCEPT !.pc = "type", !.attached = i, !.pos = h, !.from = h], a, f)
  <1> DEFINE n == [r EXCEPT !.pc = "type", !.attached = i, !.pos = h, !.from = h]
             Ch == {"pc", "attached", "pos", "from"}
  <1> SUFFICES Session(c, n, a, f)
    OBVIOUS
  <1>1. Same(r, n, Ch) /\ n.pc = "type" /\ n.attached = i /\ n.pos = h /\ n.from = h
    BY DEF Session, SessType, Same, SessFields
  <1> HIDE DEF n
  <1>2. SessType(r)
    BY DEF Session
  <1>3. /\ n.caller = r.caller /\ n.gone = r.gone /\ n.quit = r.quit /\ n.group = r.group
        /\ n.lost = r.lost /\ n.got = r.got /\ n.down = r.down /\ n.started = r.started
        /\ n.err = r.err /\ n.src = r.src /\ n.skipped = r.skipped /\ n.held = r.held
        /\ n.made = r.made /\ n.out = r.out /\ n.pending = r.pending /\ n.post = r.post
        /\ n.relay = r.relay /\ n.q = r.q /\ n.pin = r.pin /\ n.up = r.up /\ n.heard = r.heard
        /\ n.said = r.said /\ n.writer = r.writer
    BY <1>1 DEF Same, SessFields
  <1>4. Fits(n, Ch)
    BY <1>1 DEF Fits, Places, Callings, Flags, Numbers, Queues, Streams
  <1>5. LifeOf(n, a)
    BY <1>1, <1>3 DEF Session, LifeOf, Waiting, Hosted
  <1>6. SentOf(n) = <<>> /\ DOMAIN SentOf(n) = {} /\ Count(n) = 0
    <2>1. ~r.started /\ SentOf(n) = SentOf(r)
      BY <1>3 DEF Session, HeadOf, Waiting, SentOf
    <2>2. SentOf(r) = <<>>
      BY <1>2, <2>1, Unsent DEF Session
    <2> QED
      BY <1>3, <2>1, <2>2 DEF Count
  <1>7. BytesOf(n)
    BY <1>1, <1>3 DEF BytesOf
  <1>8. ViewOf(n, f)
    <2>1. n.skipped = 0 /\ h - h = 0 /\ h <= h
      BY <1>3 DEF Session, ViewOf, Waiting
    <2> QED
      BY <1>1, <1>6, <2>1 DEF ViewOf, Hosted, Waiting
  <1>9. HeadMove(r, n, Ch)
    BY <1>1, <1>4, <1>5, <1>6, <1>7, <1>8 DEF HeadMove, HeadFields, Early, Waiting
  <1>10. StreamMove(r, n, Ch)
    BY <1>1, <1>4, <1>5, <1>6, <1>7, <1>8 DEF StreamMove, StreamFields, Early, Waiting
  <1>11. KindMove(r, n, Ch)
    BY <1>1, <1>4, <1>5, <1>6, <1>7, <1>8 DEF KindMove, KindFields
  <1> HIDE DEF Ch
  <1> QED
    BY <1>1, <1>4, <1>5, <1>7, <1>8, <1>9, <1>10, <1>11, Keeps

\* ... and leaves it when its handler returns.
LEMMA DetachOk ==
  ASSUME NEW c, NEW r, NEW a, NEW f, Session(c, r, a, f), r.pc \in Hosted,
         r.pc = "type" => r.gone
  PROVE  Session(c, [r EXCEPT !.pc = "done", !.attached = None], a, f)
  <1> DEFINE n == [r EXCEPT !.pc = "done", !.attached = None]
             Ch == {"pc", "attached"}
  <1> SUFFICES Session(c, n, a, f)
    OBVIOUS
  <1>1. Same(r, n, Ch) /\ n.pc = "done" /\ n.attached = None
    BY DEF Session, SessType, Same, SessFields
  <1> HIDE DEF n
  <1>2. SessType(r)
    BY DEF Session
  <1>3. /\ n.caller = r.caller /\ n.gone = r.gone /\ n.quit = r.quit /\ n.group = r.group
        /\ n.lost = r.lost /\ n.got = r.got /\ n.down = r.down /\ n.started = r.started
        /\ n.err = r.err /\ n.src = r.src /\ n.pos = r.pos /\ n.from = r.from
        /\ n.skipped = r.skipped /\ n.held = r.held /\ n.made = r.made /\ n.out = r.out
        /\ n.pending = r.pending /\ n.post = r.post /\ n.relay = r.relay /\ n.q = r.q
        /\ n.pin = r.pin /\ n.up = r.up /\ n.heard = r.heard /\ n.said = r.said
        /\ n.writer = r.writer
    BY <1>1 DEF Same, SessFields
  <1>4. Fits(n, Ch)
    BY <1>1 DEF Fits, Places, Callings, Flags, Numbers, Queues, Streams
  <1>5. LifeOf(n, a)
    BY <1>1, <1>3 DEF Session, LifeOf, Waiting, Hosted
  <1>6. HeadOf(n, a)
    <2>1. SentOf(n) = SentOf(r) /\ (r.gone => r.quit)
      BY <1>3 DEF SentOf, Session, LifeOf, Hosted
    <2>2. r.started \/ r.quit
      BY <2>1 DEF Session, HeadOf, Hosted
    <2> QED
      BY <1>1, <1>3, <2>1, <2>2 DEF Session, HeadOf, Waiting
  <1>7. BytesOf(n)
    <2>1. r.src.command = "host"
      BY DEF Session, BytesOf
    <2> QED
      BY <1>1, <1>3, <2>1 DEF BytesOf
  <1>8. ViewOf(n, f)
    BY <1>1, <1>3 DEF ViewOf, Hosted, Waiting
  <1>9. StreamMove(r, n, Ch)
    BY <1>1, <1>4, <1>5, <1>6, <1>7, <1>8 DEF StreamMove, StreamFields, Early, Waiting
  <1>10. KindMove(r, n, Ch)
    BY <1>1, <1>4, <1>5, <1>6, <1>7, <1>8 DEF KindMove, KindFields
  <1> HIDE DEF Ch
  <1> QED
    BY <1>1, <1>4, <1>5, <1>6, <1>7, <1>8, <1>9, <1>10, Keeps

\* The header of a host feed.
LEMMA HostHeaderOk ==
  ASSUME NEW c, NEW r, NEW a, NEW f, Session(c, r, a, f), r.pc = "type"
  PROVE  Session(c, [r EXCEPT !.pc = "watch", !.started = TRUE, !.down = Append(@, Frame("Media"))],
                 a, f)
  <1> DEFINE n == [r EXCEPT !.pc = "watch", !.started = TRUE, !.down = Append(@, Frame("Media"))]
             Ch == {"pc", "started", "down"}
  <1> SUFFICES Session(c, n, a, f)
    OBVIOUS
  <1>1. /\ Same(r, n, Ch) /\ n.pc = "watch" /\ n.started = TRUE
        /\ n.down = Append(r.down, Frame("Media"))
    BY DEF Session, SessType, Same, SessFields
  <1> HIDE DEF n
  <1>2. SessType(r)
    BY DEF Session
  <1>3. /\ n.caller = r.caller /\ n.gone = r.gone /\ n.quit = r.quit /\ n.group = r.group
        /\ n.lost = r.lost /\ n.got = r.got /\ n.err = r.err /\ n.src = r.src
        /\ n.attached = r.attached /\ n.pos = r.pos /\ n.from = r.from /\ n.skipped = r.skipped
        /\ n.held = r.held /\ n.made = r.made /\ n.out = r.out /\ n.pending = r.pending
        /\ n.post = r.post /\ n.relay = r.relay /\ n.q = r.q /\ n.pin = r.pin /\ n.up = r.up
        /\ n.heard = r.heard /\ n.said = r.said /\ n.writer = r.writer
    BY <1>1 DEF Same, SessFields
  <1>4. a = <<"allow">> /\ ~r.started
    BY DEF Session, LifeOf, HeadOf, Waiting
  <1>5. /\ HeadOf(n, a) /\ Count(n) = 0 /\ Len(SentOf(n)) = 1 /\ DOMAIN SentOf(n) = 1..1
        /\ Count(r) = 0 /\ SentOf(n)[1].class = "Media"
        /\ Len(n.down) <= Window /\ n.down \in Seq(Items)
    <2>1. "Media" \in Opening /\ r.pc # "done"
      BY DEF Opening
    <2> QED
      BY <1>1, <1>2, <1>3, <1>4, <2>1, HeaderIs DEF Session
  <1>6. Fits(n, Ch)
    BY <1>1, <1>5 DEF Fits, Places, Callings, Flags, Numbers, Queues, Streams
  <1>7. LifeOf(n, a)
    BY <1>1, <1>3 DEF Session, LifeOf, Waiting, Hosted
  <1>8. BytesOf(n)
    <2>1. r.src.command = "host"
      BY DEF Session, BytesOf, Hosted
    <2> QED
      BY <1>1, <1>3, <2>1 DEF BytesOf
  <1>9. KindOf(c, n)
    BY <1>1, <1>3, <1>5 DEF Session, KindOf
  <1>10. ViewOf(n, f)
    <2>1. \A i \in DOMAIN SentOf(n) : i = 1
      BY <1>5
    <2>2. /\ r.attached # None /\ r.attached \in DOMAIN f /\ r.pos <= f[r.attached].head
          /\ r.pos - r.from = 0 + r.skipped + 0
      BY <1>5 DEF Session, ViewOf, Hosted
    <2> QED
      BY <1>1, <1>3, <1>5, <2>1, <2>2 DEF ViewOf, Hosted, Waiting
  <1>11. StreamMove(r, n, Ch)
    BY <1>1, <1>4, <1>5, <1>6, <1>7, <1>8, <1>9, <1>10 DEF StreamMove, StreamFields, Early, Waiting
  <1> HIDE DEF Ch
  <1> QED
    BY <1>1, <1>5, <1>6, <1>7, <1>8, <1>9, <1>10, <1>11, Keeps

\* A chunk is taken, and what the viewer missed before it is counted.
LEMMA FeedNextOk ==
  ASSUME NEW c, NEW r, NEW a, NEW f, NEW at \in Nat, Session(c, r, a, f), r.pc = "watch",
         r.pos <= at, at < f[r.attached].head, f[r.attached].head \in Nat
  PROVE  Session(c, [r EXCEPT !.pc = "sendFeed", !.held = at + 1, !.pos = at + 1,
                             !.skipped = @ + (at - r.pos)],
                 a, f)
  <1> DEFINE n == [r EXCEPT !.pc = "sendFeed", !.held = at + 1, !.pos = at + 1,
                             !.skipped = @ + (at - r.pos)]
             Ch == {"pc", "held", "pos", "skipped"}
  <1> SUFFICES Session(c, n, a, f)
    OBVIOUS
  <1>1. /\ Same(r, n, Ch) /\ n.pc = "sendFeed" /\ n.held = at + 1 /\ n.pos = at + 1
        /\ n.skipped = r.skipped + (at - r.pos)
    BY DEF Session, SessType, Same, SessFields
  <1> HIDE DEF n
  <1>2. SessType(r)
    BY DEF Session
  <1>3. /\ n.caller = r.caller /\ n.gone = r.gone /\ n.quit = r.quit /\ n.group = r.group
        /\ n.lost = r.lost /\ n.got = r.got /\ n.down = r.down /\ n.started = r.started
        /\ n.err = r.err /\ n.src = r.src /\ n.attached = r.attached /\ n.from = r.from
        /\ n.made = r.made /\ n.out = r.out /\ n.pending = r.pending /\ n.post = r.post
        /\ n.relay = r.relay /\ n.q = r.q /\ n.pin = r.pin /\ n.up = r.up /\ n.heard = r.heard
        /\ n.said = r.said /\ n.writer = r.writer
    BY <1>1 DEF Same, SessFields
  <1>4. n.skipped \in Nat /\ n.pos \in Nat /\ n.held \in Nat /\ r.pos \in Nat /\ r.skipped \in Nat /\ r.from \in Nat
    <2>1. r.skipped \in Nat /\ r.pos \in Nat /\ r.from \in Nat
      BY <1>2, Typed
    <2>2. at - r.pos \in Nat
      BY <2>1
    <2> QED
      BY <1>1, <2>1, <2>2
  <1>5. Fits(n, Ch)
    BY <1>1, <1>4 DEF Fits, Places, Callings, Flags, Numbers, Queues, Streams
  <1>6. LifeOf(n, a)
    BY <1>1, <1>3 DEF Session, LifeOf, Waiting, Hosted
  <1>7. HeadOf(n, a)
    <2>1. SentOf(n) = SentOf(r)
      BY <1>3 DEF SentOf
    <2> QED
      BY <1>1, <1>3, <2>1 DEF Session, HeadOf, Waiting
  <1>8. BytesOf(n)
    <2>1. r.src.command = "host"
      BY DEF Session, BytesOf, Hosted
    <2> QED
      BY <1>1, <1>3, <2>1 DEF BytesOf
  <1>9. ViewOf(n, f)
    <2>1. SentOf(n) = SentOf(r) /\ Count(n) = Count(r)
      BY <1>3 DEF SentOf, Count
    <2>2. /\ r.attached # None /\ r.attached \in DOMAIN f
          /\ r.pos - r.from = Count(r) + r.skipped + 0
          /\ \A i \in DOMAIN SentOf(r) : i > 1 =>
               /\ SentOf(r)[i].n <= r.pos
               /\ \A j \in DOMAIN SentOf(r) : j > i => SentOf(r)[i].n < SentOf(r)[j].n
      BY DEF Session, ViewOf, Hosted
    <2>3. Count(r) \in Int
      <3>1. r.got \in Seq(Items) /\ r.down \in Seq(Items)
        BY <1>2, Typed
      <3>2. SentOf(r) \in Seq(Items)
        BY <3>1, ConcatProperties DEF SentOf
      <3>3. Len(SentOf(r)) \in Nat
        BY <3>2, LenProperties
      <3> QED
        BY <3>3 DEF Count
    <2>4. n.pos - n.from = Count(n) + n.skipped + 1
      BY <1>1, <1>3, <1>4, <2>1, <2>2, <2>3
    <2>5. \A i \in DOMAIN SentOf(r) : SentOf(r)[i].n \in Nat
      <3>1. r.got \in Seq(Items) /\ r.down \in Seq(Items)
        BY <1>2, Typed
      <3>2. SentOf(r) \in Seq(Items)
        BY <3>1, ConcatProperties DEF SentOf
      <3>3. \A i \in DOMAIN SentOf(r) : SentOf(r)[i] \in Items
        BY <3>2, ElementOfSeq, LenProperties
      <3> QED
        BY <3>3 DEF Items
    <2>6. \A i \in DOMAIN SentOf(n) : i > 1 => SentOf(n)[i].n <= n.pos /\ SentOf(n)[i].n < n.pos
      <3> SUFFICES ASSUME NEW i \in DOMAIN SentOf(r), i > 1
                   PROVE  SentOf(r)[i].n <= n.pos /\ SentOf(r)[i].n < n.pos
        BY <2>1
      <3>1. SentOf(r)[i].n <= r.pos /\ SentOf(r)[i].n \in Nat
        BY <2>2, <2>5
      <3> QED
        BY <1>1, <1>4, <3>1
    <2>7. n.pos <= f[n.attached].head
      BY <1>1, <1>3
    <2> QED
      BY <1>1, <1>3, <2>1, <2>2, <2>4, <2>6, <2>7 DEF ViewOf, Hosted, Waiting
  <1>10. StreamMove(r, n, Ch)
    BY <1>1, <1>4, <1>5, <1>6, <1>7, <1>8, <1>9 DEF StreamMove, StreamFields, Early, Waiting
  <1>11. KindMove(r, n, Ch)
    BY <1>1, <1>4, <1>5, <1>6, <1>7, <1>8, <1>9 DEF KindMove, KindFields
  <1> HIDE DEF Ch
  <1> QED
    BY <1>1, <1>5, <1>6, <1>7, <1>8, <1>9, <1>10, <1>11, Keeps

\* A chunk of a host feed is sent.
LEMMA SendFeedOk ==
  ASSUME NEW c, NEW r, NEW a, NEW f, Session(c, r, a, f), r.pc = "sendFeed", Len(r.down) < Window
  PROVE  Session(c, [r EXCEPT !.pc = "watch", !.down = Append(@, Raw(r.held))], a, f)
  <1> DEFINE n == [r EXCEPT !.pc = "watch", !.down = Append(@, Raw(r.held))]
             Ch == {"pc", "down"}
  <1> SUFFICES Session(c, n, a, f)
    OBVIOUS
  <1>1. Same(r, n, Ch) /\ n.pc = "watch" /\ n.down = Append(r.down, Raw(r.held))
    BY DEF Session, SessType, Same, SessFields
  <1> HIDE DEF n
  <1>2. SessType(r)
    BY DEF Session
  <1>3. /\ n.caller = r.caller /\ n.gone = r.gone /\ n.quit = r.quit /\ n.group = r.group
        /\ n.lost = r.lost /\ n.got = r.got /\ n.started = r.started /\ n.err = r.err
        /\ n.src = r.src /\ n.attached = r.attached /\ n.pos = r.pos /\ n.from = r.from
        /\ n.skipped = r.skipped /\ n.held = r.held /\ n.made = r.made /\ n.out = r.out
        /\ n.pending = r.pending /\ n.post = r.post /\ n.relay = r.relay /\ n.q = r.q
        /\ n.pin = r.pin /\ n.up = r.up /\ n.heard = r.heard /\ n.said = r.said
        /\ n.writer = r.writer
    BY <1>1 DEF Same, SessFields
  <1>4. r.started /\ n.started /\ r.held \in Nat /\ n.pc \in {"pump", "watch"}
    <2>1. r.started
      BY DEF Session, HeadOf
    <2> QED
      BY <1>1, <1>2, <1>3, <2>1, Typed
  <1>5. /\ HeadOf(n, a) /\ Count(n) = Count(r) + 1 /\ Count(r) \in Nat
        /\ Count(r) = Len(SentOf(r)) - 1 /\ Len(SentOf(r)) \in Nat /\ Len(SentOf(r)) > 0
        /\ Len(SentOf(n)) = Len(SentOf(r)) + 1
        /\ DOMAIN SentOf(r) = 1..Len(SentOf(r)) /\ DOMAIN SentOf(n) = 1..(Len(SentOf(r)) + 1)
        /\ \A i \in DOMAIN SentOf(r) : SentOf(n)[i] = SentOf(r)[i]
        /\ SentOf(n)[Len(SentOf(r)) + 1].n = r.held
        /\ Len(n.down) = Len(r.down) + 1 /\ Len(r.down) \in Nat /\ n.down \in Seq(Items)
    <2>1. HeadOf(r, a) /\ n.got = r.got /\ n.down = Append(r.down, Raw(r.held))
      BY <1>1, <1>3 DEF Session
    <2> QED
      BY <1>2, <1>4, <2>1, ChunkIs
  <1>6. HeadOf(n, a) /\ n.down \in Seq(Items)
    BY <1>5
  <1>7. Fits(n, Ch)
    BY <1>1, <1>6 DEF Fits, Places, Callings, Flags, Numbers, Queues, Streams
  <1>8. LifeOf(n, a)
    BY <1>1, <1>3 DEF Session, LifeOf, Waiting, Hosted
  <1>9. BytesOf(n)
    <2>1. r.src.command = "host"
      BY DEF Session, BytesOf, Hosted
    <2> QED
      BY <1>1, <1>3, <2>1 DEF BytesOf
  <1>10. KindOf(c, n)
    <2>1. Len(n.down) <= Window
      BY <1>5, BoundsAssumption
    <2> QED
      BY <1>1, <1>3, <2>1 DEF Session, KindOf
  <1>11. ViewOf(n, f)
    <2>1. r.pos \in Nat /\ r.skipped \in Nat
      BY <1>2, Typed
    <2>2. /\ r.attached # None /\ r.attached \in DOMAIN f /\ r.pos <= f[r.attached].head
          /\ r.pos - r.from = Count(r) + r.skipped + 1 /\ r.held = r.pos
          /\ \A i \in DOMAIN SentOf(r) : i > 1 =>
               /\ SentOf(r)[i].n <= r.pos /\ SentOf(r)[i].n < r.pos
               /\ \A j \in DOMAIN SentOf(r) : j > i => SentOf(r)[i].n < SentOf(r)[j].n
      BY DEF Session, ViewOf, Hosted
    <2>3. n.pos - n.from = Count(n) + n.skipped + 0
      BY <1>3, <1>5, <2>1, <2>2
    <2>4. ASSUME NEW i \in DOMAIN SentOf(n), i > 1
          PROVE  /\ SentOf(n)[i].n <= n.pos
                 /\ \A j \in DOMAIN SentOf(n) : j > i => SentOf(n)[i].n < SentOf(n)[j].n
      <3>1. CASE i \in DOMAIN SentOf(r)
        <4>1. SentOf(n)[i] = SentOf(r)[i] /\ SentOf(r)[i].n <= r.pos /\ SentOf(r)[i].n < r.pos
          BY <1>5, <2>2, <2>4, <3>1
        <4>2. ASSUME NEW j \in DOMAIN SentOf(n), j > i PROVE SentOf(n)[i].n < SentOf(n)[j].n
          <5>1. CASE j \in DOMAIN SentOf(r)
            BY <1>5, <2>2, <2>4, <3>1, <4>2, <5>1
          <5>2. CASE j = Len(SentOf(r)) + 1
            BY <1>5, <2>2, <4>1, <5>2
          <5> QED
            BY <1>5, <5>1, <5>2
        <4> QED
          BY <1>3, <4>1, <4>2
      <3>2. CASE i = Len(SentOf(r)) + 1
        <4>1. \A j \in DOMAIN SentOf(n) : ~(j > i)
          BY <1>5, <3>2
        <4>2. SentOf(n)[i].n = r.pos /\ n.pos = r.pos
          BY <1>3, <1>5, <2>2, <3>2
        <4> QED
          BY <2>1, <4>1, <4>2
      <3> QED
        BY <1>5, <3>1, <3>2
    <2>5. n.pc = "watch" /\ n.attached = r.attached /\ n.pos = r.pos
      BY <1>1, <1>3
    <2> QED
      BY <2>2, <2>3, <2>4, <2>5 DEF ViewOf, Hosted, Waiting
  <1>12. StreamMove(r, n, Ch)
    BY <1>1, <1>4, <1>6, <1>7, <1>8, <1>9, <1>10, <1>11 DEF StreamMove, StreamFields, Early, Waiting
  <1> HIDE DEF Ch
  <1> QED
    BY <1>1, <1>5, <1>6, <1>7, <1>8, <1>9, <1>10, <1>11, <1>12, Keeps

\* The caller takes the next item of the response ...
LEMMA HearOk ==
  ASSUME NEW c, NEW r, NEW a, NEW f, Session(c, r, a, f), r.caller \in {"wait", "on"},
         r.down # <<>>, NEW n, Same(r, n, {"got", "down", "caller", "relay"}),
         n.got = Append(r.got, Head(r.down)), n.down = Tail(r.down), n.caller = "on",
         n.relay = r.relay \/ (n.relay = "run" /\ r.relay # "none")
  PROVE  Session(c, n, a, f)
  <1> DEFINE Ch == {"got", "down", "caller", "relay"}
  <1>1. Same(r, n, Ch) /\ n.pc = r.pc
    BY DEF Same, SessFields
  <1>2. SessType(r)
    BY DEF Session
  <1>3. /\ n.gone = r.gone /\ n.quit = r.quit /\ n.group = r.group /\ n.lost = r.lost
        /\ n.started = r.started /\ n.err = r.err /\ n.src = r.src /\ n.attached = r.attached
        /\ n.pos = r.pos /\ n.from = r.from /\ n.skipped = r.skipped /\ n.held = r.held
        /\ n.made = r.made /\ n.out = r.out /\ n.pending = r.pending /\ n.post = r.post
        /\ n.q = r.q /\ n.pin = r.pin /\ n.up = r.up /\ n.heard = r.heard /\ n.said = r.said
        /\ n.writer = r.writer
    BY <1>1 DEF Same, SessFields
  <1>4. /\ SentOf(n) = SentOf(r) /\ n.got \in Seq(Items) /\ n.down \in Seq(Items)
        /\ Len(n.down) <= Len(r.down)
        /\ \E i \in DOMAIN SentOf(r) : SentOf(r)[i] = Head(r.down)
    BY <1>2, Hears
  <1>5. Fits(n, Ch)
    BY <1>4, <1>2, Typed DEF Fits, Places, Callings, Flags, Numbers, Queues, Streams, Session
  <1>6. LifeOf(n, a)
    BY <1>1, <1>3 DEF Session, LifeOf, Waiting, Hosted
  <1>7. HeadOf(n, a)
    <2>1. SentOf(n) = SentOf(r)
      BY <1>4
    <2> QED
      BY <1>1, <1>3, <2>1 DEF Session, HeadOf, Waiting
  <1>8. BytesOf(n)
    <2>1. SentOf(n) = SentOf(r) /\ Count(n) = Count(r) /\ InHand(n) = InHand(r)
      BY <1>1, <1>3, <1>4 DEF Count, InHand
    <2> QED
      BY <1>1, <1>3, <2>1 DEF Session, BytesOf, Hosted
  <1>9. KindOf(c, n)
    <2>1. Len(n.down) <= Window
      <3>1. Len(n.down) \in Nat /\ Len(r.down) \in Nat
        BY <1>2, <1>4, Typed, LenProperties
      <3>2. Len(r.down) <= Window /\ Window \in Nat
        BY BoundsAssumption DEF Session, KindOf
      <3> QED
        BY <1>4, <3>1, <3>2
    <2>2. n.caller # "dial"
      OBVIOUS
    <2>3. r.pc # "new"
      BY DEF Session, LifeOf
    <2> QED
      BY <1>1, <1>3, <2>1, <2>2, <2>3 DEF Session, KindOf
  <1>10. ViewOf(n, f)
    <2>1. SentOf(n) = SentOf(r) /\ Count(n) = Count(r)
      BY <1>3, <1>4 DEF Count
    <2> QED
      BY <1>1, <1>3, <2>1 DEF Session, ViewOf, Hosted, Waiting
  <1>11. StreamMove(r, n, Ch)
    BY <1>1, <1>4, <1>5, <1>6, <1>7, <1>8, <1>9, <1>10 DEF StreamMove, StreamFields, Early, Waiting
  <1> HIDE DEF Ch
  <1> QED
    BY <1>1, <1>5, <1>6, <1>7, <1>8, <1>9, <1>10, <1>11, Keeps

\* ... which may be a refusal, or the end ...
LEMMA HearLastOk ==
  ASSUME NEW c, NEW r, NEW a, NEW f, Session(c, r, a, f), r.caller \in {"wait", "on"},
         r.down # <<>>, Head(r.down).class \notin {"Media", "AudioDuplex", "Raw"}, NEW n,
         Same(r, n, {"got", "down", "caller", "gone", "relay"}),
         n.got = Append(r.got, Head(r.down)), n.down = Tail(r.down), n.caller = "left", n.gone,
         n.gone \in BOOLEAN, n.relay = r.relay \/ (n.relay = "done" /\ r.relay # "none")
  PROVE  Session(c, n, a, f)
  <1> DEFINE Ch == {"got", "down", "caller", "gone", "relay"}
  <1>1. Same(r, n, Ch) /\ n.pc = r.pc
    BY DEF Same, SessFields
  <1>2. SessType(r)
    BY DEF Session
  <1>3. /\ n.quit = r.quit /\ n.group = r.group /\ n.lost = r.lost /\ n.started = r.started
        /\ n.err = r.err /\ n.src = r.src /\ n.attached = r.attached /\ n.pos = r.pos
        /\ n.from = r.from /\ n.skipped = r.skipped /\ n.held = r.held /\ n.made = r.made
        /\ n.out = r.out /\ n.pending = r.pending /\ n.post = r.post /\ n.q = r.q /\ n.pin = r.pin
        /\ n.up = r.up /\ n.heard = r.heard /\ n.said = r.said /\ n.writer = r.writer
    BY <1>1 DEF Same, SessFields
  <1>4. /\ SentOf(n) = SentOf(r) /\ n.got \in Seq(Items) /\ n.down \in Seq(Items)
        /\ Len(n.down) <= Len(r.down)
        /\ \E i \in DOMAIN SentOf(r) : SentOf(r)[i] = Head(r.down)
    BY <1>2, Hears
  <1>5. Fits(n, Ch)
    BY <1>4, <1>2, Typed DEF Fits, Places, Callings, Flags, Numbers, Queues, Streams, Session
  <1>6. LifeOf(n, a)
    <2>1. PICK i \in DOMAIN SentOf(r) : SentOf(r)[i] = Head(r.down)
      BY <1>4
    <2>2. SentOf(r)[i].class \notin Opening /\ SentOf(r)[i].class # "Raw"
      BY <2>1 DEF Opening
    <2>3. SentOf(r)[i].class = "Raw" <=> i > 1
      BY DEF Session, HeadOf
    <2>4. i \in Nat \ {0} /\ SentOf(r) # <<>>
      <3>1. r.got \in Seq(Items) /\ r.down \in Seq(Items)
        BY <1>2, Typed
      <3>2. SentOf(r) \in Seq(Items)
        BY <3>1, ConcatProperties DEF SentOf
      <3>3. DOMAIN SentOf(r) = 1..Len(SentOf(r)) /\ Len(SentOf(r)) \in Nat
        BY <3>2, LenProperties
      <3>4. SentOf(r) = <<>> => DOMAIN SentOf(r) = {}
        OBVIOUS
      <3> QED
        BY <3>3, <3>4
    <2>5. i = 1
      BY <2>2, <2>3, <2>4
    <2>6. ~r.started /\ r.pc = "done"
      BY <2>2, <2>4, <2>5 DEF Session, HeadOf
    <2> QED
      BY <1>1, <1>3, <2>6 DEF Session, LifeOf, Waiting, Hosted
  <1>7. HeadOf(n, a)
    <2>1. SentOf(n) = SentOf(r)
      BY <1>4
    <2> QED
      BY <1>1, <1>3, <2>1 DEF Session, HeadOf, Waiting
  <1>8. BytesOf(n)
    <2>1. SentOf(n) = SentOf(r) /\ Count(n) = Count(r) /\ InHand(n) = InHand(r)
      BY <1>1, <1>3, <1>4 DEF Count, InHand
    <2> QED
      BY <1>1, <1>3, <2>1 DEF Session, BytesOf, Hosted
  <1>9. KindOf(c, n)
    <2>1. Len(n.down) <= Window
      <3>1. Len(n.down) \in Nat /\ Len(r.down) \in Nat
        BY <1>2, <1>4, Typed, LenProperties
      <3>2. Len(r.down) <= Window /\ Window \in Nat
        BY BoundsAssumption DEF Session, KindOf
      <3> QED
        BY <1>4, <3>1, <3>2
    <2>2. n.caller # "dial"
      OBVIOUS
    <2>3. r.pc # "new"
      BY DEF Session, LifeOf
    <2> QED
      BY <1>1, <1>3, <2>1, <2>2, <2>3 DEF Session, KindOf
  <1>10. ViewOf(n, f)
    <2>1. SentOf(n) = SentOf(r) /\ Count(n) = Count(r)
      BY <1>3, <1>4 DEF Count
    <2> QED
      BY <1>1, <1>3, <2>1 DEF Session, ViewOf, Hosted, Waiting
  <1>11. StreamMove(r, n, Ch)
    BY <1>1, <1>4, <1>5, <1>6, <1>7, <1>8, <1>9, <1>10 DEF StreamMove, StreamFields, Early, Waiting
  <1> HIDE DEF Ch
  <1> QED
    BY <1>1, <1>5, <1>6, <1>7, <1>8, <1>9, <1>10, <1>11, Keeps

\* ... and goes when the exchange is over ...
LEMMA LeftOk ==
  ASSUME NEW c, NEW r, NEW a, NEW f, Session(c, r, a, f), r.caller \in {"wait", "on"},
         r.pc = "done"
  PROVE  Session(c, Leaves(r), a, f)
  <1> DEFINE n == Leaves(r)
             Ch == {"caller", "gone"}
  <1> SUFFICES Session(c, n, a, f)
    OBVIOUS
  <1>1. Same(r, n, Ch) /\ n.caller = "left" /\ n.gone = TRUE /\ n.pc = r.pc
    BY DEF Session, SessType, Same, SessFields, Leaves
  <1> HIDE DEF n
  <1>2. SessType(r)
    BY DEF Session
  <1>3. /\ n.quit = r.quit /\ n.group = r.group /\ n.lost = r.lost /\ n.got = r.got
        /\ n.down = r.down /\ n.started = r.started /\ n.err = r.err /\ n.src = r.src
        /\ n.attached = r.attached /\ n.pos = r.pos /\ n.from = r.from /\ n.skipped = r.skipped
        /\ n.held = r.held /\ n.made = r.made /\ n.out = r.out /\ n.pending = r.pending
        /\ n.post = r.post /\ n.relay = r.relay /\ n.q = r.q /\ n.pin = r.pin /\ n.up = r.up
        /\ n.heard = r.heard /\ n.said = r.said /\ n.writer = r.writer
    BY <1>1 DEF Same, SessFields
  <1>4. Fits(n, Ch)
    BY <1>1 DEF Fits, Places, Callings, Flags, Numbers, Queues, Streams
  <1>5. LifeOf(n, a)
    BY <1>1, <1>3 DEF Session, LifeOf, Waiting, Hosted
  <1>6. HeadMove(r, n, Ch)
    BY <1>1, <1>4, <1>5 DEF HeadMove, HeadFields, Early, Waiting
  <1>7. BytesMove(r, n, Ch)
    BY <1>1, <1>4, <1>5 DEF BytesMove, BytesFields
  <1>8. StreamMove(r, n, Ch)
    BY <1>1, <1>4, <1>5 DEF StreamMove, StreamFields, Early, Waiting
  <1>9. KindMove(r, n, Ch)
    BY <1>1, <1>4, <1>5 DEF KindMove, KindFields
  <1>10. ViewMove(r, n, Ch)
    BY <1>1, <1>4, <1>5 DEF ViewMove, ViewFields, Hosted, Early, Waiting
  <1> HIDE DEF Ch
  <1> QED
    BY <1>1, <1>4, <1>5, <1>6, <1>7, <1>8, <1>9, <1>10, Keeps

\* ... or before.
LEMMA HangUpOk ==
  ASSUME NEW c, NEW r, NEW a, NEW f, Session(c, r, a, f), r.caller \in {"wait", "on"}, NEW n,
         Same(r, n, {"caller", "gone", "quit"}), n.caller = "left", n.gone \in BOOLEAN, n.quit,
         n.quit \in BOOLEAN
  PROVE  Session(c, n, a, f)
  <1> DEFINE Ch == {"caller", "gone", "quit"}
  <1>1. Same(r, n, Ch) /\ n.pc = r.pc
    BY DEF Same, SessFields
  <1>2. SessType(r)
    BY DEF Session
  <1>3. /\ n.group = r.group /\ n.lost = r.lost /\ n.got = r.got /\ n.down = r.down
        /\ n.started = r.started /\ n.err = r.err /\ n.src = r.src /\ n.attached = r.attached
        /\ n.pos = r.pos /\ n.from = r.from /\ n.skipped = r.skipped /\ n.held = r.held
        /\ n.made = r.made /\ n.out = r.out /\ n.pending = r.pending /\ n.post = r.post
        /\ n.relay = r.relay /\ n.q = r.q /\ n.pin = r.pin /\ n.up = r.up /\ n.heard = r.heard
        /\ n.said = r.said /\ n.writer = r.writer
    BY <1>1 DEF Same, SessFields
  <1>4. Fits(n, Ch)
    BY <1>1 DEF Fits, Places, Callings, Flags, Numbers, Queues, Streams
  <1>5. LifeOf(n, a)
    BY <1>1, <1>3 DEF Session, LifeOf, Waiting, Hosted
  <1>6. HeadMove(r, n, Ch)
    BY <1>1, <1>4, <1>5 DEF HeadMove, HeadFields, Early, Waiting
  <1>7. BytesMove(r, n, Ch)
    BY <1>1, <1>4, <1>5 DEF BytesMove, BytesFields
  <1>8. StreamMove(r, n, Ch)
    BY <1>1, <1>4, <1>5 DEF StreamMove, StreamFields, Early, Waiting
  <1>9. KindMove(r, n, Ch)
    BY <1>1, <1>4, <1>5 DEF KindMove, KindFields
  <1>10. ViewMove(r, n, Ch)
    BY <1>1, <1>4, <1>5 DEF ViewMove, ViewFields, Hosted, Early, Waiting
  <1> HIDE DEF Ch
  <1> QED
    BY <1>1, <1>4, <1>5, <1>6, <1>7, <1>8, <1>9, <1>10, Keeps

\* `rsntr talk` reads its stdin ...
LEMMA TalkSaysOk ==
  ASSUME NEW c, NEW r, NEW a, NEW f, Session(c, r, a, f), c.kind = "talk", r.pc # "new",
         r.pending = 0
  PROVE  Session(c, [r EXCEPT !.pending = r.said + 1, !.said = @ + 1], a, f)
  <1> DEFINE n == [r EXCEPT !.pending = r.said + 1, !.said = @ + 1]
             Ch == {"pending", "said"}
  <1> SUFFICES Session(c, n, a, f)
    OBVIOUS
  <1>1. Same(r, n, Ch) /\ n.pending = r.said + 1 /\ n.said = r.said + 1 /\ n.pc = r.pc
    BY DEF Session, SessType, Same, SessFields
  <1> HIDE DEF n
  <1>2. SessType(r)
    BY DEF Session
  <1>3. /\ n.caller = r.caller /\ n.gone = r.gone /\ n.quit = r.quit /\ n.group = r.group
        /\ n.lost = r.lost /\ n.got = r.got /\ n.down = r.down /\ n.started = r.started
        /\ n.err = r.err /\ n.src = r.src /\ n.attached = r.attached /\ n.pos = r.pos
        /\ n.from = r.from /\ n.skipped = r.skipped /\ n.held = r.held /\ n.made = r.made
        /\ n.out = r.out /\ n.post = r.post /\ n.relay = r.relay /\ n.q = r.q /\ n.pin = r.pin
        /\ n.up = r.up /\ n.heard = r.heard /\ n.writer = r.writer
    BY <1>1 DEF Same, SessFields
  <1>4. r.said \in Nat /\ r.said + 1 \in Nat /\ r.said + 1 > r.said /\ r.said + 1 # 0
    BY <1>2, Typed
  <1>5. Fits(n, Ch)
    BY <1>1, <1>4 DEF Fits, Places, Callings, Flags, Numbers, Queues, Streams
  <1>6. InOrder(Stages(n)) /\ UpTo(Stages(n), n.said)
    <2> DEFINE L == Stages(r)
               M == Stages(n)
    <2>1. AreStages(L) /\ InOrder(L) /\ UpTo(L, r.said) /\ r.said \in Nat
      BY <1>2, Typed, StagesType DEF Session, StreamOf
    <2>2. Except(L, M, {5})
      BY <1>1, <1>3, <1>4, ExceptIs
    <2>3. /\ L[1] = r.heard /\ L[2] = r.pin /\ L[3] = r.q /\ L[4] = r.up /\ L[6] = r.post
          /\ M[1] = n.heard /\ M[2] = n.pin /\ M[3] = n.q /\ M[4] = n.up /\ M[6] = n.post
          /\ L[5] = Pending(r) /\ M[5] = Pending(n)
      BY StagesAre
    <2> HIDE DEF L, M
    <2>4. /\ 5 \in 1..6 /\ M[5] = Append(L[5], r.said + 1) /\ r.said + 1 \in Nat
          /\ r.said + 1 > r.said
      <3>1. Pending(r) = <<>> /\ Pending(n) = <<r.said + 1>>
        BY <1>1, <1>4 DEF Pending
      <3>2. Pending(n) = Append(Pending(r), r.said + 1)
        BY <3>1
      <3> QED
        BY <1>4, <2>3, <3>2
    <2>5. \A j \in 1..6 : 5 < j => L[j] = <<>>
      <3>1. L[6] = <<>>
        BY <2>3 DEF Session, KindOf
      <3> QED
        BY <3>1
    <2>6. NextStep(L, M, 5, r.said)
      BY <2>2, <2>4, <2>5 DEF NextStep
    <2>7. InOrder(M) /\ UpTo(M, r.said + 1)
      BY <2>1, <2>6, NextSteps
    <2> QED
      BY <1>1, <1>3, <2>7 DEF M
  <1>7. StreamOf(n)
    BY <1>1, <1>3, <1>6 DEF Session, StreamOf, Waiting
  <1>8. KindOf(c, n)
    BY <1>1, <1>3 DEF Session, KindOf
  <1>9. HeadMove(r, n, Ch)
    BY <1>1, <1>4, <1>5, <1>6, <1>7, <1>8 DEF HeadMove, HeadFields, Early, Waiting
  <1>10. BytesMove(r, n, Ch)
    BY <1>1, <1>4, <1>5, <1>6, <1>7, <1>8 DEF BytesMove, BytesFields
  <1>11. ViewMove(r, n, Ch)
    BY <1>1, <1>4, <1>5, <1>6, <1>7, <1>8 DEF ViewMove, ViewFields, Hosted, Early, Waiting
  <1>12. Ch \cap LifeFields = {}
    BY DEF LifeFields
  <1> HIDE DEF Ch
  <1> QED
    BY <1>1, <1>5, <1>7, <1>8, <1>9, <1>10, <1>11, <1>12, Keeps

LEMMA FinOk ==
  ASSUME NEW c, NEW r, NEW a, NEW f, Session(c, r, a, f)
  PROVE  Session(c, [r EXCEPT !.fin = TRUE], a, f)
  <1> DEFINE n == [r EXCEPT !.fin = TRUE]
             Ch == {"fin"}
  <1> SUFFICES Session(c, n, a, f)
    OBVIOUS
  <1>1. Same(r, n, Ch) /\ n.fin = TRUE /\ n.pc = r.pc
    BY DEF Session, SessType, Same, SessFields
  <1> HIDE DEF n
  <1>2. SessType(r)
    BY DEF Session
  <1>4. Fits(n, Ch)
    BY <1>1 DEF Fits, Places, Callings, Flags, Numbers, Queues, Streams
  <1>5. HeadMove(r, n, Ch)
    BY <1>1, <1>4 DEF HeadMove, HeadFields, Early, Waiting
  <1>6. BytesMove(r, n, Ch)
    BY <1>1, <1>4 DEF BytesMove, BytesFields
  <1>7. StreamMove(r, n, Ch)
    BY <1>1, <1>4 DEF StreamMove, StreamFields, Early, Waiting
  <1>8. KindMove(r, n, Ch)
    BY <1>1, <1>4 DEF KindMove, KindFields
  <1>9. ViewMove(r, n, Ch)
    BY <1>1, <1>4 DEF ViewMove, ViewFields, Hosted, Early, Waiting
  <1>10. Ch \cap LifeFields = {}
    BY DEF LifeFields
  <1> HIDE DEF Ch
  <1> QED
    BY <1>1, <1>4, <1>5, <1>6, <1>7, <1>8, <1>9, <1>10, Keeps

\* ... and sends it.
LEMMA TalkSendsOk ==
  ASSUME NEW c, NEW r, NEW a, NEW f, Session(c, r, a, f), c.kind = "talk", r.pending # 0,
         Len(r.up) < Window
  PROVE  Session(c, [r EXCEPT !.up = Append(@, r.pending), !.pending = 0], a, f)
  <1> DEFINE n == [r EXCEPT !.up = Append(@, r.pending), !.pending = 0]
             Ch == {"pending", "up"}
  <1> SUFFICES Session(c, n, a, f)
    OBVIOUS
  <1>1. Same(r, n, Ch) /\ n.pending = 0 /\ n.up = Append(r.up, r.pending) /\ n.pc = r.pc
    BY DEF Session, SessType, Same, SessFields
  <1> HIDE DEF n
  <1>2. SessType(r)
    BY DEF Session
  <1>3. /\ n.caller = r.caller /\ n.gone = r.gone /\ n.quit = r.quit /\ n.group = r.group
        /\ n.lost = r.lost /\ n.got = r.got /\ n.down = r.down /\ n.started = r.started
        /\ n.err = r.err /\ n.src = r.src /\ n.attached = r.attached /\ n.pos = r.pos
        /\ n.from = r.from /\ n.skipped = r.skipped /\ n.held = r.held /\ n.made = r.made
        /\ n.out = r.out /\ n.post = r.post /\ n.relay = r.relay /\ n.q = r.q /\ n.pin = r.pin
        /\ n.heard = r.heard /\ n.said = r.said /\ n.writer = r.writer
    BY <1>1 DEF Same, SessFields
  <1>4. r.pending \in Nat
    BY <1>2, Typed
  <1>5. /\ Append(r.up, r.pending) \in Seq(Nat) /\ Len(Append(r.up, r.pending)) = Len(r.up) + 1
        /\ DOMAIN r.up = 1..Len(r.up) /\ DOMAIN Append(r.up, r.pending) = 1..(Len(r.up) + 1)
        /\ Len(r.up) \in Nat /\ Append(r.up, r.pending)[Len(r.up) + 1] = r.pending
        /\ \A i \in DOMAIN r.up : Append(r.up, r.pending)[i] = r.up[i]
    <2>1. r.up \in Seq(Nat) /\ r.pending \in Nat
      BY <1>2, Typed
    <2> QED
      BY <2>1, AppendIs
  <1>6. n.up \in Seq(Nat) /\ n.pending \in Nat
    BY <1>1, <1>5
  <1>7. Fits(n, Ch)
    BY <1>1, <1>6 DEF Fits, Places, Callings, Flags, Numbers, Queues, Streams
  <1>8. InOrder(Stages(n)) /\ UpTo(Stages(n), n.said)
    <2> DEFINE L == Stages(r)
               M == Stages(n)
    <2>1. AreStages(L) /\ InOrder(L) /\ UpTo(L, r.said) /\ r.said \in Nat
      BY <1>2, Typed, StagesType DEF Session, StreamOf
    <2>2. Except(L, M, {4, 5})
      BY <1>1, <1>3, ExceptIs
    <2>3. /\ L[1] = r.heard /\ L[2] = r.pin /\ L[3] = r.q /\ L[4] = r.up /\ L[6] = r.post
          /\ M[1] = n.heard /\ M[2] = n.pin /\ M[3] = n.q /\ M[4] = n.up /\ M[6] = n.post
          /\ L[5] = Pending(r) /\ M[5] = Pending(n)
      BY StagesAre
    <2> HIDE DEF L, M
    <2>4. /\ 4 \in 1..6 /\ 5 \in 1..6 /\ 4 < 5 /\ L[5] # <<>> /\ M[5] = Tail(L[5])
          /\ M[4] = Append(L[4], Head(L[5])) /\ Head(L[5]) # 0
      <3>1. Pending(r) = <<r.pending>> /\ Pending(n) = <<>>
        BY <1>1 DEF Pending
      <3>2. /\ Pending(r) # <<>> /\ Head(Pending(r)) = r.pending
            /\ Pending(n) = Tail(Pending(r))
        BY <3>1
      <3> QED
        BY <1>1, <2>3, <3>2
    <2>5. \A j \in 1..6 : 4 < j /\ j < 5 => L[j] = <<>>
      OBVIOUS
    <2>6. PassStep(L, M, 4, 5)
      BY <2>2, <2>4, <2>5 DEF PassStep
    <2>7. InOrder(M) /\ UpTo(M, r.said)
      <3> DEFINE v == r.said
      <3>1. AreStages(L) /\ InOrder(L) /\ UpTo(L, v) /\ v \in Nat
        BY <2>1
      <3> HIDE DEF v
      <3>2. InOrder(M) /\ UpTo(M, v)
        BY <2>6, <3>1, PassSteps
      <3> QED
        BY <3>2 DEF v
    <2> QED
      BY <1>1, <1>3, <2>7 DEF M
  <1>9. NoZero(n.up)
    <2>1. \A i \in DOMAIN n.up : i \in DOMAIN r.up \/ i = Len(r.up) + 1
      BY <1>1, <1>5
    <2> QED
      BY <1>1, <1>5, <2>1 DEF Session, StreamOf, NoZero
  <1>10. StreamOf(n)
    BY <1>1, <1>3, <1>8, <1>9 DEF Session, StreamOf, Waiting
  <1>11. KindOf(c, n)
    BY <1>1, <1>3, <1>5, BoundsAssumption DEF Session, KindOf
  <1>12. HeadMove(r, n, Ch)
    BY <1>1, <1>4, <1>6, <1>7, <1>8, <1>9, <1>10, <1>11 DEF HeadMove, HeadFields, Early, Waiting
  <1>13. BytesMove(r, n, Ch)
    BY <1>1, <1>4, <1>6, <1>7, <1>8, <1>9, <1>10, <1>11 DEF BytesMove, BytesFields
  <1>14. ViewMove(r, n, Ch)
    BY <1>1, <1>4, <1>6, <1>7, <1>8, <1>9, <1>10, <1>11 DEF ViewMove, ViewFields, Hosted, Early, Waiting
  <1>15. Ch \cap LifeFields = {}
    BY DEF LifeFields
  <1> HIDE DEF Ch
  <1> QED
    BY <1>1, <1>7, <1>10, <1>11, <1>12, <1>13, <1>14, <1>15, Keeps

\* A browser's POST holds its sender for a while, and lets it go.
LEMMA PostingOk ==
  ASSUME NEW c, NEW r, NEW a, NEW f, NEW b \in BOOLEAN, Session(c, r, a, f)
  PROVE  Session(c, [r EXCEPT !.posting = b], a, f)
  <1> DEFINE n == [r EXCEPT !.posting = b]
             Ch == {"posting"}
  <1> SUFFICES Session(c, n, a, f)
    OBVIOUS
  <1>1. Same(r, n, Ch) /\ n.posting = b /\ n.pc = r.pc
    BY DEF Session, SessType, Same, SessFields
  <1> HIDE DEF n
  <1>2. SessType(r)
    BY DEF Session
  <1>4. Fits(n, Ch)
    BY <1>1 DEF Fits, Places, Callings, Flags, Numbers, Queues, Streams
  <1>5. HeadMove(r, n, Ch)
    BY <1>1, <1>4 DEF HeadMove, HeadFields, Early, Waiting
  <1>6. BytesMove(r, n, Ch)
    BY <1>1, <1>4 DEF BytesMove, BytesFields
  <1>7. StreamMove(r, n, Ch)
    BY <1>1, <1>4 DEF StreamMove, StreamFields, Early, Waiting
  <1>8. KindMove(r, n, Ch)
    BY <1>1, <1>4 DEF KindMove, KindFields
  <1>9. ViewMove(r, n, Ch)
    BY <1>1, <1>4 DEF ViewMove, ViewFields, Hosted, Early, Waiting
  <1>10. Ch \cap LifeFields = {}
    BY DEF LifeFields
  <1> HIDE DEF Ch
  <1> QED
    BY <1>1, <1>4, <1>5, <1>6, <1>7, <1>8, <1>9, <1>10, Keeps

\* A browser posts: after the end of the exchange nothing follows ...
LEMMA PostEndsOk ==
  ASSUME NEW c, NEW r, NEW a, NEW f, NEW k, Session(c, r, a, f), k \in Nat, r.said <= k
  PROVE  Session(c, [r EXCEPT !.said = k], a, f)
  <1> DEFINE n == [r EXCEPT !.said = k]
             Ch == {"said"}
  <1> SUFFICES Session(c, n, a, f)
    OBVIOUS
  <1>1. Same(r, n, Ch) /\ n.said = k /\ n.pc = r.pc
    BY DEF Session, SessType, Same, SessFields
  <1> HIDE DEF n
  <1>2. SessType(r)
    BY DEF Session
  <1>3. /\ n.caller = r.caller /\ n.gone = r.gone /\ n.quit = r.quit /\ n.group = r.group
        /\ n.lost = r.lost /\ n.got = r.got /\ n.down = r.down /\ n.started = r.started
        /\ n.err = r.err /\ n.src = r.src /\ n.attached = r.attached /\ n.pos = r.pos
        /\ n.from = r.from /\ n.skipped = r.skipped /\ n.held = r.held /\ n.made = r.made
        /\ n.out = r.out /\ n.pending = r.pending /\ n.post = r.post /\ n.relay = r.relay
        /\ n.q = r.q /\ n.pin = r.pin /\ n.up = r.up /\ n.heard = r.heard /\ n.writer = r.writer
    BY <1>1 DEF Same, SessFields
  <1>4. Fits(n, Ch)
    BY <1>1 DEF Fits, Places, Callings, Flags, Numbers, Queues, Streams
  <1>5. StreamOf(n)
    <2>1. Stages(n) = Stages(r)
      BY <1>3 DEF Stages, Pending
    <2>2. \A j \in 1..6 : \A x \in Values(Stages(r)[j]) : x <= n.said
      <3> SUFFICES ASSUME NEW j \in 1..6, NEW x \in Values(Stages(r)[j]) PROVE x <= n.said
        OBVIOUS
      <3>1. x <= r.said
        BY DEF Session, StreamOf, UpTo
      <3>2. x \in Nat
        <4>1. Stages(r)[j] \in Seq(Nat)
          BY <1>2, StagesType DEF AreStages
        <4>2. DOMAIN Stages(r)[j] = 1..Len(Stages(r)[j])
          BY <4>1, LenProperties
        <4> QED
          BY <4>1, <4>2, ElementOfSeq DEF Values
      <3> QED
        BY <1>1, <1>2, <3>1, <3>2, Typed
    <2> QED
      BY <1>1, <1>3, <2>1, <2>2 DEF Session, StreamOf, UpTo, Waiting
  <1>6. HeadMove(r, n, Ch)
    BY <1>1, <1>4, <1>5 DEF HeadMove, HeadFields, Early, Waiting
  <1>7. BytesMove(r, n, Ch)
    BY <1>1, <1>4, <1>5 DEF BytesMove, BytesFields
  <1>8. KindMove(r, n, Ch)
    BY <1>1, <1>4, <1>5 DEF KindMove, KindFields
  <1>9. ViewMove(r, n, Ch)
    BY <1>1, <1>4, <1>5 DEF ViewMove, ViewFields, Hosted, Early, Waiting
  <1>10. Ch \cap LifeFields = {}
    BY DEF LifeFields
  <1> HIDE DEF Ch
  <1> QED
    BY <1>1, <1>4, <1>5, <1>6, <1>7, <1>8, <1>9, <1>10, Keeps

LEMMA NothingMoreOk ==
  ASSUME NEW s, NEW r, NEW a, NEW f, Session(Caller(s), r, a, f), Caller(s).chunks \in Nat,
         r.said <= Caller(s).chunks
  PROVE  /\ Session(Caller(s), NothingMore(s, r), a, f)
         /\ NothingMore(s, r).attached = r.attached /\ NothingMore(s, r).relay = r.relay
  <1> DEFINE p == [r EXCEPT !.posting = FALSE]
             k == Caller(s).chunks + 1
  <1>1. Session(Caller(s), p, a, f) /\ DOMAIN r = SessFields /\ r.said \in Nat
    BY PostingOk, Typed DEF Session, SessType
  <1>2. k \in Nat /\ p.said <= k
    BY <1>1 DEF SessFields
  <1>3. NothingMore(s, r) = [p EXCEPT !.said = k]
    BY <1>1 DEF NothingMore, SessFields
  <1>4. NothingMore(s, r).attached = r.attached /\ NothingMore(s, r).relay = r.relay
    BY <1>1 DEF NothingMore, SessFields
  <1> HIDE DEF p, k
  <1>5. Session(Caller(s), [p EXCEPT !.said = k], a, f)
    BY <1>1, <1>2, PostEndsOk
  <1> QED
    BY <1>3, <1>4, <1>5

\* ... the last post of a local exchange ends its upstream ...
LEMMA PostFinOk ==
  ASSUME NEW c, NEW r, NEW a, NEW f, Session(c, r, a, f)
  PROVE  Session(c, [[r EXCEPT !.said = @ + 1] EXCEPT !.fin = TRUE], a, f)
  <1> DEFINE n == [[r EXCEPT !.said = @ + 1] EXCEPT !.fin = TRUE]
             Ch == {"said", "fin"}
  <1> SUFFICES Session(c, n, a, f)
    OBVIOUS
  <1>1. Same(r, n, Ch) /\ n.said = r.said + 1 /\ n.fin = TRUE /\ n.pc = r.pc
    BY DEF Session, SessType, Same, SessFields
  <1> HIDE DEF n
  <1>2. SessType(r)
    BY DEF Session
  <1>3. /\ n.caller = r.caller /\ n.gone = r.gone /\ n.quit = r.quit /\ n.group = r.group
        /\ n.lost = r.lost /\ n.got = r.got /\ n.down = r.down /\ n.started = r.started
        /\ n.err = r.err /\ n.src = r.src /\ n.attached = r.attached /\ n.pos = r.pos
        /\ n.from = r.from /\ n.skipped = r.skipped /\ n.held = r.held /\ n.made = r.made
        /\ n.out = r.out /\ n.pending = r.pending /\ n.post = r.post /\ n.relay = r.relay
        /\ n.q = r.q /\ n.pin = r.pin /\ n.up = r.up /\ n.heard = r.heard /\ n.writer = r.writer
    BY <1>1 DEF Same, SessFields
  <1>4. n.said \in Nat
    BY <1>1, <1>2, Typed
  <1>5. Fits(n, Ch)
    BY <1>1, <1>4 DEF Fits, Places, Callings, Flags, Numbers, Queues, Streams
  <1>6. StreamOf(n)
    <2>1. Stages(n) = Stages(r)
      BY <1>3 DEF Stages, Pending
    <2>2. \A j \in 1..6 : \A x \in Values(Stages(r)[j]) : x <= n.said
      <3> SUFFICES ASSUME NEW j \in 1..6, NEW x \in Values(Stages(r)[j]) PROVE x <= n.said
        OBVIOUS
      <3>1. x <= r.said
        BY DEF Session, StreamOf, UpTo
      <3>2. x \in Nat
        <4>1. Stages(r)[j] \in Seq(Nat)
          BY <1>2, StagesType DEF AreStages
        <4>2. DOMAIN Stages(r)[j] = 1..Len(Stages(r)[j])
          BY <4>1, LenProperties
        <4> QED
          BY <4>1, <4>2, ElementOfSeq DEF Values
      <3> QED
        BY <1>1, <1>2, <3>1, <3>2, Typed
    <2> QED
      BY <1>1, <1>3, <2>1, <2>2 DEF Session, StreamOf, UpTo, Waiting
  <1>7. HeadMove(r, n, Ch)
    BY <1>1, <1>4, <1>5, <1>6 DEF HeadMove, HeadFields, Early, Waiting
  <1>8. BytesMove(r, n, Ch)
    BY <1>1, <1>4, <1>5, <1>6 DEF BytesMove, BytesFields
  <1>9. KindMove(r, n, Ch)
    BY <1>1, <1>4, <1>5, <1>6 DEF KindMove, KindFields
  <1>10. ViewMove(r, n, Ch)
    BY <1>1, <1>4, <1>5, <1>6 DEF ViewMove, ViewFields, Hosted, Early, Waiting
  <1>11. Ch \cap LifeFields = {}
    BY DEF LifeFields
  <1> HIDE DEF Ch
  <1> QED
    BY <1>1, <1>5, <1>6, <1>7, <1>8, <1>9, <1>10, <1>11, Keeps

\* ... and any other goes straight to the handler ...
LEMMA PostLocalOk ==
  ASSUME NEW c, NEW r, NEW a, NEW f, Session(c, r, a, f), c.kind = "local", Len(r.up) < PostCap
  PROVE  Session(c, [[r EXCEPT !.said = @ + 1] EXCEPT !.up = Append(@, r.said + 1)], a, f)
  <1> DEFINE n == [[r EXCEPT !.said = @ + 1] EXCEPT !.up = Append(@, r.said + 1)]
             Ch == {"said", "up"}
  <1> SUFFICES Session(c, n, a, f)
    OBVIOUS
  <1>1. Same(r, n, Ch) /\ n.said = r.said + 1 /\ n.up = Append(r.up, r.said + 1) /\ n.pc = r.pc
    BY DEF Session, SessType, Same, SessFields
  <1> HIDE DEF n
  <1>2. SessType(r)
    BY DEF Session
  <1>3. /\ n.caller = r.caller /\ n.gone = r.gone /\ n.quit = r.quit /\ n.group = r.group
        /\ n.lost = r.lost /\ n.got = r.got /\ n.down = r.down /\ n.started = r.started
        /\ n.err = r.err /\ n.src = r.src /\ n.attached = r.attached /\ n.pos = r.pos
        /\ n.from = r.from /\ n.skipped = r.skipped /\ n.held = r.held /\ n.made = r.made
        /\ n.out = r.out /\ n.pending = r.pending /\ n.post = r.post /\ n.relay = r.relay
        /\ n.q = r.q /\ n.pin = r.pin /\ n.heard = r.heard /\ n.writer = r.writer
    BY <1>1 DEF Same, SessFields
  <1>4. r.said \in Nat /\ r.said + 1 \in Nat /\ r.said + 1 > r.said /\ r.said + 1 # 0
    BY <1>2, Typed
  <1>5. /\ Append(r.up, (r.said + 1)) \in Seq(Nat) /\ Len(Append(r.up, (r.said + 1))) = Len(r.up) + 1
        /\ DOMAIN r.up = 1..Len(r.up) /\ DOMAIN Append(r.up, (r.said + 1)) = 1..(Len(r.up) + 1)
        /\ Len(r.up) \in Nat /\ Append(r.up, (r.said + 1))[Len(r.up) + 1] = (r.said + 1)
        /\ \A i \in DOMAIN r.up : Append(r.up, (r.said + 1))[i] = r.up[i]
    <2>1. r.up \in Seq(Nat) /\ (r.said + 1) \in Nat
      BY <1>2, <1>4, Typed
    <2> QED
      BY <2>1, AppendIs
  <1>6. n.up \in Seq(Nat) /\ n.said \in Nat
    BY <1>1, <1>4, <1>5
  <1>7. Fits(n, Ch)
    BY <1>1, <1>6 DEF Fits, Places, Callings, Flags, Numbers, Queues, Streams
  <1>8. InOrder(Stages(n)) /\ UpTo(Stages(n), n.said)
    <2> DEFINE L == Stages(r)
               M == Stages(n)
    <2>1. AreStages(L) /\ InOrder(L) /\ UpTo(L, r.said) /\ r.said \in Nat
      BY <1>2, Typed, StagesType DEF Session, StreamOf
    <2>2. Except(L, M, {4})
      BY <1>1, <1>3, <1>4, ExceptIs
    <2>3. /\ L[1] = r.heard /\ L[2] = r.pin /\ L[3] = r.q /\ L[4] = r.up /\ L[6] = r.post
          /\ M[1] = n.heard /\ M[2] = n.pin /\ M[3] = n.q /\ M[4] = n.up /\ M[6] = n.post
          /\ L[5] = Pending(r) /\ M[5] = Pending(n)
      BY StagesAre
    <2> HIDE DEF L, M
    <2>4. /\ 4 \in 1..6 /\ M[4] = Append(L[4], r.said + 1) /\ r.said + 1 \in Nat
          /\ r.said + 1 > r.said
      BY <1>1, <1>3, <1>4, <2>3
    <2>5. \A j \in 1..6 : 4 < j => L[j] = <<>>
      <3>1. L[5] = <<>> /\ L[6] = <<>>
        BY <2>3 DEF Session, KindOf, Pending
      <3>2. \A j \in 1..6 : 4 < j => j = 5 \/ j = 6
        OBVIOUS
      <3> QED
        BY <3>1, <3>2
    <2>6. NextStep(L, M, 4, r.said)
      BY <2>2, <2>4, <2>5 DEF NextStep
    <2>7. InOrder(M) /\ UpTo(M, r.said + 1)
      BY <2>1, <2>6, NextSteps
    <2> QED
      BY <1>1, <1>3, <2>7 DEF M
  <1>9. NoZero(n.up)
    <2>1. \A i \in DOMAIN n.up : i \in DOMAIN r.up \/ i = Len(r.up) + 1
      BY <1>1, <1>5
    <2> QED
      BY <1>1, <1>4, <1>5, <2>1 DEF Session, StreamOf, NoZero
  <1>10. StreamOf(n)
    BY <1>1, <1>3, <1>8, <1>9 DEF Session, StreamOf, Waiting
  <1>11. KindOf(c, n)
    BY <1>1, <1>3, <1>5, BoundsAssumption DEF Session, KindOf
  <1>12. HeadMove(r, n, Ch)
    BY <1>1, <1>4, <1>6, <1>7, <1>8, <1>9, <1>10, <1>11 DEF HeadMove, HeadFields, Early, Waiting
  <1>13. BytesMove(r, n, Ch)
    BY <1>1, <1>4, <1>6, <1>7, <1>8, <1>9, <1>10, <1>11 DEF BytesMove, BytesFields
  <1>14. ViewMove(r, n, Ch)
    BY <1>1, <1>4, <1>6, <1>7, <1>8, <1>9, <1>10, <1>11 DEF ViewMove, ViewFields, Hosted, Early, Waiting
  <1>15. Ch \cap LifeFields = {}
    BY DEF LifeFields
  <1> HIDE DEF Ch
  <1> QED
    BY <1>1, <1>7, <1>10, <1>11, <1>12, <1>13, <1>14, <1>15, Keeps

\* ... or waits for the relay ...
LEMMA PostRelayOk ==
  ASSUME NEW c, NEW r, NEW a, NEW f, Session(c, r, a, f), c.kind = "relay", Len(r.post) < PostCap
  PROVE  Session(c, [[r EXCEPT !.said = @ + 1] EXCEPT !.post = Append(@, r.said + 1)], a, f)
  <1> DEFINE n == [[r EXCEPT !.said = @ + 1] EXCEPT !.post = Append(@, r.said + 1)]
             Ch == {"said", "post"}
  <1> SUFFICES Session(c, n, a, f)
    OBVIOUS
  <1>1. /\ Same(r, n, Ch) /\ n.said = r.said + 1 /\ n.post = Append(r.post, r.said + 1)
        /\ n.pc = r.pc
    BY DEF Session, SessType, Same, SessFields
  <1> HIDE DEF n
  <1>2. SessType(r)
    BY DEF Session
  <1>3. /\ n.caller = r.caller /\ n.gone = r.gone /\ n.quit = r.quit /\ n.group = r.group
        /\ n.lost = r.lost /\ n.got = r.got /\ n.down = r.down /\ n.started = r.started
        /\ n.err = r.err /\ n.src = r.src /\ n.attached = r.attached /\ n.pos = r.pos
        /\ n.from = r.from /\ n.skipped = r.skipped /\ n.held = r.held /\ n.made = r.made
        /\ n.out = r.out /\ n.pending = r.pending /\ n.relay = r.relay /\ n.q = r.q
        /\ n.pin = r.pin /\ n.up = r.up /\ n.heard = r.heard /\ n.writer = r.writer
    BY <1>1 DEF Same, SessFields
  <1>4. r.said \in Nat /\ r.said + 1 \in Nat /\ r.said + 1 > r.said /\ r.said + 1 # 0
    BY <1>2, Typed
  <1>5. /\ Append(r.post, (r.said + 1)) \in Seq(Nat) /\ Len(Append(r.post, (r.said + 1))) = Len(r.post) + 1
        /\ DOMAIN r.post = 1..Len(r.post) /\ DOMAIN Append(r.post, (r.said + 1)) = 1..(Len(r.post) + 1)
        /\ Len(r.post) \in Nat /\ Append(r.post, (r.said + 1))[Len(r.post) + 1] = (r.said + 1)
        /\ \A i \in DOMAIN r.post : Append(r.post, (r.said + 1))[i] = r.post[i]
    <2>1. r.post \in Seq(Nat) /\ (r.said + 1) \in Nat
      BY <1>2, <1>4, Typed
    <2> QED
      BY <2>1, AppendIs
  <1>6. n.post \in Seq(Nat) /\ n.said \in Nat
    BY <1>1, <1>4, <1>5
  <1>7. Fits(n, Ch)
    BY <1>1, <1>6 DEF Fits, Places, Callings, Flags, Numbers, Queues, Streams
  <1>8. InOrder(Stages(n)) /\ UpTo(Stages(n), n.said)
    <2> DEFINE L == Stages(r)
               M == Stages(n)
    <2>1. AreStages(L) /\ InOrder(L) /\ UpTo(L, r.said) /\ r.said \in Nat
      BY <1>2, Typed, StagesType DEF Session, StreamOf
    <2>2. Except(L, M, {6})
      BY <1>1, <1>3, <1>4, ExceptIs
    <2>3. /\ L[1] = r.heard /\ L[2] = r.pin /\ L[3] = r.q /\ L[4] = r.up /\ L[6] = r.post
          /\ M[1] = n.heard /\ M[2] = n.pin /\ M[3] = n.q /\ M[4] = n.up /\ M[6] = n.post
          /\ L[5] = Pending(r) /\ M[5] = Pending(n)
      BY StagesAre
    <2> HIDE DEF L, M
    <2>4. /\ 6 \in 1..6 /\ M[6] = Append(L[6], r.said + 1) /\ r.said + 1 \in Nat
          /\ r.said + 1 > r.said
      BY <1>1, <1>3, <1>4, <2>3
    <2>5. \A j \in 1..6 : 6 < j => L[j] = <<>>
      OBVIOUS
    <2>6. NextStep(L, M, 6, r.said)
      BY <2>2, <2>4, <2>5 DEF NextStep
    <2>7. InOrder(M) /\ UpTo(M, r.said + 1)
      BY <2>1, <2>6, NextSteps
    <2> QED
      BY <1>1, <1>3, <2>7 DEF M
  <1>9. StreamOf(n)
    BY <1>1, <1>3, <1>8 DEF Session, StreamOf, Waiting
  <1>10. KindOf(c, n)
    <2>1. r.relay = "send" => r.post # <<>> /\ Head(r.post) # 0
      BY DEF Session, KindOf
    <2>2. r.post # <<>> => n.post # <<>> /\ Head(n.post) = Head(r.post)
      <3> SUFFICES ASSUME r.post # <<>> PROVE n.post # <<>> /\ Head(n.post) = Head(r.post)
        OBVIOUS
      <3>1. r.post \in Seq(Nat) /\ n.post \in Seq(Nat)
        BY <1>2, <1>6, Typed
      <3>2. Len(r.post) # 0 /\ Len(n.post) # 0 /\ 1 \in DOMAIN r.post
        BY <1>1, <1>5, <3>1, EmptySeq
      <3>3. n.post # <<>>
        BY <3>2
      <3>4. Head(r.post) = r.post[1] /\ Head(n.post) = n.post[1]
        BY <3>1, <3>3, HeadTailProperties
      <3> QED
        BY <1>1, <1>5, <3>2, <3>3, <3>4
    <2>3. n.relay = r.relay
      BY <1>1 DEF Same, SessFields
    <2> QED
      BY <1>1, <1>3, <1>5, <2>1, <2>2, <2>3, BoundsAssumption DEF Session, KindOf
  <1>11. HeadMove(r, n, Ch)
    BY <1>1, <1>4, <1>6, <1>7, <1>8, <1>9, <1>10 DEF HeadMove, HeadFields, Early, Waiting
  <1>12. BytesMove(r, n, Ch)
    BY <1>1, <1>4, <1>6, <1>7, <1>8, <1>9, <1>10 DEF BytesMove, BytesFields
  <1>13. ViewMove(r, n, Ch)
    BY <1>1, <1>4, <1>6, <1>7, <1>8, <1>9, <1>10 DEF ViewMove, ViewFields, Hosted, Early, Waiting
  <1>14. Ch \cap LifeFields = {}
    BY DEF LifeFields
  <1> HIDE DEF Ch
  <1> QED
    BY <1>1, <1>7, <1>9, <1>10, <1>11, <1>12, <1>13, <1>14, Keeps

\* ... with a last one that carries Rsntr-Fin.
LEMMA PostLastOk ==
  ASSUME NEW c, NEW r, NEW a, NEW f, Session(c, r, a, f), c.kind = "relay", Len(r.post) < PostCap
  PROVE  Session(c, [[r EXCEPT !.said = @ + 1] EXCEPT !.post = Append(@, 0)], a, f)
  <1> DEFINE n == [[r EXCEPT !.said = @ + 1] EXCEPT !.post = Append(@, 0)]
             Ch == {"said", "post"}
  <1> SUFFICES Session(c, n, a, f)
    OBVIOUS
  <1>1. Same(r, n, Ch) /\ n.said = r.said + 1 /\ n.post = Append(r.post, 0) /\ n.pc = r.pc
    BY DEF Session, SessType, Same, SessFields
  <1> HIDE DEF n
  <1>2. SessType(r)
    BY DEF Session
  <1>3. /\ n.caller = r.caller /\ n.gone = r.gone /\ n.quit = r.quit /\ n.group = r.group
        /\ n.lost = r.lost /\ n.got = r.got /\ n.down = r.down /\ n.started = r.started
        /\ n.err = r.err /\ n.src = r.src /\ n.attached = r.attached /\ n.pos = r.pos
        /\ n.from = r.from /\ n.skipped = r.skipped /\ n.held = r.held /\ n.made = r.made
        /\ n.out = r.out /\ n.pending = r.pending /\ n.relay = r.relay /\ n.q = r.q
        /\ n.pin = r.pin /\ n.up = r.up /\ n.heard = r.heard /\ n.writer = r.writer
    BY <1>1 DEF Same, SessFields
  <1>4. r.said \in Nat /\ r.said + 1 \in Nat /\ r.said + 1 > r.said /\ r.said + 1 # 0
    BY <1>2, Typed
  <1>5. /\ Append(r.post, 0) \in Seq(Nat) /\ Len(Append(r.post, 0)) = Len(r.post) + 1
        /\ DOMAIN r.post = 1..Len(r.post) /\ DOMAIN Append(r.post, 0) = 1..(Len(r.post) + 1)
        /\ Len(r.post) \in Nat /\ Append(r.post, 0)[Len(r.post) + 1] = 0
        /\ \A i \in DOMAIN r.post : Append(r.post, 0)[i] = r.post[i]
    <2>1. r.post \in Seq(Nat) /\ 0 \in Nat
      BY <1>2, <1>4, Typed
    <2> QED
      BY <2>1, AppendIs
  <1>6. n.post \in Seq(Nat) /\ n.said \in Nat
    BY <1>1, <1>4, <1>5
  <1>7. Fits(n, Ch)
    BY <1>1, <1>6 DEF Fits, Places, Callings, Flags, Numbers, Queues, Streams
  <1>8. InOrder(Stages(n)) /\ UpTo(Stages(n), n.said)
    <2> DEFINE L == Stages(r)
               M == Stages(n)
    <2>1. AreStages(L) /\ InOrder(L) /\ UpTo(L, r.said) /\ r.said \in Nat
      BY <1>2, Typed, StagesType DEF Session, StreamOf
    <2>2. Except(L, M, {6})
      BY <1>1, <1>3, ExceptIs
    <2>3. /\ L[1] = r.heard /\ L[2] = r.pin /\ L[3] = r.q /\ L[4] = r.up /\ L[6] = r.post
          /\ M[1] = n.heard /\ M[2] = n.pin /\ M[3] = n.q /\ M[4] = n.up /\ M[6] = n.post
          /\ L[5] = Pending(r) /\ M[5] = Pending(n)
      BY StagesAre
    <2> HIDE DEF L, M
    <2>4. 6 \in 1..6 /\ M[6] = Append(L[6], 0)
      BY <1>1, <1>3, <2>3
    <2>7. InOrder(M) /\ UpTo(M, r.said)
      BY <2>1, <2>2, <2>4, EntersZero
    <2>8. AreStages(M)
      BY <1>4, <1>6, <2>1, <2>2, <2>3 DEF Except, AreStages
    <2>9. UpTo(M, r.said + 1)
      <3> SUFFICES ASSUME NEW j \in 1..6, NEW x \in Values(M[j]) PROVE x <= r.said + 1
        BY DEF UpTo
      <3>1. x <= r.said
        BY <2>7 DEF UpTo
      <3>2. x \in Nat
        <4>1. M[j] \in Seq(Nat)
          BY <2>8 DEF AreStages
        <4>2. DOMAIN M[j] = 1..Len(M[j])
          BY <4>1, LenProperties
        <4> QED
          BY <4>1, <4>2, ElementOfSeq DEF Values
      <3> QED
        BY <1>4, <3>1, <3>2
    <2> QED
      BY <1>1, <2>7, <2>9 DEF M
  <1>9. StreamOf(n)
    BY <1>1, <1>3, <1>8 DEF Session, StreamOf, Waiting
  <1>10. KindOf(c, n)
    <2>1. r.relay = "send" => r.post # <<>> /\ Head(r.post) # 0
      BY DEF Session, KindOf
    <2>2. r.post # <<>> => n.post # <<>> /\ Head(n.post) = Head(r.post)
      <3> SUFFICES ASSUME r.post # <<>> PROVE n.post # <<>> /\ Head(n.post) = Head(r.post)
        OBVIOUS
      <3>1. r.post \in Seq(Nat) /\ n.post \in Seq(Nat)
        BY <1>2, <1>6, Typed
      <3>2. Len(r.post) # 0 /\ Len(n.post) # 0 /\ 1 \in DOMAIN r.post
        BY <1>1, <1>5, <3>1, EmptySeq
      <3>3. n.post # <<>>
        BY <3>2
      <3>4. Head(r.post) = r.post[1] /\ Head(n.post) = n.post[1]
        BY <3>1, <3>3, HeadTailProperties
      <3> QED
        BY <1>1, <1>5, <3>2, <3>3, <3>4
    <2>3. n.relay = r.relay
      BY <1>1 DEF Same, SessFields
    <2> QED
      BY <1>1, <1>3, <1>5, <2>1, <2>2, <2>3, BoundsAssumption DEF Session, KindOf
  <1>11. HeadMove(r, n, Ch)
    BY <1>1, <1>4, <1>6, <1>7, <1>8, <1>9, <1>10 DEF HeadMove, HeadFields, Early, Waiting
  <1>12. BytesMove(r, n, Ch)
    BY <1>1, <1>4, <1>6, <1>7, <1>8, <1>9, <1>10 DEF BytesMove, BytesFields
  <1>13. ViewMove(r, n, Ch)
    BY <1>1, <1>4, <1>6, <1>7, <1>8, <1>9, <1>10 DEF ViewMove, ViewFields, Hosted, Early, Waiting
  <1>14. Ch \cap LifeFields = {}
    BY DEF LifeFields
  <1> HIDE DEF Ch
  <1> QED
    BY <1>1, <1>7, <1>9, <1>10, <1>11, <1>12, <1>13, <1>14, Keeps

\* A relay ends.
LEMMA RelayEndsOk ==
  ASSUME NEW c, NEW r, NEW a, NEW f, Session(c, r, a, f), r.relay # "none",
         r.caller = "left" \/ r.pc = "done"
  PROVE  Session(c, [r EXCEPT !.relay = "done", !.gone = TRUE], a, f)
  <1> DEFINE n == [r EXCEPT !.relay = "done", !.gone = TRUE]
             Ch == {"relay", "gone"}
  <1> SUFFICES Session(c, n, a, f)
    OBVIOUS
  <1>1. Same(r, n, Ch) /\ n.relay = "done" /\ n.gone = TRUE /\ n.pc = r.pc
    BY DEF Session, SessType, Same, SessFields
  <1> HIDE DEF n
  <1>2. SessType(r)
    BY DEF Session
  <1>3. /\ n.caller = r.caller /\ n.quit = r.quit /\ n.group = r.group /\ n.lost = r.lost
        /\ n.got = r.got /\ n.down = r.down /\ n.started = r.started /\ n.err = r.err
        /\ n.src = r.src /\ n.attached = r.attached /\ n.pos = r.pos /\ n.from = r.from
        /\ n.skipped = r.skipped /\ n.held = r.held /\ n.made = r.made /\ n.out = r.out
        /\ n.pending = r.pending /\ n.post = r.post /\ n.q = r.q /\ n.pin = r.pin /\ n.up = r.up
        /\ n.heard = r.heard /\ n.said = r.said /\ n.writer = r.writer
    BY <1>1 DEF Same, SessFields
  <1>4. Fits(n, Ch)
    BY <1>1 DEF Fits, Places, Callings, Flags, Numbers, Queues, Streams
  <1>5. r.pc # "new"
    BY DEF Session, KindOf
  <1>6. LifeOf(n, a)
    BY <1>1, <1>3, <1>5 DEF Session, LifeOf, Waiting, Hosted
  <1>7. KindOf(c, n)
    BY <1>1, <1>3, <1>5 DEF Session, KindOf
  <1>8. HeadMove(r, n, Ch)
    BY <1>1, <1>4, <1>5, <1>6, <1>7 DEF HeadMove, HeadFields, Early, Waiting
  <1>9. BytesMove(r, n, Ch)
    BY <1>1, <1>4, <1>5, <1>6, <1>7 DEF BytesMove, BytesFields
  <1>10. StreamMove(r, n, Ch)
    BY <1>1, <1>4, <1>5, <1>6, <1>7 DEF StreamMove, StreamFields, Early, Waiting
  <1>11. ViewMove(r, n, Ch)
    BY <1>1, <1>4, <1>5, <1>6, <1>7 DEF ViewMove, ViewFields, Hosted, Early, Waiting
  <1> HIDE DEF Ch
  <1> QED
    BY <1>1, <1>4, <1>6, <1>7, <1>8, <1>9, <1>10, <1>11, Keeps

\* A relay takes a post ...
LEMMA RelayTurnsOk ==
  ASSUME NEW c, NEW r, NEW a, NEW f, Session(c, r, a, f), r.relay = "run", r.post # <<>>,
         Head(r.post) # 0
  PROVE  Session(c, [r EXCEPT !.relay = "send"], a, f)
  <1> DEFINE n == [r EXCEPT !.relay = "send"]
             Ch == {"relay"}
  <1> SUFFICES Session(c, n, a, f)
    OBVIOUS
  <1>1. Same(r, n, Ch) /\ n.relay = "send" /\ n.pc = r.pc
    BY DEF Session, SessType, Same, SessFields
  <1> HIDE DEF n
  <1>2. SessType(r)
    BY DEF Session
  <1>3. /\ n.caller = r.caller /\ n.gone = r.gone /\ n.quit = r.quit /\ n.group = r.group
        /\ n.lost = r.lost /\ n.got = r.got /\ n.down = r.down /\ n.started = r.started
        /\ n.err = r.err /\ n.src = r.src /\ n.attached = r.attached /\ n.pos = r.pos
        /\ n.from = r.from /\ n.skipped = r.skipped /\ n.held = r.held /\ n.made = r.made
        /\ n.out = r.out /\ n.pending = r.pending /\ n.post = r.post /\ n.q = r.q /\ n.pin = r.pin
        /\ n.up = r.up /\ n.heard = r.heard /\ n.said = r.said /\ n.writer = r.writer
    BY <1>1 DEF Same, SessFields
  <1>4. Fits(n, Ch)
    BY <1>1 DEF Fits, Places, Callings, Flags, Numbers, Queues, Streams
  <1>5. r.pc # "new"
    BY DEF Session, KindOf
  <1>6. KindOf(c, n)
    BY <1>1, <1>3, <1>5 DEF Session, KindOf
  <1>7. HeadMove(r, n, Ch)
    BY <1>1, <1>4, <1>5, <1>6 DEF HeadMove, HeadFields, Early, Waiting
  <1>8. BytesMove(r, n, Ch)
    BY <1>1, <1>4, <1>5, <1>6 DEF BytesMove, BytesFields
  <1>9. StreamMove(r, n, Ch)
    BY <1>1, <1>4, <1>5, <1>6 DEF StreamMove, StreamFields, Early, Waiting
  <1>10. ViewMove(r, n, Ch)
    BY <1>1, <1>4, <1>5, <1>6 DEF ViewMove, ViewFields, Hosted, Early, Waiting
  <1>11. Ch \cap LifeFields = {}
    BY DEF LifeFields
  <1> HIDE DEF Ch
  <1> QED
    BY <1>1, <1>4, <1>6, <1>7, <1>8, <1>9, <1>10, <1>11, Keeps

\* ... and sends it.
LEMMA RelaySendOk ==
  ASSUME NEW c, NEW r, NEW a, NEW f, Session(c, r, a, f), r.relay = "send", Len(r.up) < Window
  PROVE  Session(c, [r EXCEPT !.relay = "run", !.up = Append(@, Head(r.post)),
                             !.post = Tail(@)],
                 a, f)
  <1> DEFINE n == [r EXCEPT !.relay = "run", !.up = Append(@, Head(r.post)),
                             !.post = Tail(@)]
             Ch == {"relay", "up", "post"}
  <1> SUFFICES Session(c, n, a, f)
    OBVIOUS
  <1>1. /\ Same(r, n, Ch) /\ n.relay = "run" /\ n.up = Append(r.up, Head(r.post))
        /\ n.post = Tail(r.post) /\ n.pc = r.pc
    BY DEF Session, SessType, Same, SessFields
  <1> HIDE DEF n
  <1>2. SessType(r)
    BY DEF Session
  <1>3. /\ n.caller = r.caller /\ n.gone = r.gone /\ n.quit = r.quit /\ n.group = r.group
        /\ n.lost = r.lost /\ n.got = r.got /\ n.down = r.down /\ n.started = r.started
        /\ n.err = r.err /\ n.src = r.src /\ n.attached = r.attached /\ n.pos = r.pos
        /\ n.from = r.from /\ n.skipped = r.skipped /\ n.held = r.held /\ n.made = r.made
        /\ n.out = r.out /\ n.pending = r.pending /\ n.q = r.q /\ n.pin = r.pin
        /\ n.heard = r.heard /\ n.said = r.said /\ n.writer = r.writer
    BY <1>1 DEF Same, SessFields
  <1>4. r.post # <<>> /\ Head(r.post) # 0 /\ c.kind = "relay" /\ r.pending = 0 /\ r.pc # "new"
    BY DEF Session, KindOf
  <1>5. /\ Head(r.post) \in Nat /\ Tail(r.post) \in Seq(Nat) /\ Head(r.post) = r.post[1]
        /\ Len(Tail(r.post)) = Len(r.post) - 1 /\ Len(r.post) \in Nat /\ 1 \in DOMAIN r.post
        /\ \A i \in DOMAIN Tail(r.post) : i + 1 \in DOMAIN r.post /\ Tail(r.post)[i] = r.post[i + 1]
    <2>1. r.post \in Seq(Nat)
      BY <1>2, Typed
    <2> QED
      BY <1>4, <2>1, TailIs
  <1>6. /\ Append(r.up, Head(r.post)) \in Seq(Nat) /\ Len(Append(r.up, Head(r.post))) = Len(r.up) + 1
        /\ DOMAIN r.up = 1..Len(r.up) /\ DOMAIN Append(r.up, Head(r.post)) = 1..(Len(r.up) + 1)
        /\ Len(r.up) \in Nat /\ Append(r.up, Head(r.post))[Len(r.up) + 1] = Head(r.post)
        /\ \A i \in DOMAIN r.up : Append(r.up, Head(r.post))[i] = r.up[i]
    <2>1. r.up \in Seq(Nat) /\ Head(r.post) \in Nat
      BY <1>2, <1>5, Typed
    <2> QED
      BY <2>1, AppendIs
  <1>7. n.up \in Seq(Nat) /\ n.post \in Seq(Nat)
    BY <1>1, <1>5, <1>6
  <1>8. Fits(n, Ch)
    BY <1>1, <1>7 DEF Fits, Places, Callings, Flags, Numbers, Queues, Streams
  <1>9. InOrder(Stages(n)) /\ UpTo(Stages(n), n.said)
    <2> DEFINE L == Stages(r)
               M == Stages(n)
    <2>1. AreStages(L) /\ InOrder(L) /\ UpTo(L, r.said) /\ r.said \in Nat
      BY <1>2, Typed, StagesType DEF Session, StreamOf
    <2>2. Except(L, M, {4, 6})
      BY <1>1, <1>3, <1>4, ExceptIs
    <2>3. /\ L[1] = r.heard /\ L[2] = r.pin /\ L[3] = r.q /\ L[4] = r.up /\ L[6] = r.post
          /\ M[1] = n.heard /\ M[2] = n.pin /\ M[3] = n.q /\ M[4] = n.up /\ M[6] = n.post
          /\ L[5] = Pending(r) /\ M[5] = Pending(n)
      BY StagesAre
    <2> HIDE DEF L, M
    <2>4. /\ 4 \in 1..6 /\ 6 \in 1..6 /\ 4 < 6 /\ L[6] # <<>> /\ M[6] = Tail(L[6])
          /\ M[4] = Append(L[4], Head(L[6])) /\ Head(L[6]) # 0
      BY <1>1, <1>3, <1>4, <2>3
    <2>5. \A j \in 1..6 : 4 < j /\ j < 6 => L[j] = <<>>
      <3>1. L[5] = <<>>
        BY <1>4, <2>3 DEF Pending
      <3>2. \A j \in 1..6 : 4 < j /\ j < 6 => j = 5
        OBVIOUS
      <3> QED
        BY <3>1, <3>2
    <2>6. PassStep(L, M, 4, 6)
      BY <2>2, <2>4, <2>5 DEF PassStep
    <2>7. InOrder(M) /\ UpTo(M, r.said)
      <3> DEFINE v == r.said
      <3>1. AreStages(L) /\ InOrder(L) /\ UpTo(L, v) /\ v \in Nat
        BY <2>1
      <3> HIDE DEF v
      <3>2. InOrder(M) /\ UpTo(M, v)
        BY <2>6, <3>1, PassSteps
      <3> QED
        BY <3>2 DEF v
    <2> QED
      BY <1>1, <1>3, <2>7 DEF M
  <1>10. NoZero(n.up)
    <2>1. \A i \in DOMAIN n.up : i \in DOMAIN r.up \/ i = Len(r.up) + 1
      BY <1>1, <1>6
    <2> QED
      BY <1>1, <1>4, <1>6, <2>1 DEF Session, StreamOf, NoZero
  <1>11. StreamOf(n)
    BY <1>1, <1>3, <1>9, <1>10 DEF Session, StreamOf, Waiting
  <1>12. KindOf(c, n)
    BY <1>1, <1>3, <1>4, <1>5, <1>6, BoundsAssumption DEF Session, KindOf
  <1>13. HeadMove(r, n, Ch)
    BY <1>1, <1>4, <1>7, <1>8, <1>9, <1>10, <1>11, <1>12 DEF HeadMove, HeadFields, Early, Waiting
  <1>14. BytesMove(r, n, Ch)
    BY <1>1, <1>4, <1>7, <1>8, <1>9, <1>10, <1>11, <1>12 DEF BytesMove, BytesFields
  <1>15. ViewMove(r, n, Ch)
    BY <1>1, <1>4, <1>7, <1>8, <1>9, <1>10, <1>11, <1>12 DEF ViewMove, ViewFields, Hosted, Early, Waiting
  <1>16. Ch \cap LifeFields = {}
    BY DEF LifeFields
  <1> HIDE DEF Ch
  <1> QED
    BY <1>1, <1>8, <1>11, <1>12, <1>13, <1>14, <1>15, <1>16, Keeps

\* The server shuts down: callers see their streams close.
LEMMA CutOffOk ==
  ASSUME NEW c, NEW r, NEW a, NEW f, Session(c, r, a, f), r.pc # "new"
  PROVE  Session(c, CutOff(r), a, f)
  <1> DEFINE n == CutOff(r)
             Ch == {"gone", "caller", "quit", "pc"}
  <1> SUFFICES Session(c, n, a, f)
    OBVIOUS
  <1>1. /\ Same(r, n, Ch) /\ n.gone = TRUE /\ n.caller = "left" /\ n.quit = TRUE
        /\ n.pc = IF r.pc = "asked" THEN "done" ELSE r.pc
    BY DEF Session, SessType, Same, SessFields, CutOff
  <1> HIDE DEF n
  <1>2. SessType(r)
    BY DEF Session
  <1>3. /\ n.group = r.group /\ n.lost = r.lost /\ n.got = r.got /\ n.down = r.down
        /\ n.started = r.started /\ n.err = r.err /\ n.src = r.src /\ n.attached = r.attached
        /\ n.pos = r.pos /\ n.from = r.from /\ n.skipped = r.skipped /\ n.held = r.held
        /\ n.made = r.made /\ n.out = r.out /\ n.pending = r.pending /\ n.post = r.post
        /\ n.relay = r.relay /\ n.q = r.q /\ n.pin = r.pin /\ n.up = r.up /\ n.heard = r.heard
        /\ n.said = r.said /\ n.writer = r.writer
    BY <1>1 DEF Same, SessFields
  <1>4. Fits(n, Ch)
    BY <1>1, <1>2, Typed DEF Fits, Places, Callings, Flags, Numbers, Queues, Streams
  <1>5. LifeOf(n, a)
    BY <1>1, <1>3 DEF Session, LifeOf, Waiting, Hosted
  <1>6. HeadOf(n, a)
    <2>1. SentOf(n) = SentOf(r)
      BY <1>3 DEF SentOf
    <2> QED
      BY <1>1, <1>3, <2>1 DEF Session, HeadOf, Waiting
  <1>7. BytesOf(n)
    <2>1. SentOf(n) = SentOf(r) /\ Count(n) = Count(r) /\ InHand(n) = InHand(r)
      BY <1>1, <1>3 DEF SentOf, Count, InHand
    <2> QED
      BY <1>1, <1>3, <2>1 DEF Session, BytesOf, Hosted
  <1>8. StreamOf(n)
    <2>1. Stages(n) = Stages(r)
      BY <1>3 DEF Stages, Pending
    <2> QED
      BY <1>1, <1>3, <2>1 DEF Session, StreamOf, Waiting
  <1>9. ViewOf(n, f)
    <2>1. SentOf(n) = SentOf(r) /\ Count(n) = Count(r)
      BY <1>3 DEF SentOf, Count
    <2> QED
      BY <1>1, <1>3, <2>1 DEF Session, ViewOf, Hosted, Waiting
  <1>10. KindMove(r, n, Ch)
    BY <1>1, <1>4, <1>5, <1>6, <1>7, <1>8, <1>9 DEF KindMove, KindFields
  <1> HIDE DEF Ch
  <1> QED
    BY <1>1, <1>4, <1>5, <1>6, <1>7, <1>8, <1>9, <1>10, Keeps

(* Steps of one session, and what they leave alone. *)

Grown(f, g) ==
  \A i \in DOMAIN f : /\ i \in DOMAIN g /\ f[i].head \in Nat /\ g[i].head \in Nat
                      /\ f[i].head <= g[i].head

LEMMA CallersAre ==
  ASSUME Inv
  PROVE  DOMAIN scen.callers \subseteq Sess
  BY CallersAssumption DEF Inv, TypeInv

LEMMA HeadsAre ==
  ASSUME FeedInv, NEW i \in DOMAIN feed
  PROVE  feed[i].head \in Nat /\ feed[i].viewers \in Nat /\ feed[i] \in FeedType
  <1>1. DOMAIN feed = 1..Len(feed) /\ feed \in Seq(FeedType)
    BY LenProperties DEF FeedInv
  <1>2. feed[i] \in FeedType
    BY <1>1, ElementOfSeq
  <1> QED
    BY <1>2 DEF FeedType

LEMMA SessStep ==
  ASSUME Inv, SInv, NEW s \in DOMAIN scen.callers, NEW n, UNCHANGED scen,
         sess' = [sess EXCEPT ![s] = n],
         DOMAIN audit' = Sess, \A u \in Sess \ {s} : audit'[u] = audit[u],
         feed' = feed \/ Grown(feed, feed'),
         Session(Caller(s), n, audit'[s], feed')
  PROVE  SessInv'
  <1>1. DOMAIN sess = Sess /\ s \in Sess /\ DOMAIN scen.callers \subseteq Sess
    BY CallersAre DEF SInv, SessInv
  <1>2. DOMAIN sess' = Sess /\ sess'[s] = n /\ \A u \in Sess \ {s} : sess'[u] = sess[u]
    BY <1>1
  <1>3. ASSUME NEW u \in DOMAIN scen.callers
        PROVE  Session(scen.callers[u], sess'[u], audit'[u], feed')
    <2>1. CASE u = s
      BY <1>2, <2>1 DEF Caller
    <2>2. CASE u # s
      <3>1. u \in Sess \ {s}
        BY <1>1, <2>2
      <3>2. Session(scen.callers[u], sess[u], audit[u], feed)
        BY DEF SInv, SessInv, Caller, S
      <3>3. Session(scen.callers[u], sess[u], audit[u], feed')
        BY <3>2, FeedsGrow DEF Grown
      <3> QED
        BY <1>2, <3>1, <3>3
    <2> QED
      BY <2>1, <2>2
  <1>4. \A u \in Sess \ DOMAIN scen.callers : sess'[u] = NewSession
    BY <1>2 DEF SInv, SessInv
  <1>5. scen' = scen /\ NewSession' = NewSession
    BY DEF NewSession
  <1> QED
    BY <1>2, <1>3, <1>4, <1>5 DEF SessInv, Caller, S

LEMMA ViewersKept ==
  ASSUME SInv, UNCHANGED <<feed, feeds>>, DOMAIN sess' = Sess,
         \A u \in Sess : sess'[u].attached = sess[u].attached
  PROVE  FeedInv'
  <1>1. ASSUME NEW i PROVE Viewers(i)' = Viewers(i)
    BY DEF Viewers, S
  <1> QED
    BY <1>1 DEF SInv, FeedInv

LEMMA BridgeKept ==
  ASSUME SInv, UNCHANGED <<scen, media, bridge>>
  PROVE  BridgeInv'
  BY DEF SInv, BridgeInv, RowsInv, PlacesInv, LateInv, LentInv, Accepts, AddedLate

\* A step of a session that changes neither its feed nor its relay.
LEMMA OwnStep ==
  ASSUME Inv, SInv, NEW s \in DOMAIN scen.callers, NEW n, Set(s, n),
         UNCHANGED <<scen, media, feeds, feed, bridge>>,
         DOMAIN audit' = Sess, \A u \in Sess \ {s} : audit'[u] = audit[u],
         Session(Caller(s), n, audit'[s], feed), n.attached = S(s).attached,
         duplex' \subseteq duplex \cup {s},
         s \in duplex' /\ Caller(s).kind = "relay" => n.relay # "done"
  PROVE  SInv'
  <1>1. sess' = [sess EXCEPT ![s] = n] /\ DOMAIN sess = Sess /\ s \in Sess
    BY CallersAre DEF Set, SInv, SessInv
  <1>2. SessInv'
    BY <1>1, SessStep
  <1>3. DOMAIN sess' = Sess /\ sess'[s] = n /\ \A u \in Sess \ {s} : sess'[u] = sess[u]
    BY <1>1
  <1>4. FeedInv'
    BY <1>3, ViewersKept DEF S
  <1>5. EntryInv'
    <2>1. duplex' \subseteq DOMAIN scen.callers /\ DOMAIN scen.callers \subseteq Sess
      BY CallersAre DEF SInv, EntryInv
    <2>2. ASSUME NEW u \in duplex', scen.callers[u].kind = "relay" PROVE sess'[u].relay # "done"
      <3>1. CASE u = s
        BY <1>3, <2>2, <3>1 DEF Caller
      <3>2. CASE u # s
        <4>1. u \in duplex /\ u \in Sess \ {s}
          BY <2>1, <3>2
        <4> QED
          BY <1>3, <2>2, <4>1 DEF SInv, EntryInv, Caller, S
      <3> QED
        BY <3>1, <3>2
    <2> QED
      BY <2>1, <2>2 DEF EntryInv, Caller, S
  <1>6. BridgeInv'
    BY BridgeKept
  <1> QED
    BY <1>2, <1>4, <1>5, <1>6 DEF SInv

\* The same, of a step that records nothing and enters nothing either.
LEMMA PlainStep ==
  ASSUME Inv, SInv, NEW s \in DOMAIN scen.callers, NEW n, Set(s, n),
         UNCHANGED <<scen, media, audit, duplex, feeds, feed, bridge>>,
         Session(Caller(s), n, audit[s], feed), n.attached = S(s).attached,
         n.relay = S(s).relay \/ n.relay # "done"
  PROVE  SInv'
  <1>1. s \in duplex /\ Caller(s).kind = "relay" => S(s).relay # "done"
    BY DEF SInv, EntryInv
  <1>2. DOMAIN audit' = Sess
    BY DEF SInv, SessInv
  <1> QED
    BY <1>1, <1>2, OwnStep

\* What the invariant says of one session.
LEMMA OneSession ==
  ASSUME SInv, NEW s \in DOMAIN scen.callers
  PROVE  /\ Session(Caller(s), S(s), audit[s], feed) /\ SessType(S(s)) /\ LifeOf(S(s), audit[s])
         /\ DOMAIN S(s) = SessFields
  <1>1. Session(Caller(s), S(s), audit[s], feed)
    BY DEF SInv, SessInv
  <1> QED
    BY <1>1 DEF Session, SessType

(* The serving task's own steps. *)

LEMMA TearKeeps ==
  ASSUME Inv, SInv, NEW s \in DOMAIN scen.callers, Tear(s)
  PROVE  SInv'
  <1> DEFINE n == Teardown(S(s))
  <1>1. Session(Caller(s), n, audit[s], feed)
    BY OneSession, TearOk DEF Tear
  <1>2. n.attached = S(s).attached /\ n.relay = S(s).relay
    BY OneSession DEF Teardown, SessFields
  <1>3. Set(s, n) /\ UNCHANGED <<scen, media, audit, duplex, feeds, feed, bridge>>
    BY DEF Tear
  <1> HIDE DEF n
  <1> QED
    BY <1>1, <1>2, <1>3, PlainStep

LEMMA ScreenKeeps ==
  ASSUME Inv, SInv, NEW s \in DOMAIN scen.callers, Screen(s)
  PROVE  SInv'
  <1> DEFINE r == S(s)
             verdict == screen_source(Caller(s))
             class == IF verdict = "nosource" THEN "Error" ELSE "Denied"
             row == media[Caller(s).source]
             word == IF verdict = "allowed" THEN "allow" ELSE "deny"
             n == IF verdict = "allowed" THEN [r EXCEPT !.pc = "open", !.src = row]
                  ELSE Answer(r, class)
  <1>1. /\ r.pc = "asked" /\ audit' = [audit EXCEPT ![s] = Append(@, word)] /\ Set(s, n)
        /\ UNCHANGED <<scen, media, duplex, feeds, feed, bridge>>
    BY Zenon DEF Screen
  <1>2. /\ Session(Caller(s), r, audit[s], feed) /\ LifeOf(r, audit[s]) /\ DOMAIN r = SessFields
        /\ r.group = {} /\ ~r.started
    BY <1>1, OneSession DEF Session, LifeOf, HeadOf, Waiting
  <1>3. audit[s] = <<>>
    BY <1>1, <1>2 DEF LifeOf, Waiting
  <1>4. /\ DOMAIN audit' = Sess /\ \A u \in Sess \ {s} : audit'[u] = audit[u]
        /\ audit'[s] = <<word>>
    <2>1. DOMAIN audit = Sess /\ s \in Sess
      BY CallersAre DEF SInv, SessInv
    <2> QED
      BY <1>1, <1>3, <2>1
  <1>5. Session(Caller(s), n, audit'[s], feed) /\ n.attached = r.attached /\ n.relay = r.relay
    <2>1. CASE verdict = "allowed"
      <3>1. word = "allow" /\ n = [r EXCEPT !.pc = "open", !.src = row]
        BY <2>1
      <3>2. Session(Caller(s), n, <<"allow">>, feed)
        BY <1>1, <1>2, <3>1, OpenOk
      <3> QED
        BY <1>2, <1>4, <3>1, <3>2 DEF SessFields
    <2>2. CASE verdict # "allowed"
      <3>1. word = "deny" /\ n = Answer(r, class) /\ class \in Closing
        BY <2>2 DEF Closing
      <3> HIDE DEF r, class, n
      <3>2. Session(Caller(s), Answer(r, class), <<"deny">>, feed)
        BY <1>1, <1>2, <3>1, AnswerOk
      <3> QED
        BY <1>2, <1>4, <3>1, <3>2 DEF SessFields, Answer
    <2> QED
      BY <2>1, <2>2
  <1>6. s \in duplex' /\ Caller(s).kind = "relay" => n.relay # "done"
    BY <1>1, <1>5 DEF SInv, EntryInv
  <1> HIDE DEF n, word, verdict, row, class
  <1> QED
    BY <1>1, <1>4, <1>5, <1>6, OwnStep

LEMMA SpawnKeeps ==
  ASSUME Inv, SInv, NEW s \in DOMAIN scen.callers, Spawn(s)
  PROVE  SInv'
  <1> DEFINE r == S(s)
             duplexed == Caller(s).action = "audio-duplex"
             n == IF duplexed /\ ~r.src.accepts THEN Answer(r, "Error")
                  ELSE IF r.src.command = "bad" THEN Answer(r, "Error")
                  ELSE Spawned(r, duplexed)
  <1>1. /\ r.pc = "open" /\ Set(s, n)
        /\ UNCHANGED <<scen, media, audit, duplex, feeds, feed, bridge>>
    BY Zenon DEF Spawn
  <1>2. /\ Session(Caller(s), r, audit[s], feed) /\ DOMAIN r = SessFields
        /\ r.group = {} /\ ~r.started /\ audit[s] = <<"allow">>
    BY <1>1, OneSession DEF Session, LifeOf, HeadOf, Waiting
  <1>3. Session(Caller(s), n, audit[s], feed) /\ n.attached = r.attached /\ n.relay = r.relay
    <2>1. CASE n = Answer(r, "Error")
      <3>1. "Error" \in Closing /\ "Error" # "Denied"
        BY DEF Closing
      <3> HIDE DEF r, n
      <3>2. Session(Caller(s), Answer(r, "Error"), audit[s], feed)
        BY <1>1, <1>2, <3>1, AnswerOk
      <3> QED
        BY <1>2, <2>1, <3>2 DEF SessFields, Answer
    <2>2. CASE n = Spawned(r, duplexed)
      <3>1. duplexed \in BOOLEAN
        OBVIOUS
      <3> HIDE DEF r, n, duplexed
      <3>2. Session(Caller(s), Spawned(r, duplexed), audit[s], feed)
        BY <1>1, <1>2, <3>1, SpawnOk
      <3> QED
        BY <1>2, <2>2, <3>2 DEF SessFields, Spawned
    <2> QED
      BY <2>1, <2>2
  <1> HIDE DEF n
  <1> QED
    BY <1>1, <1>3, PlainStep

LEMMA DuplexHeaderKeeps ==
  ASSUME Inv, SInv, NEW s \in DOMAIN scen.callers, DuplexHeader(s)
  PROVE  SInv'
  <1> DEFINE r == S(s)
             m == [r EXCEPT !.pc = "pump", !.phase = "both", !.started = TRUE,
                            !.down = Append(@, Frame("AudioDuplex"))]
             n == IF r.gone THEN HeaderLost(r) ELSE m
  <1>1. /\ r.pc = "header" /\ Set(s, n)
        /\ UNCHANGED <<scen, media, audit, duplex, feeds, feed, bridge>>
    BY Zenon DEF DuplexHeader
  <1>2. Session(Caller(s), r, audit[s], feed) /\ DOMAIN r = SessFields
    BY OneSession
  <1>3. Session(Caller(s), n, audit[s], feed) /\ n.attached = r.attached /\ n.relay = r.relay
    <2>1. CASE r.gone
      <3>1. Session(Caller(s), HeaderLost(r), audit[s], feed) /\ n = HeaderLost(r)
        BY <1>1, <1>2, <2>1, HeaderLostOk
      <3> QED
        BY <1>2, <3>1 DEF SessFields, HeaderLost
    <2>2. CASE ~r.gone
      <3>1. Session(Caller(s), m, audit[s], feed) /\ n = m
        BY <1>1, <1>2, <2>2, DuplexHeaderOk
      <3> QED
        BY <1>2, <3>1 DEF SessFields
    <2> QED
      BY <2>1, <2>2
  <1> HIDE DEF n
  <1> QED
    BY <1>1, <1>3, PlainStep

LEMMA ReadOutKeeps ==
  ASSUME Inv, SInv, NEW s \in DOMAIN scen.callers, ReadOut(s)
  PROVE  SInv'
  <1> DEFINE r == S(s)
             m == [r EXCEPT !.pc = "send", !.held = Head(r.out), !.out = Tail(r.out),
                            !.started = TRUE,
                            !.down = IF r.started THEN @ ELSE Append(@, Frame("Media"))]
             n == IF ~r.started /\ r.gone THEN HeaderLost(r) ELSE m
  <1>1. /\ r.pc = "pump" /\ r.out # <<>> /\ Set(s, n)
        /\ UNCHANGED <<scen, media, audit, duplex, feeds, feed, bridge>>
    BY Zenon DEF ReadOut
  <1>2. Session(Caller(s), r, audit[s], feed) /\ DOMAIN r = SessFields /\ r.started \in BOOLEAN
    BY OneSession, Typed
  <1>3. Session(Caller(s), n, audit[s], feed) /\ n.attached = r.attached /\ n.relay = r.relay
    <2>1. CASE ~r.started /\ r.gone
      <3>1. Session(Caller(s), HeaderLost(r), audit[s], feed) /\ n = HeaderLost(r)
        BY <1>1, <1>2, <2>1, HeaderLostOk
      <3> QED
        BY <1>2, <3>1 DEF SessFields, HeaderLost
    <2>2. CASE ~r.started /\ ~r.gone
      <3> DEFINE x == [r EXCEPT !.pc = "send", !.held = Head(r.out), !.out = Tail(r.out),
                                !.started = TRUE, !.down = Append(@, Frame("Media"))]
      <3>1. Session(Caller(s), x, audit[s], feed)
        BY <1>1, <1>2, <2>2, FirstReadOk
      <3>2. n = x
        BY <2>2
      <3> QED
        BY <1>2, <3>1, <3>2 DEF SessFields
    <2>3. CASE r.started
      <3> DEFINE x == [r EXCEPT !.pc = "send", !.held = Head(r.out), !.out = Tail(r.out)]
      <3>1. Session(Caller(s), x, audit[s], feed) /\ SessType(x)
        BY <1>1, <1>2, <2>3, ReadOk DEF Session
      <3>2. r.started = TRUE /\ n = m
        BY <1>2, <2>3
      <3>3. m = [y \in SessFields |-> x[y]] /\ x = [y \in SessFields |-> x[y]]
        BY <1>2, <3>2 DEF SessFields
      <3> QED
        BY <1>2, <3>1, <3>2, <3>3 DEF SessFields
    <2> QED
      BY <1>2, <2>1, <2>2, <2>3
  <1> HIDE DEF n
  <1> QED
    BY <1>1, <1>3, PlainStep

LEMMA SendRawKeeps ==
  ASSUME Inv, SInv, NEW s \in DOMAIN scen.callers, SendRaw(s)
  PROVE  SInv'
  <1> DEFINE r == S(s)
             m == [r EXCEPT !.pc = "pump", !.down = Append(@, Raw(r.held))]
             n == IF r.gone THEN [r EXCEPT !.pc = "tear"] ELSE m
  <1>1. /\ r.pc = "send" /\ (r.gone \/ Len(r.down) < Window) /\ Set(s, n)
        /\ UNCHANGED <<scen, media, audit, duplex, feeds, feed, bridge>>
    BY Zenon DEF SendRaw
  <1>2. Session(Caller(s), r, audit[s], feed) /\ DOMAIN r = SessFields
    BY OneSession
  <1>3. Session(Caller(s), n, audit[s], feed) /\ n.attached = r.attached /\ n.relay = r.relay
    <2>1. CASE r.gone
      <3>1. Session(Caller(s), [r EXCEPT !.pc = "tear"], audit[s], feed)
        BY <1>1, <1>2, <2>1, BreaksOk
      <3> QED
        BY <1>2, <2>1, <3>1 DEF SessFields
    <2>2. CASE ~r.gone
      <3>1. Session(Caller(s), m, audit[s], feed)
        BY <1>1, <1>2, <2>2, SendRawOk
      <3> QED
        BY <1>2, <2>2, <3>1 DEF SessFields
    <2> QED
      BY <2>1, <2>2
  <1> HIDE DEF n
  <1> QED
    BY <1>1, <1>3, PlainStep

LEMMA StopPumpKeeps ==
  ASSUME Inv, SInv, NEW s \in DOMAIN scen.callers, StopPump(s)
  PROVE  SInv'
  <1> DEFINE r == S(s)
             m == [r EXCEPT !.pc = "tear"]
             n == [r EXCEPT !.pc = "tear", !.err = TRUE]
  <1>1. /\ r.pc = "pump" /\ (Set(s, m) \/ Set(s, n))
        /\ UNCHANGED <<scen, media, audit, duplex, feeds, feed, bridge>>
    BY DEF StopPump
  <1>2. Session(Caller(s), r, audit[s], feed) /\ DOMAIN r = SessFields
    BY OneSession
  <1>3. /\ Session(Caller(s), m, audit[s], feed) /\ m.attached = r.attached /\ m.relay = r.relay
        /\ Session(Caller(s), n, audit[s], feed) /\ n.attached = r.attached /\ n.relay = r.relay
    BY <1>1, <1>2, BreaksOk, BrokenOk DEF SessFields
  <1> HIDE DEF m, n
  <1> QED
    BY <1>1, <1>3, PlainStep

LEMMA OverKeeps ==
  ASSUME Inv, SInv, NEW s \in DOMAIN scen.callers, Over(s)
  PROVE  SInv'
  <1> DEFINE r == S(s)
             m == [r EXCEPT !.pc = "done"]
             n == IF ~r.started /\ ~r.err THEN Answer(r, "Error") ELSE m
  <1>1. /\ r.pc = "over" /\ Set(s, n)
        /\ UNCHANGED <<scen, media, audit, duplex, feeds, feed, bridge>>
    BY Zenon DEF Over
  <1>2. /\ Session(Caller(s), r, audit[s], feed) /\ DOMAIN r = SessFields /\ r.group = {}
        /\ audit[s] = <<"allow">>
    BY <1>1, OneSession DEF LifeOf, Waiting
  <1>3. Session(Caller(s), n, audit[s], feed) /\ n.attached = r.attached /\ n.relay = r.relay
    <2>1. CASE ~r.started /\ ~r.err
      <3>1. "Error" \in Closing /\ "Error" # "Denied" /\ n = Answer(r, "Error")
        BY <2>1 DEF Closing
      <3> HIDE DEF r, n
      <3>2. Session(Caller(s), Answer(r, "Error"), audit[s], feed)
        BY <1>1, <1>2, <2>1, <3>1, AnswerOk
      <3> QED
        BY <1>2, <3>1, <3>2 DEF SessFields, Answer
    <2>2. CASE r.started \/ r.err
      <3>1. Session(Caller(s), m, audit[s], feed)
        BY <1>1, <1>2, <2>2, OverDone
      <3> QED
        BY <1>2, <2>2, <3>1 DEF SessFields
    <2> QED
      BY <2>1, <2>2
  <1> HIDE DEF n
  <1> QED
    BY <1>1, <1>3, PlainStep

LEMMA RecvRawKeeps ==
  ASSUME Inv, SInv, NEW s \in DOMAIN scen.callers, RecvRaw(s)
  PROVE  SInv'
  <1> DEFINE r == S(s)
             k == [try_send(r, Head(r.up)) EXCEPT !.up = Tail(@)]
             m == [r EXCEPT !.phase = "half", !.tx = FALSE]
             n == [r EXCEPT !.pc = "tear"]
  <1>1. /\ r.pc = "pump" /\ ((r.up # <<>> /\ Set(s, k)) \/ Set(s, m) \/ Set(s, n))
        /\ UNCHANGED <<scen, media, audit, duplex, feeds, feed, bridge>>
    BY DEF RecvRaw
  <1>2. Session(Caller(s), r, audit[s], feed) /\ DOMAIN r = SessFields /\ r.tx \in BOOLEAN
    BY OneSession, Typed
  <1>3. /\ Session(Caller(s), m, audit[s], feed) /\ m.attached = r.attached /\ m.relay = r.relay
        /\ Session(Caller(s), n, audit[s], feed) /\ n.attached = r.attached /\ n.relay = r.relay
    BY <1>1, <1>2, HalfOk, BreaksOk DEF SessFields
  <1>4. ASSUME r.up # <<>>
        PROVE  Session(Caller(s), k, audit[s], feed) /\ k.attached = r.attached /\ k.relay = r.relay
    <2>1. CASE ~r.tx \/ (r.writer /\ ~(Len(r.q) < StdinCap))
      <3> DEFINE x == [r EXCEPT !.tx = r.tx, !.up = Tail(@)]
      <3>1. Session(Caller(s), x, audit[s], feed)
        BY <1>1, <1>2, <1>4, RecvDropsOk
      <3>2. k = [r EXCEPT !.up = Tail(@)]
        BY <2>1 DEF try_send
      <3>3. /\ k = [y \in SessFields |-> IF y = "up" THEN Tail(r.up) ELSE r[y]]
            /\ x = [y \in SessFields |-> IF y = "up" THEN Tail(r.up) ELSE r[y]]
        BY <1>2, <3>2 DEF SessFields
      <3> QED
        BY <3>1, <3>3 DEF SessFields
    <2>2. CASE r.tx /\ ~r.writer
      <3> DEFINE x == [r EXCEPT !.tx = FALSE, !.up = Tail(@)]
      <3>1. Session(Caller(s), x, audit[s], feed)
        BY <1>1, <1>2, <1>4, RecvDropsOk
      <3>2. k = [[r EXCEPT !.tx = FALSE] EXCEPT !.up = Tail(@)]
        BY <2>2 DEF try_send
      <3>3. k = x
        BY <1>2, <3>2 DEF SessFields
      <3> QED
        BY <1>2, <3>1, <3>3 DEF SessFields
    <2>3. CASE r.tx /\ r.writer /\ Len(r.q) < StdinCap
      <3> DEFINE x == [r EXCEPT !.q = Append(@, Head(r.up)), !.up = Tail(r.up)]
      <3>1. Session(Caller(s), x, audit[s], feed)
        BY <1>1, <1>2, <1>4, <2>3, RecvTakesOk
      <3>2. k = [[r EXCEPT !.q = Append(@, Head(r.up))] EXCEPT !.up = Tail(@)]
        BY <2>3 DEF try_send
      <3>3. k = x
        BY <1>2, <3>2 DEF SessFields
      <3> QED
        BY <1>2, <3>1, <3>3 DEF SessFields
    <2> QED
      BY <1>2, <2>1, <2>2, <2>3
  <1> HIDE DEF k, m, n
  <1>5. CASE r.up # <<>> /\ Set(s, k)
    BY <1>1, <1>4, <1>5, PlainStep
  <1>6. CASE Set(s, m)
    BY <1>1, <1>3, <1>6, PlainStep
  <1>7. CASE Set(s, n)
    BY <1>1, <1>3, <1>7, PlainStep
  <1> QED
    BY <1>1, <1>5, <1>6, <1>7

LEMMA WriteStdinKeeps ==
  ASSUME Inv, SInv, NEW s \in DOMAIN scen.callers, WriteStdin(s)
  PROVE  SInv'
  <1> DEFINE r == S(s)
             k == [r EXCEPT !.pin = Append(@, Head(r.q)), !.q = Tail(@)]
             m == [r EXCEPT !.writer = FALSE, !.q = <<>>]
             n == [r EXCEPT !.writer = FALSE]
  <1>1. /\ \/ r.q # <<>> /\ r.writer /\ Len(r.pin) < PipeCap /\ Set(s, k)
           \/ r.writer /\ Set(s, m)
           \/ r.writer /\ r.q = <<>> /\ Set(s, n)
        /\ UNCHANGED <<scen, media, audit, duplex, feeds, feed, bridge>>
    BY DEF WriteStdin
  <1>2. Session(Caller(s), r, audit[s], feed) /\ DOMAIN r = SessFields
    BY OneSession
  <1>3. /\ k.attached = r.attached /\ k.relay = r.relay /\ m.attached = r.attached
        /\ m.relay = r.relay /\ n.attached = r.attached /\ n.relay = r.relay
    BY <1>2 DEF SessFields
  <1>4. CASE r.q # <<>> /\ r.writer /\ Len(r.pin) < PipeCap /\ Set(s, k)
    <2>1. Session(Caller(s), k, audit[s], feed)
      BY <1>2, <1>4, WriteTakesOk
    <2> HIDE DEF k
    <2> QED
      BY <1>1, <1>3, <1>4, <2>1, PlainStep
  <1>5. CASE r.writer /\ Set(s, m)
    <2>1. Session(Caller(s), m, audit[s], feed)
      BY <1>2, <1>5, WriterFailsOk
    <2> HIDE DEF m
    <2> QED
      BY <1>1, <1>3, <1>5, <2>1, PlainStep
  <1>6. CASE r.writer /\ r.q = <<>> /\ Set(s, n)
    <2>1. Session(Caller(s), n, audit[s], feed)
      BY <1>2, <1>6, WriterEndsOk
    <2> HIDE DEF n
    <2> QED
      BY <1>1, <1>3, <1>6, <2>1, PlainStep
  <1> QED
    BY <1>1, <1>4, <1>5, <1>6

\* What the child does, at a place of its program.
LEMMA SourceKeeps ==
  ASSUME Inv, SInv, NEW s \in DOMAIN scen.callers, Source(s)
  PROVE  SInv'
  <1> DEFINE r == S(s)
             next == [r EXCEPT !.at = @ + 1]
             Is(n) == \/ \E at : n = [r EXCEPT !.at = at, !.out = Append(@, r.made + 1),
                                                !.made = @ + 1] /\ Len(r.out) < PipeCap
                      \/ \E at : n = [r EXCEPT !.at = at, !.heard = Append(@, Head(r.pin)),
                                                !.pin = Tail(@)] /\ r.pin # <<>>
                      \/ \E at : n = [r EXCEPT !.at = at, !.heard = Append(@, 0)]
                                 /\ r.pin = <<>> /\ ~r.writer
                      \/ \E at, group : n = [r EXCEPT !.at = at, !.group = group]
  <1>1. Session(Caller(s), r, audit[s], feed) /\ DOMAIN r = SessFields
    BY OneSession
  <1>2. /\ \E op : "sh" \in r.group
          /\ \/ Len(r.out) < PipeCap
                /\ Set(s, [next EXCEPT !.out = Append(@, r.made + 1), !.made = @ + 1])
             \/ r.pin # <<>>
                /\ Set(s, [(IF op = "in" THEN next ELSE r) EXCEPT
                             !.heard = Append(@, Head(r.pin)), !.pin = Tail(@)])
             \/ r.pin = <<>> /\ ~r.writer /\ Set(s, [next EXCEPT !.heard = Append(@, 0)])
             \/ Set(s, [next EXCEPT !.group = @ \cup {"worker"}])
             \/ Set(s, [r EXCEPT !.group = @ \ {"sh"}])
        /\ UNCHANGED <<scen, media, audit, duplex, feeds, feed, bridge>>
    BY Zenon DEF Source
  <1>3. r.group # {}
    BY <1>2
  <1>4. \E n : Set(s, n) /\ Is(n)
    <2>1. CASE /\ Len(r.out) < PipeCap
               /\ Set(s, [next EXCEPT !.out = Append(@, r.made + 1), !.made = @ + 1])
      <3>1. [next EXCEPT !.out = Append(@, r.made + 1), !.made = @ + 1]
              = [r EXCEPT !.at = r.at + 1, !.out = Append(@, r.made + 1), !.made = @ + 1]
        BY <1>1 DEF SessFields
      <3> HIDE DEF r
      <3> QED
        BY <2>1, <3>1, Zenon
    <2>2. ASSUME NEW op, r.pin # <<>>,
                 Set(s, [(IF op = "in" THEN next ELSE r) EXCEPT
                           !.heard = Append(@, Head(r.pin)), !.pin = Tail(@)])
          PROVE  \E n : Set(s, n) /\ Is(n)
      <3>1. CASE op = "in"
        <4>1. [(IF op = "in" THEN next ELSE r) EXCEPT !.heard = Append(@, Head(r.pin)),
                                                      !.pin = Tail(@)]
                = [r EXCEPT !.at = r.at + 1, !.heard = Append(@, Head(r.pin)), !.pin = Tail(@)]
          BY <1>1, <3>1 DEF SessFields
        <4> HIDE DEF r
        <4> QED
          BY <2>2, <4>1, Zenon
      <3>2. CASE op # "in"
        <4>1. [(IF op = "in" THEN next ELSE r) EXCEPT !.heard = Append(@, Head(r.pin)),
                                                      !.pin = Tail(@)]
                = [r EXCEPT !.at = r.at, !.heard = Append(@, Head(r.pin)), !.pin = Tail(@)]
          <5> DEFINE z == [y \in SessFields |-> IF y = "heard" THEN Append(r.heard, Head(r.pin))
                                                ELSE IF y = "pin" THEN Tail(r.pin) ELSE r[y]]
          <5>1. [r EXCEPT !.heard = Append(@, Head(r.pin)), !.pin = Tail(@)] = z
            BY <1>1 DEF SessFields
          <5>2. [r EXCEPT !.at = r.at, !.heard = Append(@, Head(r.pin)), !.pin = Tail(@)] = z
            BY <1>1 DEF SessFields
          <5> QED
            BY <3>2, <5>1, <5>2
        <4> HIDE DEF r
        <4> QED
          BY <2>2, <4>1, Zenon
      <3> QED
        BY <3>1, <3>2
    <2>3. CASE r.pin = <<>> /\ ~r.writer /\ Set(s, [next EXCEPT !.heard = Append(@, 0)])
      <3>1. [next EXCEPT !.heard = Append(@, 0)]
              = [r EXCEPT !.at = r.at + 1, !.heard = Append(@, 0)]
        BY <1>1 DEF SessFields
      <3> HIDE DEF r
      <3> QED
        BY <2>3, <3>1, Zenon
    <2>4. CASE Set(s, [next EXCEPT !.group = @ \cup {"worker"}])
      <3>1. [next EXCEPT !.group = @ \cup {"worker"}]
              = [r EXCEPT !.at = r.at + 1, !.group = r.group \cup {"worker"}]
        BY <1>1 DEF SessFields
      <3> HIDE DEF r
      <3> QED
        BY <2>4, <3>1, Zenon
    <2>5. CASE Set(s, [r EXCEPT !.group = @ \ {"sh"}])
      <3>1. [r EXCEPT !.group = @ \ {"sh"}]
              = [r EXCEPT !.at = r.at, !.group = r.group \ {"sh"}]
        <4> DEFINE z == [y \in SessFields |-> IF y = "group" THEN r.group \ {"sh"} ELSE r[y]]
        <4>1. [r EXCEPT !.group = @ \ {"sh"}] = z
          BY <1>1 DEF SessFields
        <4>2. [r EXCEPT !.at = r.at, !.group = r.group \ {"sh"}] = z
          BY <1>1 DEF SessFields
        <4> QED
          BY <4>1, <4>2
      <3> HIDE DEF r
      <3> QED
        BY <2>5, <3>1, Zenon
    <2> HIDE DEF next, Is
    <2> QED
      BY <1>2, <2>1, <2>2, <2>3, <2>4, <2>5
  <1>5. ASSUME NEW n, Is(n)
        PROVE  Session(Caller(s), n, audit[s], feed) /\ n.attached = r.attached /\ n.relay = r.relay
    <2>1. Session(Caller(s), n, audit[s], feed)
      <3>1. CASE \E at : n = [r EXCEPT !.at = at, !.out = Append(@, r.made + 1), !.made = @ + 1]
                         /\ Len(r.out) < PipeCap
        <4>1. PICK at : n = [r EXCEPT !.at = at, !.out = Append(@, r.made + 1), !.made = @ + 1]
                         /\ Len(r.out) < PipeCap
          BY <3>1, Zenon
        <4>2. Session(Caller(s), [r EXCEPT !.at = at, !.out = Append(@, r.made + 1), !.made = @ + 1], audit[s],
                      feed)
          BY <1>1, <1>3, <4>1, SourceOutOk
        <4> QED
          BY <4>1, <4>2
      <3>2. CASE \E at : n = [r EXCEPT !.at = at, !.heard = Append(@, Head(r.pin)), !.pin = Tail(@)]
                         /\ r.pin # <<>>
        <4>1. PICK at : n = [r EXCEPT !.at = at, !.heard = Append(@, Head(r.pin)), !.pin = Tail(@)]
                         /\ r.pin # <<>>
          BY <3>2, Zenon
        <4>2. Session(Caller(s), [r EXCEPT !.at = at, !.heard = Append(@, Head(r.pin)), !.pin = Tail(@)], audit[s],
                      feed)
          BY <1>1, <4>1, SourceInOk
        <4> QED
          BY <4>1, <4>2
      <3>3. CASE \E at : n = [r EXCEPT !.at = at, !.heard = Append(@, 0)]
                         /\ r.pin = <<>> /\ ~r.writer
        <4>1. PICK at : n = [r EXCEPT !.at = at, !.heard = Append(@, 0)]
                         /\ r.pin = <<>> /\ ~r.writer
          BY <3>3, Zenon
        <4>2. Session(Caller(s), [r EXCEPT !.at = at, !.heard = Append(@, 0)], audit[s],
                      feed)
          BY <1>1, <1>3, <4>1, SourceEofOk
        <4> QED
          BY <4>1, <4>2
      <3>4. CASE \E at, group : n = [r EXCEPT !.at = at, !.group = group]
        <4>1. PICK at, group : n = [r EXCEPT !.at = at, !.group = group]
          BY <3>4, Zenon
        <4>2. Session(Caller(s), [r EXCEPT !.at = at, !.group = group], audit[s],
                      feed)
          BY <1>1, <1>3, <4>1, GroupOk
        <4> QED
          BY <4>1, <4>2
      <3> QED
        BY <1>5, <3>1, <3>2, <3>3, <3>4
    <2> QED
      BY <1>1, <1>5, <2>1 DEF SessFields
  <1> HIDE DEF Is, next
  <1> QED
    BY <1>2, <1>4, <1>5, PlainStep

LEMMA LocalEndsKeeps ==
  ASSUME Inv, SInv, NEW s \in DOMAIN scen.callers, LocalEnds(s)
  PROVE  SInv'
  <1>1. /\ duplex' = duplex \ {s} /\ UNCHANGED <<scen, media, sess, audit, feeds, feed, bridge>>
    BY DEF LocalEnds
  <1>2. SessInv' /\ FeedInv' /\ BridgeInv'
    <2>1. SessInv'
      BY <1>1 DEF SInv, SessInv, Caller, S
    <2>2. FeedInv'
      BY <1>1, ViewersKept DEF SInv, SessInv
    <2> QED
      BY <1>1, <2>1, <2>2, BridgeKept
  <1>3. EntryInv'
    BY <1>1 DEF SInv, EntryInv, Caller, S
  <1> QED
    BY <1>2, <1>3 DEF SInv

(* The sessions of host feeds. *)

\* A session attaches to feed i, or detaches from it.
LEMMA AttachStep ==
  ASSUME Inv, SInv, NEW s \in DOMAIN scen.callers, NEW n, NEW i \in DOMAIN feed, NEW k \in {1, -1},
         Set(s, n), Attach(i, k), feeds' = feeds,
         k = 1 => S(s).attached = None /\ n.attached = i,
         k = -1 => S(s).attached = i /\ n.attached = None
  PROVE  FeedInv' /\ Grown(feed, feed')
  <1>1. /\ sess' = [sess EXCEPT ![s] = n] /\ DOMAIN sess = Sess /\ s \in Sess /\ IsFiniteSet(Sess)
        /\ feed' = [feed EXCEPT ![i].viewers = @ + k]
    BY CallersAre, BoundsAssumption DEF Set, SInv, SessInv, Attach
  <1>2. DOMAIN sess' = Sess /\ sess'[s] = n /\ \A u \in Sess \ {s} : sess'[u] = sess[u]
    BY <1>1
  <1>3. /\ feed \in Seq(FeedType) /\ DOMAIN feed = 1..Len(feed) /\ Len(feed) \in Nat
        /\ None \notin DOMAIN feed
    BY LenProperties, NamesAssumption DEF SInv, FeedInv
  <1>4. ASSUME NEW j \in DOMAIN feed
        PROVE  /\ feed[j] \in FeedType /\ feed[j].head \in Nat /\ feed[j].viewers \in Nat
               /\ feed[j].viewers = Cardinality(Viewers(j)) /\ IsFiniteSet(Viewers(j))
    <2>1. IsFiniteSet(Viewers(j))
      <3>1. Viewers(j) \in SUBSET Sess
        BY DEF Viewers
      <3> QED
        BY <1>1, <3>1, FS_Subset
    <2> QED
      BY <2>1, HeadsAre DEF SInv, FeedInv
  <1>5. ASSUME NEW j \in DOMAIN feed, j # i PROVE Viewers(j)' = Viewers(j)
    BY <1>1, <1>2, <1>3, <1>5 DEF Viewers, S
  <1>6. Cardinality(Viewers(i)') = feed[i].viewers + k
    <2>1. CASE k = 1
      <3>1. Viewers(i)' = Viewers(i) \cup {s} /\ s \notin Viewers(i)
        BY <1>1, <1>2, <1>3, <2>1 DEF Viewers, S
      <3> QED
        <4>1. Cardinality(Viewers(i)') = Cardinality(Viewers(i)) + 1
          BY <1>4, <3>1, FS_AddElement
        <4> QED
          BY <1>4, <2>1, <4>1
    <2>2. CASE k = -1
      <3>1. Viewers(i)' = Viewers(i) \ {s} /\ s \in Viewers(i)
        BY <1>1, <1>2, <1>3, <2>2 DEF Viewers, S
      <3>2. Cardinality(Viewers(i)') = Cardinality(Viewers(i)) - 1
        BY <1>4, <3>1, FS_RemoveElement
      <3> QED
        BY <1>4, <2>2, <3>2
    <2> QED
      BY <2>1, <2>2
  <1>7. feed[i].viewers + k \in Nat
    <2>1. IsFiniteSet(Viewers(i)')
      <3>1. Viewers(i)' \in SUBSET Sess
        BY DEF Viewers
      <3> QED
        BY <1>1, <3>1, FS_Subset
    <2> QED
      BY <1>6, <2>1, FS_CardinalityType
  <1>8. /\ feed' \in Seq(FeedType) /\ DOMAIN feed' = DOMAIN feed
        /\ feed'[i].head = feed[i].head /\ feed'[i].viewers = feed[i].viewers + k
        /\ \A j \in DOMAIN feed : j # i => feed'[j] = feed[j]
    <2> DEFINE e == [feed[i] EXCEPT !.viewers = @ + k]
    <2>1. e \in FeedType /\ e.head = feed[i].head /\ e.viewers = feed[i].viewers + k
      BY <1>4, <1>7 DEF FeedType
    <2>2. feed' = [feed EXCEPT ![i] = e]
      BY <1>1
    <2> HIDE DEF e
    <2>3. feed' \in Seq(FeedType) /\ DOMAIN feed' = DOMAIN feed
      BY <1>3, <2>1, <2>2, ExceptSeq
    <2> QED
      BY <1>3, <2>1, <2>2, <2>3
  <1>9. Grown(feed, feed')
    BY <1>4, <1>8 DEF Grown
  <1>10. ASSUME NEW j \in DOMAIN feed PROVE feed'[j].viewers = Cardinality(Viewers(j)')
    BY <1>4, <1>5, <1>6, <1>8
  <1> QED
    BY <1>8, <1>9, <1>10 DEF SInv, FeedInv

\* FeedReader::drop.
LEMMA DetachKeeps ==
  ASSUME Inv, SInv, NEW s \in DOMAIN scen.callers, Detach(s, S(s)), S(s).pc \in Hosted,
         S(s).pc = "type" => S(s).gone,
         UNCHANGED <<scen, media, audit, duplex, feeds, bridge>>
  PROVE  SInv'
  <1> DEFINE r == S(s)
             n == [r EXCEPT !.pc = "done", !.attached = None]
  <1>1. Session(Caller(s), r, audit[s], feed) /\ DOMAIN r = SessFields
    BY OneSession
  <1>2. r.attached # None /\ r.attached \in DOMAIN feed
    BY <1>1 DEF Session, ViewOf
  <1>3. Session(Caller(s), n, audit[s], feed) /\ n.attached = None /\ n.relay = r.relay
    BY <1>1, DetachOk DEF SessFields
  <1>4. Set(s, n) /\ Attach(r.attached, -1)
    BY DEF Detach
  <1> HIDE DEF n
  <1>5. FeedInv' /\ Grown(feed, feed')
    BY <1>2, <1>3, <1>4, AttachStep
  <1>6. Session(Caller(s), n, audit'[s], feed')
    BY <1>3, <1>5, FeedsGrow DEF Grown
  <1>7. DOMAIN audit' = Sess /\ \A u \in Sess \ {s} : audit'[u] = audit[u]
    BY DEF SInv, SessInv
  <1>8. SessInv'
    BY <1>4, <1>5, <1>6, <1>7, SessStep DEF Set
  <1>9. EntryInv'
    <2>1. \A u \in DOMAIN scen.callers : u \in Sess
      BY CallersAre
    <2>2. \A u \in DOMAIN scen.callers : sess'[u].relay = sess[u].relay
      BY <1>3, <1>4, <2>1 DEF Set, SInv, SessInv, S
    <2> QED
      BY <2>2 DEF SInv, EntryInv, Caller, S
  <1> QED
    BY <1>5, <1>8, <1>9, BridgeKept DEF SInv

LEMMA SubscribeKeeps ==
  ASSUME Inv, SInv, NEW s \in DOMAIN scen.callers, subscribe(s)
  PROVE  SInv'
  <1> DEFINE r == S(s)
             name == Caller(s).source
             i == feeds[name]
             h == feed[i].head
             n == [r EXCEPT !.pc = "type", !.attached = i, !.pos = h, !.from = h]
  <1>1. /\ r.pc = "open" /\ r.src.command = "host"
        /\ UNCHANGED <<scen, media, audit, duplex, feeds, bridge>>
    BY DEF subscribe
  <1>2. /\ Session(Caller(s), r, audit[s], feed) /\ DOMAIN r = SessFields
        /\ r.group = {} /\ ~r.started /\ audit[s] = <<"allow">>
    BY <1>1, OneSession DEF Session, LifeOf, HeadOf, Waiting
  <1>3. CASE name \in DOMAIN feeds
    <2>1. Attach(i, 1) /\ Set(s, n)
      <3>1. [r EXCEPT !.pc = "type", !.attached = i, !.pos = h, !.from = h] = n
        OBVIOUS
      <3> QED
        BY <1>3, <3>1 DEF subscribe
    <2>2. i \in DOMAIN feed /\ i # None /\ h \in Nat /\ r.attached = None
      <3>1. i \in DOMAIN feed
        BY <1>3 DEF SInv, FeedInv
      <3>2. i \in Nat
        BY <3>1, LenProperties DEF SInv, FeedInv
      <3> QED
        BY <1>1, <1>2, <3>1, <3>2, HeadsAre, NamesAssumption DEF SInv, Session, ViewOf, Hosted
    <2> HIDE DEF i, h
    <2>3. Session(Caller(s), n, audit[s], feed) /\ n.attached = i /\ n.relay = r.relay
      <3>1. Session(Caller(s), n, audit[s], feed)
        BY <1>1, <1>2, <2>2, SubscribeOk DEF h
      <3> QED
        BY <1>2, <3>1 DEF SessFields
    <2> HIDE DEF n
    <2>4. FeedInv' /\ Grown(feed, feed')
      <3>1. 1 \in {1, -1}
        OBVIOUS
      <3> QED
        BY <1>1, <2>1, <2>2, <2>3, <3>1, AttachStep
    <2>5. Session(Caller(s), n, audit'[s], feed')
      BY <1>1, <2>3, <2>4, FeedsGrow DEF Grown
    <2>6. DOMAIN audit' = Sess /\ \A u \in Sess \ {s} : audit'[u] = audit[u]
      BY <1>1 DEF SInv, SessInv
    <2>7. SessInv'
      BY <1>1, <2>1, <2>4, <2>5, <2>6, SessStep DEF Set
    <2>8. EntryInv'
      <3>1. \A u \in DOMAIN scen.callers : u \in Sess
        BY CallersAre
      <3>2. \A u \in DOMAIN scen.callers : sess'[u].relay = sess[u].relay
        BY <2>1, <2>3, <3>1 DEF Set, SInv, SessInv, S
      <3> QED
        BY <1>1, <3>2 DEF SInv, EntryInv, Caller, S
    <2> QED
      BY <1>1, <2>4, <2>7, <2>8, BridgeKept DEF SInv
  <1>4. CASE name \notin DOMAIN feeds
    <2>1. Set(s, Answer(r, "Error")) /\ feed' = feed
      BY <1>4 DEF subscribe
    <2>2. "Error" \in Closing /\ "Error" # "Denied"
      BY DEF Closing
    <2> HIDE DEF r
    <2>3. Session(Caller(s), Answer(r, "Error"), audit[s], feed)
      BY <1>1, <1>2, <2>2, AnswerOk
    <2>4. Answer(r, "Error").attached = r.attached /\ Answer(r, "Error").relay = r.relay
      BY <1>2 DEF Answer, SessFields
    <2> QED
      BY <1>1, <2>1, <2>3, <2>4, PlainStep DEF r
  <1> QED
    BY <1>3, <1>4

LEMMA HostHeaderKeeps ==
  ASSUME Inv, SInv, NEW s \in DOMAIN scen.callers, HostHeader(s)
  PROVE  SInv'
  <1> DEFINE r == S(s)
             n == [r EXCEPT !.pc = "watch", !.started = TRUE, !.down = Append(@, Frame("Media"))]
  <1>1. /\ r.pc = "type" /\ UNCHANGED <<scen, media, audit, duplex, feeds, bridge>>
        /\ (r.gone /\ Detach(s, r)) \/ (Set(s, n) /\ feed' = feed)
    BY DEF HostHeader
  <1>2. CASE r.gone /\ Detach(s, r)
    BY <1>1, <1>2, DetachKeeps DEF Hosted
  <1>3. CASE Set(s, n) /\ feed' = feed
    <2>1. Session(Caller(s), n, audit[s], feed) /\ n.attached = r.attached /\ n.relay = r.relay
      BY <1>1, OneSession, HostHeaderOk DEF SessFields
    <2> HIDE DEF n
    <2> QED
      BY <1>1, <1>3, <2>1, PlainStep
  <1> QED
    BY <1>1, <1>2, <1>3

LEMMA SendFeedKeeps ==
  ASSUME Inv, SInv, NEW s \in DOMAIN scen.callers, SendFeed(s)
  PROVE  SInv'
  <1> DEFINE r == S(s)
             n == [r EXCEPT !.pc = "watch", !.down = Append(@, Raw(r.held))]
  <1>1. /\ r.pc = "sendFeed" /\ UNCHANGED <<scen, media, audit, duplex, feeds, bridge>>
        /\ Detach(s, r) \/ (Len(r.down) < Window /\ Set(s, n) /\ feed' = feed)
    BY DEF SendFeed
  <1>2. CASE Detach(s, r)
    BY <1>1, <1>2, DetachKeeps DEF Hosted
  <1>3. CASE Len(r.down) < Window /\ Set(s, n) /\ feed' = feed
    <2>1. Session(Caller(s), n, audit[s], feed) /\ n.attached = r.attached /\ n.relay = r.relay
      BY <1>1, <1>3, OneSession, SendFeedOk DEF SessFields
    <2> HIDE DEF n
    <2> QED
      BY <1>1, <1>3, <2>1, PlainStep
  <1> QED
    BY <1>1, <1>2, <1>3

LEMMA FeedNextKeeps ==
  ASSUME Inv, SInv, NEW s \in DOMAIN scen.callers, FeedNext(s)
  PROVE  SInv'
  <1> DEFINE r == S(s)
             f == feed[r.attached]
             at == Resume(f, r.pos)
             n == [r EXCEPT !.pc = "sendFeed", !.held = at + 1, !.pos = at + 1,
                            !.skipped = @ + (at - r.pos)]
  <1>1. /\ r.pc = "watch" /\ UNCHANGED <<scen, media, audit, duplex, feeds, bridge>>
        /\ Detach(s, r) \/ (r.pos < f.head /\ Set(s, n) /\ feed' = feed)
    BY Zenon DEF FeedNext
  <1>2. CASE Detach(s, r)
    BY <1>1, <1>2, DetachKeeps DEF Hosted
  <1>3. CASE r.pos < f.head /\ Set(s, n) /\ feed' = feed
    <2>1. Session(Caller(s), r, audit[s], feed) /\ DOMAIN r = SessFields /\ r.pos \in Nat
      BY OneSession, Typed
    <2>2. r.attached \in DOMAIN feed
      BY <1>1, <2>1 DEF Session, ViewOf, Hosted
    <2>3. f.head \in Nat
      BY <2>2, HeadsAre DEF SInv
    <2> HIDE DEF f
    <2>4. at \in Nat /\ r.pos <= at /\ at < f.head
      <3>1. FeedCap \in Nat \ {0}
        BY BoundsAssumption
      <3> QED
        BY <1>3, <2>1, <2>3, <3>1 DEF Resume
    <2> HIDE DEF at
    <2>5. Session(Caller(s), n, audit[s], feed) /\ n.attached = r.attached /\ n.relay = r.relay
      <3>1. Session(Caller(s), n, audit[s], feed)
        BY <1>1, <2>1, <2>3, <2>4, FeedNextOk DEF f
      <3> QED
        BY <2>1, <3>1 DEF SessFields
    <2> HIDE DEF n
    <2> QED
      BY <1>1, <1>3, <2>5, PlainStep
  <1> QED
    BY <1>1, <1>2, <1>3

(* The callers. *)

\* A browser's relay dials.
LEMMA DialOk ==
  ASSUME NEW c, NEW r, NEW a, NEW f, Session(c, r, a, f), r.caller = "idle", c.kind = "relay"
  PROVE  Session(c, [r EXCEPT !.caller = "dial"], a, f)
  <1> DEFINE n == [r EXCEPT !.caller = "dial"]
             Ch == {"caller"}
  <1> SUFFICES Session(c, n, a, f)
    OBVIOUS
  <1>1. Same(r, n, Ch) /\ n.caller = "dial" /\ n.pc = r.pc
    BY DEF Session, SessType, Same, SessFields
  <1> HIDE DEF n
  <1>2. /\ n.group = r.group /\ n.lost = r.lost /\ n.gone = r.gone /\ n.quit = r.quit
        /\ n.pending = r.pending /\ n.post = r.post /\ n.relay = r.relay /\ n.q = r.q
        /\ n.pin = r.pin /\ n.out = r.out /\ n.down = r.down /\ n.up = r.up
    BY <1>1 DEF Same, SessFields
  <1>3. Fits(n, Ch)
    BY <1>1 DEF Fits, Places, Callings, Flags, Numbers, Queues, Streams
  <1>4. LifeOf(n, a)
    BY <1>1, <1>2 DEF Session, LifeOf, Waiting, Hosted
  <1>5. KindOf(c, n)
    BY <1>1, <1>2 DEF Session, KindOf
  <1>6. HeadMove(r, n, Ch)
    BY <1>1 DEF HeadMove, HeadFields
  <1>7. BytesMove(r, n, Ch)
    BY <1>1 DEF BytesMove, BytesFields
  <1>8. StreamMove(r, n, Ch)
    BY <1>1 DEF StreamMove, StreamFields
  <1>9. ViewMove(r, n, Ch)
    BY <1>1 DEF ViewMove, ViewFields
  <1> HIDE DEF Ch
  <1> QED
    BY <1>1, <1>3, <1>4, <1>5, <1>6, <1>7, <1>8, <1>9, Keeps

\* A step that leaves the audit alone, and enters or removes the session's own entry at most.
LEMMA CallerStep ==
  ASSUME Inv, SInv, NEW s \in DOMAIN scen.callers, NEW n, Set(s, n),
         UNCHANGED <<scen, media, audit, feeds, feed, bridge>>,
         Session(Caller(s), n, audit[s], feed), n.attached = S(s).attached,
         \/ duplex' \subseteq duplex \cup {s} /\ n.relay # "done"
         \/ duplex' = duplex /\ n.relay = S(s).relay
         \/ duplex' = duplex \ {s}
  PROVE  SInv'
  <1>1. s \in duplex /\ Caller(s).kind = "relay" => S(s).relay # "done"
    BY DEF SInv, EntryInv
  <1>2. DOMAIN audit' = Sess
    BY DEF SInv, SessInv
  <1>3. duplex' \subseteq duplex \cup {s} /\ (s \in duplex' /\ Caller(s).kind = "relay"
          => n.relay # "done")
    BY <1>1
  <1> QED
    BY <1>2, <1>3, OwnStep

LEMMA AskKeeps ==
  ASSUME Inv, SInv, NEW s \in DOMAIN scen.callers, Ask(s)
  PROVE  SInv'
  <1> DEFINE r == S(s)
             m == [r EXCEPT !.caller = "dial"]
             n == [r EXCEPT !.caller = "wait", !.pc = "asked"]
             x == [r EXCEPT !.caller = "wait", !.pc = "asked", !.relay = r.relay]
  <1>1. /\ r.caller = "idle" /\ duplex' \subseteq duplex \cup {s}
        /\ Set(s, IF Caller(s).kind = "relay" THEN m ELSE n)
        /\ UNCHANGED <<scen, media, audit, feeds, feed, bridge>>
    BY DEF Ask
  <1>2. Session(Caller(s), r, audit[s], feed) /\ DOMAIN r = SessFields /\ r.relay = "none"
    BY <1>1, OneSession DEF Session, LifeOf, KindOf
  <1>3. CASE Caller(s).kind = "relay"
    <2>1. Session(Caller(s), m, audit[s], feed) /\ m.attached = r.attached /\ m.relay = "none"
      BY <1>1, <1>2, <1>3, DialOk DEF SessFields
    <2> HIDE DEF m, n
    <2> QED
      BY <1>1, <1>3, <2>1, CallerStep
  <1>4. CASE Caller(s).kind # "relay"
    <2>1. Session(Caller(s), x, audit[s], feed)
      BY <1>1, <1>2, AskOk
    <2>2. n = x
      <3> DEFINE z == [y \in SessFields |-> IF y = "caller" THEN "wait"
                                            ELSE IF y = "pc" THEN "asked" ELSE r[y]]
      <3>1. n = z
        BY <1>2 DEF SessFields
      <3>2. x = z
        BY <1>2 DEF SessFields
      <3> QED
        BY <3>1, <3>2
    <2>3. n.attached = r.attached /\ n.relay = "none"
      BY <1>2 DEF SessFields
    <2>4. Session(Caller(s), n, audit[s], feed)
      BY <2>1, <2>2
    <2> HIDE DEF m, n, x
    <2> QED
      BY <1>1, <1>4, <2>3, <2>4, CallerStep
  <1> QED
    BY <1>3, <1>4

LEMMA DialKeeps ==
  ASSUME Inv, SInv, NEW s \in DOMAIN scen.callers, Dial(s)
  PROVE  SInv'
  <1> DEFINE r == S(s)
             m == [r EXCEPT !.caller = "wait", !.pc = "asked", !.relay = "first"]
             n == [r EXCEPT !.caller = "left", !.pc = "done"]
  <1>1. /\ r.caller = "dial" /\ UNCHANGED <<scen, media, audit, feeds, feed, bridge>>
        /\ (Set(s, m) /\ duplex' = duplex) \/ (Set(s, n) /\ duplex' = duplex \ {s})
    BY DEF Dial
  <1>2. Session(Caller(s), r, audit[s], feed) /\ DOMAIN r = SessFields /\ Caller(s).kind = "relay"
    BY <1>1, OneSession DEF Session, KindOf
  <1>3. /\ Session(Caller(s), m, audit[s], feed) /\ m.attached = r.attached /\ m.relay = "first"
        /\ Session(Caller(s), n, audit[s], feed) /\ n.attached = r.attached
    BY <1>1, <1>2, AskOk, DialFails DEF SessFields
  <1> HIDE DEF m, n
  <1> QED
    BY <1>1, <1>3, CallerStep

\* The item a caller takes.
LEMMA TookIs ==
  ASSUME NEW r, DOMAIN r = SessFields
  PROVE  /\ Took(r).got = Append(r.got, Head(r.down)) /\ Took(r).down = Tail(r.down)
         /\ Opens(Head(r.down)) => /\ Same(r, Took(r), {"got", "down", "caller"})
                                   /\ Took(r).caller = "on"
         /\ ~Opens(Head(r.down)) => /\ Same(r, Took(r), {"got", "down", "caller", "gone"})
                                    /\ Took(r).caller = "left" /\ Took(r).gone = TRUE
         /\ DOMAIN Took(r) = SessFields
  BY DEF Took, Opens, Leaves, Same, SessFields

LEMMA HearKeeps ==
  ASSUME Inv, SInv, NEW s \in DOMAIN scen.callers, Hear(s)
  PROVE  SInv'
  <1> DEFINE r == S(s)
  <1>1. /\ r.caller \in {"wait", "on"} /\ UNCHANGED <<scen, media, audit, duplex, feeds, feed, bridge>>
        /\ (r.down # <<>> /\ Set(s, Took(r))) \/ (r.pc = "done" /\ Set(s, Leaves(r)))
    BY DEF Hear, Over2
  <1>2. Session(Caller(s), r, audit[s], feed) /\ DOMAIN r = SessFields
    BY OneSession
  <1>3. CASE r.down # <<>> /\ Set(s, Took(r)) /\ Opens(Head(r.down))
    <2> DEFINE n == Took(r)
    <2>1. /\ Same(r, n, {"got", "down", "caller"}) /\ n.caller = "on"
          /\ n.got = Append(r.got, Head(r.down)) /\ n.down = Tail(r.down)
      BY <1>2, <1>3, TookIs
    <2> HIDE DEF n
    <2>2. Same(r, n, {"got", "down", "caller", "relay"}) /\ n.relay = r.relay
          /\ n.attached = r.attached
      BY <2>1 DEF Same, SessFields
    <2>3. Session(Caller(s), n, audit[s], feed)
      BY <1>1, <1>2, <1>3, <2>1, <2>2, HearOk
    <2> QED
      BY <1>1, <1>3, <2>2, <2>3, CallerStep DEF n
  <1>4. CASE r.down # <<>> /\ Set(s, Took(r)) /\ ~Opens(Head(r.down))
    <2> DEFINE n == Took(r)
    <2>1. /\ Same(r, n, {"got", "down", "caller", "gone"}) /\ n.caller = "left" /\ n.gone = TRUE
          /\ n.got = Append(r.got, Head(r.down)) /\ n.down = Tail(r.down)
      BY <1>2, <1>4, TookIs
    <2> HIDE DEF n
    <2>2. Same(r, n, {"got", "down", "caller", "gone", "relay"}) /\ n.relay = r.relay
          /\ n.attached = r.attached
      BY <2>1 DEF Same, SessFields
    <2>3. Head(r.down).class \notin {"Media", "AudioDuplex", "Raw"}
      BY <1>4 DEF Opens
    <2>4. Session(Caller(s), n, audit[s], feed)
      BY <1>1, <1>2, <1>4, <2>1, <2>2, <2>3, HearLastOk
    <2> QED
      BY <1>1, <1>4, <2>2, <2>4, CallerStep DEF n
  <1>5. CASE r.pc = "done" /\ Set(s, Leaves(r))
    <2>1. /\ Session(Caller(s), Leaves(r), audit[s], feed)
          /\ Leaves(r).attached = r.attached /\ Leaves(r).relay = r.relay
      BY <1>1, <1>2, <1>5, LeftOk DEF Leaves, SessFields
    <2> QED
      BY <1>1, <1>5, <2>1, CallerStep
  <1> QED
    BY <1>1, <1>3, <1>4, <1>5

LEMMA TalkKeeps ==
  ASSUME Inv, SInv, NEW s \in DOMAIN scen.callers, Talk(s)
  PROVE  SInv'
  <1> DEFINE r == S(s)
             k == [r EXCEPT !.pending = r.said + 1, !.said = @ + 1]
             m == [r EXCEPT !.fin = TRUE]
             n == [r EXCEPT !.up = Append(@, r.pending), !.pending = 0]
  <1>1. /\ r.caller = "on" /\ Caller(s).kind = "talk"
        /\ UNCHANGED <<scen, media, audit, duplex, feeds, feed, bridge>>
        /\ \/ r.pending = 0 /\ Set(s, k)
           \/ Set(s, m)
           \/ r.pending # 0 /\ Len(r.up) < Window /\ Set(s, n)
           \/ r.pc = "done" /\ Set(s, Leaves(r))
    BY DEF Talk
  <1>2. Session(Caller(s), r, audit[s], feed) /\ DOMAIN r = SessFields /\ r.pc # "new"
    BY <1>1, OneSession DEF LifeOf
  <1>3. /\ k.attached = r.attached /\ k.relay = r.relay /\ m.attached = r.attached
        /\ m.relay = r.relay /\ n.attached = r.attached /\ n.relay = r.relay
    BY <1>2 DEF SessFields
  <1>4. CASE r.pending = 0 /\ Set(s, k)
    <2>1. Session(Caller(s), k, audit[s], feed)
      BY <1>1, <1>2, <1>4, TalkSaysOk
    <2> HIDE DEF k
    <2> QED
      BY <1>1, <1>3, <1>4, <2>1, CallerStep
  <1>5. CASE Set(s, m)
    <2>1. Session(Caller(s), m, audit[s], feed)
      BY <1>2, FinOk
    <2> HIDE DEF m
    <2> QED
      BY <1>1, <1>3, <1>5, <2>1, CallerStep
  <1>6. CASE r.pending # 0 /\ Len(r.up) < Window /\ Set(s, n)
    <2>1. Session(Caller(s), n, audit[s], feed)
      BY <1>1, <1>2, <1>6, TalkSendsOk
    <2> HIDE DEF n
    <2> QED
      BY <1>1, <1>3, <1>6, <2>1, CallerStep
  <1>7. CASE r.pc = "done" /\ Set(s, Leaves(r))
    <2>1. /\ Session(Caller(s), Leaves(r), audit[s], feed)
          /\ Leaves(r).attached = r.attached /\ Leaves(r).relay = r.relay
      BY <1>1, <1>2, <1>7, LeftOk DEF Leaves, SessFields
    <2> QED
      BY <1>1, <1>7, <2>1, CallerStep
  <1> QED
    BY <1>1, <1>4, <1>5, <1>6, <1>7

LEMMA LeaveKeeps ==
  ASSUME Inv, SInv, NEW s \in DOMAIN scen.callers, Leave(s)
  PROVE  SInv'
  <1> DEFINE r == S(s)
             q == [r EXCEPT !.quit = TRUE]
             n == IF Caller(s).kind = "relay" THEN [q EXCEPT !.caller = "left"] ELSE Leaves(q)
  <1>1. /\ r.caller \in {"wait", "on"} /\ Set(s, n)
        /\ UNCHANGED <<scen, media, audit, duplex, feeds, feed, bridge>>
    BY DEF Leave
  <1>2. Session(Caller(s), r, audit[s], feed) /\ DOMAIN r = SessFields /\ r.gone \in BOOLEAN
    BY OneSession, Typed
  <1>3. /\ Same(r, n, {"caller", "gone", "quit"}) /\ n.caller = "left" /\ n.gone \in BOOLEAN
        /\ n.quit = TRUE
    <2>1. CASE Caller(s).kind = "relay"
      <3>1. n = [q EXCEPT !.caller = "left"]
        BY <2>1
      <3> QED
        BY <1>2, <3>1 DEF Same, SessFields
    <2>2. CASE Caller(s).kind # "relay"
      <3>1. n = Leaves(q)
        BY <2>2
      <3> QED
        BY <1>2, <3>1 DEF Same, SessFields, Leaves
    <2> QED
      BY <2>1, <2>2
  <1> HIDE DEF n
  <1>4. n.attached = r.attached /\ n.relay = r.relay
    BY <1>3 DEF Same, SessFields
  <1>5. Session(Caller(s), n, audit[s], feed)
    BY <1>1, <1>2, <1>3, HangUpOk
  <1> QED
    BY <1>1, <1>4, <1>5, CallerStep

\* A POST takes its sender, or the exchange is over ...
LEMMA PostLookupKeeps ==
  ASSUME Inv, SInv, NEW s \in DOMAIN scen.callers, PostLookup(s)
  PROVE  SInv'
  <1> DEFINE r == S(s)
             p == [r EXCEPT !.posting = TRUE]
             e == NothingMore(s, r)
  <1>1. /\ r.said <= Caller(s).chunks /\ Caller(s).chunks \in Nat
        /\ UNCHANGED <<scen, media, audit, duplex, feeds, feed, bridge>>
        /\ Set(s, p) \/ Set(s, e)
    BY CallersAssumption DEF PostLookup, Posts, Inv, TypeInv, Caller
  <1>2. Session(Caller(s), r, audit[s], feed) /\ DOMAIN r = SessFields
    BY OneSession
  <1>3. p.attached = r.attached /\ p.relay = r.relay
    BY <1>2 DEF SessFields
  <1>4. Session(Caller(s), p, audit[s], feed)
    BY <1>2, PostingOk
  <1>5. Session(Caller(s), e, audit[s], feed) /\ e.attached = r.attached /\ e.relay = r.relay
    BY <1>1, <1>2, NothingMoreOk
  <1> HIDE DEF p, e
  <1> QED
    BY <1>1, <1>3, <1>4, <1>5, CallerStep

\* ... and sends, if there still is one.
LEMMA PostSendKeeps ==
  ASSUME Inv, SInv, NEW s \in DOMAIN scen.callers, PostSend(s)
  PROVE  SInv'
  <1> DEFINE r == S(s)
             p == [r EXCEPT !.posting = FALSE]
             sent == [p EXCEPT !.said = @ + 1]
             e == NothingMore(s, r)
             j == [sent EXCEPT !.post = Append(@, 0)]
             k == [sent EXCEPT !.post = Append(@, p.said + 1)]
             m == [sent EXCEPT !.up = Append(@, p.said + 1)]
             n == [sent EXCEPT !.fin = TRUE]
  <1>1. Session(Caller(s), r, audit[s], feed) /\ DOMAIN r = SessFields
    BY OneSession
  <1>2. /\ p.said = r.said /\ p.post = r.post /\ p.up = r.up
        /\ [r EXCEPT !.posting = FALSE, !.said = @ + 1] = sent
    BY <1>1 DEF SessFields
  <1>3. /\ r.said <= Caller(s).chunks /\ Caller(s).chunks \in Nat
        /\ UNCHANGED <<scen, media, audit, feeds, feed, bridge>>
    BY CallersAssumption DEF PostSend, Posts, Inv, TypeInv, Caller
  <1>4. \/ duplex' = duplex \ {s} /\ Set(s, e)
        \/ /\ duplex' = duplex
           /\ \/ Caller(s).kind = "relay" /\ Len(p.post) < PostCap /\ (Set(s, j) \/ Set(s, k))
              \/ Caller(s).kind = "local" /\ Len(p.up) < PostCap /\ Set(s, m)
              \/ Set(s, n)
    <2>1. CASE r.said = Caller(s).chunks
      BY <1>2, <2>1 DEF PostSend
    <2>2. CASE r.said # Caller(s).chunks
      BY <1>2, <2>2 DEF PostSend
    <2> QED
      BY <2>1, <2>2
  <1>5. Session(Caller(s), p, audit[s], feed) /\ DOMAIN p = SessFields
        /\ p.attached = r.attached /\ p.relay = r.relay
    BY <1>1, PostingOk DEF SessFields
  <1>6. Session(Caller(s), e, audit[s], feed) /\ e.attached = r.attached /\ e.relay = r.relay
    BY <1>1, <1>3, NothingMoreOk
  <1> HIDE DEF p, e
  <1>7. /\ j.attached = r.attached /\ j.relay = r.relay /\ k.attached = r.attached
        /\ k.relay = r.relay /\ m.attached = r.attached /\ m.relay = r.relay
        /\ n.attached = r.attached /\ n.relay = r.relay
    BY <1>5 DEF SessFields
  <1>8. CASE Set(s, e) /\ duplex' = duplex \ {s}
    BY <1>3, <1>6, <1>8, CallerStep
  <1>9. CASE Caller(s).kind = "relay" /\ Len(p.post) < PostCap /\ Set(s, j) /\ duplex' = duplex
    <2>1. Session(Caller(s), j, audit[s], feed)
      BY <1>5, <1>9, PostLastOk
    <2> HIDE DEF j
    <2> QED
      BY <1>3, <1>7, <1>9, <2>1, CallerStep
  <1>10. CASE Caller(s).kind = "relay" /\ Len(p.post) < PostCap /\ Set(s, k) /\ duplex' = duplex
    <2>1. Session(Caller(s), k, audit[s], feed)
      BY <1>5, <1>10, PostRelayOk
    <2> HIDE DEF k
    <2> QED
      BY <1>3, <1>7, <1>10, <2>1, CallerStep
  <1>11. CASE Caller(s).kind = "local" /\ Len(p.up) < PostCap /\ Set(s, m) /\ duplex' = duplex
    <2>1. Session(Caller(s), m, audit[s], feed)
      BY <1>5, <1>11, PostLocalOk
    <2> HIDE DEF m
    <2> QED
      BY <1>3, <1>7, <1>11, <2>1, CallerStep
  <1>12. CASE Set(s, n) /\ duplex' = duplex
    <2>1. Session(Caller(s), n, audit[s], feed)
      BY <1>5, PostFinOk
    <2> HIDE DEF n
    <2> QED
      BY <1>3, <1>7, <1>12, <2>1, CallerStep
  <1> HIDE DEF j, k, m, n
  <1> QED
    BY <1>4, <1>8, <1>9, <1>10, <1>11, <1>12

\* relay_duplex ends: its entry goes with it.
LEMMA RelayEndsKeeps ==
  ASSUME Inv, SInv, NEW s \in DOMAIN scen.callers, RelayEnds(s, S(s)), S(s).relay # "none",
         S(s).caller = "left" \/ S(s).pc = "done",
         UNCHANGED <<scen, media, audit, feeds, feed, bridge>>
  PROVE  SInv'
  <1> DEFINE n == [S(s) EXCEPT !.relay = "done", !.gone = TRUE]
  <1>1. Session(Caller(s), n, audit[s], feed) /\ n.attached = S(s).attached
    BY OneSession, RelayEndsOk DEF SessFields
  <1>2. Set(s, n) /\ duplex' = duplex \ {s}
    BY DEF RelayEnds
  <1> HIDE DEF n
  <1> QED
    BY <1>1, <1>2, CallerStep

LEMMA RelayKeeps ==
  ASSUME Inv, SInv, NEW s \in DOMAIN scen.callers, Relay(s)
  PROVE  SInv'
  <1> DEFINE r == S(s)
             k == [Took(r) EXCEPT !.relay = "run"]
             l == [Took(r) EXCEPT !.relay = "done"]
             m == [r EXCEPT !.relay = "send"]
             n == [r EXCEPT !.fin = TRUE]
  <1>1. /\ r.relay \in {"first", "run"} /\ UNCHANGED <<scen, media, audit, feeds, feed, bridge>>
        /\ \/ (r.caller = "left" \/ r.pc = "done") /\ RelayEnds(s, r)
           \/ /\ r.down # <<>> /\ r.caller # "left" /\ Opens(Head(r.down))
              /\ Set(s, k) /\ duplex' = duplex
           \/ /\ r.down # <<>> /\ r.caller # "left" /\ ~Opens(Head(r.down))
              /\ Set(s, l) /\ duplex' = duplex \ {s}
           \/ /\ r.relay = "run" /\ r.post # <<>> /\ Head(r.post) # 0
              /\ Set(s, m) /\ duplex' = duplex
           \/ Set(s, n) /\ duplex' = duplex \ {s}
    BY DEF Relay, Over2
  <1>2. Session(Caller(s), r, audit[s], feed) /\ DOMAIN r = SessFields /\ SessType(r)
    BY OneSession
  <1>3. r.caller # "left" => r.caller \in {"wait", "on"}
    <2>1. r.caller \in Callings
      BY <1>2, Typed
    <2>2. r.pc # "new"
      BY <1>1, <1>2 DEF Session, KindOf
    <2> QED
      BY <1>2, <2>1, <2>2 DEF Session, LifeOf, Callings
  <1>4. CASE (r.caller = "left" \/ r.pc = "done") /\ RelayEnds(s, r)
    BY <1>1, <1>4, RelayEndsKeeps
  <1>5. CASE /\ r.down # <<>> /\ r.caller # "left" /\ Opens(Head(r.down))
             /\ Set(s, k) /\ duplex' = duplex
    <2>1. /\ Same(r, k, {"got", "down", "caller", "relay"}) /\ k.caller = "on" /\ k.relay = "run"
          /\ k.got = Append(r.got, Head(r.down)) /\ k.down = Tail(r.down)
          /\ k.attached = r.attached
      <3> DEFINE t == Took(r)
      <3>1. /\ Same(r, t, {"got", "down", "caller"}) /\ t.caller = "on" /\ DOMAIN t = SessFields
            /\ t.got = Append(r.got, Head(r.down)) /\ t.down = Tail(r.down)
        BY <1>2, <1>5, TookIs
      <3> HIDE DEF t
      <3>2. k = [t EXCEPT !.relay = "run"]
        BY DEF t
      <3> HIDE DEF k
      <3> QED
        BY <1>2, <3>1, <3>2 DEF Same, SessFields
    <2> HIDE DEF k
    <2>2. Session(Caller(s), k, audit[s], feed)
      BY <1>1, <1>2, <1>3, <1>5, <2>1, HearOk
    <2> QED
      BY <1>1, <1>5, <2>1, <2>2, CallerStep
  <1>6. CASE /\ r.down # <<>> /\ r.caller # "left" /\ ~Opens(Head(r.down))
             /\ Set(s, l) /\ duplex' = duplex \ {s}
    <2>1. /\ Same(r, l, {"got", "down", "caller", "gone", "relay"}) /\ l.caller = "left"
          /\ l.gone = TRUE /\ l.relay = "done"
          /\ l.got = Append(r.got, Head(r.down)) /\ l.down = Tail(r.down)
          /\ l.attached = r.attached
      <3> DEFINE t == Took(r)
      <3>1. /\ Same(r, t, {"got", "down", "caller", "gone"}) /\ t.caller = "left" /\ t.gone = TRUE
            /\ t.got = Append(r.got, Head(r.down)) /\ t.down = Tail(r.down)
            /\ DOMAIN t = SessFields
        BY <1>2, <1>6, TookIs
      <3> HIDE DEF t
      <3>2. l = [t EXCEPT !.relay = "done"]
        BY DEF t
      <3> HIDE DEF l
      <3> QED
        BY <1>2, <3>1, <3>2 DEF Same, SessFields
    <2> HIDE DEF l
    <2>2. Head(r.down).class \notin {"Media", "AudioDuplex", "Raw"}
      BY <1>6 DEF Opens
    <2>3. Session(Caller(s), l, audit[s], feed)
      BY <1>1, <1>2, <1>3, <1>6, <2>1, <2>2, HearLastOk
    <2> QED
      BY <1>1, <1>6, <2>1, <2>3, CallerStep
  <1>7. CASE /\ r.relay = "run" /\ r.post # <<>> /\ Head(r.post) # 0
             /\ Set(s, m) /\ duplex' = duplex
    <2>1. Session(Caller(s), m, audit[s], feed) /\ m.attached = r.attached /\ m.relay = "send"
      BY <1>2, <1>7, RelayTurnsOk DEF SessFields
    <2> HIDE DEF m
    <2> QED
      BY <1>1, <1>7, <2>1, CallerStep
  <1>8. CASE Set(s, n) /\ duplex' = duplex \ {s}
    <2>1. Session(Caller(s), n, audit[s], feed) /\ n.attached = r.attached
      BY <1>2, FinOk DEF SessFields
    <2> HIDE DEF n
    <2> QED
      BY <1>1, <1>8, <2>1, CallerStep
  <1> HIDE DEF k, l, m, n
  <1> QED
    BY <1>1, <1>4, <1>5, <1>6, <1>7, <1>8

LEMMA RelaySendKeeps ==
  ASSUME Inv, SInv, NEW s \in DOMAIN scen.callers, RelaySend(s)
  PROVE  SInv'
  <1> DEFINE r == S(s)
             n == [r EXCEPT !.relay = "run", !.up = Append(@, Head(r.post)), !.post = Tail(@)]
  <1>1. /\ r.relay = "send" /\ UNCHANGED <<scen, media, audit, feeds, feed, bridge>>
        /\ \/ r.pc = "done" /\ RelayEnds(s, r)
           \/ Len(r.up) < Window /\ Set(s, n) /\ duplex' = duplex
    BY DEF RelaySend
  <1>2. CASE r.pc = "done" /\ RelayEnds(s, r)
    BY <1>1, <1>2, RelayEndsKeeps
  <1>3. CASE Len(r.up) < Window /\ Set(s, n) /\ duplex' = duplex
    <2>1. Session(Caller(s), n, audit[s], feed)
      BY <1>1, <1>3, OneSession, RelaySendOk
    <2>2. n.attached = r.attached /\ n.relay = "run"
      BY OneSession DEF SessFields
    <2> HIDE DEF n
    <2> QED
      BY <1>1, <1>3, <2>1, <2>2, CallerStep
  <1> QED
    BY <1>1, <1>2, <1>3

(* The rows of `_media`, and those who write them. *)

LEMMA SessionsIdle ==
  ASSUME SInv, UNCHANGED <<scen, sess, audit, duplex, feeds, feed>>
  PROVE  SessInv' /\ FeedInv' /\ EntryInv'
  <1>1. SessInv'
    BY DEF SInv, SessInv, Caller, S
  <1>2. FeedInv'
    BY ViewersKept DEF SInv, SessInv
  <1>3. EntryInv'
    BY DEF SInv, EntryInv, Caller, S
  <1> QED
    BY <1>1, <1>2, <1>3

LEMMA PipesAre ==
  ASSUME Inv, SInv, NEW b \in DOMAIN bridge
  PROVE  /\ b \in DOMAIN scen.accepts /\ Accepts(b).op \in {"accept", "add", "rm"}
         /\ Accepts(b).row \in Rows(scen.accepts)
         /\ Accepts(b).row.note = "accept" <=> Accepts(b).op = "accept"
         /\ Accepts(b).op # "accept" => Accepts(b).after \in DOMAIN bridge \cup {None}
         /\ DOMAIN bridge[b] = {"pc", "with"} /\ bridge[b].pc \in BridgePcs
  BY CallersAssumption DEF Inv, TypeInv, SInv, BridgeInv, PlacesInv, Accepts

\* What a bridge's step does to its own place.
Goes(b, p) ==
  /\ DOMAIN bridge' = DOMAIN bridge /\ DOMAIN bridge'[b] = {"pc", "with"} /\ bridge'[b].pc = p
  /\ \A c \in DOMAIN bridge : c # b => bridge'[c] = bridge[c]

LEMMA GoesTo ==
  ASSUME Inv, SInv, NEW b \in DOMAIN bridge, NEW p, BridgeTo(b, p)
  PROVE  Goes(b, p)
  BY PipesAre DEF BridgeTo, Goes

LEMMA PlacesKept ==
  ASSUME Inv, SInv, UNCHANGED scen, NEW b \in DOMAIN bridge, NEW p \in BridgePcs, Goes(b, p),
         p \notin {"start", "checked"} \/ bridge[b].pc \in {"start", "checked"},
         Accepts(b).op # "accept" =>
           p = "end" /\ (Accepts(b).after # None =>
                           bridge[Accepts(b).after].pc \notin {"start", "checked"})
  PROVE  PlacesInv'
  <1>1. /\ DOMAIN bridge' = DOMAIN scen.accepts /\ DOMAIN bridge = DOMAIN scen.accepts
        /\ \A c \in DOMAIN bridge : bridge'[c] = bridge[c] \/ (c = b /\ bridge'[c].pc = p)
    BY DEF Goes, SInv, BridgeInv, PlacesInv
  <1>2. ASSUME NEW c \in DOMAIN bridge, bridge[c].pc \notin {"start", "checked"}
        PROVE  bridge'[c].pc \notin {"start", "checked"}
    BY <1>1, <1>2
  <1>3. ASSUME NEW c \in DOMAIN bridge
        PROVE  /\ DOMAIN bridge'[c] = {"pc", "with"} /\ bridge'[c].pc \in BridgePcs
               /\ Accepts(c).op # "accept" => bridge'[c].pc \in {"start", "end"}
               /\ Accepts(c).op # "accept" /\ bridge'[c].pc = "end" /\ Accepts(c).after # None =>
                    bridge'[Accepts(c).after].pc \notin {"start", "checked"}
    <2>1. Accepts(c).op # "accept" => Accepts(c).after \in DOMAIN bridge \cup {None}
      BY PipesAre
    <2>2. CASE c = b
      BY <1>1, <1>2, <2>1, <2>2 DEF Goes
    <2>3. CASE c # b
      BY <1>1, <1>2, <2>1, <2>3 DEF SInv, BridgeInv, PlacesInv
    <2> QED
      BY <2>2, <2>3
  <1> QED
    BY <1>1, <1>3 DEF PlacesInv, Accepts

\* A row is stored: its own, by an `add` or by an acceptor, or the host's.
LEMMA StoredIs ==
  ASSUME SInv, UNCHANGED scen, NEW name, NEW row \in Rows(scen.accepts), upsert_row(name, row)
  PROVE  /\ RowsInv' /\ name \in DOMAIN media' /\ (Lent(media', name) <=> row.note = "accept")
         /\ DOMAIN media' = DOMAIN media \cup {name}
         /\ \A n \in DOMAIN media : n # name => (Lent(media', n) <=> Lent(media, n))
  BY DEF SInv, BridgeInv, RowsInv, upsert_row, Lent

LEMMA RemovedIs ==
  ASSUME SInv, UNCHANGED scen, NEW names, Without(names)
  PROVE  /\ RowsInv' /\ DOMAIN media' = DOMAIN media \ names
         /\ \A n \in DOMAIN media \ names : Lent(media', n) <=> Lent(media, n)
  BY DEF SInv, BridgeInv, RowsInv, Without, Lent

\* Who still lends its row, and what came late, when bridge b goes on to p.
LEMMA LentKept ==
  ASSUME SInv, UNCHANGED scen, NEW b \in DOMAIN bridge, NEW p, Goes(b, p),
         \A n \in DOMAIN media' : Lent(media', n) =>
           (n \in DOMAIN media /\ Lent(media, n))
           \/ (Accepts(b).op = "accept" /\ Accepts(b).name = n /\ p \in AtWork),
         \/ bridge[b].pc \notin AtWork \/ p \in AtWork
         \/ \A n \in DOMAIN media' : Lent(media', n) => Accepts(b).name # n
  PROVE  LentInv'
  <1> SUFFICES ASSUME NEW n \in DOMAIN media', Lent(media', n)
               PROVE  \E c \in DOMAIN bridge' :
                        /\ scen.accepts[c].op = "accept" /\ scen.accepts[c].name = n
                        /\ bridge'[c].pc \in AtWork
    BY DEF LentInv, Accepts
  <1>1. CASE Accepts(b).op = "accept" /\ Accepts(b).name = n /\ p \in AtWork
    BY <1>1 DEF Goes, Accepts
  <1>2. CASE n \in DOMAIN media /\ Lent(media, n)
    <2>1. PICK c \in DOMAIN bridge :
            Accepts(c).op = "accept" /\ Accepts(c).name = n /\ bridge[c].pc \in AtWork
      BY <1>2 DEF SInv, BridgeInv, LentInv
    <2>2. bridge'[c].pc \in AtWork
      BY <2>1 DEF Goes
    <2> QED
      BY <2>1, <2>2 DEF Goes, Accepts
  <1> QED
    BY <1>1, <1>2

LEMMA LateKept ==
  ASSUME SInv, UNCHANGED scen, NEW b \in DOMAIN bridge, NEW p, Goes(b, p),
         \A c \in DOMAIN bridge :
           AddedLate(c) /\ (IF c = b THEN p ELSE bridge[c].pc) = "end" =>
             \/ Accepts(c).name \in DOMAIN media' /\ ~Lent(media', Accepts(c).name)
             \/ /\ bridge[c].pc = "end" /\ Accepts(c).name \in DOMAIN media'
                /\ Lent(media', Accepts(c).name) => Lent(media, Accepts(c).name)
  PROVE  LateInv'
  <1> SUFFICES ASSUME NEW c \in DOMAIN bridge, AddedLate(c)', bridge'[c].pc = "end"
               PROVE  Accepts(c).name \in DOMAIN media' /\ ~Lent(media', Accepts(c).name)
    BY DEF LateInv, Accepts, Goes
  <1>1. AddedLate(c)
    BY DEF AddedLate, Accepts, Goes
  <1>2. bridge'[c].pc = IF c = b THEN p ELSE bridge[c].pc
    BY DEF Goes
  <1> QED
    BY <1>1, <1>2 DEF SInv, BridgeInv, LateInv

LEMMA PipeCommandKeeps ==
  ASSUME Inv, SInv, NEW b \in DOMAIN bridge, PipeCommand(b)
  PROVE  SInv'
  <1> DEFINE name == Accepts(b).name
             row == Accepts(b).row
  <1>1. /\ bridge[b].pc = "start" /\ Accepts(b).op \in {"add", "rm"} /\ Goes(b, "end")
        /\ UNCHANGED <<scen, sess, audit, duplex, feeds, feed>>
        /\ Accepts(b).after # None => bridge[Accepts(b).after].pc \notin {"start", "checked"}
        /\ "end" \in BridgePcs /\ "start" \notin AtWork
    BY GoesTo DEF PipeCommand, BridgePcs, AtWork
  <1>2. SessInv' /\ FeedInv' /\ EntryInv'
    BY <1>1, SessionsIdle
  <1>3. PlacesInv'
    BY <1>1, PlacesKept
  <1>4. CASE Accepts(b).op = "add"
    <2>1. upsert_row(name, row) /\ row \in Rows(scen.accepts) /\ row.note # "accept"
      BY <1>4, PipesAre DEF PipeCommand
    <2> HIDE DEF name, row
    <2>2. /\ RowsInv' /\ name \in DOMAIN media' /\ ~Lent(media', name)
          /\ DOMAIN media' = DOMAIN media \cup {name}
          /\ \A n \in DOMAIN media : n # name => (Lent(media', n) <=> Lent(media, n))
      BY <1>1, <2>1, StoredIs
    <2>3. LentInv'
      BY <1>1, <2>2, LentKept
    <2>4. LateInv'
      <3>1. ASSUME NEW c \in DOMAIN bridge, AddedLate(c),
                   (IF c = b THEN "end" ELSE bridge[c].pc) = "end"
            PROVE  \/ Accepts(c).name \in DOMAIN media' /\ ~Lent(media', Accepts(c).name)
                   \/ /\ bridge[c].pc = "end" /\ Accepts(c).name \in DOMAIN media'
                      /\ Lent(media', Accepts(c).name) => Lent(media, Accepts(c).name)
        <4>1. CASE c = b
          BY <2>2, <4>1 DEF name
        <4>2. CASE c # b
          <5>1. bridge[c].pc = "end" /\ Accepts(c).name \in DOMAIN media
            BY <3>1, <4>2 DEF SInv, BridgeInv, LateInv
          <5> QED
            BY <2>2, <5>1
        <4> QED
          BY <4>1, <4>2
      <3> QED
        BY <1>1, <3>1, LateKept
    <2> QED
      BY <1>2, <1>3, <2>2, <2>3, <2>4 DEF SInv, BridgeInv
  <1>5. CASE Accepts(b).op = "rm"
    <2>1. Without({name})
      BY <1>5 DEF PipeCommand
    <2>2. /\ RowsInv' /\ DOMAIN media' = DOMAIN media \ {name}
          /\ \A n \in DOMAIN media \ {name} : Lent(media', n) <=> Lent(media, n)
      BY <1>1, <2>1, RemovedIs
    <2>3. LentInv'
      BY <1>1, <2>2, LentKept
    <2>4. LateInv'
      <3>1. ASSUME NEW c \in DOMAIN bridge, AddedLate(c),
                   (IF c = b THEN "end" ELSE bridge[c].pc) = "end"
            PROVE  \/ Accepts(c).name \in DOMAIN media' /\ ~Lent(media', Accepts(c).name)
                   \/ /\ bridge[c].pc = "end" /\ Accepts(c).name \in DOMAIN media'
                      /\ Lent(media', Accepts(c).name) => Lent(media, Accepts(c).name)
        <4>1. Accepts(c).name # name /\ c # b
          BY <1>5, <3>1 DEF AddedLate
        <4>2. bridge[c].pc = "end" /\ Accepts(c).name \in DOMAIN media
          BY <3>1, <4>1 DEF SInv, BridgeInv, LateInv
        <4> QED
          BY <2>2, <4>1, <4>2
      <3> QED
        BY <1>1, <3>1, LateKept
    <2> QED
      BY <1>2, <1>3, <2>2, <2>3, <2>4 DEF SInv, BridgeInv
  <1> QED
    BY <1>1, <1>4, <1>5

\* A step of a bridge that writes no row.
LEMMA BridgeOnly ==
  ASSUME Inv, SInv, NEW b \in DOMAIN bridge, NEW p \in BridgePcs, Goes(b, p),
         UNCHANGED <<scen, media, sess, audit, duplex, feeds, feed>>, Accepts(b).op = "accept",
         p \notin {"start", "checked"} \/ bridge[b].pc \in {"start", "checked"},
         bridge[b].pc \notin AtWork \/ p \in AtWork
  PROVE  SInv'
  <1>1. SessInv' /\ FeedInv' /\ EntryInv' /\ PlacesInv'
    BY SessionsIdle, PlacesKept
  <1>2. RowsInv'
    BY DEF SInv, BridgeInv, RowsInv
  <1>3. \A n : Lent(media', n) <=> Lent(media, n)
    BY DEF Lent
  <1>4. LentInv'
    BY <1>3, LentKept
  <1>5. LateInv'
    <2>1. \A c \in DOMAIN bridge : AddedLate(c) => c # b
      BY DEF AddedLate
    <2>2. \A c \in DOMAIN bridge : AddedLate(c) /\ bridge[c].pc = "end" =>
             Accepts(c).name \in DOMAIN media /\ ~Lent(media, Accepts(c).name)
      BY DEF SInv, BridgeInv, LateInv
    <2> QED
      BY <1>3, <2>1, <2>2, LateKept
  <1> QED
    BY <1>1, <1>2, <1>4, <1>5 DEF SInv, BridgeInv

LEMMA AcceptCheckKeeps ==
  ASSUME Inv, SInv, NEW b \in DOMAIN bridge, AcceptCheck(b)
  PROVE  SInv'
  <1>1. PICK p \in {"end", "checked"} : BridgeTo(b, p)
    BY DEF AcceptCheck
  <1>2. /\ bridge[b].pc = "start" /\ Accepts(b).op = "accept" /\ Goes(b, p) /\ p \in BridgePcs
        /\ UNCHANGED <<scen, media, sess, audit, duplex, feeds, feed>> /\ "start" \notin AtWork
    BY <1>1, GoesTo DEF AcceptCheck, BridgePcs, AtWork
  <1> QED
    BY <1>2, BridgeOnly

LEMMA AcceptOneKeeps ==
  ASSUME Inv, SInv, NEW b \in DOMAIN bridge, AcceptOne(b)
  PROVE  SInv'
  <1>1. /\ bridge[b].pc \in {"waiting", "busy", "half"}
        /\ UNCHANGED <<scen, media, sess, audit, duplex, feeds, feed>>
    BY DEF AcceptOne
  <1>2. Accepts(b).op = "accept"
    BY <1>1 DEF SInv, BridgeInv, PlacesInv
  <1>3. \E p \in AtWork : Goes(b, p)
    <2>1. CASE \E s \in Mine(b) : bridge' = [bridge EXCEPT ![b] = [pc |-> "busy", with |-> s]]
      <3>1. Goes(b, "busy")
        BY <2>1 DEF Goes
      <3> QED
        BY <3>1 DEF AtWork
    <2>2. CASE BridgeTo(b, "clean")
      BY <2>2, GoesTo DEF AtWork
    <2>3. CASE BridgeTo(b, "killed")
      BY <2>3, GoesTo DEF AtWork
    <2>4. CASE BridgeTo(b, "half")
      BY <2>4, GoesTo DEF AtWork
    <2> QED
      BY <2>1, <2>2, <2>3, <2>4 DEF AcceptOne
  <1>4. AtWork \subseteq BridgePcs \ {"start", "checked"}
    BY DEF AtWork, BridgePcs
  <1> QED
    BY <1>1, <1>2, <1>3, <1>4, BridgeOnly

LEMMA AcceptRowKeeps ==
  ASSUME Inv, SInv, NEW b \in DOMAIN bridge, AcceptRow(b)
  PROVE  SInv'
  <1> DEFINE name == Accepts(b).name
             row == Accepts(b).row
  <1>1. /\ bridge[b].pc = "checked" /\ upsert_row(name, row) /\ Goes(b, "waiting")
        /\ UNCHANGED <<scen, sess, audit, duplex, feeds, feed>>
        /\ "waiting" \in BridgePcs /\ "checked" \notin AtWork /\ "waiting" \in AtWork
    BY GoesTo DEF AcceptRow, BridgePcs, AtWork
  <1>2. Accepts(b).op = "accept" /\ row \in Rows(scen.accepts) /\ row.note = "accept"
    BY <1>1, PipesAre DEF SInv, BridgeInv, PlacesInv
  <1>3. SessInv' /\ FeedInv' /\ EntryInv'
    BY <1>1, SessionsIdle
  <1>4. PlacesInv'
    BY <1>1, <1>2, PlacesKept
  <1>5. /\ RowsInv' /\ name \in DOMAIN media' /\ DOMAIN media' = DOMAIN media \cup {name}
        /\ \A n \in DOMAIN media : n # name => (Lent(media', n) <=> Lent(media, n))
    <2> HIDE DEF name, row
    <2> QED
      BY <1>1, <1>2, StoredIs
  <1>6. LentInv'
    BY <1>1, <1>2, <1>5, LentKept
  <1>7. LateInv'
    <2>1. ASSUME NEW c \in DOMAIN bridge, AddedLate(c),
                 (IF c = b THEN "waiting" ELSE bridge[c].pc) = "end"
          PROVE  \/ Accepts(c).name \in DOMAIN media' /\ ~Lent(media', Accepts(c).name)
                 \/ /\ bridge[c].pc = "end" /\ Accepts(c).name \in DOMAIN media'
                    /\ Lent(media', Accepts(c).name) => Lent(media, Accepts(c).name)
      <3>1. c # b /\ bridge[c].pc = "end" /\ Accepts(c).op = "add"
        BY <2>1 DEF AddedLate
      <3>2. Accepts(c).name # name
        <4> SUFFICES ASSUME Accepts(c).name = name PROVE FALSE
          OBVIOUS
        <4>1. Accepts(c).after = b
          BY <1>2, <2>1 DEF AddedLate
        <4>2. b # None
          <5>1. None \notin DOMAIN scen.accepts
            BY CallersAssumption DEF Inv, TypeInv
          <5> QED
            BY <5>1, PipesAre
        <4> QED
          BY <1>1, <3>1, <4>1, <4>2 DEF SInv, BridgeInv, PlacesInv
      <3>3. Accepts(c).name \in DOMAIN media
        BY <2>1, <3>1 DEF SInv, BridgeInv, LateInv
      <3> QED
        BY <1>5, <3>1, <3>2, <3>3
    <2> QED
      BY <1>1, <2>1, LateKept
  <1> QED
    BY <1>3, <1>4, <1>5, <1>6, <1>7 DEF SInv, BridgeInv

LEMMA AcceptCleanKeeps ==
  ASSUME Inv, SInv, NEW b \in DOMAIN bridge, AcceptClean(b)
  PROVE  SInv'
  <1> DEFINE names == {n \in {Accepts(b).name} : Lent(media, n)}
  <1>1. /\ bridge[b].pc = "clean" /\ Without(names) /\ Goes(b, "end")
        /\ UNCHANGED <<scen, sess, audit, duplex, feeds, feed>>
        /\ "end" \in BridgePcs
    BY GoesTo DEF AcceptClean, BridgePcs, Ephemeral, Lent
  <1>2. Accepts(b).op = "accept"
    BY <1>1 DEF SInv, BridgeInv, PlacesInv
  <1>3. SessInv' /\ FeedInv' /\ EntryInv'
    BY <1>1, SessionsIdle
  <1>4. PlacesInv'
    BY <1>1, <1>2, PlacesKept
  <1>5. /\ RowsInv' /\ DOMAIN media' = DOMAIN media \ names
        /\ \A n \in DOMAIN media \ names : Lent(media', n) <=> Lent(media, n)
    <2> HIDE DEF names
    <2> QED
      BY <1>1, RemovedIs
  <1>6. LentInv'
    BY <1>1, <1>5, LentKept
  <1>7. LateInv'
    <2>1. ASSUME NEW c \in DOMAIN bridge, AddedLate(c),
                 (IF c = b THEN "end" ELSE bridge[c].pc) = "end"
          PROVE  \/ Accepts(c).name \in DOMAIN media' /\ ~Lent(media', Accepts(c).name)
                 \/ /\ bridge[c].pc = "end" /\ Accepts(c).name \in DOMAIN media'
                    /\ Lent(media', Accepts(c).name) => Lent(media, Accepts(c).name)
      <3>1. c # b /\ bridge[c].pc = "end"
        BY <1>2, <2>1 DEF AddedLate
      <3>2. Accepts(c).name \in DOMAIN media /\ ~Lent(media, Accepts(c).name)
        BY <2>1, <3>1 DEF SInv, BridgeInv, LateInv
      <3> QED
        BY <1>5, <3>1, <3>2
    <2> QED
      BY <1>1, <2>1, LateKept
  <1> QED
    BY <1>3, <1>4, <1>5, <1>6, <1>7 DEF SInv, BridgeInv

\* The rows that publish_media stores.
LEMMA HostRowIs ==
  ASSUME NEW accepts
  PROVE  /\ \A m \in Rows(accepts) : LET row == [m EXCEPT !.command = "host"]
                                    IN  row \in Rows(accepts) /\ row.note = m.note
         /\ LET row == [command |-> "host", accepts |-> FALSE, prog |-> <<>>, note |-> "host",
                         by |-> None]
            IN  row \in Rows(accepts) /\ row.note # "accept"
  <1> DEFINE P == Seq(STRING)
             B == DOMAIN accepts \cup {None}
  <1>1. <<>> \in P /\ None \in B
    OBVIOUS
  <1>2. Rows(accepts) = [command : STRING \cup {"host"}, accepts : BOOLEAN, prog : P,
                         note : STRING \cup {"host"}, by : B]
    BY DEF Rows
  <1> HIDE DEF P, B
  <1>3. ASSUME NEW m \in Rows(accepts)
        PROVE  LET row == [m EXCEPT !.command = "host"]
               IN  row \in Rows(accepts) /\ row.note = m.note
    <2>1. /\ m.accepts \in BOOLEAN /\ m.prog \in P /\ m.note \in STRING \cup {"host"}
          /\ m.by \in B /\ DOMAIN m = {"command", "accepts", "prog", "note", "by"}
      BY <1>2
    <2>2. [m EXCEPT !.command = "host"]
            = [command |-> "host", accepts |-> m.accepts, prog |-> m.prog, note |-> m.note,
               by |-> m.by]
      BY <1>2
    <2>3. "host" \in STRING \cup {"host"}
      OBVIOUS
    <2> QED
      BY <1>2, <2>1, <2>2, <2>3
  <1>4. LET row == [command |-> "host", accepts |-> FALSE, prog |-> <<>>, note |-> "host",
                    by |-> None]
        IN  row \in Rows(accepts) /\ row.note # "accept"
    <2>1. "host" \in STRING \cup {"host"} /\ "host" # "accept" /\ FALSE \in BOOLEAN
      OBVIOUS
    <2> QED
      BY <1>1, <1>2, <2>1
  <1> QED
    BY <1>3, <1>4

\* publish_media's row keeps the note of the row it replaces.
LEMMA PublishRowKeeps ==
  ASSUME Inv, SInv, NEW t \in DOMAIN call, PublishRow(t)
  PROVE  SInv'
  <1> DEFINE name == Op(t).name
             row == HostRow(name)
  <1>1. /\ UNCHANGED <<scen, sess, audit, duplex, feeds, feed, bridge>>
        /\ upsert_row(name, row) \/ media' = media
    BY DEF PublishRow
  <1>2. SessInv' /\ FeedInv' /\ EntryInv'
    BY <1>1, SessionsIdle
  <1>3. CASE media' = media
    BY <1>1, <1>2, <1>3, BridgeKept DEF SInv
  <1>4. CASE upsert_row(name, row)
    <2>1. /\ row \in Rows(scen.accepts)
          /\ row.note = "accept" => name \in DOMAIN media /\ Lent(media, name)
      <3>1. CASE name \in DOMAIN media
        <4>1. media[name] \in Rows(scen.accepts) /\ row = [media[name] EXCEPT !.command = "host"]
          BY <3>1 DEF SInv, BridgeInv, RowsInv, HostRow
        <4> HIDE DEF row, name
        <4>2. row \in Rows(scen.accepts) /\ row.note = media[name].note
          BY <4>1, HostRowIs
        <4> QED
          BY <3>1, <4>2 DEF Lent
      <3>2. CASE name \notin DOMAIN media
        <4>1. row = [command |-> "host", accepts |-> FALSE, prog |-> <<>>, note |-> "host",
                     by |-> None]
          BY <3>2 DEF HostRow
        <4> HIDE DEF row, name
        <4> QED
          BY <4>1, HostRowIs
      <3> QED
        BY <3>1, <3>2
    <2> HIDE DEF name, row
    <2>2. /\ RowsInv' /\ name \in DOMAIN media' /\ (Lent(media', name) <=> row.note = "accept")
          /\ DOMAIN media' = DOMAIN media \cup {name}
          /\ \A n \in DOMAIN media : n # name => (Lent(media', n) <=> Lent(media, n))
      BY <1>1, <1>4, <2>1, StoredIs
    <2>3. ASSUME NEW n \in DOMAIN media', Lent(media', n) PROVE n \in DOMAIN media /\ Lent(media, n)
      BY <2>1, <2>2, <2>3
    <2>4. PlacesInv'
      BY <1>1 DEF SInv, BridgeInv, PlacesInv, Accepts
    <2>5. LentInv'
      BY <1>1, <2>3 DEF SInv, BridgeInv, LentInv, Accepts
    <2>6. LateInv'
      <3>1. ASSUME NEW c \in DOMAIN bridge, AddedLate(c), bridge[c].pc = "end"
            PROVE  Accepts(c).name \in DOMAIN media' /\ ~Lent(media', Accepts(c).name)
        <4>1. Accepts(c).name \in DOMAIN media /\ ~Lent(media, Accepts(c).name)
          BY <3>1 DEF SInv, BridgeInv, LateInv
        <4> QED
          BY <2>2, <2>3, <4>1
      <3>2. \A c : AddedLate(c)' <=> AddedLate(c)
        BY <1>1 DEF AddedLate, Accepts
      <3> QED
        BY <1>1, <3>1, <3>2 DEF LateInv, Accepts
    <2> QED
      BY <1>2, <2>2, <2>4, <2>5, <2>6 DEF SInv, BridgeInv
  <1> QED
    BY <1>1, <1>3, <1>4

(* What a host does with its feeds, and a shutdown. *)

LEMMA SendersLess ==
  ASSUME NEW x \in FeedType, NEW X
  PROVE  LET y == [x EXCEPT !.senders = @ \ X]
         IN  y \in FeedType /\ y.head = x.head /\ y.viewers = x.viewers
  BY DEF FeedType

LEMMA FeedsAre ==
  ASSUME NEW f \in Seq(FeedType), NEW g, g = [i \in DOMAIN f |-> g[i]],
         \A i \in DOMAIN f : g[i] \in FeedType
  PROVE  g \in Seq(FeedType) /\ Len(g) = Len(f) /\ DOMAIN g = DOMAIN f
  <1>1. DOMAIN f = 1..Len(f) /\ Len(f) \in Nat
    BY LenProperties
  <1>2. g \in [1..Len(f) -> FeedType]
    BY <1>1
  <1> QED
    BY <1>1, <1>2, SeqDef, LenProperties

LEMMA UnlistedIs ==
  ASSUME NEW f \in Seq(FeedType), NEW gone
  PROVE  /\ Unlisted(f, gone) \in Seq(FeedType) /\ Len(Unlisted(f, gone)) = Len(f)
         /\ DOMAIN Unlisted(f, gone) = DOMAIN f
         /\ \A i \in DOMAIN f : /\ Unlisted(f, gone)[i].head = f[i].head
                                /\ Unlisted(f, gone)[i].viewers = f[i].viewers
  <1> DEFINE g == Unlisted(f, gone)
  <1>1. ASSUME NEW i \in DOMAIN f
        PROVE  g[i] \in FeedType /\ g[i].head = f[i].head /\ g[i].viewers = f[i].viewers
    <2> DEFINE y == [f[i] EXCEPT !.senders = @ \ {"registry"}]
    <2>1. f[i] \in FeedType
      BY LenProperties, ElementOfSeq
    <2>2. g[i] = IF i \in gone THEN y ELSE f[i]
      BY DEF Unlisted
    <2>3. y \in FeedType /\ y.head = f[i].head /\ y.viewers = f[i].viewers
      BY <2>1, SendersLess
    <2> HIDE DEF y, g
    <2> QED
      BY <2>1, <2>2, <2>3
  <1>2. g = [i \in DOMAIN f |-> g[i]]
    BY DEF Unlisted
  <1> HIDE DEF g
  <1>3. g \in Seq(FeedType) /\ Len(g) = Len(f) /\ DOMAIN g = DOMAIN f
    BY <1>1, <1>2, FeedsAre
  <1> USE DEF g
  <1> QED
    BY <1>1, <1>3

LEMMA NobodyThere ==
  ASSUME Inv, SInv, NEW i \in Nat, i \notin DOMAIN feed
  PROVE  Viewers(i) = {}
  <1>1. i # None
    BY NamesAssumption
  <1>2. ASSUME NEW s \in Sess PROVE S(s).attached # i
    <2>1. CASE s \in DOMAIN scen.callers
      <3>1. ViewOf(S(s), feed)
        BY <2>1, OneSession DEF Session
      <3> QED
        BY <1>1, <3>1 DEF ViewOf
    <2>2. CASE s \notin DOMAIN scen.callers
      BY <1>1, <2>2 DEF SInv, SessInv, S, NewSession
    <2> QED
      BY <2>1, <2>2
  <1> QED
    BY <1>2 DEF Viewers

\* A host publishes, writes, closes or withdraws: feeds are added and grow, and no viewer moves.
LEMMA FeedsStep ==
  ASSUME Inv, SInv, UNCHANGED <<scen, media, sess, audit, duplex, bridge>>,
         feed' \in Seq(FeedType), Len(feed) <= Len(feed'),
         \A i \in DOMAIN feed : /\ feed'[i].viewers = feed[i].viewers
                                /\ feed[i].head <= feed'[i].head,
         \A i \in DOMAIN feed' : i \notin DOMAIN feed => feed'[i].viewers = 0,
         \A n \in DOMAIN feeds' : feeds'[n] \in DOMAIN feed'
  PROVE  SInv'
  <1>1. /\ DOMAIN feed = 1..Len(feed) /\ DOMAIN feed' = 1..Len(feed') /\ Len(feed) \in Nat
        /\ Len(feed') \in Nat
    BY LenProperties DEF SInv, FeedInv
  <1>2. ASSUME NEW i \in DOMAIN feed
        PROVE  /\ i \in DOMAIN feed' /\ feed[i].head \in Nat /\ feed'[i].head \in Nat
               /\ feed[i].head <= feed'[i].head
    <2>1. i \in DOMAIN feed'
      BY <1>1
    <2>2. feed'[i] \in FeedType
      BY <1>1, <2>1, ElementOfSeq
    <2>3. feed[i].head \in Nat
      BY HeadsAre DEF SInv
    <2> QED
      BY <2>1, <2>2, <2>3 DEF FeedType
  <1>3. ASSUME NEW s \in DOMAIN scen.callers
        PROVE  Session(Caller(s), S(s), audit[s], feed')
    <2>1. Session(Caller(s), S(s), audit[s], feed)
      BY OneSession
    <2> QED
      BY <1>2, <2>1, FeedsGrow
  <1>4. SessInv'
    BY <1>3 DEF SInv, SessInv, Caller, S
  <1>5. FeedInv'
    <2>1. ASSUME NEW i \in DOMAIN feed'
          PROVE  feed'[i].viewers = Cardinality(Viewers(i)')
      <3>1. Viewers(i)' = Viewers(i)
        BY DEF Viewers, S
      <3>2. CASE i \in DOMAIN feed
        BY <3>1, <3>2 DEF SInv, FeedInv
      <3>3. CASE i \notin DOMAIN feed
        <4>1. Viewers(i) = {}
          BY <1>1, <3>3, NobodyThere
        <4> QED
          BY <3>1, <3>3, <4>1, FS_EmptySet
      <3> QED
        BY <3>2, <3>3
    <2> QED
      BY <2>1 DEF FeedInv
  <1>6. EntryInv'
    BY DEF SInv, EntryInv, Caller, S
  <1> QED
    BY <1>4, <1>5, <1>6, BridgeKept DEF SInv

LEMMA WithdrawKeeps ==
  ASSUME Inv, SInv, NEW names, NEW handle, withdraw(names, handle),
         UNCHANGED <<scen, media, sess, audit, duplex, bridge>>
  PROVE  SInv'
  <1> DEFINE u == Unlisted(feed, {feeds[n] : n \in DOMAIN feeds \cap names})
             y(i) == [u[i] EXCEPT !.senders = @ \ {handle}]
  <1>1. feed \in Seq(FeedType) /\ DOMAIN feed = 1..Len(feed) /\ Len(feed) \in Nat
    BY LenProperties DEF SInv, FeedInv
  <1>2. /\ u \in Seq(FeedType) /\ DOMAIN u = DOMAIN feed
        /\ \A i \in DOMAIN feed : u[i].head = feed[i].head /\ u[i].viewers = feed[i].viewers
    BY <1>1, UnlistedIs
  <1>3. /\ feed' = [i \in DOMAIN feed |-> y(i)]
        /\ feeds' = [n \in DOMAIN feeds \ names |-> feeds[n]]
    BY DEF withdraw
  <1> HIDE DEF u
  <1>4. ASSUME NEW i \in DOMAIN feed
        PROVE  y(i) \in FeedType /\ y(i).head = feed[i].head /\ y(i).viewers = feed[i].viewers
    <2>1. u[i] \in FeedType
      BY <1>2, LenProperties, ElementOfSeq
    <2>2. /\ y(i) \in FeedType /\ y(i).head = u[i].head /\ y(i).viewers = u[i].viewers
      BY <2>1, SendersLess
    <2> HIDE DEF y
    <2> QED
      BY <1>2, <2>2
  <1> HIDE DEF y
  <1>5. feed' \in Seq(FeedType) /\ Len(feed') = Len(feed) /\ DOMAIN feed' = DOMAIN feed
    <2>1. /\ feed' = [i \in DOMAIN feed |-> feed'[i]]
          /\ \A i \in DOMAIN feed : feed'[i] \in FeedType
      BY <1>3, <1>4
    <2> QED
      BY <1>1, <2>1, FeedsAre
  <1>6. /\ \A i \in DOMAIN feed : feed'[i].viewers = feed[i].viewers /\ feed[i].head <= feed'[i].head
        /\ Len(feed) <= Len(feed')
    <2>1. ASSUME NEW i \in DOMAIN feed
          PROVE  feed'[i].viewers = feed[i].viewers /\ feed[i].head <= feed'[i].head
      <3>1. feed[i].head \in Nat /\ feed'[i] = y(i)
        BY <1>3, HeadsAre DEF SInv
      <3> QED
        BY <1>4, <3>1
    <2> QED
      BY <1>1, <1>5, <2>1
  <1>7. \A n \in DOMAIN feeds' : feeds'[n] \in DOMAIN feed'
    BY <1>3, <1>5 DEF SInv, FeedInv
  <1> QED
    BY <1>5, <1>6, <1>7, FeedsStep

LEMMA PublishFeedKeeps ==
  ASSUME Inv, SInv, NEW t \in DOMAIN call, PublishFeed(t)
  PROVE  SInv'
  <1> DEFINE name == Op(t).name
             h == Op(t).h
             new == Feed(h)
             u == Unlisted(feed, {feeds[n] : n \in DOMAIN feeds \cap {name}})
  <1>1. UNCHANGED <<scen, media, sess, audit, duplex, bridge>>
    BY DEF PublishFeed
  <1>2. CASE UNCHANGED <<feeds, feed>>
    <2>1. SessInv' /\ FeedInv' /\ EntryInv'
      BY <1>1, <1>2, SessionsIdle
    <2> QED
      BY <1>1, <2>1, BridgeKept DEF SInv
  <1>3. CASE publish(name, h)
    <2>1. new \in FeedType /\ new.viewers = 0
      <3>1. h \in STRING
        <4>1. C(t).pc = "feed"
          BY DEF PublishFeed, At
        <4>2. Op(t).op = "publish" /\ C(t).k \in DOMAIN scen.threads[t]
          BY <4>1, CallIs DEF FlowOf
        <4> QED
          BY <4>2, CallIs, ScenariosAssumption DEF Inv, TypeInv
      <3> HIDE DEF h
      <3> QED
        BY <3>1 DEF Feed, FeedType
    <2>2. feed \in Seq(FeedType) /\ DOMAIN feed = 1..Len(feed) /\ Len(feed) \in Nat
      BY LenProperties DEF SInv, FeedInv
    <2>3. /\ u \in Seq(FeedType) /\ DOMAIN u = DOMAIN feed /\ Len(u) = Len(feed)
          /\ \A i \in DOMAIN feed : u[i].head = feed[i].head /\ u[i].viewers = feed[i].viewers
      BY <2>2, UnlistedIs
    <2>4. /\ feed' = Append(u, new)
          /\ feeds' = [n \in DOMAIN feeds \cup {name} |-> IF n = name THEN Len(feed) + 1
                                                           ELSE feeds[n]]
      BY <1>3 DEF publish
    <2> HIDE DEF u, new, name, h
    <2>5. /\ feed' \in Seq(FeedType) /\ Len(feed') = Len(feed) + 1 /\ feed'[Len(feed) + 1] = new
          /\ \A i \in DOMAIN feed : feed'[i] = u[i]
          /\ DOMAIN feed' = 1..(Len(feed) + 1)
      BY <2>1, <2>2, <2>3, <2>4, AppendProperties, LenProperties
    <2>6. ASSUME NEW i \in DOMAIN feed
          PROVE  feed'[i].viewers = feed[i].viewers /\ feed[i].head <= feed'[i].head
      <3>1. feed[i].head \in Nat
        BY HeadsAre DEF SInv
      <3> QED
        BY <2>3, <2>5, <3>1
    <2>7. \A i \in DOMAIN feed' : i \notin DOMAIN feed => feed'[i].viewers = 0
      BY <2>1, <2>2, <2>5
    <2>8. \A n \in DOMAIN feeds' : feeds'[n] \in DOMAIN feed'
      <3>1. ASSUME NEW n \in DOMAIN feeds' PROVE feeds'[n] \in 1..(Len(feed) + 1)
        <4>1. n = name \/ (n \in DOMAIN feeds /\ feeds[n] \in 1..Len(feed))
          BY <2>2, <2>4 DEF SInv, FeedInv
        <4> QED
          BY <2>2, <2>4, <4>1
      <3> QED
        BY <2>5, <3>1
    <2> QED
      BY <1>1, <2>2, <2>5, <2>6, <2>7, <2>8, FeedsStep
  <1> QED
    BY <1>2, <1>3 DEF PublishFeed

LEMMA WriteKeeps ==
  ASSUME Inv, SInv, NEW i \in DOMAIN feed, write(i), feeds' = feeds,
         UNCHANGED <<scen, media, sess, audit, duplex, bridge>>
  PROVE  SInv'
  <1> DEFINE x == [feed[i] EXCEPT !.head = @ + 1]
  <1>1. feed \in Seq(FeedType) /\ DOMAIN feed = 1..Len(feed) /\ Len(feed) \in Nat
    BY LenProperties DEF SInv, FeedInv
  <1>2. x \in FeedType /\ x.head = feed[i].head + 1 /\ x.viewers = feed[i].viewers
    <2>1. feed[i] \in FeedType
      BY HeadsAre DEF SInv
    <2> QED
      BY <2>1 DEF FeedType
  <1>3. feed' = [feed EXCEPT ![i] = x]
    BY DEF write
  <1> HIDE DEF x
  <1>4. feed' \in Seq(FeedType) /\ DOMAIN feed' = DOMAIN feed /\ Len(feed') = Len(feed)
    BY <1>1, <1>2, <1>3, ExceptSeq
  <1>5. ASSUME NEW j \in DOMAIN feed
        PROVE  feed'[j].viewers = feed[j].viewers /\ feed[j].head <= feed'[j].head
    <2>1. feed[j].head \in Nat
      BY HeadsAre DEF SInv
    <2>2. feed'[j] = IF j = i THEN x ELSE feed[j]
      BY <1>1, <1>3
    <2> QED
      BY <1>2, <2>1, <2>2
  <1>6. Len(feed) <= Len(feed')
    BY <1>1, <1>4
  <1>7. \A n \in DOMAIN feeds' : feeds'[n] \in DOMAIN feed'
    BY <1>4 DEF SInv, FeedInv
  <1> QED
    BY <1>4, <1>5, <1>6, <1>7, FeedsStep

LEMMA QuietKeeps ==
  ASSUME Inv, SInv, UNCHANGED <<scen, mediaVars>>
  PROVE  SInv'
  <1>1. UNCHANGED <<scen, media, sess, audit, duplex, feeds, feed, bridge>>
    BY DEF mediaVars
  <1>2. SessInv' /\ FeedInv' /\ EntryInv'
    BY <1>1, SessionsIdle
  <1> QED
    BY <1>1, <1>2, BridgeKept DEF SInv

LEMMA OnceKeeps ==
  ASSUME Inv, SInv, NEW t \in DOMAIN call, Once(t)
  PROVE  SInv'
  <1> DEFINE o == Op(t)
             i == CHOOSE j \in Writes(o.h) : TRUE
  <1>1. UNCHANGED <<scen, media, sess, audit, duplex, bridge>>
    BY DEF Once
  <1>2. \/ Writes(o.h) # {} /\ write(i) /\ feeds' = feeds
        \/ withdraw({o.name}, o.h) \/ withdraw({}, o.h)
        \/ UNCHANGED <<feeds, feed>>
    <2>1. CASE o.op = "write" /\ Writes(o.h) # {}
      BY <2>1 DEF Once
    <2>2. CASE o.op = "feedClose" /\ Writes(o.h) # {}
      BY <2>2 DEF Once
    <2>3. CASE o.op = "feedDrop"
      BY <2>3 DEF Once
    <2>4. CASE ~(o.op = "write" /\ Writes(o.h) # {}) /\ ~(o.op = "feedClose" /\ Writes(o.h) # {})
               /\ o.op # "feedDrop"
      BY <2>4 DEF Once
    <2> QED
      BY <2>1, <2>2, <2>3, <2>4
  <1>3. CASE Writes(o.h) # {} /\ write(i) /\ feeds' = feeds
    <2>1. i \in DOMAIN feed
      BY <1>3 DEF Writes
    <2> HIDE DEF i
    <2> QED
      BY <1>1, <1>3, <2>1, WriteKeeps
  <1>4. CASE withdraw({o.name}, o.h) \/ withdraw({}, o.h)
    BY <1>1, <1>4, WithdrawKeeps
  <1>5. CASE UNCHANGED <<feeds, feed>>
    BY <1>1, <1>5, QuietKeeps DEF mediaVars
  <1> QED
    BY <1>2, <1>3, <1>4, <1>5

LEMMA WithdrawAllKeeps ==
  ASSUME Inv, SInv, NEW t \in DOMAIN call, Withdraw(t)
  PROVE  SInv'
  <1>1. UNCHANGED <<scen, media, sess, audit, duplex, bridge>>
    BY DEF Withdraw
  <1>2. CASE UNCHANGED <<feeds, feed>>
    BY <1>1, <1>2, QuietKeeps DEF mediaVars
  <1>3. CASE withdraw(DOMAIN feeds, None)
    BY <1>1, <1>3, WithdrawKeeps
  <1> QED
    BY <1>2, <1>3 DEF Withdraw

LEMMA ShutdownKeeps ==
  ASSUME Inv, SInv, NEW t \in DOMAIN call, Shutdown(t)
  PROVE  SInv'
  <1>1. UNCHANGED <<scen, media, audit, duplex, feeds, feed, bridge>>
    BY DEF Shutdown
  <1>2. CASE sess' = sess
    BY <1>1, <1>2, QuietKeeps DEF mediaVars
  <1>3. CASE sess' = [s \in Sess |-> IF S(s).pc = "new" THEN S(s) ELSE CutOff(S(s))]
    <2>1. DOMAIN sess' = Sess /\ DOMAIN sess = Sess
      BY <1>3 DEF SInv, SessInv
    <2>2. ASSUME NEW s \in DOMAIN scen.callers
          PROVE  /\ Session(scen.callers[s], sess'[s], audit[s], feed)
                 /\ sess'[s].attached = sess[s].attached /\ sess'[s].relay = sess[s].relay
      <3>1. s \in Sess /\ Session(Caller(s), S(s), audit[s], feed) /\ DOMAIN S(s) = SessFields
        BY CallersAre, OneSession
      <3>2. CASE S(s).pc = "new"
        BY <1>3, <3>1, <3>2 DEF Caller, S
      <3>3. CASE S(s).pc # "new"
        <4>1. sess'[s] = CutOff(S(s))
          BY <1>3, <3>1, <3>3
        <4>2. Session(Caller(s), CutOff(S(s)), audit[s], feed)
          BY <3>1, <3>3, CutOffOk
        <4>3. CutOff(S(s)).attached = S(s).attached /\ CutOff(S(s)).relay = S(s).relay
          BY <3>1 DEF CutOff, SessFields
        <4> QED
          BY <4>1, <4>2, <4>3 DEF Caller, S
      <3> QED
        BY <3>2, <3>3
    <2>3. ASSUME NEW s \in Sess \ DOMAIN scen.callers PROVE sess'[s] = NewSession /\ sess'[s] = sess[s]
      <3>1. S(s) = NewSession /\ S(s).pc = "new" /\ sess[s] = S(s)
        BY DEF SInv, SessInv, S, NewSession
      <3> QED
        BY <1>3, <3>1
    <2>4. SessInv'
      <3>1. scen' = scen /\ audit' = audit /\ feed' = feed /\ NewSession' = NewSession
        BY <1>1 DEF NewSession
      <3>2. DOMAIN audit = Sess
        BY DEF SInv, SessInv
      <3> QED
        BY <2>1, <2>2, <2>3, <3>1, <3>2 DEF SessInv, Caller, S
    <2>5. FeedInv'
      <3>1. \A s \in Sess : sess'[s].attached = sess[s].attached
        BY <2>2, <2>3
      <3> QED
        BY <1>1, <2>1, <3>1, ViewersKept
    <2>6. EntryInv'
      BY <1>1, <2>2 DEF SInv, EntryInv, Caller, S
    <2> QED
      BY <1>1, <2>4, <2>5, <2>6, BridgeKept DEF SInv
  <1> QED
    BY <1>2, <1>3 DEF Shutdown

LEMMA SInvInit == Init => SInv
  <1> SUFFICES ASSUME Init PROVE SInv
    OBVIOUS
  <1>1. /\ scen \in Scenarios /\ media = scen.media /\ sess = [s \in Sess |-> NewSession]
        /\ audit = [s \in Sess |-> <<>>] /\ duplex = {} /\ feeds = <<>> /\ feed = <<>>
        /\ bridge = [b \in DOMAIN scen.accepts |-> [pc |-> "start", with |-> None]]
    BY DEF Init, MediaInit
  <1>2. SessInv
    <2>1. ASSUME NEW s \in DOMAIN scen.callers PROVE Session(Caller(s), NewSession, <<>>, <<>>)
      <3> DEFINE r == NewSession
                 E == << >>
      <3>1. SessType(r)
        <4>1. E \in Seq(Nat) /\ E \in Seq(Items)
          BY EmptySeq
        <4> QED
          BY <4>1 DEF SessType, SessFields, Fits, NewSession, Places, Callings, Flags, Numbers,
                      Queues, Streams
      <3>2. SentOf(r) = <<>> /\ Len(SentOf(r)) = 0 /\ DOMAIN SentOf(r) = {}
        BY DEF SentOf, NewSession
      <3>3. LifeOf(r, <<>>)
        BY DEF LifeOf, NewSession, Waiting, Hosted
      <3>4. HeadOf(r, <<>>)
        BY <3>2 DEF HeadOf, NewSession, Waiting
      <3>5. BytesOf(r)
        <4>1. r.pc = "new" /\ ~r.started
          BY DEF NewSession
        <4> HIDE DEF r
        <4> QED
          BY <3>2, <4>1 DEF BytesOf, Hosted
      <3>6. StreamOf(r)
        <4>1. Stages(r) = <<E, E, E, E, E, E>>
          BY DEF Stages, Pending, NewSession
        <4>2. \A k \in 1..6 : Stages(r)[k] = <<>>
          BY <4>1
        <4>3. /\ r.heard = <<>> /\ r.pin = <<>> /\ r.q = <<>> /\ r.up = <<>> /\ r.out = <<>>
              /\ r.made = 0 /\ ~r.writer
          BY DEF NewSession
        <4> HIDE DEF r
        <4>4. InOrder(Stages(r)) /\ UpTo(Stages(r), r.said)
          BY <4>2 DEF InOrder, UpTo, Inc, Precedes, Values
        <4> QED
          BY <4>3, <4>4 DEF StreamOf, NoZero
      <3>7. KindOf(Caller(s), r)
        <4>1. /\ r.q = E /\ r.pin = E /\ r.out = E /\ r.down = E /\ r.post = E /\ r.up = E
              /\ r.pending = 0 /\ r.relay = "none" /\ r.caller = "idle"
          BY DEF NewSession
        <4>2. {StdinCap, PostCap, PipeCap, Window} \subseteq Nat /\ Len(E) = 0
          BY BoundsAssumption
        <4> HIDE DEF r, E
        <4> QED
          BY <4>1, <4>2 DEF KindOf
      <3>8. ViewOf(r, <<>>)
        BY <3>2 DEF ViewOf, NewSession, Waiting, Hosted
      <3> QED
        BY <3>1, <3>3, <3>4, <3>5, <3>6, <3>7, <3>8 DEF Session
    <2>2. DOMAIN scen.callers \subseteq Sess
      BY <1>1, CallersAssumption
    <2> QED
      BY <1>1, <2>1, <2>2 DEF SessInv, S
  <1>3. FeedInv
    <2>1. feed \in Seq(FeedType) /\ DOMAIN feed = {} /\ DOMAIN feeds = {}
      BY <1>1, EmptySeq
    <2> QED
      BY <2>1 DEF FeedInv
  <1>4. EntryInv
    BY <1>1 DEF EntryInv
  <1>5. BridgeInv
    <2>1. \A n \in DOMAIN media : media[n] \in Rows(scen.accepts) /\ ~Lent(media, n)
      BY <1>1, CallersAssumption DEF Lent
    <2>2. DOMAIN bridge = DOMAIN scen.accepts /\ \A b \in DOMAIN bridge :
            DOMAIN bridge[b] = {"pc", "with"} /\ bridge[b].pc = "start"
      BY <1>1
    <2> QED
      BY <2>1, <2>2 DEF BridgeInv, RowsInv, PlacesInv, LateInv, LentInv, BridgePcs
  <1> QED
    BY <1>2, <1>3, <1>4, <1>5 DEF SInv

LEMMA MediaKeeps == ASSUME Inv, SInv, MediaNext PROVE SInv'
  <1>1. ASSUME NEW s \in DOMAIN scen.callers, ServerStep(s) PROVE SInv'
    BY <1>1, ScreenKeeps, SpawnKeeps, DuplexHeaderKeeps, ReadOutKeeps, SendRawKeeps, StopPumpKeeps,
       RecvRawKeeps, TearKeeps, OverKeeps, SubscribeKeeps, HostHeaderKeeps, FeedNextKeeps,
       SendFeedKeeps, LocalEndsKeeps DEF ServerStep
  <1>2. ASSUME NEW s \in DOMAIN scen.callers,
               \/ RelayStep(s) \/ WriteStdin(s) \/ Source(s)
               \/ Hear(s) \/ Talk(s) \/ PostLookup(s) \/ PostSend(s) \/ Leave(s)
        PROVE  SInv'
    BY <1>2, DialKeeps, RelayKeeps, RelaySendKeeps, WriteStdinKeeps, SourceKeeps, HearKeeps,
       TalkKeeps, PostLookupKeeps, PostSendKeeps, LeaveKeeps
       DEF RelayStep
  <1>3. ASSUME NEW b \in DOMAIN bridge, PipeCommand(b) \/ AcceptCheck(b) \/ BridgeStep(b)
        PROVE  SInv'
    BY <1>3, PipeCommandKeeps, AcceptCheckKeeps, AcceptRowKeeps, AcceptOneKeeps, AcceptCleanKeeps
       DEF BridgeStep
  <1> QED
    BY <1>1, <1>2, <1>3 DEF MediaNext

LEMMA StepKeeps == ASSUME Inv, SInv, NEW t \in DOMAIN call, Begin(t) \/ Step(t) PROVE SInv'
  <1>1. CASE \/ Begin(t) \/ StartNode(t) \/ SetRunning(t) \/ ResumeCall(t) \/ touch_app(t) \/ Mark(t)
             \/ TakeRunning(t) \/ Drain(t) \/ TakeLocal(t) \/ CloseLocal(t) \/ End(t)
    <2>1. UNCHANGED <<scen, mediaVars>>
      BY <1>1 DEF Begin, StartNode, SetRunning, ResumeCall, touch_app, Mark, TakeRunning, Drain,
                  TakeLocal, CloseLocal, End
    <2> QED
      BY <2>1, QuietKeeps
  <1>2. CASE \/ route(t) \/ Build(t) \/ Keep(t) \/ SpawnTask(t) \/ WaitReady(t) \/ PublishCheck(t)
             \/ Declare(t) \/ Claim(t)
    <2>1. UNCHANGED <<scen, mediaVars>>
      BY <1>2 DEF route, Build, Keep, SpawnTask, WaitReady, PublishCheck, Declare, Claim
    <2> QED
      BY <2>1, QuietKeeps
  <1> QED
    BY <1>1, <1>2, WithdrawAllKeeps, ShutdownKeeps, PublishRowKeeps, PublishFeedKeeps, OnceKeeps
       DEF Step

LEMMA SInvNext == Inv /\ SInv /\ [Next]_vars => SInv'
  <1> SUFFICES ASSUME Inv, SInv, [Next]_vars PROVE SInv'
    OBVIOUS
  <1>1. CASE UNCHANGED vars
    BY <1>1, QuietKeeps DEF vars
  <1>2. CASE MediaNext
    BY <1>2, MediaKeeps
  <1>3. ASSUME NEW s \in DOMAIN scen.callers, Ask(s) PROVE SInv'
    BY <1>3, AskKeeps
  <1>4. ASSUME NEW t \in DOMAIN call, Begin(t) \/ Step(t) PROVE SInv'
    BY <1>4, StepKeeps
  <1>5. CASE (\E e \in Ents : Task(e) \/ EntSignal(e)) \/ Dispatch \/ OtherProcess
    <2>1. UNCHANGED <<scen, mediaVars>>
      BY <1>5 DEF Task, EntGate, EntSubscribe, EntEnd, EntSignal, Dispatch, OtherProcess
    <2> QED
      BY <2>1, QuietKeeps
  <1> QED
    BY <1>1, <1>2, <1>3, <1>4, <1>5 DEF Next

-----------------------------------------------------------------------------
(* What the invariant says of what each side sees. *)

LEMMA ConcatIs ==
  ASSUME NEW p \in Seq(Nat), NEW q \in Seq(Nat), Inc(p), Inc(q), Precedes(p, q)
  PROVE  /\ p \o q \in Seq(Nat) /\ Inc(p \o q) /\ Values(p \o q) \subseteq Values(p) \cup Values(q)
  <1> DEFINE z == p \o q
             m == Len(p)
             k == Len(q)
  <1>1. /\ m \in Nat /\ k \in Nat /\ DOMAIN p = 1..m /\ DOMAIN q = 1..k
        /\ z \in Seq(Nat) /\ DOMAIN z = 1..(m + k)
    BY ConcatProperties, LenProperties
  <1>2. ASSUME NEW i \in 1..(m + k)
        PROVE  \/ i \in 1..m /\ z[i] = p[i] /\ i \in DOMAIN p
               \/ i > m /\ z[i] = q[i - m] /\ i - m \in DOMAIN q
    <2>1. z[i] = IF i <= m THEN p[i] ELSE q[i - m]
      BY <1>1, ConcatProperties
    <2> HIDE DEF z, m, k
    <2> QED
      BY <1>1, <2>1
  <1> HIDE DEF z, m, k
  <1>3. Inc(z)
    <2> SUFFICES ASSUME NEW i \in 1..(m + k), NEW j \in 1..(m + k), i < j, z[i] # 0, z[j] # 0
                 PROVE  z[i] < z[j]
      BY <1>1 DEF Inc
    <2>1. CASE i \in 1..m /\ z[i] = p[i] /\ j \in 1..m /\ z[j] = p[j]
      BY <1>1, <2>1 DEF Inc
    <2>2. CASE i > m /\ z[i] = q[i - m] /\ i - m \in DOMAIN q
               /\ j > m /\ z[j] = q[j - m] /\ j - m \in DOMAIN q
      <3>1. i - m < j - m
        BY <1>1
      <3> QED
        BY <2>2, <3>1 DEF Inc
    <2>3. CASE /\ i \in 1..m /\ z[i] = p[i] /\ i \in DOMAIN p
               /\ j > m /\ z[j] = q[j - m] /\ j - m \in DOMAIN q
      BY <2>3 DEF Precedes, Values
    <2> QED
      BY <1>1, <1>2, <2>1, <2>2, <2>3
  <1>4. Values(z) \subseteq Values(p) \cup Values(q)
    BY <1>1, <1>2 DEF Values
  <1> QED
    BY <1>1, <1>3, <1>4 DEF z

LEMMA SaidInOrder ==
  ASSUME NEW r, SessType(r), StreamOf(r)
  PROVE  LET line == r.heard \o r.pin \o r.q
         IN  /\ \A i, j \in DOMAIN line :
                  i < j /\ line[i] # 0 /\ line[j] # 0 => line[i] < line[j]
             /\ \A i \in DOMAIN r.heard : r.heard[i] = 0 =>
                  r.q = <<>> /\ \A j \in DOMAIN r.heard : j > i => r.heard[j] = 0
  <1> DEFINE a == r.heard
             b == r.pin
             c == r.q
  <1>1. a \in Seq(Nat) /\ b \in Seq(Nat) /\ c \in Seq(Nat)
    BY Typed
  <1>2. /\ Inc(a) /\ Inc(b) /\ Inc(c) /\ Precedes(a, b) /\ Precedes(a, c) /\ Precedes(b, c)
    <2> DEFINE L == Stages(r)
    <2>1. L[1] = a /\ L[2] = b /\ L[3] = c
      BY DEF Stages
    <2>2. InOrder(L)
      BY DEF StreamOf
    <2> HIDE DEF L, a, b, c
    <2>3. 1 \in 1..6 /\ 2 \in 1..6 /\ 3 \in 1..6 /\ 1 < 2 /\ 1 < 3 /\ 2 < 3
      OBVIOUS
    <2> QED
      BY <2>1, <2>2, <2>3 DEF InOrder
  <1>3. \A i \in DOMAIN a : a[i] = 0 => c = <<>> /\ \A j \in DOMAIN a : j > i => a[j] = 0
    BY DEF StreamOf
  <1> HIDE DEF a, b, c
  <1>4. a \o b \in Seq(Nat) /\ Inc(a \o b) /\ Values(a \o b) \subseteq Values(a) \cup Values(b)
    BY <1>1, <1>2, ConcatIs
  <1>5. Precedes(a \o b, c)
    BY <1>2, <1>4 DEF Precedes
  <1>6. Inc((a \o b) \o c)
    BY <1>1, <1>2, <1>4, <1>5, ConcatIs
  <1> USE DEF a, b, c
  <1> QED
    BY <1>3, <1>6 DEF Inc

LEMMA SentIs ==
  ASSUME SInv, NEW s \in DOMAIN scen.callers
  PROVE  /\ Sent(s) = SentOf(S(s)) /\ Sent(s) \in Seq(Items) /\ Len(Sent(s)) \in Nat
         /\ DOMAIN Sent(s) = 1..Len(Sent(s)) /\ (Sent(s) = <<>> <=> Len(Sent(s)) = 0)
  <1>1. S(s).got \in Seq(Items) /\ S(s).down \in Seq(Items)
    BY OneSession, Typed
  <1>2. Sent(s) \in Seq(Items) /\ Sent(s) = SentOf(S(s))
    BY <1>1, ConcatProperties DEF Sent, SentOf
  <1> QED
    BY <1>2, LenProperties, EmptySeq

LEMMA RawsAre ==
  ASSUME SInv, NEW s \in DOMAIN scen.callers
  PROVE  /\ DOMAIN Raws(s) = 1..(Len(Sent(s)) - 1)
         /\ \A i \in DOMAIN Raws(s) : Raws(s)[i] = Sent(s)[i + 1].n
         /\ Len(Raws(s)) = IF Sent(s) = <<>> THEN 0 ELSE Len(Sent(s)) - 1
  <1> DEFINE n == Len(Sent(s))
             q == Raws(s)
             k == IF n = 0 THEN 0 ELSE n - 1
  <1>1. n \in Nat /\ (Sent(s) = <<>> <=> n = 0)
    BY SentIs
  <1>2. /\ DOMAIN q = 1..(n - 1)
        /\ \A i \in DOMAIN q : q[i] = Sent(s)[i + 1].n
        /\ q = [i \in 1..(n - 1) |-> q[i]]
    BY DEF Raws
  <1> HIDE DEF q, n
  <1>3. k \in Nat /\ 1..(n - 1) = 1..k
    BY <1>1
  <1> HIDE DEF k
  <1>4. q = [i \in 1..k |-> q[i]]
    BY ONLY <1>2, <1>3, Zenon
  <1>5. Len(q) = k
    BY ONLY <1>3, <1>4
  <1> USE DEF k, q, n
  <1> QED
    BY <1>1, <1>2, <1>5

LEMMA FitsWithin == ASSUME Inv, SInv PROVE TypeOK
  <1>1. ASSUME NEW s \in Sess
        PROVE  /\ Len(S(s).q) <= StdinCap /\ Len(S(s).pin) <= PipeCap /\ Len(S(s).out) <= PipeCap
               /\ Len(S(s).down) <= Window /\ Len(S(s).post) <= PostCap
               /\ Len(S(s).up) <= IF s \in DOMAIN scen.callers /\ Caller(s).kind = "local"
                                  THEN PostCap ELSE Window
               /\ S(s).attached # None => S(s).attached \in DOMAIN feed
    <2>1. CASE s \in DOMAIN scen.callers
      <3>1. KindOf(Caller(s), S(s)) /\ ViewOf(S(s), feed)
        BY <2>1, OneSession DEF Session
      <3> QED
        BY <2>1, <3>1 DEF KindOf, ViewOf
    <2>2. CASE s \notin DOMAIN scen.callers
      <3> DEFINE E == << >>
      <3>1. S(s) = NewSession
        BY <2>2 DEF SInv, SessInv, S
      <3>2. /\ S(s).q = E /\ S(s).pin = E /\ S(s).out = E /\ S(s).down = E /\ S(s).post = E
            /\ S(s).up = E /\ S(s).attached = None
        BY <3>1 DEF NewSession
      <3>3. {StdinCap, PostCap, PipeCap, Window} \subseteq Nat /\ Len(E) = 0
        BY BoundsAssumption
      <3> HIDE DEF E
      <3> QED
        BY <2>2, <3>2, <3>3
    <2> QED
      BY <2>1, <2>2
  <1>2. \A n \in DOMAIN feeds : feeds[n] \in DOMAIN feed
    BY DEF SInv, FeedInv
  <1>3. lease \in {None, "me", "other"} /\ {app.running, app.local} \subseteq DOMAIN pipe \cup {None}
    BY DEF Inv, TypeInv, PipeInv
  <1>4. \A p \in DOMAIN pipe : pipe[p] \in {"open", "closed"}
    <2>1. pipe \in Seq({"open", "closed"})
      BY DEF Inv, TypeInv
    <2> QED
      BY <2>1, LenProperties, ElementOfSeq
  <1> QED
    BY <1>1, <1>2, <1>3, <1>4 DEF TypeOK

LEMMA NobodyLeft == ASSUME SInv PROVE ChildrenReaped
  <1> SUFFICES ASSUME NEW s \in Sess, S(s).pc = "done", ~S(s).lost PROVE S(s).group = {}
    BY DEF ChildrenReaped
  <1>1. CASE s \in DOMAIN scen.callers
    BY <1>1, OneSession DEF LifeOf
  <1>2. CASE s \notin DOMAIN scen.callers
    BY <1>2 DEF SInv, SessInv, S, NewSession
  <1> QED
    BY <1>1, <1>2

LEMMA ToldTruly == ASSUME Inv, SInv PROVE AnsweredTruly
  <1> SUFFICES ASSUME NEW s \in DOMAIN scen.callers
               PROVE  /\ OneHeader(s)
                      /\ S(s).pc = "done" /\ audit[s] # <<>> /\ ~S(s).quit /\ ~S(s).err => Truly(s)
    BY DEF AnsweredTruly
  <1> DEFINE r == S(s)
             z == Sent(s)
             first == z[1].class
             n == Len(Raws(s))
  <1>1. HeadOf(r, audit[s]) /\ BytesOf(r)
    BY OneSession DEF Session
  <1>2. /\ z = SentOf(r) /\ z \in Seq(Items) /\ Len(z) \in Nat /\ DOMAIN z = 1..Len(z)
        /\ (z = <<>> <=> Len(z) = 0)
    BY SentIs
  <1>3. OneHeader(s)
    BY <1>1, <1>2 DEF HeadOf, OneHeader
  <1>4. ASSUME r.pc = "done", audit[s] # <<>>, ~r.quit, ~r.err PROVE Truly(s)
    <2>1. z # <<>> /\ Len(z) >= 1
      <3>1. z # <<>>
        BY <1>1, <1>2, <1>4 DEF HeadOf
      <3> HIDE DEF z
      <3> QED
        BY <1>2, <3>1
    <2>2. /\ DOMAIN Raws(s) = 1..n /\ n = Len(z) - 1
          /\ \A i \in DOMAIN Raws(s) : Raws(s)[i] = z[i + 1].n
      BY <2>1, RawsAre
    <2>3. /\ r.started => first \in Opening /\ audit[s] = <<"allow">>
          /\ ~r.started => Len(z) = 1 /\ first \in Closing
          /\ first = "Denied" => audit[s] = <<"deny">>
      <3> HIDE DEF r, z
      <3>1. /\ r.started => first \in Opening /\ audit[s] = <<"allow">>
            /\ ~r.started => Len(z) <= 1 /\ first \in Closing
            /\ first = "Denied" => audit[s] = <<"deny">>
        BY <1>1, <1>2, <2>1 DEF HeadOf
      <3> QED
        BY <1>2, <2>1, <3>1
    <2>4. first = "Media" /\ r.src.command # "host" => n > 0
      <3> SUFFICES ASSUME first = "Media", r.src.command # "host" PROVE n > 0
        OBVIOUS
      <3>1. r.started
        BY <2>3 DEF Closing
      <3>2. Count(r) > 0
        BY <1>1, <1>2, <1>4, <3>1 DEF BytesOf
      <3>3. Count(r) = Len(z) - 1
        BY <1>2, <3>1 DEF Count
      <3> HIDE DEF z, n
      <3> QED
        BY <2>2, <3>2, <3>3
    <2>5. r.src.command # "host" => Raws(s) = [i \in 1..n |-> i]
      <3> SUFFICES ASSUME r.src.command # "host" PROVE Raws(s) = [i \in 1..n |-> i]
        OBVIOUS
      <3>1. \A i \in 1..(Len(z) - 1) : z[i + 1].n = i
        BY <1>1, <1>2 DEF BytesOf
      <3>2. Raws(s) = [i \in 1..(Len(z) - 1) |-> z[i + 1].n]
        BY DEF Raws
      <3> HIDE DEF z, n
      <3> QED
        BY <2>2, <3>1, <3>2
    <2> HIDE DEF z
    <2> QED
      BY <2>1, <2>3, <2>4, <2>5 DEF Truly, Closing, Opening, z
  <1> QED
    BY <1>3, <1>4

LEMMA SeenInOrder == ASSUME Inv, SInv PROVE FeedOrdered
  <1> SUFFICES ASSUME NEW s \in DOMAIN scen.callers, S(s).attached # None
               PROVE  /\ Increasing(Raws(s))
                      /\ S(s).pos - S(s).from
                           = Len(Raws(s)) + S(s).skipped + (IF S(s).pc = "sendFeed" THEN 1 ELSE 0)
    BY DEF FeedOrdered
  <1> DEFINE r == S(s)
             z == Sent(s)
             n == Len(Raws(s))
  <1>1. HeadOf(r, audit[s]) /\ ViewOf(r, feed)
    BY OneSession DEF Session
  <1>2. /\ z = SentOf(r) /\ z \in Seq(Items) /\ Len(z) \in Nat /\ DOMAIN z = 1..Len(z)
        /\ (z = <<>> <=> Len(z) = 0)
    BY SentIs
  <1>3. /\ DOMAIN Raws(s) = 1..(Len(z) - 1) /\ n = IF z = <<>> THEN 0 ELSE Len(z) - 1
        /\ \A i \in DOMAIN Raws(s) : Raws(s)[i] = z[i + 1].n
    BY RawsAre
  <1>4. n = Count(r)
    <2>1. CASE r.started
      <3>1. z # <<>>
        BY <1>1, <1>2, <2>1 DEF HeadOf
      <3> HIDE DEF z, n
      <3> QED
        BY <1>2, <1>3, <2>1, <3>1 DEF Count
    <2>2. CASE ~r.started
      <3>1. r.pc # "done"
        BY <1>1 DEF ViewOf, Hosted
      <3>2. z = <<>>
        BY <1>1, <1>2, <2>2, <3>1 DEF HeadOf
      <3> HIDE DEF z, n
      <3> QED
        BY <1>3, <2>2, <3>2 DEF Count
    <2> QED
      BY <2>1, <2>2
  <1>5. Increasing(Raws(s))
    <2> SUFFICES ASSUME NEW i \in 1..(Len(z) - 1), NEW j \in 1..(Len(z) - 1), i < j
                 PROVE  z[i + 1].n < z[j + 1].n
      BY <1>3 DEF Increasing
    <2>1. \A k, l \in DOMAIN z : k > 1 /\ l > k => z[k].n < z[l].n
      BY <1>1, <1>2 DEF ViewOf
    <2> HIDE DEF z
    <2>2. i + 1 \in DOMAIN z /\ j + 1 \in DOMAIN z /\ i + 1 > 1 /\ j + 1 > i + 1
      BY <1>2
    <2> QED
      BY <2>1, <2>2
  <1> QED
    BY <1>1, <1>4, <1>5 DEF ViewOf

LEMMA HeardInOrder == ASSUME SInv PROVE StdinOrdered
  <1> SUFFICES ASSUME NEW s \in Sess
               PROVE  LET line == S(s).heard \o S(s).pin \o S(s).q
                      IN  /\ \A i, j \in DOMAIN line :
                               i < j /\ line[i] # 0 /\ line[j] # 0 => line[i] < line[j]
                          /\ \A i \in DOMAIN S(s).heard : S(s).heard[i] = 0 =>
                               /\ S(s).q = <<>>
                               /\ \A j \in DOMAIN S(s).heard : j > i => S(s).heard[j] = 0
    BY DEF StdinOrdered
  <1>1. CASE s \in DOMAIN scen.callers
    <2>1. SessType(S(s)) /\ StreamOf(S(s))
      BY <1>1, OneSession DEF Session
    <2> QED
      BY <2>1, SaidInOrder
  <1>2. CASE s \notin DOMAIN scen.callers
    <2>1. S(s).heard = <<>> /\ S(s).pin = <<>> /\ S(s).q = <<>>
      BY <1>2 DEF SInv, SessInv, S, NewSession
    <2>2. <<>> \o <<>> \o <<>> = <<>> /\ DOMAIN <<>> = {}
      OBVIOUS
    <2> QED
      BY <2>1, <2>2
  <1> QED
    BY <1>1, <1>2

LEMMA LeftTidy == ASSUME SInv PROVE AcceptTidy
  <1> SUFFICES ASSUME \A b \in DOMAIN bridge : bridge[b].pc = "end"
               PROVE  /\ \A n \in DOMAIN media : ~Ephemeral(n)
                      /\ \A b \in DOMAIN bridge : AddedLate(b) => Accepts(b).name \in DOMAIN media
    BY DEF AcceptTidy
  <1>1. \A n \in DOMAIN media : ~Lent(media, n)
    BY DEF SInv, BridgeInv, LentInv, AtWork
  <1>2. \A n \in DOMAIN media : ~Ephemeral(n)
    BY <1>1 DEF Ephemeral, Lent
  <1>3. \A b \in DOMAIN bridge : AddedLate(b) => Accepts(b).name \in DOMAIN media
    BY DEF SInv, BridgeInv, LateInv
  <1> QED
    BY <1>2, <1>3

\* A session is sound from its gate to its end (serve_media, serve_audio_duplex and
\* serve_host_media of node/src/pipeline.rs, FeedReader, DuplexRegistry, `rsntr pipe accept`): no
\* process outlives it, its response is one frame and the source's bytes without a gap, a viewer's
\* chunks come in order with the skipped ones counted, every queue keeps to its capacity, and no
\* viewer, upstream entry or lent row outlives what held it.
THEOREM SessionsHold == Spec => []SessionsSound
  <1>1. Inv /\ SInv => SessionsSound
    <2> SUFFICES ASSUME Inv, SInv PROVE SessionsSound
      OBVIOUS
    <2>1. ViewersCounted /\ EntriesLive
      BY DEF SInv, FeedInv, EntryInv, ViewersCounted, EntriesLive, Viewers
    <2> QED
      BY <2>1, FitsWithin, NobodyLeft, ToldTruly, SeenInOrder, HeardInOrder, LeftTidy
         DEF SessionsSound
  <1> QED
    BY <1>1, InitInv, NextInv, SInvInit, SInvNext, PTL DEF Spec
==============================================================================
