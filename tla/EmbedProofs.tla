---------------------------- MODULE EmbedProofs ----------------------------
(***************************************************************************)
(* Proofs, for any threads with any calls, any entrainments and any other  *)
(* process on the directory, that an application's handle holds exactly    *)
(* what it should and that its callbacks come in order, ended once and     *)
(* with the true reason.                                                   *)
(***************************************************************************)
EXTENDS Embed, SequenceTheorems, TLAPS

-----------------------------------------------------------------------------
(* The inductive invariant. *)

Pcs == {"idle", "serve", "serving", "resume", "touch", "mark", "withdraw", "take", "shutdown",
        "drain", "takeLocal", "closeLocal", "end", "route", "build", "keep", "spawn", "wait",
        "publish", "row", "feed", "once", "declare", "claim"}
Pipes == Nat \cup {None}

CallType == [k : Nat \ {0}, pc : Pcs, pipe : Pipes, then : {"none", "touch"},
             saw : SUBSET scen.tables]
AppType == [running : Pipes, local : Pipes, remembered : SUBSET Ents,
            last : STRING \cup {"none"}]
EntType ==
  [pc : {"none", "spawned", "gated", "live", "over"}, route : Pipes, acked : BOOLEAN,
   sub : BOOLEAN, closing : BOOLEAN, handle : {"none", "local", "held", "damped", "dropped"},
   own : BOOLEAN, seq : Nat]
CallbackType == [e : Ents, cb : {"vibration"}, seq : Nat]
                \cup [e : Ents, cb : {"end"}, seq : {"clean", "closed", "gone"}]

TypeInv ==
  /\ scen \in Scenarios
  /\ call \in [DOMAIN scen.threads -> CallType]
  /\ app \in AppType
  /\ ent \in [Ents -> EntType]
  /\ queue \in Seq(CallbackType)
  /\ told \in [Ents -> Seq(CallbackType)]
  /\ pipe \in Seq({"open", "closed"})
  /\ lease \in {None, "me", "other"}
  /\ apps \in [scen.apps -> SUBSET scen.tables]

\* Where thread t can be in a call c, by what it called.
FlowOf(t, c) ==
  LET op == scen.threads[t][c.k].op
  IN  /\ c.pc # "idle" => c.k \in DOMAIN scen.threads[t]
      /\ c.then = "touch" => c.pc \in {"serve", "serving"}
      /\ c.pipe # None =>
           c.pc \in {"serving", "shutdown", "closeLocal", "keep", "row", "feed", "end"}
      /\ c.pc \in {"serving", "keep", "row", "feed"} => c.pipe # None
      /\ c.pc \in {"serve", "serving", "resume", "touch"} => op \in {"serve", "resume"}
      /\ c.pc = "mark" => op = "suspend"
      /\ c.pc \in {"withdraw", "take", "shutdown"} => op \in {"stop", "suspend"}
      /\ c.pc \in {"drain", "takeLocal", "closeLocal"} => op \in {"close", "suspend"}
      /\ c.pc \in {"route", "build", "keep"} => op \in {"query", "entrain"}
      /\ c.pc \in {"spawn", "wait"} => op = "entrain"
      /\ c.pc \in {"publish", "row", "feed"} => op = "publish"
      /\ c.pc \in {"declare", "claim"} => op = "declare"
      /\ c.pc = "once" => op \notin {"suspend", "entrain", "stop"}
FlowInv == \A t \in DOMAIN call : FlowOf(t, C(t))

\* A pipeline is held once: by the handle, or by the call that is about to keep it or to close it.
Holding(c) == c.pc \in {"serving", "shutdown", "keep", "closeLocal"} /\ c.pipe # None
PipeInv ==
  /\ \A p \in DOMAIN pipe : pipe[p] = "open" =>
       p \in {app.running, app.local} \/ \E t \in DOMAIN call : Holding(C(t)) /\ C(t).pipe = p
  /\ \A p \in {app.running, app.local} \ {None} : p \in DOMAIN pipe /\ pipe[p] = "open"
  /\ app.running # None => app.running # app.local
  /\ \A t \in DOMAIN call :
       Holding(C(t)) => /\ C(t).pipe \in DOMAIN pipe /\ pipe[C(t).pipe] = "open"
                        /\ C(t).pipe \notin {app.running, app.local}
                        /\ \A u \in DOMAIN call :
                             Holding(C(u)) /\ C(u).pipe = C(t).pipe => u = t

\* Whoever serves, or is about to, or still shuts down, has the lease.
Serving(c) == c.pc \in {"serving", "shutdown"} /\ c.pipe # None
LeaseInv ==
  /\ lease = "me" <=> app.running # None \/ \E t \in DOMAIN call : Serving(C(t))
  /\ \A t \in DOMAIN call : Serving(C(t)) =>
       app.running = None /\ \A u \in DOMAIN call : Serving(C(u)) => u = t

\* One call at a time finds what it left.
Released ==
  app.running = None /\ app.local = None /\ app.remembered = {} /\ DOMAIN feeds = {}
SerialOf(t, c) ==
  LET suspends == scen.threads[t][c.k].op = "suspend"
  IN  /\ c.pc \in {"build", "keep"} => app.local = None
      /\ c.pc \in {"row", "feed"} => c.pipe = app.running
      /\ c.pc = "take" => DOMAIN feeds = {}
      /\ c.pc = "shutdown" => app.running = None
      /\ c.pc \in {"drain", "takeLocal", "closeLocal"} /\ suspends => app.running = None
      /\ c.pc \in {"takeLocal", "closeLocal"} => app.remembered = {}
      /\ c.pc = "closeLocal" => app.local = None
      /\ c.pc = "end" /\ suspends => Released
OneBusy == \A t, u \in DOMAIN call : ~At(t, "idle") /\ ~At(u, "idle") => t = u
SerialInv ==
  scen.serial => /\ OneBusy
                 /\ \A t \in DOMAIN call : SerialOf(t, C(t))
                 /\ app.running = None => DOMAIN feeds = {}
                 /\ AllIdle /\ app.last = "suspend" => Released

\* The life of an entrainment.
EntOf(e, x) ==
  /\ x.pc = "none" <=> x.handle = "none"
  /\ x.sub => x.pc = "live"
  /\ x.acked => x.pc \in {"live", "over"}
  /\ x.pc = "live" => x.acked
  /\ x.handle \in {"held", "damped"} => x.acked
  /\ x.handle = "held" => x.closing \/ e \in app.remembered
  /\ x.handle = "damped" => x.closing \/ x.own
  /\ x.handle = "dropped" => x.own
EntInv == \A e \in Ents : EntOf(e, ent[e])

\* A handle that is not the app's yet is the one of a call that waits for the acknowledgment.
WaitInv ==
  /\ \A e \in Ents : ent[e].handle = "local" =>
       \E t \in DOMAIN call : At(t, "wait") /\ Op(t).e = e
  /\ \A t \in DOMAIN call : At(t, "wait") => ent[Op(t).e].handle = "local"

\* An entrainment of a call still to come does not exist.
ToEntrain(t, k) ==
  /\ scen.threads[t][k].op = "entrain"
  /\ k > C(t).k \/ (k = C(t).k /\ C(t).pc \in {"idle", "route", "build", "keep", "spawn"})
FreshInv ==
  \A t \in DOMAIN call : \A k \in DOMAIN scen.threads[t] :
     ToEntrain(t, k) => ent[scen.threads[t][k].e].pc = "none"

\* One call at a time: an entrainment that the app can still damp hears an open pipeline, and one
\* that a suspend or close ended is marked.
Opened(x) == x.route # 0 => x.route \in DOMAIN pipe /\ pipe[x.route] = "open"
SerialEnt ==
  scen.serial =>
    /\ \A e \in Ents : ent[e].sub /\ ent[e].handle # "dropped" => Opened(ent[e])
    /\ \A e \in Ents : ent[e].handle = "local" => Opened(ent[e])
    /\ \A t \in DOMAIN call : At(t, "spawn") => Opened(ent[Op(t).e])
Stopping == {"withdraw", "take", "shutdown"}
Marked(x) == x.pc = "live" /\ ~x.sub /\ x.route # 0 => x.closing \/ x.own
ClosedInv ==
  scen.serial /\ ~PlainStop =>
    /\ \A e \in Ents : Marked(ent[e])
    /\ \A t \in DOMAIN call : C(t).pc \in Stopping =>
         \A e \in Ents : ent[e].handle = "held" => ent[e].closing
    /\ \A i \in DOMAIN queue : queue[i].cb = "end" /\ queue[i].seq = "clean" => ent[queue[i].e].own
    /\ ClosedSaid

\* The callbacks of an entrainment that wait are the ones after those told, in order.
QueueInv ==
  /\ \A i \in DOMAIN queue : LET c == queue[i]
       IN /\ c.cb = "vibration" => /\ c.seq \in Nat /\ c.seq < ent[c.e].seq
                                   /\ Len(told[c.e]) <= c.seq
          /\ c.cb = "end" => ent[c.e].pc = "over"
          /\ \A j \in DOMAIN queue : i < j /\ queue[j].e = c.e =>
               c.cb = "vibration" /\ (queue[j].cb = "vibration" => c.seq < queue[j].seq)
  /\ \A e \in Ents : \A n \in Nat : Len(told[e]) <= n /\ n < ent[e].seq =>
       \E i \in DOMAIN queue : queue[i].e = e /\ queue[i].cb = "vibration" /\ queue[i].seq = n
ToldInv ==
  /\ CallbacksOrdered
  /\ \A e \in Ents : \A i \in DOMAIN told[e] :
       /\ told[e][i].cb = "end" => ent[e].pc = "over"
       /\ told[e][i].cb = "vibration" => told[e][i].seq < ent[e].seq

\* A claim under way is of a table nobody else has.
ClaimOf(t) ==
  At(t, "claim") => /\ C(t).saw = apps[Op(t).app] \cup {Op(t).table}
                    /\ claimed_by(Op(t).table) \subseteq {Op(t).app}
ClaimInv == scen.serial => OneOwner /\ \A t \in DOMAIN call : ClaimOf(t)

Inv ==
  /\ TypeInv /\ FlowInv /\ PipeInv /\ LeaseInv /\ SerialInv /\ EntInv /\ WaitInv /\ FreshInv
  /\ SerialEnt /\ ClosedInv /\ QueueInv /\ ToldInv /\ ClaimInv

-----------------------------------------------------------------------------
(* A thread's step, from what its call becomes. *)

Stepped(t, c) == t \in DOMAIN call /\ c \in CallType /\ call' = [call EXCEPT ![t] = c]

\* Only the thread moves.
LEMMA ThreadStep ==
  ASSUME TypeInv, scen' = scen, NEW t, NEW c, Stepped(t, c)
  PROVE  /\ DOMAIN call' = DOMAIN call /\ C(t)' = c
         /\ \A u \in DOMAIN call : u # t => C(u)' = C(u)
         /\ call' \in [DOMAIN scen'.threads -> CallType'] /\ CallType' = CallType
  BY DEF TypeInv, Stepped, C, CallType

\* Its calls stay in their tracks.
LEMMA FlowKept ==
  ASSUME TypeInv, FlowInv, scen' = scen, NEW t, NEW c, Stepped(t, c), FlowOf(t, c)
  PROVE  FlowInv'
  <1>1. \A u, d : FlowOf(u, d)' <=> FlowOf(u, d)
    BY DEF FlowOf
  <1>2. ASSUME NEW u \in DOMAIN call PROVE FlowOf(u, C(u)')
    BY ThreadStep DEF FlowInv, Stepped
  <1> QED
    BY <1>1, <1>2, ThreadStep DEF FlowInv

\* A step that takes and leaves no pipeline.
LEMMA HeldKept ==
  ASSUME TypeInv, PipeInv, LeaseInv, NEW t, NEW c, Stepped(t, c),
         UNCHANGED <<scen, pipe, lease>>,
         app'.running = app.running, app'.local = app.local,
         ~Holding(C(t)), ~Holding(c)
  PROVE  PipeInv' /\ LeaseInv'
  <1>1. \A u \in DOMAIN call : /\ Holding(C(u))' <=> Holding(C(u))
                               /\ Serving(C(u))' <=> Serving(C(u))
                               /\ Holding(C(u)) => C(u)' = C(u)
    BY ThreadStep DEF Holding, Serving
  <1>2. DOMAIN call' = DOMAIN call
    BY ThreadStep
  <1>3. PipeInv'
    <2>1. ASSUME NEW p \in DOMAIN pipe', pipe'[p] = "open"
          PROVE  p \in {app'.running, app'.local}
                 \/ \E u \in DOMAIN call' : Holding(C(u))' /\ C(u)'.pipe = p
      <3>1. CASE \E u \in DOMAIN call : Holding(C(u)) /\ C(u).pipe = p
        BY <3>1, <1>1, <1>2
      <3> QED
        BY <2>1, <3>1 DEF PipeInv
    <2>2. ASSUME NEW u \in DOMAIN call', Holding(C(u))'
          PROVE  /\ C(u)'.pipe \in DOMAIN pipe' /\ pipe'[C(u)'.pipe] = "open"
                 /\ C(u)'.pipe \notin {app'.running, app'.local}
                 /\ \A v \in DOMAIN call' : Holding(C(v))' /\ C(v)'.pipe = C(u)'.pipe => v = u
      BY <2>2, <1>1, <1>2 DEF PipeInv
    <2> QED
      BY <2>1, <2>2 DEF PipeInv
  <1>4. LeaseInv'
    BY <1>1, <1>2 DEF LeaseInv
  <1> QED
    BY <1>3, <1>4

\* With one call at a time nobody else has to be looked at.
LEMMA SerialKept ==
  ASSUME TypeInv, SerialInv, scen' = scen, NEW t, NEW c, Stepped(t, c),
         scen.serial =>
           /\ ~At(t, "idle") \/ ~Others(t)
           /\ SerialOf(t, c)'
           /\ app'.running = None => DOMAIN feeds' = {}
           /\ c.pc = "idle" /\ app'.last = "suspend" => Released'
  PROVE  SerialInv'
  <1> SUFFICES ASSUME scen.serial
               PROVE  /\ OneBusy' /\ \A u \in DOMAIN call' : SerialOf(u, C(u))'
                      /\ app'.running = None => DOMAIN feeds' = {}
                      /\ AllIdle' /\ app'.last = "suspend" => Released'
    BY DEF SerialInv
  <1>1. \A u \in DOMAIN call : u # t => C(u).pc = "idle"
    BY DEF SerialInv, OneBusy, Others, At, Stepped
  <1>2. DOMAIN call' = DOMAIN call /\ C(t)' = c /\ \A u \in DOMAIN call : u # t => C(u)'.pc = "idle"
    BY <1>1, ThreadStep
  <1>3. OneBusy'
    BY <1>2 DEF OneBusy, At
  <1>4. ASSUME NEW u \in DOMAIN call' PROVE SerialOf(u, C(u))'
    <2>1. CASE u = t
      BY <2>1, <1>2
    <2>2. CASE u # t
      BY <2>2, <1>2 DEF SerialOf
    <2> QED
      BY <2>1, <2>2
  <1>5. AllIdle' => c.pc = "idle"
    BY <1>2 DEF AllIdle, At, Stepped
  <1> QED
    BY <1>3, <1>4, <1>5

\* Entrainments still to come do not exist yet.
Before == {"idle", "route", "build", "keep", "spawn"}
LEMMA FreshKept ==
  ASSUME TypeInv, FreshInv, scen' = scen, NEW t, NEW c, Stepped(t, c),
         \/ c.k = C(t).k /\ (c.pc \in Before => C(t).pc \in Before)
         \/ c.k = C(t).k + 1,
         \A e \in Ents : ent[e].pc = "none" => ent'[e].pc = "none"
  PROVE  FreshInv'
  <1> SUFFICES ASSUME NEW u \in DOMAIN call', NEW k \in DOMAIN scen.threads[u], ToEntrain(u, k)'
               PROVE  ent'[scen.threads[u][k].e].pc = "none"
    BY DEF FreshInv
  <1>1. u \in DOMAIN call /\ u \in DOMAIN scen.threads
    BY ThreadStep DEF TypeInv
  <1>2. k \in Nat
    BY <1>1, ScenariosAssumption, LenProperties DEF TypeInv
  <1>3. ToEntrain(u, k)
    <2>1. CASE u # t
      BY <2>1, <1>1, ThreadStep DEF ToEntrain
    <2>2. CASE u = t
      <3>1. C(t).k \in Nat
        BY <1>1, <2>2 DEF TypeInv, CallType, C
      <3> QED
        BY <2>2, <3>1, <1>1, <1>2, ThreadStep DEF ToEntrain, Before
    <2> QED
      BY <2>1, <2>2
  <1>4. scen.threads[u][k].e \in Ents
    BY <1>1, <1>3, ScenariosAssumption DEF TypeInv, ToEntrain
  <1> QED
    BY <1>1, <1>3, <1>4 DEF FreshInv

\* Callbacks follow the tasks alone.
LEMMA CallbacksKept ==
  ASSUME TypeInv, QueueInv, ToldInv, UNCHANGED <<queue, told>>,
         \A e \in Ents : ent'[e].seq = ent[e].seq /\ (ent[e].pc = "over" => ent'[e].pc = "over")
  PROVE  QueueInv' /\ ToldInv'
  <1>1. \A i \in DOMAIN queue : queue[i].e \in Ents
    BY ElementOfSeq, LenProperties DEF TypeInv, CallbackType
  <1>2. QueueInv'
    BY <1>1 DEF QueueInv
  <1>3. ToldInv'
    BY DEF ToldInv, CallbacksOrdered
  <1> QED
    BY <1>2, <1>3

\* What a call entrains, and no other does.
LEMMA EntrainIs ==
  ASSUME TypeInv, NEW t \in DOMAIN call, Op(t).op = "entrain",
         C(t).k \in DOMAIN scen.threads[t]
  PROVE  /\ Op(t).e \in Ents
         /\ \A u \in DOMAIN call : \A j \in DOMAIN scen.threads[u] :
              scen.threads[u][j].op = "entrain" /\ scen.threads[u][j].e = Op(t).e
                => u = t /\ j = C(t).k
  <1>1. t \in DOMAIN scen.threads /\ scen \in Scenarios /\ DOMAIN call = DOMAIN scen.threads
    BY DEF TypeInv
  <1>2. Op(t) = scen.threads[t][C(t).k]
    BY DEF Op
  <1> QED
    BY <1>1, <1>2, ScenariosAssumption

\* The waiting call is there as long as it waits.
LEMMA WaitKept ==
  ASSUME TypeInv, FlowInv, WaitInv, scen' = scen, NEW t, NEW c, Stepped(t, c), ~At(t, "wait"),
         \A e \in Ents : /\ ent'[e].handle = "local" =>
                              ent[e].handle = "local" \/ (c.pc = "wait" /\ scen.threads[t][c.k].e = e)
                         /\ ent[e].handle = "local" => ent'[e].handle = "local",
         c.pc = "wait" => ent'[scen.threads[t][c.k].e].handle = "local"
  PROVE  WaitInv'
  <1>1. ASSUME NEW e \in Ents, ent'[e].handle = "local"
        PROVE  \E u \in DOMAIN call' : (At(u, "wait") /\ Op(u).e = e)'
    <2>1. CASE c.pc = "wait" /\ scen.threads[t][c.k].e = e
      <3>1. t \in DOMAIN call' /\ C(t)' = c
        BY ThreadStep DEF Stepped
      <3> QED
        BY <2>1, <3>1 DEF At, Op
    <2>2. CASE ent[e].handle = "local"
      <3>1. PICK u \in DOMAIN call : At(u, "wait") /\ Op(u).e = e
        BY <2>2 DEF WaitInv
      <3>2. u # t
        BY <3>1
      <3> QED
        BY <3>1, <3>2, ThreadStep DEF At, Op
    <2> QED
      BY <1>1, <2>1, <2>2
  <1>2. ASSUME NEW u \in DOMAIN call', C(u)'.pc = "wait"
        PROVE  ent'[scen'.threads[u][C(u)'.k].e].handle = "local"
    <2>1. CASE u = t
      BY <1>2, <2>1, ThreadStep
    <2>2. CASE u # t
      <3>1. u \in DOMAIN call /\ C(u)' = C(u) /\ C(u).pc = "wait"
        BY <1>2, <2>2, ThreadStep
      <3>2. Op(u).e \in Ents
        BY <3>1, EntrainIs DEF FlowInv, FlowOf, Op
      <3>3. ent[Op(u).e].handle = "local"
        BY <3>1 DEF WaitInv, At
      <3> QED
        BY <3>1, <3>2, <3>3 DEF Op
    <2> QED
      BY <2>1, <2>2
  <1> QED
    BY <1>1, <1>2 DEF WaitInv, At, Op

\* Pipelines in use stay open.
LEMMA SerialEntKept ==
  ASSUME TypeInv, SerialEnt, scen' = scen, NEW t, NEW c, Stepped(t, c), c.pc # "spawn",
         scen.serial =>
           /\ \A u \in DOMAIN call : u # t => C(u).pc = "idle"
           /\ \A p \in DOMAIN pipe : pipe[p] = "open" => p \in DOMAIN pipe' /\ pipe'[p] = "open",
         \A e \in Ents : /\ ent'[e].sub => ent[e].sub
                         /\ ent[e].handle = "dropped" => ent'[e].handle = "dropped"
                         /\ ent'[e].handle = "local" => ent[e].handle = "local"
                         /\ ent'[e].route = ent[e].route
  PROVE  SerialEnt'
  <1> SUFFICES ASSUME scen.serial
               PROVE  /\ \A e \in Ents : ent'[e].sub /\ ent'[e].handle # "dropped" => Opened(ent[e])'
                      /\ \A e \in Ents : ent'[e].handle = "local" => Opened(ent[e])'
                      /\ \A u \in DOMAIN call' : ~At(u, "spawn")'
    BY DEF SerialEnt
  <1>1. \A e \in Ents : Opened(ent[e]) => Opened(ent[e])'
    BY DEF Opened
  <1>2. \A u \in DOMAIN call' : ~At(u, "spawn")'
    <2> SUFFICES ASSUME NEW u \in DOMAIN call' PROVE C(u)'.pc # "spawn"
      BY DEF At
    <2>1. u = t \/ C(u)'.pc = "idle"
      BY ThreadStep
    <2> QED
      BY <2>1, ThreadStep
  <1> QED
    BY <1>1, <1>2 DEF SerialEnt

\* What ended is marked, and what is stopped will be.
LEMMA ClosedKept ==
  ASSUME TypeInv, ClosedInv, UNCHANGED <<scen, queue, told>>, NEW t, NEW c, Stepped(t, c),
         scen.serial => \A u \in DOMAIN call : u # t => C(u).pc = "idle",
         \A e \in Ents : ent[e].own => ent'[e].own,
         scen.serial /\ ~PlainStop =>
           /\ \A e \in Ents : Marked(ent'[e])
           /\ c.pc \in Stopping => \A e \in Ents : ent'[e].handle = "held" => ent'[e].closing
  PROVE  ClosedInv'
  <1>1. PlainStop' <=> PlainStop
    BY DEF PlainStop
  <1> SUFFICES ASSUME scen.serial /\ ~PlainStop
               PROVE  /\ \A e \in Ents : Marked(ent'[e])
                      /\ \A u \in DOMAIN call' : C(u)'.pc \in Stopping =>
                           \A e \in Ents : ent'[e].handle = "held" => ent'[e].closing
                      /\ \A i \in DOMAIN queue' : queue'[i].cb = "end" /\ queue'[i].seq = "clean"
                            => ent'[queue'[i].e].own
                      /\ ClosedSaid'
    BY <1>1 DEF ClosedInv, Marked
  <1>2. \A u \in DOMAIN call' : u = t \/ C(u)'.pc = "idle"
    BY ThreadStep
  <1>3. \A i \in DOMAIN queue : queue[i].e \in Ents
    BY ElementOfSeq, LenProperties DEF TypeInv, CallbackType
  <1>4. ClosedSaid'
    BY <1>1 DEF ClosedInv, ClosedSaid
  <1>5. \A i \in DOMAIN queue' : queue'[i].cb = "end" /\ queue'[i].seq = "clean"
            => ent'[queue'[i].e].own
    BY <1>3 DEF ClosedInv
  <1>6. "idle" \notin Stopping /\ C(t)' = c
    BY ThreadStep DEF Stopping
  <1> QED
    BY <1>2, <1>4, <1>5, <1>6

\* Nobody else claims a table.
LEMMA ClaimKept ==
  ASSUME TypeInv, ClaimInv, UNCHANGED <<scen, apps>>, NEW t, NEW c, Stepped(t, c),
         c.pc # "claim"
  PROVE  ClaimInv'
  <1>1. OneOwner' <=> OneOwner
    BY DEF OneOwner
  <1>2. ASSUME NEW u \in DOMAIN call', ClaimOf(u), u # t PROVE ClaimOf(u)'
    BY <1>2, ThreadStep DEF ClaimOf, At, Op, claimed_by
  <1>3. ClaimOf(t)'
    BY ThreadStep DEF ClaimOf, At
  <1>4. DOMAIN call' = DOMAIN call
    BY ThreadStep
  <1> QED
    BY <1>1, <1>2, <1>3, <1>4 DEF ClaimInv

\* With one call at a time the others are idle.
LEMMA OthersIdle ==
  ASSUME SerialInv, scen.serial, NEW t \in DOMAIN call, ~At(t, "idle") \/ ~Others(t)
  PROVE  \A u \in DOMAIN call : u # t => C(u).pc = "idle"
  BY DEF SerialInv, OneBusy, Others, At

\* A step that leaves entrainments and callbacks alone.
LEMMA EntsKept ==
  ASSUME Inv, NEW t, NEW c, Stepped(t, c), UNCHANGED <<scen, ent, queue, told>>,
         app'.remembered = app.remembered, ~At(t, "wait"), c.pc \notin {"spawn", "wait"},
         scen.serial =>
           /\ ~At(t, "idle") \/ ~Others(t)
           /\ \A p \in DOMAIN pipe : pipe[p] = "open" => p \in DOMAIN pipe' /\ pipe'[p] = "open"
           /\ ~PlainStop /\ c.pc \in Stopping => C(t).pc \in Stopping
  PROVE  EntInv' /\ WaitInv' /\ SerialEnt' /\ ClosedInv' /\ QueueInv' /\ ToldInv'
  <1> USE DEF Inv
  <1>1. t \in DOMAIN call /\ (scen.serial => \A u \in DOMAIN call : u # t => C(u).pc = "idle")
    BY OthersIdle DEF Stepped
  <1>2. EntInv'
    BY DEF EntInv, EntOf
  <1>3. WaitInv'
    BY WaitKept
  <1>4. SerialEnt'
    BY <1>1, SerialEntKept
  <1>5. ClosedInv'
    <2>1. scen.serial /\ ~PlainStop =>
            /\ \A e \in Ents : Marked(ent'[e])
            /\ c.pc \in Stopping => \A e \in Ents : ent'[e].handle = "held" => ent'[e].closing
      BY <1>1 DEF ClosedInv
    <2> QED
      BY <1>1, <2>1, ClosedKept
  <1>6. QueueInv' /\ ToldInv'
    BY CallbacksKept
  <1> QED
    BY <1>2, <1>3, <1>4, <1>5, <1>6

\* What most steps of a call do: move on, with the handle's pipelines and entrainments as they are.
Unclaimed ==
  /\ TypeInv /\ FlowInv /\ PipeInv /\ LeaseInv /\ SerialInv /\ EntInv /\ WaitInv /\ FreshInv
  /\ SerialEnt /\ ClosedInv /\ QueueInv /\ ToldInv
LEMMA QuietParts ==
  ASSUME Inv, NEW t, NEW c, Stepped(t, c), FlowOf(t, c),
         UNCHANGED <<scen, pipe, lease, ent, queue, told>>,
         apps' \in [scen.apps -> SUBSET scen.tables],
         app' \in AppType, app'.running = app.running, app'.local = app.local,
         app'.remembered = app.remembered,
         ~Holding(C(t)), ~Holding(c), ~At(t, "wait"), c.pc \notin {"spawn", "wait"},
         \/ c.k = C(t).k /\ (c.pc \in Before => C(t).pc \in Before)
         \/ c.k = C(t).k + 1,
         scen.serial =>
           /\ ~At(t, "idle") \/ ~Others(t)
           /\ ~PlainStop /\ c.pc \in Stopping => C(t).pc \in Stopping
           /\ SerialOf(t, c)'
           /\ app'.running = None => DOMAIN feeds' = {}
           /\ c.pc = "idle" /\ app'.last = "suspend" => Released'
  PROVE  Unclaimed'
  <1>1. TypeInv'
    BY ThreadStep DEF Inv, TypeInv, AppType, EntType, CallbackType, Pipes
  <1>2. FlowInv'
    BY FlowKept DEF Inv
  <1>3. PipeInv' /\ LeaseInv'
    BY HeldKept DEF Inv
  <1>4. SerialInv'
    BY SerialKept DEF Inv
  <1>5. FreshInv'
    BY FreshKept DEF Inv
  <1>6. EntInv' /\ WaitInv' /\ SerialEnt' /\ ClosedInv' /\ QueueInv' /\ ToldInv'
    BY EntsKept
  <1> QED
    BY <1>1, <1>2, <1>3, <1>4, <1>5, <1>6 DEF Unclaimed

LEMMA QuietStep ==
  ASSUME Inv, NEW t, NEW c, Stepped(t, c), FlowOf(t, c),
         UNCHANGED <<scen, pipe, lease, ent, queue, told, apps>>,
         app' \in AppType, app'.running = app.running, app'.local = app.local,
         app'.remembered = app.remembered,
         ~Holding(C(t)), ~Holding(c), ~At(t, "wait"), c.pc \notin {"spawn", "claim", "wait"},
         \/ c.k = C(t).k /\ (c.pc \in Before => C(t).pc \in Before)
         \/ c.k = C(t).k + 1,
         scen.serial =>
           /\ ~At(t, "idle") \/ ~Others(t)
           /\ ~PlainStop /\ c.pc \in Stopping => C(t).pc \in Stopping
           /\ SerialOf(t, c)'
           /\ app'.running = None => DOMAIN feeds' = {}
           /\ c.pc = "idle" /\ app'.last = "suspend" => Released'
  PROVE  Inv'
  <1>1. Unclaimed'
    BY QuietParts DEF Inv, TypeInv
  <1>2. ClaimInv'
    BY ClaimKept DEF Inv
  <1> QED
    BY <1>1, <1>2 DEF Inv, Unclaimed

\* A call that returns.
LEMMA ReturnStep ==
  ASSUME TypeInv, NEW t \in DOMAIN call, Return(t), C(t).then = "none",
         ~At(t, "idle") => C(t).k \in DOMAIN scen.threads[t], ~At(t, "idle")
  PROVE  \E c : /\ Stepped(t, c) /\ c.k = C(t).k + 1 /\ c.pc = "idle" /\ c.pipe = None
                /\ c.then = "none" /\ c.saw = {}
                /\ app' \in AppType /\ app'.running = app.running /\ app'.local = app.local
                /\ app'.remembered = app.remembered /\ app'.last = Op(t).op
  <1>1. C(t) \in CallType /\ call \in [DOMAIN call -> CallType] /\ t \in DOMAIN scen.threads
    BY DEF TypeInv, C
  <1>2. C(t).k \in Nat
    BY <1>1 DEF CallType
  <1>3. PICK c : c = [Idle EXCEPT !.k = @ + C(t).k]
    OBVIOUS
  <1>4. c \in CallType /\ c.k = C(t).k + 1 /\ c.pc = "idle" /\ c.pipe = None /\ c.then = "none"
        /\ c.saw = {}
    BY <1>2, <1>3 DEF Idle, CallType, Pcs, Pipes
  <1>5. call' = [call EXCEPT ![t] = c]
    BY <1>3 DEF Return, C
  <1>6. Op(t).op \in STRING
    BY <1>1, ScenariosAssumption DEF TypeInv, Op
  <1>7. app' = [app EXCEPT !.last = Op(t).op] /\ app \in AppType
    BY DEF Return, TypeInv
  <1>8. app' \in AppType /\ app'.running = app.running /\ app'.local = app.local
        /\ app'.remembered = app.remembered /\ app'.last = Op(t).op
    BY <1>6, <1>7 DEF AppType
  <1> QED
    BY <1>4, <1>5, <1>8 DEF Stepped

\* A call that moves on.
LEMMA GotoStep ==
  ASSUME TypeInv, NEW t \in DOMAIN call, NEW pc \in Pcs, Goto(t, pc)
  PROVE  \E c : /\ Stepped(t, c) /\ c.k = C(t).k /\ c.pc = pc /\ c.pipe = C(t).pipe
                /\ c.then = C(t).then /\ c.saw = C(t).saw
  <1>1. C(t) \in CallType
    BY DEF TypeInv, C
  <1>2. PICK c : c = [C(t) EXCEPT !.pc = pc]
    OBVIOUS
  <1>3. c \in CallType /\ c.k = C(t).k /\ c.pc = pc /\ c.pipe = C(t).pipe /\ c.then = C(t).then
        /\ c.saw = C(t).saw
    BY <1>1, <1>2 DEF CallType
  <1>4. call' = [call EXCEPT ![t] = c]
    BY <1>2 DEF Goto, C, TypeInv
  <1> QED
    BY <1>3, <1>4 DEF Stepped

\* A call that moves on with a pipeline, or without the one it had.
Moves(t, pc, p) == call' = [call EXCEPT ![t].pc = pc, ![t].pipe = p]
LEMMA MoveStep ==
  ASSUME TypeInv, NEW t \in DOMAIN call, NEW pc \in Pcs, NEW p \in Pipes, Moves(t, pc, p)
  PROVE  \E c : /\ Stepped(t, c) /\ c.k = C(t).k /\ c.pc = pc /\ c.pipe = p
                /\ c.then = C(t).then /\ c.saw = C(t).saw
  <1>1. C(t) \in CallType
    BY DEF TypeInv, C
  <1>2. PICK c : c = [C(t) EXCEPT !.pc = pc, !.pipe = p]
    OBVIOUS
  <1>3. c \in CallType /\ c.k = C(t).k /\ c.pc = pc /\ c.pipe = p /\ c.then = C(t).then
        /\ c.saw = C(t).saw
    BY <1>1, <1>2 DEF CallType
  <1>4. call' = [call EXCEPT ![t] = c]
    BY <1>2 DEF Moves, C, TypeInv
  <1> QED
    BY <1>3, <1>4 DEF Stepped

-----------------------------------------------------------------------------
(* The calls, one by one. *)

\* The call of a thread.
LEMMA CallIs ==
  ASSUME Inv, NEW t \in DOMAIN call
  PROVE  /\ C(t) \in CallType /\ FlowOf(t, C(t)) /\ t \in DOMAIN scen.threads /\ app \in AppType
         /\ C(t).k \in Nat \ {0} /\ C(t).then \in {"none", "touch"} /\ Op(t) = scen.threads[t][C(t).k]
         /\ scen.serial => SerialOf(t, C(t)) /\ (app.running = None => DOMAIN feeds = {})
         /\ ~At(t, "idle") => C(t).k \in DOMAIN scen.threads[t]
  BY DEF Inv, TypeInv, FlowInv, FlowOf, SerialInv, C, CallType, Op, At

\* What it calls.
LEMMA OpIs ==
  ASSUME Inv, NEW t \in DOMAIN call, C(t).k \in DOMAIN scen.threads[t]
  PROVE  /\ Op(t).op \in STRING /\ (Op(t).op = "declare" => Op(t).app \in scen.apps)
         /\ Op(t).op = "publish" => Op(t).h \in STRING
         /\ Op(t).op = "entrain" => Op(t).e \in Ents
  <1>1. t \in DOMAIN scen.threads /\ scen \in Scenarios
    BY CallIs DEF Inv, TypeInv
  <1> QED
    BY <1>1, CallIs, ScenariosAssumption

LEMMA EnterIs ==
  ASSUME NEW op, NEW pc, pc = Enter(op)
  PROVE  \/ pc \in {"serve", "resume"} /\ pc = op
         \/ pc = "withdraw" /\ op = "stop"
         \/ pc = "drain" /\ op = "close"
         \/ pc = "mark" /\ op = "suspend"
         \/ pc = "route" /\ op \in {"query", "entrain"}
         \/ pc \in {"publish", "declare"} /\ pc = op
         \/ pc = "once" /\ op \notin {"suspend", "entrain", "stop"}
  BY DEF Enter

LEMMA BeginInv == ASSUME Inv, NEW t \in DOMAIN call, Begin(t) PROVE Inv'
  <1>1. At(t, "idle") /\ C(t).pc = "idle" /\ C(t).k \in DOMAIN scen.threads[t]
    <2>1. scen.threads[t] \in Seq(Range(scen.threads[t]))
      BY CallIs, ScenariosAssumption DEF Inv, TypeInv
    <2> QED
      BY <2>1, CallIs, LenProperties DEF Begin, At
  <1>2. PICK pc : pc = Enter(Op(t).op)
    OBVIOUS
  <1>3. pc \in Pcs /\ pc \notin {"idle", "spawn", "claim", "wait"}
    BY <1>2, EnterIs DEF Pcs
  <1>4. PICK c : /\ Stepped(t, c) /\ c.k = C(t).k /\ c.pc = pc /\ c.pipe = C(t).pipe
                 /\ c.then = C(t).then
    BY <1>2, <1>3, GotoStep DEF Begin, Inv
  <1>5. C(t).pipe = None /\ C(t).then = "none"
    BY <1>1, CallIs DEF FlowOf
  <1>6. FlowOf(t, c)
    BY <1>1, <1>2, <1>4, <1>5, EnterIs, CallIs DEF FlowOf
  <1>7. ~Holding(C(t)) /\ ~Holding(c) /\ ~At(t, "wait")
    BY <1>1, <1>4, <1>5 DEF Holding, At
  <1>8. UNCHANGED <<scen, app, feeds, pipe, lease, ent, queue, told, apps>>
    BY DEF Begin, mediaVars
  <1>9. scen.serial => /\ ~Others(t) /\ (~PlainStop => c.pc \notin Stopping) /\ SerialOf(t, c)'
    <2>1. SerialOf(t, c)'
      BY <1>2, <1>4, <1>8, EnterIs, CallIs DEF SerialOf
    <2>2. c.pc \in Stopping => PlainStop
      BY <1>1, <1>2, <1>4, EnterIs, CallIs DEF Stopping, PlainStop
    <2> QED
      BY <2>1, <2>2 DEF Begin
  <1> QED
    BY <1>1, <1>3, <1>4, <1>6, <1>7, <1>8, <1>9, QuietStep, CallIs DEF Before

\* A call that only returns.
LEMMA Returned ==
  ASSUME Inv, NEW t \in DOMAIN call, Return(t), C(t).then = "none", ~At(t, "idle"), ~At(t, "wait"),
         ~Holding(C(t)), UNCHANGED <<scen, feeds, pipe, lease, ent, queue, told, apps>>,
         scen.serial /\ Op(t).op = "suspend" => Released
  PROVE  Inv'
  <1>1. PICK c : /\ Stepped(t, c) /\ c.k = C(t).k + 1 /\ c.pc = "idle" /\ c.pipe = None
                 /\ c.then = "none"
                 /\ app' \in AppType /\ app'.running = app.running /\ app'.local = app.local
                 /\ app'.remembered = app.remembered /\ app'.last = Op(t).op
    BY ReturnStep, CallIs DEF Inv
  <1>2. FlowOf(t, c) /\ ~Holding(c)
    BY <1>1 DEF FlowOf, Holding
  <1>3. scen.serial => /\ SerialOf(t, c)' /\ (app'.running = None => DOMAIN feeds' = {})
                       /\ app'.last = "suspend" => Released'
    BY <1>1, CallIs DEF SerialOf, Released
  <1>4. c.pc \notin Stopping
    BY <1>1 DEF Stopping
  <1> QED
    BY <1>1, <1>2, <1>3, <1>4, QuietStep

LEMMA ResumeInv == ASSUME Inv, NEW t \in DOMAIN call, ResumeCall(t) PROVE Inv'
  <1>1. C(t).pc = "resume" /\ ~At(t, "idle") /\ ~At(t, "wait")
    BY DEF ResumeCall, At
  <1>2. C(t).pipe = None /\ C(t).then = "none" /\ ~Holding(C(t))
    BY <1>1, CallIs DEF FlowOf, Holding
  <1>3. PICK c : /\ Stepped(t, c) /\ c.k = C(t).k /\ c.pipe = None
                 /\ \/ c.pc = "serve" /\ c.then = "touch"
                    \/ c.pc = "touch" /\ c.then = "none"
    <2>1. CASE Goto(t, "touch")
      BY <2>1, <1>2, GotoStep DEF Inv, Pcs
    <2>2. CASE call' = [call EXCEPT ![t].pc = "serve", ![t].then = "touch"]
      <3>1. PICK c : c = [C(t) EXCEPT !.pc = "serve", !.then = "touch"]
        OBVIOUS
      <3>2. c \in CallType /\ c.k = C(t).k /\ c.pipe = None /\ c.pc = "serve" /\ c.then = "touch"
        BY <1>2, <3>1, CallIs DEF CallType, Pcs
      <3>3. call' = [call EXCEPT ![t] = c]
        BY <2>2, <3>1 DEF C, Inv, TypeInv
      <3> QED
        BY <3>2, <3>3 DEF Stepped
    <2> QED
      BY <2>1, <2>2 DEF ResumeCall
  <1>4. FlowOf(t, c) /\ ~Holding(c)
    BY <1>1, <1>3, CallIs DEF FlowOf, Holding
  <1>5. UNCHANGED <<scen, app, feeds, pipe, lease, ent, queue, told, apps>>
    BY DEF ResumeCall, mediaVars
  <1>6. c.pc \notin Before \cup Stopping \cup {"spawn", "claim", "wait"}
    BY <1>3 DEF Before, Stopping
  <1>7. SerialOf(t, c)'
    BY <1>3 DEF SerialOf
  <1> QED
    BY <1>1, <1>2, <1>3, <1>4, <1>5, <1>6, <1>7, QuietStep, CallIs DEF Before

LEMMA TouchInv == ASSUME Inv, NEW t \in DOMAIN call, touch_app(t) PROVE Inv'
  <1>1. C(t).pc = "touch" /\ ~At(t, "idle") /\ ~At(t, "wait")
    BY DEF touch_app, At
  <1>2. C(t).then = "none" /\ ~Holding(C(t)) /\ Op(t).op # "suspend"
    BY <1>1, CallIs DEF FlowOf, Holding
  <1> QED
    BY <1>1, <1>2, Returned DEF touch_app, mediaVars

LEMMA EndInv == ASSUME Inv, NEW t \in DOMAIN call, End(t) PROVE Inv'
  <1>1. C(t).pc = "end" /\ ~At(t, "idle") /\ ~At(t, "wait")
    BY DEF End, At
  <1>2. C(t).then = "none" /\ ~Holding(C(t))
    BY <1>1, CallIs DEF FlowOf, Holding
  <1>3. scen.serial /\ Op(t).op = "suspend" => Released
    BY <1>1, CallIs DEF SerialOf
  <1> QED
    BY <1>1, <1>2, <1>3, Returned DEF End, mediaVars

LEMMA WithdrawInv == ASSUME Inv, NEW t \in DOMAIN call, Withdraw(t) PROVE Inv'
  <1>1. C(t).pc = "withdraw" /\ ~At(t, "idle") /\ ~At(t, "wait")
    BY DEF Withdraw, At
  <1>2. C(t).pipe = None /\ C(t).then = "none" /\ ~Holding(C(t))
    BY <1>1, CallIs DEF FlowOf, Holding
  <1>3. PICK c : /\ Stepped(t, c) /\ c.k = C(t).k /\ c.pc = "take" /\ c.pipe = C(t).pipe
                 /\ c.then = C(t).then
    BY GotoStep DEF Inv, Pcs, Withdraw
  <1>4. FlowOf(t, c) /\ ~Holding(c)
    BY <1>1, <1>2, <1>3, CallIs DEF FlowOf, Holding
  <1>5. UNCHANGED <<scen, app, pipe, lease, ent, queue, told, apps>>
    BY DEF Withdraw
  <1>6. scen.serial => DOMAIN feeds' = {}
    BY CallIs DEF Withdraw, withdraw
  <1>7. scen.serial => SerialOf(t, c)'
    BY <1>3, <1>6 DEF SerialOf
  <1>8. C(t).pc \in Stopping /\ c.pc \notin Before \cup {"spawn", "claim", "idle", "wait"}
    BY <1>1, <1>3 DEF Stopping, Before
  <1> QED
    BY <1>1, <1>2, <1>3, <1>4, <1>5, <1>6, <1>7, <1>8, QuietStep, CallIs

LEMMA PublishCheckInv == ASSUME Inv, NEW t \in DOMAIN call, PublishCheck(t) PROVE Inv'
  <1>1. C(t).pc = "publish" /\ ~At(t, "idle") /\ ~At(t, "wait")
    BY DEF PublishCheck, At
  <1>2. C(t).pipe = None /\ C(t).then = "none" /\ ~Holding(C(t)) /\ Op(t).op = "publish"
    BY <1>1, CallIs DEF FlowOf, Holding
  <1>3. UNCHANGED <<scen, feeds, pipe, lease, ent, queue, told, apps>>
    BY DEF PublishCheck, mediaVars
  <1>4. CASE app.running = None
    BY <1>1, <1>2, <1>3, <1>4, Returned DEF PublishCheck
  <1>5. CASE app.running # None
    <2>1. app.running \in Pipes /\ "row" \in Pcs /\ Moves(t, "row", app.running)
      BY <1>5, CallIs DEF AppType, Pcs, PublishCheck, Moves
    <2>2. PICK c : /\ Stepped(t, c) /\ c.k = C(t).k /\ c.pc = "row" /\ c.pipe = app.running
                   /\ c.then = C(t).then
      BY <2>1, MoveStep DEF Inv
    <2>3. FlowOf(t, c) /\ ~Holding(c)
      BY <1>1, <1>2, <1>5, <2>2, CallIs DEF FlowOf, Holding
    <2>4. c.pc \notin Stopping \cup Before \cup {"spawn", "claim", "idle", "wait"}
      BY <2>2 DEF Stopping, Before
    <2>5. app' = app
      BY <1>5 DEF PublishCheck
    <2>6. scen.serial => SerialOf(t, c)'
      BY <2>2, <2>5 DEF SerialOf
    <2> QED
      BY <1>1, <1>2, <1>3, <2>2, <2>3, <2>4, <2>5, <2>6, QuietStep, CallIs
  <1> QED
    BY <1>4, <1>5

LEMMA PublishRowInv == ASSUME Inv, NEW t \in DOMAIN call, PublishRow(t) PROVE Inv'
  <1>1. C(t).pc = "row" /\ ~At(t, "idle") /\ ~At(t, "wait")
    BY DEF PublishRow, At
  <1>2. C(t).pipe # None /\ C(t).then = "none" /\ ~Holding(C(t)) /\ Op(t).op = "publish"
    BY <1>1, CallIs DEF FlowOf, Holding
  <1>3. UNCHANGED <<scen, app, feeds, pipe, lease, ent, queue, told, apps>>
    BY DEF PublishRow
  <1>4. PICK c : /\ Stepped(t, c) /\ c.k = C(t).k /\ c.pc \in {"feed", "end"}
                 /\ c.pipe = C(t).pipe /\ c.then = C(t).then
    <2>1. Goto(t, "feed") \/ Goto(t, "end")
      BY DEF PublishRow
    <2>2. "feed" \in Pcs /\ "end" \in Pcs
      BY DEF Pcs
    <2> QED
      BY <2>1, <2>2, GotoStep DEF Inv
  <1>5. FlowOf(t, c) /\ ~Holding(c)
    BY <1>1, <1>2, <1>4, CallIs DEF FlowOf, Holding
  <1>6. c.pc \notin Stopping \cup Before \cup {"spawn", "claim", "idle", "wait"}
    BY <1>4 DEF Stopping, Before
  <1>7. scen.serial => SerialOf(t, c)'
    BY <1>1, <1>2, <1>3, <1>4, CallIs DEF SerialOf
  <1> QED
    BY <1>1, <1>2, <1>3, <1>4, <1>5, <1>6, <1>7, QuietStep, CallIs

LEMMA PublishFeedInv == ASSUME Inv, NEW t \in DOMAIN call, PublishFeed(t) PROVE Inv'
  <1>1. C(t).pc = "feed" /\ ~At(t, "idle") /\ ~At(t, "wait")
    BY DEF PublishFeed, At
  <1>2. C(t).pipe # None /\ C(t).then = "none" /\ ~Holding(C(t)) /\ Op(t).op = "publish"
    BY <1>1, CallIs DEF FlowOf, Holding
  <1>3. UNCHANGED <<scen, app, pipe, lease, ent, queue, told, apps>>
    BY DEF PublishFeed
  <1>4. PICK c : /\ Stepped(t, c) /\ c.k = C(t).k /\ c.pc = "end" /\ c.pipe = None
                 /\ c.then = C(t).then
    <2>1. Moves(t, "end", None) /\ "end" \in Pcs /\ None \in Pipes
      BY DEF PublishFeed, Moves, Pcs, Pipes
    <2> QED
      BY <2>1, MoveStep DEF Inv
  <1>5. FlowOf(t, c) /\ ~Holding(c)
    BY <1>1, <1>2, <1>4, CallIs DEF FlowOf, Holding
  <1>6. c.pc \notin Stopping \cup Before \cup {"spawn", "claim", "idle", "wait"}
    BY <1>4 DEF Stopping, Before
  <1>7. scen.serial => SerialOf(t, c)' /\ app'.running # None
    BY <1>1, <1>2, <1>3, <1>4, CallIs DEF SerialOf
  <1> QED
    BY <1>1, <1>2, <1>3, <1>4, <1>5, <1>6, <1>7, QuietStep, CallIs

\* A claim was checked against the tables as they still are.
LEMMA DeclareInv == ASSUME Inv, NEW t \in DOMAIN call, Declare(t) PROVE Inv'
  <1>1. C(t).pc = "declare" /\ ~At(t, "idle") /\ ~At(t, "wait")
    BY DEF Declare, At
  <1>2. C(t).pipe = None /\ C(t).then = "none" /\ ~Holding(C(t)) /\ Op(t).op = "declare"
    BY <1>1, CallIs DEF FlowOf, Holding
  <1>3. UNCHANGED <<scen, app, feeds, pipe, lease, ent, queue, told, apps>>
    BY DEF Declare, mediaVars
  <1>4. CASE ~declare_statements(Op(t))
    <2>1. Goto(t, "end")
      BY <1>4 DEF Declare, Goto
    <2>2. PICK c : /\ Stepped(t, c) /\ c.k = C(t).k /\ c.pc = "end" /\ c.pipe = C(t).pipe
                   /\ c.then = C(t).then
      BY <2>1, GotoStep DEF Inv, Pcs
    <2>3. FlowOf(t, c) /\ ~Holding(c)
      BY <1>1, <1>2, <2>2, CallIs DEF FlowOf, Holding
    <2>4. c.pc \notin Stopping \cup Before \cup {"spawn", "claim", "idle", "wait"}
      BY <2>2 DEF Stopping, Before
    <2>5. SerialOf(t, c)'
      BY <1>2, <1>3, <2>2, CallIs DEF SerialOf
    <2> QED
      BY <1>1, <1>2, <1>3, <2>2, <2>3, <2>4, <2>5, QuietStep, CallIs
  <1>5. CASE declare_statements(Op(t))
    <2> DEFINE saw == apps[Op(t).app] \cup {Op(t).table}
    <2>1. Op(t).app \in scen.apps
      BY <1>1, <1>2, CallIs, OpIs
    <2>2. saw \in SUBSET scen.tables
      BY <1>5, <2>1 DEF Inv, TypeInv, declare_statements
    <2>3. PICK c : c = [C(t) EXCEPT !.pc = "claim", !.saw = saw]
      OBVIOUS
    <2>4. /\ c \in CallType /\ c.k = C(t).k /\ c.pc = "claim" /\ c.pipe = C(t).pipe
          /\ c.then = C(t).then /\ c.saw = saw
      BY <2>2, <2>3, CallIs DEF CallType, Pcs
    <2>5. Stepped(t, c)
      <3>1. call' = [call EXCEPT ![t].pc = "claim", ![t].saw = saw]
        BY <1>5 DEF Declare
      <3> QED
        BY <2>3, <2>4, <3>1 DEF Stepped, C, Inv, TypeInv
    <2>6. FlowOf(t, c) /\ ~Holding(c)
      BY <1>1, <1>2, <2>4, CallIs DEF FlowOf, Holding
    <2>7. c.pc \notin Stopping \cup Before \cup {"spawn", "idle", "wait"}
      BY <2>4 DEF Stopping, Before
    <2>8. SerialOf(t, c)'
      BY <1>3, <2>4 DEF SerialOf
    <2>9. Unclaimed'
      BY <1>1, <1>2, <1>3, <2>4, <2>5, <2>6, <2>7, <2>8, QuietParts, CallIs DEF Inv, TypeInv
    <2>10. ClaimInv'
      <3> SUFFICES ASSUME scen.serial PROVE OneOwner' /\ \A u \in DOMAIN call' : ClaimOf(u)'
        BY <1>3 DEF ClaimInv
      <3>1. OneOwner'
        BY <1>3 DEF Inv, ClaimInv, OneOwner
      <3>2. \A u \in DOMAIN call' : u = t \/ C(u)'.pc = "idle"
        BY <1>1, <1>3, <2>5, OthersIdle, ThreadStep DEF Inv
      <3>3. claimed_by(Op(t).table)' = claimed_by(Op(t).table) /\ Op(t)' = Op(t) /\ C(t)'.saw = saw
        BY <1>3, <2>4, <2>5, ThreadStep DEF Inv, claimed_by, Op
      <3>4. claimed_by(Op(t).table) \subseteq {Op(t).app}
        BY <1>5 DEF declare_statements
      <3>5. ClaimOf(t)'
        BY <1>3, <3>3, <3>4 DEF ClaimOf, claimed_by
      <3>6. ASSUME NEW u \in DOMAIN call' PROVE ClaimOf(u)'
        BY <3>2, <3>5 DEF ClaimOf, At
      <3> QED
        BY <3>1, <3>6
    <2> QED
      BY <2>9, <2>10 DEF Inv, Unclaimed
  <1> QED
    BY <1>4, <1>5

LEMMA ClaimStepInv == ASSUME Inv, NEW t \in DOMAIN call, Claim(t) PROVE Inv'
  <1>1. C(t).pc = "claim" /\ ~At(t, "idle") /\ ~At(t, "wait")
    BY DEF Claim, At
  <1>2. C(t).pipe = None /\ C(t).then = "none" /\ ~Holding(C(t)) /\ Op(t).op = "declare"
    BY <1>1, CallIs DEF FlowOf, Holding
  <1>3. UNCHANGED <<scen, app, feeds, pipe, lease, ent, queue, told>>
    BY DEF Claim, mediaVars
  <1>4. PICK c : /\ Stepped(t, c) /\ c.k = C(t).k /\ c.pc = "end" /\ c.pipe = C(t).pipe
                 /\ c.then = C(t).then
    BY GotoStep DEF Inv, Pcs, Claim
  <1>5. FlowOf(t, c) /\ ~Holding(c)
    BY <1>1, <1>2, <1>4, CallIs DEF FlowOf, Holding
  <1>6. c.pc \notin Stopping \cup Before \cup {"spawn", "claim", "idle", "wait"}
    BY <1>4 DEF Stopping, Before
  <1>7. SerialOf(t, c)'
    BY <1>2, <1>3, <1>4, CallIs DEF SerialOf
  <1>8. Op(t).app \in scen.apps
    BY <1>1, <1>2, CallIs, OpIs
  <1>9. apps' = [apps EXCEPT ![Op(t).app] = C(t).saw] /\ apps \in [scen.apps -> SUBSET scen.tables]
        /\ C(t).saw \in SUBSET scen.tables
    BY CallIs DEF Claim, Inv, TypeInv, CallType
  <1>10. Unclaimed'
    BY <1>1, <1>2, <1>3, <1>4, <1>5, <1>6, <1>7, <1>9, QuietParts, CallIs
  <1>11. ClaimInv'
    <2> SUFFICES ASSUME scen.serial PROVE OneOwner' /\ \A u \in DOMAIN call' : ClaimOf(u)'
      BY <1>3 DEF ClaimInv
    <2>1. C(t).saw = apps[Op(t).app] \cup {Op(t).table} /\ claimed_by(Op(t).table) \subseteq {Op(t).app}
      BY <1>1 DEF Inv, ClaimInv, ClaimOf, At
    <2>2. \A b \in scen.apps : b # Op(t).app => Op(t).table \notin apps[b]
      BY <1>9, <2>1 DEF claimed_by
    <2>3. \A a, b \in scen.apps : a # b => apps[a] \cap apps[b] = {}
      BY <1>9 DEF Inv, ClaimInv, OneOwner
    <2>4. \A a, b \in scen.apps : a # b => apps'[a] \cap apps'[b] = {}
      BY <1>8, <1>9, <2>1, <2>2, <2>3
    <2>5. OneOwner'
      BY <1>9, <2>4 DEF OneOwner
    <2>6. \A u \in DOMAIN call' : C(u)'.pc \in {"idle", "end"}
      BY <1>1, <1>3, <1>4, OthersIdle, ThreadStep DEF Inv
    <2> QED
      BY <2>5, <2>6 DEF ClaimOf, At
  <1> QED
    BY <1>10, <1>11 DEF Inv, Unclaimed

\* A step that marks, damps, drops or hands over entrainments.
Tame(x, y) ==
  /\ y.pc = x.pc /\ y.sub = x.sub /\ y.route = x.route /\ y.seq = x.seq
  /\ x.closing => y.closing
  /\ x.own => y.own
  /\ x.handle = "dropped" => y.handle = "dropped"
  /\ y.handle = "local" => x.handle = "local"
LEMMA TameStep ==
  ASSUME Inv, NEW t, NEW c, Stepped(t, c), FlowOf(t, c),
         UNCHANGED <<scen, pipe, lease, queue, told, apps>>,
         app' \in AppType, app'.running = app.running, app'.local = app.local,
         ~Holding(C(t)), ~Holding(c), c.pc \notin {"spawn", "claim"}, ~At(t, "idle"),
         \/ c.k = C(t).k /\ (c.pc \in Before => C(t).pc \in Before)
         \/ c.k = C(t).k + 1,
         scen.serial => /\ SerialOf(t, c)'
                        /\ app'.running = None => DOMAIN feeds' = {}
                        /\ c.pc = "idle" /\ app'.last = "suspend" => Released',
         ent' \in [Ents -> EntType], EntInv', WaitInv', \A e \in Ents : Tame(ent[e], ent'[e]),
         scen.serial /\ ~PlainStop /\ c.pc \in Stopping =>
           \A e \in Ents : ent'[e].handle = "held" => ent'[e].closing
  PROVE  Inv'
  <1>1. TypeInv'
    BY ThreadStep DEF Inv, TypeInv, AppType, EntType, CallbackType, Pipes
  <1>2. FlowInv' /\ PipeInv' /\ LeaseInv'
    BY FlowKept, HeldKept DEF Inv
  <1>3. SerialInv'
    BY SerialKept DEF Inv
  <1>4. FreshInv'
    BY FreshKept DEF Inv, Tame
  <1>5. t \in DOMAIN call /\ (scen.serial => \A u \in DOMAIN call : u # t => C(u).pc = "idle")
    BY OthersIdle DEF Stepped, Inv
  <1>6. SerialEnt'
    BY <1>5, SerialEntKept DEF Inv, Tame
  <1>7. ClosedInv'
    <2>1. scen.serial /\ ~PlainStop => \A e \in Ents : Marked(ent'[e])
      BY DEF Inv, ClosedInv, Marked, Tame
    <2>2. \A e \in Ents : ent[e].own => ent'[e].own
      BY DEF Tame
    <2> QED
      BY <1>5, <2>1, <2>2, ClosedKept DEF Inv
  <1>8. QueueInv' /\ ToldInv'
    BY CallbacksKept DEF Inv, Tame
  <1>9. ClaimInv'
    BY ClaimKept DEF Inv
  <1> QED
    BY <1>1, <1>2, <1>3, <1>4, <1>6, <1>7, <1>8, <1>9 DEF Inv

\* Every entrainment that the app holds is marked before anything is stopped.
LEMMA MarkInv == ASSUME Inv, NEW t \in DOMAIN call, Mark(t) PROVE Inv'
  <1>1. C(t).pc = "mark" /\ ~At(t, "idle") /\ ~At(t, "wait")
    BY DEF Mark, At
  <1>2. C(t).pipe = None /\ C(t).then = "none" /\ ~Holding(C(t))
    BY <1>1, CallIs DEF FlowOf, Holding
  <1>3. UNCHANGED <<scen, app, feeds, pipe, lease, queue, told, apps>>
    BY DEF Mark, mediaVars
  <1>4. PICK c : /\ Stepped(t, c) /\ c.k = C(t).k /\ c.pc = "withdraw" /\ c.pipe = C(t).pipe
                 /\ c.then = C(t).then
    BY GotoStep DEF Inv, Pcs, Mark
  <1>5. FlowOf(t, c) /\ ~Holding(c) /\ SerialOf(t, c)'
    BY <1>1, <1>2, <1>4, CallIs DEF FlowOf, Holding, SerialOf
  <1>6. c.pc \notin Before \cup {"spawn", "claim", "idle", "wait"}
    BY <1>4 DEF Before
  <1>7. ASSUME NEW e \in Ents
        PROVE  /\ ent'[e] \in EntType /\ EntOf(e, ent[e])' /\ Tame(ent[e], ent'[e])
               /\ ent[e].handle = "local" => ent'[e].handle = "local"
               /\ ent'[e].handle = "held" => ent'[e].closing
    <2>1. ent[e] \in EntType /\ EntOf(e, ent[e])
      BY DEF Inv, TypeInv, EntInv
    <2>2. CASE e \in app.remembered /\ ent[e].handle # "dropped"
      <3>1. ent'[e] = [ent[e] EXCEPT !.closing = TRUE]
        BY <2>2 DEF Mark
      <3> QED
        BY <2>1, <3>1, <1>3 DEF EntType, EntOf, Tame
    <2>3. CASE ~(e \in app.remembered /\ ent[e].handle # "dropped")
      <3>1. ent'[e] = ent[e]
        BY <2>3 DEF Mark
      <3> QED
        BY <2>1, <2>3, <3>1, <1>3 DEF EntOf, Tame
    <2> QED
      BY <2>2, <2>3
  <1>8. ent' \in [Ents -> EntType] /\ EntInv'
    <2>1. ent' = [e \in Ents |-> ent'[e]]
      BY DEF Mark
    <2> QED
      BY <1>7, <2>1 DEF EntInv
  <1>9. WaitInv'
    BY <1>1, <1>3, <1>4, <1>7, WaitKept DEF Tame, Inv
  <1> QED
    BY <1>1, <1>2, <1>3, <1>4, <1>5, <1>6, <1>7, <1>8, <1>9, TameStep, CallIs

LEMMA DrainInv == ASSUME Inv, NEW t \in DOMAIN call, Drain(t) PROVE Inv'
  <1>1. C(t).pc = "drain" /\ ~At(t, "idle") /\ ~At(t, "wait")
    BY DEF Drain, At
  <1>2. C(t).pipe = None /\ C(t).then = "none" /\ ~Holding(C(t))
    BY <1>1, CallIs DEF FlowOf, Holding
  <1>3. UNCHANGED <<scen, feeds, pipe, lease, queue, told, apps>>
    BY DEF Drain, mediaVars
  <1>4. PICK c : /\ Stepped(t, c) /\ c.k = C(t).k /\ c.pc = "takeLocal" /\ c.pipe = C(t).pipe
                 /\ c.then = C(t).then
    BY GotoStep DEF Inv, Pcs, Drain
  <1>5. /\ app' \in AppType /\ app'.running = app.running /\ app'.local = app.local
        /\ app'.remembered = {}
    BY CallIs DEF Drain, AppType
  <1>6. FlowOf(t, c) /\ ~Holding(c)
    BY <1>1, <1>2, <1>4, CallIs DEF FlowOf, Holding
  <1>7. scen.serial => SerialOf(t, c)'
    BY <1>1, <1>3, <1>4, <1>5, CallIs DEF SerialOf
  <1>8. c.pc \notin Before \cup Stopping \cup {"spawn", "claim", "idle", "wait"}
    BY <1>4 DEF Before, Stopping
  <1>9. ASSUME NEW e \in Ents
        PROVE  /\ ent'[e] \in EntType /\ EntOf(e, ent[e])' /\ Tame(ent[e], ent'[e])
               /\ ent[e].handle = "local" => ent'[e].handle = "local"
    <2>1. ent[e] \in EntType /\ EntOf(e, ent[e])
      BY DEF Inv, TypeInv, EntInv
    <2>2. CASE e \in app.remembered /\ ent[e].handle # "dropped"
      <3>1. ent'[e] = [Damped(ent[e]) EXCEPT !.closing = TRUE]
        BY <2>2 DEF Drain
      <3>2. CASE ent[e].handle = "held"
        <4>1. PICK x : x = [ent[e] EXCEPT !.handle = "damped"]
          OBVIOUS
        <4>2. x \in EntType /\ x.pc = ent[e].pc /\ x.sub = ent[e].sub /\ x.route = ent[e].route
              /\ x.seq = ent[e].seq /\ x.own = ent[e].own /\ x.acked = ent[e].acked
              /\ x.handle = "damped"
          BY <2>1, <4>1 DEF EntType
        <4>3. ent'[e] = [x EXCEPT !.closing = TRUE]
          BY <3>1, <3>2, <4>1 DEF Damped
        <4> QED
          BY <2>1, <3>2, <4>2, <4>3 DEF EntType, EntOf, Tame
      <3>3. CASE ent[e].handle # "held"
        <4>1. ent'[e] = [ent[e] EXCEPT !.closing = TRUE]
          BY <3>1, <3>3 DEF Damped
        <4> QED
          BY <2>1, <3>3, <4>1 DEF EntType, EntOf, Tame
      <3> QED
        BY <3>2, <3>3
    <2>3. CASE ~(e \in app.remembered /\ ent[e].handle # "dropped")
      <3>1. ent'[e] = ent[e]
        BY <2>3 DEF Drain
      <3> QED
        BY <2>1, <2>3, <3>1 DEF EntOf, Tame
    <2> QED
      BY <2>2, <2>3
  <1>10. ent' \in [Ents -> EntType] /\ EntInv'
    <2>1. ent' = [e \in Ents |-> ent'[e]]
      BY DEF Drain
    <2> QED
      BY <1>9, <2>1 DEF EntInv
  <1>11. WaitInv'
    BY <1>1, <1>3, <1>4, <1>9, WaitKept DEF Tame, Inv
  <1> QED
    BY <1>1, <1>2, <1>3, <1>4, <1>5, <1>6, <1>7, <1>8, <1>9, <1>10, <1>11, TameStep, CallIs

\* What the app ends itself is remembered as its own.
LEMMA OnceInv == ASSUME Inv, NEW t \in DOMAIN call, Once(t) PROVE Inv'
  <1>1. C(t).pc = "once" /\ ~At(t, "idle") /\ ~At(t, "wait")
    BY DEF Once, At
  <1>2. C(t).pipe = None /\ C(t).then = "none" /\ ~Holding(C(t)) /\ Op(t).op # "suspend"
    BY <1>1, CallIs DEF FlowOf, Holding
  <1>3. UNCHANGED <<scen, app, pipe, lease, queue, told, apps>>
    BY DEF Once
  <1>4. PICK c : /\ Stepped(t, c) /\ c.k = C(t).k /\ c.pc = "end" /\ c.pipe = C(t).pipe
                 /\ c.then = C(t).then
    BY GotoStep DEF Inv, Pcs, Once
  <1>5. DOMAIN feeds' \subseteq DOMAIN feeds
    <2> DEFINE o == Op(t)
    <2>1. CASE o.op = "write" /\ Writes(o.h) # {}
      BY <2>1 DEF Once
    <2>2. CASE o.op = "feedClose" /\ Writes(o.h) # {}
      BY <2>2 DEF Once, withdraw
    <2>3. CASE o.op = "feedDrop"
      BY <2>3 DEF Once, withdraw
    <2>4. CASE ~(o.op = "write" /\ Writes(o.h) # {}) /\ ~(o.op = "feedClose" /\ Writes(o.h) # {})
               /\ o.op # "feedDrop"
      BY <2>4 DEF Once
    <2> QED
      BY <2>1, <2>2, <2>3, <2>4
  <1>6. FlowOf(t, c) /\ ~Holding(c) /\ SerialOf(t, c)'
    BY <1>1, <1>2, <1>3, <1>4, CallIs DEF FlowOf, Holding, SerialOf
  <1>7. scen.serial => (app'.running = None => DOMAIN feeds' = {})
    BY <1>3, <1>5, CallIs
  <1>8. c.pc \notin Before \cup Stopping \cup {"spawn", "claim", "idle", "wait"}
    BY <1>4 DEF Before, Stopping
  <1>9. ASSUME NEW e \in Ents
        PROVE  /\ ent'[e] \in EntType /\ EntOf(e, ent[e])' /\ Tame(ent[e], ent'[e])
               /\ ent[e].handle = "local" => ent'[e].handle = "local"
    <2> DEFINE o == Op(t)
    <2>1. ent[e] \in EntType /\ EntOf(e, ent[e]) /\ ent \in [Ents -> EntType]
      BY DEF Inv, TypeInv, EntInv
    <2>2. CASE o.op = "damp" /\ o.e = e
      <3>1. ent'[e] = [Damped(ent[e]) EXCEPT !.own = TRUE]
        BY <2>1, <2>2 DEF Once
      <3>2. CASE ent[e].handle = "held"
        <4>1. PICK x : x = [ent[e] EXCEPT !.handle = "damped"]
          OBVIOUS
        <4>2. x \in EntType /\ x.pc = ent[e].pc /\ x.sub = ent[e].sub /\ x.route = ent[e].route
              /\ x.seq = ent[e].seq /\ x.closing = ent[e].closing /\ x.acked = ent[e].acked
              /\ x.handle = "damped"
          BY <2>1, <4>1 DEF EntType
        <4>3. ent'[e] = [x EXCEPT !.own = TRUE]
          BY <3>1, <3>2, <4>1 DEF Damped
        <4> QED
          BY <1>3, <2>1, <3>2, <4>2, <4>3 DEF EntType, EntOf, Tame
      <3>3. CASE ent[e].handle # "held"
        <4>1. ent'[e] = [ent[e] EXCEPT !.own = TRUE]
          BY <3>1, <3>3 DEF Damped
        <4> QED
          BY <1>3, <2>1, <3>3, <4>1 DEF EntType, EntOf, Tame
      <3> QED
        BY <3>2, <3>3
    <2>3. CASE o.op = "drop" /\ o.e = e
      <3>1. PICK h : h = IF ent[e].handle = "held" THEN "dropped" ELSE ent[e].handle
        OBVIOUS
      <3>2. ent'[e] = [ent[e] EXCEPT !.handle = h, !.own = TRUE]
        BY <2>1, <2>3, <3>1 DEF Once
      <3> QED
        BY <1>3, <2>1, <3>1, <3>2 DEF EntType, EntOf, Tame
    <2>4. CASE o.op \notin {"damp", "drop"} \/ o.e # e
      <3>1. ent'[e] = ent[e]
        BY <2>1, <2>4 DEF Once
      <3> QED
        BY <1>3, <2>1, <3>1 DEF EntOf, Tame
    <2> QED
      BY <2>2, <2>3, <2>4
  <1>10. ent' \in [Ents -> EntType] /\ EntInv'
    <2>1. ent' = [e \in Ents |-> ent'[e]]
      BY DEF Once, Inv, TypeInv
    <2> QED
      BY <1>9, <2>1 DEF EntInv
  <1>11. WaitInv'
    BY <1>1, <1>3, <1>4, <1>9, WaitKept DEF Tame, Inv
  <1> QED
    BY <1>1, <1>2, <1>3, <1>4, <1>6, <1>7, <1>8, <1>9, <1>10, <1>11, TameStep, CallIs

\* The acknowledgment, or its absence, decides what the app gets.
LEMMA WaitReadyInv == ASSUME Inv, NEW t \in DOMAIN call, WaitReady(t) PROVE Inv'
  <1> DEFINE e == Op(t).e
  <1>1. C(t).pc = "wait" /\ ~At(t, "idle")
    BY DEF WaitReady, At
  <1>2. C(t).pipe = None /\ C(t).then = "none" /\ ~Holding(C(t)) /\ Op(t).op = "entrain"
    BY <1>1, CallIs DEF FlowOf, Holding
  <1>3. UNCHANGED <<scen, feeds, pipe, lease, queue, told, apps>>
    BY DEF WaitReady, mediaVars
  <1>4. e \in Ents
    BY <1>1, <1>2, CallIs, EntrainIs DEF Inv
  <1>5. PICK c : /\ Stepped(t, c) /\ c.k = C(t).k + 1 /\ c.pc = "idle" /\ c.pipe = None
                 /\ c.then = "none"
                 /\ app' \in AppType /\ app'.running = app.running /\ app'.local = app.local
                 /\ app.remembered \subseteq app'.remembered /\ app'.last # "suspend"
                 /\ ent[e].acked => e \in app'.remembered
    <2>1. CASE ent[e].acked
      <3>1. PICK c : c = [Idle EXCEPT !.k = @ + C(t).k]
        OBVIOUS
      <3>2. c \in CallType /\ c.k = C(t).k + 1 /\ c.pc = "idle" /\ c.pipe = None /\ c.then = "none"
        BY <3>1, CallIs DEF Idle, CallType, Pcs, Pipes
      <3>3. Stepped(t, c)
        BY <2>1, <3>1, <3>2 DEF WaitReady, C, Stepped
      <3>4. PICK r : r = app.remembered \cup {e}
        OBVIOUS
      <3>5. app' = [app EXCEPT !.remembered = r, !.last = "entrain"]
        BY <2>1, <3>4 DEF WaitReady
      <3>6. /\ app' \in AppType /\ app'.running = app.running /\ app'.local = app.local
            /\ app'.remembered = r /\ app'.last = "entrain"
        <4>1. app \in AppType /\ r \in SUBSET Ents
          BY <1>4, <3>4, CallIs DEF AppType
        <4>2. PICK a : a = [app EXCEPT !.remembered = r]
          OBVIOUS
        <4>3. /\ a \in AppType /\ a.running = app.running /\ a.local = app.local
              /\ a.remembered = r
          BY <4>1, <4>2 DEF AppType
        <4>4. app' = [a EXCEPT !.last = "entrain"]
          BY <3>5, <4>2
        <4>5. "entrain" \in STRING
          BY <1>1, <1>2, CallIs, OpIs
        <4> QED
          BY <4>3, <4>4, <4>5 DEF AppType
      <3> QED
        BY <3>2, <3>3, <3>4, <3>6
    <2>2. CASE ~ent[e].acked
      BY <1>1, <1>2, <2>2, ReturnStep, CallIs DEF WaitReady, Inv
    <2> QED
      BY <2>1, <2>2
  <1>6. FlowOf(t, c) /\ ~Holding(c)
    BY <1>5 DEF FlowOf, Holding
  <1>7. SerialOf(t, c)'
    BY <1>5 DEF SerialOf
  <1>8. c.pc \notin Stopping
    BY <1>5 DEF Stopping
  <1>9. ent[e].handle = "local"
    BY <1>1 DEF Inv, WaitInv, At
  <1>10. ASSUME NEW d \in Ents
        PROVE  /\ ent'[d] \in EntType /\ EntOf(d, ent[d])' /\ Tame(ent[d], ent'[d])
               /\ d = e => ent'[d].handle # "local"
    <2>1. ent[d] \in EntType /\ EntOf(d, ent[d]) /\ ent \in [Ents -> EntType]
      BY DEF Inv, TypeInv, EntInv
    <2>2. CASE d # e
      <3>1. ent'[d] = ent[d]
        BY <1>4, <2>1, <2>2 DEF WaitReady
      <3> QED
        BY <1>5, <2>1, <2>2, <3>1 DEF EntOf, Tame
    <2>3. CASE d = e /\ ent[e].acked
      <3>1. ent'[d] = [ent[d] EXCEPT !.handle = "held"]
        BY <1>4, <2>1, <2>3 DEF WaitReady
      <3> QED
        BY <1>5, <1>9, <2>1, <2>3, <3>1 DEF EntType, EntOf, Tame
    <2>4. CASE d = e /\ ~ent[e].acked
      <3>1. ent'[d] = [ent[d] EXCEPT !.handle = "dropped", !.own = TRUE]
        BY <1>4, <2>1, <2>4 DEF WaitReady
      <3> QED
        BY <1>5, <1>9, <2>1, <2>4, <3>1 DEF EntType, EntOf, Tame
    <2> QED
      BY <2>2, <2>3, <2>4
  <1>11. ent' \in [Ents -> EntType] /\ EntInv'
    <2>1. ent' = [d \in Ents |-> ent'[d]]
      BY DEF WaitReady, Inv, TypeInv
    <2> QED
      BY <1>10, <2>1 DEF EntInv
  <1>12. \A u \in DOMAIN call : At(u, "wait") /\ Op(u).e = e => u = t
    <2> SUFFICES ASSUME NEW u \in DOMAIN call, C(u).pc = "wait", Op(u).e = e PROVE u = t
      BY DEF At
    <2>1. Op(u).op = "entrain" /\ C(u).k \in DOMAIN scen.threads[u]
      BY CallIs DEF FlowOf, At
    <2>2. C(t).k \in DOMAIN scen.threads[t]
      BY <1>1, CallIs
    <2> QED
      BY <1>2, <2>1, <2>2, EntrainIs DEF Op, Inv
  <1>13. WaitInv'
    <2>1. ASSUME NEW d \in Ents, ent'[d].handle = "local"
          PROVE  \E u \in DOMAIN call' : (At(u, "wait") /\ Op(u).e = d)'
      <3>1. d # e /\ ent[d].handle = "local"
        BY <1>10, <2>1 DEF Tame
      <3>2. PICK u \in DOMAIN call : At(u, "wait") /\ Op(u).e = d
        BY <3>1 DEF Inv, WaitInv
      <3>3. u # t
        BY <3>1, <3>2
      <3> QED
        BY <1>3, <1>5, <3>2, <3>3, ThreadStep DEF At, Op, Inv
    <2>2. ASSUME NEW u \in DOMAIN call', At(u, "wait")' PROVE (ent[Op(u).e].handle = "local")'
      <3>1. u # t /\ u \in DOMAIN call /\ C(u)' = C(u) /\ At(u, "wait")
        BY <1>3, <1>5, <2>2, ThreadStep DEF At, Inv
      <3>2. Op(u)' = Op(u) /\ ent[Op(u).e].handle = "local" /\ Op(u).e # e
        BY <1>3, <1>12, <3>1 DEF Inv, WaitInv, Op
      <3>3. Op(u).e \in Ents
        BY <3>1, CallIs, EntrainIs DEF FlowOf, At, Inv
      <3>4. ent'[Op(u).e] = ent[Op(u).e]
        BY <1>4, <3>2, <3>3 DEF WaitReady, Inv, TypeInv
      <3> QED
        BY <3>2, <3>4
    <2> QED
      BY <2>1, <2>2 DEF WaitInv
  <1> QED
    BY <1>1, <1>2, <1>3, <1>5, <1>6, <1>7, <1>8, <1>10, <1>11, <1>13, TameStep, CallIs

\* The entrainment of a call that has not spawned it does not exist.
LEMMA FreshIs ==
  ASSUME Inv, NEW t \in DOMAIN call, C(t).pc \in Before \ {"idle"}, Op(t).op = "entrain"
  PROVE  /\ Op(t).e \in Ents /\ ent[Op(t).e].pc = "none" /\ ent[Op(t).e].handle = "none"
         /\ ~ent[Op(t).e].sub /\ ~ent[Op(t).e].acked
  <1>1. C(t).k \in DOMAIN scen.threads[t]
    BY CallIs DEF At
  <1>2. Op(t).e \in Ents
    BY <1>1, EntrainIs DEF Inv
  <1>3. ToEntrain(t, C(t).k)
    BY DEF ToEntrain, Before, Op
  <1>4. ent[Op(t).e].pc = "none"
    BY <1>1, <1>3 DEF Inv, FreshInv, Op
  <1> QED
    BY <1>2, <1>4 DEF Inv, EntInv, EntOf

LEMMA SpawnInv == ASSUME Inv, NEW t \in DOMAIN call, SpawnTask(t) PROVE Inv'
  <1> DEFINE e == Op(t).e
  <1>1. C(t).pc = "spawn" /\ ~At(t, "idle") /\ ~At(t, "wait")
    BY DEF SpawnTask, At
  <1>2. C(t).pipe = None /\ C(t).then = "none" /\ ~Holding(C(t)) /\ Op(t).op = "entrain"
    BY <1>1, CallIs DEF FlowOf, Holding
  <1>3. UNCHANGED <<scen, app, feeds, pipe, lease, queue, told, apps>>
    BY DEF SpawnTask, mediaVars
  <1>4. e \in Ents /\ ent[e].pc = "none" /\ ent[e].handle = "none" /\ ~ent[e].sub /\ ~ent[e].acked
    BY <1>1, <1>2, FreshIs DEF Before
  <1>5. PICK c : /\ Stepped(t, c) /\ c.k = C(t).k /\ c.pc = "wait" /\ c.pipe = C(t).pipe
                 /\ c.then = C(t).then
    BY GotoStep DEF Inv, Pcs, SpawnTask
  <1>6. FlowOf(t, c) /\ ~Holding(c) /\ SerialOf(t, c)'
    BY <1>1, <1>2, <1>5, CallIs DEF FlowOf, Holding, SerialOf
  <1>7. ent \in [Ents -> EntType] /\ ent[e] \in EntType
    BY <1>4 DEF Inv, TypeInv
  <1>8. PICK x : x = [ent[e] EXCEPT !.pc = "spawned", !.handle = "local"]
    OBVIOUS
  <1>9. /\ x \in EntType /\ x.pc = "spawned" /\ x.handle = "local" /\ x.route = ent[e].route
        /\ x.sub = ent[e].sub /\ x.acked = ent[e].acked /\ x.seq = ent[e].seq
        /\ x.own = ent[e].own
    BY <1>7, <1>8 DEF EntType
  <1>10. ent' = [ent EXCEPT ![e] = x]
    BY <1>7, <1>8 DEF SpawnTask
  <1>11. ent'[e] = x /\ (\A d \in Ents : d # e => ent'[d] = ent[d]) /\ ent' \in [Ents -> EntType]
    BY <1>4, <1>7, <1>9, <1>10
  <1>12. TypeInv'
    BY <1>3, <1>5, <1>11, ThreadStep DEF Inv, TypeInv, AppType, EntType, CallbackType, Pipes
  <1>13. FlowInv' /\ PipeInv' /\ LeaseInv'
    BY <1>2, <1>3, <1>5, <1>6, FlowKept, HeldKept DEF Inv
  <1>14. SerialInv'
    BY <1>1, <1>3, <1>5, <1>6, SerialKept, CallIs DEF Inv
  <1>15. EntInv'
    <2>1. ASSUME NEW d \in Ents PROVE EntOf(d, ent[d])'
      <3>1. CASE d = e
        BY <1>3, <1>4, <1>9, <1>11, <3>1 DEF EntOf
      <3>2. CASE d # e
        BY <1>3, <1>11, <3>2 DEF Inv, EntInv, EntOf
      <3> QED
        BY <3>1, <3>2
    <2> QED
      BY <2>1 DEF EntInv
  <1>16. WaitInv'
    <2>1. scen.threads[t][c.k].e = e
      BY <1>5 DEF Op
    <2>2. \A d \in Ents : /\ ent'[d].handle = "local" => ent[d].handle = "local" \/ d = e
                          /\ ent[d].handle = "local" => ent'[d].handle = "local"
      BY <1>9, <1>11
    <2> QED
      BY <1>1, <1>3, <1>5, <1>9, <1>11, <2>1, <2>2, WaitKept DEF Inv
  <1>17. FreshInv'
    <2> SUFFICES ASSUME NEW u \in DOMAIN call', NEW k \in DOMAIN scen.threads[u], ToEntrain(u, k)'
                 PROVE  ent'[scen.threads[u][k].e].pc = "none"
      BY <1>3 DEF FreshInv
    <2>1. DOMAIN call' = DOMAIN call /\ u \in DOMAIN scen.threads /\ C(t)' = c
          /\ (u # t => C(u)' = C(u))
      BY <1>3, <1>5, ThreadStep DEF Inv, TypeInv
    <2>2. scen.threads[u][k].op = "entrain" /\ scen.threads[u][k].e \in Ents
      BY <1>3, <2>1, ScenariosAssumption DEF Inv, TypeInv, ToEntrain
    <2>3. ~(u = t /\ k = C(t).k)
      <3>1. C(t).k \in Nat
        BY CallIs
      <3> QED
        BY <1>3, <1>5, <2>1, <3>1 DEF ToEntrain
    <2>4. scen.threads[u][k].e # e
      BY <1>1, <1>2, <2>1, <2>2, <2>3, EntrainIs, CallIs DEF Inv
    <2>5. ToEntrain(u, k)
      <3>1. CASE u # t
        BY <1>3, <2>1, <3>1 DEF ToEntrain
      <3>2. CASE u = t
        BY <1>1, <1>3, <1>5, <2>1, <3>2 DEF ToEntrain
      <3> QED
        BY <3>1, <3>2
    <2> QED
      BY <1>11, <2>1, <2>2, <2>4, <2>5 DEF Inv, FreshInv
  <1>18. t \in DOMAIN call /\ (scen.serial => \A u \in DOMAIN call : u # t => C(u).pc = "idle")
    BY <1>1, OthersIdle DEF Inv
  <1>19. SerialEnt'
    <2> SUFFICES ASSUME scen.serial
                 PROVE  /\ \A d \in Ents : ent'[d].sub /\ ent'[d].handle # "dropped" => Opened(ent[d])'
                        /\ \A d \in Ents : ent'[d].handle = "local" => Opened(ent[d])'
                        /\ \A u \in DOMAIN call' : ~At(u, "spawn")'
      BY <1>3 DEF SerialEnt
    <2>1. Opened(ent[e])
      BY <1>1 DEF Inv, SerialEnt, At
    <2>2. \A d \in Ents : Opened(ent[d])' <=> Opened(ent[d])
      BY <1>3, <1>9, <1>11 DEF Opened
    <2>3. \A u \in DOMAIN call' : C(u)'.pc \in {"idle", "wait"}
      BY <1>3, <1>5, <1>18, ThreadStep DEF Inv
    <2>4. ASSUME NEW d \in Ents, ent'[d].sub /\ ent'[d].handle # "dropped" PROVE Opened(ent[d])
      BY <1>11, <2>1, <2>4 DEF Inv, SerialEnt
    <2>5. ASSUME NEW d \in Ents, ent'[d].handle = "local" PROVE Opened(ent[d])
      BY <1>11, <2>1, <2>5 DEF Inv, SerialEnt
    <2> QED
      BY <2>2, <2>3, <2>4, <2>5 DEF At
  <1>20. ClosedInv'
    <2>1. scen.serial /\ ~PlainStop => \A d \in Ents : Marked(ent'[d])
      BY <1>9, <1>11 DEF Inv, ClosedInv, Marked
    <2>2. \A d \in Ents : ent[d].own => ent'[d].own
      BY <1>9, <1>11
    <2>3. c.pc \notin Stopping
      BY <1>5 DEF Stopping
    <2> QED
      BY <1>3, <1>5, <1>18, <2>1, <2>2, <2>3, ClosedKept DEF Inv
  <1>21. QueueInv' /\ ToldInv'
    BY <1>3, <1>4, <1>9, <1>11, CallbacksKept DEF Inv
  <1>22. ClaimInv'
    BY <1>3, <1>5, ClaimKept DEF Inv
  <1> QED
    BY <1>12, <1>13, <1>14, <1>15, <1>16, <1>17, <1>19, <1>20, <1>21, <1>22 DEF Inv

\* A routed call arrives: an entrainment gets its route, which is an open pipeline if it is one of
\* this process and nobody else has a call under way.
ArrivedParts ==
  /\ FlowInv /\ EntInv /\ WaitInv /\ FreshInv /\ SerialEnt /\ ClosedInv /\ QueueInv /\ ToldInv
  /\ ClaimInv
LEMMA Arrived ==
  ASSUME Inv, NEW t \in DOMAIN call, NEW r \in Nat, Arrive(t, r), C(t).pc \in {"route", "keep"},
         UNCHANGED <<scen, queue, told, apps>>, app'.remembered = app.remembered,
         scen.serial =>
           /\ r # 0 => r \in DOMAIN pipe' /\ pipe'[r] = "open"
           /\ \A p \in DOMAIN pipe : pipe[p] = "open" => p \in DOMAIN pipe' /\ pipe'[p] = "open"
  PROVE  /\ ArrivedParts' /\ ent' \in [Ents -> EntType]
         /\ \E c : /\ Stepped(t, c) /\ c.k = C(t).k /\ c.pc \in {"spawn", "end"} /\ c.pipe = None
                   /\ c.then = C(t).then
  <1> DEFINE e == Op(t).e
  <1>1. ~At(t, "idle") /\ ~At(t, "wait") /\ C(t).then = "none" /\ Op(t).op \in {"query", "entrain"}
    BY CallIs DEF At, FlowOf
  <1>2. PICK pc : pc = IF Op(t).op = "entrain" THEN "spawn" ELSE "end"
    OBVIOUS
  <1>3. pc \in Pcs /\ None \in Pipes /\ Moves(t, pc, None)
    BY <1>2 DEF Pcs, Pipes, Moves, Arrive
  <1>4. PICK c : /\ Stepped(t, c) /\ c.k = C(t).k /\ c.pc = pc /\ c.pipe = None
                 /\ c.then = C(t).then
    BY <1>3, MoveStep DEF Inv
  <1>5. FlowOf(t, c)
    BY <1>1, <1>2, <1>4, CallIs DEF FlowOf, At
  <1>6. FlowInv' /\ ClaimInv'
    BY <1>2, <1>4, <1>5, FlowKept, ClaimKept DEF Inv
  <1>7. CASE Op(t).op # "entrain"
    <2>1. ent' = ent /\ c.pc = "end"
      BY <1>2, <1>4, <1>7 DEF Arrive
    <2>2. c.pc \notin Before \cup Stopping \cup {"spawn", "wait"}
      BY <2>1 DEF Before, Stopping
    <2>3. EntInv' /\ WaitInv' /\ SerialEnt' /\ ClosedInv' /\ QueueInv' /\ ToldInv'
      BY <1>1, <1>4, <2>1, <2>2, EntsKept
    <2>4. FreshInv'
      BY <1>4, <2>1, <2>2, FreshKept DEF Inv
    <2> QED
      BY <1>4, <1>6, <2>1, <2>3, <2>4 DEF ArrivedParts, Inv, TypeInv
  <1>8. CASE Op(t).op = "entrain"
    <2>1. e \in Ents /\ ent[e].pc = "none" /\ ent[e].handle = "none" /\ ~ent[e].sub /\ ~ent[e].acked
      BY <1>8, FreshIs DEF Before
    <2>2. ent \in [Ents -> EntType] /\ ent[e] \in EntType
      BY <2>1 DEF Inv, TypeInv
    <2>3. PICK x : x = [ent[e] EXCEPT !.route = r]
      OBVIOUS
    <2>4. /\ x \in EntType /\ x.pc = "none" /\ x.handle = "none" /\ x.route = r /\ ~x.sub
          /\ ~x.acked /\ x.seq = ent[e].seq /\ x.own = ent[e].own
      BY <2>1, <2>2, <2>3 DEF EntType, Pipes
    <2>5. ent' = [ent EXCEPT ![e] = x]
      BY <1>8, <2>2, <2>3 DEF Arrive
    <2>6. ent'[e] = x /\ (\A d \in Ents : d # e => ent'[d] = ent[d]) /\ ent' \in [Ents -> EntType]
      BY <2>1, <2>2, <2>4, <2>5
    <2>7. c.pc = "spawn" /\ c.pc \in Before /\ C(t).pc \in Before /\ c.pc \notin Stopping
      BY <1>2, <1>4, <1>8 DEF Before, Stopping
    <2>8. EntInv'
      <3>1. ASSUME NEW d \in Ents PROVE EntOf(d, ent[d])'
        <4>1. CASE d = e
          BY <2>4, <2>6, <4>1 DEF EntOf
        <4>2. CASE d # e
          BY <2>6, <4>2 DEF Inv, EntInv, EntOf
        <4> QED
          BY <4>1, <4>2
      <3> QED
        BY <3>1 DEF EntInv
    <2>9. WaitInv'
      <3>1. \A d \in Ents : ent'[d].handle = ent[d].handle
        BY <2>1, <2>4, <2>6
      <3> QED
        BY <1>1, <1>4, <2>7, <3>1, WaitKept DEF Inv
    <2>10. FreshInv'
      <3>1. \A d \in Ents : ent[d].pc = "none" => ent'[d].pc = "none"
        BY <2>4, <2>6
      <3> QED
        BY <1>4, <2>7, <3>1, FreshKept DEF Inv
    <2>11. scen.serial => \A u \in DOMAIN call : u # t => C(u).pc = "idle"
      BY <1>1, OthersIdle DEF Inv
    <2>12. SerialEnt'
      <3> SUFFICES ASSUME scen.serial
                   PROVE  /\ \A d \in Ents : ent'[d].sub /\ ent'[d].handle # "dropped"
                                               => Opened(ent[d])'
                          /\ \A d \in Ents : ent'[d].handle = "local" => Opened(ent[d])'
                          /\ \A u \in DOMAIN call' : At(u, "spawn")' => Opened(ent[Op(u).e])'
        BY DEF SerialEnt
      <3>1. \A d \in Ents : d # e /\ Opened(ent[d]) => Opened(ent[d])'
        BY <2>6 DEF Opened
      <3>2. Opened(ent[e])'
        <4>1. ent'[e].route = r /\ Op(t)' = Op(t)
          BY <1>4, <2>4, <2>6, ThreadStep DEF Op, Inv
        <4> QED
          BY <4>1 DEF Opened
      <3>3. \A u \in DOMAIN call' : u = t \/ C(u)'.pc = "idle"
        BY <1>4, <2>11, ThreadStep DEF Inv
      <3>4. ASSUME NEW d \in Ents, ent'[d].sub /\ ent'[d].handle # "dropped" PROVE Opened(ent[d])'
        <4>1. d # e /\ ent'[d] = ent[d]
          BY <2>4, <2>6, <3>4
        <4> QED
          BY <3>1, <3>4, <4>1 DEF Inv, SerialEnt
      <3>5. ASSUME NEW d \in Ents, ent'[d].handle = "local" PROVE Opened(ent[d])'
        <4>1. d # e /\ ent'[d] = ent[d]
          BY <2>4, <2>6, <3>5
        <4> QED
          BY <3>1, <3>5, <4>1 DEF Inv, SerialEnt
      <3>6. ASSUME NEW u \in DOMAIN call', At(u, "spawn")' PROVE Opened(ent[Op(u).e])'
        <4>1. u = t
          BY <3>3, <3>6 DEF At
        <4> QED
          BY <1>4, <3>2, <4>1, ThreadStep DEF Op, Inv
      <3> QED
        BY <3>4, <3>5, <3>6
    <2>13. ClosedInv'
      <3>1. scen.serial /\ ~PlainStop => \A d \in Ents : Marked(ent'[d])
        BY <2>4, <2>6 DEF Inv, ClosedInv, Marked
      <3>2. \A d \in Ents : ent[d].own => ent'[d].own
        BY <2>4, <2>6
      <3> QED
        BY <1>4, <2>7, <2>11, <3>1, <3>2, ClosedKept DEF Inv
    <2>14. QueueInv' /\ ToldInv'
      <3>1. \A d \in Ents : ent'[d].seq = ent[d].seq /\ (ent[d].pc = "over" => ent'[d].pc = "over")
        BY <2>1, <2>4, <2>6
      <3> QED
        BY <3>1, CallbacksKept DEF Inv
    <2> QED
      BY <1>4, <1>6, <2>6, <2>7, <2>8, <2>9, <2>10, <2>12, <2>13, <2>14 DEF ArrivedParts
  <1> QED
    BY <1>7, <1>8

LEMMA RouteInv == ASSUME Inv, NEW t \in DOMAIN call, route(t) PROVE Inv'
  <1>1. C(t).pc = "route" /\ ~At(t, "idle") /\ ~At(t, "wait")
    BY DEF route, At
  <1>2. C(t).pipe = None /\ C(t).then = "none" /\ ~Holding(C(t)) /\ Op(t).op # "suspend"
    BY <1>1, CallIs DEF FlowOf, Holding
  <1>3. UNCHANGED <<scen, app, feeds, pipe, lease, queue, told, apps>>
    BY DEF route, mediaVars
  <1>4. CASE Goto(t, "build") /\ UNCHANGED ent /\ app.local = None
    <2>1. PICK c : /\ Stepped(t, c) /\ c.k = C(t).k /\ c.pc = "build" /\ c.pipe = C(t).pipe
                   /\ c.then = C(t).then
      BY <1>4, GotoStep DEF Inv, Pcs
    <2>2. FlowOf(t, c) /\ ~Holding(c) /\ SerialOf(t, c)'
      BY <1>1, <1>2, <1>3, <1>4, <2>1, CallIs DEF FlowOf, Holding, SerialOf
    <2>3. c.pc \notin Stopping \cup {"spawn", "claim", "idle", "wait"} /\ C(t).pc \in Before
      BY <1>1, <2>1 DEF Stopping, Before
    <2> QED
      BY <1>1, <1>2, <1>3, <1>4, <2>1, <2>2, <2>3, QuietStep, CallIs
  <1>5. ASSUME NEW r \in Nat, Arrive(t, r), r # 0 => r \in DOMAIN pipe /\ pipe[r] = "open"
        PROVE  Inv'
    <2>1. ArrivedParts' /\ ent' \in [Ents -> EntType]
      BY <1>1, <1>3, <1>5, Arrived
    <2>2. PICK c : /\ Stepped(t, c) /\ c.k = C(t).k /\ c.pc \in {"spawn", "end"} /\ c.pipe = None
                   /\ c.then = C(t).then
      BY <1>1, <1>3, <1>5, Arrived
    <2>3. ~Holding(c) /\ SerialOf(t, c)'
      BY <1>2, <1>3, <2>2, CallIs DEF Holding, SerialOf
    <2>4. TypeInv'
      BY <1>3, <2>1, <2>2, ThreadStep DEF Inv, TypeInv, AppType, EntType, CallbackType, Pipes
    <2>5. PipeInv' /\ LeaseInv'
      BY <1>2, <1>3, <2>2, <2>3, HeldKept DEF Inv
    <2>6. SerialInv'
      BY <1>1, <1>3, <2>2, <2>3, SerialKept, CallIs DEF Inv
    <2> QED
      BY <2>1, <2>4, <2>5, <2>6 DEF Inv, ArrivedParts
  <1>6. ASSUME NEW p \in {app.running, app.local}, p # None
        PROVE  p \in Nat /\ p \in DOMAIN pipe /\ pipe[p] = "open"
    BY <1>6, CallIs DEF Inv, PipeInv, AppType, Pipes
  <1>7. CASE app.running # None
    BY <1>5, <1>6, <1>7 DEF route
  <1>8. CASE app.running = None /\ lease # None
    BY <1>5, <1>8 DEF route
  <1>9. CASE app.running = None /\ lease = None /\ app.local # None
    BY <1>5, <1>6, <1>9 DEF route
  <1>10. CASE app.running = None /\ lease = None /\ app.local = None
    BY <1>4, <1>10 DEF route
  <1> QED
    BY <1>7, <1>8, <1>9, <1>10

-----------------------------------------------------------------------------
(* The steps that build, take, keep and close pipelines. *)

\* A pipeline just built is a new one.
LEMMA BuiltIs ==
  ASSUME TypeInv, pipe' = Append(pipe, "open")
  PROVE  /\ pipe' \in Seq({"open", "closed"}) /\ Len(pipe) + 1 \in Nat /\ Len(pipe) + 1 # None
         /\ Len(pipe) + 1 \notin DOMAIN pipe /\ DOMAIN pipe' = DOMAIN pipe \cup {Len(pipe) + 1}
         /\ pipe'[Len(pipe) + 1] = "open" /\ \A p \in DOMAIN pipe : pipe'[p] = pipe[p]
  <1>1. pipe \in Seq({"open", "closed"}) /\ "open" \in {"open", "closed"}
    BY DEF TypeInv
  <1>2. Len(pipe) \in Nat /\ DOMAIN pipe = 1..Len(pipe)
    BY <1>1, LenProperties
  <1>3. Len(pipe) + 1 \in Nat /\ Len(pipe) + 1 # None
    BY <1>2, NamesAssumption
  <1> QED
    BY <1>1, <1>2, <1>3, AppendProperties

\* A pipeline just built is the caller's.
LEMMA BuildKeeps ==
  ASSUME TypeInv, PipeInv, pipe' = Append(pipe, "open"), UNCHANGED <<scen, app>>,
         NEW t, NEW c, Stepped(t, c), ~Holding(C(t)), Holding(c), c.pipe = Len(pipe) + 1
  PROVE  PipeInv'
  <1> DEFINE new == Len(pipe) + 1
  <1>1. /\ new # None /\ new \notin DOMAIN pipe /\ DOMAIN pipe' = DOMAIN pipe \cup {new}
        /\ pipe'[new] = "open" /\ \A p \in DOMAIN pipe : pipe'[p] = pipe[p]
    BY BuiltIs
  <1> HIDE DEF new
  <1>2. DOMAIN call' = DOMAIN call /\ C(t)' = c /\ t \in DOMAIN call
        /\ \A u \in DOMAIN call : u # t => C(u)' = C(u)
    BY ThreadStep DEF Stepped
  <1>3. c.pipe = new
    BY DEF new
  <1>4. ASSUME NEW p \in DOMAIN pipe', pipe'[p] = "open"
        PROVE  p \in {app'.running, app'.local}
               \/ \E u \in DOMAIN call' : Holding(C(u))' /\ C(u)'.pipe = p
    <2>1. CASE p = new
      BY <1>2, <1>3, <2>1 DEF Holding
    <2>2. CASE p # new
      <3>1. p \in {app.running, app.local} \/ \E u \in DOMAIN call : Holding(C(u)) /\ C(u).pipe = p
        BY <1>1, <1>4, <2>2 DEF PipeInv
      <3> QED
        BY <1>2, <3>1 DEF Holding
    <2> QED
      BY <2>1, <2>2
  <1>5. ASSUME NEW u \in DOMAIN call', Holding(C(u))'
        PROVE  /\ C(u)'.pipe \in DOMAIN pipe' /\ pipe'[C(u)'.pipe] = "open"
               /\ C(u)'.pipe \notin {app'.running, app'.local}
               /\ \A v \in DOMAIN call' : Holding(C(v))' /\ C(v)'.pipe = C(u)'.pipe => v = u
    <2>1. \A v \in DOMAIN call : v # t /\ Holding(C(v))' => Holding(C(v)) /\ C(v)'.pipe \in DOMAIN pipe
      BY <1>2 DEF Holding, PipeInv
    <2>2. new \notin {app.running, app.local}
      BY <1>1 DEF PipeInv
    <2>3. CASE u = t
      BY <1>1, <1>2, <1>3, <2>1, <2>2, <2>3
    <2>4. CASE u # t
      BY <1>1, <1>2, <1>3, <1>5, <2>1, <2>4 DEF PipeInv
    <2> QED
      BY <2>3, <2>4
  <1>6. /\ \A p \in {app'.running, app'.local} \ {None} : p \in DOMAIN pipe' /\ pipe'[p] = "open"
        /\ app'.running # None => app'.running # app'.local
    BY <1>1 DEF PipeInv
  <1> QED
    BY <1>4, <1>5, <1>6 DEF PipeInv

LEMMA StartNodeInv == ASSUME Inv, NEW t \in DOMAIN call, StartNode(t) PROVE Inv'
  <1>1. C(t).pc = "serve" /\ ~At(t, "idle") /\ ~At(t, "wait")
    BY DEF StartNode, At
  <1>2. C(t).pipe = None /\ ~Holding(C(t)) /\ Op(t).op \in {"serve", "resume"}
    BY <1>1, CallIs DEF FlowOf, Holding
  <1>3. UNCHANGED <<scen, feeds, ent, queue, told, apps>>
    BY DEF StartNode, mediaVars
  <1>4. CASE app.running # None \/ lease # None
    <2>1. Return(t) /\ UNCHANGED <<lease, pipe>>
      BY <1>4 DEF StartNode
    <2>2. CASE C(t).then = "none"
      BY <1>1, <1>2, <1>3, <2>1, <2>2, Returned
    <2>3. CASE C(t).then = "touch"
      <3>1. PICK c : c = [C(t) EXCEPT !.pc = "touch", !.then = "none"]
        OBVIOUS
      <3>2. c \in CallType /\ c.k = C(t).k /\ c.pc = "touch" /\ c.pipe = None /\ c.then = "none"
        BY <1>2, <3>1, CallIs DEF CallType, Pcs
      <3>3. Stepped(t, c) /\ app' = app
        BY <2>1, <2>3, <3>1, <3>2 DEF Return, C, Stepped
      <3>4. FlowOf(t, c) /\ ~Holding(c) /\ SerialOf(t, c)'
        BY <1>1, <1>2, <3>2, CallIs DEF FlowOf, Holding, SerialOf
      <3>5. c.pc \notin Stopping \cup Before \cup {"spawn", "claim", "idle", "wait"}
        BY <3>2 DEF Stopping, Before
      <3> QED
        BY <1>1, <1>2, <1>3, <2>1, <3>2, <3>3, <3>4, <3>5, QuietStep, CallIs
    <2> QED
      BY <2>2, <2>3, CallIs
  <1>5. CASE app.running = None /\ lease = None
    <2>1. /\ lease' = "me" /\ pipe' = Append(pipe, "open") /\ app' = app
          /\ Moves(t, "serving", Len(pipe) + 1)
      BY <1>5 DEF StartNode, Moves
    <2>2. Len(pipe) + 1 \in Pipes /\ Len(pipe) + 1 # None /\ "serving" \in Pcs
      BY <2>1, BuiltIs DEF Inv, Pipes, Pcs
    <2>3. PICK c : /\ Stepped(t, c) /\ c.k = C(t).k /\ c.pc = "serving" /\ c.pipe = Len(pipe) + 1
                   /\ c.then = C(t).then
      BY <2>1, <2>2, MoveStep DEF Inv
    <2>4. FlowOf(t, c) /\ Holding(c) /\ SerialOf(t, c)'
      BY <1>1, <1>2, <2>2, <2>3, CallIs DEF FlowOf, Holding, SerialOf
    <2>5. TypeInv'
      BY <1>3, <2>1, <2>3, BuiltIs, ThreadStep DEF Inv, TypeInv, AppType, EntType, CallbackType, Pipes
    <2>6. FlowInv' /\ ClaimInv'
      BY <1>3, <2>3, <2>4, FlowKept, ClaimKept DEF Inv
    <2>7. PipeInv'
      BY <1>2, <1>3, <2>1, <2>3, <2>4, BuildKeeps DEF Inv
    <2>8. LeaseInv'
      <3>1. \A u \in DOMAIN call : ~Serving(C(u))
        BY <1>5, NamesAssumption DEF Inv, LeaseInv
      <3>2. \A u \in DOMAIN call' : Serving(C(u))' <=> u = t
        BY <1>3, <2>2, <2>3, <3>1, ThreadStep DEF Serving, Inv
      <3> QED
        BY <1>3, <1>5, <2>1, <2>3, <3>2, ThreadStep DEF LeaseInv, Inv
    <2>9. SerialInv'
      BY <1>1, <1>3, <2>1, <2>3, <2>4, SerialKept, CallIs DEF Inv
    <2>10. c.pc \notin Stopping \cup Before
      BY <2>3 DEF Stopping, Before
    <2>11. FreshInv'
      BY <1>3, <2>3, <2>10, FreshKept DEF Inv
    <2>12. EntInv' /\ WaitInv' /\ SerialEnt' /\ ClosedInv' /\ QueueInv' /\ ToldInv'
      <3>1. \A p \in DOMAIN pipe : pipe[p] = "open" => p \in DOMAIN pipe' /\ pipe'[p] = "open"
        BY <2>1, BuiltIs DEF Inv
      <3> QED
        BY <1>1, <1>3, <2>1, <2>3, <2>10, <3>1, EntsKept
    <2> QED
      BY <2>5, <2>6, <2>7, <2>8, <2>9, <2>11, <2>12 DEF Inv
  <1> QED
    BY <1>4, <1>5

LEMMA BuildInv == ASSUME Inv, NEW t \in DOMAIN call, Build(t) PROVE Inv'
  <1>1. C(t).pc = "build" /\ ~At(t, "idle") /\ ~At(t, "wait")
    BY DEF Build, At
  <1>2. C(t).pipe = None /\ C(t).then = "none" /\ ~Holding(C(t))
    BY <1>1, CallIs DEF FlowOf, Holding
  <1>3. UNCHANGED <<scen, feeds, app, lease, ent, queue, told, apps>>
    BY DEF Build, mediaVars
  <1>4. pipe' = Append(pipe, "open") /\ Moves(t, "keep", Len(pipe) + 1)
    BY DEF Build, Moves
  <1>5. Len(pipe) + 1 \in Pipes /\ Len(pipe) + 1 # None /\ "keep" \in Pcs
    BY <1>4, BuiltIs DEF Inv, Pipes, Pcs
  <1>6. PICK c : /\ Stepped(t, c) /\ c.k = C(t).k /\ c.pc = "keep" /\ c.pipe = Len(pipe) + 1
                 /\ c.then = C(t).then
    BY <1>4, <1>5, MoveStep DEF Inv
  <1>7. FlowOf(t, c) /\ Holding(c)
    BY <1>1, <1>2, <1>5, <1>6, CallIs DEF FlowOf, Holding
  <1>8. scen.serial => SerialOf(t, c)'
    BY <1>1, <1>3, <1>6, CallIs DEF SerialOf
  <1>9. TypeInv'
    BY <1>3, <1>4, <1>6, BuiltIs, ThreadStep DEF Inv, TypeInv, AppType, EntType, CallbackType, Pipes
  <1>10. FlowInv' /\ ClaimInv'
    BY <1>3, <1>6, <1>7, FlowKept, ClaimKept DEF Inv
  <1>11. PipeInv'
    BY <1>2, <1>3, <1>4, <1>6, <1>7, BuildKeeps DEF Inv
  <1>12. LeaseInv'
    <2>1. \A u \in DOMAIN call : Serving(C(u))' <=> Serving(C(u))
      BY <1>1, <1>3, <1>6, ThreadStep DEF Serving, Inv
    <2> QED
      BY <1>3, <1>6, <2>1, ThreadStep DEF LeaseInv, Inv
  <1>13. SerialInv'
    BY <1>1, <1>3, <1>6, <1>8, SerialKept, CallIs DEF Inv
  <1>14. c.pc \notin Stopping /\ c.pc \in Before /\ C(t).pc \in Before
    BY <1>1, <1>6 DEF Stopping, Before
  <1>15. FreshInv'
    BY <1>3, <1>6, <1>14, FreshKept DEF Inv
  <1>16. EntInv' /\ WaitInv' /\ SerialEnt' /\ ClosedInv' /\ QueueInv' /\ ToldInv'
    <2>1. \A p \in DOMAIN pipe : pipe[p] = "open" => p \in DOMAIN pipe' /\ pipe'[p] = "open"
      BY <1>4, BuiltIs DEF Inv
    <2> QED
      BY <1>1, <1>3, <1>6, <1>14, <2>1, EntsKept
  <1> QED
    BY <1>9, <1>10, <1>11, <1>12, <1>13, <1>15, <1>16 DEF Inv

\* A pipeline that passes from the handle to a call that will close it.
LEMMA TakenKeeps ==
  ASSUME TypeInv, PipeInv, UNCHANGED <<scen, pipe>>, NEW t, NEW c, Stepped(t, c), ~Holding(C(t)),
         c.pc \in {"shutdown", "closeLocal"},
         \/ c.pipe = app.running /\ app'.running = None /\ app'.local = app.local
         \/ c.pipe = app.local /\ app'.local = None /\ app'.running = app.running
  PROVE  PipeInv'
  <1>1. DOMAIN call' = DOMAIN call /\ C(t)' = c /\ t \in DOMAIN call
        /\ \A u \in DOMAIN call : u # t => C(u)' = C(u)
    BY ThreadStep DEF Stepped
  <1>2. Holding(c) <=> c.pipe # None
    BY DEF Holding
  <1>3. \A u \in DOMAIN call : u # t => (Holding(C(u))' <=> Holding(C(u)))
    BY <1>1 DEF Holding
  <1>4. Holding(C(t))' <=> c.pipe # None
    BY <1>1, <1>2 DEF Holding
  <1>5. ASSUME NEW p \in DOMAIN pipe', pipe'[p] = "open"
        PROVE  p \in {app'.running, app'.local}
               \/ \E u \in DOMAIN call' : Holding(C(u))' /\ C(u)'.pipe = p
    <2>1. p # None
      BY NamesAssumption, LenProperties DEF TypeInv
    <2>2. CASE \E u \in DOMAIN call : Holding(C(u)) /\ C(u).pipe = p
      BY <1>1, <1>3, <2>2
    <2>3. CASE p \in {app.running, app.local}
      BY <1>1, <1>4, <2>1, <2>3
    <2> QED
      BY <1>5, <2>2, <2>3 DEF PipeInv
  <1>6. ASSUME NEW u \in DOMAIN call', Holding(C(u))'
        PROVE  /\ C(u)'.pipe \in DOMAIN pipe' /\ pipe'[C(u)'.pipe] = "open"
               /\ C(u)'.pipe \notin {app'.running, app'.local}
               /\ \A v \in DOMAIN call' : Holding(C(v))' /\ C(v)'.pipe = C(u)'.pipe => v = u
    <2>1. \A v \in DOMAIN call : v # t /\ Holding(C(v)) =>
            C(v).pipe # None /\ C(v).pipe \notin {app.running, app.local}
      BY DEF PipeInv, Holding
    <2>2. CASE u = t
      BY <1>1, <1>3, <1>4, <1>6, <2>1, <2>2 DEF PipeInv
    <2>3. CASE u # t
      BY <1>1, <1>3, <1>4, <1>6, <2>1, <2>3 DEF PipeInv
    <2> QED
      BY <2>2, <2>3
  <1>7. /\ \A p \in {app'.running, app'.local} \ {None} : p \in DOMAIN pipe' /\ pipe'[p] = "open"
        /\ app'.running # None => app'.running # app'.local
    BY DEF PipeInv
  <1> QED
    BY <1>5, <1>6, <1>7 DEF PipeInv

\* A pipeline that passes from the call that built it to the handle.
LEMMA GivenKeeps ==
  ASSUME TypeInv, PipeInv, UNCHANGED <<scen, pipe>>, NEW t, NEW c, Stepped(t, c), Holding(C(t)),
         ~Holding(c),
         \/ app.running = None /\ app'.running = C(t).pipe /\ app'.local = app.local
         \/ app.local = None /\ app'.local = C(t).pipe /\ app'.running = app.running
  PROVE  PipeInv'
  <1>1. DOMAIN call' = DOMAIN call /\ C(t)' = c /\ t \in DOMAIN call
        /\ \A u \in DOMAIN call : u # t => C(u)' = C(u)
    BY ThreadStep DEF Stepped
  <1>2. \A u \in DOMAIN call : u # t => (Holding(C(u))' <=> Holding(C(u)))
    BY <1>1 DEF Holding
  <1>3. ~Holding(C(t))'
    BY <1>1 DEF Holding
  <1>4. ASSUME NEW p \in DOMAIN pipe', pipe'[p] = "open"
        PROVE  p \in {app'.running, app'.local}
               \/ \E u \in DOMAIN call' : Holding(C(u))' /\ C(u)'.pipe = p
    <2>1. p # None
      BY NamesAssumption, LenProperties DEF TypeInv
    <2>2. CASE \E u \in DOMAIN call : Holding(C(u)) /\ C(u).pipe = p
      <3>1. PICK u \in DOMAIN call : Holding(C(u)) /\ C(u).pipe = p
        BY <2>2
      <3>2. CASE u = t
        BY <3>1, <3>2
      <3>3. CASE u # t
        BY <1>1, <1>2, <3>1, <3>3
      <3> QED
        BY <3>2, <3>3
    <2>3. CASE p \in {app.running, app.local}
      BY <2>1, <2>3
    <2> QED
      BY <1>4, <2>2, <2>3 DEF PipeInv
  <1>5. ASSUME NEW u \in DOMAIN call', Holding(C(u))'
        PROVE  /\ C(u)'.pipe \in DOMAIN pipe' /\ pipe'[C(u)'.pipe] = "open"
               /\ C(u)'.pipe \notin {app'.running, app'.local}
               /\ \A v \in DOMAIN call' : Holding(C(v))' /\ C(v)'.pipe = C(u)'.pipe => v = u
    <2>1. u # t /\ u \in DOMAIN call /\ Holding(C(u)) /\ C(u)' = C(u)
      BY <1>1, <1>2, <1>3, <1>5
    <2>2. C(u).pipe # C(t).pipe
      BY <1>1, <2>1 DEF PipeInv
    <2>3. \A v \in DOMAIN call' : Holding(C(v))' /\ C(v)'.pipe = C(u)'.pipe => v = u
      BY <1>1, <1>2, <1>3, <2>1 DEF PipeInv
    <2> QED
      BY <2>1, <2>2, <2>3 DEF PipeInv
  <1>6. /\ \A p \in {app'.running, app'.local} \ {None} : p \in DOMAIN pipe' /\ pipe'[p] = "open"
        /\ app'.running # None => app'.running # app'.local
    <2>1. C(t).pipe \in DOMAIN pipe /\ pipe[C(t).pipe] = "open"
          /\ C(t).pipe \notin {app.running, app.local}
      BY <1>1 DEF PipeInv
    <2> QED
      BY <2>1 DEF PipeInv
  <1> QED
    BY <1>4, <1>5, <1>6 DEF PipeInv

\* A pipeline that its caller closes.
LEMMA ShutKeeps ==
  ASSUME TypeInv, PipeInv, scen' = scen, NEW t, NEW c, Stepped(t, c), Holding(C(t)),
         ~Holding(c), pipe' = Closed(C(t).pipe), app'.running = app.running,
         app'.local = app.local
  PROVE  /\ PipeInv' /\ pipe' \in Seq({"open", "closed"}) /\ DOMAIN pipe' = DOMAIN pipe
         /\ C(t).pipe \notin {app.running, app.local, None}
         /\ \A p \in DOMAIN pipe : pipe'[p] = IF p = C(t).pipe THEN "closed" ELSE pipe[p]
  <1>1. DOMAIN call' = DOMAIN call /\ C(t)' = c /\ t \in DOMAIN call
        /\ \A u \in DOMAIN call : u # t => C(u)' = C(u)
    BY ThreadStep DEF Stepped
  <1>2. \A u \in DOMAIN call : u # t => (Holding(C(u))' <=> Holding(C(u)))
    BY <1>1 DEF Holding
  <1>3. ~Holding(C(t))'
    BY <1>1 DEF Holding
  <1>4. /\ pipe' \in Seq({"open", "closed"}) /\ DOMAIN pipe' = DOMAIN pipe
        /\ \A p \in DOMAIN pipe : pipe'[p] = IF p = C(t).pipe THEN "closed" ELSE pipe[p]
    <2>1. pipe \in Seq({"open", "closed"}) /\ "closed" \in {"open", "closed"}
      BY DEF TypeInv
    <2>2. C(t).pipe \in 1..Len(pipe) /\ DOMAIN pipe = 1..Len(pipe)
      BY <1>1, <2>1, LenProperties DEF PipeInv
    <2> QED
      BY <2>1, <2>2, ExceptSeq, LenProperties DEF Closed
  <1>5. C(t).pipe \notin {app.running, app.local, None}
    BY <1>1 DEF PipeInv, Holding
  <1>6. ASSUME NEW p \in DOMAIN pipe', pipe'[p] = "open"
        PROVE  p \in {app'.running, app'.local}
               \/ \E u \in DOMAIN call' : Holding(C(u))' /\ C(u)'.pipe = p
    <2>1. p \in DOMAIN pipe /\ p # C(t).pipe /\ pipe[p] = "open"
      BY <1>4, <1>6
    <2>2. p \in {app.running, app.local} \/ \E u \in DOMAIN call : Holding(C(u)) /\ C(u).pipe = p
      BY <2>1 DEF PipeInv
    <2> QED
      BY <1>1, <1>2, <2>1, <2>2
  <1>7. ASSUME NEW u \in DOMAIN call', Holding(C(u))'
        PROVE  /\ C(u)'.pipe \in DOMAIN pipe' /\ pipe'[C(u)'.pipe] = "open"
               /\ C(u)'.pipe \notin {app'.running, app'.local}
               /\ \A v \in DOMAIN call' : Holding(C(v))' /\ C(v)'.pipe = C(u)'.pipe => v = u
    <2>1. u # t /\ u \in DOMAIN call /\ Holding(C(u)) /\ C(u)' = C(u)
      BY <1>1, <1>2, <1>3, <1>7
    <2>2. C(u).pipe # C(t).pipe
      BY <1>1, <2>1 DEF PipeInv
    <2>3. \A v \in DOMAIN call' : Holding(C(v))' /\ C(v)'.pipe = C(u)'.pipe => v = u
      BY <1>1, <1>2, <1>3, <2>1 DEF PipeInv
    <2> QED
      BY <1>4, <2>1, <2>2, <2>3 DEF PipeInv
  <1>8. /\ \A p \in {app'.running, app'.local} \ {None} : p \in DOMAIN pipe' /\ pipe'[p] = "open"
        /\ app'.running # None => app'.running # app'.local
    BY <1>4, <1>5 DEF PipeInv
  <1>9. PipeInv'
    BY <1>6, <1>7, <1>8 DEF PipeInv
  <1> QED
    BY <1>4, <1>5, <1>9

LEMMA SetRunningInv == ASSUME Inv, NEW t \in DOMAIN call, SetRunning(t) PROVE Inv'
  <1>1. C(t).pc = "serving" /\ ~At(t, "idle") /\ ~At(t, "wait")
    BY DEF SetRunning, At
  <1>2. C(t).pipe # None /\ Op(t).op \in {"serve", "resume"} /\ Holding(C(t)) /\ Serving(C(t))
    BY <1>1, CallIs DEF FlowOf, Holding, Serving
  <1>3. UNCHANGED <<scen, feeds, pipe, lease, ent, queue, told, apps>>
    BY DEF SetRunning, mediaVars
  <1>4. PICK c : /\ Stepped(t, c) /\ c.pipe = None /\ c.then = "none"
                 /\ \/ c.k = C(t).k + 1 /\ c.pc = "idle"
                    \/ c.k = C(t).k /\ c.pc = "touch"
    <2>1. CASE C(t).then = "none"
      <3>1. PICK c : c = [Idle EXCEPT !.k = @ + C(t).k]
        OBVIOUS
      <3>2. c \in CallType /\ c.k = C(t).k + 1 /\ c.pc = "idle" /\ c.pipe = None /\ c.then = "none"
        BY <3>1, CallIs DEF Idle, CallType, Pcs, Pipes
      <3>3. Stepped(t, c)
        BY <2>1, <3>1, <3>2 DEF SetRunning, C, Stepped
      <3> QED
        BY <3>2, <3>3
    <2>2. CASE C(t).then = "touch"
      <3>1. PICK c : c = [C(t) EXCEPT !.pc = "touch", !.then = "none", !.pipe = None]
        OBVIOUS
      <3>2. c \in CallType /\ c.k = C(t).k /\ c.pc = "touch" /\ c.pipe = None /\ c.then = "none"
        BY <3>1, CallIs DEF CallType, Pcs, Pipes
      <3>3. Stepped(t, c)
        BY <2>2, <3>1, <3>2 DEF SetRunning, C, Stepped
      <3> QED
        BY <3>2, <3>3
    <2> QED
      BY <2>1, <2>2, CallIs
  <1>5. PICK l : l = IF C(t).then = "none" THEN Op(t).op ELSE app.last
    OBVIOUS
  <1>6. /\ app' \in AppType /\ app'.running = C(t).pipe /\ app'.local = app.local
        /\ app'.remembered = app.remembered
    <2>1. app' = [app EXCEPT !.running = C(t).pipe, !.last = l]
      BY <1>5 DEF SetRunning
    <2>2. app \in AppType /\ C(t).pipe \in Pipes
      BY CallIs DEF CallType
    <2>3. l \in STRING \cup {"none"}
      <3>1. Op(t).op \in STRING
        BY <1>1, CallIs, ScenariosAssumption DEF Inv, TypeInv
      <3> QED
        BY <1>5, <2>2, <3>1 DEF AppType
    <2>4. PICK a : a = [app EXCEPT !.running = C(t).pipe]
      OBVIOUS
    <2>5. a \in AppType /\ a.running = C(t).pipe /\ a.local = app.local
          /\ a.remembered = app.remembered
      BY <2>2, <2>4 DEF AppType
    <2>6. app' = [a EXCEPT !.last = l]
      BY <2>1, <2>4
    <2> QED
      BY <2>3, <2>5, <2>6 DEF AppType
  <1>7. c.pc = "idle" => app'.last \in {"serve", "resume"}
    <2>1. CASE C(t).then = "none"
      BY <1>2, <2>1, CallIs DEF SetRunning, AppType
    <2>2. CASE C(t).then = "touch"
      <3>1. C(t)'.pc = "touch"
        BY <2>2, CallIs DEF SetRunning, C, Inv, TypeInv, CallType
      <3> QED
        BY <1>3, <1>4, <3>1, ThreadStep DEF Inv
    <2> QED
      BY <2>1, <2>2, CallIs
  <1>8. FlowOf(t, c) /\ ~Holding(c) /\ SerialOf(t, c)'
    BY <1>1, <1>2, <1>3, <1>4, CallIs DEF FlowOf, Holding, SerialOf
  <1>9. app.running = None /\ lease = "me" /\ \A u \in DOMAIN call : Serving(C(u)) => u = t
    BY <1>2 DEF Inv, LeaseInv
  <1>10. TypeInv'
    BY <1>3, <1>4, <1>6, ThreadStep DEF Inv, TypeInv, AppType, EntType, CallbackType, Pipes
  <1>11. FlowInv' /\ ClaimInv'
    BY <1>3, <1>4, <1>8, FlowKept, ClaimKept DEF Inv
  <1>12. PipeInv'
    BY <1>2, <1>3, <1>4, <1>6, <1>8, <1>9, GivenKeeps DEF Inv
  <1>13. LeaseInv'
    <2>1. \A u \in DOMAIN call' : ~Serving(C(u))'
      BY <1>3, <1>4, <1>9, ThreadStep DEF Serving, Inv
    <2> QED
      BY <1>2, <1>3, <1>6, <1>9, <2>1 DEF LeaseInv
  <1>14. SerialInv'
    BY <1>1, <1>2, <1>3, <1>4, <1>6, <1>7, <1>8, SerialKept DEF Inv
  <1>15. c.pc \notin Stopping \cup {"spawn", "wait"} /\ (c.pc \in Before => c.k = C(t).k + 1)
    BY <1>4 DEF Stopping, Before
  <1>16. FreshInv'
    BY <1>3, <1>4, <1>15, FreshKept DEF Inv
  <1>17. EntInv' /\ WaitInv' /\ SerialEnt' /\ ClosedInv' /\ QueueInv' /\ ToldInv'
    BY <1>1, <1>3, <1>4, <1>6, <1>15, EntsKept
  <1> QED
    BY <1>10, <1>11, <1>12, <1>13, <1>14, <1>16, <1>17 DEF Inv

LEMMA TakeRunningInv == ASSUME Inv, NEW t \in DOMAIN call, TakeRunning(t) PROVE Inv'
  <1>1. C(t).pc = "take" /\ ~At(t, "idle") /\ ~At(t, "wait")
    BY DEF TakeRunning, At
  <1>2. C(t).pipe = None /\ C(t).then = "none" /\ ~Holding(C(t)) /\ ~Serving(C(t))
    BY <1>1, CallIs DEF FlowOf, Holding, Serving
  <1>3. UNCHANGED <<scen, feeds, pipe, lease, ent, queue, told, apps>>
    BY DEF TakeRunning, mediaVars
  <1>4. app.running \in Pipes /\ "shutdown" \in Pcs /\ Moves(t, "shutdown", app.running)
    BY CallIs DEF AppType, Pcs, TakeRunning, Moves
  <1>5. PICK c : /\ Stepped(t, c) /\ c.k = C(t).k /\ c.pc = "shutdown" /\ c.pipe = app.running
                 /\ c.then = C(t).then
    BY <1>4, MoveStep DEF Inv
  <1>6. /\ app' \in AppType /\ app'.running = None /\ app'.local = app.local
        /\ app'.remembered = app.remembered
    BY CallIs DEF TakeRunning, AppType, Pipes
  <1>7. FlowOf(t, c) /\ SerialOf(t, c)'
    BY <1>1, <1>2, <1>5, <1>6, CallIs DEF FlowOf, SerialOf
  <1>8. scen.serial => DOMAIN feeds' = {}
    BY <1>1, <1>3, CallIs DEF SerialOf
  <1>9. TypeInv'
    BY <1>3, <1>5, <1>6, ThreadStep DEF Inv, TypeInv, AppType, EntType, CallbackType, Pipes
  <1>10. FlowInv' /\ ClaimInv'
    BY <1>3, <1>5, <1>7, FlowKept, ClaimKept DEF Inv
  <1>11. PipeInv'
    BY <1>2, <1>3, <1>5, <1>6, TakenKeeps DEF Inv
  <1>12. LeaseInv'
    <2>1. \A u \in DOMAIN call : u # t => (Serving(C(u))' <=> Serving(C(u)))
      BY <1>3, <1>5, ThreadStep DEF Serving, Inv
    <2>2. Serving(C(t))' <=> app.running # None
      BY <1>3, <1>5, ThreadStep DEF Serving, Inv
    <2>3. DOMAIN call' = DOMAIN call
      BY <1>3, <1>5, ThreadStep DEF Inv
    <2> QED
      BY <1>2, <1>3, <1>6, <2>1, <2>2, <2>3 DEF Inv, LeaseInv
  <1>13. SerialInv'
    BY <1>1, <1>3, <1>5, <1>7, <1>8, SerialKept DEF Inv
  <1>14. c.pc \notin Before \cup {"spawn", "wait"} /\ C(t).pc \in Stopping
    BY <1>1, <1>5 DEF Stopping, Before
  <1>15. FreshInv'
    BY <1>3, <1>5, <1>14, FreshKept DEF Inv
  <1>16. EntInv' /\ WaitInv' /\ SerialEnt' /\ ClosedInv' /\ QueueInv' /\ ToldInv'
    BY <1>1, <1>3, <1>5, <1>6, <1>14, EntsKept
  <1> QED
    BY <1>9, <1>10, <1>11, <1>12, <1>13, <1>15, <1>16 DEF Inv

LEMMA TakeLocalInv == ASSUME Inv, NEW t \in DOMAIN call, TakeLocal(t) PROVE Inv'
  <1>1. C(t).pc = "takeLocal" /\ ~At(t, "idle") /\ ~At(t, "wait")
    BY DEF TakeLocal, At
  <1>2. C(t).pipe = None /\ C(t).then = "none" /\ ~Holding(C(t)) /\ ~Serving(C(t))
    BY <1>1, CallIs DEF FlowOf, Holding, Serving
  <1>3. UNCHANGED <<scen, feeds, pipe, lease, ent, queue, told, apps>>
    BY DEF TakeLocal, mediaVars
  <1>4. app.local \in Pipes /\ "closeLocal" \in Pcs /\ Moves(t, "closeLocal", app.local)
    BY CallIs DEF AppType, Pcs, TakeLocal, Moves
  <1>5. PICK c : /\ Stepped(t, c) /\ c.k = C(t).k /\ c.pc = "closeLocal" /\ c.pipe = app.local
                 /\ c.then = C(t).then
    BY <1>4, MoveStep DEF Inv
  <1>6. /\ app' \in AppType /\ app'.local = None /\ app'.running = app.running
        /\ app'.remembered = app.remembered
    BY CallIs DEF TakeLocal, AppType, Pipes
  <1>7. FlowOf(t, c)
    BY <1>1, <1>2, <1>5, CallIs DEF FlowOf
  <1>8. scen.serial => SerialOf(t, c)' /\ (app'.running = None => DOMAIN feeds' = {})
    BY <1>1, <1>3, <1>5, <1>6, CallIs DEF SerialOf
  <1>9. TypeInv'
    BY <1>3, <1>5, <1>6, ThreadStep DEF Inv, TypeInv, AppType, EntType, CallbackType, Pipes
  <1>10. FlowInv' /\ ClaimInv'
    BY <1>3, <1>5, <1>7, FlowKept, ClaimKept DEF Inv
  <1>11. PipeInv'
    BY <1>2, <1>3, <1>5, <1>6, TakenKeeps DEF Inv
  <1>12. LeaseInv'
    <2>1. DOMAIN call' = DOMAIN call /\ \A u \in DOMAIN call : Serving(C(u))' <=> Serving(C(u))
      BY <1>1, <1>3, <1>5, ThreadStep DEF Serving, Inv
    <2> QED
      BY <1>3, <1>6, <2>1 DEF Inv, LeaseInv
  <1>13. SerialInv'
    BY <1>1, <1>3, <1>5, <1>8, SerialKept DEF Inv
  <1>14. c.pc \notin Before \cup Stopping \cup {"spawn", "wait"}
    BY <1>5 DEF Stopping, Before
  <1>15. FreshInv'
    BY <1>3, <1>5, <1>14, FreshKept DEF Inv
  <1>16. EntInv' /\ WaitInv' /\ SerialEnt' /\ ClosedInv' /\ QueueInv' /\ ToldInv'
    BY <1>1, <1>3, <1>5, <1>6, <1>14, EntsKept
  <1> QED
    BY <1>9, <1>10, <1>11, <1>12, <1>13, <1>15, <1>16 DEF Inv

\* Two threads that build an in-process pipeline at once keep one; the other is closed.
LEMMA KeepInv == ASSUME Inv, NEW t \in DOMAIN call, Keep(t) PROVE Inv'
  <1>1. C(t).pc = "keep" /\ ~At(t, "idle") /\ ~At(t, "wait")
    BY DEF Keep, At
  <1>2. C(t).pipe # None /\ C(t).then = "none" /\ Holding(C(t)) /\ ~Serving(C(t))
        /\ Op(t).op # "suspend"
    BY <1>1, CallIs DEF FlowOf, Holding, Serving
  <1>3. UNCHANGED <<scen, feeds, lease, queue, told, apps>>
    BY DEF Keep, mediaVars
  <1>4. C(t).pipe \in Nat /\ C(t).pipe \in DOMAIN pipe /\ pipe[C(t).pipe] = "open"
    BY <1>2, CallIs DEF CallType, Pipes, Inv, PipeInv
  <1>5. PICK r \in Nat : /\ Arrive(t, r) /\ app' \in AppType /\ app'.running = app.running
                         /\ app'.remembered = app.remembered
                         /\ \/ /\ app.local = None /\ app'.local = C(t).pipe /\ pipe' = pipe
                               /\ r = C(t).pipe
                            \/ app.local # None /\ app' = app /\ pipe' = Closed(C(t).pipe)
    <2>1. CASE app.local = None
      <3>1. app' = [app EXCEPT !.local = C(t).pipe] /\ pipe' = pipe /\ Arrive(t, C(t).pipe)
        BY <2>1 DEF Keep
      <3>2. app' \in AppType /\ app'.running = app.running /\ app'.remembered = app.remembered
            /\ app'.local = C(t).pipe
        BY <1>4, <3>1, CallIs DEF AppType, Pipes
      <3> QED
        BY <1>4, <2>1, <3>1, <3>2
    <2>2. CASE app.local # None
      <3>1. app.local \in Nat
        BY <2>2, CallIs DEF AppType, Pipes
      <3> QED
        BY <2>2, <3>1, CallIs DEF Keep
    <2> QED
      BY <2>1, <2>2
  <1>6. scen.serial => app.local = None
    BY <1>1, CallIs DEF SerialOf
  <1>7. ArrivedParts' /\ ent' \in [Ents -> EntType]
    BY <1>1, <1>3, <1>4, <1>5, <1>6, Arrived
  <1>8. PICK c : /\ Stepped(t, c) /\ c.k = C(t).k /\ c.pc \in {"spawn", "end"} /\ c.pipe = None
                 /\ c.then = C(t).then
    BY <1>1, <1>3, <1>4, <1>5, <1>6, Arrived
  <1>9. ~Holding(c) /\ SerialOf(t, c)'
    BY <1>2, <1>3, <1>8, CallIs DEF Holding, SerialOf
  <1>10. PipeInv' /\ pipe' \in Seq({"open", "closed"})
    <2>1. CASE app.local = None
      BY <1>2, <1>3, <1>5, <1>8, <1>9, <2>1, GivenKeeps DEF Inv, TypeInv
    <2>2. CASE app.local # None
      BY <1>2, <1>3, <1>5, <1>8, <1>9, <2>2, ShutKeeps DEF Inv
    <2> QED
      BY <2>1, <2>2
  <1>11. TypeInv'
    BY <1>3, <1>5, <1>7, <1>8, <1>10, ThreadStep
       DEF Inv, TypeInv, AppType, EntType, CallbackType, Pipes
  <1>12. LeaseInv'
    <2>1. DOMAIN call' = DOMAIN call /\ \A u \in DOMAIN call : Serving(C(u))' <=> Serving(C(u))
      BY <1>1, <1>3, <1>8, ThreadStep DEF Serving, Inv
    <2> QED
      BY <1>3, <1>5, <2>1 DEF Inv, LeaseInv
  <1>13. SerialInv'
    BY <1>1, <1>3, <1>5, <1>8, <1>9, SerialKept, CallIs DEF Inv
  <1> QED
    BY <1>7, <1>10, <1>11, <1>12, <1>13 DEF Inv, ArrivedParts

\* What ends on a route, and what stays as it is.
LEMMA Unsubscribes ==
  ASSUME Inv, NEW R, ent' = Unsubscribed(R), app'.remembered = app.remembered
  PROVE  /\ ent' \in [Ents -> EntType] /\ EntInv'
         /\ \A e \in Ents :
              /\ ent'[e].handle = ent[e].handle /\ ent'[e].own = ent[e].own
              /\ ent'[e].closing = ent[e].closing /\ ent'[e].route = ent[e].route
              /\ ent'[e].seq = ent[e].seq /\ ent'[e].acked = ent[e].acked
              /\ ent'[e].sub => ent[e].sub /\ ent[e].route \notin R
              /\ ~ent'[e].sub => ~ent[e].sub \/ ent[e].route \in R
              /\ ent'[e].pc = ent[e].pc \/ (ent[e].pc = "gated" /\ ent'[e].pc = "over")
  <1>1. ASSUME NEW e \in Ents
        PROVE  /\ ent'[e] \in EntType /\ EntOf(e, ent[e])'
               /\ ent'[e].handle = ent[e].handle /\ ent'[e].own = ent[e].own
               /\ ent'[e].closing = ent[e].closing /\ ent'[e].route = ent[e].route
               /\ ent'[e].seq = ent[e].seq /\ ent'[e].acked = ent[e].acked
               /\ ent'[e].sub => ent[e].sub /\ ent[e].route \notin R
               /\ ~ent'[e].sub => ~ent[e].sub \/ ent[e].route \in R
               /\ ent'[e].pc = ent[e].pc \/ (ent[e].pc = "gated" /\ ent'[e].pc = "over")
    <2>1. ent[e] \in EntType /\ EntOf(e, ent[e])
      BY DEF Inv, TypeInv, EntInv
    <2>2. CASE ent[e].route \notin R
      <3>1. ent'[e] = ent[e]
        BY <2>2 DEF Unsubscribed
      <3> QED
        BY <2>1, <2>2, <3>1 DEF EntOf
    <2>3. CASE ent[e].route \in R
      <3>1. PICK pc : pc = IF ent[e].pc = "gated" /\ ent[e].route = 0 THEN "over" ELSE ent[e].pc
        OBVIOUS
      <3>2. ent'[e] = [ent[e] EXCEPT !.sub = FALSE, !.pc = pc]
        BY <2>3, <3>1 DEF Unsubscribed
      <3>3. PICK x : x = [ent[e] EXCEPT !.sub = FALSE]
        OBVIOUS
      <3>4. /\ x \in EntType /\ x.sub = FALSE /\ x.handle = ent[e].handle /\ x.own = ent[e].own
            /\ x.closing = ent[e].closing /\ x.route = ent[e].route /\ x.seq = ent[e].seq
            /\ x.acked = ent[e].acked
        BY <2>1, <3>3 DEF EntType
      <3>5. ent'[e] = [x EXCEPT !.pc = pc]
        BY <3>2, <3>3
      <3>6. /\ ent'[e] \in EntType /\ ent'[e].sub = FALSE /\ ent'[e].handle = ent[e].handle
            /\ ent'[e].own = ent[e].own /\ ent'[e].closing = ent[e].closing
            /\ ent'[e].route = ent[e].route /\ ent'[e].seq = ent[e].seq
            /\ ent'[e].acked = ent[e].acked /\ ent'[e].pc = pc
        <4>1. pc \in {"none", "spawned", "gated", "live", "over"}
          BY <2>1, <3>1 DEF EntType
        <4> QED
          BY <3>4, <3>5, <4>1 DEF EntType
      <3>7. EntOf(e, ent[e])'
        BY <2>1, <3>1, <3>6 DEF EntOf
      <3> QED
        BY <2>3, <3>1, <3>6, <3>7
    <2> QED
      BY <2>2, <2>3
  <1>2. ent' = [e \in Ents |-> ent'[e]]
    BY DEF Unsubscribed
  <1> QED
    BY <1>1, <1>2 DEF EntInv

\* A call closes the pipeline it took: what ran on it ends, and was marked before.
LEMMA CutStep ==
  ASSUME Inv, NEW t, NEW c, Stepped(t, c), FlowOf(t, c), Holding(C(t)), ~Holding(c),
         UNCHANGED <<scen, app, feeds, queue, told, apps>>,
         NEW R, ent' = Unsubscribed(R), C(t).pipe \in R, pipe' = Closed(C(t).pipe),
         lease' \in {None, "me", "other"}, LeaseInv',
         c.k = C(t).k, c.pc \in {"drain", "end"},
         scen.serial => SerialOf(t, c)',
         scen.serial /\ ~PlainStop => \A e \in Ents : ent[e].handle = "held" => ent[e].closing
  PROVE  Inv'
  <1>1. t \in DOMAIN call /\ ~At(t, "idle") /\ ~At(t, "wait")
    BY DEF Stepped, Holding, At
  <1>2. /\ ent' \in [Ents -> EntType] /\ EntInv'
        /\ \A e \in Ents :
             /\ ent'[e].handle = ent[e].handle /\ ent'[e].own = ent[e].own
             /\ ent'[e].closing = ent[e].closing /\ ent'[e].route = ent[e].route
             /\ ent'[e].seq = ent[e].seq
             /\ ent'[e].sub => ent[e].sub /\ ent[e].route \notin R
             /\ ~ent'[e].sub => ~ent[e].sub \/ ent[e].route \in R
             /\ ent'[e].pc = ent[e].pc \/ (ent[e].pc = "gated" /\ ent'[e].pc = "over")
    BY Unsubscribes
  <1>3. /\ PipeInv' /\ pipe' \in Seq({"open", "closed"}) /\ DOMAIN pipe' = DOMAIN pipe
        /\ \A p \in DOMAIN pipe : pipe'[p] = IF p = C(t).pipe THEN "closed" ELSE pipe[p]
    BY ShutKeeps DEF Inv
  <1>4. TypeInv'
    BY <1>2, <1>3, ThreadStep DEF Inv, TypeInv, AppType, EntType, CallbackType, Pipes
  <1>5. FlowInv' /\ ClaimInv'
    BY FlowKept, ClaimKept DEF Inv
  <1>6. SerialInv'
    BY <1>1, CallIs, SerialKept DEF Inv
  <1>7. WaitInv'
    BY <1>1, <1>2, WaitKept DEF Inv
  <1>8. FreshInv'
    <2>1. c.pc \notin Before
      BY DEF Before
    <2>2. \A e \in Ents : ent[e].pc = "none" => ent'[e].pc = "none"
      BY <1>2
    <2> QED
      BY <2>1, <2>2, FreshKept DEF Inv
  <1>9. scen.serial => \A u \in DOMAIN call : u # t => C(u).pc = "idle"
    BY <1>1, OthersIdle DEF Inv
  <1>10. scen.serial => \A e \in Ents : ent[e].handle # "local"
    BY <1>1, <1>9 DEF Inv, WaitInv, At
  <1>11. SerialEnt'
    <2> SUFFICES ASSUME scen.serial
                 PROVE  /\ \A e \in Ents : ent'[e].sub /\ ent'[e].handle # "dropped" => Opened(ent[e])'
                        /\ \A e \in Ents : ent'[e].handle = "local" => Opened(ent[e])'
                        /\ \A u \in DOMAIN call' : ~At(u, "spawn")'
      BY DEF SerialEnt
    <2>1. ASSUME NEW e \in Ents, ent'[e].sub, ent'[e].handle # "dropped" PROVE Opened(ent[e])'
      <3>1. Opened(ent[e]) /\ ent[e].route # C(t).pipe /\ ent'[e].route = ent[e].route
        BY <1>2, <2>1 DEF Inv, SerialEnt
      <3> QED
        BY <1>3, <3>1 DEF Opened
    <2>2. \A u \in DOMAIN call' : ~At(u, "spawn")'
      BY <1>9, ThreadStep DEF Inv, At
    <2> QED
      BY <1>2, <1>10, <2>1, <2>2
  <1>12. ClosedInv'
    <2>1. ASSUME scen.serial, ~PlainStop, NEW e \in Ents PROVE Marked(ent'[e])
      <3>1. EntOf(e, ent[e]) /\ Marked(ent[e])
        BY <2>1 DEF Inv, EntInv, ClosedInv
      <3>2. CASE ent[e].sub
        <4>1. ent[e].handle \in {"none", "local", "held", "damped", "dropped"}
          BY DEF Inv, TypeInv, EntType
        <4>2. ent[e].closing \/ ent[e].own
          BY <1>10, <2>1, <3>1, <3>2, <4>1 DEF EntOf
        <4> QED
          BY <1>2, <4>2 DEF Marked
      <3>3. CASE ~ent[e].sub
        BY <1>2, <3>1, <3>3 DEF Marked
      <3> QED
        BY <3>2, <3>3
    <2>2. c.pc \notin Stopping
      BY DEF Stopping
    <2> QED
      BY <1>2, <1>9, <2>1, <2>2, ClosedKept DEF Inv
  <1>13. QueueInv' /\ ToldInv'
    <2>1. \A e \in Ents : ent'[e].seq = ent[e].seq /\ (ent[e].pc = "over" => ent'[e].pc = "over")
      BY <1>2
    <2> QED
      BY <2>1, CallbacksKept DEF Inv
  <1> QED
    BY <1>2, <1>3, <1>4, <1>5, <1>6, <1>7, <1>8, <1>11, <1>12, <1>13 DEF Inv

LEMMA ShutdownInv == ASSUME Inv, NEW t \in DOMAIN call, Shutdown(t) PROVE Inv'
  <1>1. C(t).pc = "shutdown" /\ ~At(t, "idle") /\ ~At(t, "wait") /\ C(t).pc \in Stopping
    BY DEF Shutdown, At, Stopping
  <1>2. C(t).then = "none" /\ Op(t).op \in {"stop", "suspend"}
    BY <1>1, CallIs DEF FlowOf
  <1>3. UNCHANGED <<scen, app, feeds, queue, told, apps>>
    BY DEF Shutdown
  <1>4. PICK c : /\ Stepped(t, c) /\ c.k = C(t).k /\ c.pc = Next3(t) /\ c.pipe = None
                 /\ c.then = C(t).then
    <2>1. Moves(t, Next3(t), None) /\ Next3(t) \in Pcs /\ None \in Pipes
      BY DEF Shutdown, Moves, Pcs, Pipes, Next3
    <2> QED
      BY <2>1, MoveStep DEF Inv
  <1>5. \/ c.pc = "drain" /\ Op(t).op = "suspend"
        \/ c.pc = "end" /\ Op(t).op = "stop"
    BY <1>2, <1>4 DEF Next3
  <1>6. FlowOf(t, c) /\ ~Holding(c)
    BY <1>1, <1>2, <1>4, <1>5, CallIs DEF FlowOf, Holding
  <1>7. scen.serial => SerialOf(t, c)'
    BY <1>1, <1>3, <1>4, <1>5, CallIs DEF SerialOf
  <1>8. CASE C(t).pipe = None
    <2>1. UNCHANGED <<ent, pipe, lease>> /\ ~Holding(C(t))
      BY <1>8 DEF Shutdown, Holding
    <2>2. c.pc \notin Stopping \cup Before \cup {"spawn", "claim", "idle", "wait"}
      BY <1>5 DEF Stopping, Before
    <2> QED
      BY <1>1, <1>3, <1>4, <1>6, <1>7, <2>1, <2>2, QuietStep, CallIs
  <1>9. CASE C(t).pipe # None
    <2>1. /\ ent' = Unsubscribed({C(t).pipe, 0}) /\ pipe' = Closed(C(t).pipe) /\ lease' = None
          /\ Holding(C(t)) /\ Serving(C(t))
      BY <1>1, <1>9 DEF Shutdown, Holding, Serving
    <2>2. LeaseInv'
      <3>1. app.running = None /\ \A u \in DOMAIN call : Serving(C(u)) => u = t
        BY <2>1 DEF Inv, LeaseInv
      <3>2. \A u \in DOMAIN call' : ~Serving(C(u))'
        BY <1>3, <1>4, <3>1, ThreadStep DEF Serving, Inv
      <3> QED
        BY <1>3, <2>1, <3>1, <3>2, NamesAssumption DEF LeaseInv
    <2>3. scen.serial /\ ~PlainStop => \A e \in Ents : ent[e].handle = "held" => ent[e].closing
      BY <1>1 DEF Inv, ClosedInv
    <2> QED
      BY <1>3, <1>4, <1>5, <1>6, <1>7, <2>1, <2>2, <2>3, CutStep
  <1> QED
    BY <1>8, <1>9

LEMMA CloseLocalInv == ASSUME Inv, NEW t \in DOMAIN call, CloseLocal(t) PROVE Inv'
  <1>1. C(t).pc = "closeLocal" /\ ~At(t, "idle") /\ ~At(t, "wait")
    BY DEF CloseLocal, At
  <1>2. C(t).then = "none" /\ Op(t).op \in {"close", "suspend"} /\ ~Serving(C(t))
    BY <1>1, CallIs DEF FlowOf, Serving
  <1>3. UNCHANGED <<scen, app, lease, feeds, queue, told, apps>>
    BY DEF CloseLocal, mediaVars
  <1>4. PICK c : /\ Stepped(t, c) /\ c.k = C(t).k /\ c.pc = "end" /\ c.pipe = None
                 /\ c.then = C(t).then
    <2>1. Moves(t, "end", None) /\ "end" \in Pcs /\ None \in Pipes
      BY DEF CloseLocal, Moves, Pcs, Pipes
    <2> QED
      BY <2>1, MoveStep DEF Inv
  <1>5. FlowOf(t, c) /\ ~Holding(c)
    BY <1>1, <1>2, <1>4, CallIs DEF FlowOf, Holding
  <1>6. scen.serial => SerialOf(t, c)'
    BY <1>1, <1>3, <1>4, CallIs DEF SerialOf, Released
  <1>7. CASE C(t).pipe = None
    <2>1. UNCHANGED <<ent, pipe>> /\ ~Holding(C(t))
      BY <1>7 DEF CloseLocal, Holding
    <2>2. c.pc \notin Stopping \cup Before \cup {"spawn", "claim", "idle", "wait"}
      BY <1>4 DEF Stopping, Before
    <2> QED
      BY <1>1, <1>3, <1>4, <1>5, <1>6, <2>1, <2>2, QuietStep, CallIs
  <1>8. CASE C(t).pipe # None
    <2>1. /\ ent' = Unsubscribed({C(t).pipe}) /\ pipe' = Closed(C(t).pipe) /\ Holding(C(t))
      BY <1>1, <1>8 DEF CloseLocal, Holding
    <2>2. LeaseInv'
      <3>1. DOMAIN call' = DOMAIN call /\ \A u \in DOMAIN call : Serving(C(u))' <=> Serving(C(u))
        BY <1>2, <1>3, <1>4, ThreadStep DEF Serving, Inv
      <3> QED
        BY <1>3, <3>1 DEF Inv, LeaseInv
    <2>3. scen.serial => \A e \in Ents : ent[e].handle = "held" => ent[e].closing
      BY <1>1, CallIs DEF SerialOf, Inv, EntInv, EntOf
    <2>4. lease' \in {None, "me", "other"}
      BY <1>3 DEF Inv, TypeInv
    <2> QED
      BY <1>3, <1>4, <1>5, <1>6, <2>1, <2>2, <2>3, <2>4, CutStep
  <1> QED
    BY <1>7, <1>8

-----------------------------------------------------------------------------
(* Tasks, the dispatcher thread and other processes. *)

\* What no call takes part in.
LEMMA CallsKept ==
  ASSUME Inv, UNCHANGED <<scen, call, app, pipe, feeds, apps>>, (lease' = "me") <=> (lease = "me")
  PROVE  FlowInv' /\ PipeInv' /\ LeaseInv' /\ SerialInv' /\ ClaimInv'
  <1>1. FlowInv'
    BY DEF Inv, FlowInv, FlowOf, C
  <1>2. PipeInv'
    BY DEF Inv, PipeInv, Holding, C
  <1>3. LeaseInv'
    BY DEF Inv, LeaseInv, Serving, C
  <1>4. SerialInv'
    BY DEF Inv, SerialInv, SerialOf, Released, OneBusy, AllIdle, At, C
  <1>5. ClaimInv'
    BY DEF Inv, ClaimInv, OneOwner, ClaimOf, claimed_by, At, Op, C
  <1> QED
    BY <1>1, <1>2, <1>3, <1>4, <1>5

LEMMA TasksStep ==
  ASSUME Inv, UNCHANGED <<scen, call, app, pipe, feeds, apps>>, (lease' = "me") <=> (lease = "me"),
         lease' \in {None, "me", "other"}, ent' \in [Ents -> EntType], EntInv',
         queue' \in Seq(CallbackType), told' \in [Ents -> Seq(CallbackType)], QueueInv', ToldInv',
         \A e \in Ents :
           /\ ent'[e].handle = ent[e].handle /\ ent'[e].own = ent[e].own
           /\ ent'[e].closing = ent[e].closing /\ ent'[e].route = ent[e].route
           /\ ent[e].pc = "none" => ent'[e].pc = "none"
           /\ scen.serial /\ ent'[e].sub /\ ent[e].handle # "dropped" => Opened(ent[e])
           /\ scen.serial /\ ~PlainStop => Marked(ent'[e]),
         scen.serial /\ ~PlainStop =>
           /\ \A i \in DOMAIN queue' : queue'[i].cb = "end" /\ queue'[i].seq = "clean"
                                          => ent'[queue'[i].e].own
           /\ ClosedSaid'
  PROVE  Inv'
  <1>1. FlowInv' /\ PipeInv' /\ LeaseInv' /\ SerialInv' /\ ClaimInv'
    BY CallsKept
  <1>2. TypeInv'
    BY DEF Inv, TypeInv, CallType, AppType, EntType, CallbackType, Pipes
  <1>3. \A t \in DOMAIN call : C(t)' = C(t) /\ Op(t)' = Op(t)
    BY DEF C, Op
  <1>4. WaitInv'
    <2>1. \A t \in DOMAIN call : At(t, "wait") => Op(t).e \in Ents
      BY CallIs, EntrainIs DEF FlowOf, At, Inv
    <2>2. \A e \in Ents : ent'[e].handle = "local" =>
            \E t \in DOMAIN call' : C(t)'.pc = "wait" /\ Op(t)'.e = e
      BY <1>3 DEF Inv, WaitInv, At
    <2>3. \A t \in DOMAIN call' : C(t)'.pc = "wait" => ent'[Op(t)'.e].handle = "local"
      BY <1>3, <2>1 DEF Inv, WaitInv, At
    <2> QED
      BY <2>2, <2>3 DEF WaitInv, At
  <1>5. FreshInv'
    <2> SUFFICES ASSUME NEW t \in DOMAIN call, NEW k \in DOMAIN scen.threads[t], ToEntrain(t, k)'
                 PROVE  ent'[scen.threads[t][k].e].pc = "none"
      BY DEF FreshInv
    <2>1. ToEntrain(t, k)
      BY DEF ToEntrain, C
    <2>2. scen.threads[t][k].e \in Ents
      BY <2>1, ScenariosAssumption DEF Inv, TypeInv, ToEntrain
    <2> QED
      BY <2>1, <2>2 DEF Inv, FreshInv
  <1>6. SerialEnt'
    <2>1. \A e \in Ents : Opened(ent[e])' <=> Opened(ent[e])
      BY DEF Opened
    <2>2. \A t \in DOMAIN call : At(t, "spawn") => Op(t).e \in Ents
      BY CallIs, EntrainIs DEF FlowOf, At, Inv
    <2>3. \A t \in DOMAIN call : At(t, "spawn")' <=> At(t, "spawn")
      BY <1>3 DEF At
    <2>4. ASSUME scen.serial, NEW t \in DOMAIN call, At(t, "spawn") PROVE Opened(ent[Op(t).e])'
      <3>1. Opened(ent[Op(t).e]) /\ Op(t).e \in Ents /\ Op(t)' = Op(t)
        BY <1>3, <2>2, <2>4 DEF Inv, SerialEnt
      <3> QED
        BY <3>1 DEF Opened
    <2>5. ASSUME scen.serial, NEW e \in Ents, ent'[e].handle = "local" PROVE Opened(ent[e])'
      BY <2>1, <2>5 DEF Inv, SerialEnt
    <2>6. ASSUME scen.serial, NEW e \in Ents, ent'[e].sub, ent'[e].handle # "dropped"
          PROVE  Opened(ent[e])'
      BY <2>1, <2>6
    <2> QED
      BY <2>3, <2>4, <2>5, <2>6 DEF SerialEnt
  <1>7. ClosedInv'
    <2>1. PlainStop' <=> PlainStop
      BY DEF PlainStop
    <2> SUFFICES ASSUME scen.serial, ~PlainStop
                 PROVE  /\ \A e \in Ents : Marked(ent'[e])
                        /\ \A t \in DOMAIN call' : C(t)'.pc \in Stopping =>
                             \A e \in Ents : ent'[e].handle = "held" => ent'[e].closing
                        /\ \A i \in DOMAIN queue' : queue'[i].cb = "end" /\ queue'[i].seq = "clean"
                              => ent'[queue'[i].e].own
                        /\ ClosedSaid'
      BY <2>1 DEF ClosedInv, Marked
    <2>2. \A t \in DOMAIN call' : C(t)'.pc \in Stopping =>
            \A e \in Ents : ent'[e].handle = "held" => ent'[e].closing
      BY <1>3 DEF Inv, ClosedInv
    <2> QED
      BY <2>2
  <1> QED
    BY <1>1, <1>2, <1>4, <1>5, <1>6, <1>7 DEF Inv

\* A step of one entrainment's task.
LEMMA TaskStep ==
  ASSUME Inv, NEW e \in Ents, NEW x \in EntType, ent' = [ent EXCEPT ![e] = x],
         UNCHANGED <<scen, call, app, lease, pipe, feeds, apps, told>>,
         x.handle = ent[e].handle, x.own = ent[e].own, x.closing = ent[e].closing,
         x.route = ent[e].route, ent[e].pc # "none", EntOf(e, x),
         scen.serial /\ x.sub /\ ent[e].handle # "dropped" => Opened(ent[e]),
         scen.serial /\ ~PlainStop => Marked(x),
         queue' \in Seq(CallbackType), QueueInv', ToldInv',
         scen.serial /\ ~PlainStop =>
           \A i \in DOMAIN queue' : queue'[i].cb = "end" /\ queue'[i].seq = "clean"
                                          => ent'[queue'[i].e].own
  PROVE  Inv'
  <1>1. ent \in [Ents -> EntType]
    BY DEF Inv, TypeInv
  <1>2. ent'[e] = x /\ (\A d \in Ents : d # e => ent'[d] = ent[d]) /\ ent' \in [Ents -> EntType]
    BY <1>1
  <1>3. EntInv'
    <2>1. ASSUME NEW d \in Ents PROVE EntOf(d, ent[d])'
      <3>1. CASE d = e
        BY <1>2, <3>1 DEF EntOf
      <3>2. CASE d # e
        BY <1>2, <3>2 DEF Inv, EntInv, EntOf
      <3> QED
        BY <3>1, <3>2
    <2> QED
      BY <2>1 DEF EntInv
  <1>4. ASSUME NEW d \in Ents
        PROVE  /\ ent'[d].handle = ent[d].handle /\ ent'[d].own = ent[d].own
               /\ ent'[d].closing = ent[d].closing /\ ent'[d].route = ent[d].route
               /\ ent[d].pc = "none" => ent'[d].pc = "none"
               /\ scen.serial /\ ent'[d].sub /\ ent[d].handle # "dropped" => Opened(ent[d])
               /\ scen.serial /\ ~PlainStop => Marked(ent'[d])
    <2>1. CASE d = e
      BY <1>2, <2>1
    <2>2. CASE d # e
      BY <1>2, <2>2 DEF Inv, SerialEnt, ClosedInv
    <2> QED
      BY <2>1, <2>2
  <1>5. scen.serial /\ ~PlainStop => ClosedSaid'
    BY <1>4 DEF Inv, ClosedInv, ClosedSaid
  <1>6. told' \in [Ents -> Seq(CallbackType)] /\ lease' \in {None, "me", "other"}
    BY DEF Inv, TypeInv
  <1> QED
    BY <1>2, <1>3, <1>4, <1>5, <1>6, TasksStep

\* A task that tells nothing.
LEMMA SilentStep ==
  ASSUME Inv, NEW e \in Ents, NEW x \in EntType, ent' = [ent EXCEPT ![e] = x],
         UNCHANGED <<scen, call, app, lease, pipe, feeds, apps, queue, told>>,
         x.handle = ent[e].handle, x.own = ent[e].own, x.closing = ent[e].closing,
         x.route = ent[e].route, x.seq = ent[e].seq, ent[e].pc \notin {"none", "over"}, EntOf(e, x),
         scen.serial /\ x.sub /\ ent[e].handle # "dropped" => Opened(ent[e]),
         scen.serial /\ ~PlainStop => Marked(x)
  PROVE  Inv'
  <1>1. ent'[e] = x /\ (\A d \in Ents : d # e => ent'[d] = ent[d])
    BY DEF Inv, TypeInv
  <1>2. QueueInv' /\ ToldInv'
    BY <1>1, CallbacksKept DEF Inv
  <1>3. \A i \in DOMAIN queue : queue[i].e \in Ents
    BY ElementOfSeq, LenProperties DEF Inv, TypeInv, CallbackType
  <1>4. scen.serial /\ ~PlainStop =>
          \A i \in DOMAIN queue' : queue'[i].cb = "end" /\ queue'[i].seq = "clean"
                                         => ent'[queue'[i].e].own
    BY <1>1, <1>3 DEF Inv, ClosedInv
  <1>5. queue' \in Seq(CallbackType)
    BY DEF Inv, TypeInv
  <1> QED
    BY <1>2, <1>4, <1>5, TaskStep

LEMMA EntGateInv == ASSUME Inv, NEW e \in Ents, EntGate(e) PROVE Inv'
  <1>1. ent[e].pc = "spawned" /\ UNCHANGED <<scen, call, app, lease, pipe, feeds, apps, queue, told>>
    BY DEF EntGate, mediaVars
  <1>2. ent[e] \in EntType /\ EntOf(e, ent[e]) /\ ent \in [Ents -> EntType]
    BY DEF Inv, TypeInv, EntInv
  <1>3. PICK pc : pc = IF Up(e) /\ e \notin scen.refused THEN "gated" ELSE "over"
    OBVIOUS
  <1>4. PICK x : x = [ent[e] EXCEPT !.pc = pc]
    OBVIOUS
  <1>5. /\ x \in EntType /\ x.pc \in {"gated", "over"} /\ x.handle = ent[e].handle
        /\ x.own = ent[e].own /\ x.closing = ent[e].closing /\ x.route = ent[e].route
        /\ x.seq = ent[e].seq /\ x.sub = ent[e].sub /\ x.acked = ent[e].acked
    BY <1>2, <1>3, <1>4 DEF EntType
  <1>6. ent' = [ent EXCEPT ![e] = x]
    BY <1>2, <1>3, <1>4 DEF EntGate
  <1>7. EntOf(e, x) /\ ~x.sub /\ Marked(x)
    BY <1>1, <1>2, <1>5 DEF EntOf, Marked
  <1> QED
    BY <1>1, <1>5, <1>6, <1>7, SilentStep

LEMMA EntSubscribeInv == ASSUME Inv, NEW e \in Ents, EntSubscribe(e) PROVE Inv'
  <1>1. ent[e].pc = "gated" /\ UNCHANGED <<scen, call, app, lease, pipe, feeds, apps, queue, told>>
    BY DEF EntSubscribe, mediaVars
  <1>2. ent[e] \in EntType /\ EntOf(e, ent[e]) /\ ent \in [Ents -> EntType]
    BY DEF Inv, TypeInv, EntInv
  <1>3. PICK x : x = [ent[e] EXCEPT !.pc = "live", !.sub = TRUE, !.acked = TRUE]
    OBVIOUS
  <1>4. /\ x \in EntType /\ x.pc = "live" /\ x.handle = ent[e].handle
        /\ x.own = ent[e].own /\ x.closing = ent[e].closing /\ x.route = ent[e].route
        /\ x.seq = ent[e].seq /\ x.sub = TRUE /\ x.acked = TRUE
    BY <1>2, <1>3 DEF EntType
  <1>5. ent' = [ent EXCEPT ![e] = x]
    BY <1>2, <1>3 DEF EntSubscribe
  <1>6. EntOf(e, x) /\ Marked(x)
    BY <1>1, <1>2, <1>4 DEF EntOf, Marked
  <1>7. ent[e].handle \in {"local", "dropped"}
    BY <1>1, <1>2 DEF EntOf, EntType
  <1>8. scen.serial /\ ent[e].handle # "dropped" => Opened(ent[e])
    BY <1>7 DEF Inv, SerialEnt
  <1> QED
    BY <1>1, <1>4, <1>5, <1>6, <1>8, SilentStep

\* A live task has told fewer callbacks than it has signalled, and no end waits.
LEMMA LiveTold ==
  ASSUME Inv, NEW e \in Ents, ent[e].pc = "live"
  PROVE  /\ Len(told[e]) \in Nat /\ ent[e].seq \in Nat /\ Len(told[e]) <= ent[e].seq
         /\ \A i \in DOMAIN told[e] : told[e][i].cb # "end"
         /\ \A i \in DOMAIN queue : queue[i].e = e => queue[i].cb = "vibration"
  <1>1. told[e] \in Seq(CallbackType) /\ ent[e].seq \in Nat /\ queue \in Seq(CallbackType)
    BY DEF Inv, TypeInv, EntType
  <1>2. Len(told[e]) \in Nat /\ DOMAIN told[e] = 1..Len(told[e])
    BY <1>1, LenProperties
  <1>3. \A i \in DOMAIN told[e] : told[e][i].cb # "end"
    BY DEF Inv, ToldInv
  <1>4. \A i \in DOMAIN queue : queue[i].cb \in {"vibration", "end"}
    BY <1>1, ElementOfSeq, LenProperties DEF CallbackType
  <1>5. \A i \in DOMAIN queue : queue[i].e = e => queue[i].cb = "vibration"
    BY <1>4 DEF Inv, QueueInv
  <1>6. Len(told[e]) <= ent[e].seq
    <2> SUFFICES ASSUME Len(told[e]) # 0 PROVE Len(told[e]) - 1 < ent[e].seq
      BY <1>1, <1>2
    <2> DEFINE n == Len(told[e])
    <2>1. n \in DOMAIN told[e]
      BY <1>2
    <2>2. told[e][n].cb = "vibration"
      BY <1>1, <1>2, <1>3, <2>1, ElementOfSeq DEF CallbackType
    <2>3. told[e][n].seq = n - 1 /\ told[e][n].seq < ent[e].seq
      BY <2>1, <2>2 DEF Inv, ToldInv, CallbacksOrdered
    <2> QED
      BY <2>3
  <1> QED
    BY <1>1, <1>2, <1>3, <1>5, <1>6

\* A callback queued behind the others.
LEMMA QueuedIs ==
  ASSUME Inv, NEW cb \in CallbackType, Queue(cb)
  PROVE  /\ queue' \in Seq(CallbackType) /\ Len(queue) \in Nat /\ DOMAIN queue = 1..Len(queue)
         /\ DOMAIN queue' = 1..(Len(queue) + 1) /\ queue'[Len(queue) + 1] = cb
         /\ \A i \in DOMAIN queue : queue'[i] = queue[i] /\ queue[i].e \in Ents
  <1>1. queue \in Seq(CallbackType)
    BY DEF Inv, TypeInv
  <1>2. Len(queue) \in Nat /\ DOMAIN queue = 1..Len(queue)
    BY <1>1, LenProperties
  <1>3. queue' \in Seq(CallbackType) /\ Len(queue') = Len(queue) + 1 /\ queue'[Len(queue) + 1] = cb
        /\ \A i \in 1..Len(queue) : queue'[i] = queue[i]
    BY <1>1, AppendProperties DEF Queue
  <1>4. \A i \in DOMAIN queue : queue[i].e \in Ents
    BY <1>1, <1>2, ElementOfSeq DEF CallbackType
  <1> QED
    BY <1>1, <1>2, <1>3, <1>4, LenProperties

LEMMA EntSignalInv == ASSUME Inv, NEW e \in Ents, EntSignal(e) PROVE Inv'
  <1>1. /\ ent[e].pc = "live" /\ ent[e].sub
        /\ UNCHANGED <<scen, call, app, lease, pipe, feeds, apps, told>>
    BY DEF EntSignal, mediaVars
  <1>2. ent[e] \in EntType /\ EntOf(e, ent[e]) /\ ent \in [Ents -> EntType]
    BY DEF Inv, TypeInv, EntInv
  <1>3. PICK m, x : m = ent[e].seq + 1 /\ x = [ent[e] EXCEPT !.seq = m]
    OBVIOUS
  <1>4. /\ x \in EntType /\ x.pc = "live" /\ x.handle = ent[e].handle
        /\ x.own = ent[e].own /\ x.closing = ent[e].closing /\ x.route = ent[e].route
        /\ x.seq = ent[e].seq + 1 /\ x.sub = ent[e].sub /\ x.acked = ent[e].acked
    <2>1. m \in Nat
      BY <1>2, <1>3 DEF EntType
    <2>2. x \in EntType /\ x.seq = m
      BY <1>2, <1>3, <2>1 DEF EntType
    <2> QED
      BY <1>1, <1>2, <1>3, <2>2 DEF EntType
  <1>5. ent' = [ent EXCEPT ![e] = x]
    BY <1>2, <1>3 DEF EntSignal
  <1>6. ent'[e] = x /\ (\A d \in Ents : d # e => ent'[d] = ent[d])
    BY <1>2, <1>5
  <1>7. EntOf(e, x) /\ Marked(x)
    BY <1>1, <1>2, <1>4 DEF EntOf, Marked
  <1>8. scen.serial /\ ent[e].handle # "dropped" => Opened(ent[e])
    BY <1>1 DEF Inv, SerialEnt
  <1>9. PICK cb : cb = [e |-> e, cb |-> "vibration", seq |-> ent[e].seq]
    OBVIOUS
  <1>10. cb \in CallbackType /\ Queue(cb) /\ cb.e = e /\ cb.cb = "vibration" /\ cb.seq = ent[e].seq
    BY <1>2, <1>9 DEF EntType, CallbackType, EntSignal
  <1>11. /\ queue' \in Seq(CallbackType) /\ Len(queue) \in Nat /\ DOMAIN queue = 1..Len(queue)
         /\ DOMAIN queue' = 1..(Len(queue) + 1) /\ queue'[Len(queue) + 1] = cb
         /\ \A i \in DOMAIN queue : queue'[i] = queue[i] /\ queue[i].e \in Ents
    BY <1>10, QueuedIs
  <1>12. /\ Len(told[e]) \in Nat /\ ent[e].seq \in Nat /\ Len(told[e]) <= ent[e].seq
         /\ \A i \in DOMAIN told[e] : told[e][i].cb # "end"
         /\ \A i \in DOMAIN queue : queue[i].e = e => queue[i].cb = "vibration"
    BY <1>1, LiveTold
  <1>13. \A d \in Ents : /\ ent'[d].pc = ent[d].pc /\ ent'[d].own = ent[d].own
                         /\ d # e => ent'[d].seq = ent[d].seq
    BY <1>1, <1>4, <1>6
  <1>14. \A i \in DOMAIN queue : queue[i].cb = "vibration" =>
           queue[i].seq \in Nat /\ queue[i].seq < ent'[queue[i].e].seq
    <2>1. ASSUME NEW i \in DOMAIN queue, queue[i].cb = "vibration"
          PROVE  queue[i].seq \in Nat /\ queue[i].seq < ent'[queue[i].e].seq
      <3>1. queue[i].seq \in Nat /\ queue[i].seq < ent[queue[i].e].seq
        BY <2>1 DEF Inv, QueueInv
      <3>2. CASE queue[i].e = e
        BY <1>4, <1>6, <1>12, <3>1, <3>2
      <3>3. CASE queue[i].e # e
        BY <1>11, <1>13, <3>1, <3>3
      <3> QED
        BY <3>2, <3>3
    <2> QED
      BY <2>1
  <1>15. ASSUME NEW i \in DOMAIN queue'
         PROVE  /\ queue'[i].cb = "vibration" =>
                      /\ queue'[i].seq \in Nat /\ queue'[i].seq < ent'[queue'[i].e].seq
                      /\ Len(told'[queue'[i].e]) <= queue'[i].seq
                /\ queue'[i].cb = "end" => ent'[queue'[i].e].pc = "over"
                /\ \A j \in DOMAIN queue' : i < j /\ queue'[j].e = queue'[i].e =>
                     /\ queue'[i].cb = "vibration"
                     /\ queue'[j].cb = "vibration" => queue'[i].seq < queue'[j].seq
    <2>1. CASE i = Len(queue) + 1
      BY <1>1, <1>4, <1>6, <1>10, <1>11, <1>12, <2>1
    <2>2. CASE i \in DOMAIN queue
      <3>1. /\ queue[i].cb = "vibration" => Len(told[queue[i].e]) <= queue[i].seq
            /\ queue[i].cb = "end" => ent[queue[i].e].pc = "over"
            /\ \A j \in DOMAIN queue : i < j /\ queue[j].e = queue[i].e =>
                 /\ queue[i].cb = "vibration"
                 /\ queue[j].cb = "vibration" => queue[i].seq < queue[j].seq
        BY <2>2 DEF Inv, QueueInv
      <3>2. queue[i].e = e => queue[i].cb = "vibration" /\ queue[i].seq < ent[e].seq
        BY <1>12, <2>2 DEF Inv, QueueInv
      <3>3. ASSUME NEW j \in DOMAIN queue', i < j, queue'[j].e = queue'[i].e
            PROVE  /\ queue'[i].cb = "vibration"
                   /\ queue'[j].cb = "vibration" => queue'[i].seq < queue'[j].seq
        <4>1. CASE j = Len(queue) + 1
          BY <1>10, <1>11, <2>2, <3>2, <3>3, <4>1
        <4>2. CASE j \in DOMAIN queue
          BY <1>11, <2>2, <3>1, <3>3, <4>2
        <4> QED
          BY <1>11, <4>1, <4>2
      <3>4. queue'[i] = queue[i] /\ queue[i].e \in Ents
        BY <1>11, <2>2
      <3> QED
        BY <1>1, <1>13, <1>14, <2>2, <3>1, <3>3, <3>4
    <2> QED
      BY <1>11, <2>1, <2>2
  <1>16. ASSUME NEW d \in Ents, NEW n \in Nat, Len(told'[d]) <= n, n < ent'[d].seq
         PROVE  \E i \in DOMAIN queue' :
                  queue'[i].e = d /\ queue'[i].cb = "vibration" /\ queue'[i].seq = n
    <2>1. CASE d = e /\ n = ent[e].seq
      <3>1. Len(queue) + 1 \in DOMAIN queue'
        BY <1>11
      <3> QED
        BY <1>10, <1>11, <2>1, <3>1
    <2>2. CASE ~(d = e /\ n = ent[e].seq)
      <3>1. n < ent[d].seq
        BY <1>4, <1>6, <1>12, <1>13, <1>16, <2>2
      <3>2. PICK i \in DOMAIN queue :
              queue[i].e = d /\ queue[i].cb = "vibration" /\ queue[i].seq = n
        BY <1>1, <1>16, <3>1 DEF Inv, QueueInv
      <3> QED
        BY <1>11, <3>2
    <2> QED
      BY <2>1, <2>2
  <1>17. QueueInv'
    BY <1>15, <1>16 DEF QueueInv
  <1>18. ToldInv'
    <2>1. ASSUME NEW d \in Ents, NEW i \in DOMAIN told[d]
          PROVE  /\ IF told[d][i].cb = "end"
                    THEN i = Len(told[d]) /\ \A j \in DOMAIN queue' : queue'[j].e # d
                    ELSE told[d][i].seq = i - 1
                 /\ told[d][i].cb = "end" => ent'[d].pc = "over"
                 /\ told[d][i].cb = "vibration" => told[d][i].seq < ent'[d].seq
      <3>1. /\ IF told[d][i].cb = "end"
               THEN i = Len(told[d]) /\ \A j \in DOMAIN queue : queue[j].e # d
               ELSE told[d][i].seq = i - 1
            /\ told[d][i].cb = "end" => ent[d].pc = "over"
            /\ told[d][i].cb = "vibration" => told[d][i].seq < ent[d].seq
        BY DEF Inv, ToldInv, CallbacksOrdered
      <3>2. told[d] \in Seq(CallbackType)
        BY DEF Inv, TypeInv
      <3>3. i \in Nat
        BY <3>2, LenProperties
      <3>4. told[d][i].cb = "vibration" => told[d][i].seq < ent'[d].seq
        <4>1. CASE d = e
          <5>1. told[d][i].seq = i - 1
            BY <1>12, <3>1, <4>1
          <5> QED
            BY <1>4, <1>6, <1>12, <3>1, <3>3, <4>1, <5>1
        <4>2. CASE d # e
          BY <1>6, <3>1, <4>2
        <4> QED
          BY <4>1, <4>2
      <3>5. told[d][i].cb = "end" => \A j \in DOMAIN queue' : queue'[j].e # d
        BY <1>10, <1>11, <1>12, <3>1
      <3> QED
        BY <1>13, <3>1, <3>4, <3>5
    <2> QED
      BY <1>1, <2>1 DEF ToldInv, CallbacksOrdered
  <1>19. scen.serial /\ ~PlainStop =>
           \A i \in DOMAIN queue' : queue'[i].cb = "end" /\ queue'[i].seq = "clean"
                                          => ent'[queue'[i].e].own
    BY <1>10, <1>11, <1>13 DEF Inv, ClosedInv
  <1> QED
    BY <1>1, <1>4, <1>5, <1>7, <1>8, <1>11, <1>17, <1>18, <1>19, TaskStep

\* The one end of a task says why.
LEMMA EntEndInv == ASSUME Inv, NEW e \in Ents, EntEnd(e) PROVE Inv'
  <1> DEFINE why == IF ent[e].route = 0 /\ ~ent[e].sub THEN "gone" ELSE "clean"
  <1>1. /\ ent[e].pc = "live" /\ (~ent[e].sub \/ ent[e].handle \in {"damped", "dropped"})
        /\ UNCHANGED <<scen, call, app, lease, pipe, feeds, apps, told>>
    BY DEF EntEnd, mediaVars
  <1>2. ent[e] \in EntType /\ EntOf(e, ent[e]) /\ ent \in [Ents -> EntType]
    BY DEF Inv, TypeInv, EntInv
  <1>3. PICK x : x = [ent[e] EXCEPT !.pc = "over", !.sub = FALSE]
    OBVIOUS
  <1>4. /\ x \in EntType /\ x.pc = "over" /\ x.handle = ent[e].handle
        /\ x.own = ent[e].own /\ x.closing = ent[e].closing /\ x.route = ent[e].route
        /\ x.seq = ent[e].seq /\ x.sub = FALSE /\ x.acked = ent[e].acked
    BY <1>2, <1>3 DEF EntType
  <1>5. ent' = [ent EXCEPT ![e] = x]
    BY <1>2, <1>3 DEF EntEnd
  <1>6. ent'[e] = x /\ (\A d \in Ents : d # e => ent'[d] = ent[d])
    BY <1>2, <1>5
  <1>7. EntOf(e, x) /\ Marked(x)
    BY <1>1, <1>2, <1>4 DEF EntOf, Marked
  <1>8. PICK reason : reason = EndReason(ent[e], why)
    OBVIOUS
  <1>9. /\ reason \in {"clean", "closed", "gone"}
        /\ scen.serial /\ ~PlainStop /\ reason = "clean" => ent[e].own
    <2>1. reason \in {"clean", "closed", "gone"}
      BY <1>8 DEF EndReason
    <2>2. ASSUME scen.serial, ~PlainStop, reason = "clean" PROVE ent[e].own
      <3>1. ~ent[e].closing /\ (ent[e].route # 0 \/ ent[e].sub)
        BY <1>8, <2>2 DEF EndReason
      <3>2. Marked(ent[e])
        BY <2>2 DEF Inv, ClosedInv
      <3> QED
        BY <1>1, <1>2, <3>1, <3>2 DEF EntOf, Marked
    <2> QED
      BY <2>1, <2>2
  <1>10. PICK cb : cb = [e |-> e, cb |-> "end", seq |-> reason]
    OBVIOUS
  <1>11. cb \in CallbackType /\ Queue(cb) /\ cb.e = e /\ cb.cb = "end" /\ cb.seq = reason
    BY <1>8, <1>9, <1>10 DEF CallbackType, EntEnd
  <1>12. /\ queue' \in Seq(CallbackType) /\ Len(queue) \in Nat /\ DOMAIN queue = 1..Len(queue)
         /\ DOMAIN queue' = 1..(Len(queue) + 1) /\ queue'[Len(queue) + 1] = cb
         /\ \A i \in DOMAIN queue : queue'[i] = queue[i] /\ queue[i].e \in Ents
    BY <1>11, QueuedIs
  <1>13. /\ \A i \in DOMAIN told[e] : told[e][i].cb # "end"
         /\ \A i \in DOMAIN queue : queue[i].e = e => queue[i].cb = "vibration"
    BY <1>1, LiveTold
  <1>14. \A d \in Ents : /\ ent'[d].seq = ent[d].seq /\ ent'[d].own = ent[d].own
                         /\ ent[d].pc = "over" => ent'[d].pc = "over"
    BY <1>1, <1>4, <1>6
  <1>15. ASSUME NEW i \in DOMAIN queue'
         PROVE  /\ queue'[i].cb = "vibration" =>
                      /\ queue'[i].seq \in Nat /\ queue'[i].seq < ent'[queue'[i].e].seq
                      /\ Len(told'[queue'[i].e]) <= queue'[i].seq
                /\ queue'[i].cb = "end" => ent'[queue'[i].e].pc = "over"
                /\ \A j \in DOMAIN queue' : i < j /\ queue'[j].e = queue'[i].e =>
                     /\ queue'[i].cb = "vibration"
                     /\ queue'[j].cb = "vibration" => queue'[i].seq < queue'[j].seq
    <2>1. CASE i = Len(queue) + 1
      BY <1>4, <1>6, <1>11, <1>12, <2>1
    <2>2. CASE i \in DOMAIN queue
      <3>1. /\ queue[i].cb = "vibration" =>
                 /\ queue[i].seq \in Nat /\ queue[i].seq < ent[queue[i].e].seq
                 /\ Len(told[queue[i].e]) <= queue[i].seq
            /\ queue[i].cb = "end" => ent[queue[i].e].pc = "over"
            /\ \A j \in DOMAIN queue : i < j /\ queue[j].e = queue[i].e =>
                 /\ queue[i].cb = "vibration"
                 /\ queue[j].cb = "vibration" => queue[i].seq < queue[j].seq
        BY <2>2 DEF Inv, QueueInv
      <3> QED
        BY <1>1, <1>11, <1>12, <1>13, <1>14, <2>2, <3>1
    <2> QED
      BY <1>12, <2>1, <2>2
  <1>16. ASSUME NEW d \in Ents, NEW n \in Nat, Len(told'[d]) <= n, n < ent'[d].seq
         PROVE  \E i \in DOMAIN queue' :
                  queue'[i].e = d /\ queue'[i].cb = "vibration" /\ queue'[i].seq = n
    <2>1. PICK i \in DOMAIN queue :
            queue[i].e = d /\ queue[i].cb = "vibration" /\ queue[i].seq = n
      BY <1>1, <1>14, <1>16 DEF Inv, QueueInv
    <2> QED
      BY <1>12, <2>1
  <1>17. QueueInv'
    BY <1>15, <1>16 DEF QueueInv
  <1>18. ToldInv'
    <2>1. ASSUME NEW d \in Ents, NEW i \in DOMAIN told[d]
          PROVE  /\ IF told[d][i].cb = "end"
                    THEN i = Len(told[d]) /\ \A j \in DOMAIN queue' : queue'[j].e # d
                    ELSE told[d][i].seq = i - 1
                 /\ told[d][i].cb = "end" => ent'[d].pc = "over"
                 /\ told[d][i].cb = "vibration" => told[d][i].seq < ent'[d].seq
      <3>1. /\ IF told[d][i].cb = "end"
               THEN i = Len(told[d]) /\ \A j \in DOMAIN queue : queue[j].e # d
               ELSE told[d][i].seq = i - 1
            /\ told[d][i].cb = "end" => ent[d].pc = "over"
            /\ told[d][i].cb = "vibration" => told[d][i].seq < ent[d].seq
        BY DEF Inv, ToldInv, CallbacksOrdered
      <3>2. told[d][i].cb = "end" => \A j \in DOMAIN queue' : queue'[j].e # d
        BY <1>11, <1>12, <1>13, <3>1
      <3> QED
        BY <1>14, <3>1, <3>2
    <2> QED
      BY <1>1, <2>1 DEF ToldInv, CallbacksOrdered
  <1>19. scen.serial /\ ~PlainStop =>
           \A i \in DOMAIN queue' : queue'[i].cb = "end" /\ queue'[i].seq = "clean"
                                          => ent'[queue'[i].e].own
    BY <1>9, <1>11, <1>12, <1>14 DEF Inv, ClosedInv
  <1> QED
    BY <1>1, <1>4, <1>5, <1>7, <1>12, <1>17, <1>18, <1>19, TaskStep

\* The dispatcher runs the oldest callback, which is the next one of its entrainment.
LEMMA DispatchInv == ASSUME Inv, Dispatch PROVE Inv'
  <1> DEFINE h == Head(queue)
  <1>1. UNCHANGED <<scen, call, app, lease, pipe, feeds, ent, apps>> /\ queue # <<>>
    BY DEF Dispatch, mediaVars
  <1>2. queue \in Seq(CallbackType) /\ told \in [Ents -> Seq(CallbackType)]
    BY DEF Inv, TypeInv
  <1>3. Len(queue) \in Nat /\ Len(queue) >= 1 /\ DOMAIN queue = 1..Len(queue) /\ 1 \in DOMAIN queue
    BY <1>1, <1>2, LenProperties, EmptySeq
  <1>4. h = queue[1] /\ h \in CallbackType /\ h.e \in Ents /\ h.cb \in {"vibration", "end"}
    <2>1. h = queue[1] /\ h \in CallbackType
      BY <1>1, <1>2, HeadTailProperties
    <2> QED
      BY <2>1 DEF CallbackType
  <1> HIDE DEF h
  <1>5. /\ queue' \in Seq(CallbackType) /\ DOMAIN queue' = 1..(Len(queue) - 1)
        /\ \A i \in DOMAIN queue' : i + 1 \in DOMAIN queue /\ queue'[i] = queue[i + 1]
    <2>1. queue' = Tail(queue)
      BY DEF Dispatch
    <2>2. queue' \in Seq(CallbackType) /\ Len(queue') = Len(queue) - 1
          /\ \A i \in 1..Len(queue') : queue'[i] = queue[i + 1]
      BY <1>1, <1>2, <2>1, HeadTailProperties
    <2> QED
      BY <1>3, <2>2, LenProperties
  <1>6. told' = [told EXCEPT ![h.e] = Append(@, h)]
    BY DEF Dispatch, h
  <1>7. /\ told' \in [Ents -> Seq(CallbackType)] /\ (\A d \in Ents : d # h.e => told'[d] = told[d])
        /\ Len(told[h.e]) \in Nat /\ DOMAIN told[h.e] = 1..Len(told[h.e])
        /\ Len(told'[h.e]) = Len(told[h.e]) + 1 /\ told'[h.e][Len(told[h.e]) + 1] = h
        /\ DOMAIN told'[h.e] = 1..(Len(told[h.e]) + 1)
        /\ \A i \in DOMAIN told[h.e] : told'[h.e][i] = told[h.e][i]
    <2>1. told[h.e] \in Seq(CallbackType)
      BY <1>2, <1>4
    <2>2. PICK q : q = Append(told[h.e], h)
      OBVIOUS
    <2>3. q \in Seq(CallbackType) /\ Len(q) = Len(told[h.e]) + 1 /\ q[Len(told[h.e]) + 1] = h
          /\ \A i \in 1..Len(told[h.e]) : q[i] = told[h.e][i]
      BY <1>4, <2>1, <2>2, AppendProperties
    <2>4. told' = [told EXCEPT ![h.e] = q]
      BY <1>6, <2>2
    <2>5. Len(told[h.e]) \in Nat /\ DOMAIN told[h.e] = 1..Len(told[h.e]) /\ DOMAIN q = 1..Len(q)
      BY <2>1, <2>3, LenProperties
    <2>6. told'[h.e] = q
      BY <1>2, <1>4, <2>4
    <2>7. told' \in [Ents -> Seq(CallbackType)] /\ (\A d \in Ents : d # h.e => told'[d] = told[d])
      BY <1>2, <1>4, <2>3, <2>4
    <2> QED
      BY <2>3, <2>5, <2>6, <2>7
  <1>8. /\ h.cb = "vibration" => /\ h.seq \in Nat /\ h.seq < ent[h.e].seq
                                  /\ Len(told[h.e]) <= h.seq
        /\ h.cb = "end" => ent[h.e].pc = "over"
        /\ \A j \in DOMAIN queue : 1 < j /\ queue[j].e = h.e =>
             h.cb = "vibration" /\ (queue[j].cb = "vibration" => h.seq < queue[j].seq)
    BY <1>3, <1>4 DEF Inv, QueueInv
  <1>9. h.cb = "vibration" => h.seq = Len(told[h.e])
    <2> SUFFICES ASSUME h.cb = "vibration", Len(told[h.e]) < h.seq PROVE FALSE
      BY <1>7, <1>8
    <2>1. ent[h.e].seq \in Nat
      BY <1>4 DEF Inv, TypeInv, EntType
    <2>2. PICK i \in DOMAIN queue :
            queue[i].e = h.e /\ queue[i].cb = "vibration" /\ queue[i].seq = Len(told[h.e])
      <3>1. Len(told[h.e]) < ent[h.e].seq
        BY <1>7, <1>8, <2>1
      <3> QED
        BY <1>4, <1>7, <3>1 DEF Inv, QueueInv
    <2>3. i # 1
      BY <1>4, <1>7, <1>8, <2>2
    <2> QED
      BY <1>3, <1>7, <1>8, <2>2, <2>3
  <1>10. ASSUME NEW i \in DOMAIN queue'
         PROVE  /\ queue'[i].cb = "vibration" =>
                      /\ queue'[i].seq \in Nat /\ queue'[i].seq < ent'[queue'[i].e].seq
                      /\ Len(told'[queue'[i].e]) <= queue'[i].seq
                /\ queue'[i].cb = "end" => ent'[queue'[i].e].pc = "over"
                /\ \A j \in DOMAIN queue' : i < j /\ queue'[j].e = queue'[i].e =>
                     /\ queue'[i].cb = "vibration"
                     /\ queue'[j].cb = "vibration" => queue'[i].seq < queue'[j].seq
    <2> DEFINE k == i + 1
    <2>1. k \in DOMAIN queue /\ queue'[i] = queue[k] /\ 1 < k /\ i \in Nat
      BY <1>3, <1>5
    <2> HIDE DEF k
    <2>2. /\ queue[k].cb = "vibration" =>
               /\ queue[k].seq \in Nat /\ queue[k].seq < ent[queue[k].e].seq
               /\ Len(told[queue[k].e]) <= queue[k].seq
          /\ queue[k].cb = "end" => ent[queue[k].e].pc = "over"
          /\ \A j \in DOMAIN queue : k < j /\ queue[j].e = queue[k].e =>
               /\ queue[k].cb = "vibration"
               /\ queue[j].cb = "vibration" => queue[k].seq < queue[j].seq
      BY <2>1 DEF Inv, QueueInv
    <2>3. queue[k].e \in Ents
      BY <1>2, <1>3, <2>1, ElementOfSeq DEF CallbackType
    <2>4. queue[k].cb = "vibration" => Len(told'[queue[k].e]) <= queue[k].seq
      <3>1. CASE queue[k].e = h.e
        BY <1>7, <1>8, <2>1, <2>2, <3>1
      <3>2. CASE queue[k].e # h.e
        BY <1>7, <2>2, <2>3, <3>2
      <3> QED
        BY <3>1, <3>2
    <2>5. ASSUME NEW j \in DOMAIN queue', i < j, queue'[j].e = queue'[i].e
          PROVE  /\ queue'[i].cb = "vibration"
                 /\ queue'[j].cb = "vibration" => queue'[i].seq < queue'[j].seq
      <3>1. j + 1 \in DOMAIN queue /\ queue'[j] = queue[j + 1] /\ k < j + 1
        BY <1>3, <1>5, <2>1, <2>5 DEF k
      <3> QED
        BY <2>1, <2>2, <2>5, <3>1
    <2> QED
      BY <1>1, <2>1, <2>2, <2>4, <2>5
  <1>11. ASSUME NEW d \in Ents, NEW n \in Nat, Len(told'[d]) <= n, n < ent'[d].seq
         PROVE  \E i \in DOMAIN queue' :
                  queue'[i].e = d /\ queue'[i].cb = "vibration" /\ queue'[i].seq = n
    <2>1. Len(told[d]) <= n
      BY <1>7, <1>11
    <2>2. PICK i \in DOMAIN queue :
            queue[i].e = d /\ queue[i].cb = "vibration" /\ queue[i].seq = n
      BY <1>1, <1>11, <2>1 DEF Inv, QueueInv
    <2>3. i # 1
      BY <1>4, <1>7, <1>9, <1>11, <2>2
    <2>4. i - 1 \in DOMAIN queue' /\ queue'[i - 1] = queue[i]
      BY <1>3, <1>5, <2>3
    <2> QED
      BY <2>2, <2>4
  <1>12. QueueInv'
    BY <1>10, <1>11 DEF QueueInv
  <1>13. ASSUME NEW d \in Ents, NEW i \in DOMAIN told'[d]
         PROVE  /\ IF told'[d][i].cb = "end"
                   THEN i = Len(told'[d]) /\ \A j \in DOMAIN queue' : queue'[j].e # d
                   ELSE told'[d][i].seq = i - 1
                /\ told'[d][i].cb = "end" => ent'[d].pc = "over"
                /\ told'[d][i].cb = "vibration" => told'[d][i].seq < ent'[d].seq
                /\ told'[d][i] = h \/ (i \in DOMAIN told[d] /\ told'[d][i] = told[d][i])
    <2>1. ASSUME i \in DOMAIN told[d]
          PROVE  /\ IF told[d][i].cb = "end"
                    THEN i = Len(told[d]) /\ \A j \in DOMAIN queue : queue[j].e # d
                    ELSE told[d][i].seq = i - 1
                 /\ told[d][i].cb = "end" => ent[d].pc = "over"
                 /\ told[d][i].cb = "vibration" => told[d][i].seq < ent[d].seq
      BY <2>1 DEF Inv, ToldInv, CallbacksOrdered
    <2>2. CASE d # h.e
      <3>1. told'[d] = told[d]
        BY <1>7, <2>2
      <3> QED
        BY <1>1, <1>5, <2>1, <3>1
    <2>3. CASE d = h.e /\ i = Len(told[h.e]) + 1
      <3>1. told'[d][i] = h /\ i = Len(told'[d])
        BY <1>7, <2>3
      <3>2. h.cb = "end" => \A j \in DOMAIN queue' : queue'[j].e # d
        BY <1>3, <1>5, <1>8, <2>3
      <3>3. h.cb = "vibration" => h.seq = i - 1
        BY <1>7, <1>9, <2>3
      <3> QED
        BY <1>1, <1>4, <1>8, <2>3, <3>1, <3>2, <3>3
    <2>4. CASE d = h.e /\ i \in DOMAIN told[h.e]
      <3>1. told'[d][i] = told[d][i] /\ told[d][i].cb # "end"
        BY <1>3, <1>4, <1>7, <2>1, <2>4
      <3> QED
        BY <1>1, <2>1, <2>4, <3>1
    <2> QED
      BY <1>7, <2>2, <2>3, <2>4
  <1>14. ToldInv'
    BY <1>13 DEF ToldInv, CallbacksOrdered
  <1>15. scen.serial /\ ~PlainStop =>
           /\ \A i \in DOMAIN queue' : queue'[i].cb = "end" /\ queue'[i].seq = "clean"
                                          => ent'[queue'[i].e].own
           /\ ClosedSaid'
    <2> SUFFICES ASSUME scen.serial, ~PlainStop
                 PROVE  /\ \A i \in DOMAIN queue' : queue'[i].cb = "end" /\ queue'[i].seq = "clean"
                                                       => ent'[queue'[i].e].own
                        /\ \A d \in Ents : \A i \in DOMAIN told'[d] :
                             told'[d][i].cb = "end" /\ told'[d][i].seq = "clean" => ent'[d].own
      BY DEF ClosedSaid
    <2>1. \A i \in DOMAIN queue : queue[i].cb = "end" /\ queue[i].seq = "clean" => ent[queue[i].e].own
      BY DEF Inv, ClosedInv
    <2>2. \A d \in Ents : \A i \in DOMAIN told[d] :
            told[d][i].cb = "end" /\ told[d][i].seq = "clean" => ent[d].own
      BY DEF Inv, ClosedInv, ClosedSaid
    <2>3. ASSUME NEW d \in Ents, NEW i \in DOMAIN told'[d], told'[d][i].cb = "end",
                 told'[d][i].seq = "clean"
          PROVE  ent'[d].own
      <3>1. CASE d = h.e /\ told'[d][i] = h
        BY <1>1, <1>3, <1>4, <2>1, <2>3, <3>1
      <3>2. CASE i \in DOMAIN told[d] /\ told'[d][i] = told[d][i]
        BY <1>1, <2>2, <2>3, <3>2
      <3> QED
        BY <1>7, <1>13, <3>1, <3>2
    <2> QED
      BY <1>1, <1>5, <2>1, <2>3
  <1>16. ent' \in [Ents -> EntType] /\ EntInv' /\ lease' \in {None, "me", "other"}
    BY <1>1 DEF Inv, TypeInv, EntInv, EntOf
  <1>17. \A e \in Ents :
           /\ scen.serial /\ ent'[e].sub /\ ent[e].handle # "dropped" => Opened(ent[e])
           /\ scen.serial /\ ~PlainStop => Marked(ent'[e])
    BY <1>1 DEF Inv, SerialEnt, ClosedInv
  <1> QED
    BY <1>1, <1>5, <1>7, <1>12, <1>14, <1>15, <1>16, <1>17, TasksStep

LEMMA OtherProcessInv == ASSUME Inv, OtherProcess PROVE Inv'
  <1>1. UNCHANGED <<scen, call, app, pipe, feeds, queue, told, apps>>
        /\ ((lease' = "me") <=> (lease = "me")) /\ lease' \in {None, "me", "other"}
    BY NamesAssumption DEF OtherProcess, mediaVars
  <1>2. queue' \in Seq(CallbackType) /\ told' \in [Ents -> Seq(CallbackType)]
    BY <1>1 DEF Inv, TypeInv
  <1>3. /\ ent' \in [Ents -> EntType] /\ EntInv'
        /\ \A e \in Ents :
             /\ ent'[e].handle = ent[e].handle /\ ent'[e].own = ent[e].own
             /\ ent'[e].closing = ent[e].closing /\ ent'[e].route = ent[e].route
             /\ ent'[e].seq = ent[e].seq
             /\ ent'[e].sub => ent[e].sub
             /\ ~ent'[e].sub => ~ent[e].sub \/ ent[e].route = 0
             /\ ent'[e].pc = ent[e].pc \/ (ent[e].pc = "gated" /\ ent'[e].pc = "over")
    <2>1. CASE ent' = ent
      BY <1>1, <2>1 DEF Inv, TypeInv, EntInv, EntOf
    <2>2. CASE ent' = Unsubscribed({0})
      BY <1>1, <2>2, Unsubscribes
    <2> QED
      BY <2>1, <2>2 DEF OtherProcess
  <1>4. QueueInv' /\ ToldInv'
    BY <1>1, <1>3, CallbacksKept DEF Inv
  <1>5. \A i \in DOMAIN queue : queue[i].e \in Ents
    BY ElementOfSeq, LenProperties DEF Inv, TypeInv, CallbackType
  <1>6. scen.serial /\ ~PlainStop =>
          /\ \A i \in DOMAIN queue' : queue'[i].cb = "end" /\ queue'[i].seq = "clean"
                                         => ent'[queue'[i].e].own
          /\ ClosedSaid'
    BY <1>1, <1>3, <1>5 DEF Inv, ClosedInv, ClosedSaid
  <1>7. \A e \in Ents :
          /\ ent[e].pc = "none" => ent'[e].pc = "none"
          /\ scen.serial /\ ent'[e].sub /\ ent[e].handle # "dropped" => Opened(ent[e])
          /\ scen.serial /\ ~PlainStop => Marked(ent'[e])
    BY <1>3 DEF Inv, SerialEnt, ClosedInv, Marked
  <1> QED
    BY <1>1, <1>2, <1>3, <1>4, <1>6, <1>7, TasksStep

\* Media sessions and the calls of remote peers touch nothing of the handle.
LEMMA MediaIs ==
  ASSUME MediaNext \/ \E s \in DOMAIN scen.callers : Ask(s)
  PROVE  UNCHANGED <<scen, feeds>>
  <1>1. ASSUME NEW s, ServerStep(s) PROVE UNCHANGED <<scen, feeds>>
    BY <1>1 DEF ServerStep, Screen, Spawn, DuplexHeader, ReadOut, SendRaw, StopPump, RecvRaw, Tear,
                Over, subscribe, HostHeader, FeedNext, SendFeed, LocalEnds
  <1>2. ASSUME NEW s, RelayStep(s) PROVE UNCHANGED <<scen, feeds>>
    BY <1>2 DEF RelayStep, Dial, Relay, RelaySend
  <1>3. ASSUME NEW s, \/ WriteStdin(s) \/ Source(s) \/ Hear(s) \/ Talk(s) \/ PostLookup(s)
                         \/ PostSend(s) \/ Leave(s)
                     \/ Ask(s)
        PROVE  UNCHANGED <<scen, feeds>>
    BY <1>3 DEF WriteStdin, Source, Hear, Talk, PostLookup, PostSend, Leave, Ask
  <1>4. ASSUME NEW b, PipeCommand(b) \/ AcceptCheck(b) \/ BridgeStep(b) PROVE UNCHANGED <<scen, feeds>>
    BY <1>4 DEF PipeCommand, AcceptCheck, BridgeStep, AcceptRow, AcceptOne, AcceptClean
  <1> QED
    BY <1>1, <1>2, <1>3, <1>4 DEF MediaNext

LEMMA IdleInv == ASSUME Inv, UNCHANGED <<scen, feeds, embedVars>> PROVE Inv'
  <1>1. UNCHANGED <<scen, call, app, lease, pipe, feeds, ent, queue, told, apps>>
    BY DEF embedVars
  <1>2. /\ ent' \in [Ents -> EntType] /\ EntInv' /\ lease' \in {None, "me", "other"}
        /\ queue' \in Seq(CallbackType) /\ told' \in [Ents -> Seq(CallbackType)]
    BY <1>1 DEF Inv, TypeInv, EntInv, EntOf
  <1>3. QueueInv' /\ ToldInv'
    BY <1>1, CallbacksKept DEF Inv
  <1>4. \A e \in Ents :
          /\ scen.serial /\ ent'[e].sub /\ ent[e].handle # "dropped" => Opened(ent[e])
          /\ scen.serial /\ ~PlainStop => Marked(ent'[e])
    BY <1>1 DEF Inv, SerialEnt, ClosedInv
  <1>5. scen.serial /\ ~PlainStop =>
          /\ \A i \in DOMAIN queue' : queue'[i].cb = "end" /\ queue'[i].seq = "clean"
                                         => ent'[queue'[i].e].own
          /\ ClosedSaid'
    BY <1>1 DEF Inv, ClosedInv, ClosedSaid
  <1> QED
    BY <1>1, <1>2, <1>3, <1>4, <1>5, TasksStep

-----------------------------------------------------------------------------
(* The results. *)

LEMMA InitInv == Init => Inv
  <1> SUFFICES ASSUME Init PROVE Inv
    OBVIOUS
  <1>1. /\ scen \in Scenarios /\ pipe = <<>> /\ queue = <<>> /\ lease \in {None, "other"}
        /\ call = [t \in DOMAIN scen.threads |-> Idle] /\ ent = [e \in Ents |-> NewEnt]
        /\ told = [e \in Ents |-> <<>>] /\ apps = [a \in scen.apps |-> {}] /\ DOMAIN feeds = {}
    BY ScenariosAssumption DEF Init, MediaInit
  <1>2. /\ app.running = None /\ app.local = None /\ app.remembered = {} /\ app.last = "none"
        /\ app \in AppType
    BY DEF Init, AppType, Pipes
  <1>3. Idle \in CallType /\ Idle.pc = "idle" /\ Idle.pipe = None /\ Idle.then = "none"
    BY DEF Idle, CallType, Pcs, Pipes
  <1>4. /\ NewEnt \in EntType /\ NewEnt.pc = "none" /\ NewEnt.handle = "none" /\ ~NewEnt.sub
        /\ ~NewEnt.acked /\ NewEnt.seq = 0
    BY DEF NewEnt, EntType, Pipes
  <1>5. \A t \in DOMAIN call : C(t) = Idle
    BY <1>1 DEF C
  <1>6. TypeInv
    <2>1. <<>> \in Seq(CallbackType) /\ <<>> \in Seq({"open", "closed"})
      BY EmptySeq
    <2> QED
      BY <1>1, <1>2, <1>3, <1>4, <2>1 DEF TypeInv
  <1>7. FlowInv
    BY <1>3, <1>5 DEF FlowInv, FlowOf
  <1>8. PipeInv /\ LeaseInv
    <2>1. \A t \in DOMAIN call : ~Holding(C(t)) /\ ~Serving(C(t))
      BY <1>3, <1>5 DEF Holding, Serving
    <2>2. DOMAIN pipe = {}
      BY <1>1
    <2>3. lease # "me"
      BY <1>1, NamesAssumption
    <2> QED
      BY <1>2, <2>1, <2>2, <2>3 DEF PipeInv, LeaseInv
  <1>9. SerialInv
    BY <1>1, <1>2, <1>3, <1>5 DEF SerialInv, OneBusy, SerialOf, At
  <1>10. EntInv
    BY <1>1, <1>4 DEF EntInv, EntOf
  <1>11. WaitInv /\ SerialEnt
    BY <1>1, <1>3, <1>4, <1>5 DEF WaitInv, SerialEnt, At
  <1>12. FreshInv
    <2> SUFFICES ASSUME NEW t \in DOMAIN call, NEW k \in DOMAIN scen.threads[t], ToEntrain(t, k)
                 PROVE  ent[scen.threads[t][k].e].pc = "none"
      BY DEF FreshInv
    <2>1. scen.threads[t][k].e \in Ents
      BY <1>1, ScenariosAssumption DEF ToEntrain
    <2> QED
      BY <1>1, <1>4, <2>1
  <1>13. DOMAIN queue = {} /\ \A e \in Ents : DOMAIN told[e] = {}
    BY <1>1
  <1>14. ClosedInv
    BY <1>1, <1>3, <1>4, <1>5, <1>13 DEF ClosedInv, Marked, Stopping, ClosedSaid
  <1>15. QueueInv /\ ToldInv
    <2>1. \A e \in Ents : Len(told[e]) = 0 /\ ent[e].seq = 0
      BY <1>1, <1>4
    <2> QED
      BY <1>13, <2>1 DEF QueueInv, ToldInv, CallbacksOrdered
  <1>16. ClaimInv
    <2>1. OneOwner
      BY <1>1 DEF OneOwner
    <2> QED
      BY <1>3, <1>5, <2>1 DEF ClaimInv, ClaimOf, At
  <1> QED
    BY <1>6, <1>7, <1>8, <1>9, <1>10, <1>11, <1>12, <1>14, <1>15, <1>16 DEF Inv

LEMMA StepInv == ASSUME Inv, NEW t \in DOMAIN call, Step(t) PROVE Inv'
  BY StartNodeInv, SetRunningInv, ResumeInv, TouchInv, MarkInv, WithdrawInv, TakeRunningInv,
     ShutdownInv, DrainInv, TakeLocalInv, CloseLocalInv, EndInv, RouteInv, BuildInv, KeepInv,
     SpawnInv, WaitReadyInv, PublishCheckInv, PublishRowInv, PublishFeedInv, OnceInv, DeclareInv,
     ClaimStepInv DEF Step

LEMMA NextInv == Inv /\ [Next]_vars => Inv'
  <1> SUFFICES ASSUME Inv, [Next]_vars PROVE Inv'
    OBVIOUS
  <1>1. CASE UNCHANGED vars
    BY <1>1, IdleInv DEF vars, mediaVars
  <1>2. CASE MediaNext /\ UNCHANGED embedVars
    BY <1>2, MediaIs, IdleInv
  <1>3. CASE \E s \in DOMAIN scen.callers : Serves /\ Ask(s) /\ UNCHANGED embedVars
    BY <1>3, MediaIs, IdleInv
  <1>4. ASSUME NEW t \in DOMAIN call, Begin(t) \/ Step(t) PROVE Inv'
    BY <1>4, BeginInv, StepInv
  <1>5. ASSUME NEW e \in Ents, Task(e) \/ EntSignal(e) PROVE Inv'
    BY <1>5, EntGateInv, EntSubscribeInv, EntEndInv, EntSignalInv DEF Task
  <1>6. CASE Dispatch
    BY <1>6, DispatchInv
  <1>7. CASE OtherProcess
    BY <1>7, OtherProcessInv
  <1> QED
    BY <1>1, <1>2, <1>3, <1>4, <1>5, <1>6, <1>7 DEF Next

LEMMA Invariance == Spec => []Inv
  BY InitInv, NextInv, PTL DEF Spec

\* What the handle holds (crates/ffi/src/lib.rs, Node): a pipeline is open only while the handle
\* or a call under way holds it, and the handle holds none that is closed, whatever threads race in
\* serve, local_pipeline, stop and close.  With one call at a time a suspend leaves no lease, no
\* pipeline, subscription or feed behind, and declares give a table to one app.
THEOREM HandleHolds == Spec => []HandleSound
  <1>1. Inv => HandleSound
    <2> SUFFICES ASSUME Inv PROVE HandleSound
      OBVIOUS
    <2>1. NoStrayHandle
      BY DEF Inv, PipeInv, NoStrayHandle
    <2>2. LetGo
      <3> SUFFICES ASSUME scen.serial, AllIdle, app.last = "suspend"
                   PROVE  /\ lease # "me" /\ \A p \in DOMAIN pipe : pipe[p] = "closed"
                          /\ app.remembered = {} /\ DOMAIN feeds = {}
                          /\ \A e \in Ents : ent[e].sub => ent[e].route = 0
                                                           \/ ent[e].handle = "dropped"
        BY DEF LetGo
      <3>1. Released
        BY DEF Inv, SerialInv
      <3>2. \A t \in DOMAIN call : ~Holding(C(t)) /\ ~Serving(C(t))
        BY DEF AllIdle, At, Holding, Serving
      <3>3. lease # "me"
        BY <3>1, <3>2 DEF Inv, LeaseInv, Released
      <3>4. ASSUME NEW p \in DOMAIN pipe PROVE pipe[p] = "closed"
        <4>1. p # None /\ pipe[p] \in {"open", "closed"}
          BY NamesAssumption, LenProperties, ElementOfSeq DEF Inv, TypeInv
        <4> QED
          BY <3>1, <3>2, <4>1 DEF Inv, PipeInv, Released
      <3>5. \A e \in Ents : ent[e].sub => ent[e].route = 0 \/ ent[e].handle = "dropped"
        BY <3>4 DEF Inv, SerialEnt, Opened
      <3> QED
        BY <3>1, <3>3, <3>4, <3>5 DEF Released
    <2>3. OneOwner
      BY DEF Inv, ClaimInv, OneOwner
    <2> QED
      BY <2>1, <2>2, <2>3 DEF HandleSound
  <1> QED
    BY <1>1, Invariance, PTL

\* What the callbacks say (crates/ffi/src/lib.rs, Dispatcher and the tasks of entrain): the
\* vibrations of an entrainment in order and then one end, nothing after it; and with one call at
\* a time an entrainment that a suspend or close, rather than a plain stop, ended never reports a
\* clean end.
THEOREM CallbacksHold == Spec => []CallbacksTrue
  <1>1. Inv => CallbacksTrue
    <2> SUFFICES ASSUME Inv PROVE CallbacksTrue
      OBVIOUS
    <2>1. CallbacksOrdered
      BY DEF Inv, ToldInv
    <2>2. ClosedSaid
      BY DEF Inv, ClosedInv, ClosedSaid
    <2> QED
      BY <2>1, <2>2 DEF CallbacksTrue
  <1> QED
    BY <1>1, Invariance, PTL
=============================================================================
