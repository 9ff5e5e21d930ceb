------------------------------- MODULE Embed -------------------------------
(***************************************************************************)
(* A node inside an application (crates/ffi, crates/python): one handle on *)
(* a directory that other processes may serve, used from several threads,  *)
(* suspended and resumed by the operating system.                          *)
(*                                                                         *)
(* A call goes to this process's serving pipeline, to the process that     *)
(* serves the directory, or to an in-process pipeline built on first use.  *)
(* An entrainment is a task of the runtime whose signals become callbacks  *)
(* on one dispatcher thread.  A published feed lives in the serving        *)
(* pipeline and its viewers are the sessions of Media, composed here.      *)
(***************************************************************************)
EXTENDS Media

CONSTANTS Ents,     \* entrainments
          MaxVib    \* vibrations per entrainment (a bound)

VARIABLES app,      \* the handle: running, local, remembered, last
          lease,    \* who holds the serving lease: None, me or other
          pipe,     \* every pipeline built: open or closed
          call,     \* thread -> its current call
          ent,      \* entrainment -> its task and its handle
          queue,    \* callbacks waiting for the dispatcher thread
          told,     \* entrainment -> callbacks run
          apps      \* `_apps`: app -> the tables it declared

\* What an application calls: each entrainment is of one call, and another process may serve first.
ASSUME NamesAssumption == None \notin Nat \cup {"me", "other"}
ASSUME ScenariosAssumption ==
  \A s \in Scenarios :
    /\ s.lease \in {None, "other"}
    /\ \A t \in DOMAIN s.threads :
         /\ s.threads[t] \in Seq(Range(s.threads[t]))
         /\ \A k \in DOMAIN s.threads[t] :
              LET o == s.threads[t][k]
              IN  /\ o.op \in STRING
                  /\ o.op = "declare" => o.app \in s.apps
                  /\ o.op = "publish" => o.h \in STRING
                  /\ o.op = "entrain" =>
                       /\ o.e \in Ents
                       /\ \A u \in DOMAIN s.threads : \A j \in DOMAIN s.threads[u] :
                            s.threads[u][j].op = "entrain" /\ s.threads[u][j].e = o.e
                              => u = t /\ j = k

embedVars == <<app, lease, pipe, call, ent, queue, told, apps>>
vars == <<scen, mediaVars, embedVars>>

Idle == [k |-> 1, pc |-> "idle", pipe |-> None, then |-> "none", saw |-> {}]

NewEnt ==
  [pc |-> "none", route |-> None, acked |-> FALSE, sub |-> FALSE, closing |-> FALSE,
   handle |-> "none", own |-> FALSE, seq |-> 0]

Init ==
  /\ scen \in Scenarios
  /\ MediaInit
  /\ app = [running |-> None, local |-> None, remembered |-> {}, last |-> "none"]
  /\ lease = scen.lease
  /\ pipe = <<>>
  /\ call = [t \in DOMAIN scen.threads |-> Idle]
  /\ ent = [e \in Ents |-> NewEnt]
  /\ queue = <<>>
  /\ told = [e \in Ents |-> <<>>]
  /\ apps = [a \in scen.apps |-> {}]

----------------------------------------------------------------------------
\* Calls.  A thread runs its calls one after another, each in the steps between which the
\* handle's locks are free.

C(t) == call[t]
Op(t) == scen.threads[t][C(t).k]
At(t, pc) == C(t).pc = pc
Goto(t, pc) == call' = [call EXCEPT ![t].pc = pc]
\* A call that is part of another one goes on with it.
Return(t) ==
  /\ call' = [call EXCEPT ![t] = IF @.then = "none" THEN [Idle EXCEPT !.k = @ + C(t).k]
                                 ELSE [@ EXCEPT !.pc = C(t).then, !.then = "none"]]
  /\ app' = IF C(t).then = "none" THEN [app EXCEPT !.last = Op(t).op] ELSE app

Others(t) == \E u \in DOMAIN call : u # t /\ ~At(u, "idle")

\* The entry point of each call.
Enter(op) ==
  CASE op = "serve" -> "serve" [] op = "resume" -> "resume"
    [] op = "stop" -> "withdraw" [] op = "close" -> "drain"
    [] op = "suspend" -> "mark" [] op = "query" -> "route"
    [] op = "entrain" -> "route" [] op = "publish" -> "publish"
    [] op = "declare" -> "declare" [] OTHER -> "once"

Begin(t) ==
  /\ At(t, "idle") /\ C(t).k <= Len(scen.threads[t])
  /\ scen.serial => ~Others(t)
  /\ Goto(t, Enter(Op(t).op))
  /\ UNCHANGED <<scen, mediaVars, app, lease, pipe, ent, queue, told, apps>>

----------------------------------------------------------------------------
\* serve, resume.

\* start_node_as: the lease, then a pipeline; both refuse a second server.
StartNode(t) ==
  /\ At(t, "serve")
  /\ IF app.running # None \/ lease # None
     THEN Return(t) /\ UNCHANGED <<lease, pipe>>
     ELSE /\ lease' = "me"
          /\ pipe' = Append(pipe, "open")
          /\ call' = [call EXCEPT ![t].pc = "serving", ![t].pipe = Len(pipe) + 1]
          /\ UNCHANGED app
  /\ UNCHANGED <<scen, mediaVars, ent, queue, told, apps>>

SetRunning(t) ==
  /\ At(t, "serving")
  /\ call' = [call EXCEPT ![t] = IF @.then = "none" THEN [Idle EXCEPT !.k = @ + C(t).k]
                                 ELSE [@ EXCEPT !.pc = C(t).then, !.then = "none", !.pipe = None]]
  /\ app' = [app EXCEPT !.running = C(t).pipe,
                        !.last = IF C(t).then = "none" THEN Op(t).op ELSE @]
  /\ UNCHANGED <<scen, mediaVars, lease, pipe, ent, queue, told, apps>>

\* A held lease is not an error; touch_app refreshes last_seen.
ResumeCall(t) ==
  /\ At(t, "resume")
  /\ IF scen.serveIfFree /\ app.running = None
     THEN call' = [call EXCEPT ![t].pc = "serve", ![t].then = "touch"]
     ELSE Goto(t, "touch")
  /\ UNCHANGED <<scen, mediaVars, app, lease, pipe, ent, queue, told, apps>>

touch_app(t) ==
  /\ At(t, "touch")
  /\ Return(t)
  /\ UNCHANGED <<scen, mediaVars, lease, pipe, ent, queue, told, apps>>

----------------------------------------------------------------------------
\* stop, close, suspend.

\* Mark first: what stopping ends must report "closed".
Mark_late(t) == At(t, "mark") /\ Goto(t, "withdraw")
                /\ UNCHANGED <<scen, mediaVars, app, lease, pipe, ent, queue, told, apps>>
Mark(t) ==
  /\ At(t, "mark")
  /\ ent' = [e \in Ents |-> IF e \in app.remembered /\ ent[e].handle # "dropped"
                            THEN [ent[e] EXCEPT !.closing = TRUE] ELSE ent[e]]
  /\ Goto(t, "withdraw")
  /\ UNCHANGED <<scen, mediaVars, app, lease, pipe, queue, told, apps>>

\* withdraw_published, under the running lock.
Withdraw_skips(t) == At(t, "withdraw") /\ Goto(t, "take")
                     /\ UNCHANGED <<scen, mediaVars, app, lease, pipe, ent, queue, told, apps>>
Withdraw(t) ==
  /\ At(t, "withdraw")
  /\ IF app.running = None THEN UNCHANGED <<feeds, feed>>
     ELSE withdraw(DOMAIN feeds, None)
  /\ Goto(t, "take")
  /\ UNCHANGED <<scen, media, sess, audit, duplex, bridge, app, lease, pipe, ent, queue, told,
                 apps>>

TakeRunning(t) ==
  /\ At(t, "take")
  /\ call' = [call EXCEPT ![t].pc = "shutdown", ![t].pipe = app.running]
  /\ app' = [app EXCEPT !.running = None]
  /\ UNCHANGED <<scen, mediaVars, lease, pipe, ent, queue, told, apps>>

\* close_all and closing the connection end what ran on a pipeline; over the owner socket
\* (route 0) an entrainment not acknowledged yet fails with it.
Unsubscribed(routes) ==
  [e \in Ents |->
     IF ent[e].route \notin routes THEN ent[e]
     ELSE [ent[e] EXCEPT !.sub = FALSE,
                         !.pc = IF @ = "gated" /\ ent[e].route = 0 THEN "over" ELSE @]]
Closed(p) == [pipe EXCEPT ![p] = "closed"]
Next3(t) == IF Op(t).op = "suspend" THEN "drain" ELSE "end"

\* RunningNode::shutdown: its callers see their streams close, a request not screened yet finds
\* the database closed, the lease comes last.
CutOff(r) ==
  [r EXCEPT !.gone = TRUE, !.caller = "left", !.quit = TRUE,
            !.pc = IF @ = "asked" THEN "done" ELSE @]

Shutdown(t) ==
  LET p == C(t).pipe
  IN  /\ At(t, "shutdown")
      /\ IF p = None THEN UNCHANGED <<ent, pipe, lease, sess>>
         ELSE /\ ent' = Unsubscribed({p, 0})
              /\ pipe' = Closed(p)
              /\ lease' = None
              /\ sess' = [s \in Sess |-> IF S(s).pc = "new" THEN S(s) ELSE CutOff(S(s))]
      /\ call' = [call EXCEPT ![t].pc = Next3(t), ![t].pipe = None]
      /\ UNCHANGED <<scen, media, audit, duplex, feeds, feed, bridge, app, queue, told, apps>>

\* damp: the sender is taken, so a second one does nothing.
Damped(x) == IF x.handle = "held" THEN [x EXCEPT !.handle = "damped"] ELSE x

\* close: every entrainment still held is marked and damped.
Drain(t) ==
  /\ At(t, "drain")
  /\ ent' = [e \in Ents |-> IF e \in app.remembered /\ ent[e].handle # "dropped"
                            THEN [Damped(ent[e]) EXCEPT !.closing = TRUE] ELSE ent[e]]
  /\ app' = [app EXCEPT !.remembered = {}]
  /\ Goto(t, "takeLocal")
  /\ UNCHANGED <<scen, mediaVars, lease, pipe, queue, told, apps>>

TakeLocal(t) ==
  /\ At(t, "takeLocal")
  /\ call' = [call EXCEPT ![t].pc = "closeLocal", ![t].pipe = app.local]
  /\ app' = [app EXCEPT !.local = None]
  /\ UNCHANGED <<scen, mediaVars, lease, pipe, ent, queue, told, apps>>

CloseLocal(t) ==
  /\ At(t, "closeLocal")
  /\ IF C(t).pipe = None THEN UNCHANGED <<ent, pipe>>
     ELSE ent' = Unsubscribed({C(t).pipe}) /\ pipe' = Closed(C(t).pipe)
  /\ call' = [call EXCEPT ![t].pc = "end", ![t].pipe = None]
  /\ UNCHANGED <<scen, mediaVars, app, lease, queue, told, apps>>

End(t) ==
  /\ At(t, "end")
  /\ Return(t)
  /\ UNCHANGED <<scen, mediaVars, lease, pipe, ent, queue, told, apps>>

----------------------------------------------------------------------------
\* Routing.

\* What a routed call does once it has its route: 0 is the owner socket of whoever serves, which
\* may be this process, before its serve() returned.
Arrive(t, p) ==
  /\ call' = [call EXCEPT ![t].pc = IF Op(t).op = "entrain" THEN "spawn" ELSE "end",
                          ![t].pipe = None]
  /\ ent' = IF Op(t).op = "entrain" THEN [ent EXCEPT ![Op(t).e].route = p] ELSE ent

route(t) ==
  /\ At(t, "route")
  /\ IF app.running # None THEN Arrive(t, app.running)
     ELSE IF lease # None THEN Arrive(t, 0)
     ELSE IF app.local # None THEN Arrive(t, app.local)
     ELSE Goto(t, "build") /\ UNCHANGED ent
  /\ UNCHANGED <<scen, mediaVars, app, lease, pipe, queue, told, apps>>

\* local_pipeline: built without the lock ...
Build(t) ==
  /\ At(t, "build")
  /\ pipe' = Append(pipe, "open")
  /\ call' = [call EXCEPT ![t].pc = "keep", ![t].pipe = Len(pipe) + 1]
  /\ UNCHANGED <<scen, mediaVars, app, lease, ent, queue, told, apps>>

\* ... and kept under it, unless another caller was first: theirs wins, ours is closed.
Keep_both(t) ==
  /\ At(t, "keep")
  /\ Arrive(t, C(t).pipe)
  /\ app' = [app EXCEPT !.local = C(t).pipe]
  /\ UNCHANGED <<scen, mediaVars, pipe, lease, queue, told, apps>>
Keep(t) ==
  /\ At(t, "keep")
  /\ IF app.local = None
     THEN app' = [app EXCEPT !.local = C(t).pipe] /\ UNCHANGED pipe /\ Arrive(t, C(t).pipe)
     ELSE pipe' = Closed(C(t).pipe) /\ UNCHANGED app /\ Arrive(t, app.local)
  /\ UNCHANGED <<scen, mediaVars, lease, queue, told, apps>>

----------------------------------------------------------------------------
\* Entrainments.

SpawnTask(t) ==
  /\ At(t, "spawn")
  /\ ent' = [ent EXCEPT ![Op(t).e].pc = "spawned", ![Op(t).e].handle = "local"]
  /\ Goto(t, "wait")
  /\ UNCHANGED <<scen, mediaVars, app, lease, pipe, queue, told, apps>>

\* Ten seconds for the acknowledgment; the handle exists, and is remembered, only after it.
WaitReady(t) ==
  LET e == Op(t).e
  IN  /\ At(t, "wait")
      /\ \/ /\ ent[e].acked
            /\ ent' = [ent EXCEPT ![e].handle = "held"]
            /\ call' = [call EXCEPT ![t] = [Idle EXCEPT !.k = @ + C(t).k]]
            /\ app' = [app EXCEPT !.remembered = @ \cup {e}, !.last = "entrain"]
         \/ /\ ~ent[e].acked /\ (ent[e].pc = "over" \/ scen.slow)
            /\ ent' = [ent EXCEPT ![e].handle = "dropped", ![e].own = TRUE]
            /\ Return(t)
      /\ UNCHANGED <<scen, mediaVars, lease, pipe, queue, told, apps>>

Up(e) == IF ent[e].route = 0 THEN lease # None ELSE pipe[ent[e].route] = "open"
Queue(cb) == queue' = Append(queue, cb)

\* The owner lane's gate, on the pipeline's database thread or over the socket.
EntGate(e) ==
  /\ ent[e].pc = "spawned"
  /\ ent' = [ent EXCEPT ![e].pc = IF Up(e) /\ e \notin scen.refused THEN "gated" ELSE "over"]
  /\ UNCHANGED <<scen, mediaVars, app, lease, pipe, call, queue, told, apps>>

\* Subscribed, then acknowledged.
EntSubscribe(e) ==
  /\ ent[e].pc = "gated"
  /\ ent' = [ent EXCEPT ![e].pc = "live", ![e].sub = TRUE, ![e].acked = TRUE]
  /\ UNCHANGED <<scen, mediaVars, app, lease, pipe, call, queue, told, apps>>

\* A vibration becomes a callback; the task never runs one itself.
EntSignal(e) ==
  /\ ent[e].pc = "live" /\ ent[e].sub /\ Up(e) /\ ent[e].seq < MaxVib
  /\ ent' = [ent EXCEPT ![e].seq = @ + 1]
  /\ Queue([e |-> e, cb |-> "vibration", seq |-> ent[e].seq])
  /\ UNCHANGED <<scen, mediaVars, app, lease, pipe, call, told, apps>>

\* The end: the subscription was closed, the app damped, the serving process is gone, or the handle
\* was dropped, and with it the only sender of the task's inbound stream, whose end the lane takes
\* for a damp.  What it reports depends on the mark.
EndReason_raw(x, why) == why
EndReason(x, why) == IF x.closing THEN "closed" ELSE why
EntEnd(e) ==
  LET x == ent[e]
      why == IF x.route = 0 /\ ~x.sub THEN "gone" ELSE "clean"
  IN  /\ x.pc = "live"
      /\ ~x.sub \/ x.handle \in {"damped", "dropped"}
      /\ ent' = [ent EXCEPT ![e].pc = "over", ![e].sub = FALSE]
      /\ Queue([e |-> e, cb |-> "end", seq |-> EndReason(x, why)])
      /\ UNCHANGED <<scen, mediaVars, app, lease, pipe, call, told, apps>>

\* Dispatcher: one thread, in order.
Dispatch_pool ==
  /\ queue # <<>>
  /\ told' = [told EXCEPT ![Last(queue).e] = Append(@, Last(queue))]
  /\ queue' = Front(queue)
  /\ UNCHANGED <<scen, mediaVars, app, lease, pipe, call, ent, apps>>
Dispatch ==
  /\ queue # <<>>
  /\ told' = [told EXCEPT ![Head(queue).e] = Append(@, Head(queue))]
  /\ queue' = Tail(queue)
  /\ UNCHANGED <<scen, mediaVars, app, lease, pipe, call, ent, apps>>

----------------------------------------------------------------------------
\* publish_media, and what a feed's handle does.

PublishCheck(t) ==
  /\ At(t, "publish")
  /\ IF app.running = None THEN Return(t)
     ELSE call' = [call EXCEPT ![t].pc = "row", ![t].pipe = app.running] /\ UNCHANGED app
  /\ UNCHANGED <<scen, mediaVars, lease, pipe, ent, queue, told, apps>>

\* The `_media` row, over the pipeline that was running; a row that exists keeps its other columns.
HostRow(name) ==
  IF name \in DOMAIN media THEN [media[name] EXCEPT !.command = "host"]
  ELSE [command |-> "host", accepts |-> FALSE, prog |-> <<>>, note |-> "host", by |-> None]

PublishRow(t) ==
  LET ok == pipe[C(t).pipe] = "open"
  IN  /\ At(t, "row")
      /\ IF ok THEN upsert_row(Op(t).name, HostRow(Op(t).name)) ELSE UNCHANGED media
      /\ Goto(t, IF ok THEN "feed" ELSE "end")
      /\ UNCHANGED <<scen, sess, audit, duplex, feeds, feed, bridge, app, lease, pipe, ent, queue,
                     told, apps>>

\* Published in that pipeline's registry; one that was shut down has no viewers any more.
PublishFeed(t) ==
  /\ At(t, "feed")
  /\ IF pipe[C(t).pipe] = "open" THEN publish(Op(t).name, Op(t).h) ELSE UNCHANGED <<feeds, feed>>
  /\ call' = [call EXCEPT ![t].pc = "end", ![t].pipe = None]
  /\ UNCHANGED <<scen, media, sess, audit, duplex, bridge, app, lease, pipe, ent, queue, told,
                 apps>>

Writes(h) == {i \in DOMAIN feed : h \in feed[i].senders}

\* The calls of one step: damp or drop an entrainment; write into, close or drop a feed.
Once(t) ==
  LET o == Op(t)
  IN  /\ At(t, "once")
      /\ Goto(t, "end")
      /\ CASE o.op = "damp" ->
                ent' = [ent EXCEPT ![o.e] = [Damped(@) EXCEPT !.own = TRUE]]
           [] o.op = "drop" ->
                ent' = [ent EXCEPT ![o.e].handle = IF @ = "held" THEN "dropped" ELSE @,
                                   ![o.e].own = TRUE]
           [] OTHER -> UNCHANGED ent
      /\ CASE o.op = "write" /\ Writes(o.h) # {} ->
                write(CHOOSE i \in Writes(o.h) : TRUE) /\ UNCHANGED feeds
           [] o.op = "feedClose" /\ Writes(o.h) # {} -> withdraw({o.name}, o.h)
           [] o.op = "feedDrop" -> withdraw({}, o.h)
           [] OTHER -> UNCHANGED <<feeds, feed>>
      /\ UNCHANGED <<scen, media, sess, audit, duplex, bridge, app, lease, pipe, queue, told, apps>>

----------------------------------------------------------------------------
\* declare_tables: validated on a connection of its own, applied over the channel later.

claimed_by(table) == {a \in DOMAIN apps : table \in apps[a]}

declare_statements_any(o) == o.table \in scen.tables
declare_statements(o) ==
  /\ o.table \in scen.tables
  /\ claimed_by(o.table) \subseteq {o.app}

Declare(t) ==
  LET o == Op(t)
  IN  /\ At(t, "declare")
      /\ call' = IF declare_statements(o)
                 THEN [call EXCEPT ![t].pc = "claim", ![t].saw = apps[o.app] \cup {o.table}]
                 ELSE [call EXCEPT ![t].pc = "end"]
      /\ UNCHANGED <<scen, mediaVars, app, lease, pipe, ent, queue, told, apps>>

\* register_over keeps the row's tables; the last statement sets them.
Claim(t) ==
  /\ At(t, "claim")
  /\ apps' = [apps EXCEPT ![Op(t).app] = C(t).saw]
  /\ Goto(t, "end")
  /\ UNCHANGED <<scen, mediaVars, app, lease, pipe, ent, queue, told>>

----------------------------------------------------------------------------
\* Another process serves the directory when it likes (external).
OtherProcess ==
  /\ scen.other
  /\ \/ lease = None /\ lease' = "other" /\ UNCHANGED ent
     \/ lease = "other" /\ lease' = None /\ ent' = Unsubscribed({0})
  /\ UNCHANGED <<scen, mediaVars, app, pipe, call, queue, told, apps>>

Step(t) ==
  \/ StartNode(t) \/ SetRunning(t) \/ ResumeCall(t) \/ touch_app(t)
  \/ Mark(t) \/ Withdraw(t) \/ TakeRunning(t) \/ Shutdown(t)
  \/ Drain(t) \/ TakeLocal(t) \/ CloseLocal(t) \/ End(t)
  \/ route(t) \/ Build(t) \/ Keep(t) \/ SpawnTask(t) \/ WaitReady(t)
  \/ PublishCheck(t) \/ PublishRow(t) \/ PublishFeed(t) \/ Once(t) \/ Declare(t) \/ Claim(t)

Task(e) == EntGate(e) \/ EntSubscribe(e) \/ EntEnd(e)

Serves == scen.daemon \/ app.running # None

Next ==
  \/ MediaNext /\ UNCHANGED embedVars
  \/ \E s \in DOMAIN scen.callers : Serves /\ Ask(s) /\ UNCHANGED embedVars
  \/ \E t \in DOMAIN call : Begin(t) \/ Step(t)
  \/ \E e \in Ents : Task(e) \/ EntSignal(e)
  \/ Dispatch
  \/ OtherProcess

\* Tasks of the runtime, threads and child processes run; callers hear what they are sent.
\* Nobody has to open, write, talk or leave.
Spec ==
  /\ Init /\ [][Next]_vars
  /\ \A s \in Sess :
       WF_vars(s \in DOMAIN scen.callers /\ UNCHANGED embedVars
               /\ (ServerStep(s) \/ RelayStep(s) \/ Hear(s)))
  /\ \A s \in Sess :
       WF_vars(s \in DOMAIN scen.callers /\ UNCHANGED embedVars /\ WriteStdin(s))
  /\ \A e \in Ents : WF_vars(Task(e))
  /\ WF_vars(Dispatch)

----------------------------------------------------------------------------
\* Properties.

\* What a session was sent: one frame, and the numbers of the chunks after it.
Sent(s) == S(s).got \o S(s).down
OneHeader(s) == \A i \in DOMAIN Sent(s) : Sent(s)[i].class = "Raw" <=> i > 1
Raws(s) == [i \in 1..(Len(Sent(s)) - 1) |-> Sent(s)[i + 1].n]
Increasing(q) == \A i, j \in DOMAIN q : i < j => q[i] < q[j]
AllIdle == \A t \in DOMAIN call : At(t, "idle")

\* Every channel, pipe and stream stays within its capacity, whatever the peer sends: the caller's
\* audio never queues without bound behind a source that does not read (serve_audio_duplex).
TypeOK ==
  /\ \A s \in Sess :
       /\ Len(S(s).q) <= StdinCap /\ Len(S(s).pin) <= PipeCap /\ Len(S(s).out) <= PipeCap
       /\ Len(S(s).down) <= Window /\ Len(S(s).post) <= PostCap
       /\ Len(S(s).up) <= IF s \in DOMAIN scen.callers /\ Caller(s).kind = "local"
                          THEN PostCap ELSE Window
       /\ S(s).attached # None => S(s).attached \in DOMAIN feed
  /\ \A n \in DOMAIN feeds : feeds[n] \in DOMAIN feed
  /\ lease \in {None, "me", "other"}
  /\ \A p \in DOMAIN pipe : pipe[p] \in {"open", "closed"}
  /\ {app.running, app.local} \subseteq DOMAIN pipe \cup {None}

\* A session that is over leaves no process behind, not even one the source's shell forked
\* (killpg in serve_media and serve_audio_duplex), except where the header itself could not be sent.
ChildrenReaped == \A s \in Sess : S(s).pc = "done" /\ ~S(s).lost => S(s).group = {}

\* A response is one frame, and chunks behind it.  A caller that stayed to the end knows how its
\* exchange ended: a refusal, an error, or a header followed by the source's bytes, first to last
\* without a gap; a media header is never sent for a source that has nothing to say, and the audit
\* row says which it was.
Truly(s) ==
  LET first == Sent(s)[1].class
      n == Len(Raws(s))
  IN  /\ Sent(s) # <<>>
      /\ first \in {"Denied", "Error"} => Len(Sent(s)) = 1
      /\ first = "Denied" => audit[s] = <<"deny">>
      /\ first \in {"Media", "AudioDuplex"} => audit[s] = <<"allow">>
      /\ first = "Media" /\ S(s).src.command # "host" => n > 0
      /\ S(s).src # None => (S(s).src.command # "host" => Raws(s) = [i \in 1..n |-> i])
AnsweredTruly ==
  \A s \in DOMAIN scen.callers :
     /\ OneHeader(s)
     /\ S(s).pc = "done" /\ audit[s] # <<>> /\ ~S(s).quit /\ ~S(s).err => Truly(s)

\* A viewer of a host feed sees its chunks in order and at most once, and every chunk from the
\* live edge it joined at is either sent or counted as skipped, however slow it is and however
\* often the feed is republished meanwhile (FeedReader).
FeedOrdered ==
  \A s \in DOMAIN scen.callers : S(s).attached # None /\ ~S(s).gone =>
     /\ Increasing(Raws(s))
     /\ S(s).pos - S(s).from
          = Len(Raws(s)) + S(s).skipped + (IF S(s).pc = "sendFeed" THEN 1 ELSE 0)

\* The viewer count a host reads (FeedWriter::viewers) is the number of sessions attached, after
\* every way a session can end.
ViewersCounted ==
  \A i \in DOMAIN feed : feed[i].viewers = Cardinality({s \in Sess : S(s).attached = i})

\* What a source reads on stdin is what the caller said, in order, with chunks dropped but never
\* repeated or reordered; end of file comes after everything accepted was written, not before.
StdinOrdered ==
  \A s \in Sess :
     LET line == S(s).heard \o S(s).pin \o S(s).q
     IN  /\ \A i, j \in DOMAIN line :
              i < j /\ line[i] # 0 /\ line[j] # 0 => line[i] < line[j]
         /\ \A i \in DOMAIN S(s).heard : S(s).heard[i] = 0 =>
              S(s).q = <<>> /\ \A j \in DOMAIN S(s).heard : j > i => S(s).heard[j] = 0

\* A browser's upstream entry does not outlive the relay that reads it: a POST after the end
\* answers that the exchange is over and cannot fill a channel nobody reads (DuplexRegistry).
EntriesLive == \A s \in duplex : Caller(s).kind = "relay" => S(s).relay # "done"

\* `pipe accept` leaves nothing behind: once every acceptor has ended, killed ones apart, no row of
\* theirs is left, and an endpoint added under the name after the acceptor had stored its row is
\* still there (one added between its check and its row is overwritten).
AddedLate(b) ==
  Accepts(b).op = "add" /\ \A c \in DOMAIN bridge :
     Accepts(c).name = Accepts(b).name =>
       Accepts(c).op # "rm" /\ (Accepts(c).op = "accept" => Accepts(b).after = c)
AcceptTidy ==
  (\A b \in DOMAIN bridge : bridge[b].pc = "end") =>
    /\ \A n \in DOMAIN media : ~Ephemeral(n)
    /\ \A b \in DOMAIN bridge : AddedLate(b) => Accepts(b).name \in DOMAIN media

\* No pipeline is open that nobody holds, and none that the handle holds is closed: two threads
\* building the in-process pipeline at once leave one open, and the loser's is closed
\* (Node::local_pipeline).
NoStrayHandle ==
  /\ \A p \in DOMAIN pipe : pipe[p] = "open" =>
       p \in {app.running, app.local} \cup {C(t).pipe : t \in DOMAIN call}
  /\ \A p \in {app.running, app.local} \ {None} : pipe[p] = "open"

\* After suspend, with no other call under way, the process holds nothing of the directory: no
\* lease, no open pipeline, no subscription of an entrainment it has a handle for, no published
\* feed (Node::suspend).
LetGo ==
  scen.serial /\ AllIdle /\ app.last = "suspend" =>
    /\ lease # "me" /\ \A p \in DOMAIN pipe : pipe[p] = "closed"
    /\ app.remembered = {} /\ DOMAIN feeds = {}
    /\ \A e \in Ents : ent[e].sub => ent[e].route = 0 \/ ent[e].handle = "dropped"

\* An app hears an entrainment's vibrations in order and then its end, once, with nothing after it,
\* although the task, the dispatcher thread and close() run beside each other (Dispatcher).
CallbacksOrdered ==
  \A e \in Ents : \A i \in DOMAIN told[e] :
     IF told[e][i].cb = "end"
     THEN i = Len(told[e]) /\ \A j \in DOMAIN queue : queue[j].e # e
     ELSE told[e][i].seq = i - 1

\* With one call at a time, an entrainment that suspend or close ended reports "closed", never a
\* clean end, so the app can tell its own suspension from a source that finished (Node::suspend
\* marks before it stops; a plain stop does not mark).
PlainStop == \E t \in DOMAIN scen.threads : \E k \in DOMAIN scen.threads[t] :
                scen.threads[t][k].op = "stop"
ClosedSaid ==
  scen.serial /\ ~PlainStop =>
    \A e \in Ents : \A i \in DOMAIN told[e] :
       told[e][i].cb = "end" /\ told[e][i].seq = "clean" => ent[e].own

\* With one declare at a time no table belongs to two apps (declare_tables).
OneOwner ==
  scen.serial => \A a, b \in DOMAIN apps : a # b => apps[a] \cap apps[b] = {}

\* Everything ends that should: a session whose caller left is torn down, a feed nobody can write
\* into any more loses its viewers, and an acknowledged entrainment that the app damped, or whose
\* subscription the node closed, tells its end.
EveryoneEnds ==
  <>[](/\ \A s \in Sess : S(s).gone => S(s).pc = "done"
       /\ \A i \in DOMAIN feed : feed[i].senders = {} => feed[i].viewers = 0
       /\ \A e \in Ents : ent[e].acked /\ (ent[e].handle = "damped" \/ ~ent[e].sub)
                            => told[e] # <<>> /\ Last(told[e]).cb = "end")

\* What the doc of Entrainment says: dropping it does not damp, the runtime holds the session until
\* damp(), node shutdown or close().  The code's only sender is in the handle (`remember` keeps a
\* Weak), so dropping it ends the task's inbound stream and with it the session.
HeldByRuntime ==
  [][\A e \in Ents : ent[e].pc = "live" /\ ent'[e].pc = "over"
                        => ent[e].handle = "damped" \/ ~ent[e].sub]_vars

\* A media or duplex session is sound from its gate to its end, beside every other session:
\* nothing of it outlives it, and what either side reads is what the other wrote, in order.
SessionsSound ==
  /\ TypeOK /\ ChildrenReaped /\ AnsweredTruly /\ FeedOrdered /\ ViewersCounted
  /\ StdinOrdered /\ EntriesLive /\ AcceptTidy

\* The application's handle holds exactly what it should, through every interleaving of its
\* threads' calls with one another and with other processes.
HandleSound == NoStrayHandle /\ LetGo /\ OneOwner

\* An application can rely on its callbacks: in order, ended once, with the true reason.
CallbacksTrue == CallbacksOrdered /\ ClosedSaid
=============================================================================
