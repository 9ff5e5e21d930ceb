------------------------------ MODULE DbThread ------------------------------
(***************************************************************************)
(* The thread that owns a node's sqlite connection, and what is around it: *)
(* DbHandle (crates/node/src/db.rs) and the request driver that executes a *)
(* cleared signal on it and forwards the frames (execute_and_stream and    *)
(* run_execute in crates/node/src/pipeline.rs).                            *)
(*                                                                         *)
(* A task is one job handed to the thread: a plain call, a request guarded *)
(* by a deadline, or the closing job of DbHandle::close.  Its identity     *)
(* stands for its closure, its oneshot and, for a request, its generation. *)
(***************************************************************************)
EXTENDS Sequences, Naturals

CONSTANTS
  Calls, Requests, Closers,  \* the tasks of each kind
  None,                      \* no task; also the IDLE generation
  Capacity,                  \* frames the response channel holds (16)
  MaxRowFrames,              \* bound on the row frames of one response
  MaxPanics                  \* bound on jobs that panic

Tasks == Calls \cup Requests \cup Closers

ASSUME KindsAssumption ==
  /\ Calls \cap Requests = {} /\ Calls \cap Closers = {}
  /\ Requests \cap Closers = {} /\ None \notin Tasks
ASSUME BoundsAssumption ==
  Capacity \in Nat \ {0} /\ MaxRowFrames \in Nat /\ MaxPanics \in Nat

VARIABLES
  queue,      \* jobs sent and not yet received
  thread,     \* "up", "norx" (receiver dropped), "gone" (connection dropped)
  closing,    \* DbHandle.closing
  joinable,   \* the JoinHandle is still in the mutex
  job, jpc,   \* the running job and where it is
  busy,       \* DbHandle.busy
  interrupted,  \* sqlite's pending-interrupt flag
  pc,         \* each task at its caller
  late,       \* tasks handed over after some close() had returned
  sent,       \* every job the thread was handed, in order
  timer,      \* the deadline timer of a request
  chan, rows,   \* a request's response channel; row frames pushed into it
  fwd, hand,    \* the forwarding loop; the frame it is sending
  told,       \* the terminal frame the client has received
  committed,  \* requests whose transaction, or an earlier one, committed
  ran,        \* tasks whose closure has started
  panics

threadVars == <<queue, thread, closing, joinable, job, jpc, busy, interrupted,
                ran, panics>>
driverVars == <<timer, chan, rows, fwd, hand, told, committed>>
vars == <<threadVars, driverVars, pc, late, sent>>

Terminals == {"done", "timeout", "error"}
Answered  == {"ok", "failed", "interrupted", "closed", "returned"}

ThreadType ==
  /\ thread \in {"up", "norx", "gone"}
  /\ closing \in BOOLEAN /\ joinable \in BOOLEAN /\ interrupted \in BOOLEAN
  /\ job \in Tasks \cup {None}
  /\ jpc \in {"idle", "claimed", "header", "ready", "stmt", "push", "commit",
              "commit2", "ended"} \cup Terminals
  /\ busy \in Requests \cup {None}
  /\ job = None <=> jpc = "idle"
  /\ (busy # None /\ thread # "gone") => busy = job

TaskType ==
  /\ pc \in [Tasks -> {"new", "sending", "queued", "join", "joining"} \cup Answered]
  /\ late \in SUBSET Tasks /\ ran \in SUBSET Tasks
  /\ panics \in 0..MaxPanics

DriverType ==
  /\ timer \in [Requests -> {"off", "armed", "seen", "fired", "missed", "aborted"}]
  /\ rows \in [Requests -> 0..MaxRowFrames]
  /\ fwd \in [Requests -> {"off", "recv", "send", "await", "end"}]
  /\ hand \in [Requests -> {"none", "data"} \cup Terminals]
  /\ told \in [Requests -> {"none"} \cup Terminals]
  /\ committed \in SUBSET Requests

QueueType ==
  /\ queue \in Seq(Tasks) /\ sent \in Seq(Tasks)
  /\ chan \in [Requests -> Seq({"data"} \cup Terminals)]

TypeOK == ThreadType /\ TaskType /\ DriverType /\ QueueType

Init ==
  /\ queue = <<>> /\ thread = "up" /\ closing = FALSE /\ joinable = TRUE
  /\ job = None /\ jpc = "idle" /\ busy = None /\ interrupted = FALSE
  /\ pc = [t \in Tasks |-> "new"] /\ late = {} /\ sent = <<>>
  /\ timer = [r \in Requests |-> "off"]
  /\ chan = [r \in Requests |-> <<>>]
  /\ rows = [r \in Requests |-> 0]
  /\ fwd = [r \in Requests |-> "off"]
  /\ hand = [r \in Requests |-> "none"]
  /\ told = [r \in Requests |-> "none"]
  /\ committed = {} /\ ran = {} /\ panics = 0

-----------------------------------------------------------------------------
(* Callers. *)

\* tx.send(job): an error once the receiver is dropped.
Send(t) ==
  /\ \/ /\ thread = "up"
        /\ queue' = Append(queue, t) /\ sent' = Append(sent, t)
        /\ late' = IF \E c \in Closers : pc[c] = "returned" THEN late \cup {t} ELSE late
        /\ pc' = [pc EXCEPT ![t] = "queued"]
     \/ /\ thread # "up"
        /\ pc' = [pc EXCEPT ![t] = IF t \in Closers THEN "join" ELSE "closed"]
        /\ UNCHANGED <<queue, late, sent>>
  /\ UNCHANGED <<thread, closing, joinable, job, jpc, busy, interrupted,
                 ran, panics>>

Call(t) == t \in Calls /\ pc[t] = "new" /\ Send(t) /\ UNCHANGED driverVars

\* execute_and_stream up to its forwarding loop: the timer is armed before
\* the job is queued.
Execute(r) ==
  /\ pc[r] = "new"
  /\ Send(r)
  /\ timer' = [timer EXCEPT ![r] = "armed"]
  /\ fwd' = [fwd EXCEPT ![r] = "recv"]
  /\ UNCHANGED <<chan, rows, hand, told, committed>>

\* Mutant: close() sets the flag itself, before its job has had its turn.
CheckClosing_sets(t) ==
  /\ t \in Closers /\ pc[t] = "new"
  /\ pc' = [pc EXCEPT ![t] = IF closing THEN "join" ELSE "sending"]
  /\ closing' = TRUE
  /\ UNCHANGED <<queue, thread, joinable, job, jpc, busy, interrupted, ran,
                 panics, driverVars, late, sent>>

\* close() reads the flag, ...
CheckClosing(t) ==
  /\ t \in Closers /\ pc[t] = "new"
  /\ pc' = [pc EXCEPT ![t] = IF closing THEN "join" ELSE "sending"]
  /\ UNCHANGED <<threadVars, driverVars, late, sent>>

\* ... and sends its job; another close() may have run in between.
Close(t) == t \in Closers /\ pc[t] = "sending" /\ Send(t) /\ UNCHANGED driverVars

\* self.thread.lock().take(): only one closer gets the JoinHandle.
TakeHandle(t) ==
  /\ pc[t] = "join"
  /\ pc' = [pc EXCEPT ![t] = IF joinable THEN "joining" ELSE "returned"]
  /\ joinable' = FALSE
  /\ UNCHANGED <<queue, thread, closing, job, jpc, busy, interrupted, ran,
                 panics, driverVars, late, sent>>

Joined(t) ==
  /\ pc[t] = "joining" /\ thread = "gone"
  /\ pc' = [pc EXCEPT ![t] = "returned"]
  /\ UNCHANGED <<threadVars, driverVars, late, sent>>

-----------------------------------------------------------------------------
(* The thread. *)

Running(t, at) == job = t /\ jpc = at

\* Mutant: no break after the closing job.
Take_noBreak ==
  /\ thread = "up" /\ job = None /\ queue # <<>>
  /\ job' = Head(queue) /\ queue' = Tail(queue) /\ jpc' = "claimed"
  /\ ran' = ran \cup {Head(queue)}
  /\ UNCHANGED <<thread, closing, joinable, busy, interrupted, panics,
                 driverVars, pc, late, sent>>

\* while let Ok(job) = rx.recv()
Take ==
  /\ thread = "up" /\ job = None /\ ~ closing /\ queue # <<>>
  /\ job' = Head(queue) /\ queue' = Tail(queue) /\ jpc' = "claimed"
  /\ ran' = ran \cup {Head(queue)}
  /\ UNCHANGED <<thread, closing, joinable, busy, interrupted, panics,
                 driverVars, pc, late, sent>>

\* sqlite clears the flag when a statement starts while none is active.
StartStatement(next) ==
  /\ interrupted' = FALSE /\ jpc' = next
  /\ UNCHANGED <<queue, thread, closing, joinable, job, busy, ran, panics,
                 driverVars, pc, late, sent>>

Goto(next) ==
  /\ jpc' = next
  /\ UNCHANGED <<queue, thread, closing, joinable, job, busy, interrupted,
                 ran, panics>>

\* The closure returns and its oneshot carries the outcome to the caller.
Finish(t, outcome) ==
  /\ job' = None /\ jpc' = "idle"
  /\ pc' = [pc EXCEPT ![t] = outcome]
  /\ UNCHANGED <<queue, thread, joinable, interrupted, ran, panics, late, sent>>

StartCall(t) == t \in Calls /\ Running(t, "claimed") /\ StartStatement("stmt")

FinishCall(t) ==
  /\ t \in Calls /\ Running(t, "stmt")
  /\ \E o \in {"ok", "failed", "interrupted"} :
       (o = "interrupted" => interrupted) /\ Finish(t, o)
  /\ UNCHANGED <<closing, busy, driverVars>>

\* The job of close(): checkpoint, set the flag, signal the closer.
RunClose(t) ==
  /\ t \in Closers /\ Running(t, "claimed")
  /\ closing' = TRUE
  /\ Finish(t, "join")
  /\ UNCHANGED <<busy, driverVars>>

\* A dropped job drops its oneshot, so its caller sees DbClosed (the closer
\* goes on), and a request's job drops the sending half of its channel.
Dropped(ts) ==
  pc' = [t \in Tasks |-> IF t \notin ts THEN pc[t]
                         ELSE IF t \in Closers THEN "join" ELSE "closed"]

QueuedTasks == {queue[i] : i \in 1..Len(queue)}

\* The break after the closing job, then drop(rx).
DropReceiver ==
  /\ thread = "up" /\ job = None /\ closing
  /\ thread' = "norx" /\ queue' = <<>>
  /\ Dropped(QueuedTasks)
  /\ UNCHANGED <<closing, joinable, job, jpc, busy, interrupted, ran, panics,
                 driverVars, late, sent>>

DropConnection ==
  /\ thread = "norx"
  /\ thread' = "gone"
  /\ UNCHANGED <<queue, closing, joinable, job, jpc, busy, interrupted, ran,
                 panics, driverVars, pc, late, sent>>

\* A panic unwinds the thread: receiver and connection go, nothing else does.
Panic ==
  /\ job # None /\ panics < MaxPanics
  /\ panics' = panics + 1
  /\ thread' = "gone" /\ job' = None /\ jpc' = "idle" /\ queue' = <<>>
  /\ Dropped(QueuedTasks \cup {job})
  /\ UNCHANGED <<closing, joinable, busy, interrupted, ran, driverVars, late, sent>>

-----------------------------------------------------------------------------
(* A guarded request on the thread: run_execute, execute_in_tx. *)

StoreBusy(r) ==
  /\ r \in Requests /\ Running(r, "claimed")
  /\ busy' = r /\ jpc' = "header"
  /\ UNCHANGED <<queue, thread, closing, joinable, job, interrupted, ran,
                 panics, driverVars, pc, late, sent>>

\* Mutant: frx is kept while the driver awaits the job.
Listening_keptReceiver(r) == fwd[r] # "end"

Listening(r) == fwd[r] \in {"recv", "send"}

\* blocking_send: waits while the channel is full, fails once frx is dropped.
PushFrame(r, frame, next, gone) ==
  \/ /\ Listening(r) /\ Len(chan[r]) < Capacity
     /\ chan' = [chan EXCEPT ![r] = Append(@, frame)]
     /\ Goto(next)
  \/ /\ ~ Listening(r)
     /\ Goto(gone)
     /\ UNCHANGED chan

\* BEGIN, the `_applied` lookup and the prepare, then the header frame; a
\* failure there goes straight to a terminal frame.
PushHeader(r) ==
  /\ Running(r, "header")
  /\ \/ PushFrame(r, "data", "ready", "ended")
     \/ Goto("error") /\ UNCHANGED chan
  /\ UNCHANGED <<timer, rows, fwd, hand, told, committed, pc, late, sent>>

\* answer_from_applied: an earlier request with this id has committed.
Replay(r) ==
  /\ Running(r, "header")
  /\ committed' = committed \cup {r}
  /\ PushFrame(r, "data", "done", "ended")
  /\ UNCHANGED <<timer, rows, fwd, hand, told, pc, late, sent>>

StartQuery(r) == r \in Requests /\ Running(r, "ready") /\ StartStatement("stmt")

\* One row batch out of rows.next().
NextRows(r) ==
  /\ r \in Requests /\ Running(r, "stmt") /\ ~ interrupted
  /\ rows[r] < MaxRowFrames
  /\ rows' = [rows EXCEPT ![r] = @ + 1]
  /\ Goto("push")
  /\ UNCHANGED <<timer, chan, fwd, hand, told, committed, pc, late, sent>>

PushRows(r) ==
  /\ r \in Requests /\ Running(r, "push")
  /\ PushFrame(r, "data", "stmt", "ended")
  /\ UNCHANGED <<timer, rows, fwd, hand, told, committed, pc, late, sent>>

\* The statement ends: exhausted or truncated, interrupted, out of budget or
\* past the progress handler's own deadline, or failed.
EndQuery(r) ==
  /\ r \in Requests /\ Running(r, "stmt")
  /\ Goto("commit") \/ Goto("timeout") \/ Goto("error")
  /\ UNCHANGED <<driverVars, pc, late, sent>>

StartCommit(r) == Running(r, "commit") /\ StartStatement("commit2")

\* Mutant: the interrupt noticed only after the transaction has committed.
Commit_lateInterrupt(r) ==
  /\ Running(r, "commit2")
  /\ committed' = committed \cup {r}
  /\ Goto("done") \/ (interrupted /\ Goto("timeout"))
  /\ UNCHANGED <<timer, chan, rows, fwd, hand, told, pc, late, sent>>

\* The `_applied` row and COMMIT, or their failure and the rollback.
Commit(r) ==
  /\ Running(r, "commit2")
  /\ \/ Goto("done") /\ committed' = committed \cup {r}
     \/ interrupted /\ Goto("timeout") /\ UNCHANGED committed
     \/ Goto("error") /\ UNCHANGED committed
  /\ UNCHANGED <<timer, chan, rows, fwd, hand, told, pc, late, sent>>

PushTerminal(r) ==
  /\ r \in Requests /\ job = r /\ jpc \in Terminals
  /\ PushFrame(r, jpc, "ended", "ended")
  /\ UNCHANGED <<timer, rows, fwd, hand, told, committed, pc, late, sent>>

\* Mutant: the generation is left in busy.
EndRequest_busy(r) ==
  /\ Running(r, "ended")
  /\ Finish(r, "ok")
  /\ UNCHANGED <<busy, closing, driverVars>>

\* busy.store(IDLE), the oneshot; ftx is dropped with the closure.
EndRequest(r) ==
  /\ Running(r, "ended")
  /\ busy' = None
  /\ Finish(r, "ok")
  /\ UNCHANGED <<closing, driverVars>>

-----------------------------------------------------------------------------
(* The driver of a request: its timer and its forwarding loop. *)

\* interrupt_if_running: the comparison ...
Deadline(r) ==
  /\ timer[r] = "armed"
  /\ timer' = [timer EXCEPT ![r] = IF busy = r THEN "seen" ELSE "missed"]
  /\ UNCHANGED <<threadVars, chan, rows, fwd, hand, told, committed, pc, late, sent>>

\* ... and, some time later, sqlite3_interrupt.
Interrupt(r) ==
  /\ timer[r] = "seen"
  /\ timer' = [timer EXCEPT ![r] = "fired"]
  /\ interrupted' = (thread # "gone")
  /\ UNCHANGED <<queue, thread, closing, joinable, job, jpc, busy, ran, panics,
                 chan, rows, fwd, hand, told, committed, pc, late, sent>>

\* frx.recv(): a frame, or None once ftx is dropped and the channel is dry.
Recv(r) ==
  /\ fwd[r] = "recv"
  /\ \/ /\ chan[r] # <<>>
        /\ hand' = [hand EXCEPT ![r] = Head(chan[r])]
        /\ chan' = [chan EXCEPT ![r] = Tail(@)]
        /\ fwd' = [fwd EXCEPT ![r] = "send"]
     \/ /\ chan[r] = <<>> /\ pc[r] \in Answered
        /\ fwd' = [fwd EXCEPT ![r] = "await"]
        /\ UNCHANGED <<hand, chan>>
  /\ UNCHANGED <<threadVars, timer, rows, told, committed, pc, late, sent>>

\* stream.send: the client's flow control lets the frame through, ...
ClientReads(r) ==
  /\ fwd[r] = "send"
  /\ told' = [told EXCEPT ![r] = IF hand[r] \in Terminals THEN hand[r] ELSE @]
  /\ hand' = [hand EXCEPT ![r] = "none"]
  /\ fwd' = [fwd EXCEPT ![r] = "recv"]
  /\ UNCHANGED <<threadVars, timer, chan, rows, committed, pc, late, sent>>

\* ... or the client is gone, and frx is dropped.
ClientGone(r) ==
  /\ fwd[r] = "send"
  /\ hand' = [hand EXCEPT ![r] = "none"]
  /\ chan' = [chan EXCEPT ![r] = <<>>]
  /\ fwd' = [fwd EXCEPT ![r] = "await"]
  /\ UNCHANGED <<threadVars, timer, rows, told, committed, pc, late, sent>>

\* exec.await returns; timer.abort() stops a timer that still sleeps.
EndDriver(r) ==
  /\ fwd[r] = "await" /\ pc[r] \in Answered
  /\ fwd' = [fwd EXCEPT ![r] = "end"]
  /\ timer' = [timer EXCEPT ![r] = IF @ = "armed" THEN "aborted" ELSE @]
  /\ UNCHANGED <<threadVars, chan, rows, hand, told, committed, pc, late, sent>>

-----------------------------------------------------------------------------
CallerStep == \/ \E t \in Calls : Call(t)
              \/ \E r \in Requests : Execute(r)
              \/ \E t \in Closers : CheckClosing(t) \/ Close(t)

CloserStep == \E t \in Closers : TakeHandle(t) \/ Joined(t)

ThreadStep ==
  \/ Take \/ DropReceiver \/ DropConnection
  \/ \E t \in Calls : StartCall(t) \/ FinishCall(t)
  \/ \E t \in Closers : RunClose(t)
  \/ \E r \in Requests : \/ StoreBusy(r) \/ PushHeader(r) \/ Replay(r)
                         \/ StartQuery(r) \/ NextRows(r) \/ PushRows(r) \/ EndQuery(r)
                         \/ StartCommit(r) \/ Commit(r) \/ PushTerminal(r)
                         \/ EndRequest(r)

TimerStep(r) == Deadline(r) \/ Interrupt(r)
DriverStep(r) == Recv(r) \/ EndDriver(r)
ClientStep(r) == ClientReads(r) \/ ClientGone(r)

Next == \/ CallerStep \/ CloserStep \/ ThreadStep \/ Panic
        \/ \E r \in Requests : TimerStep(r) \/ DriverStep(r) \/ ClientStep(r)

Spec == Init /\ [][Next]_vars

\* The operating system and the runtime schedule the thread and the tasks.
NodeSpec == /\ Spec /\ WF_vars(ThreadStep) /\ WF_vars(CloserStep)
            /\ \A r \in Requests : WF_vars(TimerStep(r)) /\ WF_vars(DriverStep(r))

\* ... and the clients go on reading, or leave.
FairSpec == NodeSpec /\ \A r \in Requests : WF_vars(ClientStep(r))

-----------------------------------------------------------------------------
(* Properties. *)

\* What the client is told is what happened to the transaction, however the
\* deadline, the commit and the closing of the thread interleave: "done" only
\* for a committed request, a timeout or an error only for one rolled back.
AnswerMatchesCommit ==
  \A r \in Requests : told[r] # "none" => (told[r] = "done" <=> r \in committed)

\* "Every handle clone answers DbClosed afterwards": no job submitted after
\* some close() has returned ever runs, even if another close() is still
\* waiting for the thread to end.
NothingRunsAfterClose == late \cap ran = {}

\* "Runs after every job queued so far": when a close() returns, whether it joined the
\* thread or found another one doing so, the jobs handed over up to and including the
\* first closing job have run and been answered, and none of those behind it has or will.
\* A panic ends the thread earlier, and still at one job of that order.
CloseIsABarrier ==
  \A c \in Closers : pc[c] = "returned" =>
    \E n \in 0..Len(sent) :
      /\ ran = {sent[i] : i \in 1..n}
      /\ \A i \in 1..n : pc[sent[i]] \in Answered \cup {"join", "joining"}
      /\ panics = 0 => n > 0 /\ \A i \in 1..n : sent[i] \in Closers <=> i = n

\* "Waits for the db thread to drop the connection (and with it every sqlite lock it
\* held)": whoever's close() returns finds the file released.
CloseReleases == \A c \in Closers : pc[c] = "returned" => thread = "gone"

\* Every job handed to the thread is answered, by its result or by DbClosed,
\* whatever closes or panics meanwhile, and every driver comes to its end.
EveryCallAnswered ==
  /\ \A t \in Tasks : (pc[t] = "queued") ~> (pc[t] \in Answered)
  /\ \A r \in Requests : (fwd[r] = "recv") ~> (fwd[r] = "end")
=============================================================================
