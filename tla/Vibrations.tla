---------------------------- MODULE Vibrations ----------------------------
(***************************************************************************)
(* How news of a committed row reaches those who wait for it: the sqlite   *)
(* hooks of the node's connection and the watcher of foreign commits       *)
(* (crates/node/src/pipeline.rs), entrainments with their capacity-one     *)
(* signals (entrain.rs, serve_entrain_lane), the hook runner of the        *)
(* serving process (cli/src/hooks.rs) and `rsntr await` (awaitcmd.rs).     *)
(*                                                                         *)
(* Rows are never deleted, so the rowid of a row is its place in its log.  *)
(* A row is an "event", or a "skip": one's own message, or a request the   *)
(* owner has decided.                                                      *)
(*                                                                         *)
(* The peer, the runner and `await` never write what another of them       *)
(* reads, so that it is enough to look at one of them at a time: the cast. *)
(***************************************************************************)
EXTENDS Naturals, Sequences, FiniteSets

CONSTANTS
  Casts,       \* the sets of consumers to look at
  MaxRows,     \* bound on the rows of both tables together
  MaxFaults    \* bound on deaths, shutdowns, rollbacks and failed accesses

ASSUME CastsAssumption == Casts \subseteq SUBSET {"peer", "runner", "await"}
ASSUME BoundsAssumption == MaxRows \in Nat /\ MaxFaults \in Nat

Tables == {"chat_messages", "_inbox"}

\* Entrainments: one of `await` on each table, and a peer on the chat inbox.
AwaitSub(t) == <<"await", t>>
Peer == <<"peer", "chat_messages">>
Subs == {AwaitSub(t) : t \in Tables} \cup {Peer}
TableOf(c) == c[2]

NoTx == [st |-> "none"]
NoRow == <<>>
Never == MaxRows + 1    \* no cursor is stored

VARIABLES
  cast,      \* the consumers there are
  log,       \* the rows of each table that every connection sees
  tx,        \* the transaction on the node's connection
  pend,      \* tables the update hook has collected
  foreign,   \* another connection has committed since the last scan
  server,    \* "down", "spawned" (runner and socket), "hooked", "up"
  sub, sig,  \* an entrainment and its dirty flag
  vib,       \* a frame its client has not read
  seen,      \* the row up to which the peer has read
  wake,      \* table names in the runner's channel
  hpc, dirty, batch, moved,   \* the runner's loop
  hcur,      \* its cursors
  stored,    \* its cursors in `_rsntr`
  apc, hand, acur,            \* the await process: place, event, cursor
  file,      \* its cursor file
  faults,
  ran,       \* rows whose hooks ran
  base,      \* the runner's cursors when none were stored
  missed,    \* tables with a row no wake is on its way for
  printed,   \* rows `await` has printed
  since      \* the cursor `await` started from when it had no file

data    == <<log, tx, pend, foreign>>
entrain == <<sub, sig, vib, seen>>
runner  == <<wake, hpc, dirty, batch, moved, hcur, stored, ran, base>>
awaiter == <<apc, hand, acur, file, printed, since>>
vars == <<cast, data, server, entrain, runner, awaiter, missed, faults>>

Kinds == {"event", "skip"}
NewRows == {<<"chat_messages", "event">>, <<"chat_messages", "skip">>, <<"_inbox", "event">>}
Cursors == [Tables -> 0..MaxRows]
RowIds == Tables \X (1..MaxRows)

End(t) == Len(log[t])

DataType ==
  /\ cast \in Casts /\ log \in [Tables -> Seq(Kinds)]
  /\ tx \in {NoTx} \cup [st : {"open", "hooked"}, table : Tables, kind : Kinds]
  /\ pend \in SUBSET Tables /\ foreign \in BOOLEAN
  /\ tx.st = "none" => pend = {}
  /\ server \in {"down", "spawned", "hooked", "up"}
  /\ missed \in SUBSET Tables /\ faults \in 0..MaxFaults
EntrainType ==
  /\ sub \in [Subs -> {"none", "on", "ended"}]
  /\ sig \in [Subs -> BOOLEAN] /\ vib \in [Subs -> BOOLEAN]
  /\ seen \in 0..MaxRows
RunnerType ==
  /\ wake \in SUBSET Tables /\ dirty \in SUBSET Tables
  /\ hpc \in {"off", "idle", "debounce", "read", "chat", "inbox"}
  /\ batch \in SUBSET RowIds
  /\ moved \in BOOLEAN /\ hcur \in Cursors /\ base \in Cursors
  /\ stored \in [Tables -> 0..Never] /\ ran \in SUBSET RowIds
AwaitType ==
  /\ apc \in {"off", "scan", "entrain", "blocked", "print", "save"}
  /\ acur \in Cursors /\ since \in Cursors /\ file \in Cursors \cup {NoRow}
  /\ printed \in SUBSET RowIds

TypeOK == /\ DataType /\ EntrainType /\ RunnerType /\ AwaitType
          /\ End("chat_messages") + End("_inbox") <= MaxRows

Zero == [t \in Tables |-> 0]

Init ==
  /\ cast \in Casts
  /\ log = [t \in Tables |-> <<>>] /\ tx = NoTx /\ pend = {} /\ foreign = FALSE
  /\ server = "down"
  /\ sub = [c \in Subs |-> "none"] /\ sig = [c \in Subs |-> FALSE]
  /\ vib = [c \in Subs |-> FALSE] /\ seen = 0
  /\ wake = {} /\ hpc = "off" /\ dirty = {} /\ batch = {} /\ moved = FALSE
  /\ hcur = Zero /\ stored = [t \in Tables |-> Never]
  /\ apc = "off" /\ hand = NoRow /\ acur = Zero /\ file = NoRow
  /\ faults = 0 /\ ran = {} /\ base = Zero /\ missed = {}
  /\ printed = {} /\ since = Zero

Ends == [t \in Tables |-> End(t)]
Fresh(t, cur) == {n \in (cur + 1)..End(t) : log[t][n] = "event"}
Least(S) == CHOOSE n \in S : \A m \in S : n <= m

HasRoom == \* the row of an open transaction counts
  End("chat_messages") + End("_inbox") + (IF tx.st = "none" THEN 0 ELSE 1) < MaxRows

\* The table observer's send to the runner, if there is one.
Observe(ts) == wake' = IF "runner" \in cast THEN wake \cup ts ELSE wake

Fault == faults < MaxFaults /\ faults' = faults + 1

-----------------------------------------------------------------------------
(* Commits.  Own writes run on the db thread, one at a time. *)

DbFree == tx.st = "none"

\* try_send on a channel of one: a full one already says "dirty".
Signal(ts) == sig' = [c \in Subs |-> sig[c] \/ (sub[c] = "on" /\ TableOf(c) \in ts)]

\* The update hook collects the table, if the hooks are installed.
Write(t, k) ==
  /\ server # "down" /\ DbFree /\ HasRoom
  /\ tx' = [st |-> "open", table |-> t, kind |-> k]
  /\ pend' = IF server = "spawned" THEN {} ELSE {t}
  /\ UNCHANGED <<cast, log, foreign, server, entrain, runner, awaiter, missed, faults>>

\* Mutant: the rollback hook does not forget the tables.
Rollback_keepsPending ==
  /\ tx.st = "open" /\ Fault
  /\ tx' = NoTx /\ UNCHANGED pend
  /\ UNCHANGED <<cast, log, foreign, server, entrain, runner, awaiter, missed>>

Rollback ==
  /\ tx.st = "open" /\ Fault
  /\ tx' = NoTx /\ pend' = {}
  /\ UNCHANGED <<cast, log, foreign, server, entrain, runner, awaiter, missed>>

\* Mutant: the entrainments of every table vibrate.
CommitHook_everyTable ==
  /\ tx.st = "open"
  /\ tx' = [tx EXCEPT !.st = "hooked"] /\ pend' = {}
  /\ Signal(IF pend = {} THEN {} ELSE Tables) /\ Observe(pend)
  /\ UNCHANGED <<cast, log, foreign, server, sub, vib, seen, hpc, dirty, batch, moved,
                 hcur, stored, ran, base, awaiter, missed, faults>>

\* sqlite calls the commit hook before it commits: fanout of each table.
CommitHook ==
  /\ tx.st = "open"
  /\ tx' = [tx EXCEPT !.st = "hooked"] /\ pend' = {}
  /\ Signal(pend) /\ Observe(pend)
  /\ UNCHANGED <<cast, log, foreign, server, sub, vib, seen, hpc, dirty, batch, moved,
                 hcur, stored, ran, base, awaiter, missed, faults>>

\* The commit: now other connections see the row.
Commit ==
  /\ tx.st = "hooked"
  /\ log' = [log EXCEPT ![tx.table] = Append(@, tx.kind)]
  /\ tx' = NoTx
  /\ missed' = IF server = "spawned" /\ "runner" \in cast
               THEN missed \cup {tx.table} ELSE missed
  /\ UNCHANGED <<cast, pend, foreign, server, entrain, runner, awaiter, faults>>

CommitFails ==
  /\ tx.st = "hooked" /\ Fault
  /\ tx' = NoTx
  /\ UNCHANGED <<cast, log, pend, foreign, server, entrain, runner, awaiter, missed>>

\* Another process commits a row (sqlite has one writer at a time) ...
ForeignWrite(t, k) ==
  /\ DbFree /\ HasRoom
  /\ log' = [log EXCEPT ![t] = Append(@, k)] /\ foreign' = TRUE
  /\ UNCHANGED <<cast, tx, pend, server, entrain, runner, awaiter, missed, faults>>

\* ... or the owner's decision on a parked request.
Decide(n) ==
  /\ DbFree /\ n \in Fresh("_inbox", 0)
  /\ log' = [log EXCEPT !["_inbox"][n] = "skip"] /\ foreign' = TRUE
  /\ UNCHANGED <<cast, tx, pend, server, entrain, runner, awaiter, missed, faults>>

\* foreign_change_scan: data_version has moved.
ForeignScan == server = "up" /\ DbFree /\ foreign /\ foreign' = FALSE

\* Mutant: foreign commits wake the observer and no entrainment.
WatcherTick_observerOnly ==
  /\ ForeignScan
  /\ Observe(Tables)
  /\ UNCHANGED <<cast, log, tx, pend, server, sub, sig, vib, seen, hpc, dirty, batch, moved,
                 hcur, stored, ran, base, awaiter, missed, faults>>

\* on_foreign_change: every table that is observed.
WatcherTick ==
  /\ ForeignScan
  /\ Signal(Tables) /\ Observe(Tables)
  /\ UNCHANGED <<cast, log, tx, pend, server, sub, vib, seen, hpc, dirty, batch, moved,
                 hcur, stored, ran, base, awaiter, missed, faults>>

-----------------------------------------------------------------------------
(* The serving process. *)

\* HookRunner::spawn: cursors from `_rsntr`, or where the tables end now.
SpawnRunner ==
  LET at == [t \in Tables |-> IF stored[t] = Never THEN End(t) ELSE stored[t]]
  IN  /\ server = "down"
      /\ server' = "spawned"
      /\ IF "runner" \in cast
         THEN /\ hpc' = "idle" /\ hcur' = at
              /\ base' = [t \in Tables |-> IF stored[t] = Never THEN End(t)
                                           ELSE base[t]]
              /\ missed' = {t \in Tables : at[t] < End(t)}
         ELSE UNCHANGED <<hpc, hcur, base, missed>>
      /\ UNCHANGED <<cast, data, entrain, wake, dirty, batch, moved, stored, ran,
                     awaiter, faults>>

\* install_vibration_hook.
InstallHook ==
  /\ server = "spawned" /\ DbFree
  /\ server' = "hooked"
  /\ UNCHANGED <<cast, data, entrain, runner, awaiter, missed, faults>>

\* start_change_watcher primes its baseline: earlier commits are part of it.
StartWatcher ==
  /\ server = "hooked" /\ DbFree
  /\ server' = "up" /\ foreign' = FALSE
  /\ missed' = IF foreign /\ "runner" \in cast
               THEN missed \cup {t \in Tables : hcur[t] < End(t)} ELSE missed
  /\ UNCHANGED <<cast, log, tx, pend, entrain, runner, awaiter, faults>>

\* ServingNode::shutdown, or the process dies: the runner is aborted where it
\* stands, an open transaction rolls back, every stream ends.
ServerStops ==
  /\ server # "down" /\ Fault
  /\ server' = "down" /\ tx' = NoTx /\ pend' = {}
  /\ sub' = [c \in Subs |-> IF sub[c] = "on" THEN "ended" ELSE sub[c]]
  /\ sig' = [c \in Subs |-> FALSE] /\ vib' = [c \in Subs |-> FALSE]
  /\ hpc' = "off" /\ hcur' = Zero /\ wake' = {} /\ dirty' = {} /\ batch' = {} /\ moved' = FALSE
  /\ missed' = {}
  /\ UNCHANGED <<cast, log, foreign, seen, stored, ran, base, awaiter>>

-----------------------------------------------------------------------------
(* serve_entrain_lane and the peer at the other end of one of its streams. *)

\* Subscribed, then acknowledged: the ack is the first frame.
Subscribe(c) ==
  /\ sub' = [sub EXCEPT ![c] = "on"] /\ sig' = [sig EXCEPT ![c] = FALSE]
  /\ vib' = [vib EXCEPT ![c] = TRUE]

SendVibration(c) ==
  /\ sub[c] = "on" /\ sig[c]
  /\ sig' = [sig EXCEPT ![c] = FALSE] /\ vib' = [vib EXCEPT ![c] = TRUE]
  /\ UNCHANGED <<cast, data, server, sub, seen, runner, awaiter, missed, faults>>

\* The send times out on a client that does not read: limit-exceeded.
DampSlow(c) ==
  /\ sub[c] = "on" /\ sig[c] /\ vib[c]
  /\ sub' = [sub EXCEPT ![c] = "ended"] /\ sig' = [sig EXCEPT ![c] = FALSE]
  /\ vib' = [vib EXCEPT ![c] = FALSE]
  /\ UNCHANGED <<cast, data, server, seen, runner, awaiter, missed, faults>>

PeerEntrains ==
  /\ "peer" \in cast
  /\ server = "up" /\ DbFree /\ sub[Peer] # "on"
  /\ Subscribe(Peer)
  /\ UNCHANGED <<cast, data, server, seen, runner, awaiter, missed, faults>>

\* Told of a change, the peer reads the table, through the node.
PeerReads ==
  /\ server = "up" /\ DbFree /\ vib[Peer]
  /\ vib' = [vib EXCEPT ![Peer] = FALSE] /\ seen' = End(TableOf(Peer))
  /\ UNCHANGED <<cast, data, server, sub, sig, runner, awaiter, missed, faults>>

PeerDamps ==
  /\ sub[Peer] = "on"
  /\ sub' = [sub EXCEPT ![Peer] = "none"] /\ sig' = [sig EXCEPT ![Peer] = FALSE]
  /\ vib' = [vib EXCEPT ![Peer] = FALSE]
  /\ UNCHANGED <<cast, data, server, seen, runner, awaiter, missed, faults>>

-----------------------------------------------------------------------------
(* The hook runner. *)

RunnerOnly == UNCHANGED <<cast, data, server, entrain, awaiter>>

\* rx.recv() wakes the task; what arrives in the next 100 ms joins the burst.
BeginBurst(t) ==
  /\ hpc = "idle" /\ t \in wake
  /\ hpc' = "debounce" /\ dirty' = {t} /\ wake' = wake \ {t}
  /\ RunnerOnly /\ UNCHANGED <<batch, moved, hcur, stored, ran, base, missed, faults>>

Collect(t) ==
  /\ hpc = "debounce" /\ t \in wake
  /\ dirty' = dirty \cup {t} /\ wake' = wake \ {t}
  /\ RunnerOnly
  /\ UNCHANGED <<hpc, batch, moved, hcur, stored, ran, base, missed, faults>>

Quiet ==
  /\ hpc = "debounce"
  /\ hpc' = "read" /\ moved' = FALSE
  /\ RunnerOnly
  /\ UNCHANGED <<wake, dirty, batch, hcur, stored, ran, base, missed, faults>>

\* chat_messages comes before _inbox.
InTurn(t) == /\ hpc = "read" /\ batch = {} /\ t \in dirty
             /\ t = "_inbox" => "chat_messages" \notin dirty

\* Mutant: the cursor is stored before the hooks have run.
ReadTable_storesFirst(t) ==
  /\ InTurn(t)
  /\ dirty' = dirty \ {t}
  /\ batch' = {t} \X Fresh(t, hcur[t])
  /\ hcur' = [hcur EXCEPT ![t] = End(t)]
  /\ stored' = [stored EXCEPT ![t] = End(t)]
  /\ moved' = (moved \/ End(t) > hcur[t])
  /\ missed' = IF tx.st = "hooked" /\ tx.table = t /\ t \notin wake
               THEN missed \cup {t} ELSE missed \ {t}
  /\ RunnerOnly /\ UNCHANGED <<hpc, wake, ran, base, faults>>

\* The rows past the cursor, on a connection of the runner's own: a commit
\* whose hook has run may not be visible yet.
ReadTable(t) ==
  /\ InTurn(t)
  /\ dirty' = dirty \ {t}
  /\ batch' = {t} \X Fresh(t, hcur[t])
  /\ hcur' = [hcur EXCEPT ![t] = End(t)]
  /\ moved' = (moved \/ End(t) > hcur[t])
  /\ missed' = IF tx.st = "hooked" /\ tx.table = t /\ t \notin wake
               THEN missed \cup {t} ELSE missed \ {t}
  /\ RunnerOnly /\ UNCHANGED <<hpc, wake, stored, ran, base, faults>>

ReadFails(t) ==
  /\ InTurn(t) /\ Fault
  /\ dirty' = dirty \ {t} /\ missed' = missed \cup {t}
  /\ RunnerOnly
  /\ UNCHANGED <<hpc, wake, batch, moved, hcur, stored, ran, base>>

\* dispatch: the hooks for the next event, which may outlast other commits.
Dispatch ==
  /\ hpc = "read"
  /\ \E x \in batch : /\ \A y \in batch : x[2] <= y[2]
                      /\ ran' = ran \cup {x} /\ batch' = batch \ {x}
  /\ RunnerOnly
  /\ UNCHANGED <<hpc, wake, dirty, moved, hcur, stored, base, missed, faults>>

\* Mutant: wakes that came while the hooks ran are drained.
EndBurst_drains ==
  /\ hpc = "read" /\ batch = {} /\ dirty = {}
  /\ hpc' = (IF moved THEN "chat" ELSE "idle") /\ wake' = {}
  /\ RunnerOnly
  /\ UNCHANGED <<dirty, batch, moved, hcur, stored, ran, base, missed, faults>>

EndBurst ==
  /\ hpc = "read" /\ batch = {} /\ dirty = {}
  /\ hpc' = IF moved THEN "chat" ELSE "idle"
  /\ RunnerOnly
  /\ UNCHANGED <<wake, dirty, batch, moved, hcur, stored, ran, base, missed, faults>>

\* set_rsntr of one cursor and then of the other.
StoreCursor(t) ==
  /\ DbFree /\ hpc = IF t = "_inbox" THEN "inbox" ELSE "chat"
  /\ stored' = [stored EXCEPT ![t] = hcur[t]]
  /\ hpc' = IF t = "_inbox" THEN "idle" ELSE "inbox"
  /\ RunnerOnly
  /\ UNCHANGED <<wake, dirty, batch, moved, hcur, ran, base, missed, faults>>

StoreFails ==
  /\ hpc \in {"chat", "inbox"} /\ Fault
  /\ hpc' = "idle"
  /\ RunnerOnly
  /\ UNCHANGED <<wake, dirty, batch, moved, hcur, stored, ran, base, missed>>

-----------------------------------------------------------------------------
(* rsntr await: one event a run, started again and again by its harness. *)

AwaitOnly == UNCHANGED <<cast, data, server, runner, missed, seen>>

Leave ==
  /\ apc' = "off" /\ hand' = NoRow /\ acur' = Zero
  /\ sub' = [c \in Subs |-> IF c = Peer THEN sub[c] ELSE "none"]
  /\ sig' = [c \in Subs |-> IF c = Peer THEN sig[c] ELSE FALSE]
  /\ vib' = [c \in Subs |-> IF c = Peer THEN vib[c] ELSE FALSE]

\* Mutant: a first run starts both tables at now.
initial_cursor_atNow == Ends

\* A first run: chat from now on, requests from the oldest open one.
initial_cursor ==
  [t \in Tables |-> IF t = "_inbox" /\ Fresh(t, 0) # {} THEN Least(Fresh(t, 0)) - 1
                    ELSE End(t)]

AwaitStarts ==
  /\ apc = "off" /\ "await" \in cast
  /\ apc' = "scan"
  /\ acur' = IF file = NoRow THEN initial_cursor ELSE file
  /\ since' = IF file = NoRow THEN initial_cursor ELSE since
  /\ AwaitOnly /\ UNCHANGED <<sub, sig, vib, hand, file, printed, faults>>

\* Mutant: both cursors move past everything that was read.
catch_up_bothEnds(none) ==
  \/ /\ \A t \in Tables : Fresh(t, acur[t]) = {}
     /\ acur' = Ends /\ apc' = none /\ UNCHANGED hand
  \/ \E t \in Tables :
       /\ Fresh(t, acur[t]) # {}
       /\ hand' = <<t, Least(Fresh(t, acur[t]))>> /\ apc' = "print"
       /\ acur' = [u \in Tables |-> IF u = t THEN Least(Fresh(t, acur[t]))
                                    ELSE End(u)]

\* The oldest unseen event: a stream with events left moves only when it is
\* the one picked, and only to the event.
catch_up(none) ==
  \/ /\ \A t \in Tables : Fresh(t, acur[t]) = {}
     /\ acur' = Ends /\ apc' = none /\ UNCHANGED hand
  \/ \E t \in Tables :
       /\ Fresh(t, acur[t]) # {}
       /\ hand' = <<t, Least(Fresh(t, acur[t]))>> /\ apc' = "print"
       /\ acur' = [u \in Tables |->
                     IF u = t THEN Least(Fresh(t, acur[t]))
                     ELSE IF Fresh(u, acur[u]) = {} THEN End(u) ELSE acur[u]]

FirstScan ==
  /\ apc = "scan" /\ catch_up("entrain")
  /\ AwaitOnly /\ UNCHANGED <<sub, sig, vib, file, printed, since, faults>>

\* Over the owner socket, first the chat inbox, then `_inbox`.
AwaitEntrains ==
  /\ apc = "entrain" /\ server # "down" /\ DbFree
  /\ \E t \in Tables :
       /\ sub[AwaitSub(t)] = "none"
       /\ t = "_inbox" => sub[AwaitSub("chat_messages")] # "none"
       /\ Subscribe(AwaitSub(t))
       /\ apc' = IF t = "_inbox" THEN "blocked" ELSE "entrain"
  /\ AwaitOnly /\ UNCHANGED <<hand, acur, file, printed, since, faults>>

\* No server, or a stream it has ended: the command fails.
AwaitBails ==
  /\ \/ apc = "entrain" /\ server = "down"
     \/ apc = "blocked" /\ \E t \in Tables : sub[AwaitSub(t)] = "ended"
  /\ Leave
  /\ AwaitOnly /\ UNCHANGED <<file, printed, since, faults>>

\* An ack or a vibration is a reason to look; `await` reads the file itself.
ReadFrame(t) ==
  /\ apc = "blocked" /\ vib[AwaitSub(t)]
  /\ vib' = [vib EXCEPT ![AwaitSub(t)] = FALSE]
  /\ catch_up("blocked")
  /\ AwaitOnly /\ UNCHANGED <<sub, sig, file, printed, since, faults>>

\* Every five seconds it looks unasked.
Rescan ==
  /\ apc = "blocked" /\ catch_up("blocked")
  /\ AwaitOnly /\ UNCHANGED <<sub, sig, vib, file, printed, since, faults>>

Timeout ==
  /\ apc = "blocked"
  /\ apc' = "save"
  /\ AwaitOnly /\ UNCHANGED <<sub, sig, vib, hand, acur, file, printed, since, faults>>

\* "Print, then persist."
PrintEvent ==
  /\ apc = "print"
  /\ apc' = "save" /\ printed' = printed \cup {hand}
  /\ AwaitOnly /\ UNCHANGED <<sub, sig, vib, hand, acur, file, since, faults>>

SaveCursor ==
  /\ apc = "save"
  /\ file' = acur /\ Leave
  /\ AwaitOnly /\ UNCHANGED <<printed, since, faults>>

AwaitDies ==
  /\ apc # "off" /\ Fault
  /\ Leave
  /\ AwaitOnly /\ UNCHANGED <<file, printed, since>>

-----------------------------------------------------------------------------
ServerStep == SpawnRunner \/ InstallHook \/ StartWatcher
RunnerStep == \/ Quiet \/ Dispatch \/ EndBurst
              \/ \E t \in Tables : BeginBurst(t) \/ ReadTable(t) \/ StoreCursor(t)
AwaitStep == \/ AwaitStarts \/ FirstScan \/ AwaitEntrains \/ AwaitBails \/ Rescan
             \/ PrintEvent \/ SaveCursor \/ \E t \in Tables : ReadFrame(t)

Others ==
  \/ \E r \in NewRows : Write(r[1], r[2]) \/ ForeignWrite(r[1], r[2])
  \/ \E n \in 1..MaxRows : Decide(n)
  \/ \E c \in Subs : DampSlow(c)
  \/ \E t \in Tables : Collect(t) \/ ReadFails(t)
  \/ Rollback \/ CommitFails \/ ServerStops \/ StoreFails
  \/ PeerEntrains \/ PeerDamps \/ Timeout \/ AwaitDies

Next == \/ CommitHook \/ Commit \/ ServerStep \/ RunnerStep \/ AwaitStep \/ WatcherTick
        \/ PeerReads \/ Others \/ \E c \in Subs : SendVibration(c)

Spec == Init /\ [][Next]_vars

\* A transaction that began ends; the runtime schedules the tasks, their
\* timers and the queue of the db thread; the owner's supervisor starts the
\* server and the harness `await`.
FairSpec ==
  /\ Spec
  /\ WF_vars(CommitHook) /\ WF_vars(Commit) /\ WF_vars(ServerStep)
  /\ WF_vars(RunnerStep) /\ WF_vars(WatcherTick) /\ WF_vars(AwaitStep)
  /\ WF_vars(PeerReads) /\ \A c \in Subs : WF_vars(SendVibration(c))

-----------------------------------------------------------------------------
(* Properties. *)

RowsOf(cur) == {x \in RowIds : x[2] <= cur[x[1]] /\ x[2] <= End(x[1])}
IsEvent(x) == x[2] <= End(x[1]) /\ log[x[1]][x[2]] = "event"

\* At-least-once, awaitcmd.rs: the saved cursor is never past an open event
\* that was not printed, wherever the process was killed.
AwaitSkipsNothing ==
  file # NoRow =>
    \A x \in RowsOf(file) \ RowsOf(since) : IsEvent(x) => x \in printed

\* The runner's stored cursors are never past an event whose hooks did not
\* run, wherever the serving process stopped.
HooksSkipNothing ==
  \A x \in RowIds :
    /\ stored[x[1]] # Never /\ x[2] > base[x[1]] /\ x[2] <= stored[x[1]]
    /\ IsEvent(x)
    => x \in ran

\* A vibration is about a write: the dirty flag of an entrainment rises only
\* when a transaction on its table commits or another process committed.
VibratesForWrites ==
  [][\A c \in Subs : (~ sig[c] /\ sig'[c]) =>
       \/ foreign /\ ~ foreign'
       \/ tx.st = "open" /\ tx'.st = "hooked" /\ tx.table = TableOf(c)]_vars

\* An entrained peer that reads the table through the node when it is told
\* to always comes to know every row again, though signals coalesce and
\* precede commits.
PeerCatchesUp == []<>(sub[Peer] # "on" \/ seen = End(TableOf(Peer)))

\* Every message and every open request is printed in the end, though
\* vibrations are lost and processes die, unless it is decided first or is a
\* message older than the first run.
AwaitHearsAll ==
  []<>("await" \in cast =>
         \A x \in RowIds :
           IsEvent(x) => \/ x \in printed
                         \/ x[1] = "chat_messages" /\ x \in RowsOf(since))

\* Hooks run for every event unless the table was read, or the server
\* started, in one of the windows `missed` records and nothing followed.
HooksHearAll ==
  []<>("runner" \in cast =>
         \A x \in RowIds : IsEvent(x) => \/ x \in ran \cup RowsOf(base)
                                         \/ x[1] \in missed)

\* hooks.rs: "a message that landed seconds before the previous server went
\* away still runs its hook in the next one": a row the running server has
\* been woken for is handled by it or by a later one.  This model refutes it: the
\* next server reads a table only once it is woken for it (README, section 6).
HooksRunInNextServe ==
  \A x \in RowIds :
    (/\ IsEvent(x) /\ server = "up" /\ "runner" \in cast
     /\ hcur[x[1]] < x[2] /\ x[1] \notin missed)
      ~> (x \in ran \/ ~ IsEvent(x))

\* No cursor is saved past an event that was not handled: await's file and the hooks' rows.
CursorsSkipNothing == TypeOK /\ AwaitSkipsNothing /\ HooksSkipNothing

\* Whoever listens hears every event in the end: an entrained peer, `rsntr await`, the hooks.
EveryoneHears == PeerCatchesUp /\ AwaitHearsAll /\ HooksHearAll
=============================================================================
