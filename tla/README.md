# Verification of the Resonator node

Resonator is a peer-to-peer data network in which every node is a SQLite
database with an identity. This directory holds TLA+ models of the parts of the
node that are hard to test: durable delivery, the database thread, admission of
requests, the knock limiter, the propagation of changes, chat rooms, the life of
a node directory and its server, requests over the wire, modulations and
plugins, media sessions, and a node embedded in an application. TLC checks them
on small instances, and TLAPS proves the central results for every instance.
`PROJECT.json` names, for every definition, the source lines it stands for.

Source paths below are relative to `crates/`.

## 1. The system

| part | code | state it keeps | operations | talks to |
|---|---|---|---|---|
| outbox worker | `surfaces/src/outbox.rs` | `_outbox`, `_results`; the in-memory retry schedule | enqueue, tick, expire, ship, read the answer, back off | transport, serving node, `_peers` |
| serving pipeline | `node/src/pipeline.rs` | `_applied`, `_audit`, `_knock_budget`, entrainments | hello, knock, screen, execute, entrain, modulation lanes | database thread, authenticator, transport |
| database thread | `node/src/db.rs` | the only writing connection of the node, a job queue, the running generation | call, guarded call, interrupt, close | everything that touches the node's tables |
| authenticator | `authenticator/src` | `_policy`, `_decisions`, `_rsntr.auth_*` | the chain of tiers: cache, policy, script, human | pipeline; `_inbox` |
| owner commands | `cli/src/inboxcmd.rs`, `peercmd.rs`, `web/src/api.rs` | none of their own | answer, remember, grant, peer add and remove | the tables, by a connection of their own or a job on the thread |
| change watch | `node/src/pipeline.rs`, `entrain.rs` | pending tables, subscriptions, dirty flags, `data_version` baseline | hooks, fan-out, foreign scan, entrain, damp | peers, runner, `await`, web streams |
| hooks, await | `cli/src/hooks.rs`, `awaitcmd.rs` | two cursors each, in `_rsntr` or in a file | debounce, read, dispatch, store; catch up, block, print, save | the change watch |
| database and migration | `node/src/ddl.rs`, `cli/src/store.rs` | key file, database, schema version, init lock | init, open, migrate, record dial hints | every process that opens the directory |
| serve, lease, detach | `cli/src/serve.rs`, `lease.rs`, `detach.rs` | the lease (a kernel lock), socket, owner record, pid file, published ticket | acquire, start, serve, shut down, detach, stop | directory, transport, pipeline |
| owner channel | `cli/src/owner.rs`, `owner_socket.rs`, `owner_tcp.rs`, `channel.rs` | the socket and the record beside the database | route a command to the server, tunnel a stream to a peer | serving process, transport |
| chat | `node/src/chat.rs`, `cli/src/chat.rs` | rooms, members, messages, spilled texts | init, create, add, join, send, receive, fan out, log | outbox, pipeline, blobs |
| mods | `mods/src`, `node/src/mod_install.rs`, `python` | `_modulations`, the registered handler, the hello | install, load, reload, remove, run, emit, query | pipeline, policy, inbox, transport |
| media | `node/src/media.rs`, `serve_media` and `serve_audio_duplex` in the pipeline, `web/src/duplex.rs`, `cli/src/pipecmd.rs` | `_media`, feeds, child processes, browser exchanges | open, pump, write stdin, tear down, publish, withdraw, bridge | transport, web |
| transport | `transport/src`, `protocol/src` | pooled connections, the hello, a bounded queue of requests | dial, accept, greet, gate, stream, evict | everything remote |
| presence | `surfaces/src/presence.rs` | last time a peer was heard | beacon, receive | gossip |
| remote tables | `surfaces/src/remote.rs` | virtual tables with a peer, a table and a cursor | connect, plan, scan a peer, write to a peer row by row | database thread, transport |
| read lanes | `projection.rs`, `system.rs`, `help.rs`, `footprint.rs`, `sparql/` | none | compute an answer from tables | pipeline |
| embedding | `ffi`, `python`, `node/src/apps.rs` | the handle: serving pipeline, in-process pipeline, entrainments, dispatcher queue; `_apps` | serve, suspend, stop, entrain, publish, declare | lease, pipeline, media |
| surfaces | `web`, `cli`, `pdk`, mobile, web UI | none that matters here | pass calls on | all of the above |

Two nodes meet in three ways. A stranger *knocks* and the limiter decides
whether anybody looks at it. An admitted peer sends a *request* that is
screened by the decider chain and executed in a transaction on the database
thread. A peer may also *entrain* on a point of the node and is told when its
table changes. Inside a node, processes share the SQLite file: the server, the
owner's commands, `rsntr await` and any application may commit at any moment.

### What is hard here, and what must hold

- **Delivery.** A request is resent after a lost answer, a restart or a death
  on either side, possibly while an abandoned stream still executes it. It must
  be applied at most once, a row shown as done must be true, and every row must
  settle.
- **The thread.** Deadlines, commits, closes, panics and a client that reads
  slowly meet on one thread. The terminal frame must tell what happened to the
  transaction, and everybody who waits must be answered.
- **Admission.** Owner commands are sequences of statements outside any
  transaction, against a chain that reads the same tables and whose tiers may
  fail. Nothing may be cleared without the owner's authority.
- **The limiter.** Two token buckets in a table whose reads and writes may
  fail, refilled from a wall clock that may be set back.
- **Changes.** A signal may coalesce, precede its commit, or come from another
  process; cursors are stored after the work they stand for. Nothing may be
  skipped, and consumers must catch up.

- **Rooms.** A host fans messages out through a queue that resends; commands
  that change a room are sequences of statements and may be killed between two;
  long texts are previews whose blob is elsewhere. Authors and texts must be
  true, nobody gets a message twice or after being removed, every member hears.
- **The directory.** Several processes create, migrate, serve, probe and stop
  one directory and are killed at any step. There must be one endpoint per key,
  it must be reachable, and edits of the operator must survive migrations.
- **Calls.** One pool of connections is shared by all callers, a peer restarts
  behind a connection that looks open, the daemon between a command and a peer
  dies. A cut answer must not read as a whole one, and every call must end.
- **Modulations.** Installing is a row, a compile, a swap and a hello with no
  lock over them, while calls run on the handler they were dispatched to. What
  is served must be what was let in and what is advertised.
- **Sessions.** A child process, its stdin writer, a caller and a relay run
  beside each other over bounded channels. Nothing may outlive the session, and
  nobody may be wedged by somebody who stopped reading.
- **Embedding.** An application's threads serve, suspend, entrain and publish
  over one handle. After a suspend nothing may be held, and callbacks must come
  in order, ended once and with the true reason.

The hazards, each at its line, are in `PROJECT.json`.

## 2. Modules

| module | models | composed of |
|---|---|---|
| `Outbox` | worker, request lanes and ledgers of the serving nodes, peer removal's cancellation | both ends in one state machine |
| `Delivery` | the promise made to an application, abstractly | instantiated by `Outbox` |
| `DbThread` | `DbHandle`, the driver of a request with its timer and bounded channel | extended by `RemoteTables` |
| `RemoteTables` | `remote_query` and `iroh_remote`, on the thread and at the peer | extends `DbThread` |
| `DbThreadProofs` | theorems about both | extends `RemoteTables` |
| `PolicyRules` | what a `_policy` table says, declaratively | extended by the next two |
| `PolicyTier` | the loops of `resolve` and `decide` | |
| `Admission` | the four tables, the chain, parking, answers and removal | uses `PolicyRules` |
| `KnockBudget` | `spend_knock_token` | |
| `AdmissionProofs` | theorems about `Admission`, the loops of the tier and the knock budget | extends `Admission`, `PolicyTier` and `KnockBudget` |
| `Vibrations` | hooks, watcher, entrainments, hook runner, `await` | |
| `VibrationsProofs` | theorems about `Vibrations` | extends `Vibrations` |
| `Chat` | rooms and messages on several nodes | the promise of `Outbox` as its queue |
| `ChatProofs` | theorems about `Chat` | extends `Chat` |
| `NodeDir` | one directory and the processes that share it | |
| `NodeProofs` | theorems about `Outbox` and `NodeDir` | extends both |
| `Envelope` | frames, documents and the readers of a response | extended by `Transport` |
| `Transport` | pool, acceptor, peers, the tunnel and the relay | extends `Envelope` |
| `TransportProofs` | theorems about the pool of `Transport` | extends `Transport` |
| `Mods` | dispatch by tag, install, reload, the run of a mod, read lanes | extends `PolicyRules` |
| `Media` | media and duplex sessions, host feeds, `rsntr pipe` | extended by `Embed` |
| `Embed` | the handle of an application, beside the sessions of `Media` | extends `Media` |
| `EmbedProofs` | theorems about the handle and the callbacks of `Embed` | extends `Embed` |
| `SessionProofs` | theorems about the sessions of `Media` beside them | extends `EmbedProofs` |
| `MC*` | values for the constants of each of them | `MCAdmission`: the chain, or one evaluation of the policy tier, which has a table of its own |

### Outbox

A row of `_outbox` is its request id, which is also the id on the wire of every
resend. `status` and `results` are the two tables, `aged` the rows past their
expiry, `known` the sender's `_peers`. The worker is one task: `wpc` says where
it is, `todo` and `old` are what the running tick scanned (they are stale as
soon as the scan ends), `backoff` the rows whose next attempt lies ahead, `row`
and `cur` the row and the stream in hand. A *job* is a stream; the worker has
one at a time, but streams it gave up on live on at the node (`phase`, `rowOf`).
A node has one write lock (`lock`), a policy, the `_applied` ledger and, as a
ghost, how often each statement was committed (`effects`, where 2 stands for
more than once).

Worker actions follow the loop: `Scan`, then per row `SkipBackedOff`,
`ExpireRow`, `RefuseRow`, `DialFails` or `DialOpens`, then `MarkSent`, `Ship`,
and `ReadAnswer`, `ReadCut` or `SendFails`. `Serve(j)` is the node:
`Screen` reads the policy in one database job, and `ExecuteRead`, `RunPlugin`
or `BeginWrite` and `Commit` run in a later one, so the policy can change in
between. `BeginWrite` looks the ledger up under the lock, `Commit` writes effect
and ledger row together. `SenderDies`, `NodeDies` and failed writes share
`MaxFaults`; losing a connection is not bounded.

### DbThread

A task is a plain call, a guarded request or the closing job; its identity
stands for its closure, its oneshot and its generation. `queue`, `thread`,
`closing` and `joinable` are the handle; `job`, `jpc`, `busy` and `interrupted`
the thread and SQLite's flag. Each request has a `timer`, a bounded channel
`chan`, a forwarding loop `fwd` and what the client was `told`. The comparison of
generations (`Deadline`) and the call to `sqlite3_interrupt` (`Interrupt`) are two
steps, as in the code. A full channel blocks the thread, as `blocking_send` does.
So are the look of `close()` at its flag (`CheckClosing`) and the sending of its job
(`Close`), and then it takes the join handle or finds it taken (`TakeHandle`). The
ghost `sent` is every job the thread was handed, in order.

### RemoteTables

SQLite calls a virtual table while the thread prepares or steps a statement, and
the thread then waits for a peer. `vt` is how far the table is in the statement,
`wire` the call the thread is blocked in; `InStep` ties the steps of `DbThread`
to both: no header before the table is connected, no row before the scan, no
commit before the last row is written. `best_index` divides the WHERE, `filter`
fetches, `exec` writes one row. `ptable` is the table at the peer, which others
write too; a call that is given up may leave a write behind (`strays`) that the
peer serves later. The answers that make a call fail (denied, error, transport,
protocol, timeout) are one. Constraints and fetched rows are sets: `Checked` is what
is left of the `cursor` after SQLite's own checks, `Matching` the order it is met
in, by rowid. A *plan* says what the statement is, whose request it is and which
of the tasks of `DbThread` run beside it.

### PolicyRules, PolicyTier and Admission

`PolicyRules` says what a table of rules means: rules that match, the most
specific of them, and deny among equals. `PolicyTier` is the code's two nested
loops, row by row in any order. `Admission` uses the meaning and adds the chain
with its masks and failing tiers, remembered decisions, parking in `_inbox`, the
owner's sessions as sequences of statements (CLI) or as one job of the thread
(web), removal of a peer and rules edited by hand. A request's *shape* is what
`statement_fingerprint` tells apart.

### KnockBudget

One row per key and a shared one: level and time stamp. `spend_knock_token`
reads both levels (a failed read counts as a full bucket), grants if both hold a
token, and stores both (a failed store changes nothing). The ghosts `spent`,
`elapsed` and `excused` describe a window that may start at any moment.

### Vibrations

`log` is what every connection sees; the node's own transaction `tx` passes
through the update hook, the commit hook and the commit, which are separate
because SQLite calls the commit hook first. `foreign` says that another
connection has committed since the watcher's last look. Entrainments have a
dirty flag `sig` (the channel of capacity one) and an unread frame `vib`. The
runner debounces, reads, dispatches and stores its two cursors (`batch` is the set of
events it has read and not yet dispatched, and the oldest goes first); `await` catches
up, entrains, blocks, prints and saves. Ghosts record which rows were handled.
The three kinds of consumer write nothing that another of them reads, so a
behaviour follows one of them at a time (`cast`).

### Chat

`db` holds a node's chat tables, roster, policy and peers, `outbox` the queued
deliveries, `blobs` the texts a node can serve. A command (`chat_init_with`,
`room_create_with`, `chat_send_opts`, `peer_remove_with` ...) is the sequence of
statements it sends, `run` what is left of it; `Begin` reads the database,
`Command` runs one statement and `Abort` drops the rest. `Deliver` is the outbox worker over the receiving
`handle_chat`, whose answer may be lost and which is then called again. A message
on the wire is a set of predicate-object pairs, so that missing and contradictory
fields are there. The workloads put a removal beside a message in flight, a
member at the wrong host, spilled texts, a node without chat beside
ill-formed signals, and a member who removes the host and writes on.
`IsCommand` says what arguments a command has. The ghosts `gone` and `crossed`
are for removal: a pair is in `gone` once a removal ran with no command beside it
that puts rows back, and until such a command addresses the peer again
(`Addressed`).

### NodeDir

`key`, `db`, the init lock, the database's write lock, the lease and the three
files are what the processes share; `pc` walks a process from
`ensure_dir_initialized` through `init_locked`, `acquire`, `migrate` and the
binds of `cmd_serve` to the steps of `shutdown`. Either owner endpoint may fail to
bind, with the leftover of the run before removed or not, and the node serves on
(`owner_socket_bind`, `owner_tcp_bind`; `bound` is what a process listens on), so whom
a dial reaches (`Dialed`) depends on the files and on who listens behind them. A probe of the lease takes it
shared for an instant. `Die` can hit every step: the kernel drops locks and
listeners, files stay. `rsntr stop` is a process of its own with a
signal, a grace period and a forced clean-up. A migration decides on a read, waits for the write lock
and looks again, as the code does. An address of a peer may be reported again and
again; `Merged` moves it to the front. Ghosts: `refused`, `crossed`, `removed` and
`merges`, the reports in order.

### Envelope and Transport

A frame is a document, the sequence of its triples. `encode` and `decode` are
the code's conversions, driven by one table of the properties of each class
(required, optional, repeated, list, flag). `ResponseReader` and
`EntrainmentReader` are the state machines that accept or refuse the next frame.
`Transport` has the pool with its mutex (`lock`, held across a dial as in the
code), connections with what this side believes of them, the peer's accept
loop with its hello and modulation gate, the bounded `queue` of requests,
the modulations that `accept_bi` takes along for `route_request` to judge by later,
and three kinds of caller: through the web relay with its eviction and retry,
through the daemon's tunnel, and from a process of its own. A peer may restart
or vanish, a connection be lost, the daemon die, a caller leave. What the tunnel
has passed on by then may end within a frame (`cut`), which the caller's
`decode_frame_eof` refuses.

### Mods

A request goes from the hello gate (`hello`) to a lane by its tag
(`mod_matches`, `dispatch_owner`). `mod-install` is the gate of the chain, the
parked question, the fetch, `upsert`, and the reload in its separate steps.
A call remembers the handler it was dispatched to (`job.h`) and runs the mod's
script call by call: emissions pass the row and byte accounting and the bounded
channel, statements ask the capability and then the policy of that
moment. The Python handler and the lanes for pages, help, projection and system
are there with their own gates. The ghost `warrant` is what the owner or the
policy gave an installer.

### Media and Embed

A session in `Media` is the serving task (`pc`, `phase`), the child's process
group and pipes, the stdin writer with its channel `q`, the two directions of
the stream with a window, and for a browser the relay and its POST channel. A POST
takes its sender from the entry (`PostLookup`) and sends later (`PostSend`), while the
relay may end and the entry go. A
chunk is a number, so order, gaps and drops are visible. Host feeds are numbered;
a viewer has a position and a count of what it skipped. `pipe accept`
inserts a temporary source and deletes it; its session waits for the bridge and then
for the end of its own stdin. `Embed` adds the handle: each call of
a thread proceeds in the steps between which the code holds no lock,
entrainments are tasks that end by the peer, by `damp`, by drop or by suspend,
and callbacks pass one dispatcher queue. Another process may serve the
directory at the same time.

## 3. Runs

| run | question and instance | result |
|---|---|---|
| `outbox_safety` | A write and a read to one peer, two streams, one fault. Two streams are needed for a resend to meet an abandoned first attempt. | at most once, truthful status, results exactly for done rows, settled rows stay, and `Delivery` is implemented |
| `outbox_live` | A write and a plugin row, one stream, one fault, fair. | a done row took effect; every row settles |
| `db_thread` | A call or a request beside two concurrent closes, or both beside one, a channel of one frame, one row frame, one panic. A capacity of one makes the thread block at the earliest moment. Or a request over a peer's table of two rows: select, update, delete, insert, `remote_query`, with and without a probe, beside a close or another writer at the peer. | answers match commits, nothing runs after a close, every close returns behind exactly the jobs in front of the first closing job, everybody is answered however silent the peer; a remote table works on exactly the rows of the WHERE, wherever its parts are evaluated, and writes them once, in order, all of them if the statement succeeds |
| `knock_budget` | Two keys and the shared bucket, four clock values, four elapsed seconds, one fault. | the rate bound; a dropped knock costs nothing |
| `admission` | One peer, one shape, two inbox rows, a CLI and a web session, failing cache and policy tiers, masks. Or one evaluation of the policy tier, row by row: every set of rules over two tables and the wildcard, every footprint, all orders. | clearance needs the owner; one pending row per question; sessions that do not overlap leave cache and inbox consistent and a removed peer with nothing; the tier's loops agree with the declarative reading |
| `vibrations` | Two rows over two tables, two faults, one consumer at a time, fair. | cursors skip nothing, vibrations stand for writes, peer, runner and `await` catch up |
| `chat` | Five workloads over three or four nodes, one kill or lost answer, fair deliveries. | what a room shows is true, what it promises is kept, members hear |
| `node_dir` | Two builds, an old directory with three starts together or an empty one with two, two disturbances (probe, death, stop, address report), one retry of the lease, owner endpoints that may fail to bind. | the directory is sound, one server that is found wherever it managed to bind, the version never falls |
| `transport` | Two calls, two peers, queue of one; a scenario for each disturbance, legal and illegal answer. | callers report what happened, the pool is sound, calls end |
| `mods` | Up to four requests, channel of one, limits of a few rows; a scenario for each way a modulation changes under a call, one crash. | what is served was let in, requests leave a true trace, statements are decided when made, every request ends |
| `embed` | Two sessions, two entrainments, two threads, capacities of one or two; 34 scenarios. | sessions, handle and callbacks are sound, everything ends that should |
| `held_by_runtime` | Entrainments whose handle the application drops: does the runtime hold them, as the doc says? | no: they end (section 6) |

The invariants of a component are conjunctions of named parts, one to a promise
(`RoomIsTrue == TypeOK /\ AuthorsAreTrue /\ ...`). Each part is broken by at least
one mutant of the code in `PROJECT.json`.

`KeepsPromise` is refinement: a row's status is the fate of the request
(`queued` and `sent` are *pending*; `denied`, `error` and `expired` are *failed*)
and a positive `effects` is execution. A failed request may still be executed
later: expiry and cancellation do not reach a stream that is under way, and a
resend of an applied write may be denied if the policy was revoked in between.

`HooksHearAll` excuses a table in `missed`: one that was read, or whose server
started, in a window the code leaves open. These are a read after the
commit hook and before the commit, a failed read, rows committed before the
hooks were installed or the watcher primed, and rows left from an earlier
server. A later write to the table closes each of them.

### Bounds

`MaxFaults`, `MaxPanics`, `MaxRows`, `MaxRowFrames`, `MaxNow`, `MaxElapsed`,
`Ids`, `Jobs`, `MaxRuns`, `MaxNew`, `MaxTrouble` and `MaxVib` are the bounds; in `Chat`,
`Transport`, `Mods` and `Embed` a *scenario* (or workload) also bounds what the
clients do: who calls, how often, with what script, and which disturbances may
happen. What happens, in which order, is left open. Capacities are
constants of the code brought down to one or two (`QueueMax`, `Channel`,
`FeedCap`, `StdinCap`, `PostCap`, `Window`, `PipeCap`), so that full queues are
reached at once. Each instance holds the pairs that matter: two attempts of one
row, two closers of one handle, two sessions on one inbox row, two buckets, two
processes of different builds, two callers of one pool, a call beside an
install, a viewer beside a republished feed, two threads on one handle.
In the browser-relay scenarios of `embed` a caller says no more than the window
holds, because of the mutual wait described in section 6.

Streams (`outbox_safety`), keys (`knock_budget`) and addresses (`node_dir`) are
symmetric and reduced; no liveness run uses symmetry. `Retries` is one in `node_dir` and
the two disturbances may both be probes, so a start that is turned away by probes alone
does happen. Deadlock is checked for `Outbox`, which never comes
to rest; the other systems may stop: all tasks are answered, all rows written,
all inbox ids used, all calls ended.

### Fairness

- `Outbox`: weak fairness of the worker, its timers, ageing and the restart of
  the process (`SenderSpec`), and for `outbox_live` of the serving nodes, whose
  execution is bounded by a deadline and the busy timeout. Connections may
  break for ever; expiry, not delivery, settles a row then.
- `DbThread`: the operating system schedules the thread and the runtime the
  tasks and timers, the deadline of a call to a peer among them (the peer itself
  need not do anything); and a client reads or leaves. The last is an
  assumption on the client: see section 6.
- `Vibrations`: transactions end, tasks and the five-second rescan run,
  and a supervisor restarts server and `await`. Neither new writes nor the end
  of debouncing by further wakes is forced.

- `Chat`: the worker keeps delivering; losses are bounded. Nobody has to give or
  finish a command.
- `Transport`: the two endpoints' tasks, the tunnel and the timers run
  (`Step`, as a whole); peers, daemon and callers need not do anything.
- `Mods`: the handler of each accepted request runs, including its
  timeout, which the code enforces by an epoch deadline; a caller need not ask.
- `Embed`: weak fairness of each session's server, relay and reading caller, of
  each stdin writer, of each entrainment's task and of the dispatcher. Nobody has
  to open, write, talk or leave.

`NodeDir` has no liveness property: processes may be killed or wait for ever for
a lock that is held.

## 4. Proofs

All are checked by TLAPS with SMT, Zenon and, for the temporal steps, LS4.

**NodeProofs** of the outbox, for any rows, peers, streams and number of faults, from the
assumptions of `Outbox` (rows have a peer and a kind, the two null values are
none of theirs). `AppliedAtMostOnce` is not inductive: a second commit is
excluded because an open transaction holds the lock of its node on a row that is
not in the ledger (`TxInv`), and a done row is true because every positive
answer under way stands for a commit (`AnswerInv`), which needs that a stream
carries its row for as long as it lives (`SlotInv`, `WorkerInv`). `HandInv`
says what the stale snapshot can hold: pending rows, or rows that removal set to
`error`. The conjunction `Inv` with the three invariants is preserved, one lemma
per actor (`TablesKeepInv`, `RowStepKeepsInv`, `WorkerKeepsInv`, `ServeKeepsInv`,
`FaultsKeepInv`). From it: `TypeCorrect`, `AtMostOnce`, `DoneIsTrue`,
`ResultsMatchStatus`, the action property `SettledRowsStay`, and
`OutboxImplementsDelivery`, for which `StatusSteps` and `EffectSteps` say how far
a step can move a row's status and effects, and that no step moves both.

**DbThreadProofs**, for any calls, requests and closers, channel capacity and number
of panics. What a client was told passes through the channel and the forwarding
loop after the thread has decided it, so `AnswerMatchesCommit` needs what every
frame on its way means: a terminal frame, in the channel or in hand, agrees with
`committed`, it is the last of its request, and the thread does not come back to a
request that it has left. `CloseIsABarrier` needs the order of all jobs: `OrderInv`
says that those that ran are the first so many the thread was handed, that all but the
running one are answered, that the rest is the queue, and that a closing job is the last
of them. `RemoteRefines` shows that
`RSpec` takes only steps of `Spec`, since remote tables only delay the thread, so
all of this holds with them too. On top of it `RemoteInv` has one part per question:
where a thread may be blocked (`BlockedInv`), what the scan fetched and from which
table (`ScanInv`), how many writes are out, answered or given up (`CountInv`,
`DoneInv`), and the rowid of an insert (`InsertInv`). `RemoteIsTrue` follows for
any table at the peer, any WHERE clause and any meaning of the operators (`Holds`
is a constant); the plan names one of the kinds of statement and the request it
belongs to (`PlansAssumption`).

**AdmissionProofs**, for any peers, shapes, footprints, rules, chain of tiers, masks,
failing tiers, sessions and grant lists, from the assumptions that names differ,
that the chain consists of tiers and that lists are lists (`RulesAssumption`).
`ClearedByOwner` is about the moment of a screening. It is inductive only with
`OwnerInv`: whatever is remembered as allowed, or stands in the statements some
session has still to run, the owner has allowed; that the policy tier allows only
what rules allow is the lemma `PolicyAllows`. `OnePendingRow` needs that a waiting
row names its peer. `SerialSessionsHold` needs most (`SerialInv`): without overlap
one session at most has statements left, and each of them is *in turn* (`InTurn`):
a row is marked first and while it waits, a remembered allow is that of a row which
reads or is about to read "allow", nothing is granted to a peer who is being
removed, and the rules of a removed peer go before its decisions.

Of the policy tier, for any tables, rules and footprint: the invariant of the inner
loop is that it holds the highest score read so far and whether all rows
with that score allow; that of the outer loop, that no resource resolved so far
denies and `unmatched` remembers one without a rule. `PolicyTierCorrect` is the
agreement with `PolicyRules`.

Of the knock budget, for any keys, costs, bursts and clock: `WindowBound`
is strengthened by what the buckets still hold: spent plus level is at most
burst plus elapsed plus excused (`BudgetInv`), and no level exceeds its burst
(`LevelInv`). `KnocksAreLimited` follows. `DropsAreFree` is the action property: a
knock that is dropped stores the two levels it read, so no bucket drains another.

**NodeProofs** of the directory, for any processes and builds, any number of runs,
deaths, stops, probes and reports. `LeaseInv` relates a process's place to the lease: it is held
from the acquire to the end of the shutdown, and by one process (`OneEndpoint`).
`TraceInv` says whose socket, record, pid file and ticket a server at each step of
start and shutdown finds, of those it managed to bind, unless a stop has crossed it.
`ServersAreReachable` and `ServerIsFound` follow for every outcome of the two binds: a
dial reaches a server through each endpoint it has and never anybody else, not even over
the leftover of a run whose place a failed bind has not taken. `MakeInv` and `ModsInv`
follow initialisation and migration under their locks, where a read from before
the lock is checked again behind it. `FreshestAddrs` is inductive as it stands with
the snapshot of a report that is under way. That a start is refused only by a
server is proved while there were at most as many probes as `acquire` has retries
(`ProbeInv`): more can refuse a start with nobody serving, and in the run they do.

**VibrationsProofs**, for any number of rows and faults. A stored cursor says nothing
by itself about what was done before it was stored, so `HooksSkipNothing` needs that
of the cursor in memory: an event between the runner's start and its cursor has run
or is in the batch (`RunInv`), and a cursor is stored only with an empty batch. For
`await` it is printed or in hand (`AwaitInv`), through the two branches of `catch_up`
and with a first cursor in front of the oldest open inbox row. Both rest on rows that
only appear at the end of a table and never become an event again (`LogStep`), and
on cursors that never pass the end (a cursor beyond it would skip what comes next).
`VibratesForWrites` needs that the tables collected by the update hook are those of
the open transaction (`DataInv`).

**ChatProofs**, for any finite set of nodes, any workload of commands and any number
of faults. The assumptions on commands are those of `IsCommand` and
`WorkloadsAssumption`: a room has one creator, nobody joins a room at itself or
removes itself, a message's id is used by one command, and an application that
writes `_outbox` itself names no id, author or blob (a member takes the author of a
message in a room from the host, by design, `node/src/chat.rs:590`). No property about
authors, texts or removals is inductive by itself, because a message passes through a command's statements, the author's
queue, the host's tables, the host's queue and the member's tables. So `Inv` says of
each place that what it holds is what the author said: a statement still to run
(`StatementTrue`), what is on the wire (`WireTrue`), a queued row (`RowTrue`), a stored
message (`EntryTrue`, `DbTrue`). Three parts are about order. `OrderTrue`: before a
delivery is queued the text is imported, or the import is still in front of it, and
a removal takes a member off the roster before it cancels his rows. `OnceTrue`:
between the statements left and the rows queued, nobody is addressed twice.
`GoneInv`: beside a removal that nothing crosses no command puts rows back, and
afterwards none is about to. `Inv` is preserved, one lemma per action
(`BeginKeeps`, `RosterKeeps`, `DeliverKeeps`, `SpillKeeps` ...); `TrueRooms` and
`KeptPromises` follow.

**TransportProofs**, for any peers, calls and scenarios, any number of restarts,
losses and changes of modulations, and a queue of any length. The assumptions are that
no call has the name of the daemon's transport (`NamesAssumption`), that the queue has
room for one, and that a scenario names calls and peers there are
(`ScenariosAssumption`); what peers answer is left open. `OneConnection` is not
inductive: two calls that dial would each pool a connection. `CallTrue` excludes it:
who dials or waits for the hello holds the mutex of its transport's pool, and nothing
is pooled there for its peer. A connection is used by nobody before it has been
greeted, so what a dial that fails closes was nobody else's. `RetryFailsForCause` needs
`RetryTrue`: while the relay's second attempt waits for the pool undisturbed, neither
the pooled connection nor one that is being dialed to the peer is of the peer's last
run. That is so when it begins because the eviction itself holds the mutex, so nobody
is dialing; and later because who dials anew meets the peer as it is, or the peer has
stopped meanwhile and the attempt is disturbed. Most steps are those of one call.
What such a step leaves of all others is said once (`Alone`, `Blamed`, `Together`):
it changes few connections and no lock that another call holds, and whoever uses a
connection it closes is disturbed or has been cut off before. `DaemonDies` and the
steps of the peers, which touch several calls, have their own lemmas.

**EmbedProofs**, for any threads with any calls, any entrainments, publications and
claims, any sessions beside them, and another process that may serve the directory.
The assumptions are that `None` is no number and no holder of the lease
(`NamesAssumption`), and that a scenario starts with the lease free or with the other
process, gives each entrainment to one call and lets `declare` name an app
(`ScenariosAssumption`). `HandleSound` is not inductive, because a call that builds,
stops or closes does so in steps between which it holds no lock. `PipeInv`: an open
pipeline has one holder, the handle or the call that is about to keep, close or shut
it down. `LeaseInv`: whoever serves, is about to or is shutting down has the lease,
one at a time. `SerialInv`: without overlap, what each step of stop, close and suspend
has released already. `EntInv`, `WaitInv`, `FreshInv` and `SerialEnt` follow an
entrainment from the call that makes it to its task, its handle and the route it
watches through. `ClaimInv`: a claim under way is of a table nobody else has. For
`CallbacksTrue`, what is said at the end depends on a mark that was set earlier:
`ClosedInv` says it is set before anything is withdrawn or stopped, `QueueInv` and
`ToldInv` that the callbacks that wait follow those that were told, in order and
without a gap, and that nothing waits behind an end. `Inv` is preserved, one lemma
per action; what many actions share is said once: a step of a call that leaves the
handle alone (`QuietStep`, `TameStep`), a pipeline that arrives (`Arrived`), passes on
(`TakenKeeps`, `GivenKeeps`) or is shut (`ShutKeeps`, `CutStep`), and a step of the
tasks (`TasksStep`). The steps of `Media` touch none of it (`MediaIs`).

**SessionProofs** has `SessionsSound`, for any sources with any programs, any callers
and acceptors and any capacities that leave room for a header in a stream and a chunk
in a feed (`BoundsAssumption`). `CallersAssumption` says what a scenario is: callers
are sessions, the rows it starts with are not an acceptor's, and of the pipe commands
exactly `accept` marks its row as its own. The part of the invariant that is about
one session (`Session`) speaks of its record, its audit rows and the feeds only, so
it is first proved as a fact about records, step by step (`ReadOk`, `RecvTakesOk`,
`FeedNextOk`, `RelaySendOk` ...), and then carried to the actions (`PlainStep`,
`CallerStep`, `AttachStep`). Of its parts, `LifeOf` relates the place of the serving
task to the caller, the audit and the child's group; `HeadOf` says that what was sent
is nothing, one closing frame, or a header and chunks; `BytesOf` that the chunks sent,
the one in hand and those in the pipe are the first that the child made, without a
gap; `StreamOf` that what goes upstream is in order through six stages (the browser's
POSTs, the relay's send, the wire, the stdin channel, the pipe, the source), and that
a source reads end of file only when the writer task has gone with its queue written;
`ViewOf` that a viewer's position accounts for every chunk since it joined; `KindOf`
the capacities. `FeedInv` adds that a feed counts the sessions attached to it,
`EntryInv` that a browser's entry has a relay that runs. `BridgeInv` is about the rows
of `_media`: a row marked by an acceptor has one at work (`LentInv`), and an endpoint
added after the acceptor's row stands (`LateInv`), whoever else writes the table,
`publish_media` included.

Only model-checked: liveness (out of the prover's reach), `AnswersTrue` of
`Transport`, and `ServedTruly` and `RequestsTold` of `Mods`. `AnswersTrue` is about
readers that fold over whole documents, which is induction over data; the other two
depend on the scripts of their scenarios, which TLC enumerates.

## 5. Plan

Left to model: the update path of SPARQL, presence. To prove next: `ServedTruly` of
`Mods`, for which the snapshots that a serving request holds across a reload need an
invariant of their own.

## 6. What the models show about the code

These were met while modelling and are part of the models, so that the checked
properties hold in their presence; where a comment says otherwise it is quoted.

Delivery, thread, admission, changes:

- Re-shipping a `sent` row whose request ran a mod applies it twice: mods have no
  `_applied` row. `surfaces/src/outbox.rs` says it "cannot apply twice"
  (`CannotApplyTwice`).
- A silent peer holds the worker in one read, so rows to other peers do not expire
  on time (`OldRowsExpire`).
- Two owner sessions can answer one inbox row, one allow and one deny, and cache
  and inbox then disagree; the hint in `cli/src/main.rs` says "re-answer is not
  possible" (`CacheAgreesWithInbox`).
- A remembered decision outlives the rule it came from; the repository's README
  says everything is "revoked by deleting that row" (`RevokedByDeletingRow`).
- Hooks of a row that landed before the previous server went away need not run in
  the next one, as `cli/src/hooks.rs` says they do: it reads a table only once it is
  woken for it (`HooksRunInNextServe`).
- The deadline compares the generation and then interrupts (`node/src/db.rs:247`);
  the interrupt can hit the job after the one it was armed for. The header (8-9)
  says "exactly the statement it was armed for". `AnswerMatchesCommit` holds all
  the same.
- A second `close()` finds no join handle (`db.rs:188`) and returns before the thread
  has dropped the connection and its locks, which the doc (171-174) says it "waits for"
  (`CloseReleases`, which TLC refutes with two closers). What does hold of
  every close is `CloseIsABarrier`.
- A client that stops reading holds the database thread beyond the
  execution ceiling (`node/src/pipeline.rs:4320`): `EveryCallAnswered` needs
  clients that read or leave.
- A running tick overwrites the terminal `error` of a peer's removal
  (`surfaces/src/outbox.rs:790`); `SettledStays` names it as the one exception.
- An answer that is under way when its peer is removed finishes afterwards
  (`cli/src/peercmd.rs:96`); `SerialRemovalHolds` excludes it.
- A web deny writes no rule against knocking, a CLI deny does
  (`authenticator/src/human.rs:212`, `cli/src/inboxcmd.rs:151`).
- A clock that is set back refills the same seconds again
  (`node/src/pipeline.rs:3841`); `WindowBound` counts seconds shown, not passed.
- The commit hook signals before the commit is visible to other connections
  (`node/src/pipeline.rs:554`).

Remote tables (`surfaces/src/remote.rs`):

- A thread blocked in a remote table runs nothing else and does not notice its
  interrupt until the call returns. Two nodes that scan each other both wait for
  the default deadline of a call.
- A write over several rows is one transaction at the peer per row: after a failure
  the rows before it stay written (`WritesInOrder` says no more than that), and the
  one that timed out may still be.
- An UPDATE sends every column as the scan read it, so it undoes what somebody else
  changed in the others meanwhile.
- The `truncated` mark of the answer to a scan is not looked at, so the peer's row
  limit silently shortens a table; `PushdownExact` speaks of scans that were not cut.
- A table made without `columns=` probes the peer when it is first prepared again on
  a new connection.

Chat:

- Removing the host of a room deletes the peer, its rules, decisions, roster rows and
  queued rows (`cli/src/peercmd.rs:86`), but not the `chat_rooms` row that names it:
  a later send to the room queues a delivery to the removed host again
  (`Addressed`; `RemovalHolds` speaks of peers nobody has addressed since).

The node directory:

- A crash in `init_locked` between the key and the database leaves a directory
  that `ensure_dir_initialized` accepts, the server refuses ("run rsntr init") and
  `init` refuses ("already initialized").
- `migrate_modulation` sets no marker on a fresh database, so an operator's
  removal there is undone by the next schema version; the comment in `ddl.rs` says
  it sticks. `RemovedStaysRemoved` speaks of removals after a migration.
- The sweep of `rsntr stop` can remove the socket and record of a server that
  started meanwhile (`crossed`); a forced stop leaves `serving_ticket` published.
- SIGTERM between the pid file and the signal handler kills without clean-up.
- A node whose owner socket and record both fail to bind serves on
  (`cli/src/serve.rs:638-672`) and no command reaches it; it is found by its lease, its
  pid file and its ticket only, and the commands run in process beside it.

Requests over the wire:

- `evict` closes whatever connection is pooled by then, one that another request
  has just dialed included; the pool's mutex is held across a dial, so a dead peer
  delays the calls to every peer.
- The tunnel turns a lost connection into an end of stream: harmless for a
  statement, whose trailer is missing (`OutcomeIsWhole`), but a proxied knock then
  reads "no decision" and a cut media stream looks finished.
- A Vibration or Graph frame whose payload has a subject typed as one of the
  protocol's own classes is misread (`Leads`, excluded in `ReadAsSent`).
- Commands through the daemon have no retry against a connection the peer's last
  run left; the web relay has.

Modulations:

- A reload reads, compiles, swaps, reads and publishes with no lock: two at once
  can leave a stale registry or hello (`AdvertisedIsServed` speaks of changes that
  follow one another).
- A refused install disables the row by name, also if another installer has just
  written a good version under it.
- The Python handler gates itself and is gated by the pipeline too, so a call
  writes two audit rows; its `mod_matches` has its arguments the other way round,
  which matters only if one name is another's with a version.
- A mod may emit `Done` and then return an error, which gives two closing frames
  (`scen.rude`); a page for an unknown peer writes no audit row.
- The projection reads "an allow row exists": it may show what a more specific
  deny refuses, never the other way round (`HiddenIsRefused`).

Media and embedding:

- The doc of `Entrainment` says that "dropping it does NOT damp (the session is held by
  the runtime until `damp()`, node shutdown, or `close()`)" (`ffi/src/lib.rs:389-390`).
  The only sender is in the handle, so dropping it ends the session
  (`lib.rs:478-480`, `node/src/pipeline.rs:1309`); the run `held_by_runtime` shows it.
  `EveryoneEnds` asserts nothing about a handle that was only dropped.
- A sink that does not keep up loses the newest of the caller's audio (`try_send` on a
  full channel, `node/src/pipeline.rs:1762-1769`); the comment at 1705 says "Dropping the
  oldest audio is the right answer". `StdinOrdered` is about order, which holds.
- A viewer that lagged resumes at the oldest chunk still buffered
  (`node/src/media.rs:116-121`), not "at the newest chunk" as the comments at 113-115,
  at 15 and in `ffi/src/lib.rs:503` say. `FeedOrdered` counts what it skipped.
- `pipe accept` says "The session is over when the peer's downstream closes"
  (`cli/src/pipecmd.rs:199-200`); `join!` also waits for the end of its own stdin.
- If the header of a session cannot be sent, the return skips the teardown of the
  process group and only the shell is killed (`lost` in `ChildrenReaped`).
- `withdraw` ends the viewers' streams only once no writer handle is held, and a
  stale `MediaFeed.close()` withdraws the feed now published under the name.
- A server and a relay (or caller) of a duplex session that both wait for the other
  to read, windows full, wait for ever.
- The browser's local exchange keeps its registry entry after the end of its body;
  the relayed one does not (`EntriesLive`).
- `suspend` beside `serve()`, `local_pipeline()` or `entrain()` on another thread can
  leave the lease, a pipeline or an entrainment behind; `LetGo` speaks of a suspend
  with no other call under way.
- `declare_tables` checks on one connection and writes later on another, so two at
  once can claim one table (`OneOwner` speaks of one at a time).
- `pipe accept` looks before it inserts: an endpoint added between the two is
  shadowed and then deleted.

## 7. Not modelled

- SPARQL (`sparql`): a parser and a compiler to SQL, conversions of data without
  control of their own. The Turtle text of a document and the literals of values
  (`protocol/src/value.rs`): `Envelope` starts at the triples.
- The footprint of a statement: SQLite's authorizer computes it; it is a constant
  of `Admission`. The script tier: it answers as any tier may.
- The text of help, projection, page and system graphs, and the fingerprints
  behind the projection-changed point.
- Presence: beacons refresh a time stamp that is only displayed. The loadable SQLite
  extension: it packages SPARQL.
- Surfaces and packaging: argument parsing, printing, routes that run one
  statement, type conversions of the bindings, the plugin kit, mobile, web UI.
- Blob transfer, discovery and relays of iroh; codecs and containers of media.
- In `NodeDir`: the wait of `rsntr serve`'s parent, which gives up after 15 seconds on a
  child that serves without a socket; somebody outside the lease protocol who listens on
  the socket; an accept error that ends an endpoint's loop while the node serves.
  `check_schema_compat` (`node/src/db.rs:100`) refuses nobody, since every build writes
  the same `MIN_READER_VERSION`, and is left out. `cmd_serve` deletes the serving ticket
  just before the pid file and `shutdown` deletes what else is published (`db.pub`) later.
- Listing and display commands of the modelled components.
