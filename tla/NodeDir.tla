------------------------------ MODULE NodeDir ------------------------------
(***************************************************************************)
(* One node directory and the processes that share it: initialisation      *)
(* under the init lock (cli/src/store.rs), the schema migration            *)
(* (node/src/db.rs, ddl.rs), the serving lease (lease.rs), `rsntr serve`   *)
(* from start to shutdown (serve.rs, main.rs), its owner endpoints         *)
(* (owner_socket.rs, owner_tcp.rs), `rsntr serve --detach` and `rsntr stop`*)
(* (detach.rs), the owner channel (channel.rs) and dial hints.             *)
(*                                                                         *)
(* A process may die at any step: the kernel then drops its locks and      *)
(* listeners, and its files stay.  A run of a process is <<p, n>>.         *)
(***************************************************************************)
EXTENDS Naturals, Sequences, Functions, FiniteSets

CONSTANTS
  Procs,      \* the apps that share the directory
  Build,      \* the SCHEMA_VERSION each was built with
  Stored,     \* versions of the database there may be at first, 0 for none
  Addrs,      \* addresses of a known peer that connections may observe
  MAX_ADDRS,  \* dial hints kept of a peer
  Retries,    \* times an acquire is retried when a probe is in its way
  MaxRuns,    \* bound on the processes started on an old directory
  MaxNew,     \* the same for one that is made first
  MaxTrouble, \* bound on lease probes, deaths, `rsntr stop`s and address reports together
  None

ASSUME BoundsAssumption ==
  {Retries, MaxRuns, MaxNew, MaxTrouble} \subseteq Nat /\ MAX_ADDRS \in Nat \ {0}
ASSUME BuildAssumption == Build \in [Procs -> Nat \ {0}] /\ Stored \subseteq Nat
ASSUME NamesAssumption ==
  /\ Procs \cap (Addrs \cup {None, "torn", "old"}) = {}
  /\ None \notin Addrs \cup {"torn", "old"} \cup (Procs \X Nat)

VARIABLES
  key,      \* rsntr.key: None, "torn" (created, not yet written), an identity
  db,       \* rsntr.db
  initlk,   \* holder of rsntr.init.lock
  wlock,    \* holder of the database's write lock
  lease,    \* holder of the exclusive lock on rsntr.serve.lock
  shared,   \* a probe holds it shared
  file,     \* rsntr.sock, rsntr.owner, rsntr.pid: the run that wrote each
  bound,    \* the endpoints a process listens on: of its socket, of its record
  pc, nth,  \* where a process is, and the number of its run
  tries,    \* blocked attempts of an acquire, and whether one found a holder
  knownId,  \* the identity a process has read or made
  snap,     \* what a transaction read of the database
  stop,     \* the `rsntr stop` command: where it is, the run it signals
  stops, probes, deaths,
  merges,   \* addresses whose merge was committed, latest first
  removed,  \* modulations an operator took off the list after their migration
  refused,  \* runs told the directory is served that never found it held
  crossed   \* runs whose files a `stop` removed that was not about them

proc  == <<pc, nth, tries, knownId>>
locks == <<initlk, wlock, lease, shared>>
lanes == <<file, bound>>
count == <<stops, probes, deaths>>
hist  == <<merges, removed, refused, crossed>>
dirVars  == <<key, db, locks, lanes, proc, snap, stop, count, hist>>

Run(p) == <<p, nth[p]>>
NoDb == [exists |-> FALSE, ver |-> 0, id |-> None, mods |-> {}, marked |-> {}, addrs |-> <<>>,
         pub |-> None]
OldDb(v) == [NoDb EXCEPT !.exists = TRUE, !.ver = v, !.id = "old", !.mods = {"sql-sqlite"}]

\* The endpoint is there from its bind to the end of the transport's shutdown.
HasEndpoint == {"addrs", "ticket", "sock", "tcp", "web", "armed", "serving",
                "stop.pid", "stop.sock", "stop.tcp", "stop.endpoint"}

Fresh == [n |-> 0, held |-> FALSE]

DirInit ==
  /\ \E v \in Stored : /\ key = IF v = 0 THEN None ELSE "old"
                       /\ db = IF v = 0 THEN NoDb ELSE OldDb(v)
  /\ initlk = None /\ wlock = None /\ lease = None /\ shared = FALSE
  /\ file = [f \in {"sock", "rec", "pid"} |-> None] /\ bound = [p \in Procs |-> {}]
  /\ pc = [p \in Procs |-> "off"] /\ nth = [p \in Procs |-> 0]
  /\ tries = [p \in Procs |-> Fresh] /\ knownId = [p \in Procs |-> None]
  /\ snap = [x \in Procs \cup Addrs |-> None]
  /\ stop = [st |-> "off", run |-> None] /\ stops = 0 /\ probes = 0 /\ deaths = 0
  /\ merges = <<>> /\ removed = {} /\ refused = {} /\ crossed = {}

Reports == Len(merges) + Cardinality({a \in Addrs : snap[a] # None})
Calm == probes + deaths + stops + Reports < MaxTrouble
Started == FoldFunction(+, 0, nth)
Go(p, s) == pc' = [pc EXCEPT ![p] = s]
Start(p, s) ==
  /\ pc[p] = "off" /\ Started < (IF key = "old" THEN MaxRuns ELSE MaxNew)
  /\ Go(p, s) /\ nth' = [nth EXCEPT ![p] = @ + 1]
  /\ knownId' = [knownId EXCEPT ![p] = None] /\ UNCHANGED tries

-----------------------------------------------------------------------------
(* Initialisation: ensure_dir_initialized, under a blocking lock. *)

\* Mutant: the key is looked for before the lock is waited for.
InitLock_unlocked(p) ==
  Start(p, "init") /\ UNCHANGED <<key, db, locks, lanes, snap, stop, count, hist>>

InitLock(p) ==
  /\ Start(p, "init") /\ initlk = None /\ initlk' = p
  /\ UNCHANGED <<key, db, wlock, lease, shared, lanes, snap, stop, count, hist>>

DropInitLock(p) == initlk' = IF initlk = p THEN None ELSE initlk

\* load_secret: 64 hex characters, or an error.
load_secret == IF key \in {None, "torn"} THEN None ELSE key

\* A key is there: its identity; a half-made directory is not made whole.
ensure_dir_initialized(p) ==
  /\ pc[p] = "init"
  /\ IF key # None
     THEN /\ knownId' = [knownId EXCEPT ![p] = load_secret]
          /\ Go(p, IF load_secret = None THEN "off" ELSE "ready") /\ DropInitLock(p)
     ELSE IF db.exists
     THEN Go(p, "off") /\ DropInitLock(p) /\ UNCHANGED knownId
     ELSE Go(p, "key") /\ UNCHANGED <<initlk, knownId>>
  /\ UNCHANGED <<key, db, wlock, lease, shared, lanes, nth, tries, snap, stop, count, hist>>

\* create_new, write, the database, its defaults, its identity.
init_locked(p) ==
  /\ \/ /\ pc[p] = "key"
        /\ IF key = None THEN key' = "torn" /\ Go(p, "write") /\ UNCHANGED initlk
           ELSE UNCHANGED key /\ Go(p, "off") /\ DropInitLock(p)
        /\ UNCHANGED <<db, knownId>>
     \/ /\ pc[p] = "write"
        /\ key' = p /\ knownId' = [knownId EXCEPT ![p] = p] /\ Go(p, "create")
        /\ UNCHANGED <<db, initlk>>
     \/ /\ pc[p] = "create" /\ wlock = None
        /\ db' = IF db.exists THEN db ELSE [NoDb EXCEPT !.exists = TRUE, !.ver = Build[p]]
        /\ Go(p, "seed") /\ UNCHANGED <<key, knownId, initlk>>
     \/ /\ pc[p] = "seed" /\ wlock = None
        /\ db' = IF db.mods = {} THEN [db EXCEPT !.mods = {"sql-sqlite", "pages"}] ELSE db
        /\ Go(p, "ident") /\ UNCHANGED <<key, knownId, initlk>>
     \/ /\ pc[p] = "ident" /\ wlock = None
        /\ db' = [db EXCEPT !.id = knownId[p]] /\ Go(p, "ready") /\ DropInitLock(p)
        /\ UNCHANGED <<key, knownId>>
  /\ UNCHANGED <<wlock, lease, shared, lanes, nth, tries, snap, stop, count, hist>>

\* Whom a dial reaches: the socket first, where somebody listens behind it, else
\* the port of the record, which only takes the token of the run that wrote it.
Alive(r) == r # None /\ nth[r[1]] = r[2] /\ pc[r[1]] # "off"
Reaches(f) == Alive(file[f]) /\ f \in bound[file[f][1]]
Dialed == IF Reaches("sock") THEN file["sock"]
          ELSE IF Reaches("rec") THEN file["rec"] ELSE None
connect == Dialed # None

\* `rsntr serve`: the parent looks at the socket and at the lease, then starts
\* the child; what the child finds is its own.
serve_detached(p) ==
  /\ key # None /\ ~connect /\ lease = None
  /\ Start(p, "ready")
  /\ UNCHANGED <<key, db, locks, lanes, snap, stop, count, hist>>

-----------------------------------------------------------------------------
(* The lease. *)

\* `holder`: a shared lock, for an instant.
holder ==
  /\ \/ ~shared /\ lease = None /\ Calm
        /\ shared' = TRUE /\ probes' = probes + 1
     \/ shared /\ shared' = FALSE /\ UNCHANGED probes
  /\ UNCHANGED <<key, db, initlk, wlock, lease, lanes, proc, snap, stop, stops, deaths, hist>>

Refuse(p) ==
  /\ Go(p, "off") /\ tries' = [tries EXCEPT ![p] = Fresh]
  /\ refused' = IF lease = None /\ ~tries[p].held THEN refused \cup {Run(p)} ELSE refused
  /\ UNCHANGED <<lease, shared>>

Granted(p) ==
  /\ lease = None /\ ~shared
  /\ lease' = p /\ Go(p, "open") /\ tries' = [tries EXCEPT ![p] = Fresh]
  /\ UNCHANGED <<refused, shared>>

\* start_node_full refuses a directory without a database; ServeLease::acquire
\* tries a lock that would block again, after a sleep no probe outlasts.
Attempt(p, retries) ==
  /\ pc[p] = "ready" /\ db.exists
  /\ \/ Granted(p)
     \/ /\ lease # None \/ shared
        /\ IF tries[p].n < retries
           THEN /\ tries' = [tries EXCEPT ![p] = [n |-> @.n + 1, held |-> @.held \/ lease # None]]
                /\ shared' = FALSE /\ UNCHANGED <<lease, pc, refused>>
           ELSE Refuse(p)
  /\ UNCHANGED <<key, db, initlk, wlock, lanes, nth, knownId, snap, stop, count, merges, removed,
                 crossed>>

\* Mutants: one attempt; one more than the bound.
acquire_once(p) == Attempt(p, 0)
acquire_more(p) == Attempt(p, Retries + 1)

acquire(p) == Attempt(p, Retries)

NoDatabase(p) ==
  /\ pc[p] = "ready" /\ ~db.exists /\ Go(p, "off")
  /\ UNCHANGED <<key, db, locks, lanes, nth, tries, knownId, snap, stop, count, hist>>

-----------------------------------------------------------------------------
(* The migration, by the serving process or by a command in process. *)

schema_is_current(p, d) == d.ver = Build[p]

\* Builtins that came with version 2.
NewMods(p) == IF Build[p] >= 2 THEN {"pages"} ELSE {}

\* What ensure_node_tables does to the list: a new builtin is added once.
ensure_node_tables(d, p) ==
  IF d.mods = {} THEN d      \* not yet seeded
  ELSE [d EXCEPT !.mods = @ \cup (NewMods(p) \ d.marked), !.marked = @ \cup NewMods(p)]

\* Mutant: whoever stamps last wins.
stamp_schema_version_always(d, p) == [d EXCEPT !.ver = Build[p]]

stamp_schema_version(d, p) == [d EXCEPT !.ver = IF @ < Build[p] THEN Build[p] ELSE @]

Opened(p) == Go(p, IF lease = p THEN "hello" ELSE "off")

\* Mutant: what was read before the lock is written back.
migrate_stale(p) ==
  \/ /\ pc[p] = "open" /\ schema_is_current(p, db) /\ Opened(p) /\ UNCHANGED <<db, wlock, snap>>
  \/ /\ pc[p] = "open" /\ ~schema_is_current(p, db)
     /\ snap' = [snap EXCEPT ![p] = db] /\ Go(p, "begin") /\ UNCHANGED <<db, wlock>>
  \/ /\ pc[p] = "begin" /\ wlock = None
     /\ wlock' = p /\ Go(p, "migrate") /\ UNCHANGED <<db, snap>>
  \/ /\ pc[p] = "migrate"
     /\ db' = stamp_schema_version(ensure_node_tables(snap[p], p), p)
     /\ snap' = [snap EXCEPT ![p] = None]
     /\ wlock' = None /\ Opened(p)

\* No write when current; else one immediate transaction that looks again.
migrate(p) ==
  \/ /\ pc[p] = "open" /\ schema_is_current(p, db) /\ Opened(p) /\ UNCHANGED <<db, wlock, snap>>
  \/ /\ pc[p] = "open" /\ ~schema_is_current(p, db)
     /\ Go(p, "begin") /\ UNCHANGED <<db, wlock, snap>>
  \/ /\ pc[p] = "begin" /\ wlock = None
     /\ wlock' = p /\ Go(p, "migrate") /\ UNCHANGED <<db, snap>>
  \/ /\ pc[p] = "migrate"
     /\ db' = IF schema_is_current(p, db) THEN db
              ELSE stamp_schema_version(ensure_node_tables(db, p), p)
     /\ wlock' = None /\ Opened(p) /\ UNCHANGED snap

Migrate(p) ==
  /\ migrate(p)
  /\ UNCHANGED <<key, initlk, lease, shared, lanes, nth, tries, knownId, stop, count, hist>>

\* OwnerChannel::open, Auto: in process when nobody answers.
OpenLocal(p) ==
  /\ db.exists /\ ~connect /\ Start(p, "open")
  /\ UNCHANGED <<key, db, locks, lanes, snap, stop, count, hist>>

\* The operator edits `_rsntr.modulations`.
RemoveMod(m) ==
  /\ m \in db.mods \cap db.marked /\ wlock = None
  /\ db' = [db EXCEPT !.mods = @ \ {m}]
  /\ removed' = removed \cup {m}
  /\ UNCHANGED <<key, locks, lanes, proc, snap, stop, count, merges, refused, crossed>>

-----------------------------------------------------------------------------
(* A start, once the database is open, and a shutdown, step by step. *)

Step(p, from, to) == pc[p] = from /\ Go(p, to)

\* hello_from_db and load_secret, then the endpoint is bound.
BindEndpoint(p) ==
  /\ Step(p, "hello", "addrs") /\ load_secret # None
  /\ knownId' = [knownId EXCEPT ![p] = load_secret]
  /\ UNCHANGED <<key, db, locks, lanes, nth, tries, snap, stop, count, hist>>

Publish(p) ==
  /\ wlock = None /\ db' = [db EXCEPT !.pub = Run(p)]
  /\ UNCHANGED <<key, locks, lanes, nth, tries, knownId, snap, stop, count, hist>>

\* serving_addrs, once the endpoint listens.
serving_addrs(p) == Step(p, "addrs", "ticket") /\ Publish(p)

\* The outbox worker, the hooks and the mods host run by now; the ticket.
publish_freshness(p) == Step(p, "ticket", "sock") /\ Publish(p)

Listen(p, f) == /\ file' = [file EXCEPT ![f] = Run(p)]
                /\ bound' = [bound EXCEPT ![p] = @ \cup {f}]

\* A socket nobody answers on is unlinked, a live one is left alone.  The bind
\* fails before it touches the file, with the leftover gone, or with a socket of
\* its own made that nobody listens on; start_node_full goes on without it.
owner_socket_bind(p) ==
  /\ Step(p, "sock", "tcp")
  /\ \/ UNCHANGED lanes
     \/ ~Reaches("sock") /\ Listen(p, "sock")
     \/ /\ ~Reaches("sock") /\ UNCHANGED bound
        /\ \E r \in {None, Run(p)} : file' = [file EXCEPT !["sock"] = r]
  /\ UNCHANGED <<key, db, locks, nth, tries, knownId, snap, stop, count, hist>>

\* The record is renamed into place, or the bind fails and leaves the old one.
owner_tcp_bind(p) ==
  /\ Step(p, "tcp", "web")
  /\ Listen(p, "rec") \/ UNCHANGED lanes
  /\ UNCHANGED <<key, db, locks, nth, tries, knownId, snap, stop, count, hist>>

\* The pid file, then the handler of SIGTERM.
cmd_serve(p) ==
  /\ \/ Step(p, "web", "armed") /\ file' = [file EXCEPT !["pid"] = Run(p)]
     \/ Step(p, "armed", "serving") /\ UNCHANGED file
  /\ UNCHANGED <<key, db, locks, bound, nth, tries, knownId, snap, stop, count, hist>>

CtrlC(p) ==
  /\ Step(p, "serving", "stop.pid")
  /\ UNCHANGED <<key, db, locks, lanes, nth, tries, knownId, snap, stop, count, hist>>

Remove(f) == file' = [file EXCEPT ![f] = None]

\* The endpoint the process has is closed and its file removed.
Unlisten(p, f) ==
  /\ IF f \in bound[p] THEN Remove(f) ELSE UNCHANGED file
  /\ bound' = [bound EXCEPT ![p] = @ \ {f}]

\* Mutant: the socket and the record go last.
shutdown_files_last(p) ==
  /\ \/ Step(p, "stop.pid", "stop.endpoint") /\ Remove("pid") /\ UNCHANGED <<db, lease, bound>>
     \/ Step(p, "stop.endpoint", "stop.keys") /\ UNCHANGED <<db, lease, lanes>>
     \/ /\ Step(p, "stop.keys", "stop.lease") /\ wlock = None
        /\ db' = [db EXCEPT !.pub = None] /\ UNCHANGED <<lease, lanes>>
     \/ Step(p, "stop.lease", "late.sock") /\ lease' = None /\ UNCHANGED <<db, lanes>>
     \/ Step(p, "late.sock", "late.tcp") /\ Unlisten(p, "sock") /\ UNCHANGED <<db, lease>>
     \/ Step(p, "late.tcp", "off") /\ Unlisten(p, "rec") /\ UNCHANGED <<db, lease>>
  /\ UNCHANGED <<key, initlk, wlock, shared, nth, tries, knownId, snap, stop, count, hist>>

\* Mutant: the lease is let go before the endpoint is down.
shutdown_lease_first(p) ==
  /\ \/ Step(p, "stop.pid", "stop.sock") /\ Remove("pid") /\ UNCHANGED <<db, lease, bound>>
     \/ Step(p, "stop.sock", "stop.tcp") /\ Unlisten(p, "sock") /\ UNCHANGED <<db, lease>>
     \/ Step(p, "stop.tcp", "stop.endpoint") /\ Unlisten(p, "rec") /\ lease' = None /\ UNCHANGED db
     \/ Step(p, "stop.endpoint", "stop.keys") /\ UNCHANGED <<db, lease, lanes>>
     \/ /\ Step(p, "stop.keys", "off") /\ wlock = None
        /\ db' = [db EXCEPT !.pub = None] /\ UNCHANGED <<lanes, lease>>
  /\ UNCHANGED <<key, initlk, wlock, shared, nth, tries, knownId, snap, stop, count, hist>>

\* The pid file, the owner socket, the record, the endpoint, the published
\* keys, and only then the lease.
shutdown(p) ==
  /\ \/ Step(p, "stop.pid", "stop.sock") /\ Remove("pid") /\ UNCHANGED <<db, lease, bound>>
     \/ Step(p, "stop.sock", "stop.tcp") /\ Unlisten(p, "sock") /\ UNCHANGED <<db, lease>>
     \/ Step(p, "stop.tcp", "stop.endpoint") /\ Unlisten(p, "rec") /\ UNCHANGED <<db, lease>>
     \/ Step(p, "stop.endpoint", "stop.keys") /\ UNCHANGED <<db, lease, lanes>>
     \/ /\ Step(p, "stop.keys", "stop.lease") /\ wlock = None
        /\ db' = [db EXCEPT !.pub = None] /\ UNCHANGED <<lease, lanes>>
     \/ Step(p, "stop.lease", "off") /\ lease' = None /\ UNCHANGED <<db, lanes>>
  /\ UNCHANGED <<key, initlk, wlock, shared, nth, tries, knownId, snap, stop, count, hist>>

\* What the kernel does for a process that is gone: nobody listens for it, its
\* locks are free, its transactions (those of its connections' threads too) are
\* rolled back.
Gone(p) ==
  /\ Go(p, "off") /\ tries' = [tries EXCEPT ![p] = Fresh] /\ bound' = [bound EXCEPT ![p] = {}]
  /\ initlk' = IF initlk = p THEN None ELSE initlk
  /\ lease' = IF lease = p THEN None ELSE lease
  /\ wlock' = IF wlock = p \/ (lease = p /\ wlock \in Addrs) THEN None ELSE wlock
  /\ snap' = [x \in DOMAIN snap |->
                IF x = p \/ (lease = p /\ x \in Addrs) THEN None ELSE snap[x]]

\* Killed, or a step failed and the command ended with an error.
Die(p) ==
  /\ pc[p] # "off" /\ Calm /\ deaths' = deaths + 1
  /\ Gone(p)
  /\ UNCHANGED <<key, db, shared, file, nth, knownId, stop, stops, probes, hist>>

-----------------------------------------------------------------------------
(* `rsntr stop`. *)

StopAt(s) == stop' = [stop EXCEPT !.st = s]
Signal(p) ==
  \/ pc[p] = "serving" /\ Go(p, "stop.pid") /\ UNCHANGED <<tries, bound, initlk, lease, wlock, snap>>
  \/ pc[p] = "armed" /\ Gone(p)    \* no handler yet
  \/ pc[p] \notin {"serving", "armed"} /\ UNCHANGED <<pc, tries, bound, initlk, lease, wlock, snap>>

\* read_live_pid, SIGTERM; else the lease, the socket, and the sweep.
StopLooks ==
  /\ \/ /\ stop.st = "off" /\ Calm /\ stops' = stops + 1
        /\ IF Alive(file["pid"])
           THEN stop' = [st |-> "wait", run |-> file["pid"]] /\ Signal(file["pid"][1])
           ELSE StopAt("lease") /\ UNCHANGED <<pc, tries, bound, initlk, lease, wlock, snap>>
     \/ /\ stop.st = "lease" /\ StopAt(IF lease = None THEN "probe" ELSE "off")
        /\ UNCHANGED <<stops, pc, tries, bound, initlk, lease, wlock, snap>>
     \/ /\ stop.st = "probe" /\ StopAt(IF connect THEN "off" ELSE "rm.pid")
        /\ UNCHANGED <<stops, pc, tries, bound, initlk, lease, wlock, snap>>
  /\ UNCHANGED <<key, db, shared, file, nth, knownId, probes, deaths, hist>>

\* The process is gone in time, or it is killed.
StopWaits ==
  /\ stop.st = "wait"
  /\ \/ /\ ~Alive(stop.run) /\ stop' = [st |-> "off", run |-> None]
        /\ UNCHANGED <<pc, tries, bound, initlk, lease, wlock, snap>>
     \/ Alive(stop.run) /\ Gone(stop.run[1]) /\ StopAt("rm.pid")
  /\ UNCHANGED <<key, db, shared, file, nth, knownId, count, hist>>

\* remove_file, of the pid file, the socket and the record in turn.
StopRemoves ==
  /\ \E m \in {<<"rm.pid", "pid", "rm.sock">>, <<"rm.sock", "sock", "rm.rec">>,
               <<"rm.rec", "rec", "off">>} :
       /\ stop.st = m[1] /\ Remove(m[2])
       /\ stop' = IF m[3] = "off" THEN [st |-> "off", run |-> None] ELSE [stop EXCEPT !.st = m[3]]
       /\ crossed' = IF Alive(file[m[2]]) THEN crossed \cup {file[m[2]]} ELSE crossed
  /\ UNCHANGED <<key, db, locks, bound, proc, snap, count, merges, removed, refused>>

-----------------------------------------------------------------------------
(* Dial hints: connections of the serving process report addresses. *)

\* An address comes first, or is moved there; a list has each once.
Merged(a, list) ==
  LET old == a \in Range(list)
      at  == IF old THEN CHOOSE k \in DOMAIN list : list[k] = a ELSE Len(list) + 1
      all == IF old THEN Len(list) ELSE Len(list) + 1
  IN  [i \in 1..(IF all < MAX_ADDRS THEN all ELSE MAX_ADDRS) |->
         IF i = 1 THEN a ELSE IF i <= at THEN list[i - 1] ELSE list[i]]

Write(a, list) ==
  /\ wlock' = None /\ snap' = [snap EXCEPT ![a] = None]
  /\ db' = [db EXCEPT !.addrs = Merged(a, list)] /\ merges' = <<a>> \o merges

\* Mutant: the row is read before the write lock is taken.
merge_peer_addrs_deferred(a) ==
  /\ \/ /\ snap[a] = None /\ Calm
        /\ snap' = [snap EXCEPT ![a] = db.addrs] /\ UNCHANGED <<db, merges, wlock>>
     \/ snap[a] # None /\ wlock = None /\ Write(a, snap[a])
  /\ UNCHANGED <<key, initlk, lease, shared, lanes, proc, stop, count, removed, refused, crossed>>

\* BEGIN IMMEDIATE; the row read, then written.
merge_peer_addrs(a) ==
  /\ \/ /\ snap[a] = None /\ Calm /\ wlock = None
        /\ lease # None /\ pc[lease] = "serving"
        /\ wlock' = a /\ snap' = [snap EXCEPT ![a] = db.addrs] /\ UNCHANGED <<db, merges>>
     \/ wlock = a /\ Write(a, snap[a])
  /\ UNCHANGED <<key, initlk, lease, shared, lanes, proc, stop, count, removed, refused, crossed>>

-----------------------------------------------------------------------------
DirNext ==
  \/ \E p \in Procs :
       \/ InitLock(p) \/ ensure_dir_initialized(p) \/ init_locked(p) \/ serve_detached(p)
       \/ acquire(p) \/ NoDatabase(p) \/ Migrate(p) \/ OpenLocal(p)
       \/ BindEndpoint(p) \/ serving_addrs(p) \/ publish_freshness(p)
       \/ owner_socket_bind(p) \/ owner_tcp_bind(p) \/ cmd_serve(p) \/ CtrlC(p)
       \/ shutdown(p) \/ Die(p)
  \/ holder \/ StopLooks \/ StopWaits \/ StopRemoves
  \/ \E m \in {"pages"} : RemoveMod(m)
  \/ \E a \in Addrs : merge_peer_addrs(a)

DirSpec == DirInit /\ [][DirNext]_dirVars

-----------------------------------------------------------------------------
(* Properties. *)

Runs == Procs \X Nat
Ids  == {None, "old"} \cup Procs
Dbs  == [exists : BOOLEAN, ver : Nat, id : Ids, mods : SUBSET {"sql-sqlite", "pages"},
         marked : SUBSET {"pages"}, addrs : Seq(Addrs), pub : {None} \cup Runs]

ProcType ==
  /\ DOMAIN pc = Procs /\ nth \in [Procs -> Nat] /\ knownId \in [Procs -> Ids]
  /\ tries \in [Procs -> [n : 0..Retries, held : BOOLEAN]]
LockType ==
  /\ initlk \in Procs \cup {None} /\ lease \in Procs \cup {None}
  /\ wlock \in Procs \cup Addrs \cup {None} /\ shared \in BOOLEAN
DbType == db \in Dbs /\ key \in {"torn"} \cup Ids
FileType ==
  /\ file \in [{"sock", "rec", "pid"} -> {None} \cup Runs]
  /\ bound \in [Procs -> SUBSET {"sock", "rec"}]
  /\ DOMAIN stop = {"st", "run"} /\ stop.run \in {None} \cup Runs
HistType ==
  /\ {stops, probes, deaths} \subseteq Nat
  /\ merges \in Seq(Addrs) /\ snap = [x \in Procs \cup Addrs |-> snap[x]]
  /\ \A a \in Addrs : snap[a] \in {None} \cup Seq(Addrs)
  /\ removed \in SUBSET {"pages"} /\ refused \in SUBSET Runs /\ crossed \in SUBSET Runs

DirTypeOK == ProcType /\ LockType /\ DbType /\ FileType /\ HistType

\* Several apps may start on one empty directory.  As long as none of them is
\* killed, an app that ensure_dir_initialized let through has the identity in
\* the key file, and the database it is about to open is there, complete and of
\* that identity, whoever of them made it.
ReadyIsWhole ==
  \A p \in Procs : (pc[p] = "ready" /\ knownId[p] # None /\ deaths = 0 /\ stops = 0) =>
     /\ key = knownId[p]
     /\ db.exists /\ db.id = knownId[p] /\ db.mods # {}

\* The one thing the lease is for: never two live endpoints under one key, from
\* the bind in start_node_full to the end of the transport's shutdown, across
\* starts that race, kills, forced stops and take-overs.
OneEndpoint ==
  \A p, q \in Procs : (pc[p] \in HasEndpoint /\ pc[q] \in HasEndpoint) => p = q

\* A serving process can be found.  By its lease, its pid file and its published
\* ticket always; by a dial through each owner endpoint it managed to bind, whose
\* file is its own, not the leftover of the run before it and not taken away by
\* that run's shutdown.  A server without either endpoint is dialled by nobody,
\* and a leftover never passes for it.  Only a `rsntr stop` that began before it
\* served may have swept its files.  At no time does a dial reach a process that
\* does not hold the lease.
ServingIsReachable ==
  /\ Dialed # None => lease = Dialed[1]
  /\ \A p \in Procs : (pc[p] = "serving" /\ Run(p) \notin crossed) =>
       /\ lease = p /\ file["pid"] = Run(p) /\ db.pub = Run(p)
       /\ \A f \in bound[p] : file[f] = Run(p)
       /\ Dialed = IF bound[p] = {} THEN None ELSE Run(p)

\* ServeLease::acquire answers AlreadyServing because somebody serves.  A start
\* is never turned away by somebody who only asked who does (`rsntr status`, a
\* stop, another start), unless each of its attempts met one.
RefusedByServer == refused # {} => probes > Retries

\* A builtin that an operator took off the list after its migration ran stays
\* off, whichever builds open the database afterwards and however their
\* migrations interleave with the edit.
RemovedStaysRemoved == removed \cap db.mods = {}

\* The stored schema version never goes down, though an older build that finds a
\* newer version migrates and stamps too.
VersionNeverFalls == [][db'.ver >= db.ver]_db

\* The last report of x came after every one of y.
Newer(x, y) == \E i \in DOMAIN merges : merges[i] = x /\ \A j \in 1..i : merges[j] # y

\* The dial hints of a peer are the addresses last observed, latest first and each once: two
\* connections that report at once do not lose each other's, and what is dropped is the oldest.
FreshestAddrs ==
  /\ Len(db.addrs) <= MAX_ADDRS
  /\ \A i \in DOMAIN db.addrs : \E j \in DOMAIN merges : merges[j] = db.addrs[i]
  /\ \A i, j \in DOMAIN db.addrs : i < j => Newer(db.addrs[i], db.addrs[j])
  /\ \A k \in DOMAIN merges :
       \/ \E i \in DOMAIN db.addrs : db.addrs[i] = merges[k]
       \/ /\ Len(db.addrs) = MAX_ADDRS
          /\ \A i \in DOMAIN db.addrs : Newer(db.addrs[i], merges[k])

\* The directory is sound whichever processes initialise, migrate and edit it at once: its
\* identity is whole, an operator's edits survive, the dial hints are the latest.
DirectorySound == DirTypeOK /\ ReadyIsWhole /\ RemovedStaysRemoved /\ FreshestAddrs

\* One process serves the directory, the others find it wherever it managed to bind, and none
\* is turned away for any other reason, across races of start, stop, kill and take-over.
OneServerFound == OneEndpoint /\ ServingIsReachable /\ RefusedByServer
=============================================================================
