-------------------------------- MODULE Mods --------------------------------
(***************************************************************************)
(* Modulations: how a request finds its lane, how a peer installs a wasm   *)
(* mod while others call it, and what a running mod may do.                *)
(*                                                                         *)
(* A request passes the transport's hello gate, is dispatched by its       *)
(* modulation tag (pipeline.rs), and is served by a builtin lane or by the *)
(* mod handler that is registered at that moment.  mod-install writes a    *)
(* `_modulations` row and hot-reloads: read the enabled rows, compile them *)
(* off the database thread, swap the handler, read the hello, publish it.  *)
(* Nothing holds a lock over these steps.  A call runs on the handler it   *)
(* was dispatched to, its frames pass a bounded channel to a forwarder.    *)
(***************************************************************************)
EXTENDS PolicyRules, FiniteSets, SequencesExt

CONSTANTS None,        \* no value
          Reqs,        \* request ids
          Scenarios,   \* what the clients, the owner and the mods do
          Sorted,      \* the mod names in byte order
          Channel,     \* capacity of the frame channel (16 in the code)
          MaxRows,     \* NodeConfig.max_rows
          MaxBytes,    \* NodeConfig.max_response_bytes
          MaxWasm,     \* MAX_WASM_BYTES
          MaxMemory,   \* NodeConfig.max_mod_memory_mb
          RowsPerFrame, FrameBudget, RowMax  \* MOD_ROWS_PER_FRAME, MOD_FRAME_BUDGET, ...

VARIABLES scen,      \* the scenario of this behaviour
          rows,      \* `_modulations`: name -> row
          registry,  \* the registered handler: name -> entry
          hello,     \* the modulations the transport advertises
          policy,    \* `_policy`
          inbox,     \* `_inbox`, the parked installs
          audit,     \* request -> its `_audit` rows
          job,       \* request -> where its handler is
          out,       \* request -> frames on its stream
          imported,  \* requests whose path parameter was read from disk
          serving,   \* no, bound (no handler yet) or yes
          crashes

vars == <<scen, rows, registry, hello, policy, inbox, audit, job, out, imported, serving, crashes>>
db == <<rows, policy, inbox, audit>>

Query(r) == scen.reqs[r]

----------------------------------------------------------------------------
\* Tags.  A tag is the sequence of its dash-separated parts.
Versions == {"1", "2"}

mod_matches(requested, advertised) ==
  \/ advertised = requested
  \/ /\ IsStrictPrefix(requested, advertised)
     /\ advertised[Len(requested) + 1] \in Versions

Builtin == [help |-> <<"help">>, projection |-> <<"projection">>, system |-> <<"system">>,
            media |-> <<"media">>, audioDuplex |-> <<"audio", "duplex">>,
            modInstall |-> <<"mod", "install">>, pages |-> <<"pages">>, chat |-> <<"chat">>,
            sparql |-> <<"sparql">>, sql |-> <<"sql", "sqlite">>]
QueryOnly == {"help", "projection", "system", "media", "audioDuplex"}

\* served_modulations: what `_rsntr.modulations` lists, help always.
served_modulations == {Builtin[m] : m \in scen.listed \cup {"help"}}

\* node_hello over the enabled rows: the refused ones too.
node_hello(rs) == served_modulations \cup {n \in DOMAIN rs : rs[n].enabled}

\* The arms of the remote and of the owner dispatch.
dispatch(q, mods) ==
  LET arms == {m \in DOMAIN Builtin : /\ mod_matches(Builtin[m], q.mod)
                                      /\ m \in QueryOnly => q.class = "Query"}
  IN  IF q.class \notin {"Query", "Execute"} THEN "notRequest"
      ELSE IF arms # {} THEN CHOOSE m \in arms : TRUE
      ELSE IF \E n \in mods : mod_matches(q.mod, n) THEN "mod"
      ELSE "unsupported"

dispatch_owner(q, mods) ==
  LET arm == dispatch(q, mods)
  IN  CASE arm \in {"media", "audioDuplex"} -> "unsupported"
        [] arm = "modInstall" -> "import"
        [] OTHER -> arm

----------------------------------------------------------------------------
\* Frames.
Frame(class, arg, seqs, bytes) == [class |-> class, arg |-> arg, seqs |-> seqs, bytes |-> bytes]
error_frame(code) == Frame("Error", code, <<>>, 0)
denied_frame(why) == Frame("Denied", why, <<>>, 0)
Done == Frame("Done", "", <<>>, 0)
Result == Frame("Result", "", <<>>, 0)
OneRow(name) == <<Result, Frame("Row", name, <<0>>, 1), Done>>
Terminal(f) == f.class \in {"Done", "Error", "Denied"}

----------------------------------------------------------------------------
\* The registry (mods/registry.rs).
find(reg, tag) ==
  SelectSeq(Sorted, LAMBDA n : n \in DOMAIN reg /\ mod_matches(tag, n))[1]

parse_limits(row) == [timeout |-> row.timeout, memory |-> row.memory]

\* compile, describe_compiled: the module compiles and answers describe().
compile(row) == row.wasm.compiles

load_entry_lax(row, n) ==
  row.wasm # None /\ row.sha /\ compile(row) /\ row.wasm.abi = 1 /\ row.wasm.name = n

load_entry(row, n) ==
  /\ row.wasm # None
  /\ row.sha
  /\ compile(row)
  /\ row.wasm.abi = 1
  /\ row.wasm.name = n
  /\ row.wasm.needs \subseteq row.caps

ModEntry(row) ==
  [wasm |-> row.wasm, caps |-> row.caps, limits |-> parse_limits(row), warrant |-> row.warrant]

read_enabled_rows(rs) == [n \in {m \in DOMAIN rs : rs[m].enabled} |-> rs[n]]

from_rows(rs) == [n \in {m \in DOMAIN rs : load_entry(rs[m], m)} |-> ModEntry(rs[n])]
refused(rs) == {n \in DOMAIN rs : ~load_entry(rs[n], n)}

\* What the handler in place serves: the loaded mods, or the python ones.
Handled == IF serving = "yes" THEN DOMAIN registry ELSE {}

----------------------------------------------------------------------------
Fresh ==
  [pc |-> "new", h |-> None, name |-> None, step |-> 1, rows |-> 0, bytes |-> 0, chan |-> <<>>,
   senders |-> {}, todo |-> <<>>, closed |-> FALSE, snap |-> None, refused |-> {},
   next |-> "none", warrant |-> {}]

Init ==
  /\ scen \in Scenarios
  /\ rows = scen.rows
  /\ policy = scen.policy
  /\ inbox = <<>>
  /\ audit = [r \in Reqs |-> <<>>]
  /\ registry = IF scen.python THEN <<>> ELSE from_rows(read_enabled_rows(scen.rows))
  /\ hello = node_hello(scen.rows)
  /\ job = [r \in Reqs |-> IF r \in DOMAIN scen.reqs THEN Fresh
                           ELSE [Fresh EXCEPT !.pc = "done"]]
  /\ out = [r \in Reqs |-> <<>>]
  /\ imported = {}
  /\ serving = IF scen.python THEN "no" ELSE "yes"
  /\ crashes = 0

----------------------------------------------------------------------------
At(r, pc) == job[r].pc = pc
Go(r, j) == job' = [job EXCEPT ![r] = j]
Reply(r, frames) ==
  /\ out' = [out EXCEPT ![r] = frames]
  /\ Go(r, [Fresh EXCEPT !.pc = "done"])
Audit_allows(r, decision, action) ==
  audit' = IF decision = "deny" THEN audit
           ELSE [audit EXCEPT ![r] = Append(@, [decision |-> decision, action |-> action])]
Audit(r, decision, action) ==
  audit' = [audit EXCEPT ![r] = Append(@, [decision |-> decision, action |-> action])]

peer_known(r) == Query(r).peer \in scen.peers

\* The chain: the policy tier, then the tail's deny.
decide(r, action, tables) ==
  IF PolicySays(policy, Query(r).peer, tables, action) = "allow" THEN "allow" ELSE "deny"

\* The transport's gate: a modulation the hello does not list is refused.
Accept(r) ==
  /\ At(r, "new") /\ serving # "no"
  /\ Query(r).lane \in {"remote", "owner"}
  /\ IF Query(r).lane = "owner" \/ \E m \in hello : mod_matches(Query(r).mod, m)
     THEN Go(r, [job[r] EXCEPT !.pc = "dispatch"]) /\ UNCHANGED out
     ELSE Reply(r, <<error_frame("mod-unsupported")>>)
  /\ UNCHANGED <<scen, db, registry, hello, imported, serving, crashes>>

\* matching_mod_handler takes the handler in place now and keeps it.
Dispatch(r) ==
  /\ At(r, "dispatch")
  /\ LET arm == IF Query(r).lane = "owner" THEN dispatch_owner(Query(r), Handled)
                ELSE dispatch(Query(r), Handled)
     IN  CASE arm = "unsupported" -> Reply(r, <<error_frame("mod-unsupported")>>)
           [] arm = "notRequest" -> Reply(r, <<error_frame("protocol-error")>>)
           [] arm = "mod" -> /\ Go(r, [job[r] EXCEPT !.pc = "mod", !.h = registry])
                             /\ UNCHANGED out
           [] OTHER -> Go(r, [job[r] EXCEPT !.pc = arm]) /\ UNCHANGED out
  /\ UNCHANGED <<scen, db, registry, hello, imported, serving, crashes>>

----------------------------------------------------------------------------
\* mod-install, remote lane.

policy_matches(peer, name, action, effect) ==
  \E p \in policy : /\ p.action = action /\ p.effect = effect
                    /\ p.who \in {peer, Star} /\ p.table \in {name, Star}

\* The caps this peer may hand to a mod of this name.
Granted(peer, name) ==
  {c \in scen.caps : /\ policy_matches(peer, name, <<"mod-cap", c>>, "allow")
                     /\ ~policy_matches(peer, name, <<"mod-cap", c>>, "deny")}

\* park_install: one pending row for one statement of one peer.
Parked(q) == [peer |-> q.peer, signal |-> q.signal, open |-> TRUE]
park_install_stacks(q) == inbox' = Append(inbox, Parked(q))
park_install(q) ==
  IF \E i \in DOMAIN inbox : inbox[i] = Parked(q) THEN UNCHANGED inbox
  ELSE inbox' = Append(inbox, Parked(q))

\* parse: the typed subject is the verb, the name is a plain one.
parse(q) == q.verb # "malformed"

gate(q) ==
  LET asked == IF q.verb = "remove" THEN {} ELSE q.caps
  IN  IF q.peer \notin scen.peers THEN "unknown"
      ELSE IF policy_matches(q.peer, q.name, <<"mod-install">>, "deny") THEN "denied"
      ELSE IF ~policy_matches(q.peer, q.name, <<"mod-install">>, "allow") THEN "pending"
      ELSE IF ~(asked \subseteq Granted(q.peer, q.name)) THEN "denied"
      ELSE "allowed"

\* parse, then the gate on the database thread.
InstallGate(r) ==
  LET q == Query(r)
  IN  /\ At(r, "modInstall")
      /\ IF q.params # "none" \/ ~parse(q)
         THEN Reply(r, <<error_frame("protocol-error")>>) /\ UNCHANGED <<inbox, audit>>
         ELSE /\ Audit(r, IF gate(q) = "allowed" THEN "allow" ELSE "deny", <<"mod-install">>)
              /\ IF gate(q) = "pending" THEN park_install(q) ELSE UNCHANGED inbox
              /\ IF gate(q) = "allowed"
                 THEN /\ Go(r, [job[r] EXCEPT !.pc = q.verb, !.warrant = Granted(q.peer, q.name)])
                      /\ UNCHANGED out
                 ELSE Reply(r, <<denied_frame(gate(q))>>)
      /\ UNCHANGED <<scen, rows, policy, registry, hello, imported, serving, crashes>>

\* The bytes come from the installer, out of band.
Fetch(r) ==
  LET q == Query(r)
  IN  /\ At(r, "install")
      /\ \E ok \in BOOLEAN :
           /\ ok \/ scen.flaky
           /\ IF q.hash = None THEN Reply(r, <<error_frame("protocol-error")>>)
              ELSE IF ~scen.fetcher \/ ~ok THEN Reply(r, <<error_frame("engine-error")>>)
              ELSE IF q.hash.size > MaxWasm THEN Reply(r, <<error_frame("limit-exceeded")>>)
              ELSE IF q.bytes \notin {None, q.hash.size}
              THEN Reply(r, <<error_frame("protocol-error")>>)
              ELSE Go(r, [job[r] EXCEPT !.pc = "upsert"]) /\ UNCHANGED out
      /\ UNCHANGED <<scen, db, registry, hello, imported, serving, crashes>>

Least(a, b) == IF a < b THEN a ELSE b
Put(f, n, x) == [m \in DOMAIN f \cup {n} |-> IF m = n THEN x ELSE f[m]]
Drop(f, n) == [m \in DOMAIN f \ {n} |-> f[m]]

\* upsert: the row is enabled at once, the grant was the approval.
upsert(q, memory, warrant) ==
  Put(rows, q.name, [wasm |-> q.hash, sha |-> TRUE, enabled |-> TRUE, caps |-> q.caps,
                     timeout |-> q.timeout, memory |-> memory, warrant |-> warrant])

Upsert(r) ==
  LET q == Query(r)
  IN  /\ At(r, "upsert")
      /\ rows' = upsert(q, Least(q.memory, MaxMemory), job[r].warrant)
      /\ Go(r, [job[r] EXCEPT !.pc = "reload", !.next = "installed"])
      /\ UNCHANGED <<scen, policy, inbox, audit, registry, hello, out, imported, serving, crashes>>

RemoveRow(r) ==
  /\ At(r, "remove")
  /\ rows' = Drop(rows, Query(r).name)
  /\ Go(r, [job[r] EXCEPT !.pc = "reload", !.next = "removed"])
  /\ UNCHANGED <<scen, policy, inbox, audit, registry, hello, out, imported, serving, crashes>>

\* reload_mods, ModsHost::load: the enabled rows, read on the database thread.
ReadRows(r) ==
  /\ At(r, "reload")
  /\ IF scen.reloader
     THEN Go(r, [job[r] EXCEPT !.pc = "compile", !.snap = read_enabled_rows(rows)])
          /\ UNCHANGED out
     ELSE Reply(r, <<error_frame("engine-error")>>)
  /\ UNCHANGED <<scen, db, registry, hello, imported, serving, crashes>>

\* ModsHost::install: compile, then swap the handler, an empty one too.
SetHandler(r) ==
  /\ At(r, "compile")
  /\ registry' = from_rows(job[r].snap)
  /\ Go(r, [job[r] EXCEPT !.pc = "readHello", !.refused = refused(job[r].snap), !.snap = None])
  /\ UNCHANGED <<scen, db, hello, out, imported, serving, crashes>>

\* The reloader: the hello of the rows as they are now.
ReadHello(r) ==
  /\ At(r, "readHello")
  /\ Go(r, [job[r] EXCEPT !.pc = "setHello", !.snap = node_hello(rows)])
  /\ UNCHANGED <<scen, db, registry, hello, out, imported, serving, crashes>>

\* Publish it; a mod refused at load is disabled, and the reload runs again.
SetHello(r) ==
  LET j == job[r] name == Query(r).name
  IN  /\ At(r, "setHello")
      /\ hello' = j.snap
      /\ IF j.next = "installed" /\ name \in j.refused
         THEN Go(r, [j EXCEPT !.pc = "disable", !.snap = None]) /\ UNCHANGED out
         ELSE Reply(r, IF j.next = "refused" THEN <<error_frame("engine-error")>> ELSE OneRow(name))
      /\ UNCHANGED <<scen, db, registry, imported, serving, crashes>>

set_enabled(rs, n, b) == IF n \in DOMAIN rs THEN [rs EXCEPT ![n].enabled = b] ELSE rs

Disable_quiet(r) ==
  /\ At(r, "disable")
  /\ rows' = set_enabled(rows, Query(r).name, FALSE)
  /\ Reply(r, <<error_frame("engine-error")>>)
  /\ UNCHANGED <<scen, policy, inbox, audit, registry, hello, imported, serving, crashes>>

Disable(r) ==
  /\ At(r, "disable")
  /\ rows' = set_enabled(rows, Query(r).name, FALSE)
  /\ Go(r, [job[r] EXCEPT !.pc = "reload", !.next = "refused"])
  /\ UNCHANGED <<scen, policy, inbox, audit, registry, hello, out, imported, serving, crashes>>

\* mod-install, owner lane: one path parameter, read into the blob store.
Import(r) ==
  LET q == Query(r)
  IN  /\ At(r, "import")
      /\ CASE q.params = "none" -> Reply(r, <<error_frame("mod-unsupported")>>)
           [] q.params = "many" -> Reply(r, <<error_frame("protocol-error")>>)
           [] q.params = "path" -> Reply(r, IF scen.fetcher THEN OneRow(q.name)
                                            ELSE <<error_frame("engine-error")>>)
      /\ imported' = IF q.params = "path" /\ scen.fetcher THEN imported \cup {r} ELSE imported
      /\ UNCHANGED <<scen, db, registry, hello, serving, crashes>>

----------------------------------------------------------------------------
\* The owner's side: `rsntr mod ...` and `rsntr inbox answer`, one statement each.
\* A changed row is served at the next reload or start.

\* blob_prefer: a wasm past one socket frame takes the in-process transport.
blob_prefer(q) == IF q.hash.size <= scen.socketMax THEN q.prefer
                  ELSE IF q.prefer = "socket" THEN "none" ELSE "local"

\* mod_add: a new row starts disabled, a replaced one keeps its bit.
mod_add(q) ==
  Put(rows, q.name,
      [wasm |-> q.hash, sha |-> TRUE, caps |-> q.caps, warrant |-> q.caps,
       enabled |-> q.name \in DOMAIN rows /\ rows[q.name].enabled,
       timeout |-> IF q.name \in DOMAIN rows THEN rows[q.name].timeout ELSE 0,
       memory |-> IF q.name \in DOMAIN rows THEN rows[q.name].memory ELSE MaxMemory])

OwnerEdit(r) ==
  LET q == Query(r)
  IN  /\ At(r, "new") /\ q.lane = "cli"
      /\ q.verb = "answer" => \E i \in DOMAIN inbox : inbox[i].open
      /\ CASE q.verb = "add" -> rows' = IF blob_prefer(q) = "none" THEN rows ELSE mod_add(q)
           [] q.verb \in {"enable", "disable"} ->
                rows' = set_enabled(rows, q.name, q.verb = "enable")
           [] q.verb = "rm" -> rows' = Drop(rows, q.name)
           [] OTHER -> UNCHANGED rows
      /\ policy' = CASE q.verb = "answer" -> policy \cup q.grants
                     [] q.verb = "revoke" -> policy \ q.grants
                     [] OTHER -> policy
      /\ inbox' = IF q.verb = "answer"
                  THEN [i \in DOMAIN inbox |-> [inbox[i] EXCEPT !.open = FALSE]] ELSE inbox
      /\ Go(r, [Fresh EXCEPT !.pc = "done"])
      /\ UNCHANGED <<scen, audit, registry, hello, out, imported, serving, crashes>>

\* The process dies and is served again: the streams are lost, the rows are not.
Restart ==
  /\ crashes < scen.crashes /\ serving = "yes"
  /\ crashes' = crashes + 1
  /\ registry' = from_rows(read_enabled_rows(rows))
  /\ hello' = node_hello(rows)
  /\ job' = [r \in Reqs |-> IF job[r].pc \in {"new", "done"} THEN job[r]
                            ELSE [Fresh EXCEPT !.pc = "lost"]]
  /\ UNCHANGED <<scen, db, out, imported, serving>>

----------------------------------------------------------------------------
\* Calls: serve_mod and the wasm host.

Wasm(r) == job[r].h[job[r].name].wasm
Cap(limit, max) == IF limit = None THEN max ELSE Least(limit, max)

\* The action the chain decides: the name that is served, not the tag that was asked for.
ModAction_asked(r, name) == <<"mod">> \o Query(r).mod
ModAction(r, name) == <<"mod">> \o name

\* ModsHost::serve: the entry of the handler the request was dispatched to, then gate_mod
\* on the entry's own name.
GateMod(r) ==
  LET name == find(job[r].h, Query(r).mod)
      action == ModAction(r, name)
      decision == IF peer_known(r) THEN decide(r, action, {}) ELSE "deny"
  IN  /\ At(r, "mod") /\ ~scen.python
      /\ Audit(r, decision, action)
      /\ IF decision = "allow"
         THEN Go(r, [job[r] EXCEPT !.pc = "run", !.name = name, !.senders = {"serve", "state"}])
         ELSE Go(r, [job[r] EXCEPT !.pc = "say", !.senders = {"serve"},
                                   !.todo = <<denied_frame(action)>>])
      /\ UNCHANGED <<scen, rows, policy, inbox, registry, hello, out, imported, serving, crashes>>

\* What handle() asks of the host next.
Call(r) == Wasm(r).script[job[r].step]
Running(r, op) == At(r, "run") /\ Call(r).op = op
Next1(j) == [j EXCEPT !.step = @ + 1]

\* run_plugin returns: the request state leaves the thread, its sender with it.
Returned_leaky(j, frames) == [j EXCEPT !.pc = "say", !.todo = frames]
Returned(j, frames) ==
  [j EXCEPT !.pc = "say", !.todo = frames, !.senders = @ \ {"state"}]
Trap(j, code) == Returned(j, <<error_frame(code)>>)

need_cap(r) == Call(r).cap \in job[r].h[job[r].name].caps

\* account_and_send: rows are renumbered, the budgets come before the channel.
EmitFrame(r) ==
  LET j == job[r] c == Call(r)
      n == j.rows + c.n
      bytes == j.bytes + c.bytes
      f == Frame(c.class, "", [i \in 1..c.n |-> j.rows + i - 1], c.bytes)
  IN  /\ Running(r, "emit")
      /\ IF n > Cap(Query(r).rowLimit, MaxRows) \/ bytes > Cap(Query(r).byteLimit, MaxBytes)
            \/ j.closed
         THEN Go(r, Trap(j, "engine-error"))
         ELSE /\ Len(j.chan) < Channel
              /\ Go(r, Next1([j EXCEPT !.rows = n, !.bytes = bytes, !.chan = Append(@, f)]))
      /\ UNCHANGED <<scen, db, registry, hello, out, imported, serving, crashes>>

\* run_mod_statement: the footprint, the chain for this peer, the row, the statement.
Screened_lax(r) == IF Call(r).write /\ Call(r).op = "query" THEN "deny" ELSE "allow"
Screened(r) ==
  IF Call(r).write /\ Call(r).op = "query" THEN "deny"
  ELSE decide(r, IF Call(r).write THEN <<"write">> ELSE <<"read">>, {Call(r).table})

\* The statement runs, and the mod goes on.
execute_mod_statement(j) == Next1(j)

\* db_query, db_execute.
DbCall(r) ==
  /\ At(r, "run") /\ Call(r).op \in {"query", "execute"}
  /\ IF need_cap(r)
     THEN /\ Audit(r, Screened(r), IF Call(r).write THEN <<"write">> ELSE <<"read">>)
          /\ Go(r, IF Screened(r) = "allow" THEN execute_mod_statement(job[r])
                   ELSE Trap(job[r], "engine-error"))
     ELSE Go(r, Trap(job[r], "engine-error")) /\ UNCHANGED audit
  /\ UNCHANGED <<scen, rows, policy, inbox, registry, hello, out, imported, serving, crashes>>

NowNs(r) ==
  /\ Running(r, "now")
  /\ Go(r, IF need_cap(r) THEN Next1(job[r]) ELSE Trap(job[r], "engine-error"))
  /\ UNCHANGED <<scen, db, registry, hello, out, imported, serving, crashes>>

\* handle() returns, or never would and is stopped by its timeout.
Return(r) ==
  /\ At(r, "run") /\ Call(r).op \in {"return", "spin"}
  /\ Go(r, CASE Call(r).op = "spin" -> Trap(job[r], "timeout")
             [] Call(r).class = "Error" -> Trap(job[r], "mod-error")
             [] OTHER -> Returned(job[r], <<>>))
  /\ UNCHANGED <<scen, db, registry, hello, out, imported, serving, crashes>>

\* A frame of the host itself; a closed channel is ignored.
Say_eager(r) ==
  /\ At(r, "say") /\ job[r].todo # <<>>
  /\ Go(r, [job[r] EXCEPT !.todo = Tail(@), !.chan = Append(@, Head(job[r].todo))])
  /\ UNCHANGED <<scen, db, registry, hello, out, imported, serving, crashes>>

Say(r) ==
  /\ At(r, "say") /\ job[r].todo # <<>>
  /\ job[r].closed \/ Len(job[r].chan) < Channel
  /\ Go(r, [job[r] EXCEPT !.todo = Tail(@),
                          !.chan = IF job[r].closed THEN @ ELSE Append(@, Head(job[r].todo))])
  /\ UNCHANGED <<scen, db, registry, hello, out, imported, serving, crashes>>

\* serve() is over: audit_outcome, then its sender is dropped.
Ran(r) ==
  /\ At(r, "say") /\ job[r].todo = <<>>
  /\ Go(r, [job[r] EXCEPT !.pc = "ran", !.senders = @ \ {"serve"}])
  /\ UNCHANGED <<scen, db, registry, hello, out, imported, serving, crashes>>

\* The forwarder, beside the handler; a caller that left fails the send.
Forward(r) ==
  /\ job[r].chan # <<>>
  /\ \/ /\ out' = [out EXCEPT ![r] = Append(@, Head(job[r].chan))]
        /\ Go(r, [job[r] EXCEPT !.chan = Tail(@)])
     \/ /\ Query(r).leaves
        /\ Go(r, [job[r] EXCEPT !.chan = <<>>, !.closed = TRUE])
        /\ UNCHANGED out
  /\ UNCHANGED <<scen, db, registry, hello, imported, serving, crashes>>

\* join!: the handler returned, and the forwarder saw the last sender go.
Join(r) ==
  /\ At(r, "ran")
  /\ job[r].closed \/ (job[r].senders = {} /\ job[r].chan = <<>>)
  /\ Go(r, [Fresh EXCEPT !.pc = "done"])
  /\ UNCHANGED <<scen, db, registry, hello, out, imported, serving, crashes>>

----------------------------------------------------------------------------
\* Python mods: callables served in process.

PyReserved == {Builtin[m] : m \in DOMAIN Builtin \ {"modInstall", "pages", "system"}}

\* register_mod, before serve(): the hello is read when the endpoint binds.
Register(r) ==
  LET q == Query(r)
  IN  /\ At(r, "new") /\ q.lane = "py"
      /\ registry' = IF serving = "no" /\ q.name \notin PyReserved
                     THEN Put(registry, q.name, q.outcome) ELSE registry
      /\ Go(r, [Fresh EXCEPT !.pc = "done"])
      /\ UNCHANGED <<scen, db, hello, out, imported, serving, crashes>>

\* Node.serve(): the endpoint accepts before the handler is set.
PyServe ==
  /\ serving \in {"no", "bound"}
  /\ serving' = IF serving = "no" THEN "bound" ELSE "yes"
  /\ hello' = IF serving = "no" THEN node_hello(rows) \cup DOMAIN registry ELSE hello
  /\ UNCHANGED <<scen, db, registry, job, out, imported, crashes>>

\* serve_mod: this handler does not gate itself as far as the node knows, so gate_mod_request
\* runs, on an advertised name that matches.
GateModRequest(r) ==
  /\ At(r, "mod") /\ scen.python
  /\ \E name \in {n \in DOMAIN job[r].h : mod_matches(Query(r).mod, n)} :
       LET action == ModAction(r, name)
           decision == IF peer_known(r) THEN decide(r, action, {}) ELSE "deny"
       IN  /\ Audit(r, decision, action)
           /\ IF decision = "allow"
              THEN Go(r, [job[r] EXCEPT !.pc = "py", !.senders = {"serve"}]) /\ UNCHANGED out
              ELSE Reply(r, <<denied_frame(action)>>)
  /\ UNCHANGED <<scen, rows, policy, inbox, registry, hello, imported, serving, crashes>>

\* Rows over frames: a frame is closed before the row that would overfill it.
Overfull_late(acc, size) == Len(acc.batch) >= RowsPerFrame \/ acc.bytes >= FrameBudget
Overfull(acc, size) == Len(acc.batch) >= RowsPerFrame \/ acc.bytes + size >= FrameBudget
Batches(sizes) ==
  LET add(acc, i) ==
        IF acc.batch # <<>> /\ Overfull(acc, sizes[i])
        THEN [sent |-> Append(acc.sent, Frame("Row", "", acc.batch, acc.bytes)),
              batch |-> <<i - 1>>, bytes |-> sizes[i]]
        ELSE [acc EXCEPT !.batch = Append(@, i - 1), !.bytes = @ + sizes[i]]
      all == FoldLeft(add, [sent |-> <<>>, batch |-> <<>>, bytes |-> 0],
                      [i \in DOMAIN sizes |-> i])
  IN  IF all.batch = <<>> THEN all.sent
      ELSE Append(all.sent, Frame("Row", "", all.batch, all.bytes))

\* call_py_mod, convert_mod_return: what the callable returned or raised.  A list of dicts takes
\* the first one's columns and fills the gaps; a tuple's rows must all have their cells.
convert_mod_return(v) ==
  CASE v.ret = "none" -> [kind |-> "Rows", sizes |-> <<>>]
    [] v.ret = "denied" -> [kind |-> "Denied"]
    [] v.ret = "dicts" -> [kind |-> "Rows", sizes |-> v.sizes]
    [] v.ret = "tuple" -> IF v.ragged THEN [kind |-> "Error"]
                          ELSE [kind |-> "Rows", sizes |-> v.sizes]
    [] v.ret \in {"other", "raised"} -> [kind |-> "Error"]

\* A row no frame can hold is refused before a header promises results.
send_mod_outcome(o) ==
  CASE o.kind = "Denied" -> <<denied_frame("callback")>>
    [] o.kind = "Error" -> <<error_frame("mod-error")>>
    [] o.kind = "Rows" -> IF \E i \in DOMAIN o.sizes : o.sizes[i] > RowMax
                          THEN <<error_frame("engine-error")>>
                          ELSE <<Result>> \o Batches(o.sizes) \o <<Done>>

\* PyModsHandler::handle: its own look-up and its own gate, on the tag asked for.
PyHandle(r) ==
  LET q == Query(r)
      action == <<"mod">> \o q.mod
      decision == IF peer_known(r) THEN decide(r, action, {}) ELSE "deny"
      mine == {n \in DOMAIN job[r].h : mod_matches(n, q.mod)}
  IN  /\ At(r, "py")
      /\ IF mine = {}
         THEN /\ Go(r, [job[r] EXCEPT !.pc = "say", !.todo = <<error_frame("mod-unsupported")>>])
              /\ UNCHANGED audit
         ELSE \E n \in mine :
                /\ Audit(r, decision, action)
                /\ Go(r, [job[r] EXCEPT
                            !.pc = "say", !.name = n,
                            !.todo = IF decision = "allow"
                                     THEN send_mod_outcome(convert_mod_return(job[r].h[n]))
                                     ELSE <<denied_frame(action)>>])
      /\ UNCHANGED <<scen, rows, policy, inbox, registry, hello, out, imported, serving, crashes>>

----------------------------------------------------------------------------
\* The lanes that only read: pages, help, projection and the system graph.

\* The document as a hologram: a header, the slices, the end.
Hologram(name, size) ==
  <<Frame("Hologram", name, <<>>, size)>>
    \o [i \in 1..size |-> Frame("Chunk", "", <<i - 1>>, 1)] \o <<Done>>

\* serve_pages: the row is read as the calling peer would read it.
ServePages(r) ==
  LET q == Query(r)
      decision == decide(r, <<"read">>, {<<"pages">>})
  IN  /\ At(r, "pages")
      /\ IF q.name = None THEN Reply(r, <<error_frame("point-unknown")>>) /\ UNCHANGED audit
         ELSE IF ~peer_known(r) THEN Reply(r, <<denied_frame("unknown")>>) /\ UNCHANGED audit
         ELSE /\ Audit(r, decision, <<"read">>)
              /\ Reply(r, IF decision = "deny" THEN <<denied_frame("read")>>
                          ELSE IF q.name \notin DOMAIN scen.pages
                          THEN <<error_frame("point-unknown")>>
                          ELSE IF scen.pages[q.name] > (MaxBytes * 3) \div 4
                          THEN <<error_frame("limit-exceeded")>>
                          ELSE Hologram(q.name, scen.pages[q.name]))
      /\ UNCHANGED <<scen, rows, policy, inbox, registry, hello, imported, serving, crashes>>

actions_for_kind(k) ==
  CASE k = "excitable" -> {<<"write">>} [] k = "sympathetic" -> {<<"entrain">>, <<"read">>}
    [] OTHER -> {<<"read">>}

\* visible: an allow row exists; a point without a resource is public.
AllowRow_exact(peer, table, action) ==
  \E p \in policy : /\ p.action = action /\ p.effect = "allow"
                    /\ p.table = table /\ p.who \in {peer, Star}
AllowRow(peer, table, action) ==
  \E p \in policy : /\ p.action = action /\ p.effect = "allow"
                    /\ p.table \in {table, Star} /\ p.who \in {peer, Star}

visible(peer, pt) ==
  pt.resource = None \/
  \E a \in actions_for_kind(pt.kind)
           \cup {<<m>> : m \in {x \in {"chat", "media", "audioDuplex"} :
                                  mod_matches(Builtin[x], pt.mod)}} :
     AllowRow(peer, pt.resource, a)

\* build_projection at a path; the owner sees every point.
build_projection(q) ==
  {pt \in scen.points : pt.path = q.signal /\ (q.lane = "owner" \/ visible(q.peer, pt))}

Known(q) == q.signal = "" \/ \E pt \in scen.points : pt.path = q.signal

\* readable: the same test, per system table.
build_system_graph(q) ==
  {t \in scen.tables : q.lane = "owner" \/ AllowRow(q.peer, t, <<"read">>)}

\* build_help: the tables this caller has a read row for.
build_help(q) == {t \in scen.tables \cup {Star} : AllowRow(q.peer, t, <<"read">>)}

Shown(what) == <<Frame("Shown", what, <<>>, 0), Done>>

ServeHelp(r) ==
  /\ At(r, "help")
  /\ Audit(r, "allow", <<"help">>)
  /\ Reply(r, Shown(build_help(Query(r))))
  /\ UNCHANGED <<scen, rows, policy, inbox, registry, hello, imported, serving, crashes>>

\* serve_projection_lane: a path that offers nothing is unknown, and the attempt is on record.
ServeProjection(r) ==
  /\ At(r, "projection")
  /\ Audit(r, IF Known(Query(r)) THEN "allow" ELSE "deny", <<"projection">>)
  /\ Reply(r, IF Known(Query(r)) THEN Shown(build_projection(Query(r)))
              ELSE <<error_frame("point-unknown")>>)
  /\ UNCHANGED <<scen, rows, policy, inbox, registry, hello, imported, serving, crashes>>

\* serve_system_lane: one signal; another is refused before the database is asked.
ServeSystem(r) ==
  /\ At(r, "system")
  /\ IF Query(r).signal = "graph"
     THEN Audit(r, "allow", <<"system">>) /\ Reply(r, Shown(build_system_graph(Query(r))))
     ELSE Reply(r, <<error_frame("protocol-error")>>) /\ UNCHANGED audit
  /\ UNCHANGED <<scen, rows, policy, inbox, registry, hello, imported, serving, crashes>>

----------------------------------------------------------------------------
Step(r) ==
  \/ Accept(r) \/ Dispatch(r)
  \/ InstallGate(r) \/ Fetch(r) \/ Upsert(r) \/ RemoveRow(r) \/ Import(r)
  \/ ReadRows(r) \/ SetHandler(r) \/ ReadHello(r) \/ SetHello(r) \/ Disable(r)
  \/ GateMod(r) \/ EmitFrame(r) \/ DbCall(r) \/ NowNs(r) \/ Return(r)
  \/ Say(r) \/ Ran(r) \/ Forward(r) \/ Join(r)
  \/ GateModRequest(r) \/ PyHandle(r)
  \/ ServePages(r) \/ ServeHelp(r) \/ ServeProjection(r) \/ ServeSystem(r)

Turn == ~scen.serial \/ \A r \in Reqs : job[r].pc \in {"new", "done", "lost"}

\* Requests and the owner's commands come when they come, in a serial scenario one at a time.
Next ==
  \/ \E r \in DOMAIN scen.reqs :
       (At(r, "new") => Turn) /\ (Step(r) \/ OwnerEdit(r) \/ Register(r))
  \/ Restart
  \/ PyServe

\* Every handler is a task of the runtime and the forwarder runs beside it.
Spec ==
  /\ Init /\ [][Next]_vars
  /\ \A r \in Reqs : WF_vars(r \in DOMAIN scen.reqs /\ ~At(r, "new") /\ Step(r))

----------------------------------------------------------------------------
\* Properties.

Ended(r) == job[r].pc \in {"done", "lost"}
Rows(r) == SelectSeq(out[r], LAMBDA f : f.class = "Row")
Has(r, decision, action) ==
  \E i \in DOMAIN audit[r] : audit[r][i] = [decision |-> decision, action |-> action]

\* Every variable keeps its shape; a channel never holds more than its capacity.
TypeOK ==
  /\ \A n \in DOMAIN rows : rows[n].enabled \in BOOLEAN /\ rows[n].caps \subseteq scen.caps
  /\ DOMAIN registry \subseteq Range(Sorted)
  /\ hello \subseteq {Builtin[m] : m \in DOMAIN Builtin} \cup Range(Sorted)
  /\ policy \subseteq scen.policy \cup UNION {q.grants : q \in Range(scen.reqs)}
  /\ imported \subseteq Reqs /\ serving \in {"no", "bound", "yes"} /\ crashes \in 0..scen.crashes
  /\ \A r \in Reqs : /\ Len(job[r].chan) <= Channel
                     /\ job[r].senders \subseteq {"serve", "state"}
                     /\ \A i \in DOMAIN audit[r] : audit[r][i].decision \in {"allow", "deny"}

\* registry.rs, mod_install.rs: whatever was installed, replaced, disabled, reloaded or restarted
\* in between, a mod that is served, or still runs on the handler it was dispatched to, is one
\* the load rules accept under this name, and it holds no capability beyond those the owner
\* gave its row or the policy granted its installer when the install was let in.
ServedSound ==
  LET sound(e, n) == /\ e.wasm.name = n /\ e.wasm.abi = 1
                     /\ e.wasm.needs \subseteq e.caps /\ e.caps \subseteq e.warrant
                     /\ e.limits.memory <= MaxMemory
  IN  ~scen.python =>
        /\ \A n \in DOMAIN registry : sound(registry[n], n)
        /\ \A r \in Reqs : job[r].h # None =>
             \A n \in DOMAIN job[r].h : sound(job[r].h[n], n)

\* serve.rs reloader, serve_mod_install: installs and removals that follow one another, the
\* refused ones included, leave the node serving exactly its enabled rows and advertising
\* exactly what it serves.
AdvertisedIsServed ==
  scen.tidy /\ (\A r \in Reqs : job[r].pc \in {"new", "done"}) =>
    /\ registry = from_rows(read_enabled_rows(rows))
    /\ hello = served_modulations \cup DOMAIN registry

\* serve_mod, ModsHost::serve: the mod that runs is the one whose own name the chain allowed
\* for this caller, whichever tag was asked for and whatever was installed meanwhile.  (Python
\* handlers: as long as no registered name is another's with a version.)
GateNamesServed ==
  \A r \in Reqs : job[r].name # None =>
    \/ scen.python /\ \E a, b \in DOMAIN job[r].h : IsStrictPrefix(a, b)
    \/ scen.python /\ Head(job[r].todo \o <<Done>>).class = "Denied"
    \/ Has(r, "allow", <<"mod">> \o job[r].name)

\* mod_install::gate, gate_mod: the ledger tells every attempt.  An install or a removal that
\* was answered as applied has exactly one row and it allows; a refused request has a row that
\* denies, or is a page for an unknown peer; and a path parameter is read only for the owner.
LedgerTells ==
  /\ \A r \in imported : Query(r).lane = "owner"
  /\ \A r \in Reqs : Ended(r) /\ out[r] # <<>> =>
       LET q == Query(r)
       IN  /\ out[r][1].class = "Denied" =>
                \/ \E i \in DOMAIN audit[r] : audit[r][i].decision = "deny"
                \/ mod_matches(Builtin.pages, q.mod) /\ q.peer \notin scen.peers
                \/ scen.python
           /\ q.lane = "remote" /\ mod_matches(Builtin.modInstall, q.mod)
                /\ out[r][1].class = "Result" =>
                audit[r] = <<[decision |-> "allow", action |-> <<"mod-install">>]>>

\* park_install: however often an installer retries while the owner thinks, one row waits.
OnePending ==
  \A i, k \in DOMAIN inbox : inbox[i] = inbox[k] /\ inbox[i].open => i = k

\* account_and_send, send_mod_outcome, serve_mod: the rows a caller received are numbered from 0
\* without a gap, in frames the wire can carry and within its limits, whatever the mod
\* numbered; and a caller that stayed has one closing frame, the last, from a mod that keeps
\* to the protocol.
AnswerWhole ==
  \A r \in DOMAIN scen.reqs :
    LET seqs == FlattenSeq([i \in DOMAIN Rows(r) |-> Rows(r)[i].seqs])
    IN  /\ \A i \in DOMAIN seqs : seqs[i] = i - 1
        /\ Query(r).lane = "remote" => Len(seqs) <= Cap(Query(r).rowLimit, MaxRows)
        /\ \A i \in DOMAIN Rows(r) : Rows(r)[i].bytes <= RowMax
        /\ At(r, "done") /\ Query(r).lane \in {"remote", "owner"} /\ ~Query(r).leaves
             /\ ~scen.rude =>
             /\ out[r] # <<>>
             /\ \A i \in DOMAIN out[r] : Terminal(out[r][i]) <=> i = Len(out[r])

\* projection.rs, policy.rs: a point the projection hides from a peer is one the policy tier does
\* not let that peer use.
HiddenIsRefused ==
  \A peer \in scen.peers, pt \in scen.points :
    pt.resource # None /\ ~visible(peer, pt) =>
      \A a \in actions_for_kind(pt.kind) :
        PolicySays(policy, peer, {pt.resource}, a) # "allow"

\* host.rs, run_mod_statement: a statement of a mod goes ahead only if the entry it runs as
\* holds the capability and the policy, as it is at that moment, lets the calling peer do it:
\* a right revoked after the call was let in stops its next statement.
StatementsDecided ==
  [][\A r \in Reqs :
       /\ At(r, "run") /\ job'[r].step > job[r].step
       /\ Call(r).op \in {"query", "execute"}
       => /\ Call(r).cap \in job[r].h[job[r].name].caps
          /\ Call(r).write => Call(r).op = "execute"
          /\ PolicySays(policy, Query(r).peer, {Call(r).table},
                        IF Call(r).write THEN <<"write">> ELSE <<"read">>) = "allow"]_vars

\* serve_mod, run_plugin: every request that was accepted ends, a call whose caller left and
\* one whose mod never returns included: no sender outlives the handler.
EveryRequestEnds == <>[](\A r \in Reqs : At(r, "new") \/ Ended(r))

\* What is served is what was let in: sound entries, advertised as they are, gated under their
\* own name, and hidden points are refused points.
ServedTruly == TypeOK /\ ServedSound /\ AdvertisedIsServed /\ GateNamesServed /\ HiddenIsRefused

\* What a request leaves behind tells it: its audit rows, its one parked question, its answer.
RequestsTold == LedgerTells /\ OnePending /\ AnswerWhole
=============================================================================
