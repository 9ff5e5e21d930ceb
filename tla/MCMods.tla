------------------------------- MODULE MCMods -------------------------------
(* Small instances of Mods: one scenario for each thing that can happen to  *)
(* a modulation while requests for it are served.                           *)
EXTENDS Mods

Time == <<"time">>
Time1 == <<"time", "1">>
Cam == <<"cam">>
MCSorted == <<Cam, Time, Time1>>

\* What handle() does.
Emit(class, n, bytes) == [op |-> "emit", class |-> class, n |-> n, bytes |-> bytes]
Db(op, write, t) ==
  [op |-> op, write |-> write, table |-> <<t>>,
   cap |-> IF op = "query" THEN "db_read" ELSE "db_write"]
Now == [op |-> "now", cap |-> "clock"]
Ret(class) == [op |-> "return", class |-> class]
Spin == [op |-> "spin"]
Plain == <<Emit("Result", 0, 1), Emit("Row", 1, 1), Emit("Done", 0, 1), Ret("Done")>>

Blob(name, needs, script) ==
  [size |-> 1, compiles |-> TRUE, abi |-> 1, name |-> name, needs |-> needs, script |-> script]
Row(blob, on, caps) ==
  [wasm |-> blob, sha |-> TRUE, enabled |-> on, caps |-> caps, timeout |-> 1, memory |-> 1,
   warrant |-> caps]
One(n, row) == [m \in {n} |-> row]

Base(lane, peer, class, mod) ==
  [lane |-> lane, peer |-> peer, class |-> class, mod |-> mod, verb |-> "none", name |-> None,
   hash |-> None, bytes |-> None, caps |-> {}, params |-> "none", signal |-> "", timeout |-> 1,
   memory |-> 9, rowLimit |-> None, byteLimit |-> None, leaves |-> FALSE, grants |-> {},
   prefer |-> "auto", outcome |-> None]
Install(peer, name, blob, caps) ==
  [Base("remote", peer, "Execute", Builtin.modInstall) EXCEPT
     !.verb = "install", !.name = name, !.hash = blob, !.caps = caps, !.signal = "install"]
Removal(peer, name) ==
  [Base("remote", peer, "Execute", Builtin.modInstall) EXCEPT
     !.verb = "remove", !.name = name, !.signal = "remove"]
Invoke(peer, tag) == Base("remote", peer, "Query", tag)
Cli(verb, name) == [Base("cli", "self", "Execute", Builtin.sql) EXCEPT !.verb = verb, !.name = name]

Allow(who, table, action) == [who |-> who, table |-> table, action |-> action, effect |-> "allow"]
Deny(who, table, action) == [who |-> who, table |-> table, action |-> action, effect |-> "deny"]
MayInstall(p, n) ==
  {Allow(p, n, <<"mod-install">>), Allow(p, Star, <<"mod-cap", "db_read">>),
   Allow(p, Star, <<"mod-cap", "clock">>)}
MayCall == {Allow("p", Star, <<"mod">> \o n) : n \in Range(MCSorted)}

Scenario(reqs, rs, pol) ==
  [reqs |-> reqs, rows |-> rs, policy |-> pol, peers |-> {"p", "q", "self"}, python |-> FALSE,
   listed |-> {"help", "projection", "system", "pages", "modInstall"}, reloader |-> TRUE,
   fetcher |-> TRUE, flaky |-> FALSE, crashes |-> 0, serial |-> FALSE, tidy |-> FALSE,
   rude |-> FALSE, caps |-> {"db_read", "db_write", "clock"}, pages |-> <<>>, points |-> {},
   tables |-> {}, socketMax |-> 1]

Good == Blob(Time, {"clock"}, Plain)
Greedy == Blob(Time, {"db_read", "clock"}, Plain)
Misnamed == Blob(Cam, {}, Plain)
Broken == [Good EXCEPT !.compiles = FALSE]
OldAbi == [Good EXCEPT !.abi = 2]

\* Installs and removals one after another, some refused at load.
Tidy ==
  {[Scenario([a |-> Install("p", Time, b1, c), b |-> Install("q", Time, b2, {"clock"}),
              c |-> Removal("p", Time)],
             <<>>, MayInstall("p", Time) \cup MayInstall("q", Time))
      EXCEPT !.serial = TRUE, !.tidy = TRUE]
     : b1 \in {Good, Greedy, Misnamed}, b2 \in {Good, Broken, OldAbi}, c \in {{"clock"}, {}}}

\* The same without turns, with a call under way and a restart.
Race ==
  {[Scenario([a |-> Install("p", Time, Good, {"clock"}), b |-> i, c |-> Invoke("p", Time)],
             One(Time1, Row(Blob(Time1, {}, Plain), TRUE, {})),
             MayInstall("p", Time) \cup MayInstall("q", Time) \cup MayCall)
      EXCEPT !.crashes = n]
     : i \in {Removal("p", Time), Install("q", Time, Greedy, {"clock"})}, n \in {0, 1}}

\* The owner edits rows while a peer installs.
OwnerEdits ==
  {Scenario([a |-> Install("p", Time, Good, {"clock"}), b |-> o, c |-> Cli(v, Time)],
            rs, MayInstall("p", Time))
     : o \in {[Cli("add", Time) EXCEPT !.hash = Greedy, !.caps = {"clock"}],
              [Cli("add", Cam) EXCEPT !.hash = [Misnamed EXCEPT !.size = 2], !.prefer = "socket"],
              [Cli("add", Cam) EXCEPT !.hash = [Misnamed EXCEPT !.size = 2]]},
       v \in {"enable", "disable", "rm"},
       rs \in {<<>>, One(Time, Row(Good, TRUE, {"clock"})),
               One(Time, [Row(Good, TRUE, {"clock"}) EXCEPT !.sha = FALSE]),
               One(Time, [Row(Good, TRUE, {"clock"}) EXCEPT !.wasm = None])}}

\* Approval: parked twice, answered with grants, retried.
Approval ==
  {Scenario([a |-> Install("p", Time, Good, {"clock"}), b |-> Install("p", Time, Good, {"clock"}),
             c |-> [Cli("answer", Time) EXCEPT !.grants = g],
             d |-> Install("p", Time, Good, {"clock"})], <<>>, {})
     : g \in {MayInstall("p", Time), {Allow("p", Time, <<"mod-install">>)},
              MayInstall("p", Time) \cup {Deny(Star, Time, <<"mod-install">>)},
              MayInstall("p", Time) \cup {Deny("p", Time, <<"mod-cap", "clock">>)}}}

\* Requests that fail on the way.
Failing ==
  {[Scenario([a |-> q], <<>>, MayInstall("p", Time)) EXCEPT
      !.reloader = w, !.fetcher = f, !.flaky = TRUE]
     : w \in BOOLEAN, f \in BOOLEAN,
       q \in {Install("p", Time, Good, {"clock"}), Install("s", Time, Good, {"clock"}),
              Install("p", Time, None, {}), Removal("p", Time),
              Install("p", Time, [Good EXCEPT !.size = 9], {}),
              [Install("p", Time, Good, {}) EXCEPT !.bytes = 2],
              [Install("p", Time, Good, {}) EXCEPT !.params = "path"],
              [Install("p", Time, Good, {}) EXCEPT !.verb = "malformed"],
              [Base("owner", "self", "Execute", Builtin.modInstall) EXCEPT !.params = "path"],
              [Base("owner", "self", "Execute", Builtin.modInstall) EXCEPT !.params = "many"],
              Base("owner", "self", "Execute", Builtin.modInstall),
              Base("owner", "self", "Query", Builtin.media),
              Base("remote", "p", "Other", Builtin.help),
              Base("owner", "self", "Query", Cam),
              Base("remote", "p", "Query", Cam)}}

\* Calls of mods that stay within their rights and of mods that do not.
Scripts ==
  {Plain,
   <<Emit("Result", 0, 1), Emit("Row", 2, 2), Emit("Row", 1, 1), Emit("Done", 0, 1), Ret("Done")>>,
   <<Emit("Result", 0, 1), Emit("Row", 2, 2), Emit("Row", 2, 2), Emit("Done", 0, 1), Ret("Done")>>,
   <<Now, Ret("Error")>>, <<Emit("Result", 0, 1), Spin>>,
   <<Db("query", FALSE, "notes"), Emit("Result", 0, 1), Emit("Done", 0, 1), Ret("Done")>>,
   <<Db("query", TRUE, "notes"), Ret("Done")>>,
   <<Db("execute", TRUE, "notes"), Emit("Result", 0, 1), Emit("Done", 0, 1), Ret("Done")>>}
Rude == {<<Emit("Done", 0, 1), Ret("Error")>>, <<Ret("Done")>>}

Calling(script, caps, pol, lim, leaves) ==
  Scenario([a |-> [Invoke("p", Time) EXCEPT !.leaves = leaves, !.rowLimit = lim],
            c |-> [Cli("revoke", Time) EXCEPT !.grants = {Allow("p", <<"notes">>, <<"read">>)}]],
           One(Time, Row(Blob(Time, {}, script), TRUE, caps)), MayCall \cup pol)

MayRead == {Allow("p", <<"notes">>, <<"read">>)}
MayWrite == {Allow("p", <<"notes">>, <<"write">>), Deny("p", Star, <<"write">>)}
Calls ==
  {Calling(s, c, MayRead \cup MayWrite, lim, leaves)
     : s \in Scripts, c \in {{}, {"db_read", "clock"}, {"db_read", "db_write", "clock"}},
       lim \in {None, 2}, leaves \in BOOLEAN}
  \cup {[Calling(s, {}, {}, None, FALSE) EXCEPT !.rude = TRUE] : s \in Rude}

\* A tag asked for by its base or its version, rights on one of the two.
Tags ==
  {Scenario([a |-> Invoke(who, tag)],
            [n \in ns |-> Row(Blob(n, {}, Plain), TRUE, {})], {Allow("p", Star, <<"mod">> \o g)})
     : who \in {"p", "s"}, tag \in {Time, Time1}, g \in {Time, Time1},
       ns \in {{Time}, {Time1}, {Time, Time1}}}

\* Python mods.
Reg(name, o) == [Base("py", "self", "Execute", name) EXCEPT !.name = name, !.outcome = o]
PyRet(ret, sizes, ragged) == [ret |-> ret, sizes |-> sizes, ragged |-> ragged]
PyRows(sizes) == PyRet("tuple", sizes, FALSE)
Python ==
  {[Scenario([a |-> Reg(n1, o), b |-> Reg(Time1, PyRows(<<>>)), c |-> Invoke(who, tag)],
             <<>>, {Allow("p", Star, <<"mod">> \o g) : g \in {n1, Time1}})
      EXCEPT !.python = TRUE]
     : n1 \in {Time, Cam, Builtin.help}, tag \in {Time, Time1, Cam}, who \in {"p", "s"},
       o \in {PyRows(<<1, 3, 1>>), PyRows(<<9>>)}}
  \cup
  {[Scenario([a |-> Reg(Cam, o), b |-> Invoke("p", Cam),
              c |-> [Cli("revoke", Cam) EXCEPT !.grants = MayCall]],
             <<>>, MayCall) EXCEPT !.python = TRUE]
     : o \in {PyRows(<<1, 1, 1>>), PyRows(<<2, 2, 1>>), PyRows(<<3, 4>>), PyRows(<<>>),
              PyRet("none", <<>>, FALSE), PyRet("denied", <<>>, FALSE),
              PyRet("raised", <<>>, FALSE), PyRet("dicts", <<1, 2>>, TRUE),
              PyRet("tuple", <<1, 2>>, TRUE)}}

\* The lanes that read, under every policy over one table.
Grants == {[who |-> w, table |-> t, action |-> a, effect |-> e]
             : w \in {"p", Star}, t \in {<<"pages">>, Star}, a \in {<<"read">>},
               e \in {"allow", "deny"}}
          \cup {Allow("p", <<"pages">>, <<"entrain">>), Allow(Star, <<"pages">>, <<"write">>)}
Point(path, kind, mod, res) == [path |-> path, kind |-> kind, mod |-> mod, resource |-> res]
Points == {Point("", "radiant", <<"sql", "sqlite">>, <<"pages">>),
           Point("", "excitable", <<"chat", "1">>, <<"pages">>),
           Point("x", "sympathetic", <<"media">>, <<"pages">>),
            Point("x", "bare", <<"media">>, None)}
Reading ==
  {[Scenario([a |-> q], <<>>, g) EXCEPT
      !.points = Points, !.tables = {<<"pages">>, <<"_peers">>}, !.pages = [page |-> 2, big |-> 4]]
     : g \in SUBSET Grants,
       q \in {[Base("remote", "p", "Query", Builtin.projection) EXCEPT !.signal = "x"],
              [Base("remote", "p", "Query", Builtin.pages) EXCEPT !.name = "page"]}}
  \cup
  {[Scenario([a |-> q], <<>>, {Allow("p", <<"pages">>, <<"read">>)}) EXCEPT
      !.points = Points, !.tables = {<<"pages">>, <<"_peers">>}, !.pages = [page |-> 2, big |-> 4]]
     : q \in {[Base(l, w, "Query", Builtin[m]) EXCEPT !.signal = s, !.name = n]
                : l \in {"remote", "owner"}, w \in {"p", "s"},
                  m \in {"help", "projection", "system", "pages"},
                  s \in {"", "y", "graph"}, n \in {None, "page", "big", "none"}}}

MCScenarios ==
  Tidy \cup Race \cup OwnerEdits \cup Approval \cup Failing \cup Calls \cup Tags \cup Python
  \cup Reading
=============================================================================
