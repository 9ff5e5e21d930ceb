---------------------------- MODULE MCTransport ----------------------------
(* Small instances of Transport: one scenario for each thing that can go    *)
(* wrong between callers, their pool, a peer and the daemon in between.     *)
EXTENDS Transport

Header(r) == Obj("Result", [id |-> r, column |-> <<"x", "y">>], <<>>)
RowAt(n) == Rows(<<[seq |-> n, cells |-> <<<<"x", "v">>, <<"y", "null">>>>]>>)
DoneFor(r) == Obj("Done", [id |-> r, rowCount |-> 1], <<>>)
GraphAt(r, n, class) ==
  Obj("Graph", [id |-> r, seq |-> n], <<<<"s", "a", class>>, <<"s", "label", "l">>>>)
Answer1(r) == <<Header(r), RowAt(0), DoneFor(r)>>
Vib(r, n) == Obj("Vibration", [id |-> r, point |-> "point", seq |-> n], <<>>)
Bare(class, r) == Obj(class, [id |-> r], <<>>)
Err(r) == Obj("Error", [id |-> r, code |-> "limit-exceeded"], <<>>)

To(p, via, kind, mod, script, leaves) ==
  [peer |-> p, via |-> via, kind |-> kind, mod |-> mod, script |-> script, leaves |-> leaves]
Say(r, p, via) == To(p, via, "statement", "sql", Answer1(r), "no")
Brief(r, p, via) == To(p, via, "statement", "sql", <<Bare("Denied", r)>>, "no")

Scenario(calls, served, kinds, n) ==
  [calls |-> calls, served |-> served, kinds |-> kinds, trouble |-> n,
   mods |-> {"sql", "extra", "help"}, ver |-> "0.1", peerVer |-> "0.1"]

\* Two requests of the web relay to a peer that restarts or is lost.
Retries ==
  {Scenario([a |-> Say("a", "p", "web"), b |-> Brief("b", "p", "web")], TRUE, {k}, 1)
     : k \in {"down", "lost"}}
  \cup {Scenario([a |-> Brief("a", "p", "web")], TRUE, {"down", "lost"}, 3)}

\* A dead peer and a live one, one pool.
Shared ==
  {Scenario([a |-> Brief("a", "p", "web"), b |-> Brief("b", "q", "tunnel")], TRUE, {"down"}, 1)}

\* Commands that outlive, or not, the daemon, the peer and the connection.
Commands ==
  {Scenario([a |-> Say("a", "p", "tunnel")], served, {k}, 2)
     : served \in BOOLEAN, k \in {"daemon", "down", "lost"}}
  \cup {Scenario([a |-> Brief("a", "p", "tunnel"), b |-> Brief("b", "p", "tunnel")],
                 TRUE, {"daemon"}, 1)}

Entrains ==
  {Scenario([a |-> To("p", via, "entrain", "none",
                      <<Bare("Done", "a"), Vib("a", 0), Vib("a", 1)>>, l)], served, {k}, 1)
     : via \in {"web", "tunnel"}, l \in {"quit", "damp"}, k \in {"down", "lost"}, served \in {TRUE}}
  \cup
  {Scenario([a |-> To("p", "tunnel", "entrain", "none", script, "quit")], FALSE, {}, 0)
     : script \in {<<Bare("Done", "a"), Vib("a", 0)>>, <<Vib("a", 0)>>, <<Bare("Denied", "a")>>,
                   <<Bare("Done", "a"), Vib("a", 1)>>}}

\* Two requests on one connection, and a modulation that comes and goes.
HotMods ==
  {Scenario([a |-> Say("a", "p", "web"),
             b |-> To("p", "web", "statement", "extra", Answer1("b"), "no")], TRUE, {"mods"}, 2)}

Versions ==
  {[Scenario([a |-> Say("a", "p", via)], TRUE, {"down"}, 1) EXCEPT !.ver = v[1], !.peerVer = v[2]]
     : via \in {"web", "tunnel"}, v \in {<<"1.0", "0.1">>, <<"0.1", "1.0">>}}

\* The other kinds of request.
Fill2 == [label |-> "l", paramsOrder |-> <<"x", "y">>]
HelpFor(r) == Obj("Help", [id |-> r, signal |-> "s", topic |-> <<"t", "u">>], <<>>)
Hologram(n) == Generic("Hologram", <<<<"contentType", "t">>, <<"size", n>>>>)
Chunk(n, len) == Generic("Chunk", <<<<"seq", n>>, <<"data", len>>>>)
Offers == <<Point("i1", "Radiant", Fill2), Point("i2", "alien", <<>>)>>
Others ==
  {Scenario([a |-> To("p", "tunnel", ks[1], "help", ks[2], "no")], served, {"lost"}, 1)
     : served \in BOOLEAN,
       ks \in {<<"knock", <<Obj("Decision", [decision |-> "pending", decidedBy |-> "h"], <<>>)>>>>,
               <<"knock", <<>>>>, <<"knock", <<Bare("Denied", "a")>>>>,
               <<"projection", <<Obj("Projection", [offers |-> Offers], <<>>)>>>>,
               <<"projection", <<Err("a")>>>>, <<"projection", <<>>>>,
               <<"media", <<Obj("Media", [id |-> "a", contentType |-> "t"], <<>>), Raw, Raw>>>>,
               <<"media", <<Err("a")>>>>, <<"media", <<>>>>,
               <<"media", <<DoneFor("a")>>>>,
               <<"statement", <<HelpFor("a")>>>>, <<"help", <<HelpFor("a")>>>>,
               <<"help", <<Err("a")>>>>, <<"help", Answer1("a")>>,
               <<"pages", <<HelpFor("a")>>>>, <<"pages", <<Bare("Denied", "a")>>>>,
               <<"pages", <<Hologram(3), Chunk(0, 2), Chunk(1, 1), DoneFor("a")>>>>,
               <<"pages", <<Hologram(3), Chunk(0, 2), DoneFor("a")>>>>,
               <<"pages", <<Chunk(0, 2), DoneFor("a")>>>>}}
  \cup
  {Scenario([a |-> To("p", "web", "media", "help",
                      <<Obj("Media", [id |-> "a", contentType |-> "t"], <<>>), Raw>>, "no")],
            TRUE, {"lost"}, 1),
   Scenario([a |-> To("p", "web", "statement", "sql",
                      <<GraphAt("a", 0, "foaf"), GraphAt("a", 1, "Vibration")>>, "no")],
            TRUE, {}, 0),
   Scenario([a |-> To("p", "web", "statement", "sql", <<GraphAt("a", 0, "Vibration")>>, "no")],
            TRUE, {}, 0)}

\* A peer that answers anything.
Frames ==
  {Header("a"), RowAt(0), RowAt(1), Rows(<<[seq |-> 0, cells |-> <<<<"z", "v">>>>]>>),
   DoneFor("a"), DoneFor("b"), Bare("Denied", "a"), Err("a"), GraphAt("a", 0, "foaf"),
   GraphAt("a", 1, "Vibration"), GraphAt("a", 1, "Excitable"), Chunk(0, 1)}
Rogues ==
  {Scenario([a |-> To("p", "tunnel", "statement", "sql", s, "no")], FALSE, {}, 0)
     : s \in UNION {[1..n -> Frames] : n \in 0..2}
             \cup {<<Header("a")>> \o t : t \in [1..2 -> Frames]}}

MCScenarios ==
  Retries \cup Shared \cup Commands \cup Entrains \cup HotMods \cup Versions \cup Others
  \cup Rogues
=============================================================================
