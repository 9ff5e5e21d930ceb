----------------------------- MODULE Transport -----------------------------
(***************************************************************************)
(* Requests between nodes: the transport's pool of dialed connections and  *)
(* its acceptor (crates/transport), the callers that open a stream         *)
(* (crates/cli/src/client.rs, crates/web/src/frames.rs) and the tunnel     *)
(* through the serving process (crates/cli/src/owner.rs).                  *)
(*                                                                         *)
(* A call is one request to one peer.  "web" calls and "tunnel" calls share *)
(* the pool of the serving process, the daemon; a command run where nobody *)
(* serves has an endpoint of its own.  A peer that restarts leaves          *)
(* connections that look open until they have been idle for too long.      *)
(***************************************************************************)
EXTENDS Envelope

CONSTANTS
  Peers,
  Calls,      \* strings
  Scenarios,  \* who calls whom, for what, with what answer and what trouble
  QueueMax    \* INCOMING_QUEUE

ASSUME QueueAssumption == QueueMax \in Nat \ {0}
ASSUME NamesAssumption == "daemon" \notin Calls  \* which names the transport of the daemon
ASSUME ScenariosAssumption ==
  \A s \in Scenarios :
    /\ DOMAIN s.calls \subseteq Calls /\ s.served \in BOOLEAN /\ s.trouble \in Nat
    /\ \A r \in DOMAIN s.calls : s.calls[r].peer \in Peers /\ s.calls[r].via \in {"web", "tunnel"}

VARIABLES
  sc,       \* the scenario
  daemon,   \* whether this directory is served
  peers,    \* a peer's process and the modulations it advertises now
  conns,    \* dialed connections, as this side sees them
  pool,     \* by transport and peer: the connection kept for reuse
  lock,     \* who holds a transport's pool (its head) and who waits for it
  call,
  wire,     \* a call's stream on its connection
  tun,      \* a tunnelled call's connection to the daemon
  lane,     \* the peer's side of a stream
  queue,    \* requests a peer's transport has handed over
  trouble,  \* disturbances left
  blame,    \* calls disturbed in their present attempt
  gate      \* calls whose modulation was served at some time since they opened

vars == <<sc, daemon, peers, conns, pool, lock, call, wire, tun, lane, queue, trouble,
          blame, gate>>

Transports == Calls \cup {"daemon"}
Cfg(r) == sc.calls[r]
P(r) == Cfg(r).peer
T(r) == IF call[r].route = "own" THEN r ELSE "daemon"

NoStream == [up |-> <<>>, upFin |-> FALSE, down |-> <<>>, downFin |-> FALSE, cut |-> FALSE]
NoLane == [st |-> "none", mods |-> {}, left |-> <<>>, sent |-> <<>>, acked |-> FALSE]
NewCall(r) ==
  [pc |-> "start", route |-> "none", try |-> 1, conn |-> 0, got |-> <<>>,
   reader |-> NewReader(r, "point"), damped |-> FALSE, res |-> None]

Init ==
  /\ sc \in Scenarios
  /\ daemon = (IF sc.served THEN "up" ELSE "down")
  /\ peers = [p \in Peers |-> [up |-> TRUE, gen |-> 0, mods |-> sc.mods]]
  /\ conns = <<>>
  /\ pool = [t \in Transports |-> [p \in Peers |-> 0]]
  /\ lock = [t \in Transports |-> <<>>]
  /\ call = [r \in Calls |-> IF r \in DOMAIN sc.calls THEN NewCall(r)
                             ELSE [NewCall(r) EXCEPT !.pc = "done"]]
  /\ wire = [r \in Calls |-> NoStream] /\ tun = [r \in Calls |-> NoStream]
  /\ lane = [r \in Calls |-> NoLane]
  /\ queue = [p \in Peers |-> <<>>]
  /\ trouble = sc.trouble /\ blame = {} /\ gate = {}

-----------------------------------------------------------------------------
(* What a call sends, and how it reads what comes back. *)

Ask(r) ==
  CASE Cfg(r).kind = "knock"   -> Obj("Knock", [id |-> r, message |-> "hi"], <<>>)
    [] Cfg(r).kind = "entrain" -> Obj("Entrain", [id |-> r, point |-> "point"], <<>>)
    [] OTHER -> Obj("Query", [id |-> r, mod |-> Cfg(r).mod, signal |-> "text"], <<>>)

\* An entrainment keeps its send side open: a Damp may follow.
Finishes(r) == Cfg(r).kind # "entrain"

Raw == Generic("raw", <<>>)  \* a chunk outside the framed part
Took(r, o) == [call EXCEPT ![r].got = Append(@, o)]
Ends(r, o, res) == [Took(r, o) EXCEPT ![r].pc = "done", ![r].res = res]

\* The loop over a response's frames, those of class `bad` being refused.
Follow(r, o, bad) ==
  LET rd == ResponseReader(call[r].reader, o)
  IN IF o = Malformed \/ rd.st = "failed" \/ bad THEN Ends(r, o, "error")
     ELSE [Took(r, o) EXCEPT ![r].reader = rd]

\* run_statement: a media header is not for it.
TakeResponse(r, o) == Follow(r, o, o.class = "Media")

\* run_help: a single frame.
TakeHelp(r, o) == Follow(r, o, o.class \notin {"Help", "Denied", "Error"})

\* run_pages_fetch: a hologram and its chunks; at the end they are as long as
\* the hologram says.
Prop(o, name) ==
  LET at == SelectSeq(o.f.props, LAMBDA q : q[1] = name)
  IN IF at = <<>> THEN None ELSE Last(at)[2]
Pages(os) == SelectSeq(os, LAMBDA o : o.class = "Hologram")
Bytes(os) ==
  FoldSeq(LAMBDA o, n : n + Prop(o, "data"), 0, SelectSeq(os, LAMBDA o : o.class = "Chunk"))
Size(os) == IF Pages(os) = <<>> THEN None ELSE Prop(Last(Pages(os)), "size")
TakePages(r, o) ==
  Follow(r, o, o.class = "Done" /\ Size(call[r].got) \notin {None, Bytes(call[r].got)})

\* run_entrain: every terminal event ends the loop.
TakeVibration(r, o) ==
  LET rd == EntrainmentReader(call[r].reader, o)
  IN IF o = Malformed \/ rd.st = "failed" THEN Ends(r, o, "error")
     ELSE IF rd.st = "finished" THEN Ends(r, o, "ok")
     ELSE [Took(r, o) EXCEPT ![r].reader = rd]

\* knock: the answer is the first frame.
TakeDecision(r, o) == Ends(r, o, IF o.class = "Decision" THEN "ok" ELSE "error")

\* run_projection: so it is here.
TakeProjection(r, o) ==
  Ends(r, o, IF o.class \in {"Projection", "Denied", "Error"} THEN "ok" ELSE "error")

\* run_media_channel: raw bytes follow the header.
TakeMedia(r, o) ==
  CASE call[r].reader.st = "raw" -> Took(r, Raw)
    [] call[r].reader.st # "raw" /\ o.class = "Media" ->
         [Took(r, o) EXCEPT ![r].reader.st = "raw"]
    [] call[r].reader.st # "raw" /\ o.class \in {"Denied", "Error"} -> Ends(r, o, "ok")
    [] OTHER -> Ends(r, o, "error")

\* relay_remote: frames, and after a media header raw bytes.
Streams(r) == \E i \in DOMAIN call[r].got : call[r].got[i].class = "Media"
Relay(r, o) == [Took(r, IF Streams(r) THEN Raw ELSE o) EXCEPT ![r].pc = "relay"]

Take(r, o) ==
  CASE call[r].route = "web" -> Relay(r, o)
    [] call[r].route # "web" /\ Cfg(r).kind = "entrain"    -> TakeVibration(r, o)
    [] call[r].route # "web" /\ Cfg(r).kind = "knock"      -> TakeDecision(r, o)
    [] call[r].route # "web" /\ Cfg(r).kind = "projection" -> TakeProjection(r, o)
    [] call[r].route # "web" /\ Cfg(r).kind = "media"      -> TakeMedia(r, o)
    [] call[r].route # "web" /\ Cfg(r).kind = "help"       -> TakeHelp(r, o)
    [] call[r].route # "web" /\ Cfg(r).kind = "pages"      -> TakePages(r, o)
    [] OTHER -> TakeResponse(r, o)

\* The stream has ended.  A response needs its trailer, an entrainment its
\* acknowledgment; silence is an answer to a knock.
AtEnd(r) ==
  CASE call[r].route = "web"     -> "body"
    [] call[r].route # "web" /\ Cfg(r).kind = "entrain" ->
         IF call[r].reader.st = "flowing" THEN "ok" ELSE "error"
    [] call[r].route # "web" /\ Cfg(r).kind = "knock" -> "silence"
    [] call[r].route # "web" /\ Cfg(r).kind = "media" ->
         IF call[r].reader.st = "raw" THEN "ok" ELSE "error"
    [] OTHER -> IF /\ call[r].reader.st = "finished"
                   /\ Cfg(r).kind = "pages" =>
                        Last(call[r].got).class \in {"Done", "Denied", "Error"}
                THEN "ok" ELSE "error"

-----------------------------------------------------------------------------
(* Opening a stream *)

Alive(c) == /\ conns[c].st # "closed"
            /\ peers[conns[c].p].up /\ peers[conns[c].p].gen = conns[c].gen
Holds(r) == lock[T(r)] # <<>> /\ Head(lock[T(r)]) = r
Close(c) == IF c = 0 THEN conns ELSE [conns EXCEPT ![c].st = "closed"]
Users(c) == {r \in Calls : call[r].conn = c /\ call[r].pc \in {"send", "read", "relay"}}

Calling == <<wire, tun, lane, queue, gate>>
World == <<sc, daemon, peers, trouble>>

\* open_peer, spawn_remote: through the process that serves the directory,
\* when there is one.
Start(r) ==
  /\ call[r].pc = "start"
  /\ \/ /\ daemon = "up"
        /\ call' = [call EXCEPT ![r].pc = "lock", ![r].route = Cfg(r).via]
        /\ lock' = [lock EXCEPT !["daemon"] = Append(@, r)]
     \/ /\ daemon = "down" /\ Cfg(r).via = "tunnel"
        /\ call' = [call EXCEPT ![r].pc = "lock", ![r].route = "own"]
        /\ lock' = [lock EXCEPT ![r] = Append(@, r)]
  /\ blame' = blame \ {r}
  /\ UNCHANGED <<conns, pool, Calling, World>>

\* A new stream; who waits for the pool is next.
Opened(r, c) ==
  /\ lock' = [lock EXCEPT ![T(r)] = Tail(@)]
  /\ call' = [call EXCEPT ![r].pc = "send", ![r].conn = c]
  /\ wire' = [wire EXCEPT ![r] = NoStream]
  /\ lane' = [lane EXCEPT ![r] = NoLane]
  /\ gate' = IF Cfg(r).mod \in peers[P(r)].mods THEN gate \cup {r} ELSE gate \ {r}

open(r) ==
  /\ call[r].pc = "lock" /\ Holds(r)
  /\ pool[T(r)][P(r)] # 0 /\ conns[pool[T(r)][P(r)]].st = "open"
  /\ Opened(r, pool[T(r)][P(r)])
  /\ UNCHANGED <<conns, pool, tun, queue, blame, World>>

\* Mutant: the pool is not held while dialing.
redial_unlocked(r) ==
  /\ call[r].pc = "lock" /\ Holds(r)
  /\ pool[T(r)][P(r)] # 0 => conns[pool[T(r)][P(r)]].st = "closed"
  /\ pool' = [pool EXCEPT ![T(r)][P(r)] = 0]
  /\ call' = [call EXCEPT ![r].pc = "dial"]
  /\ lock' = [lock EXCEPT ![T(r)] = Append(Tail(@), r)]
  /\ UNCHANGED <<conns, blame, Calling, World>>

\* A pooled connection that has closed is forgotten.  The pool stays locked
\* until the dial is over.
redial(r) ==
  /\ call[r].pc = "lock" /\ Holds(r)
  /\ pool[T(r)][P(r)] # 0 => conns[pool[T(r)][P(r)]].st = "closed"
  /\ pool' = [pool EXCEPT ![T(r)][P(r)] = 0]
  /\ call' = [call EXCEPT ![r].pc = "dial"]
  /\ UNCHANGED <<conns, lock, blame, Calling, World>>

\* dial_inner: the endpoint connects, and the first stream has our hello.
connect(r) ==
  /\ call[r].pc = "dial" /\ peers[P(r)].up
  /\ conns' = Append(conns, [t |-> T(r), p |-> P(r), gen |-> peers[P(r)].gen,
                             st |-> "hello", mods |-> peers[P(r)].mods])
  /\ call' = [call EXCEPT ![r].pc = "greet", ![r].conn = Len(conns')]
  /\ UNCHANGED <<pool, lock, blame, Calling, World>>

\* Any minor of version 0, and Turtle.
hello_incompatibility(h) == h.f.ver # "0.1" \/ "turtle" \notin ToSet(h.f.enc)

\* The hello of a node, by its version, as the other side reads it.
basic_hello ==
  [ver \in {"0.1", "1.0"} |->
     decode(encode(Obj("Hello", [ver |-> ver, enc |-> <<"turtle">>, mods |-> <<"help">>], <<>>)))]

\* Mutant: the refusal is sent and the connection closed at once.
accept_closes(c) ==
  /\ conns[c].st = "hello" /\ Alive(c)
  /\ conns' = [conns EXCEPT ![c].st =
       IF hello_incompatibility(basic_hello[sc.ver]) THEN "closed" ELSE "greeted"]
  /\ UNCHANGED <<pool, lock, call, blame, Calling, World>>

\* The acceptor answers a hello, or refuses it and lets the dialer close.
accept(c) ==
  /\ conns[c].st = "hello" /\ Alive(c)
  /\ conns' = [conns EXCEPT ![c].st =
       IF hello_incompatibility(basic_hello[sc.ver]) THEN "refused" ELSE "greeted"]
  /\ UNCHANGED <<pool, lock, call, blame, Calling, World>>

\* Mutant: the web relay does not try again.
Failed_final(r, why, locks) ==
  /\ call' = [call EXCEPT ![r].pc = "done", ![r].res = why]
  /\ lock' = locks

\* An attempt is over without a first frame.  The web relay evicts and tries
\* once more.
Failed(r, why, locks) ==
  IF call[r].route = "web" /\ call[r].try = 1
  THEN /\ call' = [call EXCEPT ![r].pc = "evict", ![r].conn = 0]
       /\ lock' = [locks EXCEPT !["daemon"] = Append(@, r)]
  ELSE /\ call' = [call EXCEPT ![r].pc = "done", ![r].res = why]
       /\ lock' = locks

Released(r) == [lock EXCEPT ![T(r)] = Tail(@)]

\* The peer's hello, judged here as well; the connection is kept.
greeted(r) ==
  LET c == call[r].conn
  IN /\ call[r].pc = "greet" /\ conns[c].st = "greeted"
     /\ IF hello_incompatibility(basic_hello[sc.peerVer])
        THEN /\ Failed(r, "refused", Released(r))
             /\ conns' = Close(c)
             /\ UNCHANGED <<pool, wire, lane, gate>>
        ELSE /\ Opened(r, c)
             /\ conns' = [conns EXCEPT ![c].st = "open"]
             /\ pool' = [pool EXCEPT ![T(r)][P(r)] = c]
     /\ UNCHANGED <<tun, queue, blame, World>>

refused(r) ==
  /\ call[r].pc = "greet" /\ conns[call[r].conn].st = "refused"
  /\ Failed(r, "refused", Released(r))
  /\ conns' = Close(call[r].conn)
  /\ UNCHANGED <<pool, blame, Calling, World>>

\* Mutant: only an endpoint that is not there ends a dial.
dial_untimed(r) ==
  /\ call[r].pc = "dial" /\ ~peers[P(r)].up
  /\ Failed(r, "dial", Released(r))
  /\ blame' = blame \cup {r}
  /\ UNCHANGED <<conns, pool, Calling, World>>

\* dial: nobody there, or no hello within DIAL_TIMEOUT.
dial(r) ==
  /\ \/ call[r].pc = "dial" /\ ~peers[P(r)].up
     \/ call[r].pc = "greet" /\ ~Alive(call[r].conn)
  /\ Failed(r, "dial", Released(r))
  /\ conns' = IF call[r].pc = "greet" THEN Close(call[r].conn) ELSE conns
  /\ blame' = IF peers[P(r)].up THEN blame ELSE blame \cup {r}
  /\ UNCHANGED <<pool, Calling, World>>

\* Whatever connection to the peer is pooled by now is closed, one that
\* another call has just dialed too.
evict(r) ==
  LET c == pool["daemon"][P(r)]
  IN /\ call[r].pc = "evict" /\ Holds(r)
     /\ conns' = Close(c)
     /\ pool' = [pool EXCEPT !["daemon"][P(r)] = 0]
     /\ call' = [call EXCEPT ![r].pc = "lock", ![r].try = 2]
     /\ lock' = [lock EXCEPT !["daemon"] = Append(Tail(@), r)]
     /\ blame' = (blame \ {r}) \cup (IF c = 0 THEN {} ELSE Users(c))
     /\ UNCHANGED <<Calling, World>>

-----------------------------------------------------------------------------
(* The stream, and the tunnel *)

Tunnelled(r) == call[r].route = "tunnel"
Link(r) == IF Tunnelled(r) THEN tun[r] ELSE wire[r]
SetLink(r, s) ==
  IF Tunnelled(r) THEN tun' = [tun EXCEPT ![r] = s] /\ UNCHANGED wire
  ELSE wire' = [wire EXCEPT ![r] = s] /\ UNCHANGED tun

Pooling == <<pool, lock>>
Peering == <<lane, queue, gate>>

\* The daemon has answered a tunnelled call with the peer's hello.
send(r) ==
  /\ call[r].pc = "send"
  /\ IF IF Tunnelled(r) THEN daemon = "down" ELSE conns[call[r].conn].st = "closed"
     THEN Failed(r, "error", lock) /\ UNCHANGED <<wire, tun>>
     ELSE /\ \E o \in {Ask(r)} :
               SetLink(r, [NoStream EXCEPT !.up = <<encode(o)>>, !.upFin = Finishes(r)])
          /\ call' = [call EXCEPT ![r].pc = "read"]
          /\ UNCHANGED lock
  /\ UNCHANGED <<conns, pool, blame, Peering, World>>

\* The caller's bytes, and then its end of request.
Up(r) ==
  /\ tun[r].up # <<>>
  /\ wire' = [wire EXCEPT ![r].up = Append(@, Head(tun[r].up))]
  /\ tun' = [tun EXCEPT ![r].up = Tail(@)]

\* Mutant: the end of request is not passed on.
proxy_up_open(r) ==
  /\ Tunnelled(r) /\ daemon = "up" /\ call[r].pc \in {"read", "left"}
  /\ conns[call[r].conn].st = "open" /\ Up(r)
  /\ UNCHANGED <<conns, call, blame, Pooling, Peering, World>>

proxy_up(r) ==
  /\ Tunnelled(r) /\ daemon = "up" /\ call[r].pc \in {"read", "left"}
  /\ conns[call[r].conn].st = "open"
  /\ \/ Up(r)
     \/ /\ tun[r].up = <<>> /\ tun[r].upFin /\ ~wire[r].upFin
        /\ wire' = [wire EXCEPT ![r].upFin = TRUE]
        /\ UNCHANGED tun
  /\ UNCHANGED <<conns, call, blame, Pooling, Peering, World>>

\* What the peer sends, as it comes; its end, or the loss of the connection,
\* perhaps within a frame, is an end of stream to the caller.
proxy_down(r) ==
  /\ Tunnelled(r) /\ daemon = "up" /\ call[r].pc = "read" /\ ~tun[r].downFin
  /\ \/ /\ wire[r].down # <<>>
        /\ tun' = [tun EXCEPT ![r].down = Append(@, Head(wire[r].down))]
        /\ wire' = [wire EXCEPT ![r].down = Tail(@)]
     \/ /\ wire[r].down = <<>> /\ wire[r].downFin
        /\ tun' = [tun EXCEPT ![r].downFin = TRUE]
        /\ UNCHANGED wire
     \/ /\ conns[call[r].conn].st = "closed"
        /\ \E cut \in BOOLEAN : tun' = [tun EXCEPT ![r].cut = cut, ![r].downFin = TRUE]
        /\ UNCHANGED wire
  /\ UNCHANGED <<conns, call, blame, Pooling, Peering, World>>

Closes(r, c) == IF c[r].pc = "done" /\ call[r].route = "own" THEN Close(call[r].conn) ELSE conns

\* An error of the stream: before the first frame the attempt has failed.
Broken(r) ==
  IF call[r].pc = "read" THEN Failed(r, "error", lock)
  ELSE /\ call' = [call EXCEPT ![r].pc = "done", ![r].res = "body"]
       /\ UNCHANGED lock

\* The next frame, and what the caller makes of it.  The web relay looks
\* for one until it has the first, and then passes on what comes; a frame it
\* cannot read is an error of the stream.
recv(r) ==
  /\ call[r].pc \in {"read", "relay"} /\ Link(r).down # <<>>
  /\ \E doc \in {Head(Link(r).down)} :
       \E o \in {decode(doc)} :
         IF o = Malformed /\ call[r].route = "web" /\ ~Streams(r)
         THEN Broken(r) /\ blame' = blame \cup {r}
         ELSE call' = Take(r, o) /\ UNCHANGED <<lock, blame>>
  /\ SetLink(r, [Link(r) EXCEPT !.down = Tail(@)])
  /\ conns' = Closes(r, call')
  /\ UNCHANGED <<pool, Peering, World>>

\* The bytes end within a frame; those after a media header are in none.
decode_frame_eof(r) == Tunnelled(r) /\ tun[r].cut /\ call[r].reader.st # "raw"

finish(r) ==
  /\ call[r].pc \in {"read", "relay"} /\ Link(r).down = <<>> /\ Link(r).downFin
  /\ call' = [call EXCEPT ![r].pc = "done",
                          ![r].res = IF decode_frame_eof(r) THEN "error" ELSE AtEnd(r)]
  /\ conns' = Closes(r, call')
  /\ UNCHANGED <<wire, tun, blame, Pooling, Peering, World>>

\* A connection that is lost takes what has not been read.
recv_error(r) ==
  /\ call[r].pc \in {"read", "relay"} /\ ~Tunnelled(r)
  /\ conns[call[r].conn].st = "closed"
  /\ Broken(r)
  /\ UNCHANGED <<conns, pool, wire, tun, blame, Peering, World>>

\* Ctrl-c: the entrainment is damped in band.
damp(r) ==
  /\ call[r].pc = "read" /\ Cfg(r).kind = "entrain" /\ Cfg(r).leaves = "damp"
  /\ ~call[r].damped
  /\ call' = [call EXCEPT ![r].damped = TRUE]
  /\ \E o \in {Obj("Damp", [id |-> r, point |-> "point"], <<>>)} :
       SetLink(r, [Link(r) EXCEPT !.up = Append(@, encode(o))])
  /\ UNCHANGED <<conns, blame, Pooling, Peering, World>>

\* The command is killed or the browser goes: its own endpoint dies, its end
\* of the tunnel closes, and the relay learns when it next writes.
Leave(r) ==
  /\ call[r].pc \in {"read", "relay"} /\ Cfg(r).leaves = "quit"
  /\ call' = [call EXCEPT ![r].pc = "left"]
  /\ conns' = IF call[r].route = "own" THEN Close(call[r].conn) ELSE conns
  /\ tun' = IF Tunnelled(r) THEN [tun EXCEPT ![r].upFin = TRUE] ELSE tun
  /\ UNCHANGED <<wire, blame, Pooling, Peering, World>>

relay_remote(r) ==
  /\ call[r].pc = "left" /\ call[r].route = "web" /\ wire[r].down # <<>>
  /\ wire' = [wire EXCEPT ![r].down = <<>>, ![r].upFin = TRUE]
  /\ UNCHANGED <<conns, call, tun, blame, Pooling, Peering, World>>

-----------------------------------------------------------------------------
(* The peer *)

Reached(r) == call[r].conn # 0 /\ call[r].pc \in {"read", "relay", "left"} /\ Alive(call[r].conn)
Answer(r, o, s) == [s EXCEPT !.down = Append(@, encode(o))]
Calm == <<conns, call, tun, blame, Pooling, World>>

\* Mutant: the modulations are those of when the connection was accepted.
Gate_stale(r) == conns[call[r].conn].mods

\* What this node demodulates.
Gate(r) == peers[P(r)].mods

\* The stream is accepted and the modulations of that moment are taken along ...
accept_bi(r) ==
  /\ Reached(r) /\ lane[r].st = "none" /\ wire[r].up # <<>>
  /\ lane' = [lane EXCEPT ![r].st = "accepted", ![r].mods = Gate(r)]
  /\ UNCHANGED <<wire, queue, gate, Calm>>

\* ... to judge the first frame by, before the node sees it.
route_request(r) ==
  /\ Reached(r) /\ lane[r].st = "accepted"
  /\ \E doc \in {Head(wire[r].up)} : \E first \in {decode(doc)} :
     \E err \in {Obj("Error", [id |-> r, code |-> "mod-unsupported"], <<>>)} :
     LET rest == [wire[r] EXCEPT !.up = Tail(@)]
     IN IF first.class \in {"Query", "Execute"} /\ first.f.mod \notin lane[r].mods
        THEN /\ wire' = [wire EXCEPT ![r] = [Answer(r, err, rest) EXCEPT !.downFin = TRUE]]
             /\ lane' = [lane EXCEPT ![r].st = "done", ![r].sent = <<err>>]
        ELSE /\ wire' = [wire EXCEPT ![r] = rest]
             /\ lane' = [lane EXCEPT ![r].st = "routed"]
  /\ UNCHANGED <<queue, gate, Calm>>

\* Mutant: a full queue takes one more.
incoming_unbounded(r) ==
  /\ Reached(r) /\ lane[r].st = "routed"
  /\ queue' = [queue EXCEPT ![P(r)] = Append(@, r)]
  /\ lane' = [lane EXCEPT ![r].st = "queued"]
  /\ UNCHANGED <<wire, gate, Calm>>

\* A full queue holds the request back.
incoming(r) ==
  /\ Reached(r) /\ lane[r].st = "routed" /\ Len(queue[P(r)]) < QueueMax
  /\ queue' = [queue EXCEPT ![P(r)] = Append(@, r)]
  /\ lane' = [lane EXCEPT ![r].st = "queued"]
  /\ UNCHANGED <<wire, gate, Calm>>

\* The node takes one and serves it in a task of its own.
run(p) ==
  /\ queue[p] # <<>>
  /\ LET r == Head(queue[p])
     IN lane' = IF lane[r].st = "queued"
                THEN [lane EXCEPT ![r].st = "running", ![r].left = Cfg(r).script] ELSE lane
  /\ queue' = [queue EXCEPT ![p] = Tail(@)]
  /\ UNCHANGED <<wire, gate, Calm>>

Sends(r, o) ==
  /\ wire' = [wire EXCEPT ![r] = Answer(r, o, @)]
  /\ lane' = [lane EXCEPT ![r].sent = Append(@, o), ![r].left = Tail(@)]

\* A lane streams its frames and half-closes.
handle(r) ==
  /\ Reached(r) /\ lane[r].st = "running" /\ Cfg(r).kind # "entrain"
  /\ IF lane[r].left # <<>>
     THEN Sends(r, Head(lane[r].left))
     ELSE /\ wire' = [wire EXCEPT ![r].downFin = TRUE]
          /\ lane' = [lane EXCEPT ![r].st = "done"]
  /\ UNCHANGED <<queue, gate, Calm>>

\* The acknowledgment, which the lane sends at once; later vibrations come
\* when the database changes.
serve_entrain(r) ==
  /\ Reached(r) /\ lane[r].st = "running" /\ Cfg(r).kind = "entrain" /\ ~lane[r].acked
  /\ lane[r].left # <<>>
  /\ wire' = [wire EXCEPT ![r] = Answer(r, Head(lane[r].left), @)]
  /\ lane' = [lane EXCEPT ![r].sent = Append(@, Head(lane[r].left)), ![r].left = Tail(@),
                          ![r].acked = TRUE]
  /\ UNCHANGED <<queue, gate, Calm>>

vibrate(r) ==
  /\ Reached(r) /\ lane[r].st = "running" /\ lane[r].acked /\ lane[r].left # <<>>
  /\ Sends(r, Head(lane[r].left))
  /\ UNCHANGED <<queue, gate, Calm>>

\* A Damp is confirmed; the end of the caller's side ends it too.
entrain_end(r) ==
  \E done \in {Obj("Done", [id |-> r], <<>>)} :
     /\ Reached(r) /\ lane[r].st = "running" /\ lane[r].acked
     /\ \/ /\ wire[r].up # <<>>
           /\ wire' = [wire EXCEPT ![r] = [Answer(r, done, @) EXCEPT !.downFin = TRUE]]
           /\ lane' = [lane EXCEPT ![r].st = "done", ![r].sent = Append(@, done)]
        \/ /\ wire[r].up = <<>> /\ wire[r].upFin
           /\ wire' = [wire EXCEPT ![r].downFin = TRUE]
           /\ lane' = [lane EXCEPT ![r].st = "done"]
     /\ UNCHANGED <<queue, gate, Calm>>

\* The caller is gone, and the peer has noticed.
LaneLost(r) ==
  /\ lane[r].st \in {"accepted", "routed", "queued", "running"}
  /\ call[r].conn # 0 /\ call[r].pc # "done" => ~Alive(call[r].conn)
  /\ lane' = [lane EXCEPT ![r].st = "done"]
  /\ UNCHANGED <<wire, queue, gate, Calm>>

-----------------------------------------------------------------------------
(* What else happens *)

Troubled(kind) == kind \in sc.kinds /\ trouble > 0 /\ trouble' = trouble - 1
Bound(p) == {r \in DOMAIN sc.calls : P(r) = p /\ call[r].pc \notin {"start", "done", "left"}}

\* A peer stops: its process forgets every request.
Down(p) ==
  /\ peers[p].up /\ Troubled("down")
  /\ peers' = [peers EXCEPT ![p].up = FALSE, ![p].gen = @ + 1]
  /\ lane' = [r \in Calls |-> IF r \in DOMAIN sc.calls /\ P(r) = p /\ lane[r].st # "none"
                              THEN [lane[r] EXCEPT !.st = "done"] ELSE lane[r]]
  /\ queue' = [queue EXCEPT ![p] = <<>>]
  /\ blame' = blame \cup Bound(p)
  /\ UNCHANGED <<sc, daemon, conns, call, wire, tun, gate, Pooling>>

Return(p) ==
  /\ ~peers[p].up
  /\ peers' = [peers EXCEPT ![p].up = TRUE]
  /\ UNCHANGED <<sc, daemon, conns, call, wire, tun, trouble, blame, Pooling, Peering>>

\* Nothing heard for CONN_IDLE_TIMEOUT.
IdleTimeout(c) ==
  /\ conns[c].st = "open" /\ ~Alive(c)
  /\ conns' = Close(c)
  /\ UNCHANGED <<call, wire, tun, blame, Pooling, Peering, World>>

Lost(c) ==
  /\ conns[c].st = "open" /\ Troubled("lost")
  /\ conns' = Close(c)
  /\ blame' = blame \cup Users(c)
  /\ UNCHANGED <<sc, daemon, peers, call, wire, tun, Pooling, Peering>>

\* set_hello_mods, on a peer that has installed or removed a modulation.
set_hello_mods(p) ==
  /\ Troubled("mods")
  /\ \E on \in BOOLEAN :
       /\ peers' = [peers EXCEPT ![p].mods = IF on THEN @ \cup {"extra"} ELSE @ \ {"extra"}]
       /\ gate' = IF ~on THEN gate
                  ELSE gate \cup {r \in DOMAIN sc.calls : P(r) = p /\ Cfg(r).mod = "extra"
                                                          /\ call[r].pc \in {"send", "read"}}
  /\ UNCHANGED <<sc, daemon, conns, call, wire, tun, lane, queue, blame, Pooling>>

\* The daemon dies: its connections, its web callers and its tunnels with it.
\* A caller that has not heard from it dials for itself.
DaemonDies ==
  /\ daemon = "up" /\ Troubled("daemon")
  /\ daemon' = "down"
  /\ conns' = [c \in DOMAIN conns |->
                 [conns[c] EXCEPT !.st = IF conns[c].t = "daemon" THEN "closed" ELSE @]]
  /\ lock' = [lock EXCEPT !["daemon"] = <<>>]
  /\ call' = [r \in Calls |->
       CASE call[r].pc = "done" -> call[r]
         [] call[r].pc # "done" /\ call[r].route = "tunnel"
            /\ call[r].pc \in {"lock", "dial", "greet"} -> [NewCall(r) EXCEPT !.try = call[r].try]
         [] call[r].pc # "done" /\ Cfg(r).via = "web" ->
              [call[r] EXCEPT !.pc = "done", !.res = "gone"]
         [] OTHER -> call[r]]
  /\ \E cut \in BOOLEAN :
       tun' = [r \in Calls |->
                 IF Tunnelled(r) /\ call[r].pc \in {"send", "read"} /\ ~tun[r].downFin
                 THEN [tun[r] EXCEPT !.cut = cut, !.downFin = TRUE] ELSE tun[r]]
  /\ blame' = blame \cup {r \in Calls : Tunnelled(r)}
  /\ UNCHANGED <<sc, peers, pool, wire, Peering>>

\* The program's own steps.
Step ==
  \/ \E r \in Calls :
       \/ Start(r) \/ open(r) \/ redial(r) \/ connect(r) \/ greeted(r) \/ refused(r) \/ dial(r)
       \/ evict(r) \/ send(r) \/ proxy_up(r) \/ proxy_down(r) \/ recv(r) \/ finish(r)
       \/ recv_error(r) \/ relay_remote(r)
       \/ accept_bi(r) \/ route_request(r) \/ incoming(r) \/ handle(r) \/ serve_entrain(r)
       \/ entrain_end(r) \/ LaneLost(r)
  \/ \E p \in Peers : run(p)
  \/ \E c \in DOMAIN conns : accept(c) \/ IdleTimeout(c)

Next ==
  \/ Step
  \/ \E r \in Calls : damp(r) \/ Leave(r) \/ vibrate(r)
  \/ \E p \in Peers : Down(p) \/ Return(p) \/ set_hello_mods(p)
  \/ \E c \in DOMAIN conns : Lost(c)
  \/ DaemonDies

Spec == Init /\ [][Next]_vars /\ WF_vars(Step)

-----------------------------------------------------------------------------
(* Properties *)

TypeOK ==
  /\ daemon \in {"up", "down"} /\ trouble \in Nat /\ blame \subseteq Calls /\ gate \subseteq Calls
  /\ \A r \in Calls :
       /\ call[r].pc \in {"start", "lock", "dial", "greet", "send", "read", "relay", "evict",
                          "left", "done"}
       /\ call[r].conn \in 0..Len(conns)
       /\ lane[r].st \in {"none", "accepted", "routed", "queued", "running", "done"}
  /\ \A t \in Transports, p \in Peers : pool[t][p] \in 0..Len(conns)
  /\ \A p \in Peers : Len(queue[p]) <= QueueMax

\* However many callers open streams at once, and whatever they evict, this
\* endpoint has one connection to a peer: the one it would use again.
OneConnection ==
  \A c \in DOMAIN conns : conns[c].st = "open" => pool[conns[c].t][conns[c].p] = c

Objs(docs) == [i \in DOMAIN docs |-> Plain(docs[i])]

\* Through the codec, the stream and the tunnel, a caller has read what this
\* peer sent it on this stream, in order and without a gap, and nothing of an
\* earlier attempt.
ReadAsSent ==
  \A r \in Calls :
    (\A i \in DOMAIN lane[r].sent : ~Leads(lane[r].sent[i])) /\ call[r].pc # "start" =>
      IsPrefix(SelectSeq(call[r].got, LAMBDA o : o # Malformed), Objs(lane[r].sent))

\* The legal responses, without a reader's states.
RowsOf(os) == FlattenSeq([i \in DOMAIN os |-> os[i].f.rows])
Trailer(o) == o.class \in {"Done", "Error"}
Legal(os) ==
  LET n == Len(os)
      body == SubSeq(os, 2, n - 1)
  IN \/ n = 1 /\ os[1].class \in {"Denied", "Error", "Help"}
     \/ /\ n >= 2 /\ Trailer(os[n])
        /\ \/ /\ os[1].class = "Result" /\ \A i \in DOMAIN body : body[i].class = "Row"
              /\ \A i \in DOMAIN RowsOf(body) :
                   /\ RowsOf(body)[i].seq = i - 1
                   /\ \A k \in DOMAIN RowsOf(body)[i].cells :
                        RowsOf(body)[i].cells[k][1] \in ToSet(os[1].f.column)
           \/ \A i \in 1..(n - 1) : os[i].class = "Graph" /\ os[i].f.seq = i - 1
           \/ \A i \in 1..(n - 1) : os[i].class \in Passed

\* A statement that reports an outcome has had a whole and legal response for
\* its own id; one cut short, by the peer, the network, the tunnel or the
\* daemon, is an error.  A page has the length its hologram gives.
OutcomeIsWhole ==
  \A r \in DOMAIN sc.calls :
    Cfg(r).kind \in {"statement", "help", "pages"} /\ call[r].res = "ok" =>
      /\ Legal(call[r].got)
      /\ Cfg(r).kind = "pages" /\ Last(call[r].got).class = "Done" =>
           Size(call[r].got) \in {None, Bytes(call[r].got)}
      /\ \A i \in DOMAIN call[r].got : "id" \in DOMAIN call[r].got[i].f =>
           call[r].got[i].f.id \in {r, None}

\* A vibration is only ever reported to a caller that was entrained, in order.
EntrainedFirst ==
  \A r \in DOMAIN sc.calls :
    Cfg(r).kind = "entrain" /\ Cfg(r).via = "tunnel" /\ call[r].res # "error" =>
      \A i \in DOMAIN call[r].got : call[r].got[i].class = "Vibration" =>
        call[r].got[1].class = "Done" /\ call[r].got[i].f.seq = i - 2

\* A request that reaches the node is in a modulation the node served at some
\* time since the stream was opened, on however old a connection.
GateHolds ==
  \A r \in DOMAIN sc.calls :
    lane[r].st \in {"routed", "queued", "running"} /\ Ask(r).class = "Query"
    /\ call[r].conn # 0 => r \in gate

\* A dialer whose version the peer refuses is told so.
RefusalHeard ==
  \A r \in DOMAIN sc.calls :
    /\ call[r].pc = "done" /\ r \notin blame
    /\ "0.1" # sc.ver \/ "0.1" # sc.peerVer
    => call[r].res = "refused"

\* The relay's second attempt fails only if something befalls that attempt: a
\* connection left by the peer's last run has never cost a request.
RetryFailsForCause ==
  \A r \in DOMAIN sc.calls :
    Cfg(r).via = "web" /\ call[r].pc = "done" /\ call[r].res \in {"error", "dial"} => r \in blame

\* Every call ends, whatever other peers do to the pool they share.
EveryCallEnds ==
  <>[](\A r \in DOMAIN sc.calls :
         \/ call[r].pc \in {"done", "left"}
         \/ Cfg(r).kind = "entrain" /\ call[r].pc \in {"read", "relay"})

\* A caller that goes is not served for ever: its entrainment ends at the
\* peer, even if nothing more is to be sent on it.
AbandonedEnds ==
  <>[](\A r \in DOMAIN sc.calls :
         call[r].pc = "left" /\ Cfg(r).via = "tunnel" /\ peers[P(r)].up
         => lane[r].st \in {"none", "done"})

\* What a caller reports is what happened: it read what the peer sent, whole and legal, in a
\* modulation the peer served, and a refused version is said to be one.
AnswersTrue == ReadAsSent /\ OutcomeIsWhole /\ EntrainedFirst /\ GateHolds /\ RefusalHeard

\* The pool of connections is sound while callers dial, evict and retry beside each other.
PoolSound == TypeOK /\ OneConnection /\ RetryFailsForCause

\* Every call ends at its caller, and at the peer once its caller has gone.
CallsEnd == EveryCallEnds /\ AbandonedEnds
=============================================================================
