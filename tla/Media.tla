------------------------------- MODULE Media -------------------------------
(***************************************************************************)
(* Media and audio-duplex sessions.                                        *)
(*                                                                         *)
(* A caller opens a `_media` source.  A source with a command is a child   *)
(* process in a group of its own: its stdout is the feed, and for a duplex *)
(* session its stdin takes the caller's bytes through a bounded channel.   *)
(* A source without one is a feed the embedding host publishes in process. *)
(* The serving task, the stdin writer, the child, the caller, and for a    *)
(* browser the relay between its POSTs and the wire, all run beside each   *)
(* other; the caller may leave at any point.  Bytes are numbered chunks.   *)
(***************************************************************************)
EXTENDS Integers, FiniteSets, SequencesExt

CONSTANTS None,      \* no value
          Sess,      \* session ids
          Scenarios, \* sources, callers and what they do
          FeedCap,   \* FEED_CAPACITY
          StdinCap,  \* capacity of the stdin channel (8 in the code)
          PostCap,   \* capacity of a browser's upstream channel (32 in the code)
          Window,    \* chunks one direction of a stream holds before a send waits
          PipeCap    \* chunks a pipe of a child holds

VARIABLES scen,      \* the scenario of this behaviour
          media,     \* `_media`: name -> row
          sess,      \* session -> its state
          audit,     \* session -> its `_audit` rows
          duplex,    \* the web server's DuplexRegistry: the sessions with an entry
          feeds,     \* MediaFeeds: name -> the feed published under it
          feed,      \* every feed ever published, by number
          bridge     \* `rsntr pipe accept` processes

\* A `_media` row: by is the `pipe accept` that stored it.
Rows(accepts) == [command : STRING \cup {"host"}, accepts : BOOLEAN, prog : Seq(STRING),
                  note : STRING \cup {"host"}, by : DOMAIN accepts \cup {None}]

\* A header fits into any stream, a chunk into any feed, and only `pipe accept` marks a row as its
\* own.
ASSUME BoundsAssumption ==
  /\ IsFiniteSet(Sess)
  /\ {StdinCap, PostCap, PipeCap} \subseteq Nat /\ {FeedCap, Window} \subseteq Nat \ {0}
ASSUME CallersAssumption ==
  \A s \in Scenarios :
    /\ DOMAIN s.callers \subseteq Sess /\ \A c \in DOMAIN s.callers : s.callers[c].chunks \in Nat
    /\ \A n \in DOMAIN s.media : s.media[n] \in Rows(s.accepts) /\ s.media[n].note # "accept"
    /\ None \notin DOMAIN s.accepts
    /\ \A b \in DOMAIN s.accepts :
         /\ s.accepts[b].op \in {"accept", "add", "rm"} /\ s.accepts[b].row \in Rows(s.accepts)
         /\ s.accepts[b].op # "accept" => s.accepts[b].after \in DOMAIN s.accepts \cup {None}
         /\ s.accepts[b].row.note = "accept" <=> s.accepts[b].op = "accept"

mediaVars == <<media, sess, audit, duplex, feeds, feed, bridge>>

Caller(s) == scen.callers[s]
S(s) == sess[s]
Set(s, r) == sess' = [sess EXCEPT ![s] = r]

\* Who can still send into a feed: the registry, and every writer handle.
Feed(handle) == [head |-> 0, senders |-> {"registry", handle}, viewers |-> 0]

\* What a stream carries: a frame, or a numbered chunk of raw bytes.
Frame(class) == [class |-> class, n |-> 0]
Raw(n) == [class |-> "Raw", n |-> n]

NewSession ==
  [pc |-> "new", started |-> FALSE, lost |-> FALSE, err |-> FALSE, held |-> 0,
   phase |-> "pump", src |-> None,
   group |-> {}, at |-> 1, made |-> 0, out |-> <<>>, pin |-> <<>>, heard |-> <<>>,
   tx |-> FALSE, writer |-> FALSE, q |-> <<>>,
   up |-> <<>>, fin |-> FALSE, gone |-> FALSE, down |-> <<>>, got |-> <<>>,
   caller |-> "idle", said |-> 0, pending |-> 0, posting |-> FALSE, post |-> <<>>, relay |-> "none",
   quit |-> FALSE,
   attached |-> None, from |-> 0, pos |-> 0, skipped |-> 0]

MediaInit ==
  /\ media = scen.media
  /\ sess = [s \in Sess |-> NewSession]
  /\ audit = [s \in Sess |-> <<>>]
  /\ duplex = {}
  /\ feeds = <<>>
  /\ feed = <<>>
  /\ bridge = [b \in DOMAIN scen.accepts |-> [pc |-> "start", with |-> None]]

----------------------------------------------------------------------------
\* The gate.

\* source_policy_match: media and audio-duplex are separate actions.
source_policy_match(peer, name, action, effect) ==
  \E p \in scen.policy : /\ p.action = action /\ p.effect = effect
                         /\ p.who \in {peer, "*"} /\ p.name \in {name, "*"}

screen_source(c) ==
  IF c.peer \notin scen.peers THEN "unknown"
  ELSE IF source_policy_match(c.peer, c.source, c.action, "deny") THEN "denied"
  ELSE IF ~source_policy_match(c.peer, c.source, c.action, "allow") THEN "denied"
  ELSE IF c.source \notin DOMAIN media THEN "nosource"
  ELSE "allowed"

\* A frame that closes the exchange; a caller that left does not hear it.
Answer(r, class) ==
  [r EXCEPT !.pc = "done", !.down = IF r.gone THEN @ ELSE Append(@, Frame(class))]

Screen(s) ==
  LET verdict == screen_source(Caller(s))
      class == IF verdict = "nosource" THEN "Error" ELSE "Denied"
  IN  /\ S(s).pc = "asked"
      /\ audit' = [audit EXCEPT ![s] = Append(@, IF verdict = "allowed" THEN "allow" ELSE "deny")]
      /\ Set(s, IF verdict = "allowed"
                THEN [S(s) EXCEPT !.pc = "open", !.src = media[Caller(s).source]]
                ELSE Answer(S(s), class))
      /\ UNCHANGED <<scen, media, duplex, feeds, feed, bridge>>

----------------------------------------------------------------------------
\* serve_media and serve_audio_duplex: the child.

\* Spawned in its own group; the writer task of a duplex session takes the stdin.
Spawned(r, duplexed) ==
  [r EXCEPT !.group = {"sh"}, !.tx = duplexed, !.writer = duplexed,
            !.pc = IF duplexed THEN "header" ELSE "pump"]

Spawn(s) ==
  LET r == S(s)
      duplexed == Caller(s).action = "audio-duplex"
  IN  /\ r.pc = "open"
      /\ duplexed \/ r.src.command # "host"
      /\ Set(s, IF duplexed /\ ~r.src.accepts THEN Answer(r, "Error")
                ELSE IF r.src.command = "bad" THEN Answer(r, "Error")
                ELSE Spawned(r, duplexed))
      /\ UNCHANGED <<scen, media, audit, duplex, feeds, feed, bridge>>

\* A header that cannot be sent ends the handler there: dropping the child kills the shell only.
HeaderLost(r) == [r EXCEPT !.pc = "done", !.lost = TRUE, !.group = @ \ {"sh"},
                           !.tx = FALSE]

\* The duplex header is sent before anything is read.
DuplexHeader(s) ==
  /\ S(s).pc = "header"
  /\ Set(s, IF S(s).gone THEN HeaderLost(S(s))
            ELSE [S(s) EXCEPT !.pc = "pump", !.phase = "both", !.started = TRUE,
                              !.down = Append(@, Frame("AudioDuplex"))])
  /\ UNCHANGED <<scen, media, audit, duplex, feeds, feed, bridge>>

Eof(r) == "sh" \notin r.group /\ r.out = <<>>

\* The media header waits for the first byte; a read is followed by its send.
ReadOut_eager(s) ==
  LET r == S(s)
  IN  /\ r.pc = "pump" /\ r.attached = None /\ (r.out # <<>> \/ ~r.started)
      /\ Set(s, IF ~r.started /\ r.gone THEN HeaderLost(r)
                ELSE IF ~r.started
                THEN [r EXCEPT !.started = TRUE, !.down = Append(@, Frame("Media"))]
                ELSE [r EXCEPT !.pc = "send", !.held = Head(r.out), !.out = Tail(r.out)])
      /\ UNCHANGED <<scen, media, audit, duplex, feeds, feed, bridge>>

ReadOut(s) ==
  LET r == S(s)
  IN  /\ r.pc = "pump" /\ r.attached = None /\ r.out # <<>>
      /\ Set(s, IF ~r.started /\ r.gone THEN HeaderLost(r)
                ELSE [r EXCEPT !.pc = "send", !.held = Head(r.out), !.out = Tail(r.out),
                               !.started = TRUE,
                               !.down = IF r.started THEN @ ELSE Append(@, Frame("Media"))])
      /\ UNCHANGED <<scen, media, audit, duplex, feeds, feed, bridge>>

\* send_raw waits for room and fails once the caller has left.
SendRaw(s) ==
  LET r == S(s)
  IN  /\ r.pc = "send"
      /\ r.gone \/ Len(r.down) < Window
      /\ Set(s, IF r.gone THEN [r EXCEPT !.pc = "tear"]
                ELSE [r EXCEPT !.pc = "pump", !.down = Append(@, Raw(r.held))])
      /\ UNCHANGED <<scen, media, audit, duplex, feeds, feed, bridge>>

\* The feed is over: the source ended or its pipe broke, or the caller closed the stream, which
\* only the downstream loops watch for; an idle source is given up once the caller finished.
StopPump_deaf(s) ==
  LET r == S(s)
  IN  /\ r.pc = "pump" /\ r.attached = None
      /\ Eof(r) \/ (r.phase = "half" /\ r.out = <<>>)
      /\ Set(s, [r EXCEPT !.pc = "tear"])
      /\ UNCHANGED <<scen, media, audit, duplex, feeds, feed, bridge>>

StopPump(s) ==
  LET r == S(s)
  IN  /\ r.pc = "pump" /\ r.attached = None
      /\ \/ Eof(r) /\ Set(s, [r EXCEPT !.pc = "tear"])
         \/ r.gone /\ r.phase \in {"pump", "half"} /\ Set(s, [r EXCEPT !.pc = "tear"])
         \/ r.phase = "half" /\ r.out = <<>> /\ Set(s, [r EXCEPT !.pc = "tear"])
         \/ scen.brokenPipe /\ Set(s, [r EXCEPT !.pc = "tear", !.err = TRUE])
      /\ UNCHANGED <<scen, media, audit, duplex, feeds, feed, bridge>>

\* The caller's bytes go to the writer task, or are dropped when it cannot keep up.
try_send_stalls(r, chunk) ==
  IF ~r.writer THEN [r EXCEPT !.tx = FALSE] ELSE [r EXCEPT !.q = Append(@, chunk)]
try_send(r, chunk) ==
  IF ~r.tx THEN r
  ELSE IF ~r.writer THEN [r EXCEPT !.tx = FALSE]
  ELSE IF Len(r.q) < StdinCap THEN [r EXCEPT !.q = Append(@, chunk)]
  ELSE r

\* The caller's write half is over: its Fin was read, or a local browser left.
UpEof(r) == r.gone \/ (r.up = <<>> /\ r.fin)

\* Phase 1: recv_raw.  The end moves to the half-open phase, a lost stream ends the session.
RecvRaw(s) ==
  LET r == S(s)
  IN  /\ r.pc = "pump" /\ r.phase = "both"
      /\ \/ r.up # <<>> /\ ~r.gone /\ Set(s, [try_send(r, Head(r.up)) EXCEPT !.up = Tail(@)])
         \/ /\ UpEof(r)
            /\ Set(s, [r EXCEPT !.phase = "half", !.tx = FALSE])
         \/ r.gone /\ Set(s, [r EXCEPT !.pc = "tear"])
      /\ UNCHANGED <<scen, media, audit, duplex, feeds, feed, bridge>>

\* SIGTERM to the group, kill and reap the shell, SIGKILL for whoever is left.
Teardown_shell(r) == [r EXCEPT !.pc = "over", !.group = @ \ {"sh"}, !.tx = FALSE]
Teardown(r) == [r EXCEPT !.pc = "over", !.group = {}, !.tx = FALSE]

Tear(s) ==
  /\ S(s).pc = "tear"
  /\ Set(s, Teardown(S(s)))
  /\ UNCHANGED <<scen, media, audit, duplex, feeds, feed, bridge>>

\* A source that never wrote a byte failed, and its last words are the reason.
Over(s) ==
  LET r == S(s)
  IN  /\ r.pc = "over"
      /\ Set(s, IF ~r.started /\ ~r.err THEN Answer(r, "Error") ELSE [r EXCEPT !.pc = "done"])
      /\ UNCHANGED <<scen, media, audit, duplex, feeds, feed, bridge>>

\* The writer task: into the pipe, and stdin is closed when the sender is gone and all is written.
WriteStdin_cut(s) ==
  LET r == S(s)
  IN  /\ r.writer
      /\ \/ /\ r.q # <<>> /\ "sh" \in r.group /\ Len(r.pin) < PipeCap
            /\ Set(s, [r EXCEPT !.pin = Append(@, Head(r.q)), !.q = Tail(@)])
         \/ ~r.tx /\ Set(s, [r EXCEPT !.writer = FALSE])
      /\ UNCHANGED <<scen, media, audit, duplex, feeds, feed, bridge>>

WriteStdin(s) ==
  LET r == S(s)
  IN  /\ r.writer
      /\ \/ /\ r.q # <<>> /\ "sh" \in r.group /\ Len(r.pin) < PipeCap
            /\ Set(s, [r EXCEPT !.pin = Append(@, Head(r.q)), !.q = Tail(@)])
         \/ /\ r.q # <<>> /\ "sh" \notin r.group
            /\ Set(s, [r EXCEPT !.writer = FALSE, !.q = <<>>])
         \/ /\ r.q = <<>> /\ ~r.tx
            /\ Set(s, [r EXCEPT !.writer = FALSE])
      /\ UNCHANGED <<scen, media, audit, duplex, feeds, feed, bridge>>

\* The source: what its program does next (external).  It may leave a worker behind, which holds
\* neither of its pipes.
Source(s) ==
  LET r == S(s)
      op == IF r.at <= Len(r.src.prog) THEN r.src.prog[r.at] ELSE "exit"
      next == [r EXCEPT !.at = @ + 1]
  IN  /\ r.src # None /\ "sh" \in r.group
      /\ \/ /\ op = "out" /\ Len(r.out) < PipeCap
            /\ Set(s, [next EXCEPT !.out = Append(@, r.made + 1), !.made = @ + 1])
         \/ /\ op \in {"in", "drain"} /\ r.pin # <<>>
            /\ Set(s, [(IF op = "in" THEN next ELSE r) EXCEPT
                         !.heard = Append(@, Head(r.pin)), !.pin = Tail(@)])
         \/ /\ op \in {"in", "drain"} /\ r.pin = <<>> /\ ~r.writer
            /\ Set(s, [next EXCEPT !.heard = Append(@, 0)])
         \/ /\ op = "fork"
            /\ Set(s, [next EXCEPT !.group = @ \cup {"worker"}])
         \/ /\ op = "exit"
            /\ Set(s, [r EXCEPT !.group = @ \ {"sh"}])
      /\ UNCHANGED <<scen, media, audit, duplex, feeds, feed, bridge>>

----------------------------------------------------------------------------
\* Host feeds (node/media.rs).

Attach(id, n) == feed' = [feed EXCEPT ![id].viewers = @ + n]

\* subscribe: from the live edge on.
subscribe(s) ==
  LET r == S(s) name == Caller(s).source
  IN  /\ r.pc = "open" /\ Caller(s).action = "media" /\ r.src.command = "host"
      /\ IF name \in DOMAIN feeds
         THEN /\ Attach(feeds[name], 1)
              /\ Set(s, [r EXCEPT !.pc = "type", !.attached = feeds[name],
                                  !.pos = feed[feeds[name]].head,
                                  !.from = feed[feeds[name]].head])
         ELSE Set(s, Answer(r, "Error")) /\ UNCHANGED feed
      /\ UNCHANGED <<scen, media, audit, duplex, feeds, bridge>>

\* FeedReader::drop, on every way out.
Detach_forgets(s, r) == UNCHANGED feed /\ Set(s, [r EXCEPT !.pc = "done", !.attached = None])
Detach(s, r) ==
  /\ Attach(r.attached, -1)
  /\ Set(s, [r EXCEPT !.pc = "done", !.attached = None])

HostHeader(s) ==
  LET r == S(s)
  IN  /\ r.pc = "type"
      /\ IF r.gone THEN Detach(s, r)
         ELSE /\ Set(s, [r EXCEPT !.pc = "watch", !.started = TRUE,
                                  !.down = Append(@, Frame("Media"))])
              /\ UNCHANGED feed
      /\ UNCHANGED <<scen, media, audit, duplex, feeds, bridge>>

\* A viewer that fell behind goes on at the oldest chunk still buffered.
Resume_restart(f, pos) == IF pos < f.head - FeedCap THEN 0 ELSE pos
Resume(f, pos) == IF pos < f.head - FeedCap THEN f.head - FeedCap ELSE pos

\* FeedReader::next: a chunk; or the end, once no sender is left and the buffer is read.
FeedNext(s) ==
  LET r == S(s) f == feed[r.attached]
  IN  /\ r.pc = "watch"
      /\ \/ /\ r.pos < f.head
            /\ LET at == Resume(f, r.pos)
               IN  Set(s, [r EXCEPT !.pc = "sendFeed", !.held = at + 1, !.pos = at + 1,
                                    !.skipped = @ + (at - r.pos)])
            /\ UNCHANGED feed
         \/ r.pos = f.head /\ f.senders = {} /\ Detach(s, r)
         \/ r.gone /\ Detach(s, r)
      /\ UNCHANGED <<scen, media, audit, duplex, feeds, bridge>>

SendFeed(s) ==
  LET r == S(s)
  IN  /\ r.pc = "sendFeed"
      /\ r.gone \/ Len(r.down) < Window
      /\ IF r.gone THEN Detach(s, r)
         ELSE /\ Set(s, [r EXCEPT !.pc = "watch", !.down = Append(@, Raw(r.held))])
              /\ UNCHANGED feed
      /\ UNCHANGED <<scen, media, audit, duplex, feeds, bridge>>

\* The host's side, used by the embedding: publish replaces what the name served so far, and the
\* old feed keeps the senders its handles hold.
Unlisted(fs, gone) ==
  [i \in DOMAIN fs |-> IF i \in gone THEN [fs[i] EXCEPT !.senders = @ \ {"registry"}] ELSE fs[i]]

publish(name, handle) ==
  /\ feed' = Append(Unlisted(feed, {feeds[n] : n \in DOMAIN feeds \cap {name}}), Feed(handle))
  /\ feeds' = [n \in DOMAIN feeds \cup {name} |-> IF n = name THEN Len(feed) + 1 ELSE feeds[n]]

withdraw(names, handle) ==
  /\ feeds' = [n \in DOMAIN feeds \ names |-> feeds[n]]
  /\ feed' = [i \in DOMAIN feed |->
                 [Unlisted(feed, {feeds[n] : n \in DOMAIN feeds \cap names})[i] EXCEPT
                    !.senders = @ \ {handle}]]

\* FeedWriter::write never waits.
write(id) == feed' = [feed EXCEPT ![id].head = @ + 1]

----------------------------------------------------------------------------
\* The callers: a viewer, `rsntr talk`, and a browser whose audio-duplex exchange either
\* runs on this node or is relayed to a peer.

Browser(s) == Caller(s).kind \in {"local", "relay"}
Leaves(r) == [r EXCEPT !.caller = "left", !.gone = TRUE]
Over2(r) == r.down = <<>> /\ r.pc = "done"

\* POST /request registers the upstream channel before the exchange starts.
Ask(s) ==
  /\ S(s).caller = "idle"
  /\ duplex' = IF Browser(s) THEN duplex \cup {s} ELSE duplex
  /\ Set(s, IF Caller(s).kind = "relay" THEN [S(s) EXCEPT !.caller = "dial"]
            ELSE [S(s) EXCEPT !.caller = "wait", !.pc = "asked"])
  /\ UNCHANGED <<scen, media, audit, feeds, feed, bridge>>

\* spawn_remote_duplex: one redial, then the entry is removed and the POST fails.
Dial(s) ==
  /\ S(s).caller = "dial"
  /\ \/ /\ Set(s, [S(s) EXCEPT !.caller = "wait", !.pc = "asked", !.relay = "first"])
        /\ UNCHANGED duplex
     \/ /\ scen.unreachable
        /\ Set(s, [S(s) EXCEPT !.caller = "left", !.pc = "done"])
        /\ duplex' = duplex \ {s}
  /\ UNCHANGED <<scen, media, audit, feeds, feed, bridge>>

\* The next item of the response: a header opens the session, a refusal or the end closes it.
Opens(item) == item.class \in {"Media", "AudioDuplex", "Raw"}
Took(r) ==
  LET item == Head(r.down)
      seen == [r EXCEPT !.got = Append(@, item), !.down = Tail(@)]
  IN  IF Opens(item) THEN [seen EXCEPT !.caller = "on"] ELSE Leaves(seen)

\* run_media_channel, run_duplex: a caller blocked in its own send does not read.
Hear(s) ==
  LET r == S(s)
  IN  /\ r.caller \in {"wait", "on"} /\ Caller(s).kind # "relay"
      /\ Caller(s).kind = "talk" => r.pending = 0
      /\ \/ r.down # <<>> /\ Set(s, Took(r))
         \/ Over2(r) /\ Set(s, Leaves(r))
      /\ UNCHANGED <<scen, media, audit, duplex, feeds, feed, bridge>>

\* run_duplex: stdin to the wire, Fin at its end; a send waits for room and fails at the end.
Talk(s) ==
  LET r == S(s)
  IN  /\ r.caller = "on" /\ Caller(s).kind = "talk" /\ ~r.fin
      /\ \/ /\ r.pending = 0 /\ r.said < Caller(s).chunks
            /\ Set(s, [r EXCEPT !.pending = r.said + 1, !.said = @ + 1])
         \/ /\ r.pending = 0 /\ r.said = Caller(s).chunks
            /\ Set(s, [r EXCEPT !.fin = TRUE])
         \/ /\ r.pending # 0 /\ r.pc # "done" /\ Len(r.up) < Window
            /\ Set(s, [r EXCEPT !.up = Append(@, r.pending), !.pending = 0])
         \/ /\ r.pending # 0 /\ r.pc = "done"
            /\ Set(s, Leaves(r))
      /\ UNCHANGED <<scen, media, audit, duplex, feeds, feed, bridge>>

\* POST /duplex/{id}, one at a time: it takes its sender from the entry first; no entry is 404 ...
Posts(s) == Browser(s) /\ S(s).said <= Caller(s).chunks
NothingMore(s, r) == [r EXCEPT !.posting = FALSE, !.said = Caller(s).chunks + 1]
PostLookup(s) ==
  LET r == S(s)
  IN  /\ r.caller = "on" /\ Posts(s) /\ ~r.posting
      /\ Set(s, IF s \in duplex THEN [r EXCEPT !.posting = TRUE] ELSE NothingMore(s, r))
      /\ UNCHANGED <<scen, media, audit, duplex, feeds, feed, bridge>>

\* ... and sends what the body brings, while the exchange may end and its entry go: a closed
\* channel is 409, a full one waits.  The last POST carries Rsntr-Fin (item 0).
PostSend(s) ==
  LET r == S(s)
      last == r.said = Caller(s).chunks
      item == IF last THEN 0 ELSE r.said + 1
      sent == [r EXCEPT !.posting = FALSE, !.said = @ + 1]
      ended == IF Caller(s).kind = "local" THEN r.pc = "done" ELSE r.relay = "done"
  IN  /\ Posts(s) /\ r.posting
      /\ \/ /\ ended
            /\ Set(s, NothingMore(s, r))
            /\ duplex' = duplex \ {s}
         \/ /\ ~ended /\ UNCHANGED duplex
            /\ \/ /\ Caller(s).kind = "relay" /\ Len(r.post) < PostCap
                  /\ Set(s, [sent EXCEPT !.post = Append(@, item)])
               \/ /\ Caller(s).kind = "local" /\ ~last /\ Len(r.up) < PostCap
                  /\ Set(s, [sent EXCEPT !.up = Append(@, item)])
               \/ /\ Caller(s).kind = "local" /\ last
                  /\ Set(s, [sent EXCEPT !.fin = TRUE])
      /\ UNCHANGED <<scen, media, audit, feeds, feed, bridge>>

\* A caller hangs up: ctrl-c, close(), a closed tab.
Leave(s) ==
  /\ S(s).caller \in {"wait", "on"} /\ Caller(s).leaves
  /\ LET r == [S(s) EXCEPT !.quit = TRUE]
     IN  Set(s, IF Caller(s).kind = "relay" THEN [r EXCEPT !.caller = "left"] ELSE Leaves(r))
  /\ UNCHANGED <<scen, media, audit, duplex, feeds, feed, bridge>>

\* relay_duplex: one task owns the stream to the peer; whatever ends it removes the entry.
RelayEnds_keeps(s, r) == Set(s, [r EXCEPT !.relay = "done", !.gone = TRUE]) /\ UNCHANGED duplex
RelayEnds(s, r) ==
  /\ Set(s, [r EXCEPT !.relay = "done", !.gone = TRUE])
  /\ duplex' = duplex \ {s}

Relay(s) ==
  LET r == S(s)
  IN  /\ r.relay \in {"first", "run"}
      /\ \/ r.caller = "left" /\ RelayEnds(s, r)
         \/ Over2(r) /\ RelayEnds(s, r)
         \/ /\ r.down # <<>> /\ r.caller # "left" /\ Opens(Head(r.down))
            /\ Set(s, [Took(r) EXCEPT !.relay = "run"]) /\ UNCHANGED duplex
         \/ /\ r.down # <<>> /\ r.caller # "left" /\ ~Opens(Head(r.down))
            /\ Set(s, [Took(r) EXCEPT !.relay = "done"]) /\ duplex' = duplex \ {s}
         \/ /\ r.relay = "run" /\ ~r.fin /\ r.post # <<>> /\ Head(r.post) # 0
            /\ Set(s, [r EXCEPT !.relay = "send"]) /\ UNCHANGED duplex
         \/ /\ r.relay = "run" /\ ~r.fin /\ r.post # <<>> /\ Head(r.post) = 0
            /\ Set(s, [r EXCEPT !.fin = TRUE]) /\ duplex' = duplex \ {s}
      /\ UNCHANGED <<scen, media, audit, feeds, feed, bridge>>

RelaySend(s) ==
  LET r == S(s)
  IN  /\ r.relay = "send"
      /\ IF r.pc = "done" THEN RelayEnds(s, r)
         ELSE /\ Len(r.up) < Window
              /\ Set(s, [r EXCEPT !.relay = "run", !.up = Append(@, Head(r.post)),
                                  !.post = Tail(@)])
              /\ UNCHANGED duplex
      /\ UNCHANGED <<scen, media, audit, feeds, feed, bridge>>

\* spawn_local_duplex: the entry goes when the handler returned.
LocalEnds(s) ==
  /\ Caller(s).kind = "local" /\ S(s).pc = "done" /\ s \in duplex
  /\ duplex' = duplex \ {s}
  /\ UNCHANGED <<scen, media, sess, audit, feeds, feed, bridge>>

----------------------------------------------------------------------------
\* `rsntr pipe`: rows of `_media`, and `pipe accept`, which serves one caller through a row
\* of its own.

upsert_row(name, row) ==
  media' = [n \in DOMAIN media \cup {name} |-> IF n = name THEN row ELSE media[n]]
Without(names) == media' = [n \in DOMAIN media \ names |-> media[n]]

Accepts(b) == scen.accepts[b]
Ephemeral(name) == name \in DOMAIN media /\ media[name].note = "accept"
BridgeTo(b, pc) == bridge' = [bridge EXCEPT ![b].pc = pc]
Mine(b) == {s \in Sess : S(s).src # None /\ S(s).src.by = b /\ "sh" \in S(s).group}

PipeCommand(b) ==
  LET a == Accepts(b)
  IN  /\ bridge[b].pc = "start" /\ a.op \in {"add", "rm"}
      /\ a.after # None => bridge[a.after].pc \notin {"start", "checked"}
      /\ IF a.op = "add" THEN upsert_row(a.name, a.row) ELSE Without({a.name})
      /\ BridgeTo(b, "end")
      /\ UNCHANGED <<scen, sess, audit, duplex, feeds, feed>>

\* Refuse to shadow a real endpoint; then bind, upsert, wait.
AcceptCheck(b) ==
  /\ bridge[b].pc = "start" /\ Accepts(b).op = "accept"
  /\ BridgeTo(b, IF Accepts(b).name \in DOMAIN media /\ ~Ephemeral(Accepts(b).name)
                 THEN "end" ELSE "checked")
  /\ UNCHANGED <<scen, media, sess, audit, duplex, feeds, feed>>

AcceptRow(b) ==
  /\ bridge[b].pc = "checked"
  /\ upsert_row(Accepts(b).name, Accepts(b).row)
  /\ BridgeTo(b, "waiting")
  /\ UNCHANGED <<scen, sess, audit, duplex, feeds, feed>>

\* The first bridge that connects is served until it closes and our own stdin has ended too, before
\* it, after it or never (half: the bridge closed first); ctrl-c gives up.
AcceptOne(b) ==
  /\ \/ /\ bridge[b].pc = "waiting"
        /\ \E s \in Mine(b) : bridge' = [bridge EXCEPT ![b] = [pc |-> "busy", with |-> s]]
     \/ /\ bridge[b].pc = "busy" /\ bridge[b].with \notin Mine(b)
        /\ \E pc \in {"half", "clean"} : BridgeTo(b, pc)
     \/ /\ bridge[b].pc = "half"
        /\ BridgeTo(b, "clean")
     \/ /\ bridge[b].pc \in {"waiting", "busy", "half"} /\ Accepts(b).quits
        /\ BridgeTo(b, "clean")
     \/ /\ bridge[b].pc \in {"waiting", "busy", "half"} /\ Accepts(b).killed
        /\ BridgeTo(b, "killed")
  /\ UNCHANGED <<scen, media, sess, audit, duplex, feeds, feed>>

\* Only an ephemeral row is removed.
AcceptClean_any(b) ==
  /\ bridge[b].pc = "clean"
  /\ Without({Accepts(b).name})
  /\ BridgeTo(b, "end")
  /\ UNCHANGED <<scen, sess, audit, duplex, feeds, feed>>

AcceptClean(b) ==
  /\ bridge[b].pc = "clean"
  /\ Without({n \in {Accepts(b).name} : Ephemeral(n)})
  /\ BridgeTo(b, "end")
  /\ UNCHANGED <<scen, sess, audit, duplex, feeds, feed>>

----------------------------------------------------------------------------
\* What runs by itself, what the sources do, and what callers and operators do when they like.
ServerStep(s) ==
  \/ Screen(s) \/ Spawn(s) \/ DuplexHeader(s) \/ ReadOut(s) \/ SendRaw(s) \/ StopPump(s)
  \/ RecvRaw(s) \/ Tear(s) \/ Over(s) \/ subscribe(s) \/ HostHeader(s) \/ FeedNext(s)
  \/ SendFeed(s) \/ LocalEnds(s)
RelayStep(s) == Dial(s) \/ Relay(s) \/ RelaySend(s)
BridgeStep(b) == AcceptRow(b) \/ AcceptOne(b) \/ AcceptClean(b)

MediaNext ==
  \/ \E s \in DOMAIN scen.callers :
       \/ ServerStep(s) \/ RelayStep(s) \/ WriteStdin(s) \/ Source(s)
       \/ Hear(s) \/ Talk(s) \/ PostLookup(s) \/ PostSend(s) \/ Leave(s)
  \/ \E b \in DOMAIN bridge : PipeCommand(b) \/ AcceptCheck(b) \/ BridgeStep(b)
=============================================================================
