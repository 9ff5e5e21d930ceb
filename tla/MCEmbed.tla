------------------------------ MODULE MCEmbed ------------------------------
(***************************************************************************)
(* Embed for TLC: one scenario per situation, each small enough that all   *)
(* its interleavings are explored.                                         *)
(***************************************************************************)
EXTENDS Embed, TLC

CONSTANTS s1, s2, e1, e2   \* sessions and entrainments

\* `_media` rows.
Row(command, accepts, prog) ==
  [command |-> command, accepts |-> accepts, prog |-> prog, note |-> "real", by |-> None]
Bridge(b) == [Row("sh", TRUE, <<"in", "out">>) EXCEPT !.note = "accept", !.by = b]

\* Callers.
Who(source, action, kind, chunks, leaves) ==
  [peer |-> "bob", source |-> source, action |-> action, kind |-> kind, chunks |-> chunks,
   leaves |-> leaves]
View(source, leaves) == Who(source, "media", "viewer", 0, leaves)
Duplex(source, kind, chunks, leaves) == Who(source, "audio-duplex", kind, chunks, leaves)

Allow(name, action) == [who |-> "bob", name |-> name, action |-> action, effect |-> "allow"]
Everything == {Allow("*", "media"), Allow("*", "audio-duplex")}

\* `rsntr pipe` commands.
Accept(name, b, quits, killed) ==
  [op |-> "accept", name |-> name, row |-> Bridge(b), quits |-> quits, killed |-> killed,
   after |-> None]
Pipe(op, name, after) ==
  [op |-> op, name |-> name, row |-> Row("sh", TRUE, <<"out">>), quits |-> FALSE,
   killed |-> FALSE, after |-> after]

\* A scenario in which another process serves and no application runs.
Base ==
  [media |-> <<>>, callers |-> <<>>, policy |-> Everything, peers |-> {"bob"},
   brokenPipe |-> FALSE, unreachable |-> FALSE, accepts |-> <<>>, threads |-> <<>>,
   serial |-> TRUE, lease |-> None, serveIfFree |-> FALSE, apps |-> {}, tables |-> {},
   refused |-> {}, slow |-> FALSE, other |-> FALSE, daemon |-> TRUE]

Sources(f) == [Base EXCEPT !.media = f]
Calls(b, callers) == [b EXCEPT !.callers = callers]

Cam == "cam" :> Row("sh", FALSE, <<"fork", "out", "out">>)
Mute == "mute" :> Row("sh", FALSE, <<>>)
Idle2 == "idle" :> Row("sh", TRUE, <<"out", "hang">>)
Bad == "bad" :> Row("bad", FALSE, <<>>)
Echo == "echo" :> Row("sh", TRUE, <<"fork", "in", "out", "drain", "out">>)
Brief == "brief" :> Row("sh", TRUE, <<"out">>)
Host == "mic" :> Row("host", FALSE, <<>>)

MediaScenarios ==
  LET all == Sources(Cam @@ Mute @@ Idle2 @@ Bad @@ Echo @@ Brief @@ Host)
  IN  { Calls(all, s1 :> View("cam", TRUE)),
        Calls(all, s1 :> View("mute", TRUE)),
        Calls(all, s1 :> View("idle", TRUE)),
        Calls(all, s1 :> View("mic", FALSE)),
        Calls([all EXCEPT !.brokenPipe = TRUE], s1 :> View("mute", FALSE)),
        Calls(all, s1 :> View("none", FALSE)),
        Calls(all, s1 :> View("bad", FALSE)),
        Calls(all, s1 :> Duplex("cam", "talk", 1, FALSE)),
        Calls(all, s1 :> Duplex("idle", "talk", 3, TRUE)),
        Calls(all, s1 :> Duplex("echo", "talk", 3, TRUE)),
        Calls(all, s1 :> Duplex("echo", "local", 2, TRUE)),
        Calls(all, s1 :> Duplex("echo", "relay", 2, TRUE)),
        Calls(all, s1 :> Duplex("brief", "talk", 1, FALSE)),
        Calls(all, s1 :> Duplex("brief", "local", 1, FALSE)),
        Calls(all, s1 :> Duplex("brief", "relay", 1, FALSE)),
        Calls([all EXCEPT !.unreachable = TRUE], s1 :> Duplex("cam", "relay", 1, FALSE)),
        Calls([all EXCEPT !.peers = {}], s1 :> View("cam", FALSE)),
        Calls([all EXCEPT !.policy = {Allow("*", "media")}],
              s1 :> Duplex("echo", "relay", 1, FALSE)),
        Calls([all EXCEPT !.policy = @ \cup {[Allow("cam", "media") EXCEPT !.who = "*",
                                                !.effect = "deny"]}],
              s1 :> View("cam", FALSE)) }

PipeScenarios ==
  { [Base EXCEPT !.callers = s1 :> Duplex("door", "talk", 1, TRUE),
                 !.accepts = "a" :> Accept("door", "a", TRUE, FALSE)],
    [Base EXCEPT !.media = "door" :> Row("sh", TRUE, <<>>),
                 !.accepts = "a" :> Accept("door", "a", TRUE, FALSE)
                             @@ "r" :> Pipe("rm", "door", None)],
    [Base EXCEPT !.accepts = "a" :> Accept("door", "a", TRUE, FALSE)
                             @@ "b" :> Accept("door", "b", TRUE, TRUE)],
    [Base EXCEPT !.accepts = "a" :> Accept("door", "a", TRUE, FALSE)
                             @@ "c" :> Pipe("add", "door", "a")] }

\* Calls of an application's threads.
Do(op) == [op |-> op]
On(op, e) == [op |-> op, e |-> e]
Publish(name, h) == [op |-> "publish", name |-> name, h |-> h]
Feeds(op, h) == [op |-> op, h |-> h, name |-> "mic"]
Claims(app_, table) == [op |-> "declare", app |-> app_, table |-> table]

App(threads) == [Base EXCEPT !.threads = threads, !.daemon = FALSE]

FeedScenarios ==
  { Calls(App(<<<<Do("serve"), Publish("mic", "h1"), Feeds("write", "h1"), Feeds("write", "h1"),
                  Feeds("write", "h1"), Feeds("write", "h1"), Feeds("feedDrop", "h1"),
                  Do("suspend")>>>>),
          s1 :> View("mic", FALSE)),
    Calls(App(<<<<Do("serve"), Publish("mic", "h1"), Feeds("write", "h1"), Publish("mic", "h2"),
                  Feeds("write", "h2"), Feeds("feedClose", "h1"), Feeds("feedDrop", "h2")>>>>),
          s1 :> View("mic", TRUE) @@ s2 :> View("mic", FALSE)),
    [App(<<<<Do("serve"), Publish("mic", "h1"), Feeds("write", "h1")>>,
           <<Do("stop"), Feeds("feedClose", "h1")>>>>)
       EXCEPT !.serial = FALSE, !.media = "mic" :> Row("sh", FALSE, <<>>)] }

LifeScenarios ==
  { \* suspended while serving, then resumed
    [App(<<<<Do("resume"), On("entrain", e1), Do("suspend"), On("entrain", e2), Do("resume"),
             Do("suspend")>>>>)
       EXCEPT !.serveIfFree = TRUE],
    \* the app's own damp and drop, a plain stop, a refusal
    App(<<<<Do("serve"), On("entrain", e1), On("damp", e1), On("entrain", e2), Do("stop"),
            On("drop", e2), Do("close"), Do("suspend")>>>>),
    App(<<<<Do("query"), On("entrain", e1), On("drop", e1), On("entrain", e2), Do("suspend")>>>>),
    [App(<<<<On("entrain", e1), On("entrain", e2), Do("close"), Do("suspend")>>>>)
       EXCEPT !.refused = {e1}, !.slow = TRUE],
    \* beside another process
    [App(<<<<On("entrain", e1), Do("resume"), Do("suspend")>>>>)
       EXCEPT !.other = TRUE, !.lease = "other", !.serveIfFree = TRUE],
    \* two threads at once
    [App(<<<<Do("query"), Do("suspend")>>, <<On("entrain", e1), On("damp", e1), Do("serve")>>>>)
       EXCEPT !.serial = FALSE],
    [App(<<<<Do("serve"), On("entrain", e1)>>, <<Do("query"), Do("suspend"), Do("resume")>>>>)
       EXCEPT !.serial = FALSE, !.serveIfFree = TRUE] }

ClaimScenarios ==
  { [App(<<<<Claims("notes", "t1"), Claims("notes", "t2")>>,
           <<Claims("tasks", "t1"), Claims("tasks", "t3"), Claims("tasks", "t2")>>>>)
       EXCEPT !.apps = {"notes", "tasks"}, !.tables = {"t1", "t2"}] }

\* An app that drops its handle on an entrainment while nothing else ends it.
DropScenarios ==
  { App(<<<<Do("query"), On("entrain", e1), On("drop", e1)>>>>),
    App(<<<<Do("serve"), On("entrain", e1), On("drop", e1)>>>>) }

MCScenarios == MediaScenarios \cup PipeScenarios \cup FeedScenarios \cup LifeScenarios
               \cup ClaimScenarios
=============================================================================
