------------------------------- MODULE MCChat -------------------------------
(* Workloads of `rsntr chat` for TLC: h hosts the room, a and b are members. *)
EXTENDS Chat

Init1(n) == [n |-> n, op |-> "init"]
Create(n) == [n |-> n, op |-> "create"]
Add(n, p) == [n |-> n, op |-> "add", p |-> p]
Join(n, p) == [n |-> n, op |-> "join", p |-> p]
PeerRemove(n, p) == [n |-> n, op |-> "remove", p |-> p]
Send(n, to, text, file, socket) ==
  [n |-> n, op |-> "send", to |-> to, text |-> text, file |-> file, socket |-> socket,
   re |-> "earlier"]
Raw(n, to, wire) == [n |-> n, op |-> "raw", to |-> to, wire |-> wire]

\* Two members, one of which writes while the other is removed.
Removal == <<{Create("h")}, {Add("h", "a"), Add("h", "b"), Join("a", "h")},
             {Send("a", Room, "small", FALSE, TRUE), PeerRemove("h", "b")},
             {Add("h", "b"), Send("h", Room, "small", FALSE, TRUE)}>>
\* A member joins the wrong host, which binds the room to it on first use.
Misjoin == <<{Create("h"), Join("a", "b")}, {Add("h", "a"), Add("h", "b")},
             {Send("a", Room, "small", FALSE, TRUE), Send("h", Room, "small", TRUE, FALSE)},
             {Join("a", "h")}, {Send("a", Room, "small", FALSE, FALSE)}>>
\* Spilled bodies, over the socket and in process.
Spill == <<{Create("h")}, {Add("h", "a"), Join("a", "h")},
           {Send("a", Room, "big", FALSE, TRUE), Send("h", Room, "big", FALSE, FALSE)},
           {Send("a", "b", "big", FALSE, TRUE), Send("a", "b", "big", TRUE, TRUE)}>>
\* A node without chat, and signals no `chat send` would write.
Late == <<{Init1("c"), Send("a", "c", "small", FALSE, TRUE)},
          {Send("c", "a", "small", FALSE, TRUE),
           Raw("a", "h", {}), Raw("b", "h", {<<"a", "Message">>, <<"body", "big">>}),
           Raw("h", "b", {<<"a", "Message">>, <<"body", "small">>})},
          {Raw("h", "a", {<<"a", "Message">>, <<"body", "small">>, <<"re", "long">>}),
           Raw("b", "a", {<<"a", "Message">>, <<"body", "small">>, <<"name", "file">>})}>>

\* A member removes the host, and writes to the room all the same.
Leaves == <<{Create("h")}, {Add("h", "a"), Join("a", "h")}, {PeerRemove("a", "h")},
            {Send("a", Room, "small", FALSE, TRUE)}>>

RoomWork == {Removal, Misjoin, Spill, Late, Leaves}
=============================================================================
