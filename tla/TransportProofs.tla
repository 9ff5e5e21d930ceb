--------------------------- MODULE TransportProofs ---------------------------
(***************************************************************************)
(* Proofs about the pool of connections, for any peers, calls, scenarios   *)
(* and disturbances.                                                       *)
(***************************************************************************)
EXTENDS Transport, SequenceTheorems, TLAPS

-----------------------------------------------------------------------------
(* The inductive invariant. *)

Mods == {"extra"} \cup UNION {s.mods : s \in Scenarios}
Peer == [up : BOOLEAN, gen : Nat, mods : SUBSET Mods]
Conn == [t : Transports, p : Peers, gen : Nat, mods : SUBSET Mods,
         st : {"hello", "greeted", "refused", "open", "closed"}]

IsCall(k) ==
  k = [pc |-> k.pc, route |-> k.route, try |-> k.try, conn |-> k.conn, got |-> k.got,
       reader |-> k.reader, damped |-> k.damped, res |-> k.res]
IsLane(l) == l = [st |-> l.st, mods |-> l.mods, left |-> l.left, sent |-> l.sent, acked |-> l.acked]

Pcs == {"start", "lock", "dial", "greet", "send", "read", "relay", "evict", "left", "done"}

\* What the program keeps, apart from streams and lanes.
ShapeInv ==
  /\ sc \in Scenarios /\ daemon \in {"up", "down"} /\ trouble \in Nat /\ blame \subseteq Calls
  /\ peers \in [Peers -> Peer] /\ conns \in Seq(Conn)
  /\ pool \in [Transports -> [Peers -> Nat]] /\ lock \in [Transports -> Seq(Calls)]
  /\ DOMAIN call = Calls

\* The peers' sides of the streams.
LaneInv ==
  /\ DOMAIN lane = Calls /\ gate \subseteq Calls
  /\ \A r \in Calls : /\ IsLane(lane[r])
                      /\ lane[r].st \in {"none", "accepted", "routed", "queued", "running", "done"}
  /\ queue \in [Peers -> Seq(Calls)] /\ \A p \in Peers : Len(queue[p]) <= QueueMax

\* The way a call goes, by who made it.
RouteTrue(r) ==
  /\ call[r].pc # "done" => r \in DOMAIN sc.calls
  /\ call[r].pc \notin {"start", "done"} =>
       IF Cfg(r).via = "web" THEN call[r].route = "web" ELSE call[r].route \in {"tunnel", "own"}
  /\ call[r].pc = "start" => call[r].route = "none"
  /\ call[r].pc = "start" /\ Cfg(r).via = "web" => call[r].try = 1
  /\ call[r].pc = "evict" => call[r].route = "web"

\* Who dials has the pool, which is empty; a call's connection is one of its
\* transport to its peer, and has been greeted before anything is sent on it.
CallTrue(r) ==
  /\ IsCall(call[r]) /\ call[r].pc \in Pcs /\ call[r].conn \in 0..Len(conns) /\ RouteTrue(r)
  /\ call[r].pc \in {"dial", "greet"} => Holds(r) /\ pool[T(r)][P(r)] = 0
  /\ call[r].pc \in {"greet", "send", "read", "relay", "left"} =>
       /\ call[r].conn # 0
       /\ conns[call[r].conn].t = T(r) /\ conns[call[r].conn].p = P(r)
  /\ call[r].pc = "greet" => conns[call[r].conn].st \in {"hello", "greeted", "refused"}
  /\ call[r].pc \in {"send", "read", "relay", "left"} =>
       conns[call[r].conn].st \in {"open", "closed"}

PoolInv ==
  \A t \in Transports, p \in Peers :
    /\ pool[t][p] \in 0..Len(conns)
    /\ pool[t][p] # 0 => /\ conns[pool[t][p]].t = t /\ conns[pool[t][p]].p = p
                         /\ conns[pool[t][p]].st \in {"open", "closed"}

\* A second attempt that nothing has disturbed meets no connection of the
\* peer's last run: not the pooled one, nor the one that is being dialed.
Undisturbed(r) == call[r].pc # "done" /\ Cfg(r).via = "web" /\ call[r].try # 1 /\ r \notin blame
RetryTrue(r) ==
  Undisturbed(r) =>
    /\ call[r].pc = "lock" =>
         /\ \A c \in {pool["daemon"][P(r)]} \ {0} : conns[c].st = "closed" \/ Alive(c)
         /\ \A q \in Calls : call[q].pc = "greet" /\ T(q) = "daemon" /\ P(q) = P(r) =>
              Alive(call[q].conn)
    /\ call[r].pc \in {"greet", "send", "read"} => Alive(call[r].conn)

Inv ==
  /\ ShapeInv /\ LaneInv /\ PoolInv /\ OneConnection
  /\ \A r \in Calls : CallTrue(r) /\ RetryTrue(r)
  /\ RetryFailsForCause

-----------------------------------------------------------------------------
(* Sequences, calls and connections. *)

LEMMA HeadAppend ==
  ASSUME NEW S, NEW s \in Seq(S), NEW x \in S
  PROVE  /\ Append(s, x) \in Seq(S) /\ Append(s, x) # <<>>
         /\ s # <<>> => Head(Append(s, x)) = Head(s)
  OBVIOUS

LEMMA TailSeq ==
  ASSUME NEW S, NEW s \in Seq(S), s # <<>>
  PROVE  Tail(s) \in Seq(S) /\ Len(Tail(s)) = Len(s) - 1 /\ Head(s) \in S
  OBVIOUS

LEMMA ConnFacts ==
  ASSUME Inv
  PROVE  /\ Len(conns) \in Nat /\ DOMAIN conns = 1..Len(conns)
         /\ \A c \in 1..Len(conns) : conns[c] \in Conn
  BY DEF Inv, ShapeInv

\* A call that is under way belongs to the scenario.
LEMMA CallFacts ==
  ASSUME Inv, NEW r \in Calls
  PROVE  /\ CallTrue(r) /\ RetryTrue(r) /\ T(r) \in Transports
         /\ call[r].pc # "done" =>
              r \in DOMAIN sc.calls /\ P(r) \in Peers /\ Cfg(r).via \in {"web", "tunnel"}
  <1>1. CallTrue(r) /\ RetryTrue(r)
    BY DEF Inv
  <1>2. call[r].pc # "done" => r \in DOMAIN sc.calls
    BY <1>1 DEF CallTrue, RouteTrue
  <1>3. sc \in Scenarios
    BY DEF Inv, ShapeInv
  <1> QED BY <1>1, <1>2, <1>3, ScenariosAssumption DEF T, Transports, P, Cfg

LEMMA LockFacts ==
  ASSUME Inv, NEW t \in Transports PROVE lock[t] \in Seq(Calls)
  BY DEF Inv, ShapeInv

LEMMA DaemonTransport == "daemon" \in Transports
  BY DEF Transports

\* Closing is all that happens to a connection.
LEMMA CloseFacts ==
  ASSUME Inv, NEW c \in 1..Len(conns)
  PROVE  /\ Close(c) \in Seq(Conn) /\ Len(Close(c)) = Len(conns)
         /\ Close(c)[c].st = "closed"
         /\ \A d \in 1..Len(conns) :
              /\ Close(c)[d].t = conns[d].t /\ Close(c)[d].p = conns[d].p
              /\ Close(c)[d].gen = conns[d].gen
              /\ d # c => Close(c)[d] = conns[d]
  <1>1. Len(conns) \in Nat /\ conns \in Seq(Conn) /\ \A d \in 1..Len(conns) : conns[d] \in Conn
    BY ConnFacts DEF Inv, ShapeInv
  <1>2. Close(c) = [conns EXCEPT ![c] = [conns[c] EXCEPT !.st = "closed"]]
    BY <1>1 DEF Close
  <1>3. [conns[c] EXCEPT !.st = "closed"] \in Conn
    BY <1>1 DEF Conn
  <1>4. PICK k : k = [conns[c] EXCEPT !.st = "closed"]
    OBVIOUS
  <1>5. k.st = "closed" /\ k.t = conns[c].t /\ k.p = conns[c].p /\ k.gen = conns[c].gen
    BY <1>1, <1>4 DEF Conn
  <1>6. Close(c) = [conns EXCEPT ![c] = k] /\ k \in Conn
    BY <1>2, <1>3, <1>4
  <1> QED BY <1>1, <1>5, <1>6

-----------------------------------------------------------------------------
(* What a step of one call leaves of the others. *)

\* The connections in D change, and others are accepted or refused.
Changes(D) ==
  /\ conns' \in Seq(Conn) /\ Len(conns') >= Len(conns)
  /\ \A c \in 1..Len(conns) :
       /\ conns'[c].t = conns[c].t /\ conns'[c].p = conns[c].p /\ conns'[c].gen = conns[c].gen
       /\ c \notin D => \/ conns'[c].st = conns[c].st
                        \/ conns[c].st = "hello" /\ conns'[c].st \in {"greeted", "refused"}
       /\ conns[c].st = "open" => conns'[c].st \in {"open", "closed"}
       /\ conns[c].st = "closed" => conns'[c].st = "closed"

\* Whoever else holds a pool holds it still.
Locks(r) ==
  \A t \in Transports : lock[t] # <<>> /\ Head(lock[t]) # r =>
    lock'[t] # <<>> /\ Head(lock'[t]) = Head(lock[t])

\* Nothing is pooled but a connection that r has dialed.
Pools(r) ==
  \A t \in Transports, p \in Peers :
    \/ pool'[t][p] \in {pool[t][p], 0}
    \/ /\ r \in Calls /\ call[r].pc = "greet" /\ T(r) = t /\ P(r) = p
       /\ pool'[t][p] = call[r].conn

Apart(r, D) == \A q \in Calls \ {r} : call[q].pc = "greet" => call[q].conn \notin D

Alone(r, D) ==
  /\ sc' = sc /\ peers' = peers /\ \A q \in Calls \ {r} : call'[q] = call[q]
  /\ Changes(D) /\ Apart(r, D) /\ Locks(r) /\ Pools(r)

\* One call at a time dials in a transport.
LEMMA OneDials ==
  ASSUME Inv, NEW q \in Calls, NEW r \in Calls, T(q) = T(r),
         call[q].pc \in {"dial", "greet"}, Holds(r)
  PROVE  q = r
  BY CallFacts DEF CallTrue, Holds

LEMMA OthersCall ==
  ASSUME Inv, NEW r, NEW D, Alone(r, D), NEW q \in Calls \ {r}
  PROVE  CallTrue(q)'
  <1>1. CallTrue(q) /\ T(q) \in Transports /\ (call[q].pc # "done" => P(q) \in Peers)
    BY CallFacts
  <1>2. call'[q] = call[q] /\ sc' = sc /\ Changes(D) /\ Locks(r) /\ Pools(r)
    BY DEF Alone
  <1>3. T(q)' = T(q) /\ P(q)' = P(q) /\ Cfg(q)' = Cfg(q)
    BY <1>2 DEF T, P, Cfg
  <1>4. Len(conns) \in Nat /\ Len(conns') \in Nat /\ Len(conns') >= Len(conns)
    BY <1>2, ConnFacts DEF Changes
  <1>5. IsCall(call[q])' /\ call'[q].pc \in Pcs /\ call'[q].conn \in 0..Len(conns') /\ RouteTrue(q)'
    BY <1>1, <1>2, <1>3, <1>4 DEF CallTrue, RouteTrue, IsCall
  <1>6. call[q].pc \in {"dial", "greet"} => Holds(q)' /\ pool'[T(q)][P(q)] = 0
    <2> SUFFICES ASSUME call[q].pc \in {"dial", "greet"}
                 PROVE  Holds(q)' /\ pool'[T(q)][P(q)] = 0
      OBVIOUS
    <2>1. lock[T(q)] # <<>> /\ Head(lock[T(q)]) = q /\ pool[T(q)][P(q)] = 0
      BY <1>1 DEF CallTrue, Holds
    <2>2. Holds(q)'
      BY <1>1, <1>2, <1>3, <2>1 DEF Locks, Holds
    <2>3. ~ (r \in Calls /\ call[r].pc = "greet" /\ T(r) = T(q))
      <3> SUFFICES ASSUME r \in Calls, call[r].pc = "greet", T(r) = T(q) PROVE FALSE
        OBVIOUS
      <3>1. Holds(r)
        BY CallFacts DEF CallTrue
      <3> QED BY <2>1, <3>1 DEF Holds
    <2> QED BY <1>1, <1>2, <2>1, <2>2, <2>3 DEF Pools
  <1>7. call[q].pc \in {"greet", "send", "read", "relay", "left"} =>
          /\ call[q].conn \in 1..Len(conns)
          /\ conns'[call[q].conn].t = T(q) /\ conns'[call[q].conn].p = P(q)
    BY <1>1, <1>2, <1>4 DEF CallTrue, Changes
  <1>8. call[q].pc = "greet" => conns'[call[q].conn].st \in {"hello", "greeted", "refused"}
    BY <1>1, <1>2, <1>7 DEF CallTrue, Changes, Alone, Apart
  <1>9. call[q].pc \in {"send", "read", "relay", "left"} =>
          conns'[call[q].conn].st \in {"open", "closed"}
    BY <1>1, <1>2, <1>7 DEF CallTrue, Changes
  <1> QED BY <1>2, <1>3, <1>4, <1>5, <1>6, <1>7, <1>8, <1>9 DEF CallTrue

\* A connection that closes is stale, that of a process of its own, or those
\* who use it are disturbed.
Blamed(r, D) ==
  /\ blame \ {r} \subseteq blame'
  /\ \A c \in D \cap (1..Len(conns)) :
       conns[c].st = "open" /\ conns'[c].st = "closed" =>
         Users(c) \subseteq blame' \cup {r} \/ conns[c].t # "daemon" \/ ~ Alive(c)

LEMMA OthersRetry ==
  ASSUME Inv, NEW r, NEW D, Alone(r, D), Blamed(r, D), NEW q \in Calls \ {r},
         r \in Calls /\ call'[r].pc = "greet" => Alive(call[r].conn)'
  PROVE  RetryTrue(q)'
  <1> SUFFICES ASSUME Undisturbed(q)' PROVE RetryTrue(q)'
    BY DEF RetryTrue
  <1>1. call'[q] = call[q] /\ sc' = sc /\ peers' = peers /\ Changes(D) /\ Pools(r)
    BY DEF Alone
  <1>2. T(q)' = T(q) /\ P(q)' = P(q) /\ Cfg(q)' = Cfg(q)
    BY <1>1 DEF T, P, Cfg
  <1>3. q \notin blame /\ Undisturbed(q)
    BY <1>1, <1>2 DEF Undisturbed, Blamed
  <1>4. CallTrue(q) /\ RetryTrue(q) /\ T(q) \in Transports /\ P(q) \in Peers
    BY <1>3, CallFacts DEF Undisturbed
  <1>5. ASSUME NEW c \in 1..Len(conns), c \notin D, Alive(c) PROVE Alive(c)'
    BY <1>1, <1>5 DEF Alive, Changes
  <1>6. ASSUME NEW c \in 1..Len(conns), Alive(c), conns'[c].st # "closed" PROVE Alive(c)'
    BY <1>1, <1>6 DEF Alive, Changes
  <1>7. call[q].pc = "greet" => Alive(call[q].conn)'
    BY <1>1, <1>3, <1>4, <1>5 DEF CallTrue, RetryTrue, Alone, Apart
  <1>8. call[q].pc \in {"send", "read"} => Alive(call[q].conn)'
    <2> SUFFICES ASSUME call[q].pc \in {"send", "read"} PROVE Alive(call[q].conn)'
      OBVIOUS
    <2>1. PICK c : c = call[q].conn
      OBVIOUS
    <2>2. c \in 1..Len(conns) /\ Alive(c) /\ conns[c].t = "daemon" /\ q \in Users(c)
      <3>1. T(q) = "daemon"
        BY <1>3, <1>4 DEF CallTrue, RouteTrue, T, Undisturbed
      <3> QED BY <1>3, <1>4, <2>1, <3>1 DEF CallTrue, RetryTrue, Users
    <2>3. conns[c].st = "open"
      BY <1>4, <2>1, <2>2 DEF CallTrue, Alive
    <2>4. q \notin blame' \cup {r}
      BY DEF Undisturbed
    <2>5. conns'[c].st # "closed"
      <3>1. CASE c \in D
        BY <2>2, <2>3, <2>4, <3>1 DEF Blamed
      <3>2. CASE c \notin D
        BY <1>1, <2>2, <2>3, <3>2 DEF Changes
      <3> QED BY <3>1, <3>2
    <2>6. Alive(c)'
      BY <1>6, <2>2, <2>5
    <2> QED BY <1>1, <2>1, <2>6 DEF Alive
  <1>9. ASSUME call[q].pc = "lock", NEW c \in {pool'["daemon"][P(q)]} \ {0}
        PROVE  conns'[c].st = "closed" \/ Alive(c)'
    <2>1. CASE c = pool["daemon"][P(q)]
      <3>1. c \in 1..Len(conns)
        BY <1>4, <1>9, <2>1, DaemonTransport DEF Inv, PoolInv
      <3>2. conns[c].st = "closed" \/ Alive(c)
        BY <1>3, <1>4, <1>9, <2>1 DEF RetryTrue
      <3> QED BY <1>1, <1>6, <3>1, <3>2 DEF Changes
    <2>2. CASE /\ r \in Calls /\ call[r].pc = "greet" /\ T(r) = "daemon" /\ P(r) = P(q)
               /\ c = call[r].conn
      <3>1. Alive(c) /\ c \in 1..Len(conns)
        BY <1>3, <1>4, <1>9, <2>2, CallFacts DEF RetryTrue, CallTrue
      <3> QED BY <1>6, <3>1
    <2> QED BY <1>1, <1>4, <1>9, <2>1, <2>2, DaemonTransport DEF Pools
  <1>10. ASSUME call[q].pc = "lock", NEW s \in Calls, call'[s].pc = "greet", T(s)' = "daemon",
                P(s)' = P(q)
         PROVE  Alive(call[s].conn)'
    <2>1. CASE s = r
      BY <1>10, <2>1
    <2>2. CASE s # r
      <3>1. call'[s] = call[s] /\ T(s)' = T(s) /\ P(s)' = P(s)
        BY <1>1, <2>2 DEF Alone, T, P, Cfg
      <3>2. CallTrue(s) /\ Alive(call[s].conn) /\ call[s].conn \notin D
        BY <1>3, <1>4, <1>10, <2>2, <3>1, CallFacts DEF RetryTrue, Alone, Apart
      <3>3. PICK c : c = call[s].conn
        OBVIOUS
      <3>4. c \in 1..Len(conns) /\ Alive(c) /\ c \notin D
        BY <1>10, <3>1, <3>2, <3>3 DEF CallTrue
      <3>5. Alive(c)'
        BY <1>5, <3>4
      <3> QED BY <3>1, <3>3, <3>5 DEF Alive
    <2> QED BY <2>1, <2>2
  <1> QED BY <1>1, <1>2, <1>7, <1>8, <1>9, <1>10 DEF RetryTrue, Alive

-----------------------------------------------------------------------------
(* A step of one call, put together. *)

CauseTrue(r) ==
  r \in DOMAIN sc.calls /\ Cfg(r).via = "web" /\ call[r].pc = "done"
  /\ call[r].res \in {"error", "dial"} => r \in blame

LEMMA CauseFacts == Inv => \A r \in Calls : CauseTrue(r)
  BY DEF Inv, RetryFailsForCause, CauseTrue

LEMMA Together ==
  ASSUME Inv, NEW r, NEW D, Alone(r, D), Blamed(r, D),
         r \in Calls => /\ call'[r].pc = "greet" => Alive(call[r].conn)'
                        /\ CallTrue(r)' /\ RetryTrue(r)' /\ CauseTrue(r)',
         ShapeInv', LaneInv', PoolInv', OneConnection'
  PROVE  Inv'
  <1>1. \A q \in Calls \ {r} : CallTrue(q)' /\ RetryTrue(q)'
    BY OthersCall, OthersRetry
  <1>2. \A q \in Calls \ {r} : CauseTrue(q)'
    <2> TAKE q \in Calls \ {r}
    <2>1. CauseTrue(q) /\ call'[q] = call[q] /\ sc' = sc /\ (q \in blame => q \in blame')
      BY CauseFacts DEF Alone, Blamed
    <2> QED BY <2>1 DEF CauseTrue, Cfg
  <1>3. \A q \in Calls : CallTrue(q)' /\ RetryTrue(q)' /\ CauseTrue(q)'
    BY <1>1, <1>2
  <1>4. RetryFailsForCause'
    <2>1. DOMAIN sc'.calls \subseteq Calls
      BY ScenariosAssumption DEF ShapeInv
    <2> QED BY <1>3, <2>1 DEF RetryFailsForCause, CauseTrue
  <1> QED BY <1>3, <1>4 DEF Inv

\* Nothing is pooled, and what is open stays in the pool.
LEMMA PoolsKeep ==
  ASSUME Inv, NEW D, Changes(D), pool' \in [Transports -> [Peers -> Nat]],
         \A t \in Transports, p \in Peers : pool'[t][p] \in {pool[t][p], 0},
         \A c \in 1..Len(conns') : conns'[c].st = "open" =>
           /\ c \in 1..Len(conns) /\ conns[c].st = "open"
           /\ pool'[conns[c].t][conns[c].p] = pool[conns[c].t][conns[c].p]
  PROVE  PoolInv' /\ OneConnection'
  <1>1. Len(conns) \in Nat /\ Len(conns') \in Nat /\ Len(conns') >= Len(conns)
        /\ DOMAIN conns = 1..Len(conns) /\ DOMAIN conns' = 1..Len(conns')
    BY ConnFacts DEF Changes
  <1>2. PoolInv'
    <2> SUFFICES ASSUME NEW t \in Transports, NEW p \in Peers
                 PROVE  /\ pool'[t][p] \in 0..Len(conns')
                        /\ pool'[t][p] # 0 =>
                             /\ conns'[pool'[t][p]].t = t /\ conns'[pool'[t][p]].p = p
                             /\ conns'[pool'[t][p]].st \in {"open", "closed"}
      BY DEF PoolInv
    <2>1. PICK c : c = pool'[t][p]
      OBVIOUS
    <2>2. c # 0 => /\ c \in 1..Len(conns) /\ conns[c].t = t /\ conns[c].p = p
                   /\ conns[c].st \in {"open", "closed"}
      BY <2>1 DEF Inv, PoolInv
    <2> QED BY <1>1, <2>1, <2>2 DEF Changes
  <1>3. OneConnection'
    <2> SUFFICES ASSUME NEW c \in 1..Len(conns'), conns'[c].st = "open"
                 PROVE  pool'[conns'[c].t][conns'[c].p] = c
      BY <1>1 DEF OneConnection
    <2>1. c \in 1..Len(conns) /\ pool[conns[c].t][conns[c].p] = c
      BY <1>1 DEF Inv, OneConnection
    <2> QED BY <2>1 DEF Changes
  <1> QED BY <1>2, <1>3

LEMMA SameConns == ASSUME Inv, conns' = conns PROVE Changes({})
  BY ConnFacts DEF Changes, Inv, ShapeInv

LEMMA SamePool ==
  ASSUME Inv, conns' = conns, pool' = pool
  PROVE  PoolInv' /\ OneConnection' /\ \A r : Pools(r)
  BY DEF Inv, PoolInv, OneConnection, Pools

LEMMA SameLanes ==
  ASSUME Inv, lane' = lane, queue' = queue, gate' = gate PROVE LaneInv'
  BY DEF Inv, LaneInv, IsLane

\* A step that changes one call, and perhaps who waits for a pool.
LEMMA CallOnly ==
  ASSUME Inv, NEW r \in Calls, UNCHANGED <<sc, daemon, peers, trouble, conns, pool>>,
         DOMAIN call' = Calls, \A q \in Calls \ {r} : call'[q] = call[q],
         lock' \in [Transports -> Seq(Calls)], Locks(r),
         blame \ {r} \subseteq blame', blame' \subseteq Calls, LaneInv',
         call'[r].pc # "greet", CallTrue(r)', RetryTrue(r)', CauseTrue(r)'
  PROVE  Inv'
  <1>1. Changes({}) /\ Pools(r) /\ PoolInv' /\ OneConnection'
    BY SameConns, SamePool
  <1>2. Alone(r, {})
    BY <1>1 DEF Alone, Apart
  <1>3. Blamed(r, {})
    BY DEF Blamed
  <1>4. ShapeInv'
    BY DEF Inv, ShapeInv
  <1> QED BY <1>1, <1>2, <1>3, <1>4, Together

LEMMA LocksKept == ASSUME NEW r, lock' = lock PROVE Locks(r)
  BY DEF Locks

\* Waiting at the end of a queue.
LEMMA Queued ==
  ASSUME NEW locks \in [Transports -> Seq(Calls)], NEW t \in Transports, NEW r \in Calls
  PROVE  LET new == [locks EXCEPT ![t] = Append(@, r)]
         IN  /\ new \in [Transports -> Seq(Calls)]
             /\ \A u \in Transports : locks[u] # <<>> => new[u] # <<>> /\ Head(new[u]) = Head(locks[u])
  <1>1. locks[t] \in Seq(Calls)
    OBVIOUS
  <1>2. PICK s : s = Append(locks[t], r)
    OBVIOUS
  <1>3. s \in Seq(Calls) /\ s # <<>> /\ (locks[t] # <<>> => Head(s) = Head(locks[t]))
    BY <1>1, <1>2, HeadAppend
  <1> QED BY <1>2, <1>3

\* Letting go of a pool.
LEMMA ReleasedFacts ==
  ASSUME Inv, NEW r \in Calls, Holds(r)
  PROVE  /\ Released(r) \in [Transports -> Seq(Calls)]
         /\ \A u \in Transports : lock[u] # <<>> /\ Head(lock[u]) # r => Released(r)[u] = lock[u]
  <1>1. lock \in [Transports -> Seq(Calls)] /\ T(r) \in Transports
    BY CallFacts DEF Inv, ShapeInv
  <1>2. Tail(lock[T(r)]) \in Seq(Calls)
    BY <1>1, TailSeq DEF Holds
  <1> QED BY <1>1, <1>2 DEF Released, Holds

-----------------------------------------------------------------------------
(* An attempt that has failed. *)

LEMMA FailedFacts ==
  ASSUME Inv, NEW r \in Calls, NEW why, NEW locks, Failed(r, why, locks),
         locks \in [Transports -> Seq(Calls)]
  PROVE  /\ DOMAIN call' = Calls /\ \A q \in Calls \ {r} : call'[q] = call[q]
         /\ IsCall(call'[r]) /\ call'[r].route = call[r].route /\ call'[r].try = call[r].try
         /\ call'[r].conn \in {0, call[r].conn}
         /\ \/ call'[r].pc = "evict" /\ call[r].route = "web" /\ call[r].try = 1
            \/ /\ call'[r].pc = "done" /\ call'[r].res = why
               /\ ~ (call[r].route = "web" /\ call[r].try = 1)
         /\ lock' \in [Transports -> Seq(Calls)]
         /\ \A u \in Transports : locks[u] # <<>> => lock'[u] # <<>> /\ Head(lock'[u]) = Head(locks[u])
  <1>1. DOMAIN call = Calls /\ IsCall(call[r])
    BY CallFacts DEF CallTrue, Inv, ShapeInv
  <1>2. PICK k : k = call[r]
    OBVIOUS
  <1>3. CASE call[r].route = "web" /\ call[r].try = 1
    <2>1. call' = [call EXCEPT ![r] = [k EXCEPT !.pc = "evict", !.conn = 0]]
          /\ lock' = [locks EXCEPT !["daemon"] = Append(@, r)]
      BY <1>1, <1>2, <1>3 DEF Failed
    <2>2. PICK m : m = [k EXCEPT !.pc = "evict", !.conn = 0]
      OBVIOUS
    <2>3. IsCall(m) /\ m.pc = "evict" /\ m.conn = 0 /\ m.route = k.route /\ m.try = k.try
      BY <1>1, <1>2, <2>2 DEF IsCall
    <2>4. call' = [call EXCEPT ![r] = m]
      BY <2>1, <2>2
    <2>5. call'[r] = m /\ DOMAIN call' = Calls /\ \A q \in Calls \ {r} : call'[q] = call[q]
      BY <1>1, <2>4
    <2> QED BY <1>2, <1>3, <2>1, <2>3, <2>5, Queued, DaemonTransport
  <1>4. CASE ~ (call[r].route = "web" /\ call[r].try = 1)
    <2>1. call' = [call EXCEPT ![r] = [k EXCEPT !.pc = "done", !.res = why]] /\ lock' = locks
      BY <1>1, <1>2, <1>4 DEF Failed
    <2>2. PICK m : m = [k EXCEPT !.pc = "done", !.res = why]
      OBVIOUS
    <2>3. IsCall(m) /\ m.pc = "done" /\ m.res = why /\ m.conn = k.conn /\ m.route = k.route
          /\ m.try = k.try
      BY <1>1, <1>2, <2>2 DEF IsCall
    <2>4. call' = [call EXCEPT ![r] = m]
      BY <2>1, <2>2
    <2>5. call'[r] = m /\ DOMAIN call' = Calls /\ \A q \in Calls \ {r} : call'[q] = call[q]
      BY <1>1, <2>4
    <2> QED BY <1>2, <1>4, <2>1, <2>3, <2>5
  <1> QED BY <1>3, <1>4

\* An attempt whose failure has a cause leaves its call in order.
LEMMA FailedTrue ==
  ASSUME Inv, NEW r \in Calls, NEW why, NEW locks, Failed(r, why, locks),
         locks \in [Transports -> Seq(Calls)], call[r].pc \in {"dial", "greet", "send", "read"},
         sc' = sc, Len(conns') \in Nat, Len(conns') >= Len(conns),
         \A u \in Transports : lock[u] # <<>> /\ Head(lock[u]) # r => locks[u] = lock[u],
         why \in {"error", "dial"} /\ Cfg(r).via = "web" /\ call[r].try # 1 => r \in blame'
  PROVE  /\ DOMAIN call' = Calls /\ \A q \in Calls \ {r} : call'[q] = call[q]
         /\ CallTrue(r)' /\ RetryTrue(r)' /\ CauseTrue(r)' /\ call'[r].pc # "greet"
         /\ lock' \in [Transports -> Seq(Calls)] /\ Locks(r)
  <1>1. /\ DOMAIN call' = Calls /\ \A q \in Calls \ {r} : call'[q] = call[q]
        /\ IsCall(call'[r]) /\ call'[r].route = call[r].route /\ call'[r].try = call[r].try
        /\ call'[r].conn \in {0, call[r].conn}
        /\ \/ call'[r].pc = "evict" /\ call[r].route = "web" /\ call[r].try = 1
           \/ /\ call'[r].pc = "done" /\ call'[r].res = why
              /\ ~ (call[r].route = "web" /\ call[r].try = 1)
        /\ lock' \in [Transports -> Seq(Calls)]
        /\ \A u \in Transports : locks[u] # <<>> => lock'[u] # <<>> /\ Head(lock'[u]) = Head(locks[u])
    BY FailedFacts
  <1>2. CallTrue(r) /\ r \in DOMAIN sc.calls /\ Cfg(r).via \in {"web", "tunnel"} /\ Cfg(r)' = Cfg(r)
    BY CallFacts DEF Cfg
  <1>3. (Cfg(r).via = "web") = (call[r].route = "web")
    BY <1>2 DEF CallTrue, RouteTrue
  <1>4. Len(conns) \in Nat /\ call[r].conn \in 0..Len(conns)
    BY <1>2, ConnFacts DEF CallTrue
  <1>5. CallTrue(r)'
    <2>1. RouteTrue(r)'
      BY <1>1, <1>2, <1>3 DEF RouteTrue
    <2>2. call'[r].conn \in 0..Len(conns') /\ call'[r].pc \in Pcs
      BY <1>1, <1>4 DEF Pcs
    <2> QED BY <1>1, <2>1, <2>2 DEF CallTrue
  <1>6. RetryTrue(r)'
    BY <1>1 DEF RetryTrue, Undisturbed
  <1>7. CauseTrue(r)'
    BY <1>1, <1>2, <1>3 DEF CauseTrue
  <1>8. Locks(r)
    BY <1>1 DEF Locks
  <1> QED BY <1>1, <1>5, <1>6, <1>7, <1>8

-----------------------------------------------------------------------------
(* The pool *)

LEMMA CallPut ==
  ASSUME Inv, NEW r \in Calls, NEW m, call' = [call EXCEPT ![r] = m]
  PROVE  DOMAIN call' = Calls /\ call'[r] = m /\ \A q \in Calls \ {r} : call'[q] = call[q]
  BY DEF Inv, ShapeInv

LEMMA StartKeeps == ASSUME Inv, NEW r \in Calls, Start(r) PROVE Inv'
  <1>1. CallTrue(r) /\ r \in DOMAIN sc.calls /\ Cfg(r).via \in {"web", "tunnel"}
        /\ call[r].pc = "start" /\ call[r].conn \in 0..Len(conns) /\ DOMAIN call = Calls
        /\ lock \in [Transports -> Seq(Calls)] /\ blame \subseteq Calls
    BY CallFacts DEF Start, CallTrue, Inv, ShapeInv
  <1>2. /\ UNCHANGED <<sc, daemon, peers, trouble, conns, pool>> /\ LaneInv'
        /\ blame' = blame \ {r}
    BY SameLanes DEF Start, Calling, World
  <1>3. PICK k : k = call[r]
    OBVIOUS
  <1>4. PICK route, t : /\ t \in Transports
                        /\ route = IF Cfg(r).via = "web" THEN "web" ELSE route
                        /\ Cfg(r).via # "web" => route \in {"tunnel", "own"}
                        /\ call' = [call EXCEPT ![r] = [k EXCEPT !.pc = "lock", !.route = route]]
                        /\ lock' = [lock EXCEPT ![t] = Append(@, r)]
    <2>1. CASE daemon = "up"
      <3>1. /\ call' = [call EXCEPT ![r] = [k EXCEPT !.pc = "lock", !.route = Cfg(r).via]]
            /\ lock' = [lock EXCEPT !["daemon"] = Append(@, r)]
        BY <1>1, <1>3, <2>1 DEF Start
      <3> QED BY <1>1, <3>1, DaemonTransport
    <2>2. CASE daemon # "up"
      <3>1. /\ call' = [call EXCEPT ![r] = [k EXCEPT !.pc = "lock", !.route = "own"]]
            /\ lock' = [lock EXCEPT ![r] = Append(@, r)] /\ Cfg(r).via = "tunnel"
        BY <1>1, <1>3, <2>2 DEF Start
      <3> QED BY <3>1 DEF Transports
    <2> QED BY <2>1, <2>2
  <1>5. PICK m : m = [k EXCEPT !.pc = "lock", !.route = route]
    OBVIOUS
  <1>6. IsCall(m) /\ m.pc = "lock" /\ m.route = route /\ m.conn = k.conn /\ m.try = k.try
    BY <1>1, <1>3, <1>5 DEF CallTrue, IsCall
  <1>7. call' = [call EXCEPT ![r] = m]
    BY <1>4, <1>5
  <1>8. DOMAIN call' = Calls /\ call'[r] = m /\ \A q \in Calls \ {r} : call'[q] = call[q]
    BY <1>7, CallPut
  <1>9. lock' \in [Transports -> Seq(Calls)] /\ Locks(r)
    BY <1>1, <1>4, Queued DEF Locks
  <1>10. Cfg(r)' = Cfg(r)
    BY <1>2 DEF Cfg
  <1>11. CallTrue(r)'
    BY <1>1, <1>2, <1>3, <1>4, <1>6, <1>8, <1>10 DEF CallTrue, RouteTrue, Pcs
  <1>12. RetryTrue(r)' /\ CauseTrue(r)'
    BY <1>1, <1>3, <1>6, <1>8, <1>10 DEF RetryTrue, Undisturbed, CauseTrue, CallTrue, RouteTrue
  <1> QED BY <1>1, <1>2, <1>6, <1>8, <1>9, <1>11, <1>12, CallOnly

\* The stream of a call is new.
LEMMA OpenedLanes ==
  ASSUME Inv, NEW r \in Calls, NEW c, Opened(r, c), queue' = queue PROVE LaneInv'
  <1>1. lane' = [lane EXCEPT ![r] = NoLane] /\ gate' \in {gate \cup {r}, gate \ {r}}
    BY DEF Opened
  <1>2. IsLane(NoLane) /\ NoLane.st = "none"
    BY DEF IsLane, NoLane
  <1> QED BY <1>1, <1>2 DEF Inv, LaneInv

LEMMA OpenedCall ==
  ASSUME Inv, NEW r \in Calls, NEW c, Opened(r, c), Holds(r)
  PROVE  /\ DOMAIN call' = Calls /\ \A q \in Calls \ {r} : call'[q] = call[q]
         /\ IsCall(call'[r]) /\ call'[r].pc = "send" /\ call'[r].conn = c
         /\ call'[r].route = call[r].route /\ call'[r].try = call[r].try
         /\ lock' \in [Transports -> Seq(Calls)] /\ Locks(r)
  <1>1. DOMAIN call = Calls /\ IsCall(call[r])
    BY CallFacts DEF CallTrue, Inv, ShapeInv
  <1>2. PICK m : m = [call[r] EXCEPT !.pc = "send", !.conn = c]
    OBVIOUS
  <1>3. call' = [call EXCEPT ![r] = m]
    BY <1>1, <1>2 DEF Opened
  <1>4. IsCall(m) /\ m.pc = "send" /\ m.conn = c /\ m.route = call[r].route /\ m.try = call[r].try
    BY <1>1, <1>2 DEF IsCall
  <1>5. lock' \in [Transports -> Seq(Calls)] /\ Locks(r)
    BY ReleasedFacts DEF Opened, Released, Locks
  <1> QED BY <1>3, <1>4, <1>5, CallPut

LEMMA OpenKeeps == ASSUME Inv, NEW r \in Calls, open(r) PROVE Inv'
  <1>1. /\ CallTrue(r) /\ RetryTrue(r) /\ T(r) \in Transports /\ P(r) \in Peers
        /\ call[r].pc = "lock" /\ Holds(r)
    BY CallFacts DEF open
  <1>2. PICK c : c = pool[T(r)][P(r)]
    OBVIOUS
  <1>3. /\ c \in 1..Len(conns) /\ conns[c].st = "open" /\ conns[c].t = T(r) /\ conns[c].p = P(r)
    BY <1>1, <1>2 DEF open, Inv, PoolInv
  <1>4. /\ Opened(r, c) /\ UNCHANGED <<sc, daemon, peers, trouble, conns, pool, queue, blame>>
    BY <1>2 DEF open, World
  <1>5. /\ DOMAIN call' = Calls /\ \A q \in Calls \ {r} : call'[q] = call[q]
        /\ IsCall(call'[r]) /\ call'[r].pc = "send" /\ call'[r].conn = c
        /\ call'[r].route = call[r].route /\ call'[r].try = call[r].try
        /\ lock' \in [Transports -> Seq(Calls)] /\ Locks(r)
    BY <1>1, <1>4, OpenedCall
  <1>6. LaneInv'
    BY <1>4, OpenedLanes
  <1>7. Cfg(r)' = Cfg(r) /\ T(r)' = T(r) /\ P(r)' = P(r)
    BY <1>4, <1>5 DEF Cfg, T, P
  <1>8. CallTrue(r)'
    <2>1. RouteTrue(r)'
      BY <1>1, <1>4, <1>5, <1>7 DEF CallTrue, RouteTrue
    <2> QED BY <1>3, <1>4, <1>5, <1>7, <2>1, ConnFacts DEF CallTrue, Pcs
  <1>9. RetryTrue(r)'
    <2> SUFFICES ASSUME Undisturbed(r)' PROVE Alive(c)'
      BY <1>5 DEF RetryTrue, Alive
    <2>1. Undisturbed(r) /\ T(r) = "daemon"
      BY <1>1, <1>4, <1>5, <1>7 DEF Undisturbed, CallTrue, RouteTrue, T
    <2>2. Alive(c)
      BY <1>1, <1>2, <1>3, <2>1 DEF RetryTrue
    <2> QED BY <1>4, <2>2 DEF Alive
  <1>10. CauseTrue(r)' /\ blame \subseteq Calls
    BY <1>5 DEF CauseTrue, Inv, ShapeInv
  <1> QED BY <1>4, <1>5, <1>6, <1>8, <1>9, <1>10, CallOnly

LEMMA RedialKeeps == ASSUME Inv, NEW r \in Calls, redial(r) PROVE Inv'
  <1>1. /\ CallTrue(r) /\ T(r) \in Transports /\ P(r) \in Peers /\ call[r].pc = "lock" /\ Holds(r)
        /\ r \in DOMAIN sc.calls
    BY CallFacts DEF redial
  <1>2. /\ UNCHANGED <<sc, daemon, peers, trouble, conns, lock, blame>> /\ LaneInv'
        /\ pool' = [pool EXCEPT ![T(r)][P(r)] = 0] /\ call' = [call EXCEPT ![r].pc = "dial"]
        /\ pool[T(r)][P(r)] # 0 => conns[pool[T(r)][P(r)]].st = "closed"
    BY SameLanes DEF redial, Calling, World
  <1>3. PICK m : m = [call[r] EXCEPT !.pc = "dial"]
    OBVIOUS
  <1>4. call' = [call EXCEPT ![r] = m] /\ IsCall(m) /\ m.pc = "dial" /\ m.conn = call[r].conn
        /\ m.route = call[r].route /\ m.try = call[r].try
    BY <1>1, <1>2, <1>3 DEF CallTrue, IsCall, Inv, ShapeInv
  <1>5. DOMAIN call' = Calls /\ call'[r] = m /\ \A q \in Calls \ {r} : call'[q] = call[q]
    BY <1>4, CallPut
  <1>6. /\ pool' \in [Transports -> [Peers -> Nat]] /\ pool'[T(r)][P(r)] = 0
        /\ \A t \in Transports, p \in Peers :
             pool'[t][p] = IF t = T(r) /\ p = P(r) THEN 0 ELSE pool[t][p]
    BY <1>1, <1>2 DEF Inv, ShapeInv
  <1>7. Cfg(r)' = Cfg(r) /\ T(r)' = T(r) /\ P(r)' = P(r)
    BY <1>2, <1>4, <1>5 DEF Cfg, T, P
  <1>8. Changes({}) /\ Locks(r) /\ Pools(r)
    BY <1>2, <1>6, SameConns, LocksKept DEF Pools
  <1>9. PoolInv' /\ OneConnection'
    <2>1. ASSUME NEW c \in 1..Len(conns), conns[c].st = "open"
          PROVE  pool'[conns[c].t][conns[c].p] = pool[conns[c].t][conns[c].p]
      <3>1. pool[conns[c].t][conns[c].p] = c /\ conns[c] \in Conn /\ c # 0
        BY <2>1, ConnFacts DEF Inv, OneConnection
      <3> QED BY <1>2, <1>6, <2>1, <3>1 DEF Conn
    <2> QED BY <1>2, <1>6, <1>8, <2>1, PoolsKeep
  <1>10. Alone(r, {}) /\ Blamed(r, {})
    BY <1>2, <1>5, <1>8 DEF Alone, Apart, Blamed
  <1>11. ShapeInv'
    BY <1>2, <1>5, <1>6 DEF Inv, ShapeInv
  <1>12. CallTrue(r)'
    <2>1. RouteTrue(r)'
      BY <1>1, <1>2, <1>4, <1>5, <1>7 DEF CallTrue, RouteTrue
    <2>2. Holds(r)'
      BY <1>1, <1>2, <1>7 DEF Holds
    <2> QED BY <1>1, <1>2, <1>4, <1>5, <1>6, <1>7, <2>1, <2>2 DEF CallTrue, Pcs
  <1>13. RetryTrue(r)' /\ CauseTrue(r)' /\ call'[r].pc # "greet"
    BY <1>4, <1>5 DEF RetryTrue, CauseTrue
  <1> QED BY <1>2, <1>9, <1>10, <1>11, <1>12, <1>13, Together

LEMMA ConnectKeeps == ASSUME Inv, NEW r \in Calls, connect(r) PROVE Inv'
  <1>1. /\ CallTrue(r) /\ T(r) \in Transports /\ P(r) \in Peers /\ call[r].pc = "dial" /\ Holds(r)
        /\ pool[T(r)][P(r)] = 0 /\ peers[P(r)].up
    BY CallFacts DEF connect, CallTrue
  <1>2. PICK k : k = [t |-> T(r), p |-> P(r), gen |-> peers[P(r)].gen, st |-> "hello",
                      mods |-> peers[P(r)].mods]
    OBVIOUS
  <1>3. /\ UNCHANGED <<sc, daemon, peers, trouble, pool, lock, blame>> /\ LaneInv'
        /\ conns' = Append(conns, k)
        /\ call' = [call EXCEPT ![r].pc = "greet", ![r].conn = Len(conns')]
    BY <1>2, SameLanes DEF connect, Calling, World
  <1>4. peers[P(r)] \in Peer /\ conns \in Seq(Conn) /\ Len(conns) \in Nat
    BY <1>1, ConnFacts DEF Inv, ShapeInv
  <1>5. k \in Conn
    BY <1>1, <1>2, <1>4 DEF Conn, Peer
  <1>6. PICK n : n = Len(conns) + 1
    OBVIOUS
  <1>7. /\ conns' \in Seq(Conn) /\ Len(conns') = n /\ n \in Nat \ {0} /\ conns'[n] = k
        /\ \A c \in 1..Len(conns) : conns'[c] = conns[c]
    BY <1>3, <1>4, <1>5, <1>6
  <1>8. PICK m : m = [call[r] EXCEPT !.pc = "greet", !.conn = n]
    OBVIOUS
  <1>9. call' = [call EXCEPT ![r] = m] /\ IsCall(m) /\ m.pc = "greet" /\ m.conn = n
        /\ m.route = call[r].route /\ m.try = call[r].try
    BY <1>1, <1>3, <1>7, <1>8 DEF CallTrue, IsCall, Inv, ShapeInv
  <1>10. DOMAIN call' = Calls /\ call'[r] = m /\ \A q \in Calls \ {r} : call'[q] = call[q]
    BY <1>9, CallPut
  <1>11. Cfg(r)' = Cfg(r) /\ T(r)' = T(r) /\ P(r)' = P(r)
    BY <1>3, <1>9, <1>10 DEF Cfg, T, P
  <1>12. Changes({}) /\ Locks(r) /\ Pools(r)
    BY <1>3, <1>4, <1>6, <1>7, LocksKept DEF Changes, Pools
  <1>13. PoolInv' /\ OneConnection'
    <2>1. ASSUME NEW c \in 1..Len(conns'), conns'[c].st = "open"
          PROVE  c \in 1..Len(conns) /\ conns[c].st = "open"
      <3>1. c # n
        BY <1>2, <1>7, <2>1
      <3>2. c \in 1..Len(conns)
        BY <1>4, <1>6, <1>7, <3>1
      <3> QED BY <1>7, <2>1, <3>2
    <2>2. pool' \in [Transports -> [Peers -> Nat]]
      BY <1>3 DEF Inv, ShapeInv
    <2> QED BY <1>3, <1>12, <2>1, <2>2, PoolsKeep
  <1>14. Alone(r, {}) /\ Blamed(r, {})
    BY <1>3, <1>10, <1>12 DEF Alone, Apart, Blamed
  <1>15. ShapeInv'
    BY <1>3, <1>7, <1>10 DEF Inv, ShapeInv
  <1>16. CallTrue(r)'
    <2>1. RouteTrue(r)'
      BY <1>1, <1>3, <1>9, <1>10, <1>11 DEF CallTrue, RouteTrue
    <2>2. Holds(r)' /\ pool'[T(r)][P(r)] = 0
      BY <1>1, <1>3, <1>11 DEF Holds
    <2>3. conns'[n].t = T(r) /\ conns'[n].p = P(r) /\ conns'[n].st = "hello"
      BY <1>2, <1>7
    <2> QED BY <1>7, <1>9, <1>10, <1>11, <2>1, <2>2, <2>3 DEF CallTrue, Pcs
  <1>17. Alive(call[r].conn)'
    <2>1. conns'[n].p = P(r) /\ conns'[n].st = "hello" /\ conns'[n].gen = peers[P(r)].gen
      BY <1>2, <1>7
    <2> QED BY <1>1, <1>3, <1>9, <1>10, <2>1 DEF Alive
  <1>18. RetryTrue(r)' /\ CauseTrue(r)'
    BY <1>9, <1>10, <1>17 DEF RetryTrue, CauseTrue
  <1> QED BY <1>3, <1>13, <1>14, <1>15, <1>16, <1>17, <1>18, Together

\* A connection that was not answered, or was refused, is closed.
LEMMA CloseGreet ==
  ASSUME Inv, NEW r \in Calls, call[r].pc = "greet", conns' = Close(call[r].conn), pool' = pool
  PROVE  /\ Changes({call[r].conn}) /\ Apart(r, {call[r].conn}) /\ Pools(r)
         /\ PoolInv' /\ OneConnection' /\ conns' \in Seq(Conn) /\ Len(conns') = Len(conns)
         /\ \A b : blame \ {r} \subseteq b /\ blame' = b => Blamed(r, {call[r].conn})
  <1>1. PICK c : c = call[r].conn
    OBVIOUS
  <1>2. CallTrue(r) /\ c \in 1..Len(conns) /\ conns[c].st \notin {"open", "closed"}
        /\ conns[c].t = T(r) /\ Holds(r)
    BY <1>1, CallFacts DEF CallTrue
  <1>3. /\ conns' \in Seq(Conn) /\ Len(conns') = Len(conns) /\ conns'[c].st = "closed"
        /\ \A d \in 1..Len(conns) :
              /\ conns'[d].t = conns[d].t /\ conns'[d].p = conns[d].p
              /\ conns'[d].gen = conns[d].gen /\ (d # c => conns'[d] = conns[d])
    BY <1>1, <1>2, CloseFacts
  <1>4. Changes({c})
    BY <1>2, <1>3, ConnFacts DEF Changes
  <1>5. Apart(r, {c})
    <2> SUFFICES ASSUME NEW q \in Calls \ {r}, call[q].pc = "greet", call[q].conn = c PROVE FALSE
      BY DEF Apart
    <2>1. T(q) = T(r)
      BY <1>2, CallFacts DEF CallTrue
    <2> QED BY <1>2, <2>1, OneDials
  <1>6. PoolInv' /\ OneConnection' /\ Pools(r)
    <2>1. \A d \in 1..Len(conns') : conns'[d].st = "open" =>
            d \in 1..Len(conns) /\ conns[d].st = "open"
      BY <1>2, <1>3
    <2>2. pool' \in [Transports -> [Peers -> Nat]]
      BY DEF Inv, ShapeInv
    <2> QED BY <1>4, <2>1, <2>2, PoolsKeep DEF Pools
  <1>7. \A b : blame \ {r} \subseteq b /\ blame' = b => Blamed(r, {c})
    BY <1>2 DEF Blamed
  <1> QED BY <1>1, <1>3, <1>4, <1>5, <1>6, <1>7

\* A dial that ends without a connection.
LEMMA DialEnds ==
  ASSUME Inv, NEW r \in Calls, NEW why, call[r].pc \in {"dial", "greet"},
         Failed(r, why, Released(r)),
         \/ conns' = conns
         \/ call[r].pc = "greet" /\ conns' = Close(call[r].conn),
         UNCHANGED <<sc, daemon, peers, trouble, pool, lane, queue, gate>>,
         blame' \subseteq Calls, blame \subseteq blame',
         why \in {"error", "dial"} /\ Cfg(r).via = "web" /\ call[r].try # 1 => r \in blame'
  PROVE  Inv'
  <1>1. Holds(r) /\ CallTrue(r)
    BY CallFacts DEF CallTrue
  <1>2. /\ Released(r) \in [Transports -> Seq(Calls)]
        /\ \A u \in Transports : lock[u] # <<>> /\ Head(lock[u]) # r => Released(r)[u] = lock[u]
    BY <1>1, ReleasedFacts
  <1>3. PICK D : /\ Changes(D) /\ Apart(r, D) /\ Pools(r) /\ PoolInv' /\ OneConnection'
                 /\ conns' \in Seq(Conn) /\ Len(conns') = Len(conns) /\ Blamed(r, D)
    <2>1. CASE conns' = conns
      <3>1. Changes({}) /\ Pools(r) /\ PoolInv' /\ OneConnection' /\ Blamed(r, {}) /\ Apart(r, {})
        BY <2>1, SameConns, SamePool DEF Blamed, Apart
      <3> QED BY <2>1, <3>1 DEF Inv, ShapeInv
    <2>2. CASE call[r].pc = "greet" /\ conns' = Close(call[r].conn)
      BY <2>2, CloseGreet
    <2> QED BY <2>1, <2>2
  <1>4. /\ DOMAIN call' = Calls /\ \A q \in Calls \ {r} : call'[q] = call[q]
        /\ CallTrue(r)' /\ RetryTrue(r)' /\ CauseTrue(r)' /\ call'[r].pc # "greet"
        /\ lock' \in [Transports -> Seq(Calls)] /\ Locks(r)
    BY <1>2, <1>3, FailedTrue, ConnFacts
  <1>5. Alone(r, D)
    BY <1>3, <1>4 DEF Alone
  <1>6. ShapeInv' /\ LaneInv'
    BY <1>3, <1>4, SameLanes DEF Inv, ShapeInv
  <1> QED BY <1>3, <1>4, <1>5, <1>6, Together

LEMMA RefusedKeeps == ASSUME Inv, NEW r \in Calls, refused(r) PROVE Inv'
  <1>1. blame \subseteq Calls
    BY DEF Inv, ShapeInv
  <1> QED BY <1>1, DialEnds DEF refused, Calling, World

LEMMA DialKeeps == ASSUME Inv, NEW r \in Calls, dial(r) PROVE Inv'
  <1>1. call[r].pc \in {"dial", "greet"} /\ RetryTrue(r) /\ CallTrue(r)
    BY CallFacts DEF dial
  <1>2. blame' \subseteq Calls /\ blame \subseteq blame'
    BY DEF dial, Inv, ShapeInv
  <1>3. Cfg(r).via = "web" /\ call[r].try # 1 => r \in blame'
    <2> SUFFICES ASSUME Cfg(r).via = "web", call[r].try # 1, r \notin blame, peers[P(r)].up PROVE FALSE
      BY DEF dial
    <2>1. call[r].pc = "greet" /\ ~ Alive(call[r].conn)
      BY DEF dial
    <2> QED BY <1>1, <2>1 DEF RetryTrue, Undisturbed
  <1>4. conns' = conns \/ (call[r].pc = "greet" /\ conns' = Close(call[r].conn))
    BY DEF dial
  <1>5. Failed(r, "dial", Released(r))
        /\ UNCHANGED <<sc, daemon, peers, trouble, pool, lane, queue, gate>>
    BY DEF dial, Calling, World
  <1> QED BY <1>1, <1>2, <1>3, <1>4, <1>5, DialEnds

\* A connection that both sides have greeted is pooled, and is the only one.
LEMMA GreetedKeeps == ASSUME Inv, NEW r \in Calls, greeted(r) PROVE Inv'
  <1>1. PICK c : c = call[r].conn
    OBVIOUS
  <1>2. /\ call[r].pc = "greet" /\ conns[c].st = "greeted"
        /\ UNCHANGED <<sc, daemon, peers, trouble, queue, blame>>
    BY <1>1 DEF greeted, World
  <1>3. /\ CallTrue(r) /\ RetryTrue(r) /\ T(r) \in Transports /\ P(r) \in Peers /\ Holds(r)
        /\ pool[T(r)][P(r)] = 0 /\ c \in 1..Len(conns) /\ conns[c].t = T(r) /\ conns[c].p = P(r)
    BY <1>1, <1>2, CallFacts DEF CallTrue
  <1>4. blame \subseteq Calls /\ conns \in Seq(Conn) /\ Len(conns) \in Nat /\ conns[c] \in Conn
    BY <1>3, ConnFacts DEF Inv, ShapeInv
  <1>5. CASE /\ Failed(r, "refused", Released(r)) /\ conns' = Close(c)
             /\ UNCHANGED <<pool, wire, lane, gate>>
    BY <1>1, <1>2, <1>4, <1>5, DialEnds
  <1>6. CASE /\ Opened(r, c) /\ conns' = [conns EXCEPT ![c].st = "open"]
             /\ pool' = [pool EXCEPT ![T(r)][P(r)] = c]
    <2>1. PICK k : k = [conns[c] EXCEPT !.st = "open"]
      OBVIOUS
    <2>2. k \in Conn /\ k.t = conns[c].t /\ k.p = conns[c].p /\ k.gen = conns[c].gen /\ k.st = "open"
      BY <1>4, <2>1 DEF Conn
    <2>3. conns' = [conns EXCEPT ![c] = k]
      BY <1>3, <1>4, <1>6, <2>1
    <2>4. /\ conns' \in Seq(Conn) /\ Len(conns') = Len(conns) /\ conns'[c] = k
          /\ \A d \in 1..Len(conns) : d # c => conns'[d] = conns[d]
      BY <1>3, <1>4, <2>2, <2>3
    <2>5. Changes({c})
      BY <1>2, <1>4, <2>2, <2>4 DEF Changes
    <2>6. Apart(r, {c})
      <3> SUFFICES ASSUME NEW q \in Calls \ {r}, call[q].pc = "greet", call[q].conn = c PROVE FALSE
        BY DEF Apart
      <3>1. T(q) = T(r)
        BY <1>3, CallFacts DEF CallTrue
      <3> QED BY <1>3, <3>1, OneDials
    <2>7. /\ pool' \in [Transports -> [Peers -> Nat]]
          /\ \A t \in Transports, p \in Peers :
               pool'[t][p] = IF t = T(r) /\ p = P(r) THEN c ELSE pool[t][p]
      <3>1. c \in Nat
        BY <1>3, <1>4
      <3> QED BY <1>3, <1>6, <3>1 DEF Inv, ShapeInv
    <2>8. Pools(r)
      BY <1>1, <1>2, <2>7 DEF Pools
    <2>9. /\ DOMAIN call' = Calls /\ \A q \in Calls \ {r} : call'[q] = call[q]
          /\ IsCall(call'[r]) /\ call'[r].pc = "send" /\ call'[r].conn = c
          /\ call'[r].route = call[r].route /\ call'[r].try = call[r].try
          /\ lock' \in [Transports -> Seq(Calls)] /\ Locks(r)
      BY <1>3, <1>6, OpenedCall
    <2>10. Alone(r, {c}) /\ Blamed(r, {c})
      BY <1>2, <2>5, <2>6, <2>8, <2>9 DEF Alone, Blamed
    <2>11. ShapeInv' /\ LaneInv'
      BY <1>2, <1>6, <2>4, <2>7, <2>9, OpenedLanes DEF Inv, ShapeInv
    <2>12. Cfg(r)' = Cfg(r) /\ T(r)' = T(r) /\ P(r)' = P(r)
      BY <1>2, <2>9 DEF Cfg, T, P
    <2>13. PoolInv'
      <3> SUFFICES ASSUME NEW t \in Transports, NEW p \in Peers, NEW d, d = pool'[t][p]
                   PROVE  /\ d \in 0..Len(conns')
                          /\ d # 0 => /\ conns'[d].t = t /\ conns'[d].p = p
                                      /\ conns'[d].st \in {"open", "closed"}
        BY DEF PoolInv
      <3>1. CASE t = T(r) /\ p = P(r)
        BY <1>3, <1>4, <2>2, <2>4, <2>7, <3>1
      <3>2. CASE ~ (t = T(r) /\ p = P(r))
        <4>1. d = pool[t][p]
          BY <2>7, <3>2
        <4>2. d \in 0..Len(conns) /\ (d # 0 => d \in 1..Len(conns) /\ d # c /\ conns[d].t = t
                                               /\ conns[d].p = p /\ conns[d].st \in {"open", "closed"})
          BY <1>2, <1>4, <4>1 DEF Inv, PoolInv
        <4> QED BY <2>4, <4>2
      <3> QED BY <3>1, <3>2
    <2>14. OneConnection'
      <3> SUFFICES ASSUME NEW d \in 1..Len(conns), conns'[d].st = "open"
                   PROVE  pool'[conns'[d].t][conns'[d].p] = d
        BY <2>4 DEF OneConnection
      <3>1. CASE d = c
        BY <1>3, <2>2, <2>4, <2>7, <3>1
      <3>2. CASE d # c
        <4>1. conns'[d] = conns[d] /\ pool[conns[d].t][conns[d].p] = d /\ conns[d] \in Conn /\ d # 0
          BY <1>4, <2>4, <3>2, ConnFacts DEF Inv, OneConnection
        <4>2. conns[d].t \in Transports /\ conns[d].p \in Peers
              /\ ~ (conns[d].t = T(r) /\ conns[d].p = P(r))
          BY <1>3, <4>1 DEF Conn
        <4> QED BY <2>7, <4>1, <4>2
      <3> QED BY <3>1, <3>2
    <2>15. CallTrue(r)'
      <3>1. RouteTrue(r)'
        BY <1>2, <1>3, <2>9, <2>12 DEF CallTrue, RouteTrue
      <3> QED BY <1>3, <1>4, <2>2, <2>4, <2>9, <2>12, <3>1 DEF CallTrue, Pcs
    <2>16. RetryTrue(r)' /\ CauseTrue(r)'
      <3>1. ASSUME Undisturbed(r)' PROVE Alive(c)'
        <4>1. Undisturbed(r)
          BY <1>2, <2>9, <2>12, <3>1 DEF Undisturbed
        <4>2. Alive(c)
          BY <1>1, <1>2, <1>3, <4>1 DEF RetryTrue
        <4> QED BY <1>2, <2>2, <2>4, <4>2 DEF Alive
      <3>2. CauseTrue(r)'
        BY <2>9 DEF CauseTrue
      <3> QED BY <2>9, <3>1, <3>2 DEF RetryTrue, Alive
    <2> QED BY <2>9, <2>10, <2>11, <2>13, <2>14, <2>15, <2>16, Together
  <1> QED BY <1>1, <1>5, <1>6 DEF greeted

\* Whoever evicts holds the pool, so nobody else is dialing.
LEMMA EvictKeeps == ASSUME Inv, NEW r \in Calls, evict(r) PROVE Inv'
  <1>1. /\ CallTrue(r) /\ P(r) \in Peers /\ call[r].pc = "evict" /\ Holds(r)
        /\ call[r].route = "web" /\ T(r) = "daemon" /\ r \in DOMAIN sc.calls
    BY CallFacts DEF evict, CallTrue, RouteTrue, T
  <1>2. PICK c : c = pool["daemon"][P(r)]
    OBVIOUS
  <1>3. /\ UNCHANGED <<sc, daemon, peers, trouble>> /\ LaneInv' /\ conns' = Close(c)
        /\ pool' = [pool EXCEPT !["daemon"][P(r)] = 0]
        /\ call' = [call EXCEPT ![r].pc = "lock", ![r].try = 2]
        /\ lock' = [lock EXCEPT !["daemon"] = Append(Tail(@), r)]
        /\ blame' = (blame \ {r}) \cup (IF c = 0 THEN {} ELSE Users(c))
    BY <1>2, SameLanes DEF evict, Calling, World
  <1>4. PICK m : m = [call[r] EXCEPT !.pc = "lock", !.try = 2]
    OBVIOUS
  <1>5. call' = [call EXCEPT ![r] = m] /\ IsCall(m) /\ m.pc = "lock" /\ m.conn = call[r].conn
        /\ m.route = call[r].route
    BY <1>1, <1>3, <1>4 DEF CallTrue, IsCall, Inv, ShapeInv
  <1>6. DOMAIN call' = Calls /\ call'[r] = m /\ \A q \in Calls \ {r} : call'[q] = call[q]
    BY <1>5, CallPut
  <1>7. lock' \in [Transports -> Seq(Calls)] /\ Locks(r)
    <2>1. lock \in [Transports -> Seq(Calls)] /\ lock["daemon"] # <<>> /\ Head(lock["daemon"]) = r
      BY <1>1 DEF Inv, ShapeInv, Holds
    <2>2. Append(Tail(lock["daemon"]), r) \in Seq(Calls)
      BY <2>1, DaemonTransport, TailSeq, HeadAppend
    <2> QED BY <1>3, <2>1, <2>2, DaemonTransport DEF Locks
  <1>8. /\ pool' \in [Transports -> [Peers -> Nat]]
        /\ \A t \in Transports, p \in Peers :
             pool'[t][p] = IF t = "daemon" /\ p = P(r) THEN 0 ELSE pool[t][p]
    BY <1>1, <1>3, DaemonTransport DEF Inv, ShapeInv
  <1>9. conns \in Seq(Conn) /\ Len(conns) \in Nat /\ blame \subseteq Calls
    BY ConnFacts DEF Inv, ShapeInv
  <1>10. c # 0 => c \in 1..Len(conns) /\ conns[c].st \in {"open", "closed"}
    BY <1>1, <1>2, DaemonTransport DEF Inv, PoolInv
  <1>11. /\ conns' \in Seq(Conn) /\ Len(conns') = Len(conns)
         /\ \A d \in 1..Len(conns) :
              /\ conns'[d].t = conns[d].t /\ conns'[d].p = conns[d].p /\ conns'[d].gen = conns[d].gen
              /\ conns'[d].st = IF d = c THEN "closed" ELSE conns[d].st
    <2>1. CASE c = 0
      BY <1>3, <1>9, <2>1 DEF Close
    <2>2. CASE c # 0
      BY <1>3, <1>10, <2>2, CloseFacts
    <2> QED BY <2>1, <2>2
  <1>12. Changes({c}) /\ Pools(r)
    BY <1>8, <1>9, <1>10, <1>11 DEF Changes, Pools
  <1>13. Apart(r, {c})
    BY <1>10, CallFacts DEF Apart, CallTrue
  <1>14. Alone(r, {c})
    BY <1>3, <1>6, <1>7, <1>12, <1>13 DEF Alone
  <1>15. Blamed(r, {c}) /\ blame' \subseteq Calls
    BY <1>3, <1>9 DEF Blamed, Users
  <1>16. PoolInv' /\ OneConnection'
    <2>1. ASSUME NEW d \in 1..Len(conns), conns'[d].st = "open"
          PROVE  /\ conns[d].st = "open"
                 /\ pool'[conns[d].t][conns[d].p] = pool[conns[d].t][conns[d].p]
      <3>1. d # c /\ conns[d].st = "open" /\ conns[d] \in Conn
        BY <1>11, <2>1, ConnFacts
      <3>2. pool[conns[d].t][conns[d].p] = d
        BY <3>1, ConnFacts DEF Inv, OneConnection
      <3> QED BY <1>2, <1>8, <3>1, <3>2 DEF Conn
    <2> QED BY <1>8, <1>11, <1>12, <2>1, PoolsKeep
  <1>17. ShapeInv'
    BY <1>3, <1>6, <1>7, <1>8, <1>11, <1>15 DEF Inv, ShapeInv
  <1>18. Cfg(r)' = Cfg(r) /\ P(r)' = P(r)
    BY <1>3 DEF Cfg, P
  <1>19. CallTrue(r)'
    <2>1. RouteTrue(r)'
      BY <1>1, <1>3, <1>5, <1>6, <1>18 DEF CallTrue, RouteTrue
    <2> QED BY <1>1, <1>5, <1>6, <1>11, <2>1 DEF CallTrue, Pcs
  <1>20. RetryTrue(r)'
    <2>1. pool'["daemon"][P(r)] = 0
      BY <1>1, <1>8, DaemonTransport
    <2>2. ASSUME NEW q \in Calls, call'[q].pc = "greet", T(q)' = "daemon" PROVE FALSE
      <3>1. q # r /\ call'[q] = call[q]
        BY <1>5, <1>6, <2>2
      <3>2. T(q) = "daemon" /\ call[q].pc = "greet"
        BY <2>2, <3>1 DEF T
      <3> QED BY <1>1, <3>1, <3>2, OneDials
    <2> QED BY <1>5, <1>6, <1>18, <2>1, <2>2 DEF RetryTrue
  <1>21. CauseTrue(r)' /\ call'[r].pc # "greet"
    BY <1>5, <1>6 DEF CauseTrue
  <1> QED BY <1>3, <1>14, <1>15, <1>16, <1>17, <1>19, <1>20, <1>21, Together

\* Connections that change by themselves.
LEMMA ConnStep ==
  ASSUME Inv, NEW D, Changes(D), Len(conns') = Len(conns), Apart("daemon", D), Blamed("daemon", D),
         blame' \subseteq Calls, trouble' \in Nat,
         UNCHANGED <<sc, daemon, peers, pool, lock, call, lane, queue, gate>>,
         \A c \in 1..Len(conns) : conns'[c].st = "open" => conns[c].st = "open"
  PROVE  Inv'
  <1>1. Locks("daemon") /\ Pools("daemon")
    BY LocksKept DEF Pools
  <1>2. Alone("daemon", D)
    BY <1>1 DEF Alone
  <1>3. pool' \in [Transports -> [Peers -> Nat]]
    BY DEF Inv, ShapeInv
  <1>4. PoolInv' /\ OneConnection'
    BY <1>3, PoolsKeep
  <1>5. ShapeInv' /\ LaneInv'
    BY SameLanes DEF Inv, ShapeInv, Changes
  <1> QED BY <1>2, <1>4, <1>5, NamesAssumption, Together

LEMMA AcceptKeeps == ASSUME Inv, NEW c \in DOMAIN conns, accept(c) PROVE Inv'
  <1>1. PICK st \in {"greeted", "refused"} : conns' = [conns EXCEPT ![c].st = st]
    BY DEF accept
  <1>2. /\ conns[c].st = "hello"
        /\ UNCHANGED <<sc, daemon, peers, trouble, pool, lock, call, blame, lane, queue, gate>>
    BY DEF accept, Calling, World
  <1>3. conns \in Seq(Conn) /\ Len(conns) \in Nat /\ c \in 1..Len(conns) /\ conns[c] \in Conn
        /\ blame \subseteq Calls /\ trouble \in Nat
    BY ConnFacts DEF Inv, ShapeInv
  <1>4. PICK k : k = [conns[c] EXCEPT !.st = st]
    OBVIOUS
  <1>5. k \in Conn /\ k.t = conns[c].t /\ k.p = conns[c].p /\ k.gen = conns[c].gen /\ k.st = st
    BY <1>1, <1>3, <1>4 DEF Conn
  <1>6. conns' = [conns EXCEPT ![c] = k]
    BY <1>1, <1>3, <1>4
  <1>7. /\ conns' \in Seq(Conn) /\ Len(conns') = Len(conns) /\ conns'[c] = k
        /\ \A d \in 1..Len(conns) : d # c => conns'[d] = conns[d]
    BY <1>3, <1>5, <1>6
  <1>8. Changes({})
    BY <1>1, <1>2, <1>3, <1>5, <1>7 DEF Changes
  <1>9. Apart("daemon", {}) /\ Blamed("daemon", {})
    BY <1>2 DEF Apart, Blamed
  <1>10. \A d \in 1..Len(conns) : conns'[d].st = "open" => conns[d].st = "open"
    BY <1>1, <1>5, <1>7
  <1> QED BY <1>2, <1>3, <1>7, <1>8, <1>9, <1>10, ConnStep

\* A connection that was in use ends.
LEMMA OpenCloses ==
  ASSUME Inv, NEW c \in DOMAIN conns, conns[c].st = "open", conns' = Close(c),
         Users(c) \subseteq blame' \/ ~ Alive(c), blame \subseteq blame', blame' \subseteq Calls,
         trouble' \in Nat, UNCHANGED <<sc, daemon, peers, pool, lock, call, lane, queue, gate>>
  PROVE  Inv'
  <1>1. c \in 1..Len(conns) /\ Len(conns) \in Nat
    BY ConnFacts
  <1>2. /\ conns' \in Seq(Conn) /\ Len(conns') = Len(conns) /\ conns'[c].st = "closed"
        /\ \A d \in 1..Len(conns) :
              /\ conns'[d].t = conns[d].t /\ conns'[d].p = conns[d].p
              /\ conns'[d].gen = conns[d].gen /\ (d # c => conns'[d] = conns[d])
    BY <1>1, CloseFacts
  <1>3. Changes({c})
    BY <1>1, <1>2 DEF Changes
  <1>4. Apart("daemon", {c})
    BY CallFacts DEF Apart, CallTrue
  <1>5. Blamed("daemon", {c})
    BY DEF Blamed
  <1> QED BY <1>2, <1>3, <1>4, <1>5, ConnStep

LEMMA IdleKeeps == ASSUME Inv, NEW c \in DOMAIN conns, IdleTimeout(c) PROVE Inv'
  <1>1. blame \subseteq Calls /\ trouble \in Nat
    BY DEF Inv, ShapeInv
  <1> QED BY <1>1, OpenCloses DEF IdleTimeout, Pooling, Peering, World

LEMMA LostKeeps == ASSUME Inv, NEW c \in DOMAIN conns, Lost(c) PROVE Inv'
  <1>1. blame \subseteq Calls /\ trouble \in Nat /\ Users(c) \subseteq Calls
    BY DEF Inv, ShapeInv, Users
  <1>2. trouble' \in Nat
    BY <1>1 DEF Lost, Troubled
  <1> QED BY <1>1, <1>2, OpenCloses DEF Lost, Pooling, Peering

-----------------------------------------------------------------------------
(* The stream *)

\* A command ends with its endpoint.
LEMMA CloseOwn ==
  ASSUME Inv, NEW r \in Calls, call[r].pc \in {"read", "relay"}, call[r].route = "own",
         conns' = Close(call[r].conn), pool' = pool, blame \subseteq blame'
  PROVE  /\ Changes({call[r].conn}) /\ Apart(r, {call[r].conn}) /\ Pools(r)
         /\ PoolInv' /\ OneConnection' /\ conns' \in Seq(Conn) /\ Len(conns') = Len(conns)
         /\ Blamed(r, {call[r].conn})
  <1>1. PICK c : c = call[r].conn
    OBVIOUS
  <1>2. CallTrue(r) /\ c \in 1..Len(conns) /\ conns[c].st \in {"open", "closed"} /\ conns[c].t # "daemon"
    BY <1>1, CallFacts, NamesAssumption DEF CallTrue, T
  <1>3. /\ conns' \in Seq(Conn) /\ Len(conns') = Len(conns) /\ conns'[c].st = "closed"
        /\ \A d \in 1..Len(conns) :
              /\ conns'[d].t = conns[d].t /\ conns'[d].p = conns[d].p
              /\ conns'[d].gen = conns[d].gen /\ (d # c => conns'[d] = conns[d])
    BY <1>1, <1>2, CloseFacts
  <1>4. Changes({c})
    BY <1>2, <1>3, ConnFacts DEF Changes
  <1>5. Apart(r, {c})
    BY <1>2, CallFacts DEF Apart, CallTrue
  <1>6. PoolInv' /\ OneConnection' /\ Pools(r)
    <2>1. \A d \in 1..Len(conns') : conns'[d].st = "open" =>
            d \in 1..Len(conns) /\ conns[d].st = "open"
      BY <1>2, <1>3
    <2>2. pool' \in [Transports -> [Peers -> Nat]]
      BY DEF Inv, ShapeInv
    <2> QED BY <1>4, <2>1, <2>2, PoolsKeep DEF Pools
  <1>7. Blamed(r, {c})
    BY <1>2 DEF Blamed
  <1> QED BY <1>1, <1>3, <1>4, <1>5, <1>6, <1>7

\* A call goes on with its stream, or ends it.
Goes(r) ==
  /\ DOMAIN call' = Calls /\ \A q \in Calls \ {r} : call'[q] = call[q]
  /\ IsCall(call'[r]) /\ call'[r].pc \in {"read", "relay", "left", "done"}
  /\ call'[r].route = call[r].route /\ call'[r].try = call[r].try /\ call'[r].conn = call[r].conn

LEMMA StreamStep ==
  ASSUME Inv, NEW r \in Calls, call[r].pc \in {"send", "read", "relay"}, Goes(r),
         \/ conns' = conns
         \/ /\ call[r].pc # "send" /\ call[r].route = "own" /\ conns' = Close(call[r].conn),
         UNCHANGED <<sc, daemon, peers, trouble, pool, lock, blame, lane, queue, gate>>,
         call'[r].pc = "read" => call[r].pc # "relay" \/ call[r].route # "web",
         call'[r].pc = "done" /\ Cfg(r).via = "web" => call'[r].res \notin {"error", "dial"}
  PROVE  Inv'
  <1>1. CallTrue(r) /\ RetryTrue(r) /\ blame \subseteq Calls
    BY CallFacts DEF Inv, ShapeInv
  <1>2. PICK D : /\ Changes(D) /\ Apart(r, D) /\ Pools(r) /\ PoolInv' /\ OneConnection'
                 /\ conns' \in Seq(Conn) /\ Len(conns') = Len(conns) /\ Blamed(r, D)
    <2>1. CASE conns' = conns
      <3>1. Changes({}) /\ Pools(r) /\ PoolInv' /\ OneConnection' /\ Blamed(r, {}) /\ Apart(r, {})
        BY <2>1, SameConns, SamePool DEF Blamed, Apart
      <3> QED BY <2>1, <3>1 DEF Inv, ShapeInv
    <2>2. CASE call[r].pc # "send" /\ call[r].route = "own" /\ conns' = Close(call[r].conn)
      BY <2>2, CloseOwn
    <2> QED BY <2>1, <2>2
  <1>3. Alone(r, D) /\ ShapeInv' /\ LaneInv'
    BY <1>2, LocksKept, SameLanes DEF Alone, Goes, Inv, ShapeInv
  <1>4. Cfg(r)' = Cfg(r) /\ T(r)' = T(r) /\ P(r)' = P(r)
    BY DEF Goes, Cfg, T, P
  <1>5. PICK c : c = call[r].conn
    OBVIOUS
  <1>6. c \in 1..Len(conns) /\ conns[c].t = T(r) /\ conns[c].p = P(r)
        /\ conns[c].st \in {"open", "closed"}
    BY <1>1, <1>5 DEF CallTrue
  <1>7. conns'[c].t = T(r) /\ conns'[c].p = P(r) /\ conns'[c].st \in {"open", "closed"}
    BY <1>2, <1>6 DEF Changes
  <1>8. CallTrue(r)'
    <2>1. RouteTrue(r)'
      BY <1>1, <1>4 DEF CallTrue, RouteTrue, Goes
    <2> QED BY <1>2, <1>4, <1>5, <1>6, <1>7, <2>1, ConnFacts DEF CallTrue, Goes, Pcs
  <1>9. RetryTrue(r)'
    <2> SUFFICES ASSUME Undisturbed(r)', call'[r].pc = "read" PROVE Alive(c)'
      BY <1>5 DEF RetryTrue, Goes, Alive
    <2>1. Undisturbed(r)
      BY <1>4 DEF Undisturbed, Goes
    <2>2. call[r].route = "web"
      BY <1>1, <2>1 DEF CallTrue, RouteTrue, Undisturbed
    <2>3. conns' = conns /\ call[r].pc \in {"send", "read"}
      BY <2>2
    <2>4. Alive(c)
      BY <1>1, <1>5, <2>1, <2>3 DEF RetryTrue
    <2> QED BY <2>3, <2>4 DEF Alive
  <1>10. CauseTrue(r)' /\ call'[r].pc # "greet"
    BY <1>4 DEF CauseTrue, Goes
  <1> QED BY <1>2, <1>3, <1>8, <1>9, <1>10, Together

\* An attempt that fails on a connection it had.
LEMMA AttemptFails ==
  ASSUME Inv, NEW r \in Calls, call[r].pc \in {"send", "read"}, Failed(r, "error", lock),
         UNCHANGED <<sc, daemon, peers, trouble, conns, pool, lane, queue, gate>>,
         blame \subseteq blame', blame' \subseteq Calls,
         Tunnelled(r) \/ conns[call[r].conn].st = "closed" \/ r \in blame'
  PROVE  Inv'
  <1>1. CallTrue(r) /\ RetryTrue(r) /\ lock \in [Transports -> Seq(Calls)]
    BY CallFacts DEF Inv, ShapeInv
  <1>2. Cfg(r).via = "web" /\ call[r].try # 1 => r \in blame'
    BY <1>1 DEF RetryTrue, Undisturbed, Alive, CallTrue, RouteTrue, Tunnelled
  <1>3. /\ DOMAIN call' = Calls /\ \A q \in Calls \ {r} : call'[q] = call[q]
        /\ CallTrue(r)' /\ RetryTrue(r)' /\ CauseTrue(r)' /\ call'[r].pc # "greet"
        /\ lock' \in [Transports -> Seq(Calls)] /\ Locks(r)
    BY <1>1, <1>2, FailedTrue, ConnFacts
  <1> QED BY <1>3, SameLanes, CallOnly

\* What a call may have become, of the function f of all calls.
Became(f, r) ==
  /\ DOMAIN f = Calls /\ \A q \in Calls \ {r} : f[q] = call[q]
  /\ IsCall(f[r]) /\ f[r].pc \in {call[r].pc, "relay", "done"}
  /\ f[r].route = call[r].route /\ f[r].try = call[r].try /\ f[r].conn = call[r].conn

LEMMA TookBecame ==
  ASSUME Inv, NEW r \in Calls, NEW o
  PROVE  Became(Took(r, o), r) /\ Took(r, o)[r].pc = call[r].pc
  <1>1. DOMAIN call = Calls /\ IsCall(call[r])
    BY CallFacts DEF CallTrue, Inv, ShapeInv
  <1>2. PICK m : m = [call[r] EXCEPT !.got = Append(@, o)]
    OBVIOUS
  <1>3. Took(r, o) = [call EXCEPT ![r] = m]
    BY <1>1, <1>2 DEF Took
  <1>4. IsCall(m) /\ m.pc = call[r].pc /\ m.route = call[r].route /\ m.try = call[r].try
        /\ m.conn = call[r].conn
    BY <1>1, <1>2 DEF IsCall
  <1>5. Took(r, o)[r] = m /\ DOMAIN Took(r, o) = Calls
        /\ \A q \in Calls \ {r} : Took(r, o)[q] = call[q]
    BY <1>1, <1>3
  <1> QED BY <1>4, <1>5 DEF Became

LEMMA ReaderBecame ==
  ASSUME NEW r \in Calls, NEW f, Became(f, r), NEW v
  PROVE  Became([f EXCEPT ![r].reader = v], r) /\ [f EXCEPT ![r].reader = v][r].pc = f[r].pc
  <1>1. DOMAIN f = Calls /\ IsCall(f[r])
    BY DEF Became
  <1>2. PICK m : m = [f[r] EXCEPT !.reader = v]
    OBVIOUS
  <1>3. PICK g : g = [f EXCEPT ![r].reader = v]
    OBVIOUS
  <1>4. g = [f EXCEPT ![r] = m]
    BY <1>1, <1>2, <1>3
  <1>5. IsCall(m) /\ m.pc = f[r].pc /\ m.route = f[r].route /\ m.try = f[r].try /\ m.conn = f[r].conn
    BY <1>1, <1>2 DEF IsCall
  <1>6. g[r] = m /\ DOMAIN g = Calls /\ \A q \in Calls \ {r} : g[q] = f[q]
    BY <1>1, <1>4
  <1> QED BY <1>3, <1>5, <1>6 DEF Became

LEMMA EndsBecame ==
  ASSUME Inv, NEW r \in Calls, NEW o, NEW res PROVE Became(Ends(r, o, res), r)
  <1>1. PICK f : f = Took(r, o)
    OBVIOUS
  <1>2. Became(f, r)
    BY <1>1, TookBecame
  <1>3. DOMAIN f = Calls /\ IsCall(f[r])
    BY <1>2 DEF Became
  <1>4. PICK m : m = [f[r] EXCEPT !.pc = "done", !.res = res]
    OBVIOUS
  <1>5. Ends(r, o, res) = [f EXCEPT ![r] = m]
    BY <1>1, <1>3, <1>4 DEF Ends
  <1>6. IsCall(m) /\ m.pc = "done" /\ m.route = f[r].route /\ m.try = f[r].try /\ m.conn = f[r].conn
    BY <1>3, <1>4 DEF IsCall
  <1>7. PICK g : g = Ends(r, o, res)
    OBVIOUS
  <1>8. g[r] = m /\ DOMAIN g = Calls /\ \A q \in Calls \ {r} : g[q] = f[q]
    BY <1>3, <1>5, <1>7
  <1>9. Became(g, r)
    BY <1>2, <1>6, <1>8 DEF Became
  <1> QED BY <1>7, <1>9

LEMMA RelayBecame ==
  ASSUME Inv, NEW r \in Calls, NEW o PROVE Became(Relay(r, o), r) /\ Relay(r, o)[r].pc = "relay"
  <1>1. PICK f : f = Took(r, IF Streams(r) THEN Raw ELSE o)
    OBVIOUS
  <1>2. Became(f, r)
    BY <1>1, TookBecame
  <1>3. DOMAIN f = Calls /\ IsCall(f[r])
    BY <1>2 DEF Became
  <1>4. PICK m : m = [f[r] EXCEPT !.pc = "relay"]
    OBVIOUS
  <1>5. Relay(r, o) = [f EXCEPT ![r] = m]
    BY <1>1, <1>3, <1>4 DEF Relay
  <1>6. IsCall(m) /\ m.pc = "relay" /\ m.route = f[r].route /\ m.try = f[r].try /\ m.conn = f[r].conn
    BY <1>3, <1>4 DEF IsCall
  <1>7. PICK g : g = Relay(r, o)
    OBVIOUS
  <1>8. g[r] = m /\ DOMAIN g = Calls /\ \A q \in Calls \ {r} : g[q] = f[q]
    BY <1>3, <1>5, <1>7
  <1>9. Became(g, r) /\ g[r].pc = "relay"
    BY <1>2, <1>6, <1>8 DEF Became
  <1> QED BY <1>7, <1>9

LEMMA FollowBecame ==
  ASSUME Inv, NEW r \in Calls, NEW o, NEW bad PROVE Became(Follow(r, o, bad), r)
  <1>1. Became(Ends(r, o, "error"), r) /\ Became(Took(r, o), r)
    BY EndsBecame, TookBecame
  <1>2. Became([Took(r, o) EXCEPT ![r].reader = ResponseReader(call[r].reader, o)], r)
    BY <1>1, ReaderBecame
  <1> QED BY <1>1, <1>2 DEF Follow

LEMMA VibrationBecame ==
  ASSUME Inv, NEW r \in Calls, NEW o PROVE Became(TakeVibration(r, o), r)
  <1>1. Became(Ends(r, o, "error"), r) /\ Became(Ends(r, o, "ok"), r) /\ Became(Took(r, o), r)
    BY EndsBecame, TookBecame
  <1>2. Became([Took(r, o) EXCEPT ![r].reader = EntrainmentReader(call[r].reader, o)], r)
    BY <1>1, ReaderBecame
  <1> QED BY <1>1, <1>2 DEF TakeVibration

LEMMA MediaBecame ==
  ASSUME Inv, NEW r \in Calls, NEW o PROVE Became(TakeMedia(r, o), r)
  <1>1. Became(Ends(r, o, "error"), r) /\ Became(Ends(r, o, "ok"), r) /\ Became(Took(r, o), r)
        /\ Became(Took(r, Raw), r)
    BY EndsBecame, TookBecame
  <1>2. Became([Took(r, o) EXCEPT ![r].reader.st = "raw"], r)
    <2>1. PICK f : f = Took(r, o)
      OBVIOUS
    <2>2. PICK v : v = [f[r].reader EXCEPT !.st = "raw"]
      OBVIOUS
    <2>3. [f EXCEPT ![r].reader.st = "raw"] = [f EXCEPT ![r].reader = v]
      BY <2>2
    <2>4. Became([f EXCEPT ![r].reader = v], r)
      BY <1>1, <2>1, ReaderBecame
    <2> QED BY <2>1, <2>3, <2>4
  <1>3. \/ TakeMedia(r, o) = Took(r, Raw)
        \/ TakeMedia(r, o) = [Took(r, o) EXCEPT ![r].reader.st = "raw"]
        \/ TakeMedia(r, o) = Ends(r, o, "ok")
        \/ TakeMedia(r, o) = Ends(r, o, "error")
    BY DEF TakeMedia
  <1> QED BY <1>1, <1>2, <1>3

\* A frame changes nothing but what its call has read, and whether it is over;
\* the relay goes on.
LEMMA TakeBecame ==
  ASSUME Inv, NEW r \in Calls, NEW o
  PROVE  /\ Became(Take(r, o), r)
         /\ call[r].route = "web" => Take(r, o)[r].pc = "relay"
  <1>1. CASE call[r].route = "web"
    <2>1. Take(r, o) = Relay(r, o)
      BY <1>1 DEF Take
    <2> QED BY <2>1, RelayBecame
  <1>2. CASE call[r].route # "web"
    <2>1. /\ Became(TakeVibration(r, o), r) /\ Became(TakeMedia(r, o), r)
          /\ Became(TakeDecision(r, o), r) /\ Became(TakeProjection(r, o), r)
          /\ Became(TakeHelp(r, o), r) /\ Became(TakePages(r, o), r)
          /\ Became(TakeResponse(r, o), r)
      BY VibrationBecame, MediaBecame, EndsBecame, FollowBecame
         DEF TakeDecision, TakeProjection, TakeHelp, TakePages, TakeResponse
    <2>2. Take(r, o) \in {TakeVibration(r, o), TakeMedia(r, o), TakeDecision(r, o),
                          TakeProjection(r, o), TakeHelp(r, o), TakePages(r, o),
                          TakeResponse(r, o)}
      BY <1>2, Zenon DEF Take
    <2> QED BY <1>2, <2>1, <2>2
  <1> QED BY <1>1, <1>2

LEMMA SendKeeps == ASSUME Inv, NEW r \in Calls, send(r) PROVE Inv'
  <1>1. /\ call[r].pc = "send"
        /\ UNCHANGED <<sc, daemon, peers, trouble, conns, pool, blame, lane, queue, gate>>
    BY DEF send, Peering, World
  <1>2. CallTrue(r) /\ DOMAIN call = Calls /\ blame \subseteq Calls
    BY CallFacts DEF Inv, ShapeInv
  <1>3. CASE /\ IF Tunnelled(r) THEN daemon = "down" ELSE conns[call[r].conn].st = "closed"
             /\ Failed(r, "error", lock)
    BY <1>1, <1>2, <1>3, AttemptFails
  <1>4. CASE call' = [call EXCEPT ![r].pc = "read"] /\ lock' = lock
    <2>1. PICK m : m = [call[r] EXCEPT !.pc = "read"]
      OBVIOUS
    <2>2. call' = [call EXCEPT ![r] = m] /\ IsCall(m) /\ m.pc = "read" /\ m.conn = call[r].conn
          /\ m.route = call[r].route /\ m.try = call[r].try
      BY <1>2, <1>4, <2>1 DEF CallTrue, IsCall
    <2>3. Goes(r)
      BY <2>2, CallPut DEF Goes
    <2>4. call'[r].pc = "read"
      BY <2>2, CallPut
    <2> QED BY <1>1, <1>4, <2>3, <2>4, StreamStep
  <1> QED BY <1>3, <1>4 DEF send

\* The end of a call that has no more to read.
LEMMA EndsGoes ==
  ASSUME Inv, NEW r \in Calls, NEW pc \in {"left", "done"}, NEW res,
         \/ call' = [call EXCEPT ![r].pc = pc, ![r].res = res]
         \/ call' = [call EXCEPT ![r].pc = pc] /\ res = call[r].res
  PROVE  Goes(r) /\ call'[r].pc = pc /\ call'[r].res = res
  <1>1. CallTrue(r) /\ DOMAIN call = Calls
    BY CallFacts DEF Inv, ShapeInv
  <1>2. PICK m : m = [call[r] EXCEPT !.pc = pc, !.res = res]
    OBVIOUS
  <1>3. call' = [call EXCEPT ![r] = m]
    BY <1>1, <1>2 DEF CallTrue, IsCall
  <1>4. IsCall(m) /\ m.pc = pc /\ m.res = res /\ m.conn = call[r].conn
        /\ m.route = call[r].route /\ m.try = call[r].try
    BY <1>1, <1>2 DEF CallTrue, IsCall
  <1> QED BY <1>3, <1>4, CallPut DEF Goes

LEMMA WebRoute ==
  ASSUME Inv, NEW r \in Calls, call[r].pc \notin {"start", "done"}
  PROVE  (Cfg(r).via = "web") = (call[r].route = "web")
  BY CallFacts DEF CallTrue, RouteTrue

LEMMA RecvErrorKeeps == ASSUME Inv, NEW r \in Calls, recv_error(r) PROVE Inv'
  <1>1. /\ call[r].pc \in {"read", "relay"} /\ ~ Tunnelled(r)
        /\ conns[call[r].conn].st = "closed" /\ Broken(r)
        /\ UNCHANGED <<sc, daemon, peers, trouble, conns, pool, blame, lane, queue, gate>>
    BY DEF recv_error, Peering, World
  <1>2. blame \subseteq Calls
    BY DEF Inv, ShapeInv
  <1>3. CASE call[r].pc = "read"
    <2>1. Failed(r, "error", lock)
      BY <1>1, <1>3 DEF Broken
    <2> QED BY <1>1, <1>2, <1>3, <2>1, AttemptFails
  <1>4. CASE call[r].pc = "relay"
    <2>1. call' = [call EXCEPT ![r].pc = "done", ![r].res = "body"] /\ lock' = lock
      BY <1>1, <1>4 DEF Broken
    <2>2. Goes(r) /\ call'[r].pc = "done" /\ call'[r].res = "body"
      BY <2>1, EndsGoes
    <2> QED BY <1>1, <1>4, <2>1, <2>2, StreamStep
  <1> QED BY <1>1, <1>3, <1>4

LEMMA FinishKeeps == ASSUME Inv, NEW r \in Calls, finish(r) PROVE Inv'
  <1>1. PICK res : res = IF decode_frame_eof(r) THEN "error" ELSE AtEnd(r)
    OBVIOUS
  <1>2. /\ call[r].pc \in {"read", "relay"} /\ conns' = Closes(r, call')
        /\ call' = [call EXCEPT ![r].pc = "done", ![r].res = res]
        /\ UNCHANGED <<sc, daemon, peers, trouble, pool, lock, blame, lane, queue, gate>>
    BY <1>1 DEF finish, Pooling, Peering, World
  <1>3. Goes(r) /\ call'[r].pc = "done" /\ call'[r].res = res
    BY <1>2, EndsGoes
  <1>4. call[r].route = "web" => res = "body"
    BY <1>1 DEF decode_frame_eof, Tunnelled, AtEnd
  <1>5. conns' = conns \/ (call[r].route = "own" /\ conns' = Close(call[r].conn))
    BY <1>2 DEF Closes
  <1> QED BY <1>2, <1>3, <1>4, <1>5, WebRoute, StreamStep

LEMMA RecvKeeps == ASSUME Inv, NEW r \in Calls, recv(r) PROVE Inv'
  <1>1. /\ call[r].pc \in {"read", "relay"} /\ conns' = Closes(r, call')
        /\ UNCHANGED <<sc, daemon, peers, trouble, pool, lane, queue, gate>>
    BY DEF recv, Peering, World
  <1>2. PICK o : IF o = Malformed /\ call[r].route = "web" /\ ~ Streams(r)
                 THEN Broken(r) /\ blame' = blame \cup {r}
                 ELSE call' = Take(r, o) /\ UNCHANGED <<lock, blame>>
    BY DEF recv
  <1>3. blame \subseteq Calls /\ CallTrue(r)
    BY CallFacts DEF Inv, ShapeInv
  <1>4. CASE Broken(r) /\ blame' = blame \cup {r} /\ call[r].route = "web"
    <2>1. conns' = conns
      BY <1>1, <1>4 DEF Closes
    <2>2. CASE call[r].pc = "read"
      <3>1. Failed(r, "error", lock)
        BY <1>4, <2>2 DEF Broken
      <3> QED BY <1>1, <1>3, <1>4, <2>1, <2>2, <3>1, AttemptFails
    <2>3. CASE call[r].pc = "relay"
      <3>1. call' = [call EXCEPT ![r].pc = "done", ![r].res = "body"] /\ lock' = lock
        BY <1>4, <2>3 DEF Broken
      <3>2. Goes(r) /\ call'[r].pc = "done" /\ call'[r].res = "body"
        BY <3>1, EndsGoes
      <3>3. CallTrue(r)'
        <4>1. Cfg(r)' = Cfg(r)
          BY <1>1 DEF Cfg
        <4>2. RouteTrue(r)'
          BY <3>2 DEF RouteTrue
        <4> QED BY <1>3, <2>1, <3>2, <4>2 DEF CallTrue, Goes, Pcs
      <3>4. RetryTrue(r)' /\ CauseTrue(r)'
        BY <3>2 DEF RetryTrue, Undisturbed, CauseTrue
      <3>5. lock' \in [Transports -> Seq(Calls)] /\ Locks(r)
        BY <3>1, LocksKept DEF Inv, ShapeInv
      <3> QED BY <1>1, <1>3, <1>4, <2>1, <3>2, <3>3, <3>4, <3>5, SameLanes, CallOnly DEF Goes
    <2> QED BY <1>1, <2>2, <2>3
  <1>5. CASE call' = Take(r, o) /\ UNCHANGED <<lock, blame>>
    <2>1. Became(call', r) /\ (call[r].route = "web" => call'[r].pc = "relay")
      BY <1>5, TakeBecame
    <2>2. Goes(r)
      BY <1>1, <2>1 DEF Became, Goes
    <2>3. conns' = conns \/ (call[r].route = "own" /\ conns' = Close(call[r].conn))
      BY <1>1 DEF Closes
    <2> QED BY <1>1, <1>5, <2>1, <2>2, <2>3, WebRoute, StreamStep
  <1> QED BY <1>2, <1>4, <1>5

LEMMA DampKeeps == ASSUME Inv, NEW r \in Calls, damp(r) PROVE Inv'
  <1>1. /\ call[r].pc = "read" /\ call' = [call EXCEPT ![r].damped = TRUE]
        /\ UNCHANGED <<sc, daemon, peers, trouble, conns, pool, lock, blame, lane, queue, gate>>
    BY DEF damp, Pooling, Peering, World
  <1>2. CallTrue(r) /\ DOMAIN call = Calls
    BY CallFacts DEF Inv, ShapeInv
  <1>3. PICK m : m = [call[r] EXCEPT !.damped = TRUE]
    OBVIOUS
  <1>4. call' = [call EXCEPT ![r] = m] /\ IsCall(m) /\ m.pc = "read" /\ m.conn = call[r].conn
        /\ m.route = call[r].route /\ m.try = call[r].try
    BY <1>1, <1>2, <1>3 DEF CallTrue, IsCall
  <1>5. Goes(r) /\ call'[r].pc = "read"
    BY <1>4, CallPut DEF Goes
  <1> QED BY <1>1, <1>5, StreamStep

LEMMA LeaveKeeps == ASSUME Inv, NEW r \in Calls, Leave(r) PROVE Inv'
  <1>1. /\ call[r].pc \in {"read", "relay"} /\ call' = [call EXCEPT ![r].pc = "left"]
        /\ conns' = conns \/ (call[r].route = "own" /\ conns' = Close(call[r].conn))
        /\ UNCHANGED <<sc, daemon, peers, trouble, pool, lock, blame, lane, queue, gate>>
    BY DEF Leave, Pooling, Peering, World
  <1>2. Goes(r) /\ call'[r].pc = "left"
    BY <1>1, EndsGoes
  <1> QED BY <1>1, <1>2, StreamStep

-----------------------------------------------------------------------------
(* The peers *)

\* Steps that leave calls and connections alone.
LEMMA Quiet ==
  ASSUME Inv, UNCHANGED <<sc, daemon, peers, trouble, conns, pool, lock, call, blame>>, LaneInv'
  PROVE  Inv'
  <1>1. Changes({}) /\ PoolInv' /\ OneConnection'
    BY SameConns, SamePool
  <1>2. Apart("daemon", {}) /\ Blamed("daemon", {}) /\ Locks("daemon") /\ Pools("daemon")
    BY LocksKept, SamePool DEF Apart, Blamed
  <1>3. Alone("daemon", {}) /\ ShapeInv'
    BY <1>1, <1>2 DEF Alone, Inv, ShapeInv
  <1> QED BY <1>1, <1>2, <1>3, NamesAssumption, Together

LEMMA LanePut ==
  ASSUME Inv, NEW r \in Calls, NEW m, lane' = [lane EXCEPT ![r] = m], IsLane(m),
         m.st \in {"none", "accepted", "routed", "queued", "running", "done"}, UNCHANGED <<queue, gate>>
  PROVE  LaneInv'
  BY DEF Inv, LaneInv

LEMMA LaneFacts ==
  ASSUME Inv, NEW r \in Calls
  PROVE  DOMAIN lane = Calls /\ IsLane(lane[r])
         /\ lane[r].st \in {"none", "accepted", "routed", "queued", "running", "done"}
  BY DEF Inv, LaneInv

LEMMA AcceptBiKeeps == ASSUME Inv, NEW r \in Calls, accept_bi(r) PROVE Inv'
  <1>1. /\ UNCHANGED <<sc, daemon, peers, trouble, conns, pool, lock, call, blame, queue, gate>>
        /\ lane' = [lane EXCEPT ![r].st = "accepted", ![r].mods = Gate(r)]
    BY DEF accept_bi, Calm, Pooling, World
  <1>2. DOMAIN lane = Calls /\ IsLane(lane[r])
    BY LaneFacts
  <1>3. PICK m : m = [lane[r] EXCEPT !.st = "accepted", !.mods = Gate(r)]
    OBVIOUS
  <1>4. IsLane(m) /\ m.st = "accepted" /\ lane' = [lane EXCEPT ![r] = m]
    BY <1>1, <1>2, <1>3 DEF IsLane
  <1> QED BY <1>1, <1>4, LanePut, Quiet

LEMMA RouteKeeps == ASSUME Inv, NEW r \in Calls, route_request(r) PROVE Inv'
  <1>1. UNCHANGED <<sc, daemon, peers, trouble, conns, pool, lock, call, blame, queue, gate>>
    BY DEF route_request, Calm, Pooling, World
  <1>2. PICK err : \/ lane' = [lane EXCEPT ![r].st = "done", ![r].sent = <<err>>]
                   \/ lane' = [lane EXCEPT ![r].st = "routed"]
    BY DEF route_request
  <1>3. DOMAIN lane = Calls /\ IsLane(lane[r])
    BY LaneFacts
  <1>4. PICK m : /\ IsLane(m) /\ m.st \in {"done", "routed"} /\ lane' = [lane EXCEPT ![r] = m]
    <2>1. CASE lane' = [lane EXCEPT ![r].st = "done", ![r].sent = <<err>>]
      <3>1. PICK m : m = [lane[r] EXCEPT !.st = "done", !.sent = <<err>>]
        OBVIOUS
      <3>2. IsLane(m) /\ m.st = "done" /\ lane' = [lane EXCEPT ![r] = m]
        BY <1>3, <2>1, <3>1 DEF IsLane
      <3> QED BY <3>2
    <2>2. CASE lane' = [lane EXCEPT ![r].st = "routed"]
      <3>1. PICK m : m = [lane[r] EXCEPT !.st = "routed"]
        OBVIOUS
      <3>2. IsLane(m) /\ m.st = "routed" /\ lane' = [lane EXCEPT ![r] = m]
        BY <1>3, <2>2, <3>1 DEF IsLane
      <3> QED BY <3>2
    <2> QED BY <1>2, <2>1, <2>2
  <1> QED BY <1>1, <1>4, LanePut, Quiet

\* A full queue takes no more.
LEMMA IncomingKeeps == ASSUME Inv, NEW r \in Calls, incoming(r) PROVE Inv'
  <1>1. /\ UNCHANGED <<sc, daemon, peers, trouble, conns, pool, lock, call, blame, gate>>
        /\ Len(queue[P(r)]) < QueueMax /\ call[r].pc # "done"
        /\ queue' = [queue EXCEPT ![P(r)] = Append(@, r)]
        /\ lane' = [lane EXCEPT ![r].st = "queued"]
    BY DEF incoming, Reached, Calm, Pooling, World
  <1>2. P(r) \in Peers /\ queue \in [Peers -> Seq(Calls)]
        /\ \A p \in Peers : Len(queue[p]) <= QueueMax
    BY <1>1, CallFacts DEF Inv, LaneInv
  <1>3. PICK s : s = Append(queue[P(r)], r)
    OBVIOUS
  <1>4. s \in Seq(Calls) /\ Len(s) = Len(queue[P(r)]) + 1 /\ Len(queue[P(r)]) \in Nat
    BY <1>2, <1>3
  <1>5. Len(s) <= QueueMax
    BY <1>1, <1>4, QueueAssumption
  <1>6. queue' = [queue EXCEPT ![P(r)] = s]
    BY <1>1, <1>3
  <1>7. queue' \in [Peers -> Seq(Calls)] /\ \A p \in Peers : Len(queue'[p]) <= QueueMax
    BY <1>2, <1>4, <1>5, <1>6
  <1>8. PICK m : m = [lane[r] EXCEPT !.st = "queued"]
    OBVIOUS
  <1>9. DOMAIN lane = Calls /\ IsLane(lane[r])
    BY LaneFacts
  <1>10. IsLane(m) /\ m.st = "queued" /\ lane' = [lane EXCEPT ![r] = m]
    BY <1>1, <1>8, <1>9 DEF IsLane
  <1>11. LaneInv'
    BY <1>1, <1>7, <1>10 DEF Inv, LaneInv
  <1> QED BY <1>1, <1>11, Quiet

LEMMA RunKeeps == ASSUME Inv, NEW p \in Peers, run(p) PROVE Inv'
  <1>1. /\ UNCHANGED <<sc, daemon, peers, trouble, conns, pool, lock, call, blame, gate>>
        /\ queue[p] # <<>> /\ queue' = [queue EXCEPT ![p] = Tail(@)]
    BY DEF run, Calm, Pooling, World
  <1>2. PICK r : r = Head(queue[p])
    OBVIOUS
  <1>3. queue[p] \in Seq(Calls) /\ Len(queue[p]) <= QueueMax
    BY DEF Inv, LaneInv
  <1>4. PICK s : s = Tail(queue[p])
    OBVIOUS
  <1>5. r \in Calls /\ s \in Seq(Calls) /\ Len(s) = Len(queue[p]) - 1 /\ Len(queue[p]) \in Nat
    BY <1>1, <1>2, <1>3, <1>4, TailSeq
  <1>6. Len(s) <= QueueMax
    BY <1>3, <1>5, QueueAssumption
  <1>7. queue' \in [Peers -> Seq(Calls)] /\ \A u \in Peers : Len(queue'[u]) <= QueueMax
    <2>1. queue' = [queue EXCEPT ![p] = s]
      BY <1>1, <1>4
    <2> QED BY <1>5, <1>6, <2>1 DEF Inv, LaneInv
  <1>8. \/ lane' = lane
        \/ lane' = [lane EXCEPT ![r].st = "running", ![r].left = Cfg(r).script]
    BY <1>2 DEF run
  <1>9. PICK m : m = [lane[r] EXCEPT !.st = "running", !.left = Cfg(r).script]
    OBVIOUS
  <1>10. DOMAIN lane = Calls /\ IsLane(m) /\ m.st = "running"
    <2>1. DOMAIN lane = Calls /\ IsLane(lane[r])
      BY <1>5, LaneFacts
    <2> QED BY <1>9, <2>1 DEF IsLane
  <1>11. lane' = lane \/ lane' = [lane EXCEPT ![r] = m]
    BY <1>5, <1>8, <1>9, <1>10
  <1>12. LaneInv'
    BY <1>1, <1>5, <1>7, <1>10, <1>11 DEF Inv, LaneInv
  <1> QED BY <1>1, <1>12, Quiet

\* A lane that goes on, or ends.
LEMMA LaneStep ==
  ASSUME Inv, NEW r \in Calls, lane[r].st = "running" \/ lane'[r].st = "done", NEW sent, NEW left,
         \/ lane' = [lane EXCEPT ![r].st = "done"]
         \/ lane' = [lane EXCEPT ![r].st = "done", ![r].sent = sent]
         \/ lane' = [lane EXCEPT ![r].sent = sent, ![r].left = left]
         \/ lane' = [lane EXCEPT ![r].sent = sent, ![r].left = left, ![r].acked = TRUE],
         UNCHANGED <<sc, daemon, peers, trouble, conns, pool, lock, call, blame, queue, gate>>
  PROVE  Inv'
  <1>1. DOMAIN lane = Calls /\ IsLane(lane[r])
    BY LaneFacts
  <1>2. PICK m : IsLane(m) /\ m.st \in {lane[r].st, "done"} /\ lane' = [lane EXCEPT ![r] = m]
    <2>1. CASE lane' = [lane EXCEPT ![r].st = "done"]
      <3>1. PICK m : m = [lane[r] EXCEPT !.st = "done"]
        OBVIOUS
      <3>2. IsLane(m) /\ m.st \in {lane[r].st, "done"} /\ lane' = [lane EXCEPT ![r] = m]
        BY <1>1, <2>1, <3>1 DEF IsLane
      <3> QED BY <3>2
    <2>2. CASE lane' = [lane EXCEPT ![r].st = "done", ![r].sent = sent]
      <3>1. PICK m : m = [lane[r] EXCEPT !.st = "done", !.sent = sent]
        OBVIOUS
      <3>2. IsLane(m) /\ m.st \in {lane[r].st, "done"} /\ lane' = [lane EXCEPT ![r] = m]
        BY <1>1, <2>2, <3>1 DEF IsLane
      <3> QED BY <3>2
    <2>3. CASE lane' = [lane EXCEPT ![r].sent = sent, ![r].left = left]
      <3>1. PICK m : m = [lane[r] EXCEPT !.sent = sent, !.left = left]
        OBVIOUS
      <3>2. IsLane(m) /\ m.st \in {lane[r].st, "done"} /\ lane' = [lane EXCEPT ![r] = m]
        BY <1>1, <2>3, <3>1 DEF IsLane
      <3> QED BY <3>2
    <2>4. CASE lane' = [lane EXCEPT ![r].sent = sent, ![r].left = left, ![r].acked = TRUE]
      <3>1. PICK m : m = [lane[r] EXCEPT !.sent = sent, !.left = left, !.acked = TRUE]
        OBVIOUS
      <3>2. IsLane(m) /\ m.st \in {lane[r].st, "done"} /\ lane' = [lane EXCEPT ![r] = m]
        BY <1>1, <2>4, <3>1 DEF IsLane
      <3> QED BY <3>2
    <2> QED BY <2>1, <2>2, <2>3, <2>4
  <1>3. m.st \in {"running", "done"}
    BY <1>1, <1>2
  <1> QED BY <1>2, <1>3, LanePut, Quiet

LEMMA HandleKeeps == ASSUME Inv, NEW r \in Calls, handle(r) PROVE Inv'
  <1>1. /\ lane[r].st = "running"
        /\ UNCHANGED <<sc, daemon, peers, trouble, conns, pool, lock, call, blame, queue, gate>>
    BY DEF handle, Calm, Pooling, World
  <1>2. PICK sent, left : \/ lane' = [lane EXCEPT ![r].sent = sent, ![r].left = left]
                          \/ lane' = [lane EXCEPT ![r].st = "done"]
    BY DEF handle, Sends
  <1> QED BY <1>1, <1>2, LaneStep

LEMMA EntrainKeeps == ASSUME Inv, NEW r \in Calls, serve_entrain(r) PROVE Inv'
  <1>1. /\ lane[r].st = "running"
        /\ UNCHANGED <<sc, daemon, peers, trouble, conns, pool, lock, call, blame, queue, gate>>
    BY DEF serve_entrain, Calm, Pooling, World
  <1>2. PICK sent, left : lane' = [lane EXCEPT ![r].sent = sent, ![r].left = left, ![r].acked = TRUE]
    BY DEF serve_entrain
  <1> QED BY <1>1, <1>2, LaneStep

LEMMA VibrateKeeps == ASSUME Inv, NEW r \in Calls, vibrate(r) PROVE Inv'
  <1>1. /\ lane[r].st = "running"
        /\ UNCHANGED <<sc, daemon, peers, trouble, conns, pool, lock, call, blame, queue, gate>>
    BY DEF vibrate, Calm, Pooling, World
  <1>2. PICK sent, left : lane' = [lane EXCEPT ![r].sent = sent, ![r].left = left]
    BY DEF vibrate, Sends
  <1> QED BY <1>1, <1>2, LaneStep

LEMMA EntrainEndKeeps == ASSUME Inv, NEW r \in Calls, entrain_end(r) PROVE Inv'
  <1>1. /\ lane[r].st = "running"
        /\ UNCHANGED <<sc, daemon, peers, trouble, conns, pool, lock, call, blame, queue, gate>>
    BY DEF entrain_end, Calm, Pooling, World
  <1>2. PICK sent : \/ lane' = [lane EXCEPT ![r].st = "done", ![r].sent = sent]
                    \/ lane' = [lane EXCEPT ![r].st = "done"]
    BY DEF entrain_end
  <1> QED BY <1>1, <1>2, LaneStep

LEMMA LaneLostKeeps == ASSUME Inv, NEW r \in Calls, LaneLost(r) PROVE Inv'
  <1>1. /\ lane' = [lane EXCEPT ![r].st = "done"]
        /\ UNCHANGED <<sc, daemon, peers, trouble, conns, pool, lock, call, blame, queue, gate>>
    BY DEF LaneLost, Calm, Pooling, World
  <1>2. DOMAIN lane = Calls /\ IsLane(lane[r])
    BY LaneFacts
  <1>3. lane'[r].st = "done"
    BY <1>1, <1>2 DEF IsLane
  <1> QED BY <1>1, <1>3, LaneStep

\* Bytes on their way.
LEMMA BytesKeep ==
  ASSUME Inv, NEW r \in Calls, proxy_up(r) \/ proxy_down(r) \/ relay_remote(r) PROVE Inv'
  <1>1. UNCHANGED <<sc, daemon, peers, trouble, conns, pool, lock, call, blame, lane, queue, gate>>
    BY DEF proxy_up, proxy_down, relay_remote, Pooling, Peering, World
  <1> QED BY <1>1, SameLanes, Quiet

-----------------------------------------------------------------------------
(* What befalls the peers *)

\* A peer's run ends: the calls that are bound to it are disturbed.
LEMMA PeersStep ==
  ASSUME Inv, UNCHANGED <<sc, daemon, conns, pool, lock, call>>, LaneInv',
         peers' \in [Peers -> Peer], trouble' \in Nat, blame \subseteq blame', blame' \subseteq Calls,
         \A p \in Peers : \/ Bound(p) \subseteq blame'
                          \/ peers[p].up => peers'[p].up /\ peers'[p].gen = peers[p].gen
  PROVE  Inv'
  <1>1. ShapeInv' /\ PoolInv' /\ OneConnection'
    BY SamePool DEF Inv, ShapeInv
  <1>2. ASSUME NEW r \in Calls PROVE CallTrue(r)' /\ CauseTrue(r)'
    <2>1. CallTrue(r) /\ CauseTrue(r)
      BY CallFacts, CauseFacts
    <2>2. T(r)' = T(r) /\ P(r)' = P(r) /\ Cfg(r)' = Cfg(r)
      BY DEF T, P, Cfg
    <2>3. CauseTrue(r)'
      BY <2>1, <2>2 DEF CauseTrue
    <2>4. RouteTrue(r)' /\ Holds(r)' = Holds(r)
      BY <2>1, <2>2 DEF CallTrue, RouteTrue, Holds
    <2> QED BY <2>1, <2>2, <2>3, <2>4 DEF CallTrue, IsCall
  <1>3. ASSUME NEW r \in Calls PROVE RetryTrue(r)'
    <2> SUFFICES ASSUME Undisturbed(r)' PROVE RetryTrue(r)'
      BY DEF RetryTrue
    <2>1. \A q \in Calls : T(q)' = T(q) /\ P(q)' = P(q) /\ Cfg(q)' = Cfg(q)
      BY DEF T, P, Cfg
    <2>2. Undisturbed(r) /\ r \notin blame'
      BY <2>1 DEF Undisturbed
    <2>3. CallTrue(r) /\ RetryTrue(r) /\ P(r) \in Peers /\ r \in DOMAIN sc.calls
      BY <2>2, CallFacts DEF Undisturbed
    <2> SUFFICES ASSUME call[r].pc \in {"lock", "greet", "send", "read"} PROVE RetryTrue(r)'
      BY DEF RetryTrue
    <2>4. peers[P(r)].up => peers'[P(r)].up /\ peers'[P(r)].gen = peers[P(r)].gen
      BY <2>2, <2>3 DEF Bound
    <2>5. ASSUME NEW c, conns[c].p = P(r), Alive(c) PROVE Alive(c)'
      BY <2>4, <2>5 DEF Alive
    <2>6. CASE call[r].pc = "lock"
      <3>1. ASSUME NEW c \in {pool["daemon"][P(r)]} \ {0} PROVE conns[c].st = "closed" \/ Alive(c)'
        <4>1. conns[c].p = P(r)
          BY <2>3, <3>1, DaemonTransport DEF Inv, PoolInv
        <4>2. conns[c].st = "closed" \/ Alive(c)
          BY <2>2, <2>3, <2>6, <3>1 DEF RetryTrue
        <4> QED BY <2>5, <4>1, <4>2
      <3>2. ASSUME NEW q \in Calls, call[q].pc = "greet", T(q) = "daemon", P(q) = P(r)
            PROVE  Alive(call[q].conn)'
        <4>1. Alive(call[q].conn)
          BY <2>2, <2>3, <2>6, <3>2 DEF RetryTrue
        <4>2. conns[call[q].conn].p = P(r)
          BY <3>2, CallFacts DEF CallTrue
        <4>3. PICK c : c = call[q].conn
          OBVIOUS
        <4>4. Alive(c)'
          BY <2>5, <4>1, <4>2, <4>3
        <4> QED BY <4>3, <4>4 DEF Alive
      <3>3. \A c \in {pool'["daemon"][P(r)']} \ {0} : conns'[c].st = "closed" \/ Alive(c)'
        BY <2>1, <3>1
      <3> QED BY <2>1, <2>6, <3>2, <3>3 DEF RetryTrue
    <2>7. CASE call[r].pc \in {"greet", "send", "read"}
      <3>1. PICK c : c = call[r].conn
        OBVIOUS
      <3>2. conns[c].p = P(r) /\ Alive(c)
        BY <2>2, <2>3, <2>7, <3>1 DEF RetryTrue, CallTrue
      <3>3. Alive(c)'
        BY <2>5, <3>2
      <3>4. Alive(call[r].conn)'
        BY <3>1, <3>3 DEF Alive
      <3> QED BY <2>7, <3>4 DEF RetryTrue
    <2> QED BY <2>6, <2>7
  <1>4. RetryFailsForCause'
    <2>1. DOMAIN sc'.calls \subseteq Calls
      BY <1>1, ScenariosAssumption DEF ShapeInv
    <2> QED BY <1>2, <2>1 DEF RetryFailsForCause, CauseTrue
  <1> QED BY <1>1, <1>2, <1>3, <1>4 DEF Inv

LEMMA ReturnKeeps == ASSUME Inv, NEW p \in Peers, Return(p) PROVE Inv'
  <1>1. /\ peers' = [peers EXCEPT ![p].up = TRUE] /\ ~ peers[p].up
        /\ UNCHANGED <<sc, daemon, conns, pool, lock, call, trouble, blame, lane, queue, gate>>
    BY DEF Return, Pooling, Peering
  <1>2. peers \in [Peers -> Peer] /\ trouble \in Nat /\ blame \subseteq Calls
    BY DEF Inv, ShapeInv
  <1>3. PICK m : m = [peers[p] EXCEPT !.up = TRUE]
    OBVIOUS
  <1>4. m \in Peer /\ peers' = [peers EXCEPT ![p] = m]
    BY <1>1, <1>2, <1>3 DEF Peer
  <1>5. peers' \in [Peers -> Peer]
        /\ \A u \in Peers : peers[u].up => peers'[u].up /\ peers'[u].gen = peers[u].gen
    BY <1>1, <1>2, <1>4
  <1> QED BY <1>1, <1>2, <1>5, SameLanes, PeersStep

LEMMA ModsKeeps == ASSUME Inv, NEW p \in Peers, set_hello_mods(p) PROVE Inv'
  <1>1. /\ Troubled("mods")
        /\ UNCHANGED <<sc, daemon, conns, pool, lock, call, lane, queue, blame>>
    BY DEF set_hello_mods, Pooling
  <1>2. PICK on \in BOOLEAN :
          /\ peers' = [peers EXCEPT ![p].mods = IF on THEN @ \cup {"extra"} ELSE @ \ {"extra"}]
          /\ gate' = IF ~on THEN gate
                     ELSE gate \cup {r \in DOMAIN sc.calls : P(r) = p /\ Cfg(r).mod = "extra"
                                                             /\ call[r].pc \in {"send", "read"}}
    BY DEF set_hello_mods
  <1>3. /\ peers \in [Peers -> Peer] /\ trouble \in Nat /\ blame \subseteq Calls
        /\ DOMAIN sc.calls \subseteq Calls /\ trouble' \in Nat
    BY <1>1, ScenariosAssumption DEF Inv, ShapeInv, Troubled
  <1>4. PICK ms : ms = IF on THEN peers[p].mods \cup {"extra"} ELSE peers[p].mods \ {"extra"}
    OBVIOUS
  <1>5. ms \in SUBSET Mods
    <2>1. peers[p].mods \in SUBSET Mods
      BY <1>3 DEF Peer
    <2> QED BY <1>4, <2>1 DEF Mods
  <1>6. PICK m : m = [peers[p] EXCEPT !.mods = ms]
    OBVIOUS
  <1>7. m \in Peer /\ m.up = peers[p].up /\ m.gen = peers[p].gen
    BY <1>3, <1>5, <1>6 DEF Peer
  <1>8. peers' = [peers EXCEPT ![p] = m]
    BY <1>2, <1>4, <1>6
  <1>9. peers' \in [Peers -> Peer]
        /\ \A u \in Peers : peers[u].up => peers'[u].up /\ peers'[u].gen = peers[u].gen
    BY <1>3, <1>7, <1>8
  <1>10. gate' \subseteq Calls
    BY <1>2, <1>3 DEF Inv, LaneInv
  <1>11. LaneInv'
    BY <1>1, <1>10 DEF Inv, LaneInv, IsLane
  <1> QED BY <1>1, <1>3, <1>9, <1>11, PeersStep

LEMMA DownKeeps == ASSUME Inv, NEW p \in Peers, Down(p) PROVE Inv'
  <1>1. /\ Troubled("down") /\ UNCHANGED <<sc, daemon, conns, pool, lock, call, gate>>
        /\ peers' = [peers EXCEPT ![p].up = FALSE, ![p].gen = @ + 1]
        /\ queue' = [queue EXCEPT ![p] = <<>>] /\ blame' = blame \cup Bound(p)
        /\ lane' = [r \in Calls |-> IF r \in DOMAIN sc.calls /\ P(r) = p /\ lane[r].st # "none"
                                    THEN [lane[r] EXCEPT !.st = "done"] ELSE lane[r]]
    BY DEF Down, Pooling
  <1>2. /\ peers \in [Peers -> Peer] /\ trouble \in Nat /\ blame \subseteq Calls
        /\ DOMAIN sc.calls \subseteq Calls /\ trouble' \in Nat
    BY <1>1, ScenariosAssumption DEF Inv, ShapeInv, Troubled
  <1>3. blame' \subseteq Calls
    BY <1>1, <1>2 DEF Bound
  <1>4. PICK m : m = [peers[p] EXCEPT !.up = FALSE, !.gen = @ + 1]
    OBVIOUS
  <1>5. m \in Peer
    <2>1. PICK k : k = peers[p]
      OBVIOUS
    <2>2. k \in Peer /\ k.gen + 1 \in Nat
      BY <1>2, <2>1 DEF Peer
    <2>3. m = [k EXCEPT !.up = FALSE, !.gen = k.gen + 1]
      BY <1>4, <2>1
    <2> QED BY <2>2, <2>3 DEF Peer
  <1>6. peers' = [peers EXCEPT ![p] = m]
    BY <1>1, <1>2, <1>4
  <1>7. /\ peers' \in [Peers -> Peer] /\ \A u \in Peers \ {p} : peers'[u] = peers[u]
    BY <1>2, <1>5, <1>6
  <1>8. LaneInv'
    <2>1. ASSUME NEW r \in Calls
          PROVE  IsLane(lane'[r]) /\ lane'[r].st \in {"none", "accepted", "routed", "queued", "running", "done"}
      <3>1. IsLane(lane[r]) /\ lane[r].st \in {"none", "accepted", "routed", "queued", "running", "done"}
        BY LaneFacts
      <3>2. PICK l : l = [lane[r] EXCEPT !.st = "done"]
        OBVIOUS
      <3>3. IsLane(l) /\ l.st = "done"
        BY <3>1, <3>2 DEF IsLane
      <3>4. lane'[r] \in {l, lane[r]}
        BY <1>1, <3>2
      <3> QED BY <3>1, <3>3, <3>4
    <2>2. queue' \in [Peers -> Seq(Calls)] /\ \A u \in Peers : Len(queue'[u]) <= QueueMax
      <3>1. PICK s : s = <<>>
        OBVIOUS
      <3>2. s \in Seq(Calls) /\ Len(s) <= QueueMax
        BY <3>1, QueueAssumption
      <3>3. queue' = [queue EXCEPT ![p] = s]
        BY <1>1, <3>1
      <3> QED BY <3>2, <3>3 DEF Inv, LaneInv
    <2> QED BY <1>1, <2>1, <2>2 DEF Inv, LaneInv
  <1>9. \A u \in Peers : \/ Bound(u) \subseteq blame'
                         \/ peers[u].up => peers'[u].up /\ peers'[u].gen = peers[u].gen
    BY <1>1, <1>7
  <1> QED BY <1>1, <1>2, <1>3, <1>7, <1>8, <1>9, PeersStep

-----------------------------------------------------------------------------
(* The daemon dies *)

\* Its connections close; nobody's own does.
LEMMA DaemonConns ==
  ASSUME Inv, DaemonDies
  PROVE  /\ conns' \in Seq(Conn) /\ Len(conns') = Len(conns)
         /\ \A c \in 1..Len(conns) :
              /\ conns'[c].t = conns[c].t /\ conns'[c].p = conns[c].p
              /\ conns[c].t # "daemon" => conns'[c].st = conns[c].st
              /\ conns[c].t = "daemon" => conns'[c].st = "closed"
  <1>1. DOMAIN conns = 1..Len(conns) /\ Len(conns) \in Nat
    BY ConnFacts
  <1>2. conns' = [c \in 1..Len(conns) |->
                    [conns[c] EXCEPT !.st = IF conns[c].t = "daemon" THEN "closed" ELSE @]]
    BY <1>1 DEF DaemonDies
  <1>3. ASSUME NEW c \in 1..Len(conns)
        PROVE  /\ conns'[c] \in Conn /\ conns'[c].t = conns[c].t /\ conns'[c].p = conns[c].p
               /\ conns[c].t # "daemon" => conns'[c].st = conns[c].st
               /\ conns[c].t = "daemon" => conns'[c].st = "closed"
    <2>1. PICK k : k = conns[c]
      OBVIOUS
    <2>2. k \in Conn
      BY <2>1, ConnFacts
    <2>3. PICK st : st = IF k.t = "daemon" THEN "closed" ELSE k.st
      OBVIOUS
    <2>4. conns'[c] = [k EXCEPT !.st = st]
      BY <1>2, <2>1, <2>3
    <2>5. st \in {"hello", "greeted", "refused", "open", "closed"}
      BY <2>2, <2>3 DEF Conn
    <2>6. [k EXCEPT !.st = st] \in Conn /\ [k EXCEPT !.st = st].t = k.t
          /\ [k EXCEPT !.st = st].p = k.p /\ [k EXCEPT !.st = st].st = st
      BY <2>2, <2>5 DEF Conn
    <2> QED BY <2>1, <2>3, <2>4, <2>6
  <1>4. PICK f : f = conns'
    OBVIOUS
  <1>5. f \in [1..Len(conns) -> Conn]
    BY <1>2, <1>3, <1>4
  <1>6. f \in Seq(Conn) /\ Len(f) = Len(conns)
    BY <1>1, <1>5, SeqDef, LenProperties
  <1> QED BY <1>3, <1>4, <1>6

\* What becomes of a call.
LEMMA DaemonCalls ==
  ASSUME Inv, DaemonDies, NEW r \in Calls
  PROVE  \/ /\ call'[r] = call[r]
            /\ call[r].pc # "done" => /\ Cfg(r).via # "web"
                                      /\ call[r].pc \in {"lock", "dial", "greet"} =>
                                           call[r].route = "own"
         \/ /\ IsCall(call'[r]) /\ call'[r].pc = "start" /\ call'[r].route = "none"
            /\ call'[r].conn = 0 /\ call[r].pc # "done" /\ Cfg(r).via # "web"
         \/ /\ IsCall(call'[r]) /\ call'[r].pc = "done" /\ call'[r].res = "gone"
            /\ call'[r].conn = call[r].conn
  <1>1. CallTrue(r) /\ RouteTrue(r) /\ IsCall(call[r])
    BY CallFacts DEF CallTrue
  <1>2. call'[r] = CASE call[r].pc = "done" -> call[r]
         [] call[r].pc # "done" /\ call[r].route = "tunnel"
            /\ call[r].pc \in {"lock", "dial", "greet"} -> [NewCall(r) EXCEPT !.try = call[r].try]
         [] call[r].pc # "done" /\ Cfg(r).via = "web" ->
              [call[r] EXCEPT !.pc = "done", !.res = "gone"]
         [] OTHER -> call[r]
    BY DEF DaemonDies
  <1>3. call[r].pc = "done" => call'[r] = call[r]
    BY <1>2
  <1>4. ASSUME call[r].pc # "done", call[r].route = "tunnel", call[r].pc \in {"lock", "dial", "greet"}
        PROVE  /\ IsCall(call'[r]) /\ call'[r].pc = "start" /\ call'[r].route = "none"
               /\ call'[r].conn = 0 /\ Cfg(r).via # "web"
    <2>1. Cfg(r).via # "web"
      BY <1>1, <1>4 DEF RouteTrue
    <2>2. call'[r] = [NewCall(r) EXCEPT !.try = call[r].try]
      BY <1>2, <1>4, <2>1
    <2>3. PICK m : m = [NewCall(r) EXCEPT !.try = call[r].try]
      OBVIOUS
    <2>4. IsCall(m) /\ m.pc = "start" /\ m.route = "none" /\ m.conn = 0
      BY <2>3 DEF IsCall, NewCall
    <2> QED BY <2>1, <2>2, <2>3, <2>4
  <1>5. ASSUME call[r].pc # "done", Cfg(r).via = "web"
        PROVE  /\ IsCall(call'[r]) /\ call'[r].pc = "done" /\ call'[r].res = "gone"
               /\ call'[r].conn = call[r].conn
    <2>1. ~ (call[r].route = "tunnel" /\ call[r].pc \in {"lock", "dial", "greet"})
      BY <1>1, <1>5 DEF RouteTrue
    <2>2. call'[r] = [call[r] EXCEPT !.pc = "done", !.res = "gone"]
      BY <1>2, <1>5, <2>1
    <2>3. PICK m : m = [call[r] EXCEPT !.pc = "done", !.res = "gone"]
      OBVIOUS
    <2>4. IsCall(m) /\ m.pc = "done" /\ m.res = "gone" /\ m.conn = call[r].conn
      BY <1>1, <2>3 DEF IsCall
    <2> QED BY <2>2, <2>3, <2>4
  <1>6. ASSUME call[r].pc # "done", Cfg(r).via # "web",
               ~ (call[r].route = "tunnel" /\ call[r].pc \in {"lock", "dial", "greet"})
        PROVE  call'[r] = call[r] /\ (call[r].pc \in {"lock", "dial", "greet"} => call[r].route = "own")
    <2>1. call'[r] = call[r]
      BY <1>2, <1>6
    <2>2. call[r].pc \in {"lock", "dial", "greet"} => call[r].route = "own"
      BY <1>1, <1>6 DEF RouteTrue
    <2> QED BY <2>1, <2>2
  <1> QED BY <1>3, <1>4, <1>5, <1>6

LEMMA DaemonKeeps == ASSUME Inv, DaemonDies PROVE Inv'
  <1>1. /\ Troubled("daemon") /\ daemon' = "down" /\ lock' = [lock EXCEPT !["daemon"] = <<>>]
        /\ blame' = blame \cup {r \in Calls : Tunnelled(r)}
        /\ UNCHANGED <<sc, peers, pool, lane, queue, gate>> /\ DOMAIN call' = Calls
    BY DEF DaemonDies, Peering
  <1>2. /\ conns' \in Seq(Conn) /\ Len(conns') = Len(conns) /\ Len(conns) \in Nat
        /\ \A c \in 1..Len(conns) :
             /\ conns'[c].t = conns[c].t /\ conns'[c].p = conns[c].p
             /\ conns[c].t # "daemon" => conns'[c].st = conns[c].st
             /\ conns[c].t = "daemon" => conns'[c].st = "closed"
    BY DaemonConns, ConnFacts
  <1>3. lock' \in [Transports -> Seq(Calls)] /\ \A t \in Transports \ {"daemon"} : lock'[t] = lock[t]
    <2>1. PICK s : s = <<>>
      OBVIOUS
    <2>2. s \in Seq(Calls)
      BY <2>1
    <2>3. lock' = [lock EXCEPT !["daemon"] = s]
      BY <1>1, <2>1
    <2> QED BY <2>2, <2>3 DEF Inv, ShapeInv
  <1>4. trouble' \in Nat
    BY <1>1 DEF Inv, ShapeInv, Troubled
  <1>5. ShapeInv' /\ LaneInv'
    BY <1>1, <1>2, <1>3, <1>4, SameLanes DEF Inv, ShapeInv
  <1>6. PoolInv'
    BY <1>1, <1>2 DEF Inv, PoolInv
  <1>7. OneConnection'
    <2>1. DOMAIN conns = 1..Len(conns) /\ DOMAIN conns' = 1..Len(conns)
      BY <1>2
    <2> QED BY <1>1, <1>2, <2>1 DEF Inv, OneConnection
  <1>8. ASSUME NEW r \in Calls PROVE CallTrue(r)' /\ RetryTrue(r)' /\ CauseTrue(r)'
    <2>1. CallTrue(r) /\ RetryTrue(r) /\ CauseTrue(r)
      BY CallFacts, CauseFacts
    <2>2. Cfg(r)' = Cfg(r) /\ P(r)' = P(r)
      BY <1>1 DEF Cfg, P
    <2>3. call[r].conn \in 0..Len(conns)
      BY <2>1 DEF CallTrue
    <2>4. CASE /\ call'[r] = call[r]
               /\ call[r].pc # "done" => /\ Cfg(r).via # "web"
                                         /\ call[r].pc \in {"lock", "dial", "greet"} =>
                                              call[r].route = "own"
      <3>1. T(r)' = T(r)
        BY <2>4 DEF T
      <3>2. RouteTrue(r)' /\ IsCall(call[r])' /\ call'[r].pc \in Pcs /\ call'[r].conn \in 0..Len(conns')
        BY <1>1, <1>2, <2>1, <2>2, <2>4 DEF CallTrue, RouteTrue, IsCall
      <3>3. call[r].pc \in {"dial", "greet"} =>
              T(r) \in Transports \ {"daemon"} /\ Holds(r)' /\ pool'[T(r)][P(r)] = 0
        BY <1>1, <1>3, <2>1, <2>4, <3>1, CallFacts, NamesAssumption DEF CallTrue, T, Transports, Holds
      <3>4. call[r].pc \in {"greet", "send", "read", "relay", "left"} => call[r].conn \in 1..Len(conns)
        BY <1>2, <2>1 DEF CallTrue
      <3>5. call[r].pc \in {"greet", "send", "read", "relay", "left"} =>
              conns'[call[r].conn].t = T(r) /\ conns'[call[r].conn].p = P(r)
        BY <1>2, <2>1, <3>4 DEF CallTrue
      <3>6. call[r].pc = "greet" => conns'[call[r].conn].st \in {"hello", "greeted", "refused"}
        BY <1>2, <2>1, <3>3, <3>4 DEF CallTrue
      <3>7. call[r].pc \in {"send", "read", "relay", "left"} =>
              conns'[call[r].conn].st \in {"open", "closed"}
        BY <1>2, <2>1, <3>4 DEF CallTrue
      <3>8. CallTrue(r)'
        BY <2>2, <2>4, <3>1, <3>2, <3>3, <3>4, <3>5, <3>6, <3>7 DEF CallTrue
      <3>9. RetryTrue(r)' /\ CauseTrue(r)'
        BY <1>1, <2>1, <2>2, <2>4 DEF RetryTrue, Undisturbed, CauseTrue
      <3> QED BY <3>8, <3>9
    <2>5. CASE /\ IsCall(call'[r]) /\ call'[r].pc = "start" /\ call'[r].route = "none"
               /\ call'[r].conn = 0 /\ call[r].pc # "done" /\ Cfg(r).via # "web"
      <3>1. r \in DOMAIN sc.calls
        BY <2>5, CallFacts
      <3>2. RouteTrue(r)'
        BY <1>1, <2>2, <2>5, <3>1 DEF RouteTrue
      <3>3. CallTrue(r)'
        BY <1>2, <2>5, <3>2 DEF CallTrue, Pcs
      <3> QED BY <2>2, <2>5, <3>3 DEF RetryTrue, Undisturbed, CauseTrue
    <2>6. CASE /\ IsCall(call'[r]) /\ call'[r].pc = "done" /\ call'[r].res = "gone"
               /\ call'[r].conn = call[r].conn
      <3>1. RouteTrue(r)'
        BY <2>6 DEF RouteTrue
      <3>2. CallTrue(r)'
        BY <1>2, <2>3, <2>6, <3>1 DEF CallTrue, Pcs
      <3> QED BY <2>6, <3>2 DEF RetryTrue, Undisturbed, CauseTrue
    <2> QED BY <2>4, <2>5, <2>6, DaemonCalls
  <1>9. RetryFailsForCause'
    <2>1. DOMAIN sc'.calls \subseteq Calls
      BY <1>5, ScenariosAssumption DEF ShapeInv
    <2> QED BY <1>8, <2>1 DEF RetryFailsForCause, CauseTrue
  <1> QED BY <1>5, <1>6, <1>7, <1>8, <1>9 DEF Inv

-----------------------------------------------------------------------------
(* The invariant *)

LEMMA InitInv == Init => Inv
  <1> SUFFICES ASSUME Init PROVE Inv
    OBVIOUS
  <1>1. sc \in Scenarios /\ DOMAIN sc.calls \subseteq Calls /\ sc.served \in BOOLEAN /\ sc.trouble \in Nat
    BY ScenariosAssumption DEF Init
  <1>2. peers \in [Peers -> Peer]
    <2>1. sc.mods \in SUBSET Mods
      BY <1>1 DEF Mods
    <2>2. [up |-> TRUE, gen |-> 0, mods |-> sc.mods] \in Peer
      BY <2>1 DEF Peer
    <2> QED BY <2>2 DEF Init
  <1>3. conns = <<>> /\ conns \in Seq(Conn) /\ Len(conns) = 0 /\ DOMAIN conns = {}
    BY DEF Init
  <1>4. lock \in [Transports -> Seq(Calls)] /\ pool \in [Transports -> [Peers -> Nat]]
    BY DEF Init
  <1>5. ShapeInv
    BY <1>1, <1>2, <1>3, <1>4 DEF ShapeInv, Init
  <1>6. LaneInv
    <2>1. queue \in [Peers -> Seq(Calls)] /\ \A p \in Peers : Len(queue[p]) <= QueueMax
      BY QueueAssumption DEF Init
    <2>2. \A r \in Calls : IsLane(lane[r]) /\ lane[r].st = "none"
      BY DEF Init, NoLane, IsLane
    <2> QED BY <2>1, <2>2 DEF LaneInv, Init
  <1>7. PoolInv /\ OneConnection
    <2>1. \A t \in Transports, p \in Peers : pool[t][p] = 0
      BY DEF Init
    <2> QED BY <1>3, <2>1 DEF PoolInv, OneConnection
  <1>8. ASSUME NEW r \in Calls
        PROVE  /\ IsCall(call[r]) /\ call[r].conn = 0 /\ call[r].route = "none" /\ call[r].try = 1
               /\ call[r].res = None
               /\ \/ call[r].pc = "start" /\ r \in DOMAIN sc.calls
                  \/ call[r].pc = "done"
    <2>1. call[r] = IF r \in DOMAIN sc.calls THEN NewCall(r) ELSE [NewCall(r) EXCEPT !.pc = "done"]
      BY DEF Init
    <2>2. PICK m : m = [NewCall(r) EXCEPT !.pc = "done"]
      OBVIOUS
    <2>3. IsCall(m) /\ m.conn = 0 /\ m.route = "none" /\ m.try = 1 /\ m.res = None /\ m.pc = "done"
      BY <2>2 DEF NewCall, IsCall
    <2>4. PICK n : n = NewCall(r)
      OBVIOUS
    <2>5. IsCall(n) /\ n.conn = 0 /\ n.route = "none" /\ n.try = 1 /\ n.res = None /\ n.pc = "start"
      BY <2>4 DEF NewCall, IsCall
    <2> QED BY <2>1, <2>2, <2>3, <2>4, <2>5
  <1>9. \A r \in Calls : CallTrue(r) /\ RetryTrue(r)
    BY <1>3, <1>8 DEF CallTrue, RouteTrue, RetryTrue, Undisturbed, Pcs
  <1>10. RetryFailsForCause
    <2>1. ASSUME NEW r \in DOMAIN sc.calls PROVE call[r].pc = "start"
      <3>1. call[r] = NewCall(r)
        BY <1>1 DEF Init
      <3> QED BY <3>1 DEF NewCall
    <2> QED BY <2>1 DEF RetryFailsForCause
  <1> QED BY <1>5, <1>6, <1>7, <1>9, <1>10 DEF Inv

LEMMA StepKeeps == Inv /\ Step => Inv'
  <1> SUFFICES ASSUME Inv, Step PROVE Inv'
    OBVIOUS
  <1>1. ASSUME NEW r \in Calls, Start(r) \/ open(r) \/ redial(r) \/ connect(r) \/ greeted(r)
        PROVE  Inv'
    BY <1>1, StartKeeps, OpenKeeps, RedialKeeps, ConnectKeeps, GreetedKeeps
  <1>2. ASSUME NEW r \in Calls, refused(r) \/ dial(r) \/ evict(r) \/ send(r) \/ recv(r) PROVE Inv'
    BY <1>2, RefusedKeeps, DialKeeps, EvictKeeps, SendKeeps, RecvKeeps
  <1>3. ASSUME NEW r \in Calls, finish(r) \/ recv_error(r) \/ proxy_up(r) \/ proxy_down(r)
                                \/ relay_remote(r)
        PROVE  Inv'
    BY <1>3, FinishKeeps, RecvErrorKeeps, BytesKeep
  <1>4. ASSUME NEW r \in Calls, accept_bi(r) \/ route_request(r) \/ incoming(r) \/ handle(r)
                                \/ serve_entrain(r) \/ entrain_end(r) \/ LaneLost(r)
        PROVE  Inv'
    BY <1>4, AcceptBiKeeps, RouteKeeps, IncomingKeeps, HandleKeeps, EntrainKeeps,
       EntrainEndKeeps, LaneLostKeeps
  <1>5. ASSUME NEW p \in Peers, run(p) PROVE Inv'
    BY <1>5, RunKeeps
  <1>6. ASSUME NEW c \in DOMAIN conns, accept(c) \/ IdleTimeout(c) PROVE Inv'
    BY <1>6, AcceptKeeps, IdleKeeps
  <1> QED BY <1>1, <1>2, <1>3, <1>4, <1>5, <1>6 DEF Step

LEMMA NextKeeps == Inv /\ [Next]_vars => Inv'
  <1> SUFFICES ASSUME Inv, [Next]_vars PROVE Inv'
    OBVIOUS
  <1>1. CASE Step
    BY <1>1, StepKeeps
  <1>2. ASSUME NEW r \in Calls, damp(r) \/ Leave(r) \/ vibrate(r) PROVE Inv'
    BY <1>2, DampKeeps, LeaveKeeps, VibrateKeeps
  <1>3. ASSUME NEW p \in Peers, Down(p) \/ Return(p) \/ set_hello_mods(p) PROVE Inv'
    BY <1>3, DownKeeps, ReturnKeeps, ModsKeeps
  <1>4. ASSUME NEW c \in DOMAIN conns, Lost(c) PROVE Inv'
    BY <1>4, LostKeeps
  <1>5. CASE DaemonDies
    BY <1>5, DaemonKeeps
  <1>6. CASE UNCHANGED vars
    <2>1. UNCHANGED <<sc, daemon, peers, trouble, conns, pool, lock, call, blame, lane, queue, gate>>
      BY <1>6 DEF vars
    <2> QED BY <2>1, SameLanes, Quiet
  <1> QED BY <1>1, <1>2, <1>3, <1>4, <1>5, <1>6 DEF Next

\* Who dials has its transport's pool (redial takes the mutex and dial_inner
\* ends under it), what is pooled has been greeted, and an undisturbed second
\* attempt of the web relay meets no connection of the peer's last run: in
\* every state, whoever calls, dials, evicts, restarts or dies.
THEOREM Invariance == Spec => []Inv
  BY InitInv, NextKeeps, PTL DEF Spec

LEMMA PoolSoundFacts == Inv => PoolSound
  <1> SUFFICES ASSUME Inv PROVE PoolSound
    OBVIOUS
  <1>1. \A r \in Calls :
          /\ call[r].pc \in {"start", "lock", "dial", "greet", "send", "read", "relay", "evict",
                             "left", "done"}
          /\ call[r].conn \in 0..Len(conns)
          /\ lane[r].st \in {"none", "accepted", "routed", "queued", "running", "done"}
    BY CallFacts, LaneFacts DEF CallTrue, Pcs
  <1>2. TypeOK
    BY <1>1 DEF Inv, ShapeInv, LaneInv, PoolInv, TypeOK
  <1> QED BY <1>2 DEF Inv, PoolSound

\* An endpoint has at most one open connection to a peer and would use it
\* again (open and dial_inner, under the pool's mutex), however many requests
\* dial and evict beside each other; a peer's queue keeps INCOMING_QUEUE; and
\* the web relay's second attempt fails only for what befalls that attempt.
THEOREM PoolIsSound == Spec => []PoolSound
  BY Invariance, PoolSoundFacts, PTL
=============================================================================
