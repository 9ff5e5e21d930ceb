--------------------------- MODULE DbThreadProofs ---------------------------
(***************************************************************************)
(* Proofs, for any tasks, capacities and plans, of what DbThread.cfg       *)
(* checks on a small instance of DbThread and RemoteTables.                *)
(***************************************************************************)
EXTENDS RemoteTables, TLAPS

-----------------------------------------------------------------------------
(* The inductive invariant of DbThread. *)

\* A job is in one place: new at its caller, queued, or taken; what is queued or
\* running is what its caller waits for, and a thread that is going has nothing left.
QueueInv ==
  /\ \A i \in DOMAIN queue : pc[queue[i]] = "queued" /\ queue[i] \notin ran
  /\ \A i, j \in DOMAIN queue : queue[i] = queue[j] => i = j
  /\ job # None => pc[job] = "queued" /\ job \in ran
  /\ \A t \in Tasks : pc[t] = "queued" => t = job \/ \E i \in DOMAIN queue : queue[i] = t
  /\ \A t \in Tasks : pc[t] \in {"new", "sending"} => t \notin ran
  /\ thread # "up" => queue = <<>> /\ job = None

\* A closer gets past its job only once nothing will be taken from the queue any more.
CloseInv ==
  /\ (\E c \in Closers : pc[c] \in {"join", "joining", "returned"}) => closing \/ thread # "up"
  /\ late # {} => closing \/ thread # "up"
  /\ late \cap ran = {}

Over == Answered \cup {"join", "joining"}

\* The thread took the first n jobs of those it was handed, in their order: all but the
\* running one are over, the rest is the queue while it lives, and the first closing job,
\* or a panic, is where it stops.
OrderedAt(n) ==
  /\ ran = {sent[i] : i \in 1..n}
  /\ thread = "up" => /\ Len(sent) = n + Len(queue)
                      /\ \A i \in 1..Len(queue) : queue[i] = sent[n + i]
  /\ job # None => n > 0 /\ sent[n] = job
  /\ \A i \in 1..n : sent[i] = job \/ pc[sent[i]] \in Over
  /\ \A i \in 1..n : sent[i] \in Closers =>
       i = n /\ (sent[i] = job \/ closing \/ thread # "up")
  /\ (closing \/ thread # "up") /\ panics = 0 => n > 0 /\ sent[n] \in Closers

OrderInv == (closing => job = None) /\ \E n \in 0..Len(sent) : OrderedAt(n)

\* No terminal frame is on its way to the client of r, or there already.
Silent(r) ==
  /\ told[r] = "none" /\ hand[r] \notin Terminals
  /\ \A i \in DOMAIN chan[r] : chan[r][i] \notin Terminals

\* f, if it is a terminal frame, says what happened to r; so do all that are under way.
True(r, f) == f \in Terminals => (f = "done" <=> r \in committed)
Truthful(r) == True(r, told[r]) /\ True(r, hand[r]) /\ \A i \in DOMAIN chan[r] : True(r, chan[r][i])

\* Before its job makes one a request has no terminal frame and has not committed; the
\* frame the job makes, and the ones under way, are true.
FrameInv ==
  \A r \in Requests :
    /\ r \notin ran => Silent(r) /\ r \notin committed
    /\ job = r /\ jpc \notin Terminals \cup {"ended"} => Silent(r) /\ r \notin committed
    /\ job = r /\ jpc \in Terminals => Silent(r) /\ True(r, jpc)
    /\ Truthful(r)

Inv == TypeOK /\ QueueInv /\ CloseInv /\ OrderInv /\ FrameInv

LEMMA InitInv == Init => Inv
  <1> SUFFICES ASSUME Init PROVE Inv
    OBVIOUS
  <1> USE KindsAssumption, BoundsAssumption DEF Init
  <1>1. ThreadType
    BY DEF ThreadType, Tasks, Terminals
  <1>2. TaskType
    BY DEF TaskType
  <1>3. DriverType
    BY DEF DriverType
  <1>4. QueueType
    BY DEF QueueType
  <1>5. QueueInv
    BY DEF QueueInv, Tasks
  <1>6. CloseInv
    BY DEF CloseInv, Tasks
  <1>7. FrameInv
    BY DEF FrameInv, Silent, Truthful, True, Terminals
  <1>8. OrderInv
    <2>1. OrderedAt(0) /\ Len(sent) = 0
      BY DEF OrderedAt
    <2> QED BY <2>1 DEF OrderInv
  <1> QED BY <1>1, <1>2, <1>3, <1>4, <1>5, <1>6, <1>7, <1>8 DEF Inv, TypeOK

-----------------------------------------------------------------------------
(* Inv is inductive. *)

\* The order is kept when callers that are done stay done.
LEMMA OrderKeeps ==
  ASSUME Inv, UNCHANGED <<queue, sent, ran, thread, closing, panics, job>>,
         \A u \in Tasks : pc[u] \in Over => pc'[u] \in Over
  PROVE  OrderInv'
  <1> USE DEF Inv, TypeOK, QueueType, OrderInv
  <1>1. PICK n \in 0..Len(sent) : OrderedAt(n)
    OBVIOUS
  <1>2. \A i \in 1..n : sent[i] \in Tasks
    OBVIOUS
  <1>3. OrderedAt(n)'
    BY <1>1, <1>2 DEF OrderedAt
  <1> QED BY <1>3

\* Sending a job appends it to the queue of a living thread and answers it otherwise.
LEMMA SendKeeps ==
  ASSUME Inv, NEW t \in Tasks, pc[t] \in {"new", "sending"}, Send(t),
         UNCHANGED <<chan, hand, told, committed, rows>>
  PROVE  ThreadType' /\ TaskType' /\ QueueType' /\ QueueInv' /\ CloseInv' /\ OrderInv' /\ FrameInv'
  <1> USE KindsAssumption DEF Inv, TypeOK
  <1>1. ThreadType'
    BY DEF ThreadType, Send
  <1>2. TaskType'
    BY DEF TaskType, Send, Answered
  <1>3. QueueType'
    <2>1. Append(queue, t) \in Seq(Tasks) /\ Append(sent, t) \in Seq(Tasks)
      BY DEF QueueType
    <2> QED BY <2>1 DEF QueueType, Send
  <1>4. QueueInv'
    <2>1. CASE thread = "up"
      <3>1. /\ DOMAIN queue' = 1..(Len(queue) + 1) /\ DOMAIN queue = 1..Len(queue)
            /\ Len(queue) \in Nat /\ queue'[Len(queue) + 1] = t
            /\ \A i \in DOMAIN queue : queue'[i] = queue[i] /\ queue[i] \in Tasks /\ queue[i] # t
        BY <2>1 DEF QueueInv, QueueType, Send
      <3>2. t \notin ran /\ t # job /\ pc' = [pc EXCEPT ![t] = "queued"]
        BY <2>1 DEF QueueInv, Send
      <3>3. \A u \in Tasks : u # t => pc'[u] = pc[u]
        BY <3>2 DEF TaskType
      <3>4. pc'[t] = "queued"
        BY <3>2 DEF TaskType
      <3> QED BY <2>1, <3>1, <3>2, <3>3, <3>4 DEF QueueInv, ThreadType, Send
    <2>2. CASE thread # "up"
      BY <2>2 DEF QueueInv, ThreadType, TaskType, Send
    <2> QED BY <2>1, <2>2
  <1>5. CloseInv'
    <2>1. t \notin ran
      BY DEF QueueInv
    <2>2. (\E c \in Closers : pc[c] \in {"join", "joining", "returned"})'
            => closing \/ thread # "up"
      BY DEF CloseInv, TaskType, Send, Tasks
    <2>3. late' # {} => closing \/ thread # "up"
      BY DEF CloseInv, Send
    <2> QED BY <2>1, <2>2, <2>3 DEF CloseInv, Send
  <1>6. FrameInv'
    BY DEF FrameInv, Silent, Truthful, True, Send
  <1>7. OrderInv'
    <2>1. CASE thread = "up"
      <3>1. /\ pc' = [pc EXCEPT ![t] = "queued"] /\ queue' = Append(queue, t)
            /\ sent' = Append(sent, t) /\ queue \in Seq(Tasks) /\ sent \in Seq(Tasks)
            /\ UNCHANGED <<ran, thread, closing, panics, job>>
        BY <2>1 DEF Send, QueueType
      <3>2. PICK n \in 0..Len(sent) : OrderedAt(n)
        BY DEF OrderInv
      <3>3. /\ Len(sent') = Len(sent) + 1 /\ Len(queue') = Len(queue) + 1
            /\ \A i \in 1..Len(sent) : sent'[i] = sent[i] /\ sent[i] \in Tasks
            /\ \A i \in 1..Len(queue) : queue'[i] = queue[i]
            /\ sent'[Len(sent) + 1] = t /\ queue'[Len(queue) + 1] = t
        BY <3>1
      <3>4. \A i \in 1..n : sent'[i] = sent[i] /\ sent[i] \in Tasks
        BY <3>3
      <3>5. \A i \in 1..n : sent[i] = job \/ pc'[sent[i]] \in Over
        <4>1. \A i \in 1..n : sent[i] # t \/ sent[i] = job
          BY <3>2 DEF OrderedAt, Over, Answered
        <4> QED BY <3>1, <3>2, <3>4, <4>1 DEF OrderedAt, TaskType
      <3>6. thread = "up" => /\ Len(sent') = n + Len(queue')
                             /\ \A i \in 1..Len(queue') : queue'[i] = sent'[n + i]
        <4>1. /\ Len(sent) = n + Len(queue) /\ Len(queue) \in Nat /\ n \in Nat
              /\ \A i \in 1..Len(queue) : queue[i] = sent[n + i]
          BY <2>1, <3>1, <3>2 DEF OrderedAt
        <4>2. ASSUME NEW i \in 1..Len(queue') PROVE queue'[i] = sent'[n + i]
          <5>1. CASE i = Len(queue) + 1
            <6>1. n + i = Len(sent) + 1
              BY <4>1, <5>1
            <6> QED BY <3>3, <5>1, <6>1
          <5>2. CASE i # Len(queue) + 1
            <6>1. i \in 1..Len(queue) /\ n + i \in 1..Len(sent)
              BY <3>3, <4>1, <5>2
            <6> QED BY <3>3, <4>1, <6>1
          <5> QED BY <5>1, <5>2
        <4> QED BY <3>3, <4>1, <4>2
      <3>7. OrderedAt(n)'
        <4>1. ran' = {sent'[i] : i \in 1..n}
          BY <3>1, <3>2, <3>4 DEF OrderedAt
        <4>2. \A i \in 1..n : sent'[i] = job' \/ pc'[sent'[i]] \in Over
          BY <3>1, <3>4, <3>5
        <4>3. n > 0 => sent'[n] = sent[n]
          BY <3>4
        <4> QED BY <3>1, <3>2, <3>4, <3>6, <4>1, <4>2, <4>3 DEF OrderedAt, Over
      <3> QED BY <3>1, <3>3, <3>7 DEF OrderInv
    <2>2. CASE thread # "up"
      <3>1. /\ pc' = [pc EXCEPT ![t] = pc'[t]] /\ pc'[t] \in Over
            /\ UNCHANGED <<queue, sent, ran, thread, closing, panics, job>>
        BY <2>2 DEF Send, TaskType, Over, Answered
      <3> QED BY <3>1, OrderKeeps DEF TaskType
    <2> QED BY <2>1, <2>2
  <1> QED BY <1>1, <1>2, <1>3, <1>4, <1>5, <1>6, <1>7

LEMMA CallersKeepInv == ASSUME Inv, CallerStep PROVE Inv'
  <1> USE KindsAssumption, BoundsAssumption
  <1>1. ASSUME NEW t \in Calls, Call(t) PROVE Inv'
    <2>1. DriverType'
      BY <1>1 DEF Call, Inv, TypeOK, DriverType, driverVars
    <2> QED BY <1>1, <2>1, SendKeeps DEF Call, Inv, TypeOK, driverVars, Tasks
  <1>2. ASSUME NEW r \in Requests, Execute(r) PROVE Inv'
    <2>1. DriverType'
      BY <1>2 DEF Execute, Inv, TypeOK, DriverType
    <2> QED BY <1>2, <2>1, SendKeeps DEF Execute, Inv, TypeOK, Tasks
  <1>3. ASSUME NEW t \in Closers, CheckClosing(t) PROVE Inv'
    <2> USE <1>3 DEF CheckClosing, Inv, TypeOK, driverVars, threadVars
    <2>0. /\ pc[t] = "new" /\ pc'[t] \in {"join", "sending"} /\ pc'[t] = "join" => closing
          /\ pc' = [pc EXCEPT ![t] = pc'[t]] /\ t \in Tasks
      BY DEF TaskType, Tasks
    <2>1. ThreadType' /\ DriverType' /\ QueueType'
      BY DEF ThreadType, DriverType, QueueType
    <2>2. TaskType'
      BY <2>0 DEF TaskType
    <2>3. QueueInv'
      BY <2>0 DEF QueueInv, TaskType, QueueType, ThreadType, Tasks
    <2>4. CloseInv'
      BY <2>0 DEF CloseInv, TaskType, Tasks
    <2>5. FrameInv'
      BY DEF FrameInv, Silent, Truthful, True
    <2>6. OrderInv'
      BY <2>0, OrderKeeps DEF TaskType, Over, Answered
    <2> QED BY <2>1, <2>2, <2>3, <2>4, <2>5, <2>6
  <1>4. ASSUME NEW t \in Closers, Close(t) PROVE Inv'
    <2>1. DriverType'
      BY <1>4 DEF Close, Inv, TypeOK, DriverType, driverVars
    <2> QED BY <1>4, <2>1, SendKeeps DEF Close, Inv, TypeOK, driverVars, Tasks
  <1> QED BY <1>1, <1>2, <1>3, <1>4 DEF CallerStep

\* Steps of a job between its start and its end, and of a driver, leave the queue alone.
LEMMA SameQueue ==
  ASSUME Inv, UNCHANGED <<queue, thread, closing, job, pc, ran, late, sent, panics>>
  PROVE  TaskType' /\ QueueInv' /\ CloseInv' /\ OrderInv'
  BY OrderKeeps DEF Inv, TypeOK, TaskType, QueueInv, CloseInv

LEMMA ClosersKeepInv == ASSUME Inv, CloserStep PROVE Inv'
  <1> SUFFICES ASSUME NEW t \in Closers, TakeHandle(t) \/ Joined(t) PROVE Inv'
    BY DEF CloserStep
  <1> USE KindsAssumption
  <1> USE DEF TakeHandle, Joined, Inv, TypeOK, threadVars, driverVars
  <1>1. ThreadType' /\ DriverType' /\ QueueType'
    BY DEF ThreadType, DriverType, QueueType
  <1>2. TaskType' /\ pc' \in [Tasks -> {"new", "sending", "queued", "join", "joining"} \cup Answered]
    BY DEF TaskType, Answered, Tasks
  <1>3. QueueInv'
    <2>1. /\ pc[t] \in {"join", "joining"} /\ pc' = [pc EXCEPT ![t] = pc'[t]]
          /\ pc'[t] \in {"joining", "returned"} /\ t \in Tasks
      BY DEF TaskType, Tasks
    <2>2. \A i \in DOMAIN queue : queue[i] # t /\ queue[i] \in Tasks
      BY <2>1 DEF QueueInv, QueueType
    <2>3. job # t
      BY <2>1 DEF QueueInv, Tasks
    <2> QED BY <2>1, <2>2, <2>3 DEF QueueInv, TaskType, ThreadType
  <1>4. CloseInv'
    BY DEF CloseInv, TaskType, Tasks
  <1>5. FrameInv'
    BY DEF FrameInv, Silent, Truthful, True
  <1>6. OrderInv'
    <2>1. \A u \in Tasks : pc[u] \in Over => pc'[u] \in Over
      BY DEF TaskType, Over, Answered
    <2> QED BY <2>1, OrderKeeps
  <1> QED BY <1>1, <1>2, <1>3, <1>4, <1>5, <1>6

-----------------------------------------------------------------------------
(* The thread between jobs. *)

LEMMA TakeKeepsInv == ASSUME Inv, Take PROVE Inv'
  <1> USE KindsAssumption
  <1> USE DEF Take, Inv, TypeOK, driverVars
  <1> DEFINE t == Head(queue)
  <1>1. /\ t = queue[1] /\ t \in Tasks /\ 1 \in DOMAIN queue
        /\ DOMAIN queue = 1..Len(queue) /\ Len(queue) \in Nat
        /\ DOMAIN queue' = 1..(Len(queue) - 1)
        /\ \A i \in DOMAIN queue' : queue'[i] = queue[i + 1] /\ i + 1 \in DOMAIN queue
    BY DEF QueueType
  <1>2. pc[t] = "queued" /\ t \notin ran /\ t # None
    BY <1>1 DEF QueueInv, Tasks
  <1> HIDE DEF t
  <1>a. job' = t /\ ran' = ran \cup {t} /\ jpc' = "claimed"
    BY DEF t
  <1>3. ThreadType'
    BY <1>1, <1>2, <1>a DEF ThreadType
  <1>4. TaskType'
    BY <1>1, <1>a DEF TaskType
  <1>5. DriverType' /\ QueueType'
    BY DEF DriverType, QueueType
  <1>6. QueueInv'
    <2>1. \A i \in DOMAIN queue' : pc[queue'[i]] = "queued" /\ queue'[i] \notin ran'
      BY <1>1, <1>a DEF QueueInv
    <2>2. \A i, j \in DOMAIN queue' : queue'[i] = queue'[j] => i = j
      BY <1>1 DEF QueueInv
    <2>3. \A u \in Tasks : pc[u] = "queued" => u = t \/ \E i \in DOMAIN queue' : queue'[i] = u
      <3>1. SUFFICES ASSUME NEW u \in Tasks, pc[u] = "queued", u # t
                     PROVE  \E i \in DOMAIN queue' : queue'[i] = u
        OBVIOUS
      <3>2. PICK i \in DOMAIN queue : queue[i] = u
        BY <3>1 DEF QueueInv, ThreadType
      <3>3. i # 1 /\ i - 1 \in DOMAIN queue' /\ queue'[i - 1] = u
        BY <1>1, <3>1, <3>2
      <3> QED BY <3>3
    <2> QED BY <1>1, <1>2, <1>a, <2>1, <2>2, <2>3 DEF QueueInv
  <1>7. CloseInv'
    BY <1>a DEF CloseInv
  <1>8. FrameInv'
    BY <1>2, <1>a DEF FrameInv, Silent, Truthful, True, Terminals
  <1>9. OrderInv'
    <2>1. PICK n \in 0..Len(sent) : OrderedAt(n)
      BY DEF OrderInv
    <2>2. /\ Len(sent) \in Nat /\ Len(sent) = n + Len(queue) /\ sent[n + 1] = t
          /\ n + 1 \in 0..Len(sent) /\ Len(queue) >= 1 /\ Len(queue') = Len(queue) - 1
          /\ \A i \in 1..Len(queue) : queue[i] = sent[n + i]
      BY <1>1, <2>1 DEF OrderedAt, QueueType
    <2>3. ran' = {sent'[i] : i \in 1..(n + 1)}
      BY <1>a, <2>1, <2>2 DEF OrderedAt
    <2>4. \A i \in 1..Len(queue') : queue'[i] = sent'[n + 1 + i]
      <3>1. ASSUME NEW i \in 1..Len(queue') PROVE queue'[i] = sent[n + (i + 1)]
        BY <1>1, <2>2
      <3> QED BY <2>2, <3>1
    <2>5. \A i \in 1..n : sent[i] \in Tasks /\ pc[sent[i]] \in Over /\ sent[i] \notin Closers
      <3>1. \A i \in 1..n : sent[i] \in Tasks
        BY DEF QueueType
      <3> QED BY <2>1, <3>1 DEF OrderedAt, Tasks
    <2>6. OrderedAt(n + 1)'
      BY <1>a, <2>2, <2>3, <2>4, <2>5 DEF OrderedAt, Over
    <2> QED BY <2>2, <2>6 DEF OrderInv
  <1> QED BY <1>3, <1>4, <1>5, <1>6, <1>7, <1>8, <1>9

LEMMA DropReceiverKeepsInv == ASSUME Inv, DropReceiver PROVE Inv'
  <1> USE KindsAssumption
  <1> USE DEF DropReceiver, Inv, TypeOK, driverVars
  <1>1. ThreadType' /\ DriverType' /\ QueueType'
    BY DEF ThreadType, DriverType, QueueType
  <1>2. TaskType'
    BY DEF TaskType, Dropped, Answered
  <1>3. \A u \in Tasks : pc[u] = "queued" => u \in QueuedTasks
    BY DEF QueueInv, QueueType, QueuedTasks, Tasks, ThreadType
  <1>4. \A u \in Tasks : pc'[u] = "queued" => FALSE
    BY <1>3 DEF Dropped, TaskType
  <1>5. \A u \in Tasks : pc'[u] \in {"new", "sending"} => pc[u] = pc'[u]
    BY DEF Dropped, TaskType
  <1>6. QueueInv'
    BY <1>4, <1>5 DEF QueueInv
  <1>7. CloseInv'
    BY DEF CloseInv
  <1>8. FrameInv'
    BY DEF FrameInv, Silent, Truthful, True
  <1>9. OrderInv'
    <2>1. PICK n \in 0..Len(sent) : OrderedAt(n)
      BY DEF OrderInv
    <2>2. \A u \in Tasks : pc[u] \in Over => pc'[u] \in Over
      BY DEF Dropped, TaskType, Over, Answered
    <2>3. \A i \in 1..n : sent[i] \in Tasks
      BY DEF QueueType
    <2>4. OrderedAt(n)'
      BY <2>1, <2>2, <2>3 DEF OrderedAt
    <2> QED BY <2>4 DEF OrderInv
  <1> QED BY <1>1, <1>2, <1>6, <1>7, <1>8, <1>9

LEMMA DropConnectionKeepsInv == ASSUME Inv, DropConnection PROVE Inv'
  <1> USE DEF DropConnection, Inv, TypeOK, driverVars
  <1>1. ThreadType' /\ TaskType' /\ DriverType' /\ QueueType'
    BY DEF ThreadType, TaskType, DriverType, QueueType
  <1>2. QueueInv' /\ CloseInv'
    BY DEF QueueInv, CloseInv
  <1>3. FrameInv'
    BY DEF FrameInv, Silent, Truthful, True
  <1>4. OrderInv'
    <2>1. PICK n \in 0..Len(sent) : OrderedAt(n)
      BY DEF OrderInv
    <2>2. OrderedAt(n)'
      BY <2>1 DEF OrderedAt
    <2> QED BY <2>2 DEF OrderInv
  <1> QED BY <1>1, <1>2, <1>3, <1>4

LEMMA PanicKeepsInv == ASSUME Inv, Panic PROVE Inv'
  <1> USE KindsAssumption, BoundsAssumption
  <1> USE DEF Panic, Inv, TypeOK, driverVars
  <1>1. ThreadType' /\ DriverType' /\ QueueType'
    BY DEF ThreadType, DriverType, QueueType
  <1>2. TaskType'
    BY DEF TaskType, Dropped, Answered
  <1>3. \A u \in Tasks : pc[u] = "queued" => u \in QueuedTasks \cup {job}
    BY DEF QueueInv, QueueType, QueuedTasks, Tasks, ThreadType
  <1>4. \A u \in Tasks : pc'[u] = "queued" => FALSE
    BY <1>3 DEF Dropped, TaskType
  <1>5. \A u \in Tasks : pc'[u] \in {"new", "sending"} => pc[u] = pc'[u]
    BY DEF Dropped, TaskType
  <1>6. QueueInv'
    BY <1>4, <1>5 DEF QueueInv
  <1>7. CloseInv'
    BY DEF CloseInv
  <1>8. FrameInv'
    BY <1>1 DEF FrameInv, Silent, Truthful, True, ThreadType, Tasks
  <1>9. OrderInv'
    <2>1. PICK n \in 0..Len(sent) : OrderedAt(n)
      BY DEF OrderInv
    <2>2. \A u \in Tasks : pc[u] \in Over \/ u = job => pc'[u] \in Over
      BY DEF Dropped, TaskType, Over, Answered
    <2>3. \A i \in 1..n : sent[i] \in Tasks
      BY DEF QueueType
    <2>4. panics' # 0
      BY DEF TaskType
    <2>5. OrderedAt(n)'
      BY <2>1, <2>2, <2>3, <2>4 DEF OrderedAt
    <2> QED BY <2>5 DEF OrderInv
  <1> QED BY <1>1, <1>2, <1>6, <1>7, <1>8, <1>9

\* The end of a job: its caller is answered, or goes on to join the thread.
LEMMA FinishKeeps ==
  ASSUME Inv, NEW t \in Tasks, job = t, NEW o \in Answered \cup {"join"}, Finish(t, o),
         UNCHANGED driverVars,
         closing' <=> closing \/ t \in Closers
  PROVE  TaskType' /\ QueueInv' /\ CloseInv' /\ OrderInv' /\ FrameInv'
  <1> USE KindsAssumption DEF Finish, Inv, TypeOK, driverVars
  <1>0. pc' = [pc EXCEPT ![t] = o] /\ o \notin {"queued", "new", "sending"} /\ t # None
    BY DEF Answered, Tasks
  <1>1. TaskType'
    BY DEF TaskType
  <1>2. QueueInv'
    <2>1. \A i \in DOMAIN queue : queue[i] # t /\ queue[i] \in Tasks
      BY <1>0 DEF QueueInv, QueueType
    <2>2. thread = "up"
      BY <1>0 DEF QueueInv
    <2> QED BY <1>0, <2>1, <2>2 DEF QueueInv, TaskType
  <1>3. CloseInv'
    BY <1>0 DEF CloseInv, TaskType, Tasks
  <1>4. FrameInv'
    BY DEF FrameInv, Silent, Truthful, True, Tasks
  <1>5. OrderInv'
    <2>1. PICK n \in 0..Len(sent) : OrderedAt(n)
      BY DEF OrderInv
    <2>2. \A u \in Tasks : pc[u] \in Over \/ u = t => pc'[u] \in Over
      BY <1>0 DEF TaskType, Over
    <2>3. \A i \in 1..n : sent[i] \in Tasks
      BY DEF QueueType
    <2>4. n > 0 /\ sent[n] = t /\ thread = "up" /\ ~closing
      BY <1>0, <2>1 DEF OrderedAt, QueueInv, OrderInv
    <2>5. OrderedAt(n)'
      BY <2>1, <2>2, <2>3, <2>4 DEF OrderedAt
    <2> QED BY <2>5 DEF OrderInv
  <1> QED BY <1>1, <1>2, <1>3, <1>4, <1>5

-----------------------------------------------------------------------------
(* A job on the thread. *)

LEMMA AppendFacts ==
  ASSUME NEW S, NEW s \in Seq(S), NEW e \in S
  PROVE  /\ Append(s, e) \in Seq(S)
         /\ \A i \in DOMAIN Append(s, e) :
              Append(s, e)[i] = e \/ (i \in DOMAIN s /\ Append(s, e)[i] = s[i])
  OBVIOUS

LEMMA PushFrameFacts ==
  ASSUME QueueType, NEW r \in Requests, NEW f \in {"data"} \cup Terminals, NEW next, NEW gone,
         PushFrame(r, f, next, gone), UNCHANGED sent
  PROVE  /\ QueueType'
         /\ \A u \in Requests \ {r} : chan'[u] = chan[u]
         /\ \A i \in DOMAIN chan'[r] :
              chan'[r][i] = f \/ (i \in DOMAIN chan[r] /\ chan'[r][i] = chan[r][i])
         /\ jpc' \in {next, gone}
         /\ UNCHANGED <<queue, thread, closing, joinable, job, busy, interrupted, ran, panics>>
  <1>0. chan[r] \in Seq({"data"} \cup Terminals)
    BY DEF QueueType
  <1>1. CASE Listening(r) /\ chan' = [chan EXCEPT ![r] = Append(@, f)] /\ Goto(next)
    <2>1. chan'[r] = Append(chan[r], f) /\ \A u \in Requests \ {r} : chan'[u] = chan[u]
      BY <1>1 DEF QueueType
    <2>2. chan' \in [Requests -> Seq({"data"} \cup Terminals)]
      BY <1>0, <1>1, AppendFacts DEF QueueType
    <2>3. \A i \in DOMAIN chan'[r] :
              chan'[r][i] = f \/ (i \in DOMAIN chan[r] /\ chan'[r][i] = chan[r][i])
      BY <1>0, <2>1, AppendFacts
    <2> QED BY <1>1, <2>1, <2>2, <2>3 DEF QueueType, Goto
  <1>2. CASE Goto(gone) /\ UNCHANGED chan
    BY <1>2 DEF Goto, QueueType
  <1> QED BY <1>1, <1>2 DEF PushFrame

\* What a job does to frames: it pushes a frame that is not terminal, or a true one.
LEMMA PushKeepsFrames ==
  ASSUME Inv, NEW r \in Requests, job = r, NEW f \in {"data"} \cup Terminals, NEW next, NEW gone,
         PushFrame(r, f, next, gone), UNCHANGED <<hand, told, sent>>,
         Silent(r), f # "data" => (f = "done" <=> r \in committed'),
         \A u \in Requests \ {r} : u \in committed' <=> u \in committed,
         jpc' # "ended" => f = "data",
         jpc' \notin Terminals \cup {"ended"} => r \notin committed',
         jpc' \in Terminals => (jpc' = "done" <=> r \in committed')
  PROVE  FrameInv'
  <1> USE DEF Inv, TypeOK
  <1>1. /\ \A u \in Requests \ {r} : chan'[u] = chan[u]
        /\ \A i \in DOMAIN chan'[r] :
              chan'[r][i] = f \/ (i \in DOMAIN chan[r] /\ chan'[r][i] = chan[r][i])
        /\ UNCHANGED <<job, ran>>
    BY PushFrameFacts
  <1>2. r \in ran /\ r # None
    BY KindsAssumption DEF QueueInv, Tasks
  <1>3. f = "data" => Silent(r)'
    BY <1>1 DEF Silent, Terminals
  <1>4. Truthful(r)'
    BY <1>1 DEF Silent, Truthful, True, Terminals
  <1>5. ASSUME NEW u \in Requests \ {r}
        PROVE  (u \notin ran => Silent(u)' /\ u \notin committed') /\ Truthful(u)'
    BY <1>1, <1>5 DEF FrameInv, Silent, Truthful, True
  <1>6. ASSUME NEW u \in Requests
        PROVE  /\ u \notin ran' => Silent(u)' /\ u \notin committed'
               /\ job' = u /\ jpc' \notin Terminals \cup {"ended"} => Silent(u)' /\ u \notin committed'
               /\ job' = u /\ jpc' \in Terminals => Silent(u)' /\ True(u, jpc)'
               /\ Truthful(u)'
    <2>1. CASE u = r
      <3>1. jpc' \in Terminals => jpc' # "ended"
        BY DEF Terminals
      <3> QED BY <1>1, <1>2, <1>3, <1>4, <2>1, <3>1 DEF True
    <2>2. CASE u # r
      BY <1>1, <1>5, <2>2
    <2> QED BY <2>1, <2>2
  <1> QED BY <1>6 DEF FrameInv

\* ... or it moves on without pushing any.
LEMMA MoveKeepsFrames ==
  ASSUME Inv, NEW r \in Requests, job = r, Silent(r), UNCHANGED <<chan, hand, told, job, ran>>,
         \A u \in Requests \ {r} : u \in committed' <=> u \in committed,
         jpc' \notin Terminals \cup {"ended"} => r \notin committed',
         jpc' \in Terminals => (jpc' = "done" <=> r \in committed')
  PROVE  FrameInv'
  <1> USE DEF Inv
  <1>1. r \in ran /\ r # None
    BY KindsAssumption DEF QueueInv, Tasks
  <1>2. Silent(r)' /\ Truthful(r)'
    BY DEF Silent, Truthful, True, Terminals
  <1>3. ASSUME NEW u \in Requests \ {r}
        PROVE  (u \notin ran => Silent(u)' /\ u \notin committed') /\ Truthful(u)'
    BY <1>3 DEF FrameInv, Silent, Truthful, True
  <1> QED BY <1>1, <1>2, <1>3 DEF FrameInv, True

\* A request before its terminal frame.
LEMMA Early ==
  ASSUME Inv, NEW r \in Requests, job = r, jpc \notin Terminals \cup {"ended"}
  PROVE  Silent(r) /\ r \notin committed
  BY DEF Inv, FrameInv

LEMMA JobKeepsInv ==
  ASSUME Inv, NEW r \in Requests,
         \/ StoreBusy(r) \/ PushHeader(r) \/ Replay(r) \/ StartQuery(r) \/ NextRows(r)
         \/ PushRows(r) \/ EndQuery(r) \/ StartCommit(r) \/ Commit(r) \/ PushTerminal(r)
  PROVE  Inv'
  <1> USE KindsAssumption, BoundsAssumption
  <1>0. r \in Tasks /\ r # None
    BY DEF Tasks
  <1>1. CASE StoreBusy(r)
    <2> USE <1>0, <1>1 DEF StoreBusy, Running
    <2>1. ThreadType'
      BY DEF Inv, TypeOK, ThreadType
    <2>2. DriverType' /\ QueueType'
      BY DEF Inv, TypeOK, DriverType, QueueType, driverVars
    <2>3. FrameInv'
      BY Early, MoveKeepsFrames DEF Terminals, driverVars
    <2> QED BY <2>1, <2>2, <2>3, SameQueue DEF Inv, TypeOK
  <1>2. CASE PushHeader(r)
    <2> USE <1>0, <1>2 DEF PushHeader, Running
    <2>0. Silent(r) /\ r \notin committed
      BY Early DEF Terminals
    <2>1. CASE PushFrame(r, "data", "ready", "ended")
      <3>1. /\ QueueType' /\ jpc' \in {"ready", "ended"}
            /\ UNCHANGED <<queue, thread, closing, joinable, job, busy, interrupted, ran, panics>>
        BY <2>1, PushFrameFacts DEF Inv, TypeOK
      <3>2. ThreadType' /\ DriverType'
        BY <3>1 DEF Inv, TypeOK, ThreadType, DriverType
      <3>3. FrameInv'
        BY <2>0, <2>1, <3>1, PushKeepsFrames DEF Terminals
      <3> QED BY <3>1, <3>2, <3>3, SameQueue DEF Inv, TypeOK
    <2>2. CASE Goto("error") /\ UNCHANGED chan
      <3>1. ThreadType' /\ DriverType' /\ QueueType'
        BY <2>2 DEF Inv, TypeOK, ThreadType, DriverType, QueueType, Goto, Terminals
      <3>2. FrameInv'
        BY <2>0, <2>2, MoveKeepsFrames DEF Goto, Terminals
      <3> QED BY <2>2, <3>1, <3>2, SameQueue DEF Inv, TypeOK, Goto
    <2> QED BY <2>1, <2>2
  <1>3. CASE Replay(r)
    <2> USE <1>0, <1>3 DEF Replay, Running
    <2>0. Silent(r)
      BY Early DEF Terminals
    <2>1. /\ QueueType' /\ jpc' \in {"done", "ended"}
          /\ UNCHANGED <<queue, thread, closing, joinable, job, busy, interrupted, ran, panics>>
      BY PushFrameFacts DEF Inv, TypeOK
    <2>2. ThreadType' /\ DriverType'
      BY <2>1 DEF Inv, TypeOK, ThreadType, DriverType, Terminals
    <2>3. FrameInv'
      BY <2>0, <2>1, PushKeepsFrames DEF Terminals
    <2> QED BY <2>1, <2>2, <2>3, SameQueue DEF Inv, TypeOK
  <1>4. CASE StartQuery(r) \/ StartCommit(r)
    <2> USE <1>0, <1>4 DEF StartQuery, StartCommit, Running, StartStatement
    <2>1. ThreadType' /\ DriverType' /\ QueueType'
      BY DEF Inv, TypeOK, ThreadType, DriverType, QueueType, driverVars
    <2>2. FrameInv'
      BY Early, MoveKeepsFrames DEF Terminals, driverVars
    <2> QED BY <2>1, <2>2, SameQueue DEF Inv, TypeOK
  <1>5. CASE NextRows(r)
    <2> USE <1>0, <1>5 DEF NextRows, Running, Goto
    <2>1. ThreadType' /\ DriverType' /\ QueueType'
      BY DEF Inv, TypeOK, ThreadType, DriverType, QueueType
    <2>2. FrameInv'
      BY Early, MoveKeepsFrames DEF Terminals
    <2> QED BY <2>1, <2>2, SameQueue DEF Inv, TypeOK
  <1>6. CASE PushRows(r)
    <2> USE <1>0, <1>6 DEF PushRows, Running
    <2>0. Silent(r) /\ r \notin committed
      BY Early DEF Terminals
    <2>1. /\ QueueType' /\ jpc' \in {"stmt", "ended"}
          /\ UNCHANGED <<queue, thread, closing, joinable, job, busy, interrupted, ran, panics>>
      BY PushFrameFacts DEF Inv, TypeOK
    <2>2. ThreadType' /\ DriverType'
      BY <2>1 DEF Inv, TypeOK, ThreadType, DriverType
    <2>3. FrameInv'
      BY <2>0, <2>1, PushKeepsFrames DEF Terminals
    <2> QED BY <2>1, <2>2, <2>3, SameQueue DEF Inv, TypeOK
  <1>7. CASE EndQuery(r)
    <2> USE <1>0, <1>7 DEF EndQuery, Running, Goto
    <2>1. ThreadType' /\ DriverType' /\ QueueType'
      BY DEF Inv, TypeOK, ThreadType, DriverType, QueueType, driverVars, Terminals
    <2>2. FrameInv'
      BY Early, MoveKeepsFrames DEF Terminals, driverVars
    <2> QED BY <2>1, <2>2, SameQueue DEF Inv, TypeOK
  <1>8. CASE Commit(r)
    <2> USE <1>0, <1>8 DEF Commit, Running, Goto
    <2>1. ThreadType' /\ DriverType' /\ QueueType'
      BY DEF Inv, TypeOK, ThreadType, DriverType, QueueType, Terminals
    <2>2. FrameInv'
      BY Early, MoveKeepsFrames DEF Terminals
    <2> QED BY <2>1, <2>2, SameQueue DEF Inv, TypeOK
  <1>9. CASE PushTerminal(r)
    <2> USE <1>0, <1>9 DEF PushTerminal
    <2>0. Silent(r) /\ (jpc = "done" <=> r \in committed)
      BY DEF Inv, FrameInv, True
    <2>1. /\ QueueType' /\ jpc' \in {"ended"}
          /\ UNCHANGED <<queue, thread, closing, joinable, job, busy, interrupted, ran, panics>>
      BY PushFrameFacts DEF Inv, TypeOK
    <2>2. ThreadType' /\ DriverType'
      BY <2>1 DEF Inv, TypeOK, ThreadType, DriverType, Terminals
    <2>3. FrameInv'
      BY <2>0, <2>1, PushKeepsFrames DEF Terminals
    <2> QED BY <2>1, <2>2, <2>3, SameQueue DEF Inv, TypeOK
  <1> QED BY <1>1, <1>2, <1>3, <1>4, <1>5, <1>6, <1>7, <1>8, <1>9

LEMMA ThreadKeepsInv == ASSUME Inv, ThreadStep PROVE Inv'
  <1> USE KindsAssumption, BoundsAssumption
  <1>1. CASE Take \/ DropReceiver \/ DropConnection
    BY <1>1, TakeKeepsInv, DropReceiverKeepsInv, DropConnectionKeepsInv
  <1>2. ASSUME NEW t \in Calls, StartCall(t) PROVE Inv'
    <2> USE <1>2 DEF StartCall, Running, StartStatement
    <2>1. ThreadType' /\ DriverType' /\ QueueType'
      BY DEF Inv, TypeOK, ThreadType, DriverType, QueueType, driverVars, Tasks
    <2>2. FrameInv'
      BY DEF Inv, FrameInv, Silent, Truthful, True, driverVars
    <2> QED BY <2>1, <2>2, SameQueue DEF Inv, TypeOK
  <1>3. ASSUME NEW t \in Calls, FinishCall(t) PROVE Inv'
    <2>1. PICK o \in {"ok", "failed", "interrupted"} : Finish(t, o)
      BY <1>3 DEF FinishCall
    <2>2. job = t /\ t \in Tasks /\ o \in Answered \cup {"join"} /\ t \notin Closers
          /\ UNCHANGED <<closing, busy, driverVars>>
      BY <1>3 DEF FinishCall, Running, Tasks, Answered
    <2>3. ThreadType'
      BY <2>1, <2>2 DEF Inv, TypeOK, ThreadType, Finish
    <2>4. DriverType' /\ QueueType'
      BY <2>1, <2>2 DEF Inv, TypeOK, DriverType, QueueType, Finish, driverVars
    <2> QED BY <2>1, <2>2, <2>3, <2>4, FinishKeeps DEF Inv, TypeOK
  <1>4. ASSUME NEW t \in Closers, RunClose(t) PROVE Inv'
    <2>1. job = t /\ t \in Tasks /\ Finish(t, "join") /\ closing' = TRUE
          /\ UNCHANGED <<busy, driverVars>>
      BY <1>4 DEF RunClose, Running, Tasks
    <2>2. ThreadType'
      BY <2>1 DEF Inv, TypeOK, ThreadType, Finish
    <2>3. DriverType' /\ QueueType'
      BY <2>1 DEF Inv, TypeOK, DriverType, QueueType, Finish, driverVars
    <2> QED BY <2>1, <2>2, <2>3, FinishKeeps DEF Inv, TypeOK
  <1>5. ASSUME NEW r \in Requests, EndRequest(r) PROVE Inv'
    <2>1. job = r /\ r \in Tasks /\ Finish(r, "ok") /\ "ok" \in Answered \cup {"join"}
          /\ busy' = None /\ UNCHANGED <<closing, driverVars>>
      BY <1>5 DEF EndRequest, Running, Tasks, Answered
    <2>2. ThreadType'
      BY <2>1 DEF Inv, TypeOK, ThreadType, Finish
    <2>3. DriverType' /\ QueueType'
      BY <2>1 DEF Inv, TypeOK, DriverType, QueueType, Finish, driverVars
    <2> QED BY <2>1, <2>2, <2>3, FinishKeeps DEF Inv, TypeOK
  <1> QED BY <1>1, <1>2, <1>3, <1>4, <1>5, JobKeepsInv DEF ThreadStep

-----------------------------------------------------------------------------
(* The timer and the forwarding loop of a request. *)

\* A driver takes frames of its own request only.
LEMMA RecvKeeps ==
  ASSUME Inv, NEW r \in Requests, Recv(r)
  PROVE  QueueType' /\ FrameInv' /\ DriverType'
  <1> USE DEF Inv, TypeOK
  <1>0. chan[r] \in Seq({"data"} \cup Terminals)
    BY DEF QueueType
  <1>1. CASE chan[r] = <<>>
    BY <1>1 DEF Recv, QueueType, FrameInv, DriverType, threadVars, Silent, Truthful, True
  <1>2. CASE chan[r] # <<>>
    <2>1. /\ hand' = [hand EXCEPT ![r] = Head(chan[r])]
          /\ chan' = [chan EXCEPT ![r] = Tail(@)] /\ fwd' = [fwd EXCEPT ![r] = "send"]
          /\ UNCHANGED <<threadVars, timer, rows, told, committed, pc, late, sent>>
      BY <1>2 DEF Recv
    <2>2. /\ Head(chan[r]) = chan[r][1] /\ 1 \in DOMAIN chan[r]
          /\ Head(chan[r]) \in {"data"} \cup Terminals
          /\ Tail(chan[r]) \in Seq({"data"} \cup Terminals)
          /\ \A i \in DOMAIN Tail(chan[r]) :
               i + 1 \in DOMAIN chan[r] /\ Tail(chan[r])[i] = chan[r][i + 1]
      BY <1>0, <1>2
    <2>3. QueueType'
      BY <2>1, <2>2 DEF QueueType, threadVars
    <2>4. DriverType'
      BY <2>1, <2>2 DEF DriverType
    <2>5. \A u \in Requests \ {r} : chan'[u] = chan[u] /\ hand'[u] = hand[u]
      BY <2>1 DEF QueueType, DriverType
    <2>6. hand'[r] = chan[r][1] /\ chan'[r] = Tail(chan[r])
      BY <2>1, <2>2 DEF QueueType, DriverType
    <2>7. \A u \in Requests : (Silent(u) => Silent(u)') /\ (Truthful(u) => Truthful(u)')
      <3>1. ASSUME NEW u \in Requests, u = r
            PROVE  (Silent(u) => Silent(u)') /\ (Truthful(u) => Truthful(u)')
        BY <2>1, <2>2, <2>6, <3>1 DEF Silent, Truthful, True
      <3>2. ASSUME NEW u \in Requests, u # r
            PROVE  (Silent(u) => Silent(u)') /\ (Truthful(u) => Truthful(u)')
        BY <2>1, <2>5, <3>2 DEF Silent, Truthful, True
      <3> QED BY <3>1, <3>2
    <2>8. UNCHANGED <<job, jpc, ran, committed>>
      BY <2>1 DEF threadVars
    <2> QED BY <2>3, <2>4, <2>7, <2>8 DEF FrameInv, True
  <1> QED BY <1>1, <1>2

LEMMA DriversKeepInv ==
  ASSUME Inv, NEW r \in Requests, TimerStep(r) \/ DriverStep(r) \/ ClientStep(r)
  PROVE  Inv'
  <1> USE DEF TimerStep, DriverStep, ClientStep
  <1>1. CASE Deadline(r)
    <2> USE <1>1 DEF Deadline, threadVars, Inv, TypeOK
    <2>1. ThreadType' /\ DriverType' /\ QueueType'
      BY DEF ThreadType, DriverType, QueueType
    <2>2. FrameInv'
      BY DEF FrameInv, Silent, Truthful, True
    <2> QED BY <2>1, <2>2, SameQueue
  <1>2. CASE Interrupt(r)
    <2> USE <1>2 DEF Interrupt, Inv, TypeOK
    <2>1. ThreadType' /\ DriverType' /\ QueueType'
      BY DEF ThreadType, DriverType, QueueType
    <2>2. FrameInv'
      BY DEF FrameInv, Silent, Truthful, True
    <2> QED BY <2>1, <2>2, SameQueue
  <1>3. CASE Recv(r)
    <2>1. ThreadType' /\ UNCHANGED <<queue, thread, closing, job, pc, ran, late, sent, panics>>
      BY <1>3 DEF Recv, threadVars, Inv, TypeOK, ThreadType
    <2> QED BY <1>3, <2>1, RecvKeeps, SameQueue DEF Inv, TypeOK
  <1>4. CASE EndDriver(r)
    <2> USE <1>4 DEF EndDriver, threadVars, Inv, TypeOK
    <2>1. ThreadType' /\ DriverType' /\ QueueType'
      BY DEF ThreadType, DriverType, QueueType
    <2>2. FrameInv'
      BY DEF FrameInv, Silent, Truthful, True
    <2> QED BY <2>1, <2>2, SameQueue
  <1>5. CASE ClientReads(r)
    <2> USE <1>5 DEF ClientReads, threadVars, Inv, TypeOK
    <2>1. ThreadType' /\ DriverType' /\ QueueType'
      BY DEF ThreadType, DriverType, QueueType
    <2>2. FrameInv'
      BY DEF FrameInv, Silent, Truthful, True, Terminals, DriverType
    <2> QED BY <2>1, <2>2, SameQueue
  <1>6. CASE ClientGone(r)
    <2> USE <1>6 DEF ClientGone, threadVars, Inv, TypeOK
    <2>1. ThreadType' /\ DriverType' /\ QueueType'
      BY DEF ThreadType, DriverType, QueueType
    <2>2. FrameInv'
      BY DEF FrameInv, Silent, Truthful, True, Terminals, DriverType, QueueType
    <2> QED BY <2>1, <2>2, SameQueue
  <1> QED BY <1>1, <1>2, <1>3, <1>4, <1>5, <1>6

-----------------------------------------------------------------------------
(* The theorems about DbThread. *)

LEMMA StutterKeepsInv == ASSUME Inv, UNCHANGED vars PROVE Inv'
  <1> USE DEF vars, threadVars, driverVars, Inv, TypeOK
  <1>1. ThreadType' /\ DriverType' /\ QueueType'
    BY DEF ThreadType, DriverType, QueueType
  <1>2. FrameInv'
    BY DEF FrameInv, Silent, Truthful, True
  <1> QED BY <1>1, <1>2, SameQueue

LEMMA NextKeepsInv == ASSUME Inv, [Next]_vars PROVE Inv'
  BY CallersKeepInv, ClosersKeepInv, ThreadKeepsInv, PanicKeepsInv, DriversKeepInv,
     StutterKeepsInv DEF Next

\* However callers, the thread, drivers, timers, closes and panics interleave, the invariant
\* holds.
THEOREM Invariance == Spec => []Inv
  <1>1. Init => Inv
    BY InitInv
  <1>2. Inv /\ [Next]_vars => Inv'
    BY NextKeepsInv
  <1> QED BY <1>1, <1>2, PTL DEF Spec

\* What a client is told is what happened to its transaction (execute_and_stream, run_execute).
THEOREM AnswersAreTrue == Spec => []AnswerMatchesCommit
  <1>1. Inv => AnswerMatchesCommit
    BY DEF Inv, TypeOK, DriverType, FrameInv, Truthful, True, AnswerMatchesCommit
  <1> QED BY <1>1, Invariance, PTL

\* When any close() returns, exactly the jobs handed over up to the first closing job, or up to one
\* that panicked, have run and are answered (the thread's loop, DbHandle::close).
THEOREM ClosesAreBarriers == Spec => []CloseIsABarrier
  <1>1. ASSUME Inv PROVE CloseIsABarrier
    <2>1. SUFFICES ASSUME NEW c \in Closers, pc[c] = "returned"
                   PROVE  \E n \in 0..Len(sent) :
                            /\ ran = {sent[i] : i \in 1..n}
                            /\ \A i \in 1..n : pc[sent[i]] \in Answered \cup {"join", "joining"}
                            /\ panics = 0 => n > 0 /\ \A i \in 1..n : sent[i] \in Closers <=> i = n
      BY DEF CloseIsABarrier
    <2>2. closing \/ thread # "up"
      BY <1>1, <2>1 DEF Inv, CloseInv
    <2>3. job = None
      BY <1>1, <2>2 DEF Inv, OrderInv, QueueInv
    <2>4. PICK n \in 0..Len(sent) : OrderedAt(n)
      BY <1>1 DEF Inv, OrderInv
    <2>5. \A i \in 1..n : sent[i] \in Tasks /\ sent[i] # None
      BY <1>1, KindsAssumption DEF Inv, TypeOK, QueueType
    <2> QED BY <2>2, <2>3, <2>4, <2>5 DEF OrderedAt, Over
  <1> QED BY <1>1, Invariance, PTL

\* The state of the thread, its callers and its drivers is well formed.
THEOREM TypeCorrect == Spec => []TypeOK
  <1>1. Inv => TypeOK
    BY DEF Inv
  <1> QED BY <1>1, Invariance, PTL

\* A job submitted after some close() has returned never runs: it is answered DbClosed
\* (DbHandle::call, DbHandle::close and the break in the thread's loop).
THEOREM NothingRunsLate == Spec => []NothingRunsAfterClose
  <1>1. Inv => NothingRunsAfterClose
    BY DEF Inv, CloseInv, NothingRunsAfterClose
  <1> QED BY <1>1, Invariance, PTL
-----------------------------------------------------------------------------
(* The inductive invariant of RemoteTables, on top of Inv. *)

\* While the thread is blocked it is in the statement of the plan.
BlockedInv ==
  /\ plan \in Plans
  /\ wire = [st |-> wire.st, kind |-> wire.kind, arg |-> wire.arg, ans |-> wire.ans,
             last |-> wire.last]
  /\ wire.kind # "none" <=> Blocked
  /\ vt \in {"connect", "ready", "rows", "failed"}
  /\ wire.kind \in {"none", "probe", "scan", "write"}
  /\ Blocked => job \in Requests /\ job = plan.by /\ jpc \in {"header", "stmt"} /\ vt # "failed"

\* A scan carries what the peer is to evaluate, and the cursor what it found.
ScanInv ==
  /\ wire.kind = "scan" => wire.arg = Split.clause
  /\ snapshot # None => cursor = Select(snapshot, Split.clause)

\* A write of the statement has failed; nothing of it is sent any more.
Broken == vt = "failed" \/ (wire.st = "over" /\ wire.ans # "ok")

\* Writes under way, served and counted.  Until one fails they go hand in hand; afterwards the
\* one that was given up may yet be served, as the next.
CountInv ==
  /\ pos \in Nat /\ Len(wrote) \in Nat /\ WritesInOrder
  /\ wire.kind = "write" /\ wire.st \in {"open", "sent"} => Len(wrote) = pos /\ wire.arg.n = pos + 1
  /\ wire.kind = "write" /\ wire.st \notin {"open", "sent"} /\ ~Broken => Len(wrote) = pos + 1
  /\ wire.kind # "write" /\ ~Broken => Len(wrote) = pos
  /\ Len(wrote) >= pos
  /\ vt \in {"connect", "ready"} => pos = 0
  /\ wire.kind = "probe" => vt = "connect"
  /\ ~Broken => strays = {}
  /\ \A w \in strays : w.n = Len(wrote) + 1
  /\ \A v, w \in strays : v = w

\* The rowid of an insert is the one its row got.
InsertInv ==
  plan.op = "insert" =>
    /\ wire.kind = "write" => pos = 0 /\ wire.arg.op = "insert" /\ wire.arg.id = plan.rowid
    /\ wire.kind = "write" /\ wire.st = "served" =>
         wire.last = wrote[1].at /\ (plan.rowid # 0 => wire.last = plan.rowid)
    /\ wire.kind = "write" /\ wire.st = "over" /\ wire.ans = "ok" => insertId = wrote[1].at
    /\ pos >= 1 => insertId = wrote[1].at

\* A statement gets to its commit with all rows written, and is not touched afterwards.
DoneInv ==
  LET whole == vt = "rows" /\ (Writes => pos = Rows)
  IN  /\ plan.by # None /\ job = plan.by /\ jpc \in {"ready", "stmt", "push"} => vt # "connect"
      /\ plan.by # None /\ job = plan.by /\ jpc \in {"commit", "commit2"} => whole
      /\ plan.by # None /\ plan.by \in committed => vt = "connect" \/ whole

\* The writes served are a sequence, whatever rowids are.
WroteSeq == \E S : wrote \in Seq(S)

RemoteInv == WroteSeq /\ BlockedInv /\ ScanInv /\ CountInv /\ InsertInv /\ DoneInv

LEMMA RNextIsNext == [RNext]_rvars => [Next]_vars
  BY DEF RNext, rvars, Next, RThreadStep, RCallerStep, RDriver, TableStep, Resume, connect, filter,
         exec, SendRequest, PeerServes, ReadReply, Elapsed, OtherWrites, StrayServed

\* The thread with remote tables is the thread of DbThread: blocking in one adds no behaviour.
THEOREM RemoteRefines == RSpec => Spec
  <1>1. RInit => Init
    BY DEF RInit
  <1> QED BY <1>1, RNextIsNext, PTL DEF RSpec, Spec

\* What sqlite works with depends on the plan and the cursor only.
LEMMA SameRows ==
  ASSUME UNCHANGED <<plan, cursor>>
  PROVE  Rows' = Rows /\ Split' = Split /\ Writes' = Writes
  BY DEF Rows, Checked, Split, Writes, IsCall

LEMMA QuietKeeps ==
  ASSUME RemoteInv, UNCHANGED <<remoteVars, job, jpc, committed>>
  PROVE  RemoteInv'
  <1> USE DEF remoteVars, RemoteInv
  <1>0. Rows' = Rows /\ Split' = Split /\ Writes' = Writes
    BY SameRows
  <1>1. BlockedInv'
    BY DEF BlockedInv, Blocked
  <1>2. ScanInv'
    BY <1>0 DEF ScanInv
  <1>3. CountInv'
    BY DEF CountInv, Broken, WritesInOrder
  <1>4. InsertInv'
    BY DEF InsertInv
  <1>5. DoneInv'
    BY <1>0 DEF DoneInv
  <1>6. WroteSeq'
    BY DEF WroteSeq
  <1> QED BY <1>1, <1>2, <1>3, <1>4, <1>5, <1>6

\* Where the job of a request comes from, and what commits it.
LEMMA ThreadEffect ==
  ASSUME Inv, ThreadStep, NEW r \in Requests
  PROVE  /\ job' = r /\ jpc' = "ready" => job = r /\ jpc = "header"
         /\ job' = r /\ jpc' = "stmt" => job = r /\ jpc \in {"ready", "push"}
         /\ job' = r /\ jpc' = "push" => job = r /\ jpc = "stmt"
         /\ job' = r /\ jpc' = "commit" => job = r /\ jpc = "stmt"
         /\ job' = r /\ jpc' = "commit2" => job = r /\ jpc = "commit"
         /\ r \in committed' => \/ r \in committed
                                \/ job = r /\ jpc \in {"header", "commit2"}
  <1> USE KindsAssumption DEF Tasks
  <1>1. CASE Take \/ DropReceiver \/ DropConnection
    <2>1. committed' = committed /\ (jpc' = "claimed" \/ job' = None)
      BY <1>1 DEF Take, DropReceiver, DropConnection, driverVars, Inv, QueueInv
    <2> QED BY <2>1
  <1>2. ASSUME NEW t \in Calls, StartCall(t) \/ FinishCall(t) PROVE job' # r /\ committed' = committed
    BY <1>2 DEF StartCall, FinishCall, StartStatement, Finish, Running, driverVars
  <1>3. ASSUME NEW t \in Closers, RunClose(t) PROVE job' # r /\ committed' = committed
    BY <1>3 DEF RunClose, Finish, driverVars
  <1>4. ASSUME NEW q \in Requests, EndRequest(q) PROVE job' # r /\ committed' = committed
    BY <1>4 DEF EndRequest, Finish, driverVars
  <1>5. ASSUME NEW q \in Requests, StoreBusy(q) \/ StartQuery(q) \/ StartCommit(q)
        PROVE  /\ job' = job /\ job = q /\ committed' = committed
               /\ \/ jpc' = "header" \/ (jpc = "ready" /\ jpc' = "stmt")
                  \/ (jpc = "commit" /\ jpc' = "commit2")
    BY <1>5 DEF StoreBusy, StartQuery, StartCommit, StartStatement, Running, driverVars
  <1>6. ASSUME NEW q \in Requests, PushHeader(q) \/ PushRows(q) \/ PushTerminal(q)
        PROVE  /\ job' = job /\ job = q /\ committed' = committed
               /\ \/ jpc' \in {"error", "ended"} \/ (jpc = "header" /\ jpc' = "ready")
                  \/ (jpc = "push" /\ jpc' = "stmt")
    BY <1>6 DEF PushHeader, PushRows, PushTerminal, PushFrame, Goto, Running
  <1>7. ASSUME NEW q \in Requests, Replay(q)
        PROVE  /\ job' = job /\ job = q /\ committed' = committed \cup {q}
               /\ jpc = "header" /\ jpc' \in {"done", "ended"}
    BY <1>7 DEF Replay, PushFrame, Goto, Running
  <1>8. ASSUME NEW q \in Requests, NextRows(q) \/ EndQuery(q)
        PROVE  /\ job' = job /\ job = q /\ committed' = committed
               /\ jpc = "stmt" /\ jpc' \in {"push", "commit", "timeout", "error"}
    BY <1>8 DEF NextRows, EndQuery, Goto, Running, driverVars
  <1>9. ASSUME NEW q \in Requests, Commit(q)
        PROVE  /\ job' = job /\ job = q /\ committed' \in {committed, committed \cup {q}}
               /\ jpc = "commit2" /\ jpc' \in {"done", "timeout", "error"}
    BY <1>9 DEF Commit, Goto, Running
  <1> QED BY <1>1, <1>2, <1>3, <1>4, <1>5, <1>6, <1>7, <1>8, <1>9 DEF ThreadStep

LEMMA RThreadKeeps == ASSUME Inv, RemoteInv, RThreadStep PROVE RemoteInv'
  <1> USE DEF RThreadStep, remoteVars, RemoteInv
  <1>0. Rows' = Rows /\ Split' = Split /\ Writes' = Writes
    BY SameRows
  <1>1. BlockedInv'
    BY DEF BlockedInv, Blocked
  <1>2. ScanInv'
    BY <1>0 DEF ScanInv
  <1>3. CountInv'
    BY DEF CountInv, Broken, WritesInOrder
  <1>4. InsertInv'
    BY DEF InsertInv
  <1>5. DoneInv'
    <2>1. SUFFICES ASSUME plan.by # None PROVE DoneInv'
      BY DEF DoneInv
    <2>2. plan.by \in Requests
      BY <2>1, PlansAssumption DEF BlockedInv
    <2>3. job = plan.by /\ jpc = "header" => plan.by \notin committed
      BY <2>2, Early DEF Terminals
    <2>4. job' = plan.by /\ jpc' \in {"ready", "stmt", "push"} => vt # "connect"
      BY <2>1, <2>2, ThreadEffect DEF DoneInv, InStep
    <2>5. job' = plan.by /\ jpc' \in {"commit", "commit2"} => vt = "rows" /\ (Writes => pos = Rows)
      <3>1. job = plan.by /\ jpc = "stmt" => vt \in {"ready", "rows", "failed"}
        BY <2>1 DEF DoneInv, BlockedInv
      <3> QED BY <2>1, <2>2, <3>1, ThreadEffect DEF DoneInv, InStep
    <2>6. plan.by \in committed' => vt = "connect" \/ (vt = "rows" /\ (Writes => pos = Rows))
      BY <2>1, <2>2, <2>3, ThreadEffect DEF DoneInv, InStep
    <2> QED BY <1>0, <2>4, <2>5, <2>6 DEF DoneInv
  <1>6. WroteSeq'
    BY DEF WroteSeq
  <1> QED BY <1>1, <1>2, <1>3, <1>4, <1>5, <1>6

LEMMA OtherStepsQuiet ==
  ASSUME RCallerStep \/ CloserStep \/ \E r \in Requests : RDriver(r)
  PROVE  UNCHANGED <<job, jpc, committed>>
  BY DEF RCallerStep, CallerStep, Call, Execute, CheckClosing, Close, Send, CloserStep, TakeHandle, Joined, RDriver,
         TimerStep, DriverStep, ClientStep, Deadline, Interrupt, Recv, EndDriver, ClientReads,
         ClientGone, threadVars, driverVars

LEMMA RPanicKeeps == ASSUME Inv, RemoteInv, Panic, ~Blocked, UNCHANGED remoteVars PROVE RemoteInv'
  <1> USE DEF remoteVars, RemoteInv, Panic, driverVars
  <1>0. Rows' = Rows /\ Split' = Split /\ Writes' = Writes
    BY SameRows
  <1>1. BlockedInv'
    BY DEF BlockedInv, Blocked
  <1>2. ScanInv'
    BY <1>0 DEF ScanInv
  <1>3. CountInv'
    BY DEF CountInv, Broken, WritesInOrder
  <1>4. InsertInv'
    BY DEF InsertInv
  <1>5. DoneInv'
    BY <1>0 DEF DoneInv
  <1>6. WroteSeq'
    BY DEF WroteSeq
  <1> QED BY <1>1, <1>2, <1>3, <1>4, <1>5, <1>6

\* Only a statement before its commit is in a table.
LEMMA NotYetCommitted ==
  ASSUME Inv, NEW r \in Requests, job = r, jpc \in {"header", "stmt"}
  PROVE  r \notin committed /\ r # None
  BY Early, KindsAssumption DEF Terminals, Tasks

\* A statement enters a table that has not failed: nothing of it is under way.
LEMMA CallKeeps ==
  ASSUME Inv, RemoteInv, NEW r \in Requests, IsRemote(r), jpc \in {"header", "stmt"}, ~Blocked,
         vt \in {"connect", "ready", "rows"},
         NEW kind \in {"probe", "scan", "write"}, NEW arg, run_blocking(kind, arg),
         kind = "probe" => vt = "connect", kind = "scan" => arg = Split.clause,
         kind = "write" => /\ arg.n = pos + 1 
                           /\ plan.op = "insert" => pos = 0 /\ arg.op = "insert" /\ arg.id = plan.rowid,
         jpc = "stmt" => vt # "connect",
         UNCHANGED <<vars, plan, strays, ptable, cursor, pos, insertId, wrote, snapshot, others>>
  PROVE  RemoteInv'
  <1> USE DEF RemoteInv, vars, threadVars, driverVars
  <1>0. Rows' = Rows /\ Split' = Split /\ Writes' = Writes
    BY SameRows
  <1>1. r \notin committed /\ r # None /\ r = plan.by /\ job = r
    BY NotYetCommitted DEF IsRemote
  <1>2. /\ wire'.kind = "none" <=> wire'.st = "idle"
        /\ \/ /\ wire' = [st |-> "open", kind |-> kind, arg |-> arg, ans |-> "none", last |-> 0]
              /\ vt' = vt
           \/ wire' = wire /\ vt' = "failed" /\ wire.st = "idle" /\ wire.kind = "none"
    BY DEF run_blocking, BlockedInv, Blocked
  <1>3. BlockedInv'
    BY <1>1, <1>2 DEF BlockedInv, Blocked
  <1>4. ScanInv'
    BY <1>0, <1>2 DEF ScanInv
  <1>5. CountInv'
    <2>1. ~Broken /\ wire.kind = "none"
      BY DEF Broken, BlockedInv, Blocked
    <2> QED BY <1>2, <2>1 DEF CountInv, Broken, WritesInOrder
  <1>6. InsertInv'
    BY <1>2 DEF InsertInv
  <1>7. DoneInv'
    BY <1>0, <1>1, <1>2 DEF DoneInv
  <1>8. WroteSeq'
    BY DEF WroteSeq
  <1> QED BY <1>3, <1>4, <1>5, <1>6, <1>7, <1>8

\* ... or it needs no call, or cannot make one.
LEMMA NoCallKeeps ==
  ASSUME Inv, RemoteInv, NEW r \in Requests, IsRemote(r), jpc \in {"header", "stmt"}, ~Blocked,
         vt \in {"connect", "ready"}, vt' \in {"ready", "rows", "failed"}, wire' = wire,
         UNCHANGED <<vars, plan, strays, ptable, cursor, pos, insertId, wrote, snapshot, others>>
  PROVE  RemoteInv'
  <1> USE DEF RemoteInv, vars, threadVars, driverVars
  <1>0. Rows' = Rows /\ Split' = Split /\ Writes' = Writes
    BY SameRows
  <1>1. r \notin committed /\ r # None /\ r = plan.by /\ job = r
    BY NotYetCommitted DEF IsRemote
  <1>3. BlockedInv'
    BY <1>1 DEF BlockedInv, Blocked
  <1>4. ScanInv'
    BY <1>0 DEF ScanInv
  <1>5. CountInv'
    BY DEF CountInv, Broken, WritesInOrder, BlockedInv, Blocked
  <1>6. InsertInv'
    BY DEF InsertInv
  <1>7. DoneInv'
    BY <1>0, <1>1 DEF DoneInv
  <1>8. WroteSeq'
    BY DEF WroteSeq
  <1> QED BY <1>3, <1>4, <1>5, <1>6, <1>7, <1>8

LEMMA RowWriteFacts ==
  ASSUME NEW i, Writes
  PROVE  /\ RowWrite(i).n = i
         /\ plan.op = "insert" => RowWrite(i).op = "insert" /\ RowWrite(i).id = plan.rowid
  BY DEF Writes, RowWrite

LEMMA TableKeeps ==
  ASSUME Inv, RemoteInv, NEW r \in Requests, connect(r) \/ filter(r) \/ exec(r)
  PROVE  RemoteInv'
  <1>0. jpc = "stmt" /\ IsRemote(r) => vt # "connect"
    BY KindsAssumption DEF RemoteInv, DoneInv, IsRemote, Tasks
  <1>1. CASE connect(r)
    <2>1. CASE run_blocking("probe", None)
      BY <1>0, <1>1, <2>1, CallKeeps DEF connect
    <2>2. CASE vt' \in {"ready", "failed"} /\ wire' = wire
      BY <1>1, <2>2, NoCallKeeps DEF connect
    <2> QED BY <1>1, <2>1, <2>2 DEF connect
  <1>2. CASE filter(r)
    <2>1. CASE plan.op = "call" /\ run_blocking("write", RowWrite(1))
      <3>1. pos = 0
        BY <1>2 DEF filter, RemoteInv, CountInv
      <3> QED BY <1>0, <1>2, <2>1, <3>1, CallKeeps, RowWriteFacts DEF filter, Writes
    <2>2. CASE run_blocking("scan", Split.clause)
      BY <1>0, <1>2, <2>2, CallKeeps DEF filter
    <2>3. CASE vt' \in {"rows", "failed"} /\ wire' = wire
      BY <1>2, <2>3, NoCallKeeps DEF filter
    <2> QED
      <3>1. /\ plan.op \in {"select", "update", "delete", "insert", "call"}
            /\ plan.op = "call" => IsCall
        BY <1>2, PlansAssumption, KindsAssumption
           DEF filter, IsRemote, IsCall, RemoteInv, BlockedInv, Tasks
      <3> QED BY <1>2, <2>1, <2>2, <2>3, <3>1 DEF filter, Scans
  <1>3. CASE exec(r)
    <2>1. plan.op = "insert" => pos = 0
      BY <1>3 DEF exec, Rows, RemoteInv, CountInv
    <2> QED BY <1>0, <1>3, <2>1, CallKeeps, RowWriteFacts DEF exec
  <1> QED BY <1>1, <1>2, <1>3

\* The thread is blocked in a statement that has not committed.
LEMMA BlockedFacts ==
  ASSUME Inv, RemoteInv, Blocked
  PROVE  /\ plan.by \notin committed /\ plan.by # None /\ job = plan.by /\ jpc \in {"header", "stmt"}
         /\ jpc = "stmt" => vt # "connect"
         /\ vt # "failed" /\ wire.kind # "none"
  <1>1. job \in Requests /\ job = plan.by /\ jpc \in {"header", "stmt"} /\ vt # "failed"
        /\ wire.kind # "none"
    BY DEF RemoteInv, BlockedInv
  <1> QED BY <1>1, NotYetCommitted DEF RemoteInv, DoneInv

LEMMA ResumeKeeps == ASSUME Inv, RemoteInv, Resume PROVE RemoteInv'
  <1> USE DEF Resume, RemoteInv, vars, threadVars, driverVars
  <1>0. Rows' = Rows /\ Split' = Split /\ Writes' = Writes
    BY SameRows
  <1>1. Blocked /\ wire.st = "over"
    BY DEF Blocked
  <1>2. /\ plan.by \notin committed /\ plan.by # None /\ jpc \in {"header", "stmt"}
        /\ jpc = "stmt" => vt # "connect"
        /\ vt # "failed" /\ wire.kind # "none"
    BY <1>1, BlockedFacts
  <1>3. wire'.st = "idle" /\ wire'.kind = "none" /\ vt' \in {"ready", "rows", "failed"}
    BY DEF NoCall
  <1>4. BlockedInv'
    BY <1>3 DEF BlockedInv, Blocked, NoCall
  <1>5. ScanInv'
    BY <1>0, <1>3 DEF ScanInv
  <1>6. CountInv'
    <2>1. CASE wire.ans = "ok"
      BY <1>1, <1>2, <1>3, <2>1 DEF CountInv, Broken, WritesInOrder
    <2>2. CASE wire.ans # "ok"
      BY <1>1, <1>2, <1>3, <2>2 DEF CountInv, Broken, WritesInOrder
    <2> QED BY <2>1, <2>2
  <1>7. InsertInv'
    BY <1>3 DEF InsertInv, CountInv
  <1>8. DoneInv'
    BY <1>0, <1>2, <1>3 DEF DoneInv
  <1>9. WroteSeq'
    BY DEF WroteSeq
  <1> QED BY <1>4, <1>5, <1>6, <1>7, <1>8, <1>9

\* The call goes on, or is over, and nothing is written.
LEMMA WireKeeps ==
  ASSUME Inv, RemoteInv, Blocked, wire.st # "over",
         (wire' = [wire EXCEPT !.st = "sent"] /\ wire.st = "open") \/ Answered1("failed"),
         strays' = (IF wire.st = "sent" /\ wire.kind = "write" THEN strays \cup {wire.arg} ELSE strays)
           \/ strays' = strays,
         UNCHANGED <<vars, plan, vt, ptable, cursor, pos, insertId, wrote, snapshot, others>>
  PROVE  RemoteInv'
  <1> USE DEF RemoteInv, vars, threadVars, driverVars
  <1>0. Rows' = Rows /\ Split' = Split /\ Writes' = Writes
    BY SameRows
  <1>1. /\ plan.by \notin committed /\ plan.by # None /\ jpc \in {"header", "stmt"}
        /\ jpc = "stmt" => vt # "connect"
        /\ vt # "failed" /\ wire.kind # "none"
    BY BlockedFacts
  <1>2. /\ wire'.kind = wire.kind /\ wire'.arg = wire.arg /\ wire'.last = wire.last
        /\ \/ wire.st = "open" /\ wire'.st = "sent"
           \/ wire'.st = "over" /\ wire'.ans = "failed"
        /\ wire' = [st |-> wire'.st, kind |-> wire'.kind, arg |-> wire'.arg, ans |-> wire'.ans,
                    last |-> wire'.last]
    BY DEF Answered1, BlockedInv
  <1>3. BlockedInv'
    BY <1>1, <1>2 DEF BlockedInv, Blocked
  <1>4. ScanInv'
    BY <1>0, <1>2 DEF ScanInv
  <1>5. CountInv'
    <2>1. ~Broken /\ strays = {}
      BY <1>1 DEF Broken, CountInv
    <2>2. CASE wire.st = "open" /\ wire'.st = "sent"
      BY <1>1, <1>2, <2>1, <2>2 DEF CountInv, Broken, WritesInOrder
    <2>3. CASE wire'.st = "over" /\ wire'.ans = "failed"
      <3>1. strays' = {} \/ (strays' = {wire.arg} /\ wire.st = "sent" /\ wire.kind = "write")
        BY <2>1
      <3> QED BY <1>1, <1>2, <2>1, <2>3, <3>1 DEF CountInv, Broken, WritesInOrder
    <2> QED BY <1>2, <2>2, <2>3
  <1>6. InsertInv'
    BY <1>2 DEF InsertInv
  <1>7. DoneInv'
    BY <1>0, <1>1 DEF DoneInv
  <1>8. WroteSeq'
    BY DEF WroteSeq
  <1> QED BY <1>3, <1>4, <1>5, <1>6, <1>7, <1>8

LEMMA ReadReplyKeeps == ASSUME Inv, RemoteInv, ReadReply PROVE RemoteInv'
  <1> USE DEF RemoteInv, vars, threadVars, driverVars
  <1>a. Blocked /\ wire.st = "served"
    BY DEF ReadReply, Blocked
  <1>1. CASE Answered1("failed") /\ UNCHANGED insertId
    BY <1>a, <1>1, WireKeeps DEF ReadReply
  <1>2. CASE /\ Answered1("ok")
             /\ insertId' = IF wire.kind = "write" /\ plan.op = "insert"
                            THEN IF plan.rowid # 0 THEN plan.rowid ELSE wire.last
                            ELSE insertId
    <2>0. Rows' = Rows /\ Split' = Split /\ Writes' = Writes
      BY SameRows DEF ReadReply
    <2>1. /\ plan.by \notin committed /\ plan.by # None /\ jpc \in {"header", "stmt"}
          /\ vt # "failed" /\ wire.kind # "none"
      BY <1>a, BlockedFacts
    <2>2. /\ wire'.kind = wire.kind /\ wire'.arg = wire.arg /\ wire'.last = wire.last
          /\ wire'.st = "over" /\ wire'.ans = "ok"
          /\ wire' = [st |-> wire'.st, kind |-> wire'.kind, arg |-> wire'.arg, ans |-> wire'.ans,
                      last |-> wire'.last]
      BY <1>2 DEF Answered1, BlockedInv
    <2>3. BlockedInv'
      BY <1>a, <2>1, <2>2 DEF ReadReply, BlockedInv, Blocked
    <2>4. ScanInv'
      BY <2>0, <2>2 DEF ReadReply, ScanInv
    <2>5. CountInv'
      BY <1>a, <2>1, <2>2 DEF ReadReply, CountInv, Broken, WritesInOrder
    <2>6. InsertInv'
      BY <1>a, <1>2, <2>2 DEF ReadReply, InsertInv, CountInv
    <2>7. DoneInv'
      BY <2>0, <2>1 DEF ReadReply, DoneInv
    <2>8. WroteSeq'
      BY DEF ReadReply, WroteSeq
    <2> QED BY <2>3, <2>4, <2>5, <2>6, <2>7, <2>8
  <1> QED BY <1>1, <1>2 DEF ReadReply

\* A write that is served is the next of the statement.
LEMMA WroteFacts ==
  ASSUME RemoteInv, NEW w, Wrote(w), w.n = Len(wrote) + 1
  PROVE  /\ WroteSeq' /\ WritesInOrder' /\ Len(wrote') = Len(wrote) + 1
         /\ wrote'[Len(wrote) + 1].at = At(w)
         /\ Len(wrote) >= 1 => wrote'[1] = wrote[1]
  <1> DEFINE e == [n |-> w.n, at |-> At(w)]
  <1>1. PICK S : wrote \in Seq(S)
    BY DEF RemoteInv, WroteSeq
  <1>2. wrote \in Seq(S \cup {e}) /\ wrote' = Append(wrote, e)
    BY <1>1 DEF Wrote
  <1>3. e.n = Len(wrote) + 1 /\ e.at = At(w)
    OBVIOUS
  <1> HIDE DEF e
  <1>4. /\ wrote' \in Seq(S \cup {e}) /\ Len(wrote') = Len(wrote) + 1
        /\ DOMAIN wrote' = 1..(Len(wrote) + 1) /\ DOMAIN wrote = 1..Len(wrote)
        /\ \A i \in 1..Len(wrote) : wrote'[i] = wrote[i]
        /\ wrote'[Len(wrote) + 1] = e /\ Len(wrote) \in Nat
    BY <1>2
  <1>5. WroteSeq'
    BY <1>4 DEF WroteSeq
  <1>6. WritesInOrder'
    <2>1. \A i \in 1..Len(wrote) : wrote[i].n = i
      BY <1>4 DEF WritesInOrder, RemoteInv, CountInv
    <2>2. ASSUME NEW i \in 1..(Len(wrote) + 1) PROVE wrote'[i].n = i
      <3>1. CASE i = Len(wrote) + 1
        BY <1>3, <1>4, <3>1
      <3>2. CASE i # Len(wrote) + 1
        BY <1>4, <2>1, <3>2
      <3> QED BY <3>1, <3>2
    <2> QED BY <1>4, <2>2 DEF WritesInOrder
  <1> QED BY <1>3, <1>4, <1>5, <1>6

LEMMA WriteServedKeeps ==
  ASSUME Inv, RemoteInv, wire.st = "sent", wire.kind = "write", Wrote(wire.arg),
         wire' = [wire EXCEPT !.st = "served", !.last = At(wire.arg)],
         UNCHANGED <<vars, plan, vt, strays, cursor, pos, insertId, snapshot, others>>
  PROVE  RemoteInv'
  <1> USE DEF RemoteInv, vars, threadVars, driverVars
  <1>0. Rows' = Rows /\ Split' = Split /\ Writes' = Writes
    BY SameRows
  <1>1. /\ plan.by \notin committed /\ plan.by # None /\ jpc \in {"header", "stmt"}
        /\ vt # "failed"
    BY BlockedFacts DEF Blocked
  <1>2. /\ wire'.kind = "write" /\ wire'.arg = wire.arg /\ wire'.last = At(wire.arg)
        /\ wire'.st = "served" /\ wire'.ans = wire.ans
        /\ wire' = [st |-> wire'.st, kind |-> wire'.kind, arg |-> wire'.arg, ans |-> wire'.ans,
                    last |-> wire'.last]
    BY DEF BlockedInv
  <1>3. strays = {} /\ Len(wrote) = pos /\ wire.arg.n = Len(wrote) + 1
    BY <1>1 DEF CountInv, Broken
  <1>4. /\ WroteSeq' /\ WritesInOrder' /\ Len(wrote') = Len(wrote) + 1
        /\ wrote'[Len(wrote) + 1].at = At(wire.arg)
    BY <1>3, WroteFacts
  <1>5. BlockedInv'
    BY <1>1, <1>2 DEF BlockedInv, Blocked
  <1>6. ScanInv'
    BY <1>0, <1>2 DEF ScanInv
  <1>7. CountInv'
    BY <1>1, <1>2, <1>3, <1>4 DEF CountInv, Broken
  <1>8. InsertInv'
    <2>1. SUFFICES ASSUME plan.op = "insert" PROVE InsertInv'
      BY DEF InsertInv
    <2>2. pos = 0 /\ wire.arg.op = "insert" /\ wire.arg.id = plan.rowid
      BY <2>1 DEF InsertInv
    <2>3. plan.rowid # 0 => At(wire.arg) = plan.rowid
      BY <2>2 DEF At
    <2> QED BY <1>2, <1>3, <1>4, <2>2, <2>3 DEF InsertInv
  <1>9. DoneInv'
    BY <1>0, <1>1 DEF DoneInv
  <1> QED BY <1>4, <1>5, <1>6, <1>7, <1>8, <1>9

LEMMA ReadServedKeeps ==
  ASSUME Inv, RemoteInv, wire.st = "sent", wire.kind \in {"scan", "probe"},
         wire' = [wire EXCEPT !.st = "served"],
         \/ UNCHANGED <<cursor, snapshot>>
         \/ /\ wire.kind = "scan"
            /\ \/ cursor' = Select(ptable, wire.arg) /\ snapshot' = ptable
               \/ snapshot' = None,
         UNCHANGED <<vars, plan, vt, strays, ptable, wrote, pos, insertId, others>>
  PROVE  RemoteInv'
  <1> USE DEF RemoteInv, vars, threadVars, driverVars
  <1>0. Split' = Split
    BY DEF Split, IsCall
  <1>1. /\ plan.by \notin committed /\ plan.by # None /\ jpc \in {"header", "stmt"}
        /\ vt # "failed"
    BY BlockedFacts DEF Blocked
  <1>2. /\ wire'.kind = wire.kind /\ wire'.arg = wire.arg /\ wire'.st = "served"
        /\ wire' = [st |-> wire'.st, kind |-> wire'.kind, arg |-> wire'.arg, ans |-> wire'.ans,
                    last |-> wire'.last]
    BY DEF BlockedInv
  <1>3. BlockedInv'
    BY <1>1, <1>2 DEF BlockedInv, Blocked
  <1>4. ScanInv'
    BY <1>0, <1>2 DEF ScanInv
  <1>5. CountInv'
    BY <1>1, <1>2 DEF CountInv, Broken, WritesInOrder
  <1>6. InsertInv'
    BY <1>2 DEF InsertInv
  <1>7. DoneInv'
    BY <1>1 DEF DoneInv
  <1>8. WroteSeq'
    BY DEF WroteSeq
  <1> QED BY <1>3, <1>4, <1>5, <1>6, <1>7, <1>8

LEMMA PeerKeeps == ASSUME Inv, RemoteInv, PeerServes PROVE RemoteInv'
  <1>1. wire.st = "sent" /\ UNCHANGED <<vars, plan, vt, strays, pos, insertId, others>>
    BY DEF PeerServes
  <1>2. CASE /\ wire.kind = "write"
             /\ Wrote(wire.arg) /\ wire' = [wire EXCEPT !.st = "served", !.last = At(wire.arg)]
             /\ UNCHANGED <<cursor, snapshot>>
    BY <1>1, <1>2, WriteServedKeeps
  <1>3. CASE /\ wire.kind \in {"scan", "probe"} /\ wire' = [wire EXCEPT !.st = "served"]
             /\ \/ UNCHANGED <<cursor, snapshot>>
                \/ /\ wire.kind = "scan"
                   /\ \/ cursor' = Select(ptable, wire.arg) /\ snapshot' = ptable
                      \/ snapshot' = None
             /\ UNCHANGED <<ptable, wrote>>
    BY <1>1, <1>3, ReadServedKeeps
  <1>4. CASE Answered1("failed") /\ UNCHANGED <<cursor, snapshot, ptable, wrote>>
    BY <1>1, <1>4, WireKeeps DEF Blocked
  <1> QED BY <1>2, <1>3, <1>4 DEF PeerServes

\* The peer serves a write after its caller gave up: the statement has failed.
LEMMA StrayKeeps == ASSUME Inv, RemoteInv, NEW w \in strays, StrayServed(w) PROVE RemoteInv'
  <1> USE DEF StrayServed, RemoteInv, vars, threadVars, driverVars
  <1>0. Rows' = Rows /\ Split' = Split /\ Writes' = Writes
    BY SameRows
  <1>1. Broken /\ w.n = Len(wrote) + 1 /\ strays' = {}
    BY DEF CountInv
  <1>2. /\ WroteSeq' /\ WritesInOrder'
        /\ Len(wrote') \in {Len(wrote), Len(wrote) + 1}
        /\ Len(wrote) >= 1 => wrote'[1] = wrote[1]
    <2>1. CASE Wrote(w)
      BY <1>1, <2>1, WroteFacts
    <2>2. CASE UNCHANGED <<ptable, wrote>>
      BY <2>2 DEF WroteSeq, WritesInOrder, CountInv
    <2> QED BY <2>1, <2>2
  <1>3. BlockedInv'
    BY DEF BlockedInv, Blocked
  <1>4. ScanInv'
    BY <1>0 DEF ScanInv
  <1>5. CountInv'
    <2>1. ~(wire.kind = "write" /\ wire.st \in {"open", "sent"})
      BY <1>1 DEF Broken, BlockedInv, Blocked
    <2> QED BY <1>1, <1>2, <2>1 DEF CountInv, Broken
  <1>6. InsertInv'
    <2>1. ~(wire.kind = "write" /\ wire.st = "served")
          /\ ~(wire.kind = "write" /\ wire.st = "over" /\ wire.ans = "ok")
      BY <1>1 DEF Broken, BlockedInv, Blocked
    <2>2. pos >= 1 => wrote'[1] = wrote[1]
      BY <1>2 DEF CountInv
    <2> QED BY <2>1, <2>2 DEF InsertInv
  <1>7. DoneInv'
    BY <1>0 DEF DoneInv
  <1> QED BY <1>2, <1>3, <1>4, <1>5, <1>6, <1>7

LEMMA OthersKeep == ASSUME Inv, RemoteInv, OtherWrites PROVE RemoteInv'
  <1> USE DEF OtherWrites, RemoteInv, vars, threadVars, driverVars
  <1>0. Rows' = Rows /\ Split' = Split /\ Writes' = Writes
    BY SameRows
  <1>1. BlockedInv' /\ WroteSeq'
    BY DEF BlockedInv, Blocked, WroteSeq
  <1>2. ScanInv'
    BY <1>0 DEF ScanInv
  <1>3. CountInv' /\ InsertInv'
    BY DEF CountInv, InsertInv, Broken, WritesInOrder
  <1>4. DoneInv'
    BY <1>0 DEF DoneInv
  <1> QED BY <1>1, <1>2, <1>3, <1>4

LEMMA InitRemote == RInit => RemoteInv
  <1> SUFFICES ASSUME RInit PROVE RemoteInv
    OBVIOUS
  <1> USE DEF RInit, Init
  <1>1. BlockedInv
    BY DEF BlockedInv, Blocked, NoCall
  <1>2. ScanInv /\ InsertInv
    BY DEF ScanInv, InsertInv, NoCall
  <1>3. CountInv
    BY DEF CountInv, Broken, NoCall, WritesInOrder
  <1>4. DoneInv
    BY DEF DoneInv
  <1>5. WroteSeq
    BY DEF WroteSeq
  <1> QED BY <1>1, <1>2, <1>3, <1>4, <1>5 DEF RemoteInv

LEMMA RNextKeeps == ASSUME Inv, RemoteInv, [RNext]_rvars PROVE RemoteInv'
  <1>1. CASE RThreadStep
    BY <1>1, RThreadKeeps
  <1>2. CASE RCallerStep \/ (CloserStep /\ UNCHANGED remoteVars) \/ \E r \in Requests : RDriver(r)
    <2>1. UNCHANGED <<job, jpc, committed>>
      BY <1>2, OtherStepsQuiet
    <2>2. UNCHANGED remoteVars
      BY <1>2 DEF RCallerStep, RDriver
    <2> QED BY <2>1, <2>2, QuietKeeps
  <1>3. CASE Panic /\ ~Blocked /\ UNCHANGED remoteVars
    BY <1>3, RPanicKeeps
  <1>4. CASE TableStep
    BY <1>4, ResumeKeeps, TableKeeps DEF TableStep
  <1>5. CASE SendRequest
    BY <1>5, WireKeeps DEF SendRequest, Blocked
  <1>6. CASE Elapsed
    BY <1>6, WireKeeps DEF Elapsed, Blocked
  <1>7. CASE PeerServes \/ ReadReply \/ OtherWrites \/ \E w \in strays : StrayServed(w)
    BY <1>7, PeerKeeps, ReadReplyKeeps, OthersKeep, StrayKeeps
  <1>8. CASE UNCHANGED rvars
    BY <1>8, QuietKeeps DEF rvars, vars, threadVars, driverVars
  <1> QED BY <1>1, <1>2, <1>3, <1>4, <1>5, <1>6, <1>7, <1>8 DEF RNext

\* The invariants hold of the thread and its remote tables, whatever the peer, its network and its
\* other clients do.
THEOREM RemoteInvariance == RSpec => [](Inv /\ RemoteInv)
  <1>1. RInit => Inv /\ RemoteInv
    BY InitInv, InitRemote DEF RInit
  <1>2. Inv /\ RemoteInv /\ [RNext]_rvars => (Inv /\ RemoteInv)'
    BY RNextIsNext, NextKeepsInv, RNextKeeps
  <1> QED BY <1>1, <1>2, PTL DEF RSpec

\* A thread that is blocked in run_blocking is in the statement that named the remote table, its
\* state is well formed, and nothing runs that was submitted after a close() returned.
THEOREM ThreadIsSound == RSpec => []ThreadSound
  <1>1. Inv /\ RemoteInv => ThreadSound
    BY DEF Inv, CloseInv, RemoteInv, BlockedInv, ThreadSound, NothingRunsAfterClose
  <1> QED BY <1>1, RemoteInvariance, PTL

\* What best_index leaves to sqlite and what it sends make up the whole WHERE.
LEMMA PushdownSplits ==
  ASSUME NEW t
  PROVE  {x \in Select(t, Split.clause) : Satisfies(x, Split.local)} = Select(t, plan.where)
  <1>1. \A x : Satisfies(x, Split.clause) /\ Satisfies(x, Split.local) <=> Satisfies(x, plan.where)
    BY DEF Split, best_index, Satisfies
  <1> QED BY <1>1 DEF Select

\* A remote table tells the truth: sqlite works on the peer's rows that satisfy the whole WHERE,
\* writes reach the peer in order and once, those of calls given up included, and a statement
\* answered as done wrote every row and reports the rowid the peer gave (best_index, filter, exec,
\* insert and run_blocking in remote.rs).
THEOREM RemoteIsTrue == RSpec => []RemoteTruly
  <1>1. ASSUME Inv, RemoteInv PROVE RemoteTruly
    <2>1. PushdownExact
      BY <1>1, PushdownSplits DEF RemoteInv, ScanInv, PushdownExact, Checked
    <2>2. WritesInOrder
      BY <1>1 DEF RemoteInv, CountInv
    <2>3. DoneMeansWritten
      <3>1. SUFFICES ASSUME plan.by # None, told[plan.by] = "done", vt = "rows", Writes
                     PROVE  Len(wrote) = Rows /\ (plan.op = "insert" => insertId = wrote[1].at)
        BY DEF DoneMeansWritten
      <3>2. plan.by \in committed
        BY <1>1, <3>1, PlansAssumption
           DEF RemoteInv, BlockedInv, Inv, FrameInv, Truthful, True, Terminals
      <3>3. pos = Rows
        BY <1>1, <3>1, <3>2 DEF RemoteInv, DoneInv
      <3>4. ~Blocked
        BY <1>1, <3>2, BlockedFacts
      <3>5. Len(wrote) = pos
        BY <1>1, <3>1, <3>4 DEF RemoteInv, CountInv, Broken, BlockedInv, Blocked
      <3> QED BY <1>1, <3>1, <3>3, <3>5 DEF RemoteInv, InsertInv, Rows
    <2> QED BY <2>1, <2>2, <2>3 DEF RemoteTruly
  <1> QED BY <1>1, RemoteInvariance, PTL

\* The clients of a node with remote tables are told the truth as well.
COROLLARY RemoteAnswersAreTrue == RSpec => []AnswerMatchesCommit
  BY RemoteRefines, AnswersAreTrue, PTL
=============================================================================
