--------------------------- MODULE AdmissionProofs ---------------------------
(***************************************************************************)
(* Proofs, for any peers, shapes, sessions, rules, chains and masks, of    *)
(* what Admission.cfg checks on one peer and two sessions; and of the two  *)
(* judgments a request or a knock meets first.  For every `_policy` table  *)
(* and every request the loops of the policy tier compute what the table   *)
(* says; and the rate bound of the knock buckets holds for every set of    *)
(* keys, every capacity and refill rate, any number of knocks and any      *)
(* clock.                                                                  *)
(***************************************************************************)
EXTENDS Admission, PolicyTier, KnockBudget, TLAPS

-----------------------------------------------------------------------------
(* The inductive invariant. *)

\* The statements a session may have to run.
Granted == UNION {Range(gs) : gs \in GrantLists}
RuleTables == {Star} \cup UNION {Range(Foot[s]) : s \in Shapes}
Actions == {"knock"} \cup {Action[s] : s \in Shapes}
GrantedTables == {g.table : g \in Granted}
GrantedActions == {g.action : g \in Granted}
RuleRows == [who : Peers, table : RuleTables \cup GrantedTables,
             action : Actions \cup GrantedActions, effect : Decisions]
Stmts == ({"mark"} \X Ids \X Decisions) \cup ({"cache"} \X Peers \X Shapes \X Decisions)
         \cup ({"rule"} \X RuleRows) \cup ({"admit", "forget", "unrule", "uncache"} \X Peers)

TodoType == todo \in [Sessions -> Seq(Stmts)]

\* A row that waits names its peer, and is the only one for its peer and shape.
InboxInv ==
  /\ \A i \in Ids : inbox[i].st = "pending" => inbox[i].peer \in Peers
  /\ OnePendingRow

\* What is remembered as allowed, or is about to be, the owner has allowed.
OwnerInv ==
  /\ \A x \in Peers \X Shapes : cache[x] = "allow" => x \in okd
  /\ \A o \in Sessions : \A n \in DOMAIN todo[o] :
       todo[o][n][1] = "cache" /\ todo[o][n][4] = "allow" => <<todo[o][n][2], todo[o][n][3]>> \in okd

\* What a session is about to do is about a peer that is neither removed nor on the way out.
About(st, S) ==
  /\ st[1] = "rule" => st[2].who \notin S
  /\ st[1] = "cache" => st[2] \notin S

NoAllow(p) == \A r \in policy : r.who = p => r.effect = "deny"

\* Of the n-th statement of a session: its row is marked first, while the row waits; what it
\* remembers is the answer on the row; the rules of a peer go before its decisions.
InTurn(t, n) ==
  /\ t[n][1] = "mark" => n = 1 /\ inbox[t[n][2]].st = "pending"
  /\ t[n][1] = "cache" /\ t[n][4] = "allow" =>
       \E i \in Ids : /\ inbox[i].peer = t[n][2] /\ inbox[i].about = t[n][3]
                      /\ inbox[i].st = "allow" \/ t[1] = <<"mark", i, "allow">>
  /\ About(t[n], leaving \cup removed)
  /\ t[n][1] = "uncache" /\ t[n][2] \in leaving =>
       \/ \E m \in DOMAIN t : m < n /\ t[m] = <<"unrule", t[n][2]>>
       \/ NoAllow(t[n][2])

SerialInv ==
  /\ \A o, q \in Sessions : todo[o] # <<>> /\ todo[q] # <<>> => o = q
  /\ \A o \in Sessions : \A n \in DOMAIN todo[o] : InTurn(todo[o], n)
  /\ CacheAgreesWithInbox /\ RemovedHoldNothing

Inv == /\ TypeOK /\ TodoType /\ InboxInv /\ OwnerInv /\ ClearedByOwner
       /\ ~overlap => SerialInv

-----------------------------------------------------------------------------
(* Statements and sequences of them. *)

LEMMA SeqDef == ASSUME NEW S, NEW n \in Nat, NEW f \in [1..n -> S] PROVE f \in Seq(S)
  OBVIOUS

LEMMA StmtFacts ==
  ASSUME NEW st \in Stmts
  PROVE  /\ st[1] \in {"mark", "cache", "rule", "admit", "forget", "unrule", "uncache"}
         /\ st[1] = "mark" => st[2] \in Ids /\ st[3] \in Decisions /\ st = <<"mark", st[2], st[3]>>
         /\ st[1] = "cache" => st[2] \in Peers /\ st[3] \in Shapes /\ st[4] \in Decisions
         /\ st[1] = "rule" => st[2] \in RuleRows
         /\ st[1] \in {"admit", "forget", "unrule", "uncache"} => st[2] \in Peers
         /\ st[1] = "unrule" => st = <<"unrule", st[2]>>
  <1>1. CASE st \in {"mark"} \X Ids \X Decisions
    BY <1>1
  <1>2. CASE st \in {"cache"} \X Peers \X Shapes \X Decisions
    BY <1>2
  <1>3. CASE st \in {"rule"} \X RuleRows
    BY <1>3
  <1>4. CASE st \in {"admit", "forget", "unrule", "uncache"} \X Peers
    BY <1>4
  <1> QED BY <1>1, <1>2, <1>3, <1>4 DEF Stmts

\* The statements of an answer about p, after the first.
Rest(p, s, d) == {Admit(p)} \cup {<<"rule", r>> : r \in {q \in RuleRows : q.who = p}}
                 \cup (IF s = Knock THEN {} ELSE {Remember(p, s, d)})

LEMMA RestFacts ==
  ASSUME NEW p \in Peers, NEW s \in Shapes \cup {Knock}, NEW d \in Decisions, NEW st \in Rest(p, s, d)
  PROVE  /\ st \in Stmts /\ st[1] \in {"admit", "rule", "cache"}
         /\ st[1] = "rule" => st[2].who = p
         /\ st[1] = "cache" => s # Knock /\ st[2] = p /\ st[3] = s /\ st[4] = d
  <1>1. CASE st = Admit(p)
    BY <1>1 DEF Admit, Stmts
  <1>2. CASE \E r \in RuleRows : r.who = p /\ st = <<"rule", r>>
    BY <1>2 DEF Stmts
  <1>3. CASE s # Knock /\ st = Remember(p, s, d)
    BY <1>3 DEF Remember, Stmts
  <1> QED BY <1>1, <1>2, <1>3 DEF Rest

LEMMA GrantsType ==
  ASSUME NEW p \in Peers, NEW s, NEW d, NEW gs \in GrantLists
  PROVE  Grants(p, gs) \in Seq(Rest(p, s, d))
  <1>1. gs \in Seq(Range(gs)) /\ Len(gs) \in Nat /\ DOMAIN gs = 1..Len(gs)
    BY RulesAssumption
  <1>2. ASSUME NEW n \in 1..Len(gs) PROVE <<"rule", RowOf(p, gs[n])>> \in Rest(p, s, d)
    <2>1. gs[n] \in Granted
      BY <1>1 DEF Range, Granted
    <2>2. PICK g \in Granted : g = gs[n]
      BY <2>1
    <2>3. g.table \in GrantedTables /\ g.action \in GrantedActions
      BY DEF GrantedTables, GrantedActions
    <2>4. RowOf(p, g) \in RuleRows /\ RowOf(p, g).who = p
      BY <2>3 DEF RowOf, RuleRows, Decisions
    <2> QED BY <2>2, <2>4 DEF Rest
  <1>3. Grants(p, gs) \in [1..Len(gs) -> Rest(p, s, d)]
    BY <1>2 DEF Grants
  <1> QED BY <1>1, <1>3, SeqDef

LEMMA RuleType ==
  ASSUME NEW p \in Peers, NEW s, NEW d \in Decisions,
         NEW x \in Shapes, NEW t \in {Star} \cup Range(Foot[x])
  PROVE  Rule(p, t, Action[x], d) \in Rest(p, s, d)
  <1> DEFINE r == [who |-> p, table |-> t, action |-> Action[x], effect |-> d]
  <1>1. t \in RuleTables /\ Action[x] \in Actions
    BY DEF RuleTables, Actions
  <1>2. r \in RuleRows /\ r.who = p
    BY <1>1 DEF RuleRows
  <1> QED BY <1>2 DEF Rule, Rest

LEMMA GeneratedType ==
  ASSUME NEW p \in Peers, NEW s \in Shapes, NEW d \in Decisions
  PROVE  Generated(p, s, d) \in Seq(Rest(p, s, d))
  <1>1. CASE Foot[s] = <<>>
    <2>1. Rule(p, Star, Action[s], d) \in Rest(p, s, d)
      BY RuleType
    <2> QED BY <1>1, <2>1 DEF Generated
  <1>2. CASE Foot[s] # <<>>
    <2>1. Len(Foot[s]) \in Nat /\ DOMAIN Foot[s] = 1..Len(Foot[s])
      BY RulesAssumption
    <2>2. ASSUME NEW n \in 1..Len(Foot[s]) PROVE Rule(p, Foot[s][n], Action[s], d) \in Rest(p, s, d)
      <3>1. Foot[s][n] \in Range(Foot[s])
        BY <2>1 DEF Range
      <3> QED BY <3>1, RuleType
    <2>3. Generated(p, s, d) \in [1..Len(Foot[s]) -> Rest(p, s, d)]
      BY <1>2, <2>2 DEF Generated
    <2> QED BY <2>1, <2>3, SeqDef
  <1> QED BY <1>1, <1>2

\* The statements t of an answer of d to row i, about p and s.
IsAnswer(t, i, p, s, d) ==
  /\ t \in Seq(Stmts) /\ t # <<>> /\ t[1] = <<"mark", i, d>>
  /\ \A n \in DOMAIN t : n # 1 =>
       /\ t[n][1] \in {"admit", "rule", "cache"} /\ (t[n][1] = "rule" => t[n][2].who = p)
       /\ t[n][1] = "cache" => s # Knock /\ t[n][2] = p /\ t[n][3] = s /\ t[n][4] = d

LEMMA AnswerFacts ==
  ASSUME NEW i \in Ids, NEW p, NEW s, NEW d \in Decisions, NEW R, R \subseteq Stmts,
         \A st \in R : /\ st[1] \in {"admit", "rule", "cache"} /\ (st[1] = "rule" => st[2].who = p)
                       /\ st[1] = "cache" => s # Knock /\ st[2] = p /\ st[3] = s /\ st[4] = d,
         NEW rest \in Seq(R)
  PROVE  IsAnswer(<<Mark(i, d)>> \o rest, i, p, s, d)
  <1> DEFINE t == <<Mark(i, d)>> \o rest
  <1>1. <<"mark", i, d>> \in Stmts
    BY DEF Stmts
  <1>2. Len(rest) \in Nat /\ \A n \in 1..Len(rest) : rest[n] \in R
    OBVIOUS
  <1>3. rest \in Seq(Stmts)
    BY <1>2
  <1>4. t \in Seq(Stmts)
    BY <1>1, <1>3 DEF Mark
  <1>5. DOMAIN t = 1..(Len(rest) + 1) /\ t[1] = <<"mark", i, d>>
        /\ \A n \in 2..(Len(rest) + 1) : t[n] = rest[n - 1]
    BY <1>1, <1>3 DEF Mark
  <1>6. t # <<>>
    BY <1>2, <1>5
  <1> HIDE DEF t
  <1>7. \A n \in DOMAIN t : n # 1 => t[n] \in R
    <2> SUFFICES ASSUME NEW n \in DOMAIN t, n # 1 PROVE t[n] \in R
      OBVIOUS
    <2>1. n \in 2..(Len(rest) + 1) /\ n - 1 \in 1..Len(rest)
      BY <1>2, <1>5
    <2> QED BY <1>2, <1>5, <2>1
  <1> QED BY <1>4, <1>5, <1>6, <1>7 DEF t, IsAnswer

\* An answer marks its row, then writes about the row's peer and shape only.
LEMMA AnswersAre ==
  ASSUME NEW o, NEW i \in Ids, NEW p \in Peers, NEW s \in Shapes \cup {Knock},
         NEW d \in Decisions, NEW m \in BOOLEAN, NEW gs \in GrantLists
  PROVE  /\ s = Knock => IsAnswer(AnswerKnock(o, i, p, d, gs), i, p, s, d)
         /\ s # Knock => IsAnswer(AnswerShape(o, i, p, s, d, m, gs), i, p, s, d)
  <1>0. PICK R : R = Rest(p, s, d)
    OBVIOUS
  <1>1. /\ R \subseteq Stmts
        /\ \A st \in R : /\ st[1] \in {"admit", "rule", "cache"} /\ (st[1] = "rule" => st[2].who = p)
                         /\ st[1] = "cache" => s # Knock /\ st[2] = p /\ st[3] = s /\ st[4] = d
    BY <1>0, RestFacts
  <1>2. Grants(p, gs) \in Seq(R) /\ <<>> \in Seq(R)
    BY <1>0, GrantsType
  <1>3. \A rest \in Seq(R) : IsAnswer(<<Mark(i, d)>> \o rest, i, p, s, d)
    BY <1>1, AnswerFacts
  <1>4. CASE s = Knock
    <2>1. Admit(p) \in R
      BY <1>0 DEF Rest
    <2>2. Rule(p, Star, "knock", "deny") \in R
      <3> DEFINE r == [who |-> p, table |-> Star, action |-> "knock", effect |-> "deny"]
      <3>1. r \in RuleRows /\ r.who = p
        BY DEF RuleRows, RuleTables, Actions, Decisions
      <3> QED BY <1>0, <3>1 DEF Rest, Rule
    <2>3. <<Admit(p)>> \o Grants(p, gs) \in Seq(R) /\ <<Rule(p, Star, "knock", "deny")>> \in Seq(R)
      BY <1>2, <2>1, <2>2
    <2>4. PICK rest \in Seq(R) : AnswerKnock(o, i, p, d, gs) = <<Mark(i, d)>> \o rest
      BY <1>2, <2>3 DEF AnswerKnock
    <2> QED BY <1>3, <1>4, <2>4
  <1>5. CASE s # Knock
    <2>1. Remember(p, s, d) \in R
      BY <1>0, <1>5 DEF Rest
    <2>2. Generated(p, s, d) \in Seq(R)
      BY <1>0, <1>5, GeneratedType
    <2> DEFINE grants == IF d = "allow" THEN Grants(p, gs) ELSE <<>>
               remembered == <<Remember(p, s, d)>> \o (IF m THEN Generated(p, s, d) ELSE <<>>)
               all == IF o \in Web THEN remembered \o grants ELSE grants \o remembered
    <2>3. grants \in Seq(R)
      BY <1>2
    <2>4. remembered \in Seq(R)
      <3>1. (IF m THEN Generated(p, s, d) ELSE <<>>) \in Seq(R) /\ <<Remember(p, s, d)>> \in Seq(R)
        BY <1>2, <2>1, <2>2
      <3> QED BY <3>1
    <2>5. all \in Seq(R)
      <3> HIDE DEF grants, remembered
      <3> QED BY <2>3, <2>4
    <2>6. AnswerShape(o, i, p, s, d, m, gs) = <<Mark(i, d)>> \o all
      BY DEF AnswerShape
    <2> HIDE DEF all
    <2> QED BY <1>3, <1>5, <2>5, <2>6
  <1> QED BY <1>4, <1>5

-----------------------------------------------------------------------------
(* Steps that leave the sessions alone. *)

Waiting(i) == inbox[i].st # "free"

LEMMA ParkFacts ==
  ASSUME TypeOK, InboxInv, NEW p \in Peers, NEW about \in Shapes \cup {Knock}, Park(p, about)
  PROVE  /\ inbox' \in [Ids -> [st : {"free", "pending"} \cup Decisions,
                                peer : Peers \cup {None}, about : Shapes \cup {Knock}]]
         /\ InboxInv'
         /\ \A i \in Ids : Waiting(i) => inbox'[i] = inbox[i]
  <1> USE DEF TypeOK
  <1>1. CASE UNCHANGED inbox
    BY <1>1 DEF InboxInv, OnePendingRow
  <1>2. ASSUME Pending(p, about) = {}, NEW i \in Ids, inbox[i].st = "free",
               inbox' = [inbox EXCEPT ![i] = [st |-> "pending", peer |-> p, about |-> about]]
        PROVE  /\ inbox' \in [Ids -> [st : {"free", "pending"} \cup Decisions,
                                      peer : Peers \cup {None}, about : Shapes \cup {Knock}]]
               /\ InboxInv'
               /\ \A j \in Ids : Waiting(j) => inbox'[j] = inbox[j]
    <2>1. \A j \in Ids : ~(inbox[j].st = "pending" /\ inbox[j].peer = p /\ inbox[j].about = about)
      BY <1>2 DEF Pending
    <2>2. /\ inbox'[i].st = "pending" /\ inbox'[i].peer = p /\ inbox'[i].about = about
          /\ \A j \in Ids \ {i} : inbox'[j] = inbox[j]
      BY <1>2
    <2>3. InboxInv'
      <3>1. \A j \in Ids : inbox'[j].st = "pending" => inbox'[j].peer \in Peers
        BY <2>2 DEF InboxInv
      <3>2. ASSUME NEW j \in Ids, NEW k \in Ids, inbox'[j].st = "pending", inbox'[k].st = "pending",
                   inbox'[j].peer = inbox'[k].peer, inbox'[j].about = inbox'[k].about
            PROVE  j = k
        <4>1. CASE j # i /\ k # i
          BY <2>2, <3>2, <4>1 DEF InboxInv, OnePendingRow
        <4>2. CASE j # i /\ k = i
          BY <2>1, <2>2, <3>2, <4>2
        <4>3. CASE j = i /\ k # i
          BY <2>1, <2>2, <3>2, <4>3
        <4> QED BY <4>1, <4>2, <4>3
      <3> QED BY <3>1, <3>2 DEF InboxInv, OnePendingRow
    <2>4. \A j \in Ids : Waiting(j) => inbox'[j] = inbox[j]
      BY <1>2, <2>2 DEF Waiting
    <2> QED BY <1>2, <2>3, <2>4
  <1> QED BY <1>1, <1>2 DEF Park

LEMMA QuietKeepsSerial ==
  ASSUME TypeOK, TodoType, SerialInv, UNCHANGED <<todo, cache>>,
         leaving' \subseteq leaving, removed' \subseteq removed,
         \A i \in Ids : Waiting(i) => inbox'[i] = inbox[i],
         \A r \in policy' \ policy : r.who \notin leaving' \cup removed'
  PROVE  SerialInv'
  <1>1. \A p \in leaving' \cup removed' : NoAllow(p) => NoAllow(p)'
    BY DEF NoAllow
  <1>2. ASSUME NEW o \in Sessions, NEW n \in DOMAIN todo[o] PROVE InTurn(todo[o], n)'
    <2>1. PICK t \in Seq(Stmts) : t = todo[o]
      BY DEF TodoType
    <2>2. t[n] \in Stmts /\ 1 \in DOMAIN t /\ t[1] \in Stmts
      BY <2>1
    <2>i. InTurn(t, n) /\ InTurn(t, 1)
      BY <2>1, <2>2 DEF SerialInv
    <2>3. t[n][1] = "mark" => n = 1 /\ inbox'[t[n][2]].st = "pending"
      BY <2>i, <2>2, StmtFacts DEF InTurn, Waiting
    <2>4. ASSUME t[n][1] = "cache", t[n][4] = "allow"
          PROVE  \E i \in Ids : /\ inbox'[i].peer = t[n][2] /\ inbox'[i].about = t[n][3]
                                /\ inbox'[i].st = "allow" \/ t[1] = <<"mark", i, "allow">>
      <3>1. PICK i \in Ids : /\ inbox[i].peer = t[n][2] /\ inbox[i].about = t[n][3]
                             /\ inbox[i].st = "allow" \/ t[1] = <<"mark", i, "allow">>
        BY <2>i, <2>4 DEF InTurn
      <3>2. t[1] = <<"mark", i, "allow">> => inbox[i].st = "pending"
        BY <2>i DEF InTurn
      <3>3. inbox'[i] = inbox[i]
        BY <3>1, <3>2 DEF Waiting
      <3> QED BY <3>1, <3>3
    <2>5. About(t[n], leaving' \cup removed')
      BY <2>i DEF InTurn, About
    <2>6. t[n][1] = "uncache" /\ t[n][2] \in leaving' =>
             (\E m \in DOMAIN t : m < n /\ t[m] = <<"unrule", t[n][2]>>) \/ NoAllow(t[n][2])'
      BY <1>1, <2>i DEF InTurn
    <2>7. InTurn(t, n)'
      BY <2>3, <2>4, <2>5, <2>6 DEF InTurn
    <2> QED BY <2>1, <2>7
  <1>3. CacheAgreesWithInbox'
    BY DEF SerialInv, CacheAgreesWithInbox, Waiting
  <1>4. RemovedHoldNothing'
    BY DEF SerialInv, RemovedHoldNothing
  <1> QED BY <1>2, <1>3, <1>4 DEF SerialInv

\* A tier that allows: the cache by an answer of the owner, the policy by rules for every table.
LEMMA PolicyAllows ==
  ASSUME NEW pol, NEW p, NEW foot, NEW a, PolicySays(pol, p, foot, a) = "allow", NEW t \in Resources(foot)
  PROVE  \E r \in Matching(pol, p, t, a) : r.effect = "allow"
  <1> DEFINE M == Matching(pol, p, t, a)
  <1>1. Resolved(M) \notin {"deny", "unmatched"}
    BY DEF PolicySays
  <1>2. M # {} /\ \A r \in MostSpecific(M) : r.effect = "allow"
    BY <1>1 DEF Resolved
  <1>3. MostSpecific(M) # {}
    <2> HIDE DEF M
    <2>1. \A r \in M : Score(r) \in {0, 1, 2, 3}
      BY DEF Score
    <2>2. CASE \E r \in M : Score(r) = 3
      BY <2>1, <2>2 DEF MostSpecific
    <2>3. CASE (\A r \in M : Score(r) # 3) /\ \E r \in M : Score(r) = 2
      BY <2>1, <2>3 DEF MostSpecific
    <2>4. CASE (\A r \in M : Score(r) \notin {2, 3}) /\ \E r \in M : Score(r) = 1
      BY <2>1, <2>4 DEF MostSpecific
    <2>5. CASE \A r \in M : Score(r) \notin {1, 2, 3}
      BY <1>2, <2>1, <2>5 DEF MostSpecific
    <2> QED BY <2>2, <2>3, <2>4, <2>5
  <1>4. MostSpecific(M) \subseteq M
    BY DEF MostSpecific
  <1> QED BY <1>2, <1>3, <1>4

LEMMA ScreenClears ==
  ASSUME TypeOK, OwnerInv, NEW p \in Peers, NEW s \in Shapes, Screen(p, s)
  PROVE  ClearedByOwner'
  <1>1. PICK broken \in SUBSET Failing :
          last' = <<p, s, p \in peers /\ ChainDecides(p, s, broken) = "allow">>
    BY DEF Screen
  <1>2. UNCHANGED <<masked, peers, policy, cache, okd, rules>>
    BY DEF Screen, history
  <1>3. ASSUME p \in peers, ChainDecides(p, s, broken) = "allow"
        PROVE  \/ <<"cache", "allow", Action[s]>> \notin masked /\ <<p, s>> \in okd
               \/ /\ <<"policy", "allow", Action[s]>> \notin masked
                  /\ \A t \in Resources(Range(Foot[s])) :
                       \E r \in Matching(rules, p, t, Action[s]) : r.effect = "allow"
    <2>1. PICK i \in Answers(p, s, broken) : TierSays(Chain[i], p, s, broken) = "allow"
      BY <1>3 DEF ChainDecides
    <2>2. i \in DOMAIN Chain /\ <<Chain[i], "allow", Action[s]>> \notin masked
      BY <2>1 DEF Answers
    <2>3. Chain[i] \in Tiers /\ Chain[i] \notin broken
      BY <2>1, <2>2, ChainAssumption DEF TierSays
    <2>4. CASE Chain[i] = "cache"
      <3>1. cache[<<p, s>>] = "allow"
        BY <2>1, <2>3, <2>4 DEF TierSays, CacheTier
      <3> QED BY <2>2, <2>4, <3>1 DEF OwnerInv
    <2>5. CASE Chain[i] = "policy"
      <3>1. PolicySays(policy, p, Range(Foot[s]), Action[s]) = "allow"
        BY <2>1, <2>3, <2>5 DEF TierSays, PolicyTier
      <3>2. \A t : Matching(policy, p, t, Action[s]) \subseteq Matching(rules, p, t, Action[s])
        BY DEF TypeOK, Matching
      <3>3. \A t \in Resources(Range(Foot[s])) :
              \E r \in Matching(rules, p, t, Action[s]) : r.effect = "allow"
        BY <3>1, <3>2, PolicyAllows
      <3> QED BY <2>2, <2>5, <3>3
    <2>6. CASE Chain[i] = "human"
      BY <2>1, <2>3, <2>6 DEF TierSays, HumanTier
    <2> QED BY <2>3, <2>4, <2>5, <2>6 DEF Tiers
  <1>4. last'[1] = p /\ last'[2] = s /\ last'[3] = (p \in peers /\ ChainDecides(p, s, broken) = "allow")
    BY <1>1
  <1> QED BY <1>2, <1>3, <1>4 DEF ClearedByOwner

\* Requests, knocks, and what the owner does at once.
LEMMA QuietKeepsInv ==
  ASSUME Inv, UNCHANGED <<todo, cache, holder, overlap, okd>>, TypeOK', InboxInv', ClearedByOwner',
         leaving' \subseteq leaving, removed' \subseteq removed,
         \A i \in Ids : Waiting(i) => inbox'[i] = inbox[i],
         \A r \in policy' \ policy : r.who \notin leaving' \cup removed'
  PROVE  Inv'
  <1>1. TodoType' /\ OwnerInv'
    BY DEF Inv, TodoType, OwnerInv
  <1>2. ~overlap' => SerialInv'
    BY QuietKeepsSerial DEF Inv
  <1> QED BY <1>1, <1>2 DEF Inv

LEMMA RemoteKeepsInv == ASSUME Inv, Remote PROVE Inv'
  <1> USE DEF Inv, history
  <1>1. ASSUME NEW p \in Peers, NEW s \in Shapes, Screen(p, s) PROVE Inv'
    <2>1. /\ UNCHANGED <<todo, cache, holder, overlap, okd, leaving, removed, policy, peers, masked, rules>>
          /\ UNCHANGED inbox \/ Park(p, s)
      BY <1>1 DEF Screen
    <2>2. ClearedByOwner'
      BY <1>1, ScreenClears
    <2>3. /\ inbox' \in [Ids -> [st : {"free", "pending"} \cup Decisions,
                                 peer : Peers \cup {None}, about : Shapes \cup {Knock}]]
          /\ InboxInv' /\ \A i \in Ids : Waiting(i) => inbox'[i] = inbox[i]
      <3>1. CASE UNCHANGED inbox
        BY <3>1 DEF TypeOK, InboxInv, OnePendingRow
      <3> QED BY <2>1, <3>1, ParkFacts
    <2>4. TypeOK'
      BY <2>1, <2>3 DEF TypeOK
    <2> QED BY <2>1, <2>2, <2>3, <2>4, QuietKeepsInv
  <1>2. ASSUME NEW p \in Peers, KnockAt(p) PROVE Inv'
    <2>1. /\ UNCHANGED <<todo, cache, holder, overlap, okd, leaving, removed, policy, masked, rules>>
          /\ UNCHANGED inbox \/ Park(p, Knock)
          /\ peers' \in SUBSET Peers /\ last' = None
      BY <1>2 DEF KnockAt, TypeOK
    <2>2. ClearedByOwner'
      BY <2>1 DEF ClearedByOwner
    <2>3. /\ inbox' \in [Ids -> [st : {"free", "pending"} \cup Decisions,
                                 peer : Peers \cup {None}, about : Shapes \cup {Knock}]]
          /\ InboxInv' /\ \A i \in Ids : Waiting(i) => inbox'[i] = inbox[i]
      <3>1. CASE UNCHANGED inbox
        BY <3>1 DEF TypeOK, InboxInv, OnePendingRow
      <3> QED BY <2>1, <3>1, ParkFacts
    <2>4. TypeOK'
      BY <2>1, <2>3 DEF TypeOK
    <2> QED BY <2>1, <2>2, <2>3, <2>4, QuietKeepsInv
  <1> QED BY <1>1, <1>2 DEF Remote

LEMMA EditKeepsInv ==
  ASSUME Inv,
         \/ \E p \in Peers : AddPeer(p)
         \/ \E r \in HandRules : AddRule(r)
         \/ \E r \in policy : DeleteRule(r)
         \/ \E m \in Masks : SetMasks(m)
         \/ UNCHANGED vars
  PROVE  Inv'
  <1> USE DEF Inv, history, OwnerActs
  <1>1. /\ UNCHANGED <<todo, cache, holder, overlap, okd, inbox>>
        /\ leaving' \subseteq leaving /\ removed' \subseteq removed
        /\ \A r \in policy' \ policy : r.who \notin leaving' \cup removed'
    BY DEF AddPeer, AddRule, DeleteRule, SetMasks, vars, tables
  <1>2. InboxInv' /\ \A i \in Ids : Waiting(i) => inbox'[i] = inbox[i]
    BY <1>1 DEF InboxInv, OnePendingRow
  <1>3. ClearedByOwner'
    <2>1. CASE UNCHANGED vars
      BY <2>1 DEF vars, tables, ClearedByOwner
    <2>2. CASE last' = None
      BY <2>2 DEF ClearedByOwner
    <2> QED BY <2>1, <2>2 DEF AddPeer, AddRule, DeleteRule, SetMasks
  <1>4. TypeOK'
    <2>1. masked' \in Masks /\ peers' \in SUBSET Peers /\ policy' \subseteq rules'
      BY DEF AddPeer, AddRule, DeleteRule, SetMasks, vars, tables, TypeOK
    <2>2. \A r \in policy' : r.who \in Peers \cup {Star} /\ r.effect \in Decisions
      BY RulesAssumption DEF AddPeer, AddRule, DeleteRule, SetMasks, vars, tables, TypeOK
    <2> QED BY <1>1, <2>1, <2>2 DEF TypeOK
  <1> QED BY <1>1, <1>2, <1>3, <1>4, QuietKeepsInv

-----------------------------------------------------------------------------
(* The beginning and the end of a session. *)

\* A session that begins alone makes no promise about another's rows and peers.
LEMMA BeginKeepsSerial ==
  ASSUME TypeOK, TodoType, SerialInv, NEW o \in Sessions, NEW t \in Seq(Stmts),
         todo' = [todo EXCEPT ![o] = t], ~overlap', Overlaps(o),
         UNCHANGED <<inbox, cache, policy>>, removed' \subseteq removed,
         \A n \in DOMAIN t : InTurn(t, n)'
  PROVE  SerialInv'
  <1>1. \A q \in Sessions : todo'[q] = IF q = o THEN t ELSE <<>>
    BY DEF Overlaps, TodoType
  <1>2. \A q, r \in Sessions : todo'[q] # <<>> /\ todo'[r] # <<>> => q = r
    BY <1>1
  <1>3. CacheAgreesWithInbox' /\ RemovedHoldNothing'
    BY DEF SerialInv, CacheAgreesWithInbox, RemovedHoldNothing
  <1>4. ASSUME NEW q \in Sessions, NEW n \in DOMAIN todo'[q] PROVE InTurn(todo[q], n)'
    <2>1. todo'[q] = t
      BY <1>1
    <2>2. InTurn(t, n)'
      BY <2>1
    <2> QED BY <2>1, <2>2
  <1> QED BY <1>2, <1>3, <1>4 DEF SerialInv

LEMMA BeginAnswerKeepsInv ==
  ASSUME Inv, NEW o \in Sessions, NEW i \in Ids, NEW d \in Decisions, NEW m \in BOOLEAN,
         NEW gs \in GrantLists, BeginAnswer(o, i, d, m, gs)
  PROVE  Inv'
  <1> USE DEF Inv
  <1>1. PICK p \in Peers, s \in Shapes \cup {Knock} : p = inbox[i].peer /\ s = inbox[i].about
    BY DEF BeginAnswer, TypeOK, InboxInv
  <1>2. PICK t : t = IF s = Knock THEN AnswerKnock(o, i, p, d, gs)
                     ELSE AnswerShape(o, i, p, s, d, m, gs)
    OBVIOUS
  <1>3. IsAnswer(t, i, p, s, d)
    <2>1. CASE s = Knock
      BY <1>2, <2>1, AnswersAre
    <2>2. CASE s # Knock
      BY <1>2, <2>2, AnswersAre
    <2> QED BY <2>1, <2>2
  <1>4. /\ t \in Seq(Stmts) /\ t # <<>> /\ t[1] = <<"mark", i, d>> /\ todo' = [todo EXCEPT ![o] = t]
    BY <1>1, <1>2, <1>3 DEF IsAnswer, BeginAnswer
  <1>5. /\ UNCHANGED <<tables, rules>> /\ last' = None /\ OwnerActs(p) /\ Overlaps(o)
        /\ holder = None /\ holder' = IF o \in Web THEN o ELSE None
        /\ okd' = IF d = "allow" /\ s # Knock THEN okd \cup {<<p, s>>} ELSE okd
        /\ inbox[i].st = "pending"
    BY <1>1 DEF BeginAnswer
  <1>6. /\ todo' \in [Sessions -> Seq(Stmts)] /\ todo'[o] = t
        /\ \A q \in Sessions \ {o} : todo'[q] = todo[q]
    BY <1>4 DEF TodoType
  <1>7. TypeOK'
    <2>1. UNCHANGED <<masked, peers, policy, cache, inbox, rules>> /\ okd' \in SUBSET (Peers \X Shapes)
      BY <1>5 DEF tables, TypeOK
    <2>2. holder' \in Web \cup {None} /\ (holder' # None => todo'[holder'] # <<>>)
      BY <1>4, <1>5, <1>6
    <2>3. overlap' \in BOOLEAN
      BY <1>5 DEF Overlaps, TypeOK
    <2>4. leaving' \in SUBSET Peers /\ removed' \in SUBSET Peers
      BY <1>5 DEF OwnerActs, TypeOK
    <2> QED BY <2>1, <2>2, <2>3, <2>4 DEF TypeOK
  <1>8. InboxInv'
    BY <1>5 DEF InboxInv, OnePendingRow, tables
  <1>9. ClearedByOwner'
    BY <1>5 DEF ClearedByOwner
  <1>10. \A n \in DOMAIN t : n # 1 =>
           /\ t[n][1] \in {"admit", "rule", "cache"} /\ (t[n][1] = "rule" => t[n][2].who = p)
           /\ t[n][1] = "cache" => s # Knock /\ t[n][2] = p /\ t[n][3] = s /\ t[n][4] = d
    BY <1>3 DEF IsAnswer
  <1>11. OwnerInv'
    <2>1. okd \subseteq okd' /\ (d = "allow" /\ s # Knock => <<p, s>> \in okd')
      BY <1>5
    <2>2. \A x \in Peers \X Shapes : cache'[x] = "allow" => x \in okd'
      BY <1>5, <2>1 DEF OwnerInv, tables
    <2>3. ASSUME NEW q \in Sessions, NEW n \in DOMAIN todo'[q], todo'[q][n][1] = "cache",
                 todo'[q][n][4] = "allow"
          PROVE  <<todo'[q][n][2], todo'[q][n][3]>> \in okd'
      <3>1. CASE q # o
        BY <1>6, <2>1, <2>3, <3>1 DEF OwnerInv
      <3>2. CASE q = o
        <4>1. n \in DOMAIN t /\ t[n][1] = "cache" /\ t[n][4] = "allow"
          BY <1>6, <2>3, <3>2
        <4>2. n # 1
          BY <1>4, <4>1
        <4>3. s # Knock /\ t[n][2] = p /\ t[n][3] = s /\ t[n][4] = d
          BY <1>10, <4>1, <4>2
        <4>4. d = "allow"
          BY <4>1, <4>3
        <4> QED BY <1>6, <2>1, <3>2, <4>3, <4>4
      <3> QED BY <3>1, <3>2
    <2> QED BY <2>2, <2>3 DEF OwnerInv
  <1>12. ASSUME ~overlap' PROVE SerialInv'
    <2>1. SerialInv
      BY <1>5, <1>12 DEF Overlaps
    <2>2. /\ p \notin leaving' \cup removed' /\ removed' \subseteq removed
          /\ UNCHANGED <<inbox, cache, policy>>
      BY <1>5 DEF OwnerActs, tables
    <2>3. ASSUME NEW n \in DOMAIN t PROVE InTurn(t, n)'
      <3>1. CASE n = 1
        BY <1>4, <1>5, <2>2, <3>1 DEF About, InTurn
      <3>2. CASE n # 1
        <4>1. t[n][1] = "cache" /\ t[n][4] = "allow" =>
                inbox[i].peer = t[n][2] /\ inbox[i].about = t[n][3] /\ t[1] = <<"mark", i, "allow">>
          BY <1>1, <1>4, <1>10, <3>2
        <4>2. About(t[n], leaving' \cup removed')
          BY <1>10, <2>2, <3>2 DEF About
        <4> QED BY <1>10, <2>2, <3>2, <4>1, <4>2 DEF InTurn
      <3> QED BY <3>1, <3>2
    <2> QED BY <1>4, <1>5, <1>12, <2>1, <2>2, <2>3, BeginKeepsSerial
  <1> QED BY <1>6, <1>7, <1>8, <1>9, <1>11, <1>12 DEF TodoType

LEMMA BeginRemoveKeepsInv ==
  ASSUME Inv, NEW o \in Sessions, NEW p \in Peers, BeginRemove(o, p)
  PROVE  Inv'
  <1> USE DEF Inv
  <1>1. PICK t : t = <<<<"forget", p>>, <<"unrule", p>>, <<"uncache", p>>>>
    OBVIOUS
  <1>2. /\ t \in Seq(Stmts) /\ DOMAIN t = 1..3 /\ t[1] = <<"forget", p>>
        /\ t[2] = <<"unrule", p>> /\ t[3] = <<"uncache", p>>
    <2>1. {<<"forget", p>>, <<"unrule", p>>, <<"uncache", p>>} \subseteq Stmts
      BY DEF Stmts
    <2> QED BY <1>1, <2>1
  <1>3. /\ UNCHANGED <<tables, holder, okd, rules, removed>> /\ last' = None /\ Overlaps(o)
        /\ holder = None /\ leaving' = leaving \cup {p} /\ todo' = [todo EXCEPT ![o] = t]
    BY <1>1 DEF BeginRemove
  <1>4. /\ todo' \in [Sessions -> Seq(Stmts)] /\ todo'[o] = t
        /\ \A q \in Sessions \ {o} : todo'[q] = todo[q]
    BY <1>2, <1>3 DEF TodoType
  <1>5. TypeOK'
    <2>1. UNCHANGED <<masked, peers, policy, cache, inbox, rules>>
      BY <1>3 DEF tables
    <2>2. overlap' \in BOOLEAN
      BY <1>3 DEF Overlaps, TypeOK
    <2> QED BY <1>3, <2>1, <2>2 DEF TypeOK
  <1>6. InboxInv' /\ ClearedByOwner'
    BY <1>3 DEF InboxInv, OnePendingRow, tables, ClearedByOwner
  <1>7. \A n \in DOMAIN t : t[n][1] \in {"forget", "unrule", "uncache"}
    BY <1>2
  <1>8. OwnerInv'
    <2>1. \A x \in Peers \X Shapes : cache'[x] = "allow" => x \in okd'
      BY <1>3 DEF OwnerInv, tables
    <2>2. ASSUME NEW q \in Sessions, NEW n \in DOMAIN todo'[q], todo'[q][n][1] = "cache",
                 todo'[q][n][4] = "allow"
          PROVE  <<todo'[q][n][2], todo'[q][n][3]>> \in okd'
      BY <1>3, <1>4, <1>7, <2>2 DEF OwnerInv
    <2> QED BY <2>1, <2>2 DEF OwnerInv
  <1>9. ASSUME ~overlap' PROVE SerialInv'
    <2>1. SerialInv
      BY <1>3, <1>9 DEF Overlaps
    <2>2. ASSUME NEW n \in DOMAIN t PROVE InTurn(t, n)'
      <3>1. t[n][1] \notin {"mark", "cache"} /\ About(t[n], leaving' \cup removed')
        BY <1>7 DEF About
      <3>2. t[n][1] = "uncache" => \E k \in DOMAIN t : k < n /\ t[k] = <<"unrule", t[n][2]>>
        BY <1>2
      <3> QED BY <3>1, <3>2 DEF InTurn
    <2>3. UNCHANGED <<inbox, cache, policy, removed>>
      BY <1>3 DEF tables
    <2> QED BY <1>2, <1>3, <1>9, <2>1, <2>2, <2>3, BeginKeepsSerial
  <1> QED BY <1>4, <1>5, <1>6, <1>8, <1>9 DEF TodoType

-----------------------------------------------------------------------------
(* A statement of a session. *)

LEMMA TailFacts ==
  ASSUME NEW t \in Seq(Stmts), t # <<>>
  PROVE  /\ Head(t) = t[1] /\ t[1] \in Stmts /\ 1 \in DOMAIN t /\ Tail(t) \in Seq(Stmts)
         /\ \A n \in DOMAIN Tail(t) : n \in Nat /\ n + 1 \in DOMAIN t /\ Tail(t)[n] = t[n + 1]
         /\ \A m \in DOMAIN t : m # 1 => m - 1 \in DOMAIN Tail(t) /\ (m - 1) + 1 = m /\ m \in Nat
  <1>1. Head(t) = t[1] /\ t[1] \in Stmts /\ 1 \in DOMAIN t /\ Tail(t) \in Seq(Stmts)
    OBVIOUS
  <1>2. Len(t) \in Nat /\ DOMAIN t = 1..Len(t) /\ DOMAIN Tail(t) = 1..(Len(t) - 1)
    OBVIOUS
  <1>3. \A n \in 1..(Len(t) - 1) : Tail(t)[n] = t[n + 1]
    OBVIOUS
  <1>4. \A n \in 1..(Len(t) - 1) : n \in Nat /\ n + 1 \in 1..Len(t)
    BY <1>2
  <1>5. \A m \in 1..Len(t) : m # 1 => m - 1 \in 1..(Len(t) - 1) /\ (m - 1) + 1 = m /\ m \in Nat
    BY <1>2
  <1> QED BY <1>1, <1>2, <1>3, <1>4, <1>5

\* What one statement changes.
LEMMA ApplyFacts ==
  ASSUME TypeOK, NEW st \in Stmts, Apply(st)
  PROVE  /\ st[1] # "mark" => inbox' = inbox
         /\ st[1] = "mark" =>
              /\ inbox'[st[2]].st = st[3] /\ inbox'[st[2]].peer = inbox[st[2]].peer
              /\ inbox'[st[2]].about = inbox[st[2]].about
              /\ \A j \in Ids : j # st[2] => inbox'[j] = inbox[j]
         /\ \A r \in policy' \ policy : st[1] = "rule" /\ r = st[2]
         /\ st[1] = "unrule" => \A r \in policy' : r.who = st[2] => r.effect = "deny"
         /\ st[1] = "uncache" => policy' = policy /\ \A s \in Shapes : cache'[<<st[2], s>>] = "none"
         /\ \A x \in Peers \X Shapes :
              \/ cache'[x] = cache[x]
              \/ st[1] = "cache" /\ x = <<st[2], st[3]>> /\ cache'[x] = st[4]
              \/ st[1] = "uncache" /\ cache'[x] = "none"
  <1> USE StmtFacts DEF Apply
  <1>1. st[1] # "mark" => inbox' = inbox
    OBVIOUS
  <1>2. st[1] = "mark" =>
          /\ inbox'[st[2]].st = st[3] /\ inbox'[st[2]].peer = inbox[st[2]].peer
          /\ inbox'[st[2]].about = inbox[st[2]].about
          /\ \A j \in Ids : j # st[2] => inbox'[j] = inbox[j]
    BY DEF TypeOK
  <1>3. \A r \in policy' \ policy : st[1] = "rule" /\ r = st[2]
    OBVIOUS
  <1>4. st[1] = "unrule" => \A r \in policy' : r.who = st[2] => r.effect = "deny"
    OBVIOUS
  <1>5. st[1] = "uncache" => policy' = policy /\ \A s \in Shapes : cache'[<<st[2], s>>] = "none"
    OBVIOUS
  <1>6. \A x \in Peers \X Shapes :
          \/ cache'[x] = cache[x]
          \/ st[1] = "cache" /\ x = <<st[2], st[3]>> /\ cache'[x] = st[4]
          \/ st[1] = "uncache" /\ cache'[x] = "none"
    <2>1. CASE st[1] = "cache"
      BY <2>1 DEF TypeOK
    <2>2. CASE st[1] = "uncache"
      BY <2>2
    <2>3. CASE st[1] \notin {"cache", "uncache"}
      BY <2>3
    <2> QED BY <2>1, <2>2, <2>3
  <1> QED BY <1>1, <1>2, <1>3, <1>4, <1>5, <1>6

LEMMA ApplyType ==
  ASSUME TypeOK, InboxInv, NEW st \in Stmts, Apply(st)
  PROVE  /\ peers' \in SUBSET Peers
         /\ \A r \in policy' : r.who \in Peers \cup {Star} /\ r.effect \in Decisions
         /\ cache' \in [Peers \X Shapes -> {"none"} \cup Decisions]
         /\ inbox' \in [Ids -> [st : {"free", "pending"} \cup Decisions,
                                peer : Peers \cup {None}, about : Shapes \cup {Knock}]]
         /\ InboxInv'
  <1> USE StmtFacts DEF TypeOK
  <1>1. peers' \in SUBSET Peers
    BY DEF Apply
  <1>2. \A r \in policy' : r.who \in Peers \cup {Star} /\ r.effect \in Decisions
    BY ApplyFacts DEF RuleRows
  <1>3. cache' \in [Peers \X Shapes -> {"none"} \cup Decisions]
    <2>1. CASE st[1] = "cache"
      BY <2>1 DEF Apply
    <2>2. CASE st[1] = "uncache"
      BY <2>2 DEF Apply
    <2>3. CASE st[1] \notin {"cache", "uncache"}
      BY <2>3 DEF Apply
    <2> QED BY <2>1, <2>2, <2>3
  <1>4. inbox' \in [Ids -> [st : {"free", "pending"} \cup Decisions,
                            peer : Peers \cup {None}, about : Shapes \cup {Knock}]]
    BY DEF Apply
  <1>5. InboxInv'
    <2>1. CASE st[1] # "mark"
      BY <2>1, ApplyFacts DEF InboxInv, OnePendingRow
    <2>2. CASE st[1] = "mark"
      <3>1. \A j \in Ids : inbox'[j].st = "pending" => inbox'[j] = inbox[j]
        BY <2>2, ApplyFacts DEF Decisions
      <3> QED BY <3>1 DEF InboxInv, OnePendingRow
    <2> QED BY <2>1, <2>2
  <1> QED BY <1>1, <1>2, <1>3, <1>4, <1>5

\* What follows the first statement is in turn once that one is applied.
LEMMA NextInTurn ==
  ASSUME TypeOK, NEW t \in Seq(Stmts), t # <<>>, Apply(t[1]), \A n \in DOMAIN t : InTurn(t, n),
         leaving' \subseteq leaving, leaving' \cup removed' \subseteq leaving \cup removed,
         NEW n \in DOMAIN Tail(t)
  PROVE  InTurn(Tail(t), n)'
  <1>1. /\ t[1] \in Stmts /\ 1 \in DOMAIN t /\ n \in Nat /\ n + 1 \in DOMAIN t
        /\ Tail(t) \in Seq(Stmts) /\ Tail(t)[n] = t[n + 1]
        /\ \A m \in DOMAIN t : m # 1 => m - 1 \in DOMAIN Tail(t) /\ (m - 1) + 1 = m /\ m \in Nat
    BY TailFacts
  <1>2. PICK st \in Stmts : st = t[1]
    BY <1>1
  <1>3. PICK u \in Stmts : u = t[n + 1]
    BY <1>1
  <1>4. n + 1 # 1 /\ n \in DOMAIN Tail(t) /\ n # 0
    BY <1>1, TailFacts
  <1>5. u[1] # "mark"
    BY <1>1, <1>3, <1>4 DEF InTurn
  <1>6. ASSUME u[1] = "cache", u[4] = "allow"
        PROVE  \E i \in Ids : inbox'[i].peer = u[2] /\ inbox'[i].about = u[3] /\ inbox'[i].st = "allow"
    <2>1. PICK i \in Ids : /\ inbox[i].peer = u[2] /\ inbox[i].about = u[3]
                           /\ inbox[i].st = "allow" \/ t[1] = <<"mark", i, "allow">>
      BY <1>1, <1>3, <1>6 DEF InTurn
    <2>2. CASE st[1] # "mark"
      <3>1. inbox' = inbox
        BY <1>2, <2>2, ApplyFacts
      <3> QED BY <1>2, <2>1, <2>2, <3>1
    <2>3. CASE st[1] = "mark" /\ st[2] = i
      <3>1. inbox[st[2]].st = "pending"
        BY <1>1, <1>2, <2>3 DEF InTurn
      <3>2. st[3] = "allow"
        BY <1>2, <2>1, <2>3, <3>1
      <3>3. inbox'[i].st = "allow" /\ inbox'[i].peer = inbox[i].peer /\ inbox'[i].about = inbox[i].about
        BY <1>2, <2>3, <3>2, ApplyFacts
      <3> QED BY <2>1, <3>3
    <2>4. CASE st[1] = "mark" /\ st[2] # i
      <3>1. inbox'[i] = inbox[i]
        BY <1>2, <2>4, ApplyFacts
      <3> QED BY <1>2, <2>1, <2>4, <3>1
    <2> QED BY <2>2, <2>3, <2>4
  <1>7. About(u, leaving' \cup removed')
    BY <1>1, <1>3 DEF InTurn, About
  <1>8. ASSUME u[1] = "uncache", u[2] \in leaving'
        PROVE  \/ \E m \in DOMAIN Tail(t) : m < n /\ Tail(t)[m] = <<"unrule", u[2]>>
               \/ NoAllow(u[2])'
    <2>1. CASE NoAllow(u[2])
      <3>1. \A r \in policy' \ policy : r.who # u[2]
        <4>1. About(st, leaving \cup removed)
          BY <1>1, <1>2 DEF InTurn
        <4> QED BY <1>2, <1>8, <4>1, ApplyFacts DEF About
      <3> QED BY <2>1, <3>1 DEF NoAllow
    <2>2. ASSUME NEW m \in DOMAIN t, m < n + 1, t[m] = <<"unrule", u[2]>>
          PROVE  \/ \E k \in DOMAIN Tail(t) : k < n /\ Tail(t)[k] = <<"unrule", u[2]>>
                 \/ NoAllow(u[2])'
      <3>1. CASE m = 1
        <4>1. st[1] = "unrule" /\ st[2] = u[2]
          BY <1>2, <2>2, <3>1
        <4> QED BY <1>2, <4>1, ApplyFacts DEF NoAllow
      <3>2. CASE m # 1
        <4>1. m - 1 \in DOMAIN Tail(t) /\ (m - 1) + 1 = m /\ m \in Nat
          BY <1>1, <3>2
        <4>2. m - 1 < n
          BY <1>1, <2>2, <4>1
        <4>3. Tail(t)[m - 1] = t[(m - 1) + 1]
          BY <4>1, TailFacts
        <4>4. Tail(t)[m - 1] = <<"unrule", u[2]>>
          BY <2>2, <4>1, <4>3
        <4> QED BY <4>1, <4>2, <4>4
      <3> QED BY <3>1, <3>2
    <2>3. \/ \E m \in DOMAIN t : m < n + 1 /\ t[m] = <<"unrule", u[2]>>
          \/ NoAllow(u[2])
      BY <1>1, <1>3, <1>8 DEF InTurn
    <2> QED BY <2>1, <2>2, <2>3
  <1> QED BY <1>1, <1>3, <1>5, <1>6, <1>7, <1>8 DEF InTurn

LEMMA StepKeepsSerial ==
  ASSUME TypeOK, TodoType, SerialInv, NEW o \in Sessions, NEW t \in Seq(Stmts), t = todo[o], Step(o)
  PROVE  SerialInv'
  <1>1. t # <<>> /\ Head(t) = t[1] /\ t[1] \in Stmts /\ 1 \in DOMAIN t /\ Tail(t) \in Seq(Stmts)
    BY TailFacts DEF Step
  <1>2. PICK st \in Stmts : st = t[1]
    BY <1>1
  <1>3. /\ Apply(st) /\ todo' = [todo EXCEPT ![o] = Tail(t)]
        /\ removed' = IF st[1] = "uncache" THEN removed \cup (leaving \cap {st[2]}) ELSE removed
        /\ leaving' = IF st[1] = "uncache" THEN leaving \ {st[2]} ELSE leaving
    BY <1>1, <1>2 DEF Step
  <1>4. todo'[o] = Tail(t) /\ \A q \in Sessions \ {o} : todo'[q] = todo[q] /\ todo[q] = <<>>
    BY <1>1, <1>3 DEF TodoType, SerialInv
  <1>5. \A n \in DOMAIN t : InTurn(t, n)
    BY DEF SerialInv
  <1>6. leaving' \subseteq leaving /\ leaving' \cup removed' \subseteq leaving \cup removed
    BY <1>3
  <1>7. \A n \in DOMAIN Tail(t) : InTurn(Tail(t), n)'
    BY <1>1, <1>2, <1>3, <1>5, <1>6, NextInTurn
  <1>8. \A p, q \in Sessions : todo'[p] # <<>> /\ todo'[q] # <<>> => p = q
    BY <1>4
  <1>9. \A q \in Sessions : \A n \in DOMAIN todo'[q] : InTurn(todo[q], n)'
    <2>1. ASSUME NEW q \in Sessions \ {o}, NEW n \in DOMAIN todo'[q] PROVE FALSE
      BY <1>4
    <2>2. ASSUME NEW n \in DOMAIN todo'[o] PROVE InTurn(todo[o], n)'
      BY <1>4, <1>7
    <2> QED BY <2>1, <2>2
  <1>10. InTurn(t, 1) /\ About(st, leaving \cup removed)
    BY <1>1, <1>2, <1>5 DEF InTurn
  <1>11. CacheAgreesWithInbox'
    <2> SUFFICES ASSUME NEW x \in Peers \X Shapes, cache'[x] = "allow"
                 PROVE  \E i \in Ids : /\ inbox'[i].peer = x[1] /\ inbox'[i].about = x[2]
                                       /\ inbox'[i].st = "allow"
      BY DEF CacheAgreesWithInbox
    <2>1. \E i \in Ids : inbox[i].peer = x[1] /\ inbox[i].about = x[2] /\ inbox[i].st = "allow"
      <3>1. CASE cache'[x] = cache[x]
        BY <3>1 DEF SerialInv, CacheAgreesWithInbox
      <3>2. CASE st[1] = "cache" /\ x = <<st[2], st[3]>> /\ cache'[x] = st[4]
        <4>1. PICK i \in Ids : /\ inbox[i].peer = st[2] /\ inbox[i].about = st[3]
                               /\ inbox[i].st = "allow" \/ t[1] = <<"mark", i, "allow">>
          BY <1>2, <1>10, <3>2 DEF InTurn
        <4>2. t[1] # <<"mark", i, "allow">>
          BY <1>2, <3>2
        <4> QED BY <3>2, <4>1, <4>2
      <3> QED BY <1>3, <3>1, <3>2, ApplyFacts
    <2>2. PICK i \in Ids : inbox[i].peer = x[1] /\ inbox[i].about = x[2] /\ inbox[i].st = "allow"
      BY <2>1
    <2>3. st[1] = "mark" => st[2] # i
      BY <1>2, <1>10, <2>2 DEF InTurn
    <2>4. inbox'[i] = inbox[i]
      BY <1>3, <2>3, ApplyFacts
    <2> QED BY <2>2, <2>4
  <1>12. RemovedHoldNothing'
    <2> SUFFICES ASSUME NEW p \in removed'
                 PROVE  /\ \A r \in policy' : r.who = p => r.effect = "deny"
                        /\ \A s \in Shapes : cache'[<<p, s>>] = "none"
      BY DEF RemovedHoldNothing
    <2>0. p \in Peers
      BY <1>6 DEF TypeOK
    <2>1. CASE p \in removed
      <3>1. /\ \A r \in policy : r.who = p => r.effect = "deny"
            /\ \A s \in Shapes : cache[<<p, s>>] = "none"
        BY <2>1 DEF SerialInv, RemovedHoldNothing
      <3>2. /\ st[1] = "rule" => st[2].who # p
            /\ st[1] = "cache" => st[2] # p
        BY <1>10, <2>1 DEF About
      <3>3. \A r \in policy' : r.who = p => r.effect = "deny"
        BY <1>3, <3>1, <3>2, ApplyFacts
      <3>4. ASSUME NEW s \in Shapes PROVE cache'[<<p, s>>] = "none"
        <4>1. PICK x \in Peers \X Shapes : x = <<p, s>>
          BY <2>0
        <4>2. cache[x] = "none" /\ x[1] = p
          BY <3>1, <4>1
        <4>3. \/ cache'[x] = cache[x]
              \/ st[1] = "cache" /\ x = <<st[2], st[3]>>
              \/ cache'[x] = "none"
          BY <1>3, ApplyFacts
        <4>4. ~ (st[1] = "cache" /\ x = <<st[2], st[3]>>)
          BY <3>2, <4>2
        <4> QED BY <4>1, <4>2, <4>3, <4>4
      <3> QED BY <3>3, <3>4
    <2>2. CASE p \notin removed
      <3>1. st[1] = "uncache" /\ st[2] = p /\ p \in leaving
        BY <1>3, <2>2
      <3>2. NoAllow(p)
        <4>1. ~ \E m \in DOMAIN t : m < 1
          BY DEF SerialInv
        <4> QED BY <1>2, <1>10, <3>1, <4>1 DEF InTurn
      <3> QED BY <1>3, <3>1, <3>2, ApplyFacts DEF NoAllow
    <2> QED BY <2>1, <2>2
  <1> QED BY <1>8, <1>9, <1>11, <1>12 DEF SerialInv

LEMMA StepKeepsInv == ASSUME Inv, NEW o \in Sessions, Step(o) PROVE Inv'
  <1> USE DEF Inv
  <1>1. PICK t \in Seq(Stmts) : t = todo[o]
    BY DEF TodoType
  <1>2. t # <<>> /\ Head(t) = t[1] /\ t[1] \in Stmts /\ 1 \in DOMAIN t /\ Tail(t) \in Seq(Stmts)
    BY <1>1, TailFacts DEF Step
  <1>3. PICK st \in Stmts : st = t[1]
    BY <1>2
  <1>4. /\ Apply(st) /\ todo' = [todo EXCEPT ![o] = Tail(t)] /\ holder \in {None, o}
        /\ holder' = IF Tail(t) = <<>> THEN None ELSE holder
        /\ removed' = IF st[1] = "uncache" THEN removed \cup (leaving \cap {st[2]}) ELSE removed
        /\ leaving' = IF st[1] = "uncache" THEN leaving \ {st[2]} ELSE leaving
        /\ rules' = rules \cup policy' /\ last' = None /\ UNCHANGED <<masked, okd, overlap>>
    BY <1>1, <1>2, <1>3 DEF Step
  <1>5. /\ todo' \in [Sessions -> Seq(Stmts)] /\ todo'[o] = Tail(t)
        /\ \A q \in Sessions \ {o} : todo'[q] = todo[q]
    BY <1>2, <1>4 DEF TodoType
  <1>6. /\ peers' \in SUBSET Peers
        /\ \A r \in policy' : r.who \in Peers \cup {Star} /\ r.effect \in Decisions
        /\ cache' \in [Peers \X Shapes -> {"none"} \cup Decisions]
        /\ inbox' \in [Ids -> [st : {"free", "pending"} \cup Decisions,
                               peer : Peers \cup {None}, about : Shapes \cup {Knock}]]
        /\ InboxInv'
    BY <1>4, ApplyType
  <1>7. TypeOK'
    <2>1. holder' \in Web \cup {None} /\ (holder' # None => todo'[holder'] # <<>>)
      BY <1>4, <1>5 DEF TypeOK
    <2>2. leaving' \in SUBSET Peers /\ removed' \in SUBSET Peers /\ policy' \subseteq rules'
      BY <1>4 DEF TypeOK
    <2> QED BY <1>4, <1>6, <2>1, <2>2 DEF TypeOK
  <1>8. OwnerInv'
    <2>1. ASSUME NEW x \in Peers \X Shapes, cache'[x] = "allow" PROVE x \in okd'
      <3>1. CASE cache'[x] = cache[x]
        BY <1>4, <2>1, <3>1 DEF OwnerInv
      <3>2. CASE st[1] = "cache" /\ x = <<st[2], st[3]>> /\ cache'[x] = st[4]
        BY <1>1, <1>2, <1>3, <1>4, <2>1, <3>2 DEF OwnerInv
      <3> QED BY <1>4, <2>1, <3>1, <3>2, ApplyFacts
    <2>2. ASSUME NEW n \in DOMAIN todo'[o], todo'[o][n][1] = "cache", todo'[o][n][4] = "allow"
          PROVE  <<todo'[o][n][2], todo'[o][n][3]>> \in okd'
      <3>1. n + 1 \in DOMAIN t /\ todo'[o][n] = t[n + 1]
        BY <1>2, <1>5, TailFacts
      <3>2. \A m \in DOMAIN t : t[m][1] = "cache" /\ t[m][4] = "allow" => <<t[m][2], t[m][3]>> \in okd
        BY <1>1 DEF OwnerInv
      <3>3. t[n + 1][1] = "cache" /\ t[n + 1][4] = "allow"
        BY <2>2, <3>1
      <3>4. <<t[n + 1][2], t[n + 1][3]>> \in okd
        BY <3>1, <3>2, <3>3
      <3>5. okd' = okd
        BY <1>4
      <3> QED BY <3>1, <3>4, <3>5
    <2>3. ASSUME NEW q \in Sessions \ {o}, NEW n \in DOMAIN todo'[q],
                 todo'[q][n][1] = "cache", todo'[q][n][4] = "allow"
          PROVE  <<todo'[q][n][2], todo'[q][n][3]>> \in okd'
      BY <1>4, <1>5, <2>3 DEF OwnerInv
    <2> QED BY <2>1, <2>2, <2>3 DEF OwnerInv
  <1>9. ClearedByOwner'
    BY <1>4 DEF ClearedByOwner
  <1>10. ~overlap' => SerialInv'
    BY <1>1, <1>4, StepKeepsSerial
  <1> QED BY <1>5, <1>6, <1>7, <1>8, <1>9, <1>10 DEF TodoType

\* What an interrupted session has done stays consistent with what it has not.
LEMMA AbortKeepsInv == ASSUME Inv, NEW o \in Sessions, Abort(o) PROVE Inv'
  <1> USE DEF Inv
  <1>1. /\ todo' = [todo EXCEPT ![o] = <<>>] /\ holder' = None /\ last' = None /\ leaving' = {}
        /\ UNCHANGED <<masked, peers, policy, cache, inbox, okd, rules, removed, overlap>>
    BY DEF Abort, tables
  <1>2. /\ todo' \in [Sessions -> Seq(Stmts)] /\ todo'[o] = <<>>
        /\ \A q \in Sessions \ {o} : todo'[q] = todo[q]
    BY <1>1 DEF TodoType
  <1>3. TypeOK'
    BY <1>1 DEF TypeOK
  <1>4. InboxInv' /\ ClearedByOwner'
    BY <1>1 DEF InboxInv, OnePendingRow, ClearedByOwner
  <1>5. OwnerInv'
    <2>1. \A x \in Peers \X Shapes : cache'[x] = "allow" => x \in okd'
      BY <1>1 DEF OwnerInv
    <2>2. \A q \in Sessions : \A n \in DOMAIN todo'[q] :
            todo'[q][n] = todo[q][n] /\ n \in DOMAIN todo[q]
      BY <1>2
    <2> QED BY <1>1, <2>1, <2>2 DEF OwnerInv
  <1>6. ASSUME ~overlap' PROVE SerialInv'
    <2>1. SerialInv
      BY <1>1, <1>6
    <2>2. \A p, q \in Sessions : todo'[p] # <<>> /\ todo'[q] # <<>> => p = q
      BY <1>2, <2>1 DEF SerialInv
    <2>3. ASSUME NEW q \in Sessions, NEW n \in DOMAIN todo'[q] PROVE InTurn(todo[q], n)'
      <3>1. q # o /\ todo'[q] = todo[q]
        BY <1>2
      <3>2. PICK t : t = todo[q]
        OBVIOUS
      <3>3. InTurn(t, n)
        BY <2>1, <3>1, <3>2 DEF SerialInv
      <3>4. InTurn(t, n)'
        BY <1>1, <3>3 DEF InTurn, About, NoAllow
      <3> QED BY <3>1, <3>2, <3>4
    <2>4. CacheAgreesWithInbox' /\ RemovedHoldNothing'
      BY <1>1, <2>1 DEF SerialInv, CacheAgreesWithInbox, RemovedHoldNothing
    <2> QED BY <2>2, <2>3, <2>4 DEF SerialInv
  <1> QED BY <1>2, <1>3, <1>4, <1>5, <1>6 DEF TodoType

-----------------------------------------------------------------------------
(* The theorems. *)

LEMMA InitInv == ASSUME Init PROVE Inv
  <1> USE DEF Init
  <1>1. TypeOK
    BY RulesAssumption DEF TypeOK, NoRow
  <1>2. TodoType
    BY DEF TodoType
  <1>3. \A i \in Ids : inbox[i].st = "free"
    BY DEF NoRow
  <1>4. InboxInv /\ ClearedByOwner
    BY <1>3 DEF InboxInv, OnePendingRow, ClearedByOwner
  <1>5. \A o \in Sessions : todo[o] = <<>> /\ DOMAIN todo[o] = {}
    OBVIOUS
  <1>6. \A x \in Peers \X Shapes : cache[x] # "allow"
    OBVIOUS
  <1>7. OwnerInv
    BY <1>5, <1>6 DEF OwnerInv
  <1>8. SerialInv
    BY <1>5, <1>6 DEF SerialInv, CacheAgreesWithInbox, RemovedHoldNothing
  <1> QED BY <1>1, <1>2, <1>4, <1>7, <1>8 DEF Inv

LEMMA NextKeepsInv == ASSUME Inv, [Next]_vars PROVE Inv'
  <1>1. CASE Remote
    BY <1>1, RemoteKeepsInv
  <1>2. CASE Owner
    <2>1. ASSUME NEW o \in Sessions, Step(o) PROVE Inv'
      BY <2>1, StepKeepsInv
    <2>2. ASSUME NEW o \in Sessions, Abort(o) PROVE Inv'
      BY <2>2, AbortKeepsInv
    <2>3. ASSUME NEW o \in Sessions, NEW p \in Peers, BeginRemove(o, p) PROVE Inv'
      BY <2>3, BeginRemoveKeepsInv
    <2>4. ASSUME NEW o \in Sessions, NEW i \in Ids, NEW d \in Decisions, NEW m \in BOOLEAN,
                 NEW gs \in GrantLists, BeginAnswer(o, i, d, m, gs)
          PROVE  Inv'
      BY <2>4, BeginAnswerKeepsInv
    <2> QED BY <1>2, <2>1, <2>2, <2>3, <2>4, EditKeepsInv DEF Owner
  <1>3. CASE UNCHANGED vars
    BY <1>3, EditKeepsInv
  <1> QED BY <1>1, <1>2, <1>3 DEF Next

\* The tables, the sessions' statements and what the node decides stay consistent through any
\* interleaving of requests, knocks, answers, removals and edits by hand.
THEOREM Invariance == Spec => []Inv
  <1>1. Init => Inv
    BY InitInv
  <1>2. Inv /\ [Next]_vars => Inv'
    BY NextKeepsInv
  <1> QED BY <1>1, <1>2, PTL DEF Spec

\* The rows of `_peers`, `_policy`, `_decisions` and `_inbox` keep their types, and the db thread
\* is held only by a web request that still has statements to run.
THEOREM TypeCorrect == Spec => []TypeOK
  <1>1. Inv => TypeOK
    BY DEF Inv
  <1> QED BY <1>1, Invariance, PTL

\* screen_request clears a statement only for an admitted peer that the owner has authorized, by
\* an answer (human.rs) or by rules (policy.rs), through a tier no mask rules out (chain.rs).
THEOREM ClearanceIsTheOwners == Spec => []ClearedByOwner
  <1>1. Inv => ClearedByOwner
    BY DEF Inv
  <1> QED BY <1>1, Invariance, PTL

\* However often a peer repeats a statement or a knock, human.rs keeps one pending row of it.
THEOREM ParksOnce == Spec => []OnePendingRow
  <1>1. Inv => OnePendingRow
    BY DEF Inv, InboxInv
  <1> QED BY <1>1, Invariance, PTL

\* While the owner's commands do not overlap, an interrupted answer never leaves a remembered
\* allow without its answered row (inboxcmd.rs), and a removed peer keeps no rule and no decision
\* (peercmd.rs).
THEOREM SerialSessionsAgree == Spec => []SerialSessionsHold
  <1>1. Inv => SerialSessionsHold
    BY DEF Inv, TypeOK, SerialInv, SerialSessionsHold, SerialCacheAgrees, SerialRemovalHolds
  <1> QED BY <1>1, Invariance, PTL
-----------------------------------------------------------------------------
(* The policy tier *)

\* The specificity of a row is one of four levels.
LEMMA ScoreRange == \A r : Score(r) \in 0..3
  BY DEF Score

\* If the loop has read all rows of a resource, its best is their resolution.
LEMMA BestResolves ==
  ASSUME NEW rs, rs # {}, NEW b \in -1..3, NEW a \in BOOLEAN,
         \A r \in rs : Score(r) <= b,
         \E r \in rs : Score(r) = b,
         a <=> \A r \in rs : Score(r) = b => r.effect = "allow"
  PROVE  Resolved(rs) = IF a THEN "allow" ELSE "deny"
<1>1. \A r \in rs : r \in MostSpecific(rs) <=> Score(r) = b
  <2>1. PICK w \in rs : Score(w) = b
    OBVIOUS
  <2>2. ASSUME NEW r \in rs, Score(r) = b
        PROVE  r \in MostSpecific(rs)
    BY <2>2, ScoreRange DEF MostSpecific
  <2>3. ASSUME NEW r \in rs, r \in MostSpecific(rs)
        PROVE  Score(r) = b
    <3>1. Score(w) <= Score(r) /\ Score(r) <= b
      BY <2>3 DEF MostSpecific
    <3> QED
      BY <3>1, <2>1, ScoreRange
  <2> QED
    BY <2>2, <2>3
<1>2. (\E r \in MostSpecific(rs) : r.effect # "allow") <=> ~ a
  <2>1. MostSpecific(rs) \subseteq rs
    BY DEF MostSpecific
  <2> QED
    BY <1>1, <2>1
<1> QED
  BY <1>2 DEF Resolved

\* What the rows say does not change while they are evaluated.
LEMMA SaysKept == ASSUME stored' = stored PROVE \A t : Says(t)' = Says(t)
  BY DEF Says, Matching, Resolved, MostSpecific, Score

-----------------------------------------------------------------------------
LEMMA NoBest == -1 \in -1..3
  OBVIOUS

LEMMA TierInitInv == TierInit => TierInv
  <1> SUFFICES ASSUME TierInit PROVE TierInv
    OBVIOUS
  <1>1. TierTypeOK
    <2>1. best \in -1..3
      BY NoBest DEF TierInit
    <2>2. bestAllows \in BOOLEAN /\ unmatched \in BOOLEAN
      BY DEF TierInit
    <2> QED
      BY <2>1, <2>2 DEF TierInit, TierTypeOK, Verdicts
  <1> QED
    BY <1>1 DEF TierInit, TierInv, LoopInv, TablesInv, StartInv, VerdictIsWhatTableSays

LEMMA StartKeepsInv == ASSUME TierInv, Start PROVE TierInv'
<1> USE DEF TierInv
<1>1. TierTypeOK'
  BY DEF TierTypeOK, Start, Answer, request, Resources, Verdicts
<1>2. LoopInv' /\ StartInv' /\ VerdictIsWhatTableSays'
  BY DEF TierTypeOK, Start, Answer, request, LoopInv, StartInv,
         VerdictIsWhatTableSays
<1>3. TablesInv'
  <2>1. footprint' = footprint /\ hasDenied' = hasDenied /\ table' = table
        /\ unmatched' = unmatched /\ pc = "start"
    BY DEF Start, request
  <2>2. Resources(footprint)' = Resources(footprint)
    BY <2>1 DEF Resources
  <2>3. CASE hasDenied
    BY <2>3 DEF Start, Answer, TablesInv
  <2>4. CASE ~ hasDenied
    <3>1. left' = Resources(footprint) /\ pc' = "tables"
      BY <2>4 DEF Start
    <3>2. (Resources(footprint) \ (left \cup {table}))' = {}
      BY <3>1, <2>2
    <3> QED
      BY <2>1, <2>2, <3>1, <3>2, <2>4 DEF TablesInv, StartInv
  <2> QED
    BY <2>3, <2>4
<1> QED
  BY <1>1, <1>2, <1>3

LEMMA NextTableKeepsInv == ASSUME TierInv, NEW t \in left, NextTable(t) PROVE TierInv'
<1> USE DEF TierInv
<1> DEFINE M == Matching(stored, Peer, t, Wanted)
<1>0. request' = request /\ pc = "tables" /\ pc' = "rows"
      /\ left' = left \ {t} /\ table' = t /\ scan' = M
      /\ best' = -1 /\ bestAllows' = FALSE
      /\ unmatched' = unmatched /\ verdict' = verdict
  BY DEF NextTable
<1>1. TierTypeOK'
  <2>1. scan' \subseteq stored
    BY <1>0 DEF Matching
  <2>a. best' \in -1..3
    BY <1>0, NoBest
  <2>b. bestAllows' \in BOOLEAN
    BY <1>0
  <2>3. left' \subseteq left /\ table' \in left
    BY <1>0
  <2> QED
    BY <1>0, <2>1, <2>a, <2>b, <2>3 DEF TierTypeOK, request
<1>2. LoopInv'
  <2>1. Matching(stored, Peer, table, Wanted)' = M
    BY <1>0 DEF Matching, request
  <2> QED
    BY <1>0, <2>1 DEF LoopInv
<1>3. TablesInv'
  <2>1. Resources(footprint)' = Resources(footprint)
    BY <1>0 DEF Resources, request
  <2>2. (Resources(footprint) \ (left \cup {table}))'
          = Resources(footprint) \ (left \cup {table})
    <3>1. table = NoTable /\ left \subseteq Resources(footprint)
      BY <1>0 DEF TablesInv
    <3>2. NoTable \notin Resources(footprint)
      BY NoTableAssumption DEF TierTypeOK, Resources
    <3> QED
      BY <1>0, <2>1, <3>1, <3>2
  <2>3. \A u : Says(u)' = Says(u)
    BY <1>0, SaysKept DEF request
  <2> QED
    BY <1>0, <2>1, <2>2, <2>3 DEF TablesInv, request
<1>4. StartInv' /\ VerdictIsWhatTableSays'
  BY <1>0 DEF StartInv, VerdictIsWhatTableSays
<1> QED
  BY <1>1, <1>2, <1>3, <1>4

LEMMA ReadRowKeepsInv == ASSUME TierInv, NEW r \in scan, ReadRow(r) PROVE TierInv'
<1> USE DEF TierInv
<1> DEFINE M == Matching(stored, Peer, table, Wanted)
<1>0. request' = request /\ pc = "rows" /\ pc' = pc /\ left' = left
      /\ table' = table /\ scan' = scan \ {r}
      /\ unmatched' = unmatched /\ verdict' = verdict
  BY DEF ReadRow
<1>m. Matching(stored, Peer, table, Wanted)' = M
  BY <1>0 DEF Matching, request
<1>b. best' \in -1..3 /\ bestAllows' \in BOOLEAN
  <2>1. Score(r) \in -1..3 /\ best \in -1..3
    BY ScoreRange DEF TierTypeOK
  <2>2. best' \in {best, Score(r)}
    BY DEF ReadRow
  <2>3. \/ bestAllows' = (r.effect = "allow")
        \/ bestAllows' = (bestAllows /\ r.effect = "allow")
        \/ bestAllows' = bestAllows
    BY DEF ReadRow
  <2>4. bestAllows \in BOOLEAN
    BY DEF TierTypeOK
  <2>5. bestAllows' \in BOOLEAN
    BY <2>3, <2>4
  <2> QED
    BY <2>1, <2>2, <2>5
<1>1. TierTypeOK'
  BY <1>0, <1>b DEF TierTypeOK, request
<1>2. LoopInv'
  <2> DEFINE read == M \ scan
  <2> DEFINE read2 == M \ (scan \ {r})
  <2>1. read2 = read \cup {r} /\ r \notin read /\ scan \subseteq M
    BY <1>0 DEF LoopInv
  <2>2. \A q : Score(q) \in 0..3 /\ Score(q)' = Score(q)
    BY ScoreRange DEF Score
  <2>3. /\ best = -1 <=> read = {}
        /\ \A q \in read : Score(q) <= best
        /\ read # {} => \E q \in read : Score(q) = best
        /\ read # {} => (bestAllows <=>
             \A q \in read : Score(q) = best => q.effect = "allow")
    BY <1>0 DEF LoopInv
  <2>4. best \in -1..3 /\ bestAllows \in BOOLEAN
    BY DEF TierTypeOK
  <2>5. /\ best' # -1
        /\ \A q \in read2 : Score(q) <= best'
        /\ \E q \in read2 : Score(q) = best'
        /\ bestAllows' <=> \A q \in read2 : Score(q) = best' => q.effect = "allow"
    <3> HIDE DEF read, read2, M
    <3>1. CASE Score(r) > best
      <4>1. best' = Score(r) /\ bestAllows' = (r.effect = "allow")
        BY <3>1, <2>2, <2>4 DEF ReadRow
      <4>2. \A q \in read : Score(q) < best'
        BY <4>1, <3>1, <2>2, <2>3, <2>4
      <4>3. \A q \in read2 : Score(q) = best' <=> q = r
        BY <4>1, <4>2, <2>1, <2>2
      <4>4. best' # -1 /\ (\E q \in read2 : Score(q) = best')
        BY <4>1, <2>1, <2>2
      <4>5. \A q \in read2 : Score(q) <= best'
        BY <4>1, <4>2, <2>1, <2>2
      <4>6. bestAllows' <=> \A q \in read2 : Score(q) = best' => q.effect = "allow"
        BY <4>1, <4>3, <2>1
      <4> QED
        BY <4>4, <4>5, <4>6
    <3>2. CASE Score(r) = best
      <4>1. best' = best /\ bestAllows' = (bestAllows /\ r.effect = "allow")
        BY <3>2, <2>2, <2>4 DEF ReadRow
      <4>2. read # {}
        BY <3>2, <2>2, <2>3
      <4>3. best' # -1
        BY <4>1, <3>2, <2>2
      <4> QED
        BY <4>1, <4>2, <4>3, <3>2, <2>1, <2>2, <2>3, <2>4
    <3>3. CASE Score(r) < best
      <4>1. best' = best /\ bestAllows' = bestAllows
        BY <3>3, <2>2, <2>4 DEF ReadRow
      <4>2. read # {}
        BY <3>3, <2>2, <2>3, <2>4
      <4> QED
        BY <4>1, <4>2, <3>3, <2>1, <2>2, <2>3, <2>4
    <3> QED
      BY <3>1, <3>2, <3>3, <2>2, <2>4
  <2>6. (Matching(stored, Peer, table, Wanted) \ scan)' = read2
    BY <1>0, <1>m
  <2>7. read2 # {}
    BY <2>1
  <2>8. (scan \subseteq Matching(stored, Peer, table, Wanted))'
    BY <1>0, <1>m, <2>1
  <2> QED
    BY <1>0, <2>2, <2>5, <2>6, <2>7, <2>8 DEF LoopInv
<1>3. TablesInv'
  <2>1. Resources(footprint)' = Resources(footprint)
    BY <1>0 DEF Resources, request
  <2>2. \A u : Says(u)' = Says(u)
    BY <1>0, SaysKept DEF request
  <2> QED
    BY <1>0, <2>1, <2>2 DEF TablesInv, request
<1>4. StartInv' /\ VerdictIsWhatTableSays'
  BY <1>0 DEF StartInv, VerdictIsWhatTableSays
<1> QED
  BY <1>1, <1>2, <1>3, <1>4

LEMMA EndTableKeepsInv == ASSUME TierInv, EndTable PROVE TierInv'
<1> USE DEF TierInv
<1> DEFINE M == Matching(stored, Peer, table, Wanted)
<1>0. request' = request /\ pc = "rows" /\ scan = {} /\ left' = left
      /\ table' = NoTable /\ scan' = scan /\ best' = best
      /\ bestAllows' = bestAllows /\ pc' \in {"done", "tables"}
  BY DEF EndTable, Answer
<1>t. /\ table \in Resources(footprint) \ left /\ ~ hasDenied
      /\ left \subseteq Resources(footprint)
      /\ \A u \in Resources(footprint) \ (left \cup {table}) : Says(u) # "deny"
      /\ unmatched <=> \E u \in Resources(footprint) \ (left \cup {table}) :
                         Says(u) = "unmatched"
  BY <1>0 DEF TablesInv
<1>s. Says(table) = IF best = -1 THEN "unmatched"
                    ELSE IF bestAllows THEN "allow" ELSE "deny"
  <2>1. M \ scan = M
    BY <1>0
  <2>2. CASE best = -1
    <3>1. M = {}
      BY <1>0, <2>1, <2>2 DEF LoopInv
    <3> QED
      BY <3>1, <2>2 DEF Says, Resolved
  <2>3. CASE best # -1
    <3>1. /\ M # {}
          /\ \A r \in M : Score(r) <= best
          /\ \E r \in M : Score(r) = best
          /\ bestAllows <=> \A r \in M : Score(r) = best => r.effect = "allow"
      BY <1>0, <2>1, <2>3 DEF LoopInv
    <3>2. Resolved(M) = IF bestAllows THEN "allow" ELSE "deny"
      <4>1. best \in -1..3 /\ bestAllows \in BOOLEAN
        BY DEF TierTypeOK
      <4> HIDE DEF M
      <4> QED
        BY <3>1, <4>1, BestResolves
    <3> QED
      BY <3>2, <2>3 DEF Says
  <2> QED
    BY <2>2, <2>3
<1>r. Resources(footprint)' = Resources(footprint)
  BY <1>0 DEF Resources, request
<1>k. \A u : Says(u)' = Says(u)
  BY <1>0, SaysKept DEF request
<1>n. NoTable \notin Resources(footprint)
  BY NoTableAssumption DEF TierTypeOK, Resources
<1>1. TierTypeOK'
  BY <1>0 DEF TierTypeOK, request, EndTable, Answer, Verdicts
<1>2. LoopInv' /\ StartInv'
  BY <1>0 DEF LoopInv, StartInv
<1>3. TablesInv'
  <2>1. (Resources(footprint) \ (left \cup {table}))'
          = (Resources(footprint) \ (left \cup {table})) \cup {table}
    BY <1>0, <1>r, <1>n, <1>t
  <2>2. CASE best # -1 /\ ~ bestAllows
    BY <2>2 DEF EndTable, Answer, TablesInv
  <2>3. CASE best # -1 /\ bestAllows
    <3>1. unmatched' = unmatched /\ Says(table) = "allow"
      BY <2>3, <1>s DEF EndTable
    <3> QED
      BY <1>0, <1>t, <1>r, <1>k, <1>n, <2>1, <3>1 DEF TablesInv, request
  <2>4. CASE best = -1
    <3>1. unmatched' = TRUE /\ Says(table) = "unmatched"
      BY <2>4, <1>s DEF EndTable
    <3> QED
      BY <1>0, <1>t, <1>r, <1>k, <1>n, <2>1, <3>1 DEF TablesInv, request
  <2> QED
    BY <2>2, <2>3, <2>4
<1>4. VerdictIsWhatTableSays'
  <2>1. CASE pc' = "tables"
    BY <2>1 DEF VerdictIsWhatTableSays
  <2>2. CASE pc' = "done"
    <3>1. verdict' = "deny" /\ Says(table) = "deny"
      BY <2>2, <1>s DEF EndTable, Answer
    <3>2. PolicySays(stored, Peer, footprint, Wanted)' = "deny"
      BY <3>1, <1>0, <1>t DEF PolicySays, Says, request, Resources
    <3> QED
      BY <2>2, <3>1, <3>2, <1>0, <1>t DEF VerdictIsWhatTableSays, request
  <2> QED
    BY <1>0, <2>1, <2>2
<1> QED
  BY <1>1, <1>2, <1>3, <1>4

LEMMA FinishKeepsInv == ASSUME TierInv, Finish PROVE TierInv'
<1> USE DEF TierInv
<1>0. request' = request /\ pc = "tables" /\ left = {} /\ pc' = "done"
      /\ verdict' = (IF unmatched THEN "escalate" ELSE "allow")
  BY DEF Finish, Answer
<1>1. TierTypeOK'
  BY DEF TierTypeOK, Finish, Answer, request, Verdicts
<1>2. LoopInv' /\ TablesInv' /\ StartInv'
  BY <1>0 DEF LoopInv, TablesInv, StartInv
<1>3. VerdictIsWhatTableSays'
  <2>1. /\ ~ hasDenied
        /\ \A t \in Resources(footprint) : Says(t) # "deny"
        /\ unmatched <=> \E t \in Resources(footprint) : Says(t) = "unmatched"
    <3>1. NoTable \notin Resources(footprint) /\ table = NoTable
      BY <1>0, NoTableAssumption DEF TierTypeOK, Resources, TablesInv
    <3>2. Resources(footprint) \ (left \cup {table}) = Resources(footprint)
      BY <1>0, <3>1
    <3> QED
      BY <1>0, <3>2 DEF TablesInv
  <2>2. verdict' = PolicySays(stored, Peer, footprint, Wanted)
    BY <1>0, <2>1 DEF PolicySays, Says
  <2> QED
    BY <1>0, <2>1, <2>2 DEF VerdictIsWhatTableSays, request
<1> QED
  BY <1>1, <1>2, <1>3

\* The loop and resource invariants hold in every state of an evaluation.
THEOREM TierInvariance == TierSpec => []TierInv
<1>1. TierInv /\ [TierNext]_tierVars => TierInv'
  <2> SUFFICES ASSUME TierInv, [TierNext]_tierVars PROVE TierInv'
    OBVIOUS
  <2>1. CASE UNCHANGED tierVars
    BY <2>1 DEF tierVars, request, TierInv, TierTypeOK, LoopInv, TablesInv, StartInv,
                VerdictIsWhatTableSays, Says
  <2>2. CASE Start
    BY <2>2, StartKeepsInv
  <2>3. CASE EndTable
    BY <2>3, EndTableKeepsInv
  <2>4. CASE QueryFails
    <3>1. TierTypeOK'
      BY <2>4 DEF QueryFails, TierInv, TierTypeOK, request, Verdicts
    <3> QED
      BY <2>4, <3>1 DEF QueryFails, TierInv, LoopInv, TablesInv, StartInv,
                        VerdictIsWhatTableSays, request
  <2>5. CASE Finish
    BY <2>5, FinishKeepsInv
  <2>6. CASE \E t \in left : NextTable(t)
    BY <2>6, NextTableKeepsInv
  <2>7. CASE \E r \in scan : ReadRow(r)
    BY <2>7, ReadRowKeepsInv
  <2> QED
    BY <2>1, <2>2, <2>3, <2>4, <2>5, <2>6, <2>7 DEF TierNext
<1> QED
  BY TierInitInv, <1>1, PTL DEF TierSpec

\* The policy tier's verdict is what the `_policy` table says.
THEOREM PolicyTierCorrect == TierSpec => []VerdictIsWhatTableSays
<1>1. TierInv => VerdictIsWhatTableSays
  BY DEF TierInv
<1> QED
  BY TierInvariance, <1>1, PTL

-----------------------------------------------------------------------------
(* The knock budget *)

\* A level lies between empty and full, whatever the row holds.
LEMMA LevelRange ==
  ASSUME KnockTypeOK, LevelInv, NEW b \in Buckets
  PROVE  bucket_level(b) \in Nat /\ bucket_level(b) <= Burst[b]
BY LimitsAssumption DEF KnockTypeOK, LevelInv, bucket_level, Capped

\* A bucket just stored holds what was stored, one kept alone what it held.
LEMMA StoredLevel ==
  ASSUME KnockTypeOK, LevelInv, NEW bs \in SUBSET Buckets,
         NEW level \in [Buckets -> Nat], \A b \in bs : level[b] <= Burst[b],
         store_bucket(bs, level), now' = now, NEW b \in Buckets
  PROVE  bucket_level(b)' = IF b \in bs THEN level[b] ELSE bucket_level(b)
<1>1. CASE b \in bs
  <2>1. b \in rows' /\ tokens'[b] = level[b] /\ stamp'[b] = now
    BY <1>1 DEF store_bucket
  <2> QED
    BY <1>1, <2>1, LimitsAssumption DEF bucket_level, Capped, KnockTypeOK
<1>2. CASE b \notin bs
  <2>1. (b \in rows' <=> b \in rows) /\ tokens'[b] = tokens[b]
        /\ stamp'[b] = stamp[b]
    BY <1>2 DEF store_bucket
  <2> QED
    BY <1>2, <2>1 DEF bucket_level, Capped
<1> QED
  BY <1>1, <1>2

\* Storing levels within the bursts keeps the table well formed.
LEMMA StoreKeepsLevels ==
  ASSUME KnockTypeOK, LevelInv, NEW bs \in SUBSET Buckets,
         NEW level \in [Buckets -> Nat], \A b \in bs : level[b] <= Burst[b],
         store_bucket(bs, level), now' = now
  PROVE  /\ rows' \in SUBSET Buckets
         /\ tokens' \in [Buckets -> Nat] /\ stamp' \in [Buckets -> Nat]
         /\ \A b \in rows' : tokens'[b] <= Burst[b]
<1>1. rows' \in SUBSET Buckets
      /\ tokens' \in [Buckets -> Nat] /\ stamp' \in [Buckets -> Nat]
  BY DEF KnockTypeOK, store_bucket
<1>2. \A b \in rows' : tokens'[b] <= Burst[b]
  BY DEF KnockTypeOK, LevelInv, store_bucket
<1> QED
  BY <1>1, <1>2 DEF LevelInv

-----------------------------------------------------------------------------
LEMMA SpendKeepsInv ==
  ASSUME KnockInv, NEW k \in Keys, spend_knock_token(k) PROVE KnockInv'
<1> USE DEF KnockInv
<1>1. PICK unread \in SUBSET {k, Global}, unsaved \in SUBSET {k, Global} :
        LET level == [b \in Buckets |-> Reads(b, b \in unread)]
            grant == level[k] >= Cost[k] /\ level[Global] >= Cost[Global]
            kept  == [b \in Buckets |-> IF grant /\ b \in {k, Global}
                                        THEN level[b] - Cost[b] ELSE level[b]]
        IN  /\ Faults(unread \cup unsaved)
            /\ store_bucket({k, Global} \ unsaved, kept)
            /\ spent' = [b \in Buckets |-> IF grant /\ b \in {k, Global}
                                           THEN spent[b] + Cost[b] ELSE spent[b]]
            /\ UNCHANGED <<now, elapsed>>
  BY DEF spend_knock_token
<1> DEFINE level == [b \in Buckets |-> Reads(b, b \in unread)]
<1> DEFINE grant == level[k] >= Cost[k] /\ level[Global] >= Cost[Global]
<1> DEFINE kept == [b \in Buckets |-> IF grant /\ b \in {k, Global}
                                      THEN level[b] - Cost[b] ELSE level[b]]
<1> DEFINE bs == {k, Global} \ unsaved
<1> DEFINE bad == unread \cup unsaved
<1>2. /\ Faults(bad) /\ store_bucket(bs, kept)
      /\ spent' = [b \in Buckets |-> IF grant /\ b \in {k, Global}
                                     THEN spent[b] + Cost[b] ELSE spent[b]]
      /\ now' = now /\ elapsed' = elapsed
  BY <1>1
<1>3. bs \in SUBSET Buckets /\ k \in Buckets /\ Global \in Buckets
  BY DEF Buckets
<1>4. \A b \in Buckets : level[b] \in Nat /\ level[b] <= Burst[b]
                         /\ (b \notin unread => level[b] = bucket_level(b))
  BY LevelRange, LimitsAssumption DEF Reads
<1> HIDE DEF level
<1>5. \A b \in Buckets : /\ kept[b] \in Nat /\ kept[b] <= Burst[b]
                         /\ kept[b] = IF grant /\ b \in {k, Global}
                                      THEN level[b] - Cost[b] ELSE level[b]
  BY <1>4, LimitsAssumption
<1>6. kept \in [Buckets -> Nat]
  BY <1>5
<1> HIDE DEF kept, grant, bs, bad
<1>7. /\ rows' \in SUBSET Buckets
      /\ tokens' \in [Buckets -> Nat] /\ stamp' \in [Buckets -> Nat]
      /\ \A b \in rows' : tokens'[b] <= Burst[b]
  BY <1>2, <1>3, <1>5, <1>6, StoreKeepsLevels
<1>8. KnockTypeOK' /\ LevelInv'
  <2>1. spent' \in [Buckets -> Nat]
    BY <1>2, LimitsAssumption DEF KnockTypeOK
  <2>2. excused' \in [Buckets -> Nat] /\ faults' \in Nat
    BY <1>2, LimitsAssumption DEF KnockTypeOK, Faults
  <2> QED
    BY <1>2, <1>7, <2>1, <2>2 DEF KnockTypeOK, LevelInv
<1>9. BudgetInv'
  <2> SUFFICES ASSUME NEW b \in Buckets
               PROVE  spent'[b] + bucket_level(b)'
                        <= Burst[b] + excused'[b] + elapsed'
    BY DEF BudgetInv
  <2>1. bucket_level(b)' = IF b \in bs THEN kept[b] ELSE bucket_level(b)
    BY <1>2, <1>3, <1>5, <1>6, StoredLevel
  <2>2. spent[b] + bucket_level(b) <= Burst[b] + excused[b] + elapsed
    BY DEF BudgetInv
  <2>3. bucket_level(b) \in Nat /\ bucket_level(b) <= Burst[b]
    BY LevelRange
  <2>4. excused'[b] = IF b \in bad THEN excused[b] + Burst[b] ELSE excused[b]
    BY <1>2 DEF Faults
  <2>5. spent'[b] = IF grant /\ b \in {k, Global}
                    THEN spent[b] + Cost[b] ELSE spent[b]
    BY <1>2
  <2>6. /\ Cost[b] \in Nat /\ Burst[b] \in Nat /\ Cost[b] <= Burst[b]
        /\ spent[b] \in Nat /\ excused[b] \in Nat /\ elapsed \in Nat
    BY LimitsAssumption DEF KnockTypeOK
  <2>7. CASE b \in bad
    BY <2>7, <1>2, <1>4, <1>5, <2>1, <2>2, <2>3, <2>4, <2>5, <2>6
  <2>8. CASE b \notin bad
    <3>1. level[b] = bucket_level(b)
      BY <2>8, <1>4 DEF bad
    <3>2. b \in {k, Global} => b \in bs
      BY <2>8 DEF bad, bs
    <3>3. b \in bs => b \in {k, Global}
      BY DEF bs
    <3> QED
      BY <2>8, <3>1, <3>2, <3>3, <1>2, <1>5, <2>1, <2>2, <2>3, <2>4, <2>5, <2>6
  <2> QED
    BY <2>7, <2>8
<1> QED
  BY <1>8, <1>9

LEMMA DeathKeepsInv ==
  ASSUME KnockInv, NEW k \in Keys, DiesBetweenStores(k) PROVE KnockInv'
<1> USE DEF KnockInv
<1> DEFINE kept == [b \in Buckets |-> IF b = k THEN bucket_level(b) - Cost[b]
                                      ELSE bucket_level(b)]
<1>1. /\ store_bucket({k}, [b \in Buckets |-> bucket_level(b) - Cost[b]])
      /\ bucket_level(k) >= Cost[k] /\ UNCHANGED <<now, windowVars>>
      /\ faults > 0 /\ faults' = faults - 1
  BY DEF DiesBetweenStores
<1>2. k \in Buckets
  BY DEF Buckets
<1>3. \A b \in Buckets : bucket_level(b) \in Nat /\ bucket_level(b) <= Burst[b]
  BY LevelRange
<1>4. Cost[k] \in Nat
  BY <1>2, LimitsAssumption
<1>5. \A b \in Buckets : /\ kept[b] \in Nat /\ kept[b] <= Burst[b]
                         /\ kept[b] <= bucket_level(b)
  BY <1>1, <1>2, <1>3, <1>4, LimitsAssumption
<1>6. kept \in [Buckets -> Nat]
  BY <1>5
<1>7. store_bucket({k}, kept)
  BY <1>1, <1>2 DEF store_bucket
<1> HIDE DEF kept
<1>8. /\ rows' \in SUBSET Buckets
      /\ tokens' \in [Buckets -> Nat] /\ stamp' \in [Buckets -> Nat]
      /\ \A b \in rows' : tokens'[b] <= Burst[b]
  BY <1>1, <1>2, <1>5, <1>6, <1>7, StoreKeepsLevels
<1>9. KnockTypeOK' /\ LevelInv'
  BY <1>1, <1>8 DEF KnockTypeOK, LevelInv, windowVars
<1>10. BudgetInv'
  <2> SUFFICES ASSUME NEW b \in Buckets
               PROVE  spent'[b] + bucket_level(b)'
                        <= Burst[b] + excused'[b] + elapsed'
    BY DEF BudgetInv
  <2>1. bucket_level(b)' = IF b \in {k} THEN kept[b] ELSE bucket_level(b)
    BY <1>1, <1>2, <1>5, <1>6, <1>7, StoredLevel
  <2>2. spent[b] + bucket_level(b) <= Burst[b] + excused[b] + elapsed
    BY DEF BudgetInv
  <2>3. /\ Burst[b] \in Nat /\ spent[b] \in Nat /\ excused[b] \in Nat
        /\ elapsed \in Nat
    BY LimitsAssumption DEF KnockTypeOK
  <2> QED
    BY <1>1, <1>3, <1>5, <2>1, <2>2, <2>3 DEF windowVars
<1> QED
  BY <1>9, <1>10

LEMMA TimeKeepsInv == ASSUME KnockInv, Tick \/ SetBack \/ StartWindow PROVE KnockInv'
<1> USE DEF KnockInv
<1>1. tokens' = tokens /\ stamp' = stamp /\ rows' = rows /\ faults' = faults
  BY DEF Tick, SetBack, StartWindow, tableVars
<1>2. KnockTypeOK' /\ LevelInv'
  <2>1. LevelInv'
    BY <1>1 DEF LevelInv
  <2>2. CASE Tick
    BY <1>1, <2>1, <2>2 DEF Tick, KnockTypeOK
  <2>3. CASE SetBack
    BY <1>1, <2>1, <2>3 DEF SetBack, KnockTypeOK, windowVars
  <2>4. CASE StartWindow
    BY <1>1, <2>1, <2>4 DEF StartWindow, KnockTypeOK, Zero
  <2> QED
    BY <2>2, <2>3, <2>4
<1>3. ASSUME NEW b \in Buckets
      PROVE  spent'[b] + bucket_level(b)' <= Burst[b] + excused'[b] + elapsed'
  <2>1. spent[b] + bucket_level(b) <= Burst[b] + excused[b] + elapsed
    BY DEF BudgetInv
  <2>2. bucket_level(b) \in Nat /\ bucket_level(b) <= Burst[b]
    BY LevelRange
  <2>3. /\ Burst[b] \in Nat /\ spent[b] \in Nat /\ excused[b] \in Nat
        /\ elapsed \in Nat /\ now \in Nat
        /\ tokens[b] \in Nat /\ stamp[b] \in Nat
    BY LimitsAssumption DEF KnockTypeOK
  <2>4. CASE Tick
    <3>1. bucket_level(b)' \in Nat /\ bucket_level(b)' <= bucket_level(b) + 1
      BY <1>1, <2>3, <2>4 DEF Tick, bucket_level, Capped
    <3> QED
      BY <2>1, <2>2, <2>3, <2>4, <3>1 DEF Tick
  <2>5. CASE SetBack
    <3>1. bucket_level(b)' \in Nat /\ bucket_level(b)' <= bucket_level(b)
      BY <1>1, <2>3, <2>5 DEF SetBack, bucket_level, Capped
    <3> QED
      BY <2>1, <2>2, <2>3, <2>5, <3>1 DEF SetBack, windowVars
  <2>6. CASE StartWindow
    <3>1. bucket_level(b)' = bucket_level(b)
      BY <1>1, <2>6 DEF StartWindow, bucket_level, Capped
    <3>2. spent'[b] = 0 /\ excused'[b] = 0 /\ elapsed' = 0
      BY <2>6 DEF StartWindow, Zero
    <3> QED
      BY <2>2, <2>3, <3>1, <3>2
  <2> QED
    BY <2>4, <2>5, <2>6
<1> QED
  BY <1>2, <1>3 DEF BudgetInv

\* What a window has spent and what a bucket still holds never exceed its
\* capacity and the seconds counted.
THEOREM KnockInvariance == KnockSpec => []KnockInv
<1>1. KnockInit => KnockInv
  BY LimitsAssumption, BoundsAssumption
     DEF KnockInit, KnockInv, KnockTypeOK, LevelInv, BudgetInv, bucket_level, Zero
<1>2. KnockInv /\ [KnockNext]_knockVars => KnockInv'
  <2> SUFFICES ASSUME KnockInv, [KnockNext]_knockVars PROVE KnockInv'
    OBVIOUS
  <2>1. CASE UNCHANGED knockVars
    BY <2>1 DEF knockVars, tableVars, windowVars, KnockInv, KnockTypeOK, LevelInv, BudgetInv,
                bucket_level, Capped
  <2>2. CASE \E k \in Keys : spend_knock_token(k)
    BY <2>2, SpendKeepsInv
  <2>3. CASE \E k \in Keys : DiesBetweenStores(k)
    BY <2>3, DeathKeepsInv
  <2>4. CASE Tick \/ SetBack \/ StartWindow
    BY <2>4, TimeKeepsInv
  <2> QED
    BY <2>1, <2>2, <2>3, <2>4 DEF KnockNext
<1> QED
  BY <1>1, <1>2, PTL DEF KnockSpec

\* No window sees more knocks processed than the limits of spend_knock_token
\* and the seconds counted in it allow, for any keys, bursts and rates.
THEOREM KnocksAreLimited == KnockSpec => []WindowBound
<1>1. KnockInv => WindowBound
  <2> SUFFICES ASSUME KnockInv, NEW b \in Buckets
               PROVE  spent[b] <= Burst[b] + excused[b] + elapsed
    BY DEF WindowBound
  <2>1. bucket_level(b) \in Nat
    BY LevelRange DEF KnockInv
  <2>2. spent[b] + bucket_level(b) <= Burst[b] + excused[b] + elapsed
    BY DEF KnockInv, BudgetInv
  <2>3. /\ Burst[b] \in Nat /\ spent[b] \in Nat /\ excused[b] \in Nat
        /\ elapsed \in Nat
    BY LimitsAssumption DEF KnockInv, KnockTypeOK, LevelInv
  <2> QED
    BY <2>1, <2>2, <2>3
<1> QED
  BY KnockInvariance, <1>1, PTL

-----------------------------------------------------------------------------
\* A knock that is dropped, with every read and write done, stores what it read.
LEMMA DropKeepsLevels ==
  ASSUME KnockInv, NEW k \in Keys, spend_knock_token(k), spent' = spent, faults' = faults,
         NEW b \in Buckets
  PROVE  bucket_level(b)' = bucket_level(b)
<1> USE DEF KnockInv
<1>1. PICK unread \in SUBSET {k, Global}, unsaved \in SUBSET {k, Global} :
        LET level == [c \in Buckets |-> Reads(c, c \in unread)]
            grant == level[k] >= Cost[k] /\ level[Global] >= Cost[Global]
            kept  == [c \in Buckets |-> IF grant /\ c \in {k, Global}
                                        THEN level[c] - Cost[c] ELSE level[c]]
        IN  /\ Faults(unread \cup unsaved)
            /\ store_bucket({k, Global} \ unsaved, kept)
            /\ spent' = [c \in Buckets |-> IF grant /\ c \in {k, Global}
                                           THEN spent[c] + Cost[c] ELSE spent[c]]
            /\ UNCHANGED <<now, elapsed>>
  BY DEF spend_knock_token
<1>2. unread = {} /\ unsaved = {}
  <2>1. faults \in Nat
    BY DEF KnockTypeOK
  <2>2. unread \cup unsaved = {}
    BY <1>1, <2>1 DEF Faults
  <2> QED
    BY <2>2
<1> DEFINE level == [c \in Buckets |-> bucket_level(c)]
<1> DEFINE grant == level[k] >= Cost[k] /\ level[Global] >= Cost[Global]
<1>3. [c \in Buckets |-> Reads(c, c \in unread)] = level
  BY <1>2 DEF Reads
<1>4. /\ store_bucket({k, Global},
           [c \in Buckets |-> IF grant /\ c \in {k, Global}
                              THEN level[c] - Cost[c] ELSE level[c]])
      /\ spent' = [c \in Buckets |-> IF grant /\ c \in {k, Global}
                                     THEN spent[c] + Cost[c] ELSE spent[c]]
      /\ now' = now
  BY <1>1, <1>2, <1>3
<1>5. k \in Buckets /\ {k, Global} \in SUBSET Buckets
  BY DEF Buckets
<1>6. \A c \in Buckets : level[c] = bucket_level(c) /\ level[c] \in Nat /\ level[c] <= Burst[c]
  BY LevelRange
<1>7. ~ grant
  <2>1. spent[k] \in Nat /\ Cost[k] \in Nat \ {0}
    BY <1>5, LimitsAssumption DEF KnockTypeOK
  <2>2. grant => spent'[k] = spent[k] + Cost[k]
    BY <1>4, <1>5
  <2> HIDE DEF grant
  <2> QED
    BY <2>1, <2>2
<1>8. store_bucket({k, Global}, level)
  BY <1>4, <1>7
<1>9. level \in [Buckets -> Nat]
  BY <1>6
<1>10. now' = now /\ \A c \in {k, Global} : level[c] <= Burst[c]
  BY <1>4, <1>5, <1>6
<1>11. level[b] = bucket_level(b)
  OBVIOUS
<1> HIDE DEF level, grant
<1>12. bucket_level(b)' = IF b \in {k, Global} THEN level[b] ELSE bucket_level(b)
  BY <1>5, <1>8, <1>9, <1>10, StoredLevel
<1> QED
  BY <1>11, <1>12

\* A knock that is dropped empties no bucket, its own or the one it shares
\* with all: only a processed knock, a death between the two stores or a
\* clock that is set back lowers a level.
THEOREM DropsAreFree == KnockSpec => DropSpendsNothing
<1>1. KnockInv /\ [KnockNext]_knockVars =>
        [(spent' = spent /\ faults' = faults /\ now' >= now) =>
           \A b \in Buckets : bucket_level(b)' >= bucket_level(b)]_knockVars
  <2> SUFFICES ASSUME KnockInv, KnockNext, spent' = spent, faults' = faults, now' >= now,
                      NEW b \in Buckets
               PROVE  bucket_level(b)' >= bucket_level(b)
    OBVIOUS
  <2>1. bucket_level(b) \in Nat
    BY LevelRange DEF KnockInv
  <2>2. CASE \E k \in Keys : spend_knock_token(k)
    BY <2>1, <2>2, DropKeepsLevels
  <2>3. CASE \E k \in Keys : DiesBetweenStores(k)
    BY <2>3 DEF DiesBetweenStores, KnockInv, KnockTypeOK
  <2>4. CASE Tick \/ SetBack \/ StartWindow
    <3>1. tokens' = tokens /\ stamp' = stamp /\ rows' = rows
      BY <2>4 DEF Tick, SetBack, StartWindow, tableVars
    <3>2. /\ now \in Nat /\ now' \in Nat /\ tokens[b] \in Nat /\ stamp[b] \in Nat
          /\ Burst[b] \in Nat
      BY <2>4, LimitsAssumption DEF KnockInv, KnockTypeOK, Tick, SetBack, StartWindow
    <3> QED
      BY <3>1, <3>2 DEF bucket_level, Capped
  <2> QED
    BY <2>2, <2>3, <2>4 DEF KnockNext
<1> QED
  BY <1>1, KnockInvariance, PTL DEF KnockSpec, DropSpendsNothing
=============================================================================
