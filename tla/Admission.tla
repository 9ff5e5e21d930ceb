----------------------------- MODULE Admission -----------------------------
(***************************************************************************)
(* Who may do what at a node: the tables `_peers`, `_policy`, `_decisions` *)
(* and `_inbox`, the decider chain that reads them for every request and   *)
(* knock (crates/authenticator/src: chain.rs, cache.rs, policy.rs,         *)
(* human.rs; crates/node/src/pipeline.rs), and the owner who changes them: *)
(* inbox answers (cli/src/inboxcmd.rs statement by statement, the web API  *)
(* through answer_inbox in one job of the db thread), peer removal         *)
(* (cli/src/peercmd.rs) and rules edited by hand.                          *)
(*                                                                         *)
(* A shape is what statement_fingerprint tells apart: the normalized       *)
(* statement with its action and footprint.                                *)
(***************************************************************************)
EXTENDS PolicyRules, Sequences

CONSTANTS
  Peers, Shapes,
  Action,      \* the policy action of a shape
  Foot,        \* the tables of a shape, in order
  Knock,       \* what a parked knock is about, instead of a shape
  Ids,         \* bound on `_inbox` rows
  Sessions,    \* owner sessions: CLI commands and web requests
  Web,         \* the sessions that are web requests
  None,
  HandRules,   \* rules the owner inserts and deletes by hand
  GrantLists,  \* the --grant lists an answer may carry: rows but for the peer
  Chain,       \* _rsntr.auth_chain
  Masks,       \* the values of _rsntr.auth_masks: for each, the
               \* <<tier, decision, action>> it rules out
  Failing      \* tiers whose queries may fail

Tiers == {"cache", "policy", "human"}

ASSUME NamesAssumption ==
  /\ Knock \notin Shapes /\ None \notin Peers \cup Sessions /\ Star \notin Peers
  /\ Web \subseteq Sessions
ASSUME ChainAssumption == Chain \in Seq(Tiers) /\ Failing \subseteq Tiers

Range(f) == {f[i] : i \in DOMAIN f}
Decisions == {"allow", "deny"}

ASSUME RulesAssumption ==
  /\ \A r \in HandRules : r.who \in Peers \cup {Star} /\ r.effect \in Decisions
  /\ \A gs \in GrantLists : gs \in Seq(Range(gs))
  /\ \A s \in Shapes : Foot[s] \in Seq(Range(Foot[s]))

VARIABLES
  masked,    \* _rsntr.auth_masks, read for every request
  peers, policy, cache, inbox,   \* the tables
  todo,      \* the statements each session has still to run
  holder,    \* the web request the db thread is running, or None
  last,      \* the screening just done: <<peer, shape, cleared>> or None
  okd,       \* <<peer, shape>> the owner has answered "allow" for
  rules,     \* every rule that was ever in `_policy`
  leaving,   \* peers being removed, no owner's act since the command began
  removed,   \* peers removed, no owner's act since the command began
  revoked,   \* <<peer, shape>> whose rule was deleted, no owner's act since
  overlap    \* a session began while another was under way

tables == <<masked, peers, policy, cache, inbox>>
history == <<okd, rules, leaving, removed, revoked, overlap>>
vars == <<tables, todo, holder, last, history>>

RowOf(p, g) == [who |-> p, table |-> g.table, action |-> g.action,
                effect |-> "allow"]
NoRow == [st |-> "free", peer |-> None, about |-> Knock]

TypeOK ==
  /\ masked \in Masks
  /\ peers \in SUBSET Peers
  /\ \A r \in policy : r.who \in Peers \cup {Star} /\ r.effect \in Decisions
  /\ cache \in [Peers \X Shapes -> {"none"} \cup Decisions]
  /\ inbox \in [Ids -> [st : {"free", "pending"} \cup Decisions,
                        peer : Peers \cup {None}, about : Shapes \cup {Knock}]]
  /\ holder \in Web \cup {None}
  /\ holder # None => todo[holder] # <<>>
  /\ okd \in SUBSET (Peers \X Shapes) /\ policy \subseteq rules
  /\ leaving \in SUBSET Peers /\ removed \in SUBSET Peers
  /\ overlap \in BOOLEAN

Init ==
  /\ masked \in Masks
  /\ peers \in SUBSET Peers /\ policy \in SUBSET HandRules
  /\ cache = [x \in Peers \X Shapes |-> "none"]
  /\ inbox = [i \in Ids |-> NoRow]
  /\ todo = [o \in Sessions |-> <<>>] /\ holder = None /\ last = None
  /\ okd = {} /\ rules = policy /\ leaving = {} /\ removed = {}
  /\ revoked = {} /\ overlap = FALSE

-----------------------------------------------------------------------------
(* The decider chain. *)

CacheTier(p, s) == IF cache[<<p, s>>] = "none" THEN "escalate"
                   ELSE cache[<<p, s>>]

PolicyTier(p, s) == PolicySays(policy, p, Range(Foot[s]), Action[s])

\* Parking is the human tier's answer to a statement.
HumanTier(p, s) == "deny"

\* A tier whose query fails escalates.
TierSays(tier, p, s, broken) ==
  IF tier \in broken THEN "escalate"
  ELSE CASE tier = "cache"  -> CacheTier(p, s)
         [] tier = "policy" -> PolicyTier(p, s)
         [] tier = "human"  -> HumanTier(p, s)

\* Mutant: the masks are not applied.
Answers_maskOpen(p, s, broken) ==
  {i \in DOMAIN Chain :
     TierSays(Chain[i], p, s, broken) # "escalate"}

\* The positions in the chain whose tier takes a decision it has authority for.
Answers(p, s, broken) ==
  {i \in DOMAIN Chain :
     LET d == TierSays(Chain[i], p, s, broken)
     IN  d # "escalate" /\ <<Chain[i], d, Action[s]>> \notin masked}

\* A tier is asked if none before it has answered.
Asked(i, p, s, broken) == \A j \in Answers(p, s, broken) : i <= j

\* The first answer decides; the tail default denies.
ChainDecides(p, s, broken) ==
  IF \E i \in Answers(p, s, broken) :
       Asked(i, p, s, broken) /\ TierSays(Chain[i], p, s, broken) = "allow"
  THEN "allow" ELSE "deny"

Pending(p, about) ==
  {i \in Ids : /\ inbox[i].st = "pending" /\ inbox[i].peer = p
               /\ inbox[i].about = about}

\* Mutant: parks without looking for a pending row.
Park_blind(p, about) ==
  \E i \in Ids : /\ inbox[i].st = "free"
                 /\ inbox' = [inbox EXCEPT ![i] = [st |-> "pending", peer |-> p,
                                                   about |-> about]]

\* At most one pending row: a second request finds the first one's.
Park(p, about) ==
  \/ Pending(p, about) # {} /\ UNCHANGED inbox
  \/ /\ Pending(p, about) = {}
     /\ \E i \in Ids : /\ inbox[i].st = "free"
                       /\ inbox' = [inbox EXCEPT ![i] = [st |-> "pending",
                                                         peer |-> p,
                                                         about |-> about]]

\* screen_request: the peer gate, then the chain; the human tier parks
\* whenever it is asked, even if its decision is then masked.
Screen(p, s) ==
  /\ holder = None
  /\ \E broken \in SUBSET Failing :
       LET asksHuman == \E i \in DOMAIN Chain :
             /\ Chain[i] = "human" /\ "human" \notin broken
             /\ Asked(i, p, s, broken)
       IN  /\ last' = <<p, s, p \in peers /\ ChainDecides(p, s, broken) = "allow">>
           /\ IF p \in peers /\ asksHuman THEN Park(p, s) ELSE UNCHANGED inbox
  /\ UNCHANGED <<masked, peers, policy, cache, todo, holder, history>>

\* weigh_knock for a stranger whose knock the rate limit lets through: only
\* the policy tier speaks on knocks, and the tail default parks them.
KnockSays(p, broken) ==
  LET d == PolicySays(policy, p, {}, "knock")
  IN  IF /\ "policy" \in Range(Chain) \ broken
         /\ <<"policy", d, "knock">> \notin masked
      THEN d ELSE "escalate"

KnockAt(p) ==
  /\ holder = None /\ p \notin peers
  /\ \E broken \in SUBSET Failing :
       \/ /\ KnockSays(p, broken) = "allow"
          /\ peers' = peers \cup {p} /\ UNCHANGED inbox
       \/ /\ KnockSays(p, broken) = "escalate"
          /\ Park(p, Knock) /\ UNCHANGED peers
  /\ last' = None
  /\ UNCHANGED <<masked, policy, cache, todo, holder, history>>

-----------------------------------------------------------------------------
(* The owner.  A session is a list of statements, run one by one. *)

Mark(i, d)      == <<"mark", i, d>>
Admit(p)        == <<"admit", p>>
Rule(p, t, a, d) == <<"rule", [who |-> p, table |-> t, action |-> a, effect |-> d]>>
Remember(p, s, d) == <<"cache", p, s, d>>

Grants(p, gs) == [n \in 1..Len(gs) |-> <<"rule", RowOf(p, gs[n])>>]

\* --remember: one row per footprint table, or one for '*'.
Generated(p, s, d) ==
  IF Foot[s] = <<>> THEN <<Rule(p, Star, Action[s], d)>>
  ELSE [n \in 1..Len(Foot[s]) |-> Rule(p, Foot[s][n], Action[s], d)]

\* What inbox_answer_with (CLI) and answer_inbox (web) run for one row, by session o.
AnswerKnock(o, i, p, d, gs) ==
  <<Mark(i, d)>> \o
  (IF d = "allow" THEN <<Admit(p)>> \o Grants(p, gs)
   ELSE IF o \in Web THEN <<>> ELSE <<Rule(p, Star, "knock", "deny")>>)

AnswerShape(o, i, p, s, d, remember, gs) ==
  LET grants == IF d = "allow" THEN Grants(p, gs) ELSE <<>>
      remembered == <<Remember(p, s, d)>> \o
                    (IF remember THEN Generated(p, s, d) ELSE <<>>)
  IN  <<Mark(i, d)>> \o (IF o \in Web THEN remembered \o grants
                         ELSE grants \o remembered)

\* An explicit act of the owner about p ends what history says of it.
OwnerActs(p) ==
  /\ leaving' = leaving \ {p} /\ removed' = removed \ {p}
  /\ revoked' = {x \in revoked : x[1] # p}

Overlaps(o) == overlap' = (overlap \/ \E q \in Sessions \ {o} : todo[q] # <<>>)

\* The row is read and found pending; nothing is written yet.
BeginAnswer(o, i, d, remember, gs) ==
  LET p == inbox[i].peer
      s == inbox[i].about
  IN  /\ holder = None /\ todo[o] = <<>> /\ inbox[i].st = "pending"
      /\ todo' = [todo EXCEPT ![o] =
                    IF s = Knock THEN AnswerKnock(o, i, p, d, gs)
                    ELSE AnswerShape(o, i, p, s, d, remember, gs)]
      /\ holder' = IF o \in Web THEN o ELSE None
      /\ okd' = IF d = "allow" /\ s # Knock THEN okd \cup {<<p, s>>} ELSE okd
      /\ OwnerActs(p) /\ Overlaps(o)
      /\ last' = None
      /\ UNCHANGED <<tables, rules>>

\* peer_remove_with, without the chat and outbox steps.
BeginRemove(o, p) ==
  /\ holder = None /\ o \notin Web /\ todo[o] = <<>>
  /\ todo' = [todo EXCEPT ![o] =
                <<<<"forget", p>>, <<"unrule", p>>, <<"uncache", p>>>>]
  /\ leaving' = leaving \cup {p} /\ Overlaps(o)
  /\ last' = None
  /\ UNCHANGED <<tables, holder, okd, rules, removed, revoked>>

\* Mutant: peer removal that forgets the cached decisions.
Apply_keepCache(st) ==
  /\ peers' = CASE st[1] = "admit"  -> peers \cup {st[2]}
                [] st[1] = "forget" -> peers \ {st[2]}
                [] OTHER -> peers
  /\ policy' = CASE st[1] = "rule"   -> policy \cup {st[2]}
                 [] st[1] = "unrule" -> {r \in policy : r.who # st[2]
                                                        \/ r.effect = "deny"}
                 [] OTHER -> policy
  /\ cache' = CASE st[1] = "cache"   -> [cache EXCEPT ![<<st[2], st[3]>>] = st[4]]
                [] OTHER -> cache
  /\ inbox' = IF st[1] = "mark" THEN [inbox EXCEPT ![st[2]].st = st[3]] ELSE inbox

\* Mutant: an answered row is remembered before it is decided either way.
Apply_cacheAllow(st) ==
  /\ peers' = CASE st[1] = "admit"  -> peers \cup {st[2]}
                [] st[1] = "forget" -> peers \ {st[2]}
                [] OTHER -> peers
  /\ policy' = CASE st[1] = "rule"   -> policy \cup {st[2]}
                 [] st[1] = "unrule" -> {r \in policy : r.who # st[2]
                                                        \/ r.effect = "deny"}
                 [] OTHER -> policy
  /\ cache' = CASE st[1] = "cache"   -> [cache EXCEPT ![<<st[2], st[3]>>] = "allow"]
                [] st[1] = "uncache" -> [x \in Peers \X Shapes |->
                                           IF x[1] = st[2] THEN "none" ELSE cache[x]]
                [] OTHER -> cache
  /\ inbox' = IF st[1] = "mark" THEN [inbox EXCEPT ![st[2]].st = st[3]] ELSE inbox

\* One statement on the tables.  Removal keeps deny rules.
Apply(st) ==
  /\ peers' = CASE st[1] = "admit"  -> peers \cup {st[2]}
                [] st[1] = "forget" -> peers \ {st[2]}
                [] OTHER -> peers
  /\ policy' = CASE st[1] = "rule"   -> policy \cup {st[2]}
                 [] st[1] = "unrule" -> {r \in policy : r.who # st[2]
                                                        \/ r.effect = "deny"}
                 [] OTHER -> policy
  /\ cache' = CASE st[1] = "cache"   -> [cache EXCEPT ![<<st[2], st[3]>>] = st[4]]
                [] st[1] = "uncache" -> [x \in Peers \X Shapes |->
                                           IF x[1] = st[2] THEN "none" ELSE cache[x]]
                [] OTHER -> cache
  /\ inbox' = IF st[1] = "mark" THEN [inbox EXCEPT ![st[2]].st = st[3]] ELSE inbox

\* Mutant: a web request that ends does not give the db thread back.
Step_keepsThread(o) ==
  /\ todo[o] # <<>> /\ holder \in {None, o}
  /\ Apply(Head(todo[o]))
  /\ todo' = [todo EXCEPT ![o] = Tail(@)]
  /\ rules' = rules \cup policy' /\ last' = None
  /\ UNCHANGED <<masked, holder, okd, leaving, removed, revoked, overlap>>

\* The next statement of a session; a web request keeps the db thread.
Step(o) ==
  LET st == Head(todo[o])
      end == Tail(todo[o]) = <<>>
  IN  /\ todo[o] # <<>> /\ holder \in {None, o}
      /\ Apply(st)
      /\ todo' = [todo EXCEPT ![o] = Tail(@)]
      /\ holder' = IF end THEN None ELSE holder
      /\ rules' = rules \cup policy'
      /\ removed' = IF st[1] = "uncache" THEN removed \cup (leaving \cap {st[2]})
                    ELSE removed
      /\ leaving' = IF st[1] = "uncache" THEN leaving \ {st[2]} ELSE leaving
      /\ last' = None
      /\ UNCHANGED <<masked, okd, revoked, overlap>>

\* The command is interrupted, or one of its statements fails.
Abort(o) ==
  /\ todo[o] # <<>> /\ holder \in {None, o}
  /\ todo' = [todo EXCEPT ![o] = <<>>]
  /\ holder' = None /\ last' = None
  /\ leaving' = {}
  /\ UNCHANGED <<tables, okd, rules, removed, revoked, overlap>>

AddPeer(p) ==
  /\ holder = None /\ p \notin peers
  /\ peers' = peers \cup {p}
  /\ OwnerActs(p)
  /\ last' = None
  /\ UNCHANGED <<masked, policy, cache, inbox, todo, holder, okd, rules, overlap>>

AddRule(r) ==
  /\ holder = None /\ r \in HandRules \ policy
  /\ policy' = policy \cup {r} /\ rules' = rules \cup {r}
  /\ leaving' = leaving \ {r.who} /\ removed' = removed \ {r.who}
  /\ revoked' = {} /\ last' = None
  /\ UNCHANGED <<masked, peers, cache, inbox, todo, holder, okd, overlap>>

Allowed(pol, p, s) == PolicySays(pol, p, Range(Foot[s]), Action[s]) = "allow"

DeleteRule(r) ==
  /\ holder = None /\ r \in policy
  /\ policy' = policy \ {r}
  /\ revoked' = revoked \cup {x \in Peers \X Shapes :
                                /\ Allowed(policy, x[1], x[2])
                                /\ ~ Allowed(policy \ {r}, x[1], x[2])}
  /\ last' = None
  /\ UNCHANGED <<masked, peers, cache, inbox, todo, holder, okd, rules, leaving, removed,
                 overlap>>

SetMasks(m) ==
  /\ holder = None /\ m # masked
  /\ masked' = m /\ last' = None
  /\ UNCHANGED <<peers, policy, cache, inbox, todo, holder, history>>

-----------------------------------------------------------------------------
Remote == \E p \in Peers : KnockAt(p) \/ \E s \in Shapes : Screen(p, s)

Owner ==
  \/ \E o \in Sessions :
       \/ Step(o) \/ Abort(o)
       \/ \E p \in Peers : BeginRemove(o, p)
       \/ \E i \in Ids, d \in Decisions, m \in BOOLEAN, gs \in GrantLists :
            BeginAnswer(o, i, d, m, gs)
  \/ \E p \in Peers : AddPeer(p)
  \/ \E r \in HandRules : AddRule(r)
  \/ \E r \in policy : DeleteRule(r)
  \/ \E m \in Masks : SetMasks(m)

Next == Remote \/ Owner

Spec == Init /\ [][Next]_vars

-----------------------------------------------------------------------------
(* Properties. *)

\* A request is cleared only for an admitted peer the owner has authorized:
\* by an inbox answer for its shape or by rules that allowed its tables,
\* through a tier that has the authority, whatever tiers fail or race with
\* the owner's statements.
ClearedByOwner ==
  last # None /\ last[3] =>
    LET p == last[1] s == last[2]
    IN  /\ p \in peers
        /\ \/ /\ <<"cache", "allow", Action[s]>> \notin masked
              /\ <<p, s>> \in okd
           \/ /\ <<"policy", "allow", Action[s]>> \notin masked
              /\ \A t \in Resources(Range(Foot[s])) :
                   \E r \in Matching(rules, p, t, Action[s]) : r.effect = "allow"

\* "At most one pending row per (peer, shape)", and per knocking peer.
OnePendingRow ==
  \A i, j \in Ids :
    (inbox[i].st = "pending" /\ inbox[j].st = "pending"
       /\ inbox[i].peer = inbox[j].peer /\ inbox[i].about = inbox[j].about)
    => i = j

\* A remembered allow is the owner's: some inbox row for the peer and shape
\* reads "allow".  The main.rs hint says "re-answer is not possible"; two
\* sessions at once refute it (README, section 6).
CacheAgreesWithInbox ==
  \A x \in Peers \X Shapes :
    cache[x] = "allow" =>
      \E i \in Ids : /\ inbox[i].peer = x[1] /\ inbox[i].about = x[2]
                     /\ inbox[i].st = "allow"

\* The same while the owner's sessions do not overlap: then no interruption
\* and no interleaving with the node's own work separates the two tables.
SerialCacheAgrees == overlap \/ CacheAgreesWithInbox

\* peercmd.rs: removal leaves no allow rule and no cached decision, so that
\* "re-admitting it later" does not silently restore a permission.
RemovedHoldNothing ==
  \A p \in removed :
    /\ \A r \in policy : r.who = p => r.effect = "deny"
    /\ \A s \in Shapes : cache[<<p, s>>] = "none"

\* The same while the owner's sessions do not overlap.
SerialRemovalHolds == overlap \/ RemovedHoldNothing

\* README: everything is "revoked by deleting that row", which this model refutes: a
\* remembered decision outlives its rule (README, section 6).
RevokedByDeletingRow ==
  last # None /\ last[3] => <<last[1], last[2]>> \notin revoked

\* While the owner's sessions do not overlap, every remembered allow is backed by an answered
\* row, and a removed peer holds no permission that readmission would restore (answer, remove).
SerialSessionsHold == SerialCacheAgrees /\ SerialRemovalHolds
=============================================================================
