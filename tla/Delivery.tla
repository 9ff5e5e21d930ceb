------------------------------ MODULE Delivery ------------------------------
(***************************************************************************)
(* What the outbox promises for requests the serving node records in its   *)
(* ledger: a request is executed at most once, whenever that happens, and  *)
(* an application that sees it completed may rely on the one execution.    *)
(* A failed request promises nothing about execution: it may have been     *)
(* executed, or may yet be.                                                *)
(***************************************************************************)
EXTENDS Naturals

CONSTANT Requests

VARIABLES
  fate,       \* what the application reads: none, pending, failed, completed
  executed    \* requests the serving node has executed

vars == <<fate, executed>>

Init == fate = [r \in Requests |-> "none"] /\ executed = {}

Submit(r) ==
  /\ fate[r] = "none"
  /\ fate' = [fate EXCEPT ![r] = "pending"]
  /\ UNCHANGED executed

\* A failed request is still on its way to the node, or being worked on there.
Execute(r) ==
  /\ fate[r] \in {"pending", "failed"} /\ r \notin executed
  /\ executed' = executed \cup {r}
  /\ UNCHANGED fate

\* Cancelling fails several requests at once.
Fail(R) ==
  /\ \A r \in R : fate[r] = "pending"
  /\ fate' = [r \in Requests |-> IF r \in R THEN "failed" ELSE fate[r]]
  /\ UNCHANGED executed

Complete(r) ==
  /\ fate[r] \in {"pending", "failed"} /\ r \in executed
  /\ fate' = [fate EXCEPT ![r] = "completed"]
  /\ UNCHANGED executed

Next == \/ \E r \in Requests : Submit(r) \/ Execute(r) \/ Complete(r)
        \/ \E R \in SUBSET Requests : Fail(R)

Spec == Init /\ [][Next]_vars
=============================================================================
