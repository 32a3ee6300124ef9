-------------------------- MODULE PayoutLifecycle ---------------------------
(***************************************************************************)
(* What the system promises about one disbursement, whoever stores it: it  *)
(* is created once, PENDING, and then moves only along payoutTransitions   *)
(* (domain.ts).  The world state of the contract and the disbursements     *)
(* table of the API are two implementations of this specification.         *)
(***************************************************************************)
EXTENDS ReliefDomain

CONSTANT Disbursements

VARIABLE status         \* status[d]: "none" before d is created

LifecycleInit == status = [d \in Disbursements |-> "none"]

Create(d) ==
  /\ status[d] = "none"
  /\ status' = [status EXCEPT ![d] = "PENDING"]

Transition(d) ==
  /\ status[d] \in PayoutStates
  /\ \E to \in payoutTransitions[status[d]] : status' = [status EXCEPT ![d] = to]

LifecycleNext == \E d \in Disbursements : Create(d) \/ Transition(d)

LifecycleSpec == LifecycleInit /\ [][LifecycleNext]_status
=============================================================================
