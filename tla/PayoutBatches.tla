---------------------------- MODULE PayoutBatches ----------------------------
(***************************************************************************)
(* The rows of payout_batches and the four operations an organization has  *)
(* on them.  Each is one UPDATE whose WHERE clause is its guard: called in *)
(* any other state it changes nothing and is answered 400, so the refused  *)
(* calls are stuttering steps.                                             *)
(***************************************************************************)
CONSTANTS
  Batches,          \* ids of batches
  Users,            \* operators
  OrgOf,            \* the organization of an operator
  None

VARIABLE batches

NoBatch == [status |-> "none", owner |-> None, createdBy |-> None, approvedBy |-> None]

BatchesInit == batches = [b \in Batches |-> NoBatch]

createBatch(b, u) ==
  /\ batches[b] = NoBatch
  /\ batches' = [batches EXCEPT ![b] =
       [status |-> "DRAFT", owner |-> OrgOf[u], createdBy |-> u, approvedBy |-> None]]

Advanced(batch, status) == [batch EXCEPT !.status = status]

requestBatchApproval(b, u) ==
  /\ batches[b].owner = OrgOf[u] /\ batches[b].status = "DRAFT"
  /\ batches' = [batches EXCEPT ![b] = Advanced(batches[b], "PENDING_APPROVAL")]

Approved(batch, u) == [Advanced(batch, "APPROVED") EXCEPT !.approvedBy = u]

\* Mutant of MayApprove: created_by <> $1 is missing.
MayApproveOwn(batch, u) == batch.owner = OrgOf[u] /\ batch.status = "PENDING_APPROVAL"

MayApprove(batch, u) ==
  batch.owner = OrgOf[u] /\ batch.status = "PENDING_APPROVAL" /\ batch.createdBy # u

approveBatch(b, u) ==
  /\ MayApprove(batches[b], u)
  /\ batches' = [batches EXCEPT ![b] = Approved(batches[b], u)]

submitBatch(b, u) ==
  /\ batches[b].owner = OrgOf[u] /\ batches[b].status = "APPROVED"
  /\ batches' = [batches EXCEPT ![b] = Advanced(batches[b], "SUBMITTED")]

\* initiate: the states in which a batch takes another payout.
TakesPayouts(batch, u) ==
  batch.owner = OrgOf[u] /\ batch.status \in {"DRAFT", "APPROVED", "SUBMITTED"}

BatchStep(b, u) ==
  \/ createBatch(b, u) \/ requestBatchApproval(b, u)
  \/ approveBatch(b, u) \/ submitBatch(b, u)

BatchesNext == \E b \in Batches, u \in Users : BatchStep(b, u)

BatchesSpec == BatchesInit /\ [][BatchesNext]_batches
-----------------------------------------------------------------------------
Batch ==
  [status: {"none", "DRAFT", "PENDING_APPROVAL", "APPROVED", "SUBMITTED"},
   owner: {OrgOf[u] : u \in Users} \cup {None},
   createdBy: Users \cup {None}, approvedBy: Users \cup {None}]

BatchesTypeOK == batches \in [Batches -> Batch]

\* "Batches use DRAFT -> PENDING_APPROVAL -> APPROVED -> SUBMITTED with
\* creator/approver separation": whatever the order of the calls, an approved
\* batch was approved by a second operator of the organization that owns it.
ApprovedByAnother ==
  \A b \in Batches : batches[b].status \in {"APPROVED", "SUBMITTED"} =>
    /\ batches[b].approvedBy \in Users \ {batches[b].createdBy}
    /\ OrgOf[batches[b].approvedBy] = batches[b].owner
=============================================================================
