----------------------------- MODULE PayoutBooks -----------------------------
(***************************************************************************)
(* What the API promises about the two books that record a payout: the     *)
(* ledger decides first and once, and the disbursements table follows it.  *)
(* PayoutWorker implements this with jobs, leases, retries and operators.  *)
(***************************************************************************)
CONSTANT Disbursements

VARIABLES
  ledger,       \* the status FinalizeDisbursement left in the world state
  db            \* disbursements.status

BooksInit ==
  /\ ledger = [d \in Disbursements |-> "PENDING"]
  /\ db     = [d \in Disbursements |-> "PENDING"]

\* The contract accepts the one finalization of d.
Finalize(d) ==
  /\ ledger[d] = "PENDING"
  /\ \E status \in {"SETTLED", "FAILED"} : ledger' = [ledger EXCEPT ![d] = status]
  /\ UNCHANGED db

\* The provider does not know: an off-chain state, the ledger stays PENDING.
Defer(d) ==
  /\ db[d] = "PENDING" /\ ledger[d] = "PENDING"
  /\ db' = [db EXCEPT ![d] = "UNKNOWN"]
  /\ UNCHANGED ledger

\* The table takes over what the ledger says.
Record(d) ==
  /\ db[d] \in {"PENDING", "UNKNOWN"} /\ ledger[d] # "PENDING"
  /\ db' = [db EXCEPT ![d] = ledger[d]]
  /\ UNCHANGED ledger

BooksNext == \E d \in Disbursements : Finalize(d) \/ Defer(d) \/ Record(d)

BooksSpec == BooksInit /\ [][BooksNext]_<<ledger, db>>
=============================================================================
