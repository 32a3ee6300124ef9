----------------------------- MODULE PayoutIntake -----------------------------
(***************************************************************************)
(* What initiating payouts promises: an idempotency key stands for at most *)
(* one payout, forever and in both books, and the ledger has it first.     *)
(* PayoutRequests implements this with retried calls and lost answers.     *)
(***************************************************************************)
CONSTANTS Keys, Payouts, None

VARIABLES
  ledger,       \* the payout the world state has under a key
  book          \* the row of disbursements under a key

IntakeInit == ledger = [k \in Keys |-> None] /\ book = [k \in Keys |-> None]

Initiate(k, payout) ==
  /\ ledger[k] = None
  /\ ledger' = [ledger EXCEPT ![k] = payout]
  /\ UNCHANGED book

Record(k) ==
  /\ ledger[k] # None /\ book[k] = None
  /\ book' = [book EXCEPT ![k] = ledger[k]]
  /\ UNCHANGED ledger

IntakeNext == \E k \in Keys : Record(k) \/ \E payout \in Payouts : Initiate(k, payout)

IntakeSpec == IntakeInit /\ [][IntakeNext]_<<ledger, book>>
=============================================================================
