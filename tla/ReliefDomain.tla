---------------------------- MODULE ReliefDomain ----------------------------
(***************************************************************************)
(* The domain rules the ledger contract applies to one asset at a time     *)
(* (fabric/chaincode/src/domain.ts) and the identity and amount checks of  *)
(* relief-contract.ts.  A rule that throws is a guard here (CanX); what it *)
(* returns is an operator of its own (X).  Names, districts, timestamps,   *)
(* public references and provider hashes are abstracted away: no rule of   *)
(* the contract compares them with anything it stored before.              *)
(***************************************************************************)
EXTENDS Integers, FiniteSets

CONSTANT MaxPaise       \* MAX_PAISE, the largest amount of one transaction

ASSUME MaxPaiseAssumption == MaxPaise \in Nat \ {0}

Paise == 1..MaxPaise

(***************************************************************************)
(* Identities: the MSP of the certificate and its `role' attribute.  A     *)
(* certificate without the attribute ("none") gets the role of its MSP.    *)
(***************************************************************************)
WriterMSPs == {"GovernmentMSP", "NgoMSP"}

MSPs == WriterMSPs \cup {"AuditorMSP"}

Identity == [msp: MSPs, role: {"GOVERNMENT", "NGO", "AUDITOR", "none"}]

fallback(msp) ==
  CASE msp = "GovernmentMSP" -> "GOVERNMENT"
    [] msp = "NgoMSP"        -> "NGO"
    [] OTHER                 -> "none"

RoleOf(client) == IF client.role = "none" THEN fallback(client.msp) ELSE client.role

requireWriter(client) ==
  /\ client.msp \in WriterMSPs
  /\ RoleOf(client) \in {"GOVERNMENT", "NGO"}

SourceTypes == {"CENTRAL_GOVERNMENT", "STATE_GOVERNMENT", "NGO"}

MayCreateSource(client, sourceType) == RoleOf(client) = "NGO" => sourceType = "NGO"

\* REASON_CODE: "" stands for the empty string, "CODE" for any stable code.
ReasonCodes == {"", "CODE"}

(***************************************************************************)
(* The life of a disbursement, as the table in domain.ts has it, and the   *)
(* part of it contract v1 stores (UNKNOWN is an off-chain state).          *)
(***************************************************************************)
PayoutStates == {"PENDING", "SETTLED", "FAILED", "UNKNOWN", "REVERSED"}

payoutTransitions ==
  [PENDING  |-> {"SETTLED", "FAILED", "UNKNOWN"},
   SETTLED  |-> {"REVERSED"},
   FAILED   |-> {},
   UNKNOWN  |-> {"SETTLED", "FAILED"},
   REVERSED |-> {}]

LedgerStatuses == PayoutStates \ {"UNKNOWN"}

(***************************************************************************)
(* The balance rules.                                                      *)
(***************************************************************************)
\* Mutant of CanAllocate: the owner is not checked.
CanAllocateAnyOwner(source, amount, msp) == source.allocated + amount <= source.amount

CanAllocate(source, amount, msp) ==
  /\ source.ownerMsp = msp
  /\ source.allocated + amount <= source.amount

Allocate(source, amount) == [source EXCEPT !.allocated = @ + amount]

\* Mutant of CanReserve: what was already paid out counts as free.
CanReserveDisbursed(allocation, amount, msp) ==
  allocation.ownerMsp = msp /\ allocation.reserved + amount <= allocation.amount

CanReserve(allocation, amount, msp) ==
  /\ allocation.ownerMsp = msp
  /\ allocation.disbursed + allocation.reserved + amount <= allocation.amount

Reserve(allocation, amount) == [allocation EXCEPT !.reserved = @ + amount]

\* Mutant of CanSettle: the status is not checked.
CanSettleAnyStatus(allocation, payout) == allocation.reserved >= payout.amount

CanSettle(allocation, payout) ==
  /\ payout.status = "PENDING"
  /\ allocation.reserved >= payout.amount

\* Mutant of Settle: a failed payout keeps its reservation.
SettleSettledOnly(allocation, amount, status) ==
  IF status = "SETTLED"
  THEN [allocation EXCEPT !.reserved = @ - amount, !.disbursed = @ + amount]
  ELSE allocation

Settle(allocation, amount, status) ==
  [allocation EXCEPT !.reserved  = @ - amount,
                     !.disbursed = @ + (IF status = "SETTLED" THEN amount ELSE 0)]

\* Mutant of CanReverse: a reversed payout is reversed again.
CanReverseAgain(allocation, payout) == payout.status \in {"SETTLED", "REVERSED"}

CanReverse(allocation, payout) ==
  /\ payout.status = "SETTLED"
  /\ allocation.disbursed >= payout.amount

Reverse(allocation, amount) == [allocation EXCEPT !.disbursed = @ - amount]
=============================================================================
