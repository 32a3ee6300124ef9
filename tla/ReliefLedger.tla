---------------------------- MODULE ReliefLedger ----------------------------
(***************************************************************************)
(* The world state of ReliefFundsContract (fabric/chaincode/src) and its   *)
(* eight writing transactions.  A transaction is one action: the contract  *)
(* reads, decides and writes against one committed state, and a run whose  *)
(* check fails writes nothing, so the action is simply not enabled.        *)
(* `event' is the single chaincode event the last transaction set.         *)
(***************************************************************************)
EXTENDS ReliefDomain, Functions

CONSTANTS
  Identities,     \* the client certificates that reach the contract
  Disasters, Schemes, Sources, Allocations, Beneficiaries, Disbursements,
  Keys,           \* idempotency keys
  Absent          \* what getState returns for a key never written

VARIABLES
  disasters,      \* the registered disasters
  schemes,        \* scheme -> its disaster
  sources,        \* fund source -> FundSourceAsset
  allocations,    \* allocation -> AllocationAsset
  beneficiaries,  \* beneficiary reference -> the scheme of its commitment
  disbursements,  \* disbursement -> DisbursementAsset
  idempotency,    \* idempotency key -> the disbursement that used it
  event           \* the event of the last committed transaction

assets == <<disasters, schemes, sources, allocations, beneficiaries,
            disbursements, idempotency>>
vars   == <<assets, event>>

SourceAsset ==
  [ownerMsp: WriterMSPs, sourceType: SourceTypes, disaster: Disasters,
   amount: Paise, allocated: Nat]

AllocationAsset ==
  [source: Sources, ownerMsp: WriterMSPs, scheme: Schemes,
   amount: Paise, reserved: Nat, disbursed: Nat]

DisbursementAsset ==
  [allocation: Allocations, beneficiary: Beneficiaries, amount: Paise,
   status: LedgerStatuses, reasonCode: ReasonCodes, key: Keys]

ASSUME IdentitiesAssumption == Identities \subseteq Identity

ASSUME AbsentAssumption ==
  Absent \notin Disasters \cup Schemes \cup Disbursements
                \cup SourceAsset \cup AllocationAsset \cup DisbursementAsset

Event ==
  [type: {"None", "DisasterRegistered", "SchemeRegistered", "FundSourceCreated",
          "FundsAllocated", "BeneficiaryCommitted", "DisbursementInitiated",
          "DisbursementSettled", "DisbursementFailed", "DisbursementReversed"},
   id: Sources \cup Allocations \cup Disbursements \cup {Absent},
   of: Sources \cup Allocations \cup {Absent},
   amount: Nat]

\* Ids are UUIDs and hashes: there are finitely many of them.
ASSUME FiniteAssumption == IsFiniteSet(Allocations) /\ IsFiniteSet(Disbursements)

\* Mutant of emit: a reversal does not say how much it takes back.
emitSilently(type, id, of, amount) ==
  event' = [type |-> type, id |-> id, of |-> of,
            amount |-> IF type = "DisbursementReversed" THEN 0 ELSE amount]

\* The part of an event's payload that bears on balances: the asset it is
\* about, the asset it draws on, and the amount.
emit(type, id, of, amount) ==
  event' = [type |-> type, id |-> id, of |-> of, amount |-> amount]

Init ==
  /\ disasters     = {}
  /\ schemes       = [s \in Schemes       |-> Absent]
  /\ sources       = [s \in Sources       |-> Absent]
  /\ allocations   = [a \in Allocations   |-> Absent]
  /\ beneficiaries = [b \in Beneficiaries |-> Absent]
  /\ disbursements = [d \in Disbursements |-> Absent]
  /\ idempotency   = [k \in Keys          |-> Absent]
  /\ event = [type |-> "None", id |-> Absent, of |-> Absent, amount |-> 0]
-----------------------------------------------------------------------------
RegisterDisaster(client, id) ==
  /\ requireWriter(client)
  /\ id \notin disasters
  /\ disasters' = disasters \cup {id}
  /\ emit("DisasterRegistered", Absent, Absent, 0)
  /\ UNCHANGED <<schemes, sources, allocations, beneficiaries, disbursements, idempotency>>

RegisterScheme(client, id, disaster) ==
  /\ requireWriter(client)
  /\ disaster \in disasters
  /\ schemes[id] = Absent
  /\ schemes' = [schemes EXCEPT ![id] = disaster]
  /\ emit("SchemeRegistered", Absent, Absent, 0)
  /\ UNCHANGED <<disasters, sources, allocations, beneficiaries, disbursements, idempotency>>

CreateFundSource(client, id, disaster, sourceType, amount) ==
  /\ requireWriter(client)
  /\ MayCreateSource(client, sourceType)
  /\ disaster \in disasters
  /\ sources[id] = Absent
  /\ sources' = [sources EXCEPT ![id] =
       [ownerMsp |-> client.msp, sourceType |-> sourceType, disaster |-> disaster,
        amount |-> amount, allocated |-> 0]]
  /\ emit("FundSourceCreated", id, Absent, amount)
  /\ UNCHANGED <<disasters, schemes, allocations, beneficiaries, disbursements, idempotency>>

AllocateFunds(client, id, source, scheme, amount) ==
  /\ requireWriter(client)
  /\ sources[source] # Absent
  /\ schemes[scheme] # Absent
  /\ allocations[id] = Absent
  /\ CanAllocate(sources[source], amount, client.msp)
  /\ sources' = [sources EXCEPT ![source] = Allocate(sources[source], amount)]
  /\ allocations' = [allocations EXCEPT ![id] =
       [source |-> source, ownerMsp |-> client.msp, scheme |-> scheme,
        amount |-> amount, reserved |-> 0, disbursed |-> 0]]
  /\ emit("FundsAllocated", id, source, amount)
  /\ UNCHANGED <<disasters, schemes, beneficiaries, disbursements, idempotency>>

RegisterBeneficiaryCommitment(client, beneficiary, scheme) ==
  /\ requireWriter(client)
  /\ schemes[scheme] # Absent
  /\ beneficiaries[beneficiary] = Absent
  /\ beneficiaries' = [beneficiaries EXCEPT ![beneficiary] = scheme]
  /\ emit("BeneficiaryCommitted", Absent, Absent, 0)
  /\ UNCHANGED <<disasters, schemes, sources, allocations, disbursements, idempotency>>

\* Mutant of FreshKey: the idempotency key is written but not looked up.
AnyKey(key) == TRUE

FreshKey(key) == idempotency[key] = Absent

InitiateDisbursement(client, id, allocation, beneficiary, amount, key) ==
  /\ requireWriter(client)
  /\ disbursements[id] = Absent
  /\ FreshKey(key)
  /\ beneficiaries[beneficiary] # Absent
  /\ allocations[allocation] # Absent
  /\ CanReserve(allocations[allocation], amount, client.msp)
  /\ allocations' = [allocations EXCEPT ![allocation] =
       Reserve(allocations[allocation], amount)]
  /\ disbursements' = [disbursements EXCEPT ![id] =
       [allocation |-> allocation, beneficiary |-> beneficiary, amount |-> amount,
        status |-> "PENDING", reasonCode |-> "", key |-> key]]
  /\ idempotency' = [idempotency EXCEPT ![key] = id]
  /\ emit("DisbursementInitiated", id, allocation, amount)
  /\ UNCHANGED <<disasters, schemes, sources, beneficiaries>>

FinalizeDisbursement(client, id, status, reasonCode) ==
  /\ requireWriter(client)
  /\ (status = "FAILED") <=> (reasonCode # "")
  /\ disbursements[id] # Absent
  /\ LET payout     == disbursements[id]
         allocation == allocations[payout.allocation]
     IN  /\ allocation # Absent
         /\ allocation.ownerMsp = client.msp
         /\ CanSettle(allocation, payout)
         /\ allocations' = [allocations EXCEPT ![payout.allocation] =
              Settle(allocation, payout.amount, status)]
         /\ disbursements' = [disbursements EXCEPT ![id] =
              [payout EXCEPT !.status = status, !.reasonCode = reasonCode]]
         /\ emit(IF status = "SETTLED" THEN "DisbursementSettled" ELSE "DisbursementFailed",
                 id, payout.allocation, payout.amount)
  /\ UNCHANGED <<disasters, schemes, sources, beneficiaries, idempotency>>

ReverseDisbursement(client, id, reasonCode) ==
  /\ requireWriter(client)
  /\ reasonCode # ""
  /\ disbursements[id] # Absent
  /\ LET payout     == disbursements[id]
         allocation == allocations[payout.allocation]
     IN  /\ allocation # Absent
         /\ allocation.ownerMsp = client.msp
         /\ CanReverse(allocation, payout)
         /\ allocations' = [allocations EXCEPT ![payout.allocation] =
              Reverse(allocation, payout.amount)]
         /\ disbursements' = [disbursements EXCEPT ![id] =
              [payout EXCEPT !.status = "REVERSED", !.reasonCode = reasonCode]]
         /\ emit("DisbursementReversed", id, payout.allocation, payout.amount)
  /\ UNCHANGED <<disasters, schemes, sources, beneficiaries, idempotency>>
-----------------------------------------------------------------------------
Next ==
  \E client \in Identities :
    \/ \E id \in Disasters : RegisterDisaster(client, id)
    \/ \E id \in Schemes, disaster \in Disasters : RegisterScheme(client, id, disaster)
    \/ \E id \in Sources, disaster \in Disasters, sourceType \in SourceTypes, amount \in Paise :
         CreateFundSource(client, id, disaster, sourceType, amount)
    \/ \E id \in Allocations, source \in Sources, scheme \in Schemes, amount \in Paise :
         AllocateFunds(client, id, source, scheme, amount)
    \/ \E beneficiary \in Beneficiaries, scheme \in Schemes :
         RegisterBeneficiaryCommitment(client, beneficiary, scheme)
    \/ \E id \in Disbursements, allocation \in Allocations, beneficiary \in Beneficiaries,
         amount \in Paise, key \in Keys :
         InitiateDisbursement(client, id, allocation, beneficiary, amount, key)
    \/ \E id \in Disbursements, status \in {"SETTLED", "FAILED"}, reasonCode \in ReasonCodes :
         FinalizeDisbursement(client, id, status, reasonCode)
    \/ \E id \in Disbursements, reasonCode \in ReasonCodes :
         ReverseDisbursement(client, id, reasonCode)

Spec == Init /\ [][Next]_vars
-----------------------------------------------------------------------------
(***************************************************************************)
(* Properties.                                                             *)
(***************************************************************************)

\* Every asset read from the world state has the shape its writer gave it, and
\* no balance is ever negative (the subtractions in settle and reverse).
TypeOK ==
  /\ disasters \in SUBSET Disasters
  /\ schemes \in [Schemes -> Disasters \cup {Absent}]
  /\ sources \in [Sources -> SourceAsset \cup {Absent}]
  /\ allocations \in [Allocations -> AllocationAsset \cup {Absent}]
  /\ beneficiaries \in [Beneficiaries -> Schemes \cup {Absent}]
  /\ disbursements \in [Disbursements -> DisbursementAsset \cup {Absent}]
  /\ idempotency \in [Keys -> Disbursements \cup {Absent}]
  /\ event \in Event

\* What disbursement d holds of allocation a while in the given status.
HeldBy(d, a, status) ==
  IF /\ disbursements[d] # Absent
     /\ disbursements[d].allocation = a
     /\ disbursements[d].status = status
  THEN disbursements[d].amount ELSE 0

Held(a, status) == SumFunction([d \in Disbursements |-> HeldBy(d, a, status)])

\* What allocation a draws on source s.
DrawnBy(a, s) ==
  IF allocations[a] # Absent /\ allocations[a].source = s
  THEN allocations[a].amount ELSE 0

Drawn(s) == SumFunction([a \in Allocations |-> DrawnBy(a, s)])

\* No source is over-allocated and no allocation over-disbursed, however the
\* allocate, reserve, settle and reverse of both organizations interleave.
NoOversubscription ==
  /\ \A s \in Sources : sources[s] # Absent => sources[s].allocated <= sources[s].amount
  /\ \A a \in Allocations : allocations[a] # Absent =>
       allocations[a].reserved + allocations[a].disbursed <= allocations[a].amount

\* The running totals the contract keeps are the sums over the assets they
\* stand for: the total of a source is what its allocations hold, and those of
\* an allocation are its PENDING and its SETTLED disbursements.
TotalsMatchAssets ==
  /\ \A s \in Sources : sources[s] # Absent => sources[s].allocated = Drawn(s)
  /\ \A a \in Allocations : allocations[a] # Absent =>
       /\ allocations[a].reserved  = Held(a, "PENDING")
       /\ allocations[a].disbursed = Held(a, "SETTLED")

\* A key names at most one disbursement and a disbursement has used up its key
\* (InitiateDisbursement with a repeated idempotency key must be rejected).
OneDisbursementPerKey ==
  /\ \A k \in Keys : idempotency[k] # Absent =>
       /\ disbursements[idempotency[k]] # Absent
       /\ disbursements[idempotency[k]].key = k
  /\ \A d \in Disbursements : disbursements[d] # Absent =>
       idempotency[disbursements[d].key] = d

\* Money can be traced back: a disbursement to a committed beneficiary, an
\* allocation to a registered scheme and to a source of the same owner, and a
\* source to a registered disaster.
Traceable ==
  /\ \A d \in Disbursements : disbursements[d] # Absent =>
       /\ allocations[disbursements[d].allocation] # Absent
       /\ beneficiaries[disbursements[d].beneficiary] # Absent
  /\ \A a \in Allocations : allocations[a] # Absent =>
       /\ schemes[allocations[a].scheme] # Absent
       /\ sources[allocations[a].source] # Absent
       /\ allocations[a].ownerMsp = sources[allocations[a].source].ownerMsp
  /\ \A s \in Sources : sources[s] # Absent => sources[s].disaster \in disasters
  /\ \A s \in Schemes : schemes[s] # Absent => schemes[s] \in disasters

\* The balances of the world state, zero where no asset exists.
Balances ==
  [allocated |-> [s \in Sources     |-> IF sources[s] = Absent THEN 0 ELSE sources[s].allocated],
   reserved  |-> [a \in Allocations |-> IF allocations[a] = Absent THEN 0 ELSE allocations[a].reserved],
   disbursed |-> [a \in Allocations |-> IF allocations[a] = Absent THEN 0 ELSE allocations[a].disbursed]]

\* The balances an auditor computes from the old ones and one more event.
Replay(balances, e) ==
  CASE e.type = "FundsAllocated"        -> [balances EXCEPT !.allocated[e.of] = @ + e.amount]
    [] e.type = "DisbursementInitiated" -> [balances EXCEPT !.reserved[e.of] = @ + e.amount]
    [] e.type = "DisbursementSettled"   -> [balances EXCEPT !.reserved[e.of] = @ - e.amount,
                                                            !.disbursed[e.of] = @ + e.amount]
    [] e.type = "DisbursementFailed"    -> [balances EXCEPT !.reserved[e.of] = @ - e.amount]
    [] e.type = "DisbursementReversed"  -> [balances EXCEPT !.disbursed[e.of] = @ - e.amount]
    [] OTHER                            -> balances

\* The public event stream accounts for every paisa: each transaction moves
\* the balances exactly as replaying the one event it emits does.
EventsReplayBalances == [][Balances' = Replay(Balances, event')]_vars

\* The world state implements the life of a disbursement.
StatusOf(d) == IF disbursements[d] = Absent THEN "none" ELSE disbursements[d].status

Lifecycle == INSTANCE PayoutLifecycle WITH status <- [d \in Disbursements |-> StatusOf(d)]

\* A disbursement on the ledger is created once and moves only along
\* payoutTransitions: it is never finalized twice, reversed twice or revived.
ImplementsLifecycle == Lifecycle!LifecycleSpec
=============================================================================
