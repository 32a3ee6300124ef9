------------------------- MODULE ReliefLedgerProofs -------------------------
(***************************************************************************)
(* Theorems about ReliefLedger for every set of ids, every set of client   *)
(* identities and every MaxPaise.                                          *)
(***************************************************************************)
EXTENDS ReliefLedger, SumProofs

\* Amounts are positive numbers.
LEMMA PaiseNat == Paise \subseteq Nat \ {0}
  BY MaxPaiseAssumption DEF Paise

(***************************************************************************)
(* The rules of the domain keep assets well-formed.                        *)
(***************************************************************************)
LEMMA AllocateType ==
  ASSUME NEW source \in SourceAsset, NEW amount \in Paise
  PROVE  Allocate(source, amount) \in SourceAsset
  BY PaiseNat DEF Allocate, SourceAsset

LEMMA ReserveType ==
  ASSUME NEW allocation \in AllocationAsset, NEW amount \in Paise
  PROVE  Reserve(allocation, amount) \in AllocationAsset
  BY PaiseNat DEF Reserve, AllocationAsset

LEMMA SettleType ==
  ASSUME NEW allocation \in AllocationAsset, NEW payout \in DisbursementAsset,
         NEW status \in {"SETTLED", "FAILED"}, CanSettle(allocation, payout)
  PROVE  Settle(allocation, payout.amount, status) \in AllocationAsset
<1>1. payout.amount \in Nat /\ allocation.reserved \in Nat /\ allocation.disbursed \in Nat
  BY PaiseNat DEF AllocationAsset, DisbursementAsset
<1>2. allocation.reserved - payout.amount \in Nat
  BY <1>1 DEF CanSettle
<1>3. allocation.disbursed + (IF status = "SETTLED" THEN payout.amount ELSE 0) \in Nat
  BY <1>1
<1> QED
  BY <1>2, <1>3 DEF Settle, AllocationAsset

LEMMA ReverseType ==
  ASSUME NEW allocation \in AllocationAsset, NEW payout \in DisbursementAsset,
         CanReverse(allocation, payout)
  PROVE  Reverse(allocation, payout.amount) \in AllocationAsset
  BY PaiseNat DEF CanReverse, Reverse, AllocationAsset, DisbursementAsset

\* A client that passes requireWriter acts for one of the two writing MSPs.
LEMMA WriterMsp ==
  ASSUME NEW client, requireWriter(client)
  PROVE  client.msp \in WriterMSPs
  BY DEF requireWriter

LEMMA InitType == Init => TypeOK
  BY DEF Init, TypeOK, Event

(***************************************************************************)
(* One transaction at a time keeps the world state well-formed.            *)
(***************************************************************************)
LEMMA NextType == TypeOK /\ [Next]_vars => TypeOK'
<1> SUFFICES ASSUME TypeOK, [Next]_vars PROVE TypeOK'
  OBVIOUS
<1> USE DEF TypeOK
<1>1. ASSUME NEW client \in Identities, NEW id \in Disasters, RegisterDisaster(client, id)
      PROVE  TypeOK'
  BY <1>1 DEF RegisterDisaster, emit, Event
<1>2. ASSUME NEW client \in Identities, NEW id \in Schemes, NEW disaster \in Disasters,
             RegisterScheme(client, id, disaster)
      PROVE  TypeOK'
  BY <1>2 DEF RegisterScheme, emit, Event
<1>3. ASSUME NEW client \in Identities, NEW id \in Sources, NEW disaster \in Disasters,
             NEW sourceType \in SourceTypes, NEW amount \in Paise,
             CreateFundSource(client, id, disaster, sourceType, amount)
      PROVE  TypeOK'
  BY <1>3, WriterMsp, PaiseNat DEF CreateFundSource, emit, Event, SourceAsset
<1>4. ASSUME NEW client \in Identities, NEW id \in Allocations, NEW source \in Sources,
             NEW scheme \in Schemes, NEW amount \in Paise,
             AllocateFunds(client, id, source, scheme, amount)
      PROVE  TypeOK'
  <2>1. sources[source] \in SourceAsset
    BY <1>4 DEF AllocateFunds
  <2>2. Allocate(sources[source], amount) \in SourceAsset
    BY <2>1, AllocateType
  <2>3. [source |-> source, ownerMsp |-> client.msp, scheme |-> scheme,
         amount |-> amount, reserved |-> 0, disbursed |-> 0] \in AllocationAsset
    BY <1>4, WriterMsp DEF AllocateFunds, AllocationAsset
  <2>4. event' \in Event
    BY <1>4, PaiseNat DEF AllocateFunds, emit, Event
  <2> QED
    BY <1>4, <2>2, <2>3, <2>4 DEF AllocateFunds
<1>5. ASSUME NEW client \in Identities, NEW beneficiary \in Beneficiaries,
             NEW scheme \in Schemes,
             RegisterBeneficiaryCommitment(client, beneficiary, scheme)
      PROVE  TypeOK'
  BY <1>5 DEF RegisterBeneficiaryCommitment, emit, Event
<1>6. ASSUME NEW client \in Identities, NEW id \in Disbursements,
             NEW allocation \in Allocations, NEW beneficiary \in Beneficiaries,
             NEW amount \in Paise, NEW key \in Keys,
             InitiateDisbursement(client, id, allocation, beneficiary, amount, key)
      PROVE  TypeOK'
  <2>1. Reserve(allocations[allocation], amount) \in AllocationAsset
    BY <1>6, ReserveType DEF InitiateDisbursement
  <2>2. [allocation |-> allocation, beneficiary |-> beneficiary, amount |-> amount,
         status |-> "PENDING", reasonCode |-> "", key |-> key] \in DisbursementAsset
    BY DEF DisbursementAsset, LedgerStatuses, PayoutStates, ReasonCodes
  <2>3. event' \in Event
    BY <1>6, PaiseNat DEF InitiateDisbursement, emit, Event
  <2> QED
    BY <1>6, <2>1, <2>2, <2>3 DEF InitiateDisbursement
<1>7. ASSUME NEW client \in Identities, NEW id \in Disbursements,
             NEW status \in {"SETTLED", "FAILED"}, NEW reasonCode \in ReasonCodes,
             FinalizeDisbursement(client, id, status, reasonCode)
      PROVE  TypeOK'
  <2> DEFINE payout == disbursements[id]
             allocation == allocations[payout.allocation]
  <2>1. payout \in DisbursementAsset
    BY <1>7 DEF FinalizeDisbursement
  <2>2. payout.allocation \in Allocations /\ payout.amount \in Paise
    BY <2>1 DEF DisbursementAsset
  <2>3. allocation \in AllocationAsset /\ CanSettle(allocation, payout)
    BY <1>7, <2>2 DEF FinalizeDisbursement
  <2>4. Settle(allocation, payout.amount, status) \in AllocationAsset
    BY <2>1, <2>3, SettleType
  <2>5. [payout EXCEPT !.status = status, !.reasonCode = reasonCode] \in DisbursementAsset
    BY <2>1 DEF DisbursementAsset, LedgerStatuses, PayoutStates
  <2>6. event' \in Event
    BY <1>7, <2>2, PaiseNat DEF FinalizeDisbursement, emit, Event
  <2> QED
    BY <1>7, <2>4, <2>5, <2>6 DEF FinalizeDisbursement
<1>8. ASSUME NEW client \in Identities, NEW id \in Disbursements,
             NEW reasonCode \in ReasonCodes,
             ReverseDisbursement(client, id, reasonCode)
      PROVE  TypeOK'
  <2> DEFINE payout == disbursements[id]
             allocation == allocations[payout.allocation]
  <2>1. payout \in DisbursementAsset
    BY <1>8 DEF ReverseDisbursement
  <2>2. payout.allocation \in Allocations /\ payout.amount \in Paise
    BY <2>1 DEF DisbursementAsset
  <2>3. allocation \in AllocationAsset /\ CanReverse(allocation, payout)
    BY <1>8, <2>2 DEF ReverseDisbursement
  <2>4. Reverse(allocation, payout.amount) \in AllocationAsset
    BY <2>1, <2>3, ReverseType
  <2>5. [payout EXCEPT !.status = "REVERSED", !.reasonCode = reasonCode] \in DisbursementAsset
    BY <2>1 DEF DisbursementAsset, LedgerStatuses, PayoutStates
  <2>6. event' \in Event
    BY <1>8, <2>2, PaiseNat DEF ReverseDisbursement, emit, Event
  <2> QED
    BY <1>8, <2>4, <2>5, <2>6 DEF ReverseDisbursement
<1>9. CASE UNCHANGED vars
  BY <1>9 DEF vars, assets
<1> QED
  BY <1>1, <1>2, <1>3, <1>4, <1>5, <1>6, <1>7, <1>8, <1>9 DEF Next

\* The world state is always well-formed; in particular no transaction of
\* relief-contract.ts ever makes a balance negative.
THEOREM TypeCorrect == Spec => []TypeOK
<1>1. Init => TypeOK
  BY InitType
<1>2. TypeOK /\ [Next]_vars => TypeOK'
  BY NextType
<1> QED
  BY <1>1, <1>2, PTL DEF Spec
-----------------------------------------------------------------------------
(***************************************************************************)
(* The effect of a transaction, asset by asset and field by field: what    *)
(* the invariants below need to know of it.                                *)
(***************************************************************************)
LEMMA NotAbsent ==
  ASSUME NEW x, x \in SourceAsset \cup AllocationAsset \cup DisbursementAsset
  PROVE  x # Absent
  BY AbsentAssumption

\* A disaster, a scheme or a beneficiary is added, or nothing happens.
Registers ==
  /\ disasters \subseteq disasters'
  /\ \A s \in Schemes : schemes'[s] = schemes[s] \/ (schemes[s] = Absent /\ schemes'[s] \in disasters)
  /\ \A b \in Beneficiaries : beneficiaries[b] # Absent => beneficiaries'[b] # Absent
  /\ UNCHANGED <<sources, allocations, disbursements, idempotency>>

CreatesSource(id) ==
  /\ sources[id] = Absent
  /\ sources' = [sources EXCEPT ![id] = sources'[id]]
  /\ sources'[id] \in SourceAsset /\ sources'[id] # Absent
  /\ sources'[id].disaster \in disasters
  /\ sources'[id].allocated = 0
  /\ UNCHANGED <<disasters, schemes, allocations, beneficiaries, disbursements, idempotency>>

Allocates(id, source, scheme, amount) ==
  /\ sources[source] \in SourceAsset /\ sources[source] # Absent /\ schemes[scheme] # Absent
  /\ sources' = [sources EXCEPT ![source] = sources'[source]]
  /\ sources'[source] \in SourceAsset /\ sources'[source] # Absent
  /\ sources'[source].ownerMsp = sources[source].ownerMsp
  /\ sources'[source].disaster = sources[source].disaster
  /\ sources'[source].amount = sources[source].amount
  /\ sources'[source].allocated = sources[source].allocated + amount
  /\ sources'[source].allocated <= sources[source].amount
  /\ allocations[id] = Absent
  /\ allocations' = [allocations EXCEPT ![id] = allocations'[id]]
  /\ allocations'[id] \in AllocationAsset /\ allocations'[id] # Absent
  /\ allocations'[id].source = source /\ allocations'[id].scheme = scheme
  /\ allocations'[id].ownerMsp = sources[source].ownerMsp
  /\ allocations'[id].amount = amount
  /\ allocations'[id].reserved = 0 /\ allocations'[id].disbursed = 0
  /\ UNCHANGED <<disasters, schemes, beneficiaries, disbursements, idempotency>>

\* The totals of allocation a change by the given amounts, and nothing else
\* of it or of any other allocation does.
Touches(a, reservedBy, disbursedBy) ==
  /\ a \in Allocations
  /\ allocations[a] \in AllocationAsset /\ allocations[a] # Absent
  /\ allocations' = [allocations EXCEPT ![a] = allocations'[a]]
  /\ allocations'[a] \in AllocationAsset /\ allocations'[a] # Absent
  /\ allocations'[a].source = allocations[a].source
  /\ allocations'[a].scheme = allocations[a].scheme
  /\ allocations'[a].ownerMsp = allocations[a].ownerMsp
  /\ allocations'[a].amount = allocations[a].amount
  /\ allocations'[a].reserved = allocations[a].reserved + reservedBy
  /\ allocations'[a].disbursed = allocations[a].disbursed + disbursedBy

\* Disbursement id changes its status and nothing it is for.
Moves(id, from, to) ==
  /\ disbursements[id] \in DisbursementAsset /\ disbursements[id] # Absent
  /\ disbursements[id].status = from
  /\ disbursements' = [disbursements EXCEPT ![id] = disbursements'[id]]
  /\ disbursements'[id] \in DisbursementAsset /\ disbursements'[id] # Absent
  /\ disbursements'[id].allocation = disbursements[id].allocation
  /\ disbursements'[id].beneficiary = disbursements[id].beneficiary
  /\ disbursements'[id].amount = disbursements[id].amount
  /\ disbursements'[id].key = disbursements[id].key
  /\ disbursements'[id].status = to

Initiates(id, allocation, beneficiary, amount, key) ==
  /\ Touches(allocation, amount, 0)
  /\ allocations'[allocation].reserved + allocations'[allocation].disbursed
       <= allocations'[allocation].amount
  /\ beneficiaries[beneficiary] # Absent
  /\ disbursements[id] = Absent
  /\ disbursements' = [disbursements EXCEPT ![id] = disbursements'[id]]
  /\ disbursements'[id] \in DisbursementAsset /\ disbursements'[id] # Absent
  /\ disbursements'[id].allocation = allocation
  /\ disbursements'[id].beneficiary = beneficiary
  /\ disbursements'[id].amount = amount
  /\ disbursements'[id].key = key
  /\ disbursements'[id].status = "PENDING"
  /\ idempotency[key] = Absent
  /\ idempotency' = [idempotency EXCEPT ![key] = id]
  /\ UNCHANGED <<disasters, schemes, sources, beneficiaries>>

Finalizes(id, status) ==
  /\ Touches(disbursements[id].allocation, -disbursements[id].amount,
             IF status = "SETTLED" THEN disbursements[id].amount ELSE 0)
  /\ Moves(id, "PENDING", status)
  /\ UNCHANGED <<disasters, schemes, sources, beneficiaries, idempotency>>

Reverses(id) ==
  /\ Touches(disbursements[id].allocation, 0, -disbursements[id].amount)
  /\ Moves(id, "SETTLED", "REVERSED")
  /\ UNCHANGED <<disasters, schemes, sources, beneficiaries, idempotency>>

\* Neither what an allocation is for nor what a disbursement is for changes.
LEMMA TouchesKeeps ==
  ASSUME TypeOK, NEW a, NEW m, NEW n, Touches(a, m, n), NEW b \in Allocations
  PROVE  /\ (allocations'[b] = Absent) <=> (allocations[b] = Absent)
         /\ allocations[b] # Absent =>
              /\ allocations'[b].source = allocations[b].source
              /\ allocations'[b].scheme = allocations[b].scheme
              /\ allocations'[b].ownerMsp = allocations[b].ownerMsp
              /\ allocations'[b].amount = allocations[b].amount
<1>1. CASE b = a
  BY <1>1 DEF Touches
<1>2. CASE b # a
  BY <1>2 DEF Touches, TypeOK
<1> QED
  BY <1>1, <1>2

LEMMA MovesKeeps ==
  ASSUME TypeOK, NEW id, NEW from, NEW to, Moves(id, from, to), NEW d \in Disbursements
  PROVE  /\ (disbursements'[d] = Absent) <=> (disbursements[d] = Absent)
         /\ disbursements[d] # Absent =>
              /\ disbursements'[d].allocation = disbursements[d].allocation
              /\ disbursements'[d].beneficiary = disbursements[d].beneficiary
              /\ disbursements'[d].amount = disbursements[d].amount
              /\ disbursements'[d].key = disbursements[d].key
<1>1. CASE d = id
  BY <1>1 DEF Moves
<1>2. CASE d # id
  BY <1>2 DEF Moves, TypeOK
<1> QED
  BY <1>1, <1>2

LEMMA AllocateEffect ==
  ASSUME TypeOK, NEW client \in Identities, NEW id \in Allocations, NEW source \in Sources,
         NEW scheme \in Schemes, NEW amount \in Paise,
         AllocateFunds(client, id, source, scheme, amount)
  PROVE  Allocates(id, source, scheme, amount)
<1>1. sources[source] \in SourceAsset
  BY DEF AllocateFunds, TypeOK
<1>2. Allocate(sources[source], amount) \in SourceAsset
  BY <1>1, AllocateType
<1>3. client.msp \in WriterMSPs
  BY WriterMsp DEF AllocateFunds
<1> QED
  BY <1>1, <1>2, <1>3, NotAbsent
  DEF Allocates, AllocateFunds, TypeOK, CanAllocate, Allocate, SourceAsset, AllocationAsset

LEMMA InitiateEffect ==
  ASSUME TypeOK, NEW client \in Identities, NEW id \in Disbursements,
         NEW allocation \in Allocations, NEW beneficiary \in Beneficiaries,
         NEW amount \in Paise, NEW key \in Keys,
         InitiateDisbursement(client, id, allocation, beneficiary, amount, key)
  PROVE  Initiates(id, allocation, beneficiary, amount, key)
<1>1. allocations[allocation] \in AllocationAsset
  BY DEF InitiateDisbursement, TypeOK
<1>2. Reserve(allocations[allocation], amount) \in AllocationAsset
  BY <1>1, ReserveType
<1>3. [allocation |-> allocation, beneficiary |-> beneficiary, amount |-> amount,
       status |-> "PENDING", reasonCode |-> "", key |-> key] \in DisbursementAsset
  BY DEF DisbursementAsset, LedgerStatuses, PayoutStates, ReasonCodes
<1>4. Reserve(allocations[allocation], amount).reserved + allocations[allocation].disbursed
        <= allocations[allocation].amount
  <2>1. allocations[allocation].disbursed + allocations[allocation].reserved + amount
          <= allocations[allocation].amount
    BY DEF InitiateDisbursement, CanReserve
  <2>2. /\ allocations[allocation].disbursed \in Nat /\ allocations[allocation].reserved \in Nat
        /\ allocations[allocation].amount \in Nat /\ amount \in Nat
    BY <1>1, PaiseNat DEF AllocationAsset
  <2>3. Reserve(allocations[allocation], amount).reserved
          = allocations[allocation].reserved + amount
    BY <1>1 DEF Reserve, AllocationAsset
  <2> QED
    BY <2>1, <2>2, <2>3
<1>5. /\ allocations'[allocation] = Reserve(allocations[allocation], amount)
      /\ allocations' = [allocations EXCEPT ![allocation] = allocations'[allocation]]
  BY DEF InitiateDisbursement, TypeOK
<1>6. /\ Touches(allocation, amount, 0)
      /\ allocations'[allocation].reserved + allocations'[allocation].disbursed
           <= allocations'[allocation].amount
  BY <1>1, <1>2, <1>4, <1>5, NotAbsent DEF Touches, Reserve, AllocationAsset
<1>7. /\ disbursements' = [disbursements EXCEPT ![id] = disbursements'[id]]
      /\ disbursements'[id] \in DisbursementAsset /\ disbursements'[id] # Absent
      /\ disbursements'[id].allocation = allocation
      /\ disbursements'[id].beneficiary = beneficiary
      /\ disbursements'[id].amount = amount
      /\ disbursements'[id].key = key
      /\ disbursements'[id].status = "PENDING"
  BY <1>3, NotAbsent DEF InitiateDisbursement, TypeOK
<1> QED
  BY <1>6, <1>7 DEF Initiates, InitiateDisbursement, FreshKey

LEMMA FinalizeEffect ==
  ASSUME TypeOK, NEW client \in Identities, NEW id \in Disbursements,
         NEW status \in {"SETTLED", "FAILED"}, NEW reasonCode \in ReasonCodes,
         FinalizeDisbursement(client, id, status, reasonCode)
  PROVE  Finalizes(id, status)
<1> DEFINE payout == disbursements[id]
           a == payout.allocation
<1>1. payout \in DisbursementAsset
  BY DEF FinalizeDisbursement, TypeOK
<1>2. a \in Allocations /\ payout.amount \in Paise
  BY <1>1 DEF DisbursementAsset
<1>3. allocations[a] \in AllocationAsset /\ CanSettle(allocations[a], payout)
  BY <1>2 DEF FinalizeDisbursement, TypeOK
<1>4. Settle(allocations[a], payout.amount, status) \in AllocationAsset
  BY <1>1, <1>3, SettleType
<1>5. [payout EXCEPT !.status = status, !.reasonCode = reasonCode] \in DisbursementAsset
  BY <1>1 DEF DisbursementAsset, LedgerStatuses, PayoutStates
<1>6. /\ allocations' = [allocations EXCEPT ![a] = Settle(allocations[a], payout.amount, status)]
      /\ disbursements' = [disbursements EXCEPT ![id] =
           [payout EXCEPT !.status = status, !.reasonCode = reasonCode]]
      /\ UNCHANGED <<disasters, schemes, sources, beneficiaries, idempotency>>
  BY DEF FinalizeDisbursement
<1>7. /\ allocations'[a] = Settle(allocations[a], payout.amount, status)
      /\ disbursements'[id] = [payout EXCEPT !.status = status, !.reasonCode = reasonCode]
  BY <1>2, <1>6 DEF TypeOK
<1>8. Touches(a, -payout.amount, IF status = "SETTLED" THEN payout.amount ELSE 0)
  <2>1. /\ allocations'[a].source = allocations[a].source
        /\ allocations'[a].scheme = allocations[a].scheme
        /\ allocations'[a].ownerMsp = allocations[a].ownerMsp
        /\ allocations'[a].amount = allocations[a].amount
        /\ allocations'[a].reserved = allocations[a].reserved - payout.amount
        /\ allocations'[a].disbursed = allocations[a].disbursed
             + (IF status = "SETTLED" THEN payout.amount ELSE 0)
    BY <1>3, <1>7 DEF Settle, AllocationAsset
  <2>2. allocations[a].reserved \in Nat /\ payout.amount \in Nat
    BY <1>2, <1>3, PaiseNat DEF AllocationAsset
  <2>3. allocations'[a].reserved = allocations[a].reserved + (-payout.amount)
    BY <2>1, <2>2
  <2> QED
    BY <1>2, <1>3, <1>4, <1>6, <1>7, <2>1, <2>3, NotAbsent DEF Touches
<1>9. Moves(id, "PENDING", status)
  BY <1>1, <1>3, <1>5, <1>6, <1>7, NotAbsent DEF Moves, CanSettle, DisbursementAsset
<1> QED
  BY <1>6, <1>8, <1>9 DEF Finalizes

LEMMA ReverseEffect ==
  ASSUME TypeOK, NEW client \in Identities, NEW id \in Disbursements,
         NEW reasonCode \in ReasonCodes,
         ReverseDisbursement(client, id, reasonCode)
  PROVE  Reverses(id)
<1> DEFINE payout == disbursements[id]
           a == payout.allocation
<1>1. payout \in DisbursementAsset
  BY DEF ReverseDisbursement, TypeOK
<1>2. a \in Allocations /\ payout.amount \in Paise
  BY <1>1 DEF DisbursementAsset
<1>3. allocations[a] \in AllocationAsset /\ CanReverse(allocations[a], payout)
  BY <1>2 DEF ReverseDisbursement, TypeOK
<1>4. Reverse(allocations[a], payout.amount) \in AllocationAsset
  BY <1>1, <1>3, ReverseType
<1>5. [payout EXCEPT !.status = "REVERSED", !.reasonCode = reasonCode] \in DisbursementAsset
  BY <1>1 DEF DisbursementAsset, LedgerStatuses, PayoutStates
<1>6. /\ allocations' = [allocations EXCEPT ![a] = Reverse(allocations[a], payout.amount)]
      /\ disbursements' = [disbursements EXCEPT ![id] =
           [payout EXCEPT !.status = "REVERSED", !.reasonCode = reasonCode]]
      /\ UNCHANGED <<disasters, schemes, sources, beneficiaries, idempotency>>
  BY DEF ReverseDisbursement
<1>7. /\ allocations'[a] = Reverse(allocations[a], payout.amount)
      /\ disbursements'[id] = [payout EXCEPT !.status = "REVERSED", !.reasonCode = reasonCode]
  BY <1>2, <1>6 DEF TypeOK
<1>8. Touches(a, 0, -payout.amount)
  <2>1. /\ allocations'[a].source = allocations[a].source
        /\ allocations'[a].scheme = allocations[a].scheme
        /\ allocations'[a].ownerMsp = allocations[a].ownerMsp
        /\ allocations'[a].amount = allocations[a].amount
        /\ allocations'[a].reserved = allocations[a].reserved
        /\ allocations'[a].disbursed = allocations[a].disbursed - payout.amount
    BY <1>3, <1>7 DEF Reverse, AllocationAsset
  <2>2. /\ allocations[a].reserved \in Nat /\ allocations[a].disbursed \in Nat
        /\ payout.amount \in Nat
    BY <1>2, <1>3, PaiseNat DEF AllocationAsset
  <2>3. /\ allocations'[a].reserved = allocations[a].reserved + 0
        /\ allocations'[a].disbursed = allocations[a].disbursed + (-payout.amount)
    BY <2>1, <2>2
  <2> QED
    BY <1>2, <1>3, <1>4, <1>6, <1>7, <2>1, <2>3, NotAbsent DEF Touches
<1>9. Moves(id, "SETTLED", "REVERSED")
  BY <1>1, <1>3, <1>5, <1>6, <1>7, NotAbsent DEF Moves, CanReverse, DisbursementAsset
<1> QED
  BY <1>6, <1>8, <1>9 DEF Reverses
LEMMA CreateEffect ==
  ASSUME TypeOK, NEW client \in Identities, NEW id \in Sources, NEW disaster \in Disasters,
         NEW sourceType \in SourceTypes, NEW amount \in Paise,
         CreateFundSource(client, id, disaster, sourceType, amount)
  PROVE  CreatesSource(id)
<1>1. client.msp \in WriterMSPs
  BY WriterMsp DEF CreateFundSource
<1>2. [ownerMsp |-> client.msp, sourceType |-> sourceType, disaster |-> disaster,
       amount |-> amount, allocated |-> 0] \in SourceAsset
  BY <1>1 DEF SourceAsset
<1> QED
  BY <1>2, NotAbsent DEF CreatesSource, CreateFundSource, TypeOK

LEMMA RegisterEffect ==
  ASSUME TypeOK, NEW client \in Identities,
         \/ \E id \in Disasters : RegisterDisaster(client, id)
         \/ \E id \in Schemes, disaster \in Disasters : RegisterScheme(client, id, disaster)
         \/ \E beneficiary \in Beneficiaries, scheme \in Schemes :
              RegisterBeneficiaryCommitment(client, beneficiary, scheme)
  PROVE  Registers
<1>1. ASSUME NEW id \in Disasters, RegisterDisaster(client, id) PROVE Registers
  BY <1>1 DEF RegisterDisaster, Registers
<1>2. ASSUME NEW id \in Schemes, NEW disaster \in Disasters, RegisterScheme(client, id, disaster)
      PROVE  Registers
  BY <1>2 DEF RegisterScheme, Registers, TypeOK
<1>3. ASSUME NEW beneficiary \in Beneficiaries, NEW scheme \in Schemes,
             RegisterBeneficiaryCommitment(client, beneficiary, scheme)
      PROVE  Registers
  BY <1>3, AbsentAssumption DEF RegisterBeneficiaryCommitment, Registers, TypeOK
<1> QED
  BY <1>1, <1>2, <1>3

\* Every step of the specification has one of the six effects.
LEMMA NextEffect ==
  ASSUME TypeOK, [Next]_vars
  PROVE  \/ Registers
         \/ \E id \in Sources : CreatesSource(id)
         \/ \E id \in Allocations, source \in Sources, scheme \in Schemes, amount \in Paise :
              Allocates(id, source, scheme, amount)
         \/ \E id \in Disbursements, allocation \in Allocations, beneficiary \in Beneficiaries,
              amount \in Paise, key \in Keys : Initiates(id, allocation, beneficiary, amount, key)
         \/ \E id \in Disbursements, status \in {"SETTLED", "FAILED"} : Finalizes(id, status)
         \/ \E id \in Disbursements : Reverses(id)
<1>1. CASE UNCHANGED vars
  BY <1>1 DEF vars, assets, Registers
<1>2. CASE Next
  BY <1>2, RegisterEffect, CreateEffect, AllocateEffect, InitiateEffect, FinalizeEffect,
     ReverseEffect DEF Next
<1> QED
  BY <1>1, <1>2
-----------------------------------------------------------------------------
LEMMA NextNoOversubscription == TypeOK /\ NoOversubscription /\ [Next]_vars => NoOversubscription'
<1> SUFFICES ASSUME TypeOK, NoOversubscription, [Next]_vars PROVE NoOversubscription'
  OBVIOUS
<1>1. CASE Registers
  BY <1>1 DEF Registers, TypeOK, NoOversubscription
<1>2. ASSUME NEW id \in Sources, CreatesSource(id)
      PROVE  NoOversubscription'
  <2>1. sources'[id].amount \in Nat /\ sources'[id].allocated = 0
    BY <1>2, PaiseNat DEF CreatesSource, SourceAsset
  <2>2. sources'[id].allocated <= sources'[id].amount
    BY <2>1
  <2> QED
    BY <1>2, <2>2 DEF CreatesSource, TypeOK, NoOversubscription
<1>3. ASSUME NEW id \in Allocations, NEW source \in Sources, NEW scheme \in Schemes,
             NEW amount \in Paise, Allocates(id, source, scheme, amount)
      PROVE  NoOversubscription'
  BY <1>3, PaiseNat DEF Allocates, TypeOK, NoOversubscription, AllocationAsset
<1>4. ASSUME NEW id \in Disbursements, NEW allocation \in Allocations,
             NEW beneficiary \in Beneficiaries, NEW amount \in Paise, NEW key \in Keys,
             Initiates(id, allocation, beneficiary, amount, key)
      PROVE  NoOversubscription'
  BY <1>4 DEF Initiates, Touches, TypeOK, NoOversubscription
<1>5. ASSUME NEW id \in Disbursements, NEW status \in {"SETTLED", "FAILED"}, Finalizes(id, status)
      PROVE  NoOversubscription'
  <2> DEFINE a == disbursements[id].allocation
  <2>1. /\ allocations[a].reserved \in Nat /\ allocations[a].disbursed \in Nat
        /\ allocations[a].amount \in Nat /\ disbursements[id].amount \in Nat
    BY <1>5, PaiseNat DEF Finalizes, Touches, Moves, AllocationAsset, DisbursementAsset
  <2>2. allocations[a].reserved + allocations[a].disbursed <= allocations[a].amount
    BY <1>5 DEF Finalizes, Touches, NoOversubscription
  <2>3. allocations'[a].reserved + allocations'[a].disbursed <= allocations'[a].amount
    BY <1>5, <2>1, <2>2 DEF Finalizes, Touches
  <2> QED
    BY <1>5, <2>3 DEF Finalizes, Touches, TypeOK, NoOversubscription
<1>6. ASSUME NEW id \in Disbursements, Reverses(id)
      PROVE  NoOversubscription'
  <2> DEFINE a == disbursements[id].allocation
  <2>1. /\ allocations[a].reserved \in Nat /\ allocations[a].disbursed \in Nat
        /\ allocations[a].amount \in Nat /\ disbursements[id].amount \in Nat
    BY <1>6, PaiseNat DEF Reverses, Touches, Moves, AllocationAsset, DisbursementAsset
  <2>2. allocations[a].reserved + allocations[a].disbursed <= allocations[a].amount
    BY <1>6 DEF Reverses, Touches, NoOversubscription
  <2>3. allocations'[a].reserved + allocations'[a].disbursed <= allocations'[a].amount
    BY <1>6, <2>1, <2>2 DEF Reverses, Touches
  <2> QED
    BY <1>6, <2>3 DEF Reverses, Touches, TypeOK, NoOversubscription
<1> QED
  BY <1>1, <1>2, <1>3, <1>4, <1>5, <1>6, NextEffect

\* For every number of sources, allocations and disbursements, and whatever
\* the order of the transactions of both organizations, no source is
\* over-allocated and no allocation over-disbursed.
THEOREM NeverOversubscribed == Spec => []NoOversubscription
<1>1. Init => TypeOK /\ NoOversubscription
  BY InitType DEF Init, NoOversubscription
<1>2. TypeOK /\ NoOversubscription /\ [Next]_vars => (TypeOK /\ NoOversubscription)'
  BY NextType, NextNoOversubscription
<1> QED
  BY <1>1, <1>2, PTL DEF Spec

LEMMA NextTraceable == TypeOK /\ Traceable /\ [Next]_vars => Traceable'
<1> SUFFICES ASSUME TypeOK, Traceable, [Next]_vars PROVE Traceable'
  OBVIOUS
<1>1. CASE Registers
  BY <1>1 DEF Registers, TypeOK, Traceable, SourceAsset, AllocationAsset, DisbursementAsset
<1>2. ASSUME NEW id \in Sources, CreatesSource(id)
      PROVE  Traceable'
  BY <1>2 DEF CreatesSource, TypeOK, Traceable, SourceAsset, AllocationAsset, DisbursementAsset
<1>3. ASSUME NEW id \in Allocations, NEW source \in Sources, NEW scheme \in Schemes,
             NEW amount \in Paise, Allocates(id, source, scheme, amount)
      PROVE  Traceable'
  BY <1>3 DEF Allocates, TypeOK, Traceable, SourceAsset, AllocationAsset, DisbursementAsset
<1>4. ASSUME NEW id \in Disbursements, NEW allocation \in Allocations,
             NEW beneficiary \in Beneficiaries, NEW amount \in Paise, NEW key \in Keys,
             Initiates(id, allocation, beneficiary, amount, key)
      PROVE  Traceable'
  <2>1. ASSUME NEW d \in Disbursements, disbursements'[d] # Absent
        PROVE  /\ allocations'[disbursements'[d].allocation] # Absent
               /\ beneficiaries'[disbursements'[d].beneficiary] # Absent
    <3>1. CASE d = id
      BY <1>4, <3>1 DEF Initiates, Touches
    <3>2. CASE d # id
      <4>1. disbursements'[d] = disbursements[d] /\ disbursements[d] \in DisbursementAsset
        BY <1>4, <2>1, <3>2 DEF Initiates, TypeOK
      <4>2. disbursements[d].allocation \in Allocations
        BY <4>1 DEF DisbursementAsset
      <4> QED
        BY <1>4, <2>1, <4>1, <4>2, TouchesKeeps DEF Initiates, Traceable
    <3> QED
      BY <3>1, <3>2
  <2>2. ASSUME NEW a \in Allocations, allocations'[a] # Absent
        PROVE  /\ schemes'[allocations'[a].scheme] # Absent
               /\ sources'[allocations'[a].source] # Absent
               /\ allocations'[a].ownerMsp = sources'[allocations'[a].source].ownerMsp
    BY <1>4, <2>2, TouchesKeeps DEF Initiates, Traceable
  <2> QED
    BY <1>4, <2>1, <2>2 DEF Initiates, Traceable
<1>5. ASSUME NEW id \in Disbursements, NEW status \in {"SETTLED", "FAILED"}, Finalizes(id, status)
      PROVE  Traceable'
  <2>1. ASSUME NEW d \in Disbursements, disbursements'[d] # Absent
        PROVE  /\ allocations'[disbursements'[d].allocation] # Absent
               /\ beneficiaries'[disbursements'[d].beneficiary] # Absent
    <3>1. disbursements[d] # Absent /\ disbursements'[d].allocation = disbursements[d].allocation
          /\ disbursements'[d].beneficiary = disbursements[d].beneficiary
      BY <1>5, <2>1, MovesKeeps DEF Finalizes
    <3>2. disbursements[d].allocation \in Allocations
      BY <3>1 DEF TypeOK, DisbursementAsset
    <3> QED
      BY <1>5, <3>1, <3>2, TouchesKeeps DEF Finalizes, Traceable
  <2>2. ASSUME NEW a \in Allocations, allocations'[a] # Absent
        PROVE  /\ schemes'[allocations'[a].scheme] # Absent
               /\ sources'[allocations'[a].source] # Absent
               /\ allocations'[a].ownerMsp = sources'[allocations'[a].source].ownerMsp
    BY <1>5, <2>2, TouchesKeeps DEF Finalizes, Traceable
  <2> QED
    BY <1>5, <2>1, <2>2 DEF Finalizes, Traceable
<1>6. ASSUME NEW id \in Disbursements, Reverses(id)
      PROVE  Traceable'
  <2>1. ASSUME NEW d \in Disbursements, disbursements'[d] # Absent
        PROVE  /\ allocations'[disbursements'[d].allocation] # Absent
               /\ beneficiaries'[disbursements'[d].beneficiary] # Absent
    <3>1. disbursements[d] # Absent /\ disbursements'[d].allocation = disbursements[d].allocation
          /\ disbursements'[d].beneficiary = disbursements[d].beneficiary
      BY <1>6, <2>1, MovesKeeps DEF Reverses
    <3>2. disbursements[d].allocation \in Allocations
      BY <3>1 DEF TypeOK, DisbursementAsset
    <3> QED
      BY <1>6, <3>1, <3>2, TouchesKeeps DEF Reverses, Traceable
  <2>2. ASSUME NEW a \in Allocations, allocations'[a] # Absent
        PROVE  /\ schemes'[allocations'[a].scheme] # Absent
               /\ sources'[allocations'[a].source] # Absent
               /\ allocations'[a].ownerMsp = sources'[allocations'[a].source].ownerMsp
    BY <1>6, <2>2, TouchesKeeps DEF Reverses, Traceable
  <2> QED
    BY <1>6, <2>1, <2>2 DEF Reverses, Traceable
<1> QED
  BY <1>1, <1>2, <1>3, <1>4, <1>5, <1>6, NextEffect

\* Every disbursement leads back, through assets that exist and belong to the
\* same organization, to a registered disaster.
THEOREM AlwaysTraceable == Spec => []Traceable
<1>1. Init => TypeOK /\ Traceable
  BY InitType DEF Init, Traceable
<1>2. TypeOK /\ Traceable /\ [Next]_vars => (TypeOK /\ Traceable)'
  BY NextType, NextTraceable
<1> QED
  BY <1>1, <1>2, PTL DEF Spec

LEMMA NextKeys == TypeOK /\ OneDisbursementPerKey /\ [Next]_vars => OneDisbursementPerKey'
<1> SUFFICES ASSUME TypeOK, OneDisbursementPerKey, [Next]_vars PROVE OneDisbursementPerKey'
  OBVIOUS
<1>1. CASE Registers
  BY <1>1 DEF Registers, TypeOK, OneDisbursementPerKey, DisbursementAsset
<1>2. ASSUME NEW id \in Sources, CreatesSource(id)
      PROVE  OneDisbursementPerKey'
  BY <1>2 DEF CreatesSource, TypeOK, OneDisbursementPerKey, DisbursementAsset
<1>3. ASSUME NEW id \in Allocations, NEW source \in Sources, NEW scheme \in Schemes,
             NEW amount \in Paise, Allocates(id, source, scheme, amount)
      PROVE  OneDisbursementPerKey'
  BY <1>3 DEF Allocates, TypeOK, OneDisbursementPerKey, DisbursementAsset
<1>4. ASSUME NEW id \in Disbursements, NEW allocation \in Allocations,
             NEW beneficiary \in Beneficiaries, NEW amount \in Paise, NEW key \in Keys,
             Initiates(id, allocation, beneficiary, amount, key)
      PROVE  OneDisbursementPerKey'
  <2>1. /\ idempotency' = [idempotency EXCEPT ![key] = id]
        /\ disbursements' = [disbursements EXCEPT ![id] = disbursements'[id]]
        /\ disbursements'[id].key = key /\ disbursements'[id] # Absent
        /\ disbursements[id] = Absent /\ idempotency[key] = Absent
    BY <1>4 DEF Initiates
  <2>2. ASSUME NEW k \in Keys, idempotency'[k] # Absent
        PROVE  /\ disbursements'[idempotency'[k]] # Absent
               /\ disbursements'[idempotency'[k]].key = k
    <3>1. CASE k = key
      BY <2>1, <3>1 DEF TypeOK
    <3>2. CASE k # key
      BY <2>1, <2>2, <3>2 DEF TypeOK, OneDisbursementPerKey
    <3> QED
      BY <3>1, <3>2
  <2>3. ASSUME NEW d \in Disbursements, disbursements'[d] # Absent
        PROVE  idempotency'[disbursements'[d].key] = d
    <3>1. CASE d = id
      BY <2>1, <3>1 DEF TypeOK
    <3>2. CASE d # id
      <4>1. disbursements'[d] = disbursements[d] /\ disbursements[d] \in DisbursementAsset
        BY <2>1, <2>3, <3>2 DEF TypeOK
      <4>2. disbursements[d].key \in Keys /\ idempotency[disbursements[d].key] = d /\ d # Absent
        BY <2>3, <4>1, AbsentAssumption DEF OneDisbursementPerKey, DisbursementAsset
      <4> QED
        BY <2>1, <4>1, <4>2 DEF TypeOK
    <3> QED
      BY <3>1, <3>2
  <2> QED
    BY <2>2, <2>3 DEF OneDisbursementPerKey
<1>5. ASSUME NEW id \in Disbursements, NEW status \in {"SETTLED", "FAILED"}, Finalizes(id, status)
      PROVE  OneDisbursementPerKey'
  BY <1>5 DEF Finalizes, Touches, Moves, TypeOK, OneDisbursementPerKey, DisbursementAsset
<1>6. ASSUME NEW id \in Disbursements, Reverses(id)
      PROVE  OneDisbursementPerKey'
  BY <1>6 DEF Reverses, Touches, Moves, TypeOK, OneDisbursementPerKey, DisbursementAsset
<1> QED
  BY <1>1, <1>2, <1>3, <1>4, <1>5, <1>6, NextEffect

\* Idempotency keys are never shared, reused or lost.
THEOREM KeysUsedOnce == Spec => []OneDisbursementPerKey
<1>1. Init => TypeOK /\ OneDisbursementPerKey
  BY InitType DEF Init, OneDisbursementPerKey
<1>2. TypeOK /\ OneDisbursementPerKey /\ [Next]_vars => (TypeOK /\ OneDisbursementPerKey)'
  BY NextType, NextKeys
<1> QED
  BY <1>1, <1>2, PTL DEF Spec
-----------------------------------------------------------------------------
(***************************************************************************)
(* The running totals.  An asset that does not exist yet is drawn on by    *)
(* nothing (Traceable), and each effect moves one weight of each sum.      *)
(***************************************************************************)
LEMMA HeldWeights ==
  ASSUME TypeOK, NEW a, NEW st
  PROVE  [d \in Disbursements |-> HeldBy(d, a, st)] \in [Disbursements -> Nat]
<1>1. ASSUME NEW d \in Disbursements PROVE HeldBy(d, a, st) \in Nat
  BY MaxPaiseAssumption DEF HeldBy, TypeOK, DisbursementAsset, Paise
<1> QED
  BY <1>1

LEMMA HeldStep ==
  ASSUME TypeOK, TypeOK', NEW id \in Disbursements, NEW a, NEW st,
         disbursements' = [disbursements EXCEPT ![id] = disbursements'[id]]
  PROVE  Held(a, st)' = Held(a, st) - HeldBy(id, a, st) + HeldBy(id, a, st)'
<1> DEFINE w == [d \in Disbursements |-> HeldBy(d, a, st)]
           n == HeldBy(id, a, st)'
<1>1. w \in [Disbursements -> Nat] /\ IsFiniteSet(Disbursements)
  BY HeldWeights, FiniteAssumption
<1>2. n \in Nat
  BY MaxPaiseAssumption DEF HeldBy, TypeOK, DisbursementAsset, Paise
<1>3. ASSUME NEW d \in Disbursements, d # id PROVE HeldBy(d, a, st)' = HeldBy(d, a, st)
  BY <1>3 DEF HeldBy, TypeOK
<1>4. [d \in Disbursements |-> HeldBy(d, a, st)'] = [w EXCEPT ![id] = n]
  BY <1>3
<1>5. SumFunction([w EXCEPT ![id] = n]) = SumFunction(w) - w[id] + n
  <2>1. w \in [Disbursements -> Int] /\ n \in Int
    BY <1>1, <1>2
  <2> QED BY <2>1, SumUpdate, FiniteAssumption
<1> QED
  BY <1>4, <1>5 DEF Held

LEMMA HeldNone ==
  ASSUME TypeOK, NEW a, NEW st, \A d \in Disbursements : HeldBy(d, a, st) = 0
  PROVE  Held(a, st) = 0
<1>1. [d \in Disbursements |-> HeldBy(d, a, st)] = [d \in Disbursements |-> 0]
  OBVIOUS
<1>2. SumFunctionOnSet([d \in Disbursements |-> 0], Disbursements) = 0 * Cardinality(Disbursements)
  BY SumOfEqual, FiniteAssumption
<1>3. Cardinality(Disbursements) \in Nat
  BY FS_CardinalityType, FiniteAssumption
<1> QED
  BY <1>1, <1>2, <1>3 DEF Held, SumFunction

LEMMA HeldNat == ASSUME TypeOK, NEW a, NEW st PROVE Held(a, st) \in Nat
<1> DEFINE w == [d \in Disbursements |-> HeldBy(d, a, st)]
<1>1. w \in [Disbursements -> Nat] /\ IsFiniteSet(Disbursements)
  BY HeldWeights, FiniteAssumption
<1>2. SumFunction(w) \in Nat
  <2>1. \A x \in DOMAIN w : w[x] \in Nat
    BY <1>1
  <2>2. IsFiniteSet(DOMAIN w)
    BY <1>1
  <2> HIDE DEF w
  <2> QED BY <2>1, <2>2, SumNat DEF SumFunction
<1> QED
  BY <1>2 DEF Held

LEMMA DrawnWeights ==
  ASSUME TypeOK, NEW s
  PROVE  [a \in Allocations |-> DrawnBy(a, s)] \in [Allocations -> Nat]
<1>1. ASSUME NEW a \in Allocations PROVE DrawnBy(a, s) \in Nat
  BY MaxPaiseAssumption DEF DrawnBy, TypeOK, AllocationAsset, Paise
<1> QED
  BY <1>1

LEMMA DrawnStep ==
  ASSUME TypeOK, TypeOK', NEW id \in Allocations, NEW s,
         allocations' = [allocations EXCEPT ![id] = allocations'[id]]
  PROVE  Drawn(s)' = Drawn(s) - DrawnBy(id, s) + DrawnBy(id, s)'
<1> DEFINE w == [a \in Allocations |-> DrawnBy(a, s)]
           n == DrawnBy(id, s)'
<1>1. w \in [Allocations -> Nat] /\ IsFiniteSet(Allocations)
  BY DrawnWeights, FiniteAssumption
<1>2. n \in Nat
  BY MaxPaiseAssumption DEF DrawnBy, TypeOK, AllocationAsset, Paise
<1>3. ASSUME NEW a \in Allocations, a # id PROVE DrawnBy(a, s)' = DrawnBy(a, s)
  BY <1>3 DEF DrawnBy, TypeOK
<1>4. [a \in Allocations |-> DrawnBy(a, s)'] = [w EXCEPT ![id] = n]
  BY <1>3
<1>5. SumFunction([w EXCEPT ![id] = n]) = SumFunction(w) - w[id] + n
  <2>1. w \in [Allocations -> Int] /\ n \in Int
    BY <1>1, <1>2
  <2> QED BY <2>1, SumUpdate, FiniteAssumption
<1> QED
  BY <1>4, <1>5 DEF Drawn

LEMMA DrawnNone ==
  ASSUME TypeOK, NEW s, \A a \in Allocations : DrawnBy(a, s) = 0
  PROVE  Drawn(s) = 0
<1>1. [a \in Allocations |-> DrawnBy(a, s)] = [a \in Allocations |-> 0]
  OBVIOUS
<1>2. SumFunctionOnSet([a \in Allocations |-> 0], Allocations) = 0 * Cardinality(Allocations)
  BY SumOfEqual, FiniteAssumption
<1>3. Cardinality(Allocations) \in Nat
  BY FS_CardinalityType, FiniteAssumption
<1> QED
  BY <1>1, <1>2, <1>3 DEF Drawn, SumFunction

LEMMA DrawnNat == ASSUME TypeOK, NEW s PROVE Drawn(s) \in Nat
<1> DEFINE w == [a \in Allocations |-> DrawnBy(a, s)]
<1>1. w \in [Allocations -> Nat] /\ IsFiniteSet(Allocations)
  BY DrawnWeights, FiniteAssumption
<1>2. SumFunction(w) \in Nat
  <2>1. \A x \in DOMAIN w : w[x] \in Nat
    BY <1>1
  <2>2. IsFiniteSet(DOMAIN w)
    BY <1>1
  <2> HIDE DEF w
  <2> QED BY <2>1, <2>2, SumNat DEF SumFunction
<1> QED
  BY <1>2 DEF Drawn

\* Settling or reversing an allocation's totals leaves what it draws alone.
LEMMA TouchesDrawn ==
  ASSUME TypeOK, TypeOK', NEW a, NEW m, NEW n, Touches(a, m, n), NEW s
  PROVE  Drawn(s)' = Drawn(s)
<1>1. a \in Allocations /\ DrawnBy(a, s)' = DrawnBy(a, s)
  BY DEF Touches, DrawnBy
<1>2. DrawnBy(a, s) \in Nat /\ Drawn(s) \in Nat
  BY <1>1, DrawnNat, PaiseNat DEF DrawnBy, TypeOK, AllocationAsset
<1>3. Drawn(s)' = Drawn(s) - DrawnBy(a, s) + DrawnBy(a, s)'
  BY <1>1, DrawnStep DEF Touches
<1> QED
  BY <1>1, <1>2, <1>3

\* A disbursement that changes its status takes its amount from one sum of
\* its allocation to another.
LEMMA MovesHeld ==
  ASSUME TypeOK, TypeOK', NEW id \in Disbursements, NEW from, NEW to, from # to,
         Moves(id, from, to), NEW a, NEW st
  PROVE  LET amount == disbursements[id].amount
         IN  IF disbursements[id].allocation # a \/ st \notin {from, to}
             THEN Held(a, st)' = Held(a, st)
             ELSE Held(a, st)' = IF st = to THEN Held(a, st) + amount ELSE Held(a, st) - amount
<1> DEFINE amount == disbursements[id].amount
<1>1. amount \in Nat /\ Held(a, st) \in Nat
  BY HeldNat, PaiseNat DEF Moves, DisbursementAsset
<1>2. Held(a, st)' = Held(a, st) - HeldBy(id, a, st) + HeldBy(id, a, st)'
  BY HeldStep DEF Moves
<1>3. HeldBy(id, a, st) = IF disbursements[id].allocation = a /\ st = from THEN amount ELSE 0
  BY DEF HeldBy, Moves
<1>4. HeldBy(id, a, st)' = IF disbursements[id].allocation = a /\ st = to THEN amount ELSE 0
  BY DEF HeldBy, Moves
<1> QED
  BY <1>1, <1>2, <1>3, <1>4

LEMMA NextTotals ==
  TypeOK /\ Traceable /\ TotalsMatchAssets /\ [Next]_vars => TotalsMatchAssets'
<1> SUFFICES ASSUME TypeOK, Traceable, TotalsMatchAssets, [Next]_vars PROVE TotalsMatchAssets'
  OBVIOUS
<1>0. TypeOK'
  BY NextType
<1>1. ASSUME UNCHANGED disbursements, NEW a, NEW st PROVE Held(a, st)' = Held(a, st)
  BY <1>1 DEF Held, HeldBy
<1>2. ASSUME UNCHANGED allocations, NEW s PROVE Drawn(s)' = Drawn(s)
  BY <1>2 DEF Drawn, DrawnBy
<1>3. CASE Registers
  BY <1>1, <1>2, <1>3 DEF Registers, TotalsMatchAssets
<1>4. ASSUME NEW id \in Sources, CreatesSource(id)
      PROVE  TotalsMatchAssets'
  <2>1. Drawn(id) = 0
    <3>1. ASSUME NEW a \in Allocations PROVE DrawnBy(a, id) = 0
      BY <1>4 DEF CreatesSource, Traceable, DrawnBy
    <3> QED
      BY <3>1, DrawnNone
  <2>2. ASSUME NEW s \in Sources, sources'[s] # Absent
        PROVE  sources'[s].allocated = Drawn(s)
    <3>1. CASE s = id
      BY <1>4, <2>1, <3>1 DEF CreatesSource
    <3>2. CASE s # id
      BY <1>4, <2>2, <3>2 DEF CreatesSource, TypeOK, TotalsMatchAssets
    <3> QED
      BY <3>1, <3>2
  <2>3. UNCHANGED allocations /\ UNCHANGED disbursements
    BY <1>4 DEF CreatesSource
  <2> QED
    BY <1>1, <1>2, <2>2, <2>3 DEF TotalsMatchAssets
<1>5. ASSUME NEW id \in Allocations, NEW source \in Sources, NEW scheme \in Schemes,
             NEW amount \in Paise, Allocates(id, source, scheme, amount)
      PROVE  TotalsMatchAssets'
  <2>1. ASSUME NEW s \in Sources, sources'[s] # Absent
        PROVE  sources'[s].allocated = Drawn(s)'
    <3>1. Drawn(s)' = Drawn(s) - DrawnBy(id, s) + DrawnBy(id, s)'
      BY <1>0, <1>5, DrawnStep DEF Allocates
    <3>2. DrawnBy(id, s) = 0 /\ DrawnBy(id, s)' = (IF s = source THEN amount ELSE 0)
      BY <1>5 DEF Allocates, DrawnBy
    <3>3. Drawn(s) \in Nat /\ amount \in Nat
      BY DrawnNat, PaiseNat
    <3>4. CASE s = source
      <4>1. sources'[s].allocated = Drawn(s) + amount
        BY <1>5, <3>4 DEF Allocates, TotalsMatchAssets
      <4> QED
        BY <3>1, <3>2, <3>3, <3>4, <4>1
    <3>5. CASE s # source
      <4>1. sources'[s].allocated = Drawn(s)
        BY <1>5, <2>1, <3>5 DEF Allocates, TypeOK, TotalsMatchAssets
      <4> QED
        BY <3>1, <3>2, <3>3, <3>5, <4>1
    <3> QED
      BY <3>4, <3>5
  <2>2. ASSUME NEW a \in Allocations, allocations'[a] # Absent
        PROVE  /\ allocations'[a].reserved = Held(a, "PENDING")
               /\ allocations'[a].disbursed = Held(a, "SETTLED")
    <3>1. CASE a = id
      <4>1. ASSUME NEW d \in Disbursements, NEW st PROVE HeldBy(d, id, st) = 0
        BY <1>5 DEF Allocates, Traceable, HeldBy
      <4>2. Held(id, "PENDING") = 0 /\ Held(id, "SETTLED") = 0
        BY <4>1, HeldNone
      <4> QED
        BY <1>5, <3>1, <4>2 DEF Allocates
    <3>2. CASE a # id
      BY <1>5, <2>2, <3>2 DEF Allocates, TypeOK, TotalsMatchAssets
    <3> QED
      BY <3>1, <3>2
  <2>3. UNCHANGED disbursements
    BY <1>5 DEF Allocates
  <2> QED
    BY <1>1, <2>1, <2>2, <2>3 DEF TotalsMatchAssets
<1>6. ASSUME NEW id \in Disbursements, NEW allocation \in Allocations,
             NEW beneficiary \in Beneficiaries, NEW amount \in Paise, NEW key \in Keys,
             Initiates(id, allocation, beneficiary, amount, key)
      PROVE  TotalsMatchAssets'
  <2>1. \A s \in Sources : sources'[s] # Absent => sources'[s].allocated = Drawn(s)'
    BY <1>0, <1>6, TouchesDrawn DEF Initiates, TotalsMatchAssets
  <2>2. ASSUME NEW a \in Allocations, allocations'[a] # Absent
        PROVE  /\ allocations'[a].reserved = Held(a, "PENDING")'
               /\ allocations'[a].disbursed = Held(a, "SETTLED")'
    <3>1. ASSUME NEW st
          PROVE  /\ Held(a, st) \in Nat
                 /\ Held(a, st)' = Held(a, st)
                      + (IF a = allocation /\ st = "PENDING" THEN amount ELSE 0)
      <4>1. Held(a, st)' = Held(a, st) - HeldBy(id, a, st) + HeldBy(id, a, st)'
        BY <1>0, <1>6, HeldStep DEF Initiates
      <4>2. /\ HeldBy(id, a, st) = 0
            /\ HeldBy(id, a, st)' = IF a = allocation /\ st = "PENDING" THEN amount ELSE 0
        BY <1>6 DEF Initiates, HeldBy
      <4> QED
        BY <4>1, <4>2, HeldNat, PaiseNat
    <3>2. CASE a = allocation
      <4>1. /\ allocations'[a].reserved = Held(a, "PENDING") + amount
            /\ allocations'[a].disbursed = Held(a, "SETTLED") + 0
        BY <1>6, <3>2 DEF Initiates, Touches, TotalsMatchAssets
      <4> QED
        BY <3>1, <3>2, <4>1
    <3>3. CASE a # allocation
      <4>1. /\ allocations'[a].reserved = Held(a, "PENDING")
            /\ allocations'[a].disbursed = Held(a, "SETTLED")
        BY <1>6, <2>2, <3>3 DEF Initiates, Touches, TypeOK, TotalsMatchAssets
      <4> QED
        BY <3>1, <3>3, <4>1
    <3> QED
      BY <3>2, <3>3
  <2> QED
    BY <2>1, <2>2 DEF TotalsMatchAssets
<1>7. ASSUME NEW id \in Disbursements, NEW status \in {"SETTLED", "FAILED"}, Finalizes(id, status)
      PROVE  TotalsMatchAssets'
  <2>1. \A s \in Sources : sources'[s] # Absent => sources'[s].allocated = Drawn(s)'
    BY <1>0, <1>7, TouchesDrawn DEF Finalizes, TotalsMatchAssets
  <2>2. ASSUME NEW a \in Allocations, allocations'[a] # Absent
        PROVE  /\ allocations'[a].reserved = Held(a, "PENDING")'
               /\ allocations'[a].disbursed = Held(a, "SETTLED")'
    <3> DEFINE of == disbursements[id].allocation
               amount == disbursements[id].amount
    <3>1. Moves(id, "PENDING", status) /\ "PENDING" # status /\ amount \in Nat
      BY <1>7, PaiseNat DEF Finalizes, Moves, DisbursementAsset
    <3>2. Held(a, "PENDING") \in Nat /\ Held(a, "SETTLED") \in Nat
      BY HeldNat
    <3>3. CASE a # of
      <4>1. /\ allocations'[a].reserved = Held(a, "PENDING")
            /\ allocations'[a].disbursed = Held(a, "SETTLED")
        BY <1>7, <2>2, <3>3 DEF Finalizes, Touches, TypeOK, TotalsMatchAssets
      <4>2. ASSUME NEW st PROVE Held(a, st)' = Held(a, st)
        BY <1>0, <3>1, <3>3, MovesHeld
      <4> QED
        BY <4>1, <4>2
    <3>4. CASE a = of /\ status = "SETTLED"
      <4>1. /\ allocations'[a].reserved = Held(a, "PENDING") + (-amount)
            /\ allocations'[a].disbursed = Held(a, "SETTLED") + amount
        BY <1>7, <3>4 DEF Finalizes, Touches, TotalsMatchAssets
      <4>2. /\ Held(a, "PENDING")' = Held(a, "PENDING") - amount
            /\ Held(a, "SETTLED")' = Held(a, "SETTLED") + amount
        BY <1>0, <3>1, <3>4, MovesHeld
      <4> QED
        BY <3>1, <3>2, <4>1, <4>2
    <3>5. CASE a = of /\ status = "FAILED"
      <4>1. /\ allocations'[a].reserved = Held(a, "PENDING") + (-amount)
            /\ allocations'[a].disbursed = Held(a, "SETTLED") + 0
        BY <1>7, <3>5 DEF Finalizes, Touches, TotalsMatchAssets
      <4>2. /\ Held(a, "PENDING")' = Held(a, "PENDING") - amount
            /\ Held(a, "SETTLED")' = Held(a, "SETTLED")
        BY <1>0, <3>1, <3>5, MovesHeld
      <4> QED
        BY <3>1, <3>2, <4>1, <4>2
    <3> QED
      BY <3>3, <3>4, <3>5
  <2> QED
    BY <2>1, <2>2 DEF TotalsMatchAssets
<1>8. ASSUME NEW id \in Disbursements, Reverses(id)
      PROVE  TotalsMatchAssets'
  <2>1. \A s \in Sources : sources'[s] # Absent => sources'[s].allocated = Drawn(s)'
    BY <1>0, <1>8, TouchesDrawn DEF Reverses, TotalsMatchAssets
  <2>2. ASSUME NEW a \in Allocations, allocations'[a] # Absent
        PROVE  /\ allocations'[a].reserved = Held(a, "PENDING")'
               /\ allocations'[a].disbursed = Held(a, "SETTLED")'
    <3> DEFINE of == disbursements[id].allocation
               amount == disbursements[id].amount
    <3>1. Moves(id, "SETTLED", "REVERSED") /\ "SETTLED" # "REVERSED" /\ amount \in Nat
      BY <1>8, PaiseNat DEF Reverses, Moves, DisbursementAsset
    <3>2. Held(a, "PENDING") \in Nat /\ Held(a, "SETTLED") \in Nat
      BY HeldNat
    <3>3. CASE a # of
      <4>1. /\ allocations'[a].reserved = Held(a, "PENDING")
            /\ allocations'[a].disbursed = Held(a, "SETTLED")
        BY <1>8, <2>2, <3>3 DEF Reverses, Touches, TypeOK, TotalsMatchAssets
      <4>2. ASSUME NEW st PROVE Held(a, st)' = Held(a, st)
        BY <1>0, <3>1, <3>3, MovesHeld
      <4> QED
        BY <4>1, <4>2
    <3>4. CASE a = of
      <4>1. /\ allocations'[a].reserved = Held(a, "PENDING") + 0
            /\ allocations'[a].disbursed = Held(a, "SETTLED") + (-amount)
        BY <1>8, <3>4 DEF Reverses, Touches, TotalsMatchAssets
      <4>2. /\ Held(a, "PENDING")' = Held(a, "PENDING")
            /\ Held(a, "SETTLED")' = Held(a, "SETTLED") - amount
        BY <1>0, <3>1, <3>4, MovesHeld
      <4> QED
        BY <3>1, <3>2, <4>1, <4>2
    <3> QED
      BY <3>3, <3>4
  <2> QED
    BY <2>1, <2>2 DEF TotalsMatchAssets
<1> QED
  BY <1>3, <1>4, <1>5, <1>6, <1>7, <1>8, NextEffect

\* For every number of assets, the totals the contract keeps are the sums they
\* stand for.  Traceable is part of the invariant: it says that an asset about
\* to be created has nothing drawn on it yet.
THEOREM TotalsAlwaysMatch == Spec => []TotalsMatchAssets
<1>1. Init => TypeOK /\ Traceable /\ TotalsMatchAssets
  BY InitType DEF Init, Traceable, TotalsMatchAssets
<1>2. TypeOK /\ Traceable /\ TotalsMatchAssets /\ [Next]_vars
        => (TypeOK /\ Traceable /\ TotalsMatchAssets)'
  BY NextType, NextTraceable, NextTotals
<1> QED
  BY <1>1, <1>2, PTL DEF Spec
-----------------------------------------------------------------------------
(***************************************************************************)
(* The life of a disbursement, and the public events.                      *)
(***************************************************************************)
LEMMA LifecycleStep ==
  TypeOK /\ [Next]_vars => [Lifecycle!LifecycleNext]_([d \in Disbursements |-> StatusOf(d)])
<1> DEFINE S == [d \in Disbursements |-> StatusOf(d)]
<1> SUFFICES ASSUME TypeOK, [Next]_vars PROVE Lifecycle!LifecycleNext \/ S' = S
  OBVIOUS
<1>1. ASSUME disbursements' = disbursements PROVE S' = S
  BY <1>1 DEF StatusOf
<1>2. ASSUME NEW id \in Disbursements, disbursements' = [disbursements EXCEPT ![id] = disbursements'[id]]
      PROVE  S' = [S EXCEPT ![id] = StatusOf(id)'] /\ S[id] = StatusOf(id)
  <2>1. \A d \in Disbursements : d # id => disbursements'[d] = disbursements[d]
    BY <1>2 DEF TypeOK
  <2> QED
    BY <2>1 DEF StatusOf
<1>3. ASSUME NEW id \in Disbursements, NEW allocation, NEW beneficiary, NEW amount, NEW key,
             Initiates(id, allocation, beneficiary, amount, key)
      PROVE  Lifecycle!LifecycleNext
  <2>1. StatusOf(id) = "none" /\ StatusOf(id)' = "PENDING"
    BY <1>3 DEF Initiates, StatusOf
  <2>2. S' = [S EXCEPT ![id] = "PENDING"] /\ S[id] = "none"
    BY <1>2, <1>3, <2>1 DEF Initiates
  <2>3. Lifecycle!Create(id)
    BY <2>2 DEF Lifecycle!Create
  <2> QED
    BY <2>3 DEF Lifecycle!LifecycleNext
<1>4. ASSUME NEW id \in Disbursements, NEW from, NEW to, Moves(id, from, to),
             from \in Lifecycle!PayoutStates, to \in Lifecycle!payoutTransitions[from]
      PROVE  Lifecycle!LifecycleNext
  <2>1. StatusOf(id) = from /\ StatusOf(id)' = to
    BY <1>4 DEF Moves, StatusOf
  <2>2. S' = [S EXCEPT ![id] = to] /\ S[id] = from
    BY <1>2, <1>4, <2>1 DEF Moves
  <2> HIDE DEF S
  <2>3. Lifecycle!Transition(id)
    BY <1>4, <2>2 DEF Lifecycle!Transition, S
  <2> QED
    BY <2>3 DEF Lifecycle!LifecycleNext
<1>5. /\ {"PENDING", "SETTLED"} \subseteq Lifecycle!PayoutStates
      /\ {"SETTLED", "FAILED"} \subseteq Lifecycle!payoutTransitions["PENDING"]
      /\ "REVERSED" \in Lifecycle!payoutTransitions["SETTLED"]
  BY DEF Lifecycle!PayoutStates, Lifecycle!payoutTransitions
<1>6. ASSUME NEW id \in Disbursements, NEW status \in {"SETTLED", "FAILED"}, Finalizes(id, status)
      PROVE  Lifecycle!LifecycleNext
  BY <1>4, <1>5, <1>6 DEF Finalizes
<1>7. ASSUME NEW id \in Disbursements, Reverses(id) PROVE Lifecycle!LifecycleNext
  BY <1>4, <1>5, <1>7 DEF Reverses
<1> QED
  BY <1>1, <1>3, <1>6, <1>7, NextEffect DEF Registers, CreatesSource, Allocates

\* On the ledger a disbursement is created once and moves only along
\* payoutTransitions, whichever organizations act in whatever order.
THEOREM LivesOnce == Spec => ImplementsLifecycle
<1>1. Init => Lifecycle!LifecycleInit
  BY DEF Init, Lifecycle!LifecycleInit, StatusOf
<1>2. Init => TypeOK
  BY InitType
<1>3. TypeOK /\ [Next]_vars => TypeOK'
  BY NextType
<1> QED
  BY <1>1, <1>2, <1>3, LifecycleStep, PTL
     DEF Spec, ImplementsLifecycle, Lifecycle!LifecycleSpec

AllocatedOf(s) == IF sources[s] = Absent THEN 0 ELSE sources[s].allocated
ReservedOf(a) == IF allocations[a] = Absent THEN 0 ELSE allocations[a].reserved
DisbursedOf(a) == IF allocations[a] = Absent THEN 0 ELSE allocations[a].disbursed

\* The balances part by part, of what an asset does to them.
LEMMA BalanceParts ==
  /\ Balances.allocated = [s \in Sources |-> AllocatedOf(s)]
  /\ Balances.reserved = [a \in Allocations |-> ReservedOf(a)]
  /\ Balances.disbursed = [a \in Allocations |-> DisbursedOf(a)]
  /\ Balances = [allocated |-> Balances.allocated, reserved |-> Balances.reserved,
                 disbursed |-> Balances.disbursed]
BY DEF Balances, AllocatedOf, ReservedOf, DisbursedOf

LEMMA BalancesFrom ==
  ASSUME \A s \in Sources : AllocatedOf(s)' = AllocatedOf(s),
         \A a \in Allocations : ReservedOf(a)' = ReservedOf(a) /\ DisbursedOf(a)' = DisbursedOf(a)
  PROVE  Balances' = Balances
BY DEF Balances, AllocatedOf, ReservedOf, DisbursedOf

LEMMA TouchesBalances ==
  ASSUME TypeOK, NEW a, NEW m \in Int, NEW n \in Int, Touches(a, m, n), sources' = sources
  PROVE  /\ Balances.reserved[a] \in Int /\ Balances.disbursed[a] \in Int
         /\ Balances' = [allocated |-> Balances.allocated,
                         reserved |-> [Balances.reserved EXCEPT ![a] = @ + m],
                         disbursed |-> [Balances.disbursed EXCEPT ![a] = @ + n]]
<1>1. \A b \in Allocations : b # a => allocations'[b] = allocations[b]
  BY DEF Touches, TypeOK
<1>2. /\ ReservedOf(a)' = ReservedOf(a) + m /\ DisbursedOf(a)' = DisbursedOf(a) + n
      /\ ReservedOf(a) \in Int /\ DisbursedOf(a) \in Int /\ a \in Allocations
  BY DEF Touches, ReservedOf, DisbursedOf, AllocationAsset
<1>3. \A b \in Allocations :
        /\ ReservedOf(b)' = IF b = a THEN ReservedOf(b) + m ELSE ReservedOf(b)
        /\ DisbursedOf(b)' = IF b = a THEN DisbursedOf(b) + n ELSE DisbursedOf(b)
  BY <1>1, <1>2 DEF ReservedOf, DisbursedOf
<1>4. Balances'.allocated = Balances.allocated
  BY DEF Balances
<1>5. /\ Balances'.reserved = [b \in Allocations |-> ReservedOf(b)']
      /\ Balances'.disbursed = [b \in Allocations |-> DisbursedOf(b)']
      /\ Balances' = [allocated |-> Balances'.allocated, reserved |-> Balances'.reserved,
                      disbursed |-> Balances'.disbursed]
  BY DEF Balances, ReservedOf, DisbursedOf
<1>6. /\ Balances'.reserved = [Balances.reserved EXCEPT ![a] = @ + m]
      /\ Balances'.disbursed = [Balances.disbursed EXCEPT ![a] = @ + n]
  <2> DEFINE R == [b \in Allocations |-> ReservedOf(b)]
             D == [b \in Allocations |-> DisbursedOf(b)]
  <2>1. /\ Balances'.reserved = [R EXCEPT ![a] = @ + m]
        /\ Balances'.disbursed = [D EXCEPT ![a] = @ + n]
    BY <1>2, <1>3, <1>5
  <2> HIDE DEF R, D
  <2>2. Balances.reserved = R /\ Balances.disbursed = D
    BY BalanceParts DEF R, D
  <2> QED
    BY <2>1, <2>2
<1> QED
  BY <1>2, <1>4, <1>5, <1>6, BalanceParts

LEMMA AllocateReplays ==
  ASSUME TypeOK, NEW client \in Identities, NEW id \in Allocations, NEW source \in Sources,
         NEW scheme \in Schemes, NEW amount \in Paise,
         AllocateFunds(client, id, source, scheme, amount)
  PROVE  Balances' = Replay(Balances, event')
<1>1. Allocates(id, source, scheme, amount)
  BY AllocateEffect
<1>2. event' = [type |-> "FundsAllocated", id |-> id, of |-> source, amount |-> amount]
  BY DEF AllocateFunds, emit
<1>3. \A s \in Sources : AllocatedOf(s)' = IF s = source THEN AllocatedOf(s) + amount
                                           ELSE AllocatedOf(s)
  BY <1>1 DEF Allocates, AllocatedOf, TypeOK
<1>4. \A a \in Allocations : ReservedOf(a)' = ReservedOf(a) /\ DisbursedOf(a)' = DisbursedOf(a)
  <2> SUFFICES ASSUME NEW a \in Allocations
               PROVE  ReservedOf(a)' = ReservedOf(a) /\ DisbursedOf(a)' = DisbursedOf(a)
    OBVIOUS
  <2>1. CASE a = id
    BY <1>1, <2>1 DEF Allocates, ReservedOf, DisbursedOf
  <2>2. CASE a # id
    BY <1>1, <2>2 DEF Allocates, ReservedOf, DisbursedOf, TypeOK
  <2> QED
    BY <2>1, <2>2
<1>5. /\ Balances'.allocated = [s \in Sources |-> AllocatedOf(s)']
      /\ Balances'.reserved = [a \in Allocations |-> ReservedOf(a)']
      /\ Balances'.disbursed = [a \in Allocations |-> DisbursedOf(a)']
      /\ Balances' = [allocated |-> Balances'.allocated, reserved |-> Balances'.reserved,
                      disbursed |-> Balances'.disbursed]
  BY DEF Balances, AllocatedOf, ReservedOf, DisbursedOf
<1>6. Balances'.allocated = [Balances.allocated EXCEPT ![source] = @ + amount]
  BY <1>3, <1>5, BalanceParts
<1>7. Balances'.reserved = Balances.reserved /\ Balances'.disbursed = Balances.disbursed
  BY <1>4, <1>5, BalanceParts
<1>8. Replay(Balances, event') = [Balances EXCEPT !.allocated[source] = @ + amount]
  BY <1>2 DEF Replay
<1> QED
  BY <1>5, <1>6, <1>7, <1>8, BalanceParts

LEMMA PayoutReplays ==
  ASSUME TypeOK, NEW client \in Identities,
         \/ \E id \in Disbursements, allocation \in Allocations, beneficiary \in Beneficiaries,
              amount \in Paise, key \in Keys :
              InitiateDisbursement(client, id, allocation, beneficiary, amount, key)
         \/ \E id \in Disbursements, status \in {"SETTLED", "FAILED"}, reasonCode \in ReasonCodes :
              FinalizeDisbursement(client, id, status, reasonCode)
         \/ \E id \in Disbursements, reasonCode \in ReasonCodes :
              ReverseDisbursement(client, id, reasonCode)
  PROVE  Balances' = Replay(Balances, event')
<1>a. Balances = [allocated |-> Balances.allocated, reserved |-> Balances.reserved,
                  disbursed |-> Balances.disbursed]
  BY BalanceParts
<1>b. /\ Balances.reserved = [a \in Allocations |-> Balances.reserved[a]]
      /\ Balances.disbursed = [a \in Allocations |-> Balances.disbursed[a]]
  BY BalanceParts
<1>c. Paise \subseteq Int
  BY MaxPaiseAssumption DEF Paise
<1>1. ASSUME NEW id \in Disbursements, NEW allocation \in Allocations,
             NEW beneficiary \in Beneficiaries, NEW amount \in Paise, NEW key \in Keys,
             InitiateDisbursement(client, id, allocation, beneficiary, amount, key)
      PROVE  Balances' = Replay(Balances, event')
  <2>1. Touches(allocation, amount, 0) /\ sources' = sources
    BY <1>1, InitiateEffect DEF Initiates
  <2>2. /\ event'.type = "DisbursementInitiated" /\ event'.of = allocation
        /\ event'.amount = amount
    BY <1>1 DEF InitiateDisbursement, emit
  <2>3. /\ Balances.reserved[allocation] \in Int /\ Balances.disbursed[allocation] \in Int
        /\ Balances' = [allocated |-> Balances.allocated,
                        reserved |-> [Balances.reserved EXCEPT ![allocation] = @ + amount],
                        disbursed |-> [Balances.disbursed EXCEPT ![allocation] = @ + 0]]
    BY <1>c, <2>1, TouchesBalances
  <2>4. [Balances.disbursed EXCEPT ![allocation] = @ + 0] = Balances.disbursed
    BY <1>b, <2>3
  <2>5. Replay(Balances, event') = [Balances EXCEPT !.reserved[allocation] = @ + amount]
    BY <2>2 DEF Replay
  <2> QED
    BY <1>a, <2>3, <2>4, <2>5
<1>2. ASSUME NEW id \in Disbursements, NEW status \in {"SETTLED", "FAILED"},
             NEW reasonCode \in ReasonCodes, FinalizeDisbursement(client, id, status, reasonCode)
      PROVE  Balances' = Replay(Balances, event')
  <2> DEFINE a == disbursements[id].allocation
             n == disbursements[id].amount
             paid == IF status = "SETTLED" THEN n ELSE 0
  <2>1. Touches(a, -n, paid) /\ sources' = sources
    BY <1>2, FinalizeEffect DEF Finalizes
  <2>2. /\ event'.type = IF status = "SETTLED" THEN "DisbursementSettled" ELSE "DisbursementFailed"
        /\ event'.of = a /\ event'.amount = n
    BY <1>2 DEF FinalizeDisbursement, emit
  <2>3. n \in Int
    BY <1>2, <1>c DEF FinalizeDisbursement, TypeOK, DisbursementAsset
  <2> HIDE DEF a, n
  <2>b. -n \in Int /\ paid \in Int
    BY <2>3
  <2>4. /\ Balances.reserved[a] \in Int /\ Balances.disbursed[a] \in Int
        /\ Balances' = [allocated |-> Balances.allocated,
                        reserved |-> [Balances.reserved EXCEPT ![a] = @ + (-n)],
                        disbursed |-> [Balances.disbursed EXCEPT ![a] = @ + paid]]
    BY <2>1, <2>b, TouchesBalances
  <2>5. [Balances.reserved EXCEPT ![a] = @ + (-n)] = [Balances.reserved EXCEPT ![a] = @ - n]
    BY <2>3, <2>4
  <2>6. CASE status = "SETTLED"
    <3>1. Replay(Balances, event') =
            [Balances EXCEPT !.reserved[a] = @ - n, !.disbursed[a] = @ + n]
      BY <2>2, <2>6 DEF Replay
    <3> QED
      BY <1>a, <2>4, <2>5, <2>6, <3>1
  <2>7. CASE status = "FAILED"
    <3>1. Replay(Balances, event') = [Balances EXCEPT !.reserved[a] = @ - n]
      BY <2>2, <2>7 DEF Replay
    <3>2. [Balances.disbursed EXCEPT ![a] = @ + paid] = Balances.disbursed
      BY <1>b, <2>4, <2>7
    <3> QED
      BY <1>a, <2>4, <2>5, <3>1, <3>2
  <2> QED
    BY <2>6, <2>7
<1>3. ASSUME NEW id \in Disbursements, NEW reasonCode \in ReasonCodes,
             ReverseDisbursement(client, id, reasonCode)
      PROVE  Balances' = Replay(Balances, event')
  <2> DEFINE a == disbursements[id].allocation
             n == disbursements[id].amount
  <2>1. Touches(a, 0, -n) /\ sources' = sources
    BY <1>3, ReverseEffect DEF Reverses
  <2>2. event'.type = "DisbursementReversed" /\ event'.of = a /\ event'.amount = n
    BY <1>3 DEF ReverseDisbursement, emit
  <2>3. n \in Int
    BY <1>3, <1>c DEF ReverseDisbursement, TypeOK, DisbursementAsset
  <2> HIDE DEF a, n
  <2>b. -n \in Int /\ 0 \in Int
    BY <2>3
  <2>4. /\ Balances.reserved[a] \in Int /\ Balances.disbursed[a] \in Int
        /\ Balances' = [allocated |-> Balances.allocated,
                        reserved |-> [Balances.reserved EXCEPT ![a] = @ + 0],
                        disbursed |-> [Balances.disbursed EXCEPT ![a] = @ + (-n)]]
    BY <2>1, <2>b, TouchesBalances
  <2>5. /\ [Balances.reserved EXCEPT ![a] = @ + 0] = Balances.reserved
        /\ [Balances.disbursed EXCEPT ![a] = @ + (-n)] = [Balances.disbursed EXCEPT ![a] = @ - n]
    BY <1>b, <2>3, <2>4
  <2>6. Replay(Balances, event') = [Balances EXCEPT !.disbursed[a] = @ - n]
    BY <2>2 DEF Replay
  <2> QED
    BY <1>a, <2>4, <2>5, <2>6
<1> QED
  BY <1>1, <1>2, <1>3

LEMMA CreateReplays ==
  ASSUME TypeOK, NEW client \in Identities,
         \/ \E id \in Disasters : RegisterDisaster(client, id)
         \/ \E id \in Schemes, disaster \in Disasters : RegisterScheme(client, id, disaster)
         \/ \E beneficiary \in Beneficiaries, scheme \in Schemes :
              RegisterBeneficiaryCommitment(client, beneficiary, scheme)
         \/ \E id \in Sources, disaster \in Disasters, sourceType \in SourceTypes, amount \in Paise :
              CreateFundSource(client, id, disaster, sourceType, amount)
  PROVE  Balances' = Replay(Balances, event')
<1>1. event'.type \in {"DisasterRegistered", "SchemeRegistered", "BeneficiaryCommitted",
                       "FundSourceCreated"}
  BY DEF RegisterDisaster, RegisterScheme, RegisterBeneficiaryCommitment, CreateFundSource, emit
<1>2. Replay(Balances, event') = Balances
  BY <1>1 DEF Replay
<1>3. CASE Registers
  BY <1>2, <1>3, BalancesFrom DEF Registers, AllocatedOf, ReservedOf, DisbursedOf
<1>4. ASSUME NEW id \in Sources, CreatesSource(id) PROVE Balances' = Balances
  <2>1. \A s \in Sources : AllocatedOf(s)' = AllocatedOf(s)
    <3> SUFFICES ASSUME NEW s \in Sources PROVE AllocatedOf(s)' = AllocatedOf(s)
      OBVIOUS
    <3>1. CASE s = id
      BY <1>4, <3>1 DEF CreatesSource, AllocatedOf
    <3>2. CASE s # id
      BY <1>4, <3>2 DEF CreatesSource, AllocatedOf, TypeOK
    <3> QED
      BY <3>1, <3>2
  <2> QED
    BY <1>4, <2>1, BalancesFrom DEF CreatesSource, ReservedOf, DisbursedOf
<1> QED
  BY <1>2, <1>3, <1>4, RegisterEffect, CreateEffect

\* Whoever replays the public events, one per transaction, gets the balances.
THEOREM EventsAccount == Spec => EventsReplayBalances
<1>1. TypeOK /\ [Next]_vars => [Balances' = Replay(Balances, event')]_vars
  BY CreateReplays, AllocateReplays, PayoutReplays DEF Next
<1>2. Init => TypeOK
  BY InitType
<1>3. TypeOK /\ [Next]_vars => TypeOK'
  BY NextType
<1> QED
  BY <1>1, <1>2, <1>3, PTL DEF Spec, EventsReplayBalances
=============================================================================
