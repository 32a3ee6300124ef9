---------------------------- MODULE ReliefServices ----------------------------
(***************************************************************************)
(* The operator endpoints that write to both books: FundsService,          *)
(* BeneficiariesService and the initiation and reversal of payouts in      *)
(* DisbursementsService.  Every one submits to the ledger first and writes *)
(* its rows afterwards; allocations, payouts and reversals do so inside a  *)
(* transaction that holds a pooled connection and row locks meanwhile.     *)
(* Of PayoutsService the steps of a decision are here: the ledger first,   *)
(* and the table in the transaction of the worker or of a reconciliation.  *)
(*                                                                         *)
(* A call stands for the random id it creates.  Amounts are units: every   *)
(* payout is one unit, every source and allocation has a fixed size.  A    *)
(* place is a scheme together with a district, the two things eligibility  *)
(* compares.  The idempotency keys of initiate are in PayoutRequests: here *)
(* every call has a key of its own.                                        *)
(***************************************************************************)
EXTENDS Integers, FiniteSets, FiniteSetsExt

CONSTANTS
  Calls,            \* calls of the endpoints, and the ids they create
  Users, OrgOf,     \* operators and their organizations
  DistrictOf,       \* the place an operator is restricted to, or None
  People, PhoneOf,  \* identities, and the phone each registers with
  Places,
  Batches,
  SourceAmount, AllocationAmount,
  Seeds,            \* what the seeding and earlier calls left in both books
  BatchSeeds,       \* and the batches earlier calls left
  Mode,             \* LEDGER_MODE: "fabric" or "memory"
  PoolSize,         \* connections of the pool
  MaxFaults,        \* bound: failed statements, lost answers, timeouts
  None

ASSUME ServicesAssumption ==
  /\ Mode \in {"fabric", "memory"}
  /\ PoolSize \in Nat \ {0} /\ MaxFaults \in Nat
  /\ {SourceAmount, AllocationAmount} \subseteq Nat
  /\ IsFiniteSet(Calls)

VARIABLES
  world,            \* Fabric: the assets
  rows,             \* PostgreSQL: the tables
  batches,          \* PostgreSQL: payout_batches
  pc, input, answer,
  recording,        \* outcomes the ledger has and a handler is about to record
  faults

Batch == INSTANCE PayoutBatches

control == <<pc, input, answer>>
services == <<world, rows, batches, control, recording, faults>>

ServicesInit ==
  /\ world = Seeds /\ rows = Seeds
  /\ batches = BatchSeeds
  /\ pc = [c \in Calls |-> "new"]
  /\ input = [c \in Calls |-> None]
  /\ answer = [c \in Calls |-> "none"]
  /\ recording = <<>>
  /\ faults = 0

Fault == faults < MaxFaults /\ faults' = faults + 1
NoFault == UNCHANGED <<recording, faults>>
-----------------------------------------------------------------------------
(***************************************************************************)
(* What a call may ask for, and the books after it.                        *)
(***************************************************************************)
Inputs ==
  [kind: {"source"}, user: Users, type: {OrgOf[u] : u \in Users}]
  \cup [kind: {"allocation"}, user: Users, source: DOMAIN rows.sources, place: Places]
  \cup [kind: {"beneficiary"}, user: Users, person: People, place: Places]
  \cup [kind: {"payout"}, user: Users, allocation: DOMAIN rows.allocations,
        person: DOMAIN rows.people,
        batch: {b \in Batches : batches[b] # Batch!NoBatch} \cup {None}]
  \cup [kind: {"reversal"}, user: Users, payout: DOMAIN rows.payouts]

InTransaction(in) == in.kind \in {"allocation", "payout", "reversal"}

\* createFundSource: the type of the source is one of the caller's own
\* organization; registerBeneficiary: requireDistrict.
MayCall(in) ==
  /\ in.kind = "source" => in.type = OrgOf[in.user]
  /\ in.kind = "beneficiary" => DistrictOf[in.user] \in {None, in.place}

\* The allocation of a call on payouts.
AllocationOf(b, in) ==
  IF in.kind = "payout" THEN in.allocation ELSE b.payouts[in.payout].allocation

Promised(allocation) == allocation.reserved + allocation.disbursed

\* requireOrganization, on the source or the allocation.
Owned(b, in) ==
  OrgOf[in.user] =
    IF in.kind = "allocation" THEN b.sources[in.source].owner
    ELSE b.allocations[AllocationOf(b, in)].owner

Eligible(b, in) ==
  in.kind = "payout" => b.people[in.person] = b.allocations[in.allocation].place

Affordable(b, in) ==
  /\ in.kind = "allocation" =>
       b.sources[in.source].allocated + AllocationAmount <= SourceAmount
  /\ in.kind = "payout" =>
       Promised(b.allocations[in.allocation]) + 1 <= AllocationAmount

\* Mutant of Reversible: of the status only the double reversal is refused.
ReversibleUnlessReversed(b, in) ==
  in.kind = "reversal" => b.payouts[in.payout].status # "REVERSED"

Reversible(b, in) == in.kind = "reversal" => b.payouts[in.payout].status = "SETTLED"

\* What the transaction of a call finds in the rows it has locked.
Refusal(in) ==
  IF ~Owned(rows, in) THEN "forbidden"
  ELSE IF ~Eligible(rows, in) THEN "ineligible"
  ELSE IF ~Affordable(rows, in) THEN "balance"
  ELSE IF in.kind = "payout" /\ in.batch # None /\ ~Batch!TakesPayouts(batches[in.batch], in.user)
    THEN "batch"
  ELSE IF ~Reversible(rows, in) THEN "status"
  ELSE "none"

\* The contract compares owners, balances and states, but no places.
Accepted(in) ==
  \/ Mode = "memory"
  \/ in.kind = "source"
  \/ in.kind = "beneficiary" /\ in.person \notin DOMAIN world.people
  \/ /\ InTransaction(in)
     /\ Owned(world, in) /\ Affordable(world, in) /\ Reversible(world, in)

\* The unique columns of beneficiaries: beneficiary_ref and phone_hash.
Unique(in) ==
  in.kind = "beneficiary" =>
    \A p \in DOMAIN rows.people : p # in.person /\ PhoneOf[p] # PhoneOf[in.person]

\* A table with one more row.
With(table, id, row) ==
  [i \in DOMAIN table \cup {id} |-> IF i = id THEN row ELSE table[i]]

WithAllocation(b, id, in) ==
  [b EXCEPT
    !.sources[in.source].allocated = @ + AllocationAmount,
    !.allocations = With(@, id, [source |-> in.source, owner |-> OrgOf[in.user],
                                 place |-> in.place, reserved |-> 0, disbursed |-> 0])]

WithPayout(b, id, in) ==
  [b EXCEPT
    !.allocations[in.allocation].reserved = @ + 1,
    !.payouts = With(@, id, [allocation |-> in.allocation, person |-> in.person,
                             batch |-> in.batch, status |-> "PENDING"])]

Reversed(b, p) ==
  [b EXCEPT !.payouts[p].status = "REVERSED",
            !.allocations[b.payouts[p].allocation].disbursed = @ - 1]

\* The books after a call: what the contract puts and what the SQL writes.
After(b, id, in) ==
  CASE in.kind = "source" ->
         [b EXCEPT !.sources = With(@, id, [owner |-> OrgOf[in.user], allocated |-> 0])]
    [] in.kind = "allocation" -> WithAllocation(b, id, in)
    [] in.kind = "beneficiary" -> [b EXCEPT !.people = With(@, in.person, in.place)]
    [] in.kind = "payout" -> WithPayout(b, id, in)
    [] in.kind = "reversal" -> Reversed(b, in.payout)
-----------------------------------------------------------------------------
(***************************************************************************)
(* The steps of a call.                                                    *)
(***************************************************************************)
Goto(c, place) == pc' = [pc EXCEPT ![c] = place]
Unanswered == UNCHANGED <<input, answer>>

\* A caller that was answered by a timeout does not hear the real answer.
Answer(c, reply) ==
  /\ Goto(c, "done") /\ input' = [input EXCEPT ![c] = None]
  /\ answer' = [answer EXCEPT ![c] = IF @ = "none" THEN reply ELSE @]

InFlight(c) == pc[c] \notin {"new", "done"}
Connected == {c \in Calls : InFlight(c) /\ InTransaction(input[c]) /\ pc[c] # "waiting"}

\* A worker has the ledger decide within its transaction; a reconciliation, which
\* is of a payout that is UNKNOWN, begins one only afterwards.
Finalizing == {p \in DOMAIN recording : rows.payouts[p].status = "PENDING"}

\* Statements outside of a transaction take a connection for a moment.
FreeConnection == Cardinality(Connected) + Cardinality(Finalizing) < PoolSize

RowLocks(in) ==
  CASE in.kind = "allocation" -> {in.source}
    [] in.kind = "payout" -> {in.allocation}
    [] in.kind = "reversal" -> {in.payout, AllocationOf(rows, in)}

\* The rows a decision locks: the payout and its allocation.
PayoutLocks(p) == {p, rows.payouts[p].allocation}

Locked ==
  UNION ({RowLocks(input[c]) : c \in {d \in Connected : pc[d] # "begun"}}
           \cup {PayoutLocks(p) : p \in Finalizing})

Unlocked(p) == PayoutLocks(p) \cap Locked = {}

Call(c, in) ==
  /\ pc[c] = "new"
  /\ IF MayCall(in)
     THEN /\ Goto(c, IF InTransaction(in) THEN "waiting" ELSE "submitting")
          /\ input' = [input EXCEPT ![c] = in] /\ UNCHANGED answer
     ELSE Answer(c, "forbidden")
  /\ NoFault /\ UNCHANGED <<world, rows, batches>>

Begin(c) ==
  /\ pc[c] = "waiting" /\ FreeConnection
  /\ Goto(c, "begun") /\ Unanswered
  /\ NoFault /\ UNCHANGED <<world, rows, batches>>

LockRows(c) ==
  /\ pc[c] = "begun" /\ RowLocks(input[c]) \cap Locked = {}
  /\ IF Refusal(input[c]) = "none"
     THEN Goto(c, "submitting") /\ Unanswered
     ELSE Answer(c, Refusal(input[c]))
  /\ NoFault /\ UNCHANGED <<world, rows, batches>>

\* Mutant of NeedsConnection: record, on the path of the memory ledger, uses the
\* pool and not the connection of the transaction.
NeedsConnectionAlways(c) == TRUE

\* Whether a step waits for another connection than its transaction's.
NeedsConnection(c) == Mode = "memory" \/ ~InTransaction(input[c])

\* Mutant of SubmitToLedger: record swallows the refusal of the contract.
SubmitIgnoringRefusal(c) ==
  /\ pc[c] = "submitting" /\ (NeedsConnection(c) => FreeConnection)
  /\ world' = IF Accepted(input[c]) THEN After(world, c, input[c]) ELSE world
  /\ Goto(c, "writing") /\ Unanswered
  /\ NoFault /\ UNCHANGED <<rows, batches>>

SubmitToLedger(c) ==
  /\ pc[c] = "submitting" /\ (NeedsConnection(c) => FreeConnection)
  /\ IF Accepted(input[c])
     THEN world' = After(world, c, input[c]) /\ Goto(c, "writing") /\ Unanswered
     ELSE Answer(c, "refused") /\ UNCHANGED world
  /\ NoFault /\ UNCHANGED <<rows, batches>>

\* The ledger commits, but the client never learns that it did.
CommitStatusLost(c) ==
  /\ pc[c] = "submitting" /\ Accepted(input[c])
  /\ world' = After(world, c, input[c])
  /\ Answer(c, "error")
  /\ Fault /\ UNCHANGED <<rows, batches, recording>>

\* Mutant of Written: createFundSource and registerBeneficiary forget their INSERT.
WrittenInTransaction(c) ==
  rows' = IF InTransaction(input[c]) THEN After(rows, c, input[c]) ELSE rows

Written(c) == rows' = After(rows, c, input[c])

\* COMMIT of a transaction, or the INSERT that createFundSource and
\* registerBeneficiary run after the ledger, followed by the outbox.
WriteRows(c) ==
  /\ pc[c] = "writing" /\ (InTransaction(input[c]) \/ FreeConnection)
  /\ IF Unique(input[c])
     THEN /\ Written(c)
          /\ IF InTransaction(input[c]) THEN Answer(c, "ok") ELSE Goto(c, "publishing") /\ Unanswered
     ELSE Answer(c, "error") /\ UNCHANGED rows
  /\ NoFault /\ UNCHANGED <<world, batches>>

WriteAnswerLost(c) ==
  /\ pc[c] = "writing" /\ Unique(input[c])
  /\ Written(c) /\ Answer(c, "error")
  /\ Fault /\ UNCHANGED <<world, batches, recording>>

Publish(c) ==
  /\ pc[c] = "publishing" /\ FreeConnection
  /\ Answer(c, "ok")
  /\ NoFault /\ UNCHANGED <<world, rows, batches>>

\* A statement or the endorsement fails: a transaction is rolled back.
Fail(c) ==
  /\ pc[c] \in {"begun", "submitting", "writing", "publishing"}
  /\ Answer(c, "error")
  /\ Fault /\ UNCHANGED <<world, rows, batches, recording>>

\* TimeoutInterceptor answers after 30 s; the handler goes on.
RequestTimesOut(c) ==
  /\ InFlight(c) /\ answer[c] = "none"
  /\ answer' = [answer EXCEPT ![c] = "error"]
  /\ Fault /\ UNCHANGED <<world, rows, batches, pc, input, recording>>

-----------------------------------------------------------------------------
(***************************************************************************)
(* The decision of a payout, by the worker or by a reconciliation; what a  *)
(* job goes through before it is in PayoutWorker.  In memory mode at most  *)
(* one reconciliation of a payout is under way (an abstraction: there the  *)
(* ledger refuses nothing, and a second one would count the payout again). *)
(***************************************************************************)
Outcome(allocation, status) ==
  [allocation EXCEPT !.reserved = @ - 1,
                     !.disbursed = IF status = "SETTLED" THEN @ + 1 ELSE @]

Decided(b, p, status) ==
  [b EXCEPT !.payouts[p].status = status,
            !.allocations[b.payouts[p].allocation] = Outcome(@, status)]

\* Mutant of Unknown: the reservation is given back.
UnknownReleased(b, p) ==
  [b EXCEPT !.payouts[p].status = "UNKNOWN",
            !.allocations[b.payouts[p].allocation].reserved = @ - 1]

\* The provider does not know: the payout keeps what it has reserved.
Unknown(b, p) == [b EXCEPT !.payouts[p].status = "UNKNOWN"]

\* Whose payout it is to decide: the worker's, under its locks, or of a
\* reconciliation, which has only read the row.
Decidable(p) ==
  /\ p \notin DOMAIN recording /\ FreeConnection
  /\ \/ rows.payouts[p].status = "PENDING" /\ Unlocked(p)
     \/ rows.payouts[p].status = "UNKNOWN"

\* FinalizeDisbursement: the contract decides a payout that is pending.
DecideOnLedger(p, status) ==
  /\ Decidable(p)
  /\ Mode = "fabric" => world.payouts[p].status = "PENDING"
  /\ world' = Decided(world, p, status)
  /\ recording' = With(recording, p, status)
  /\ UNCHANGED <<rows, batches, control, faults>>

Without(table, id) == [i \in DOMAIN table \ {id} |-> table[i]]

\* The transaction that follows.  That of a reconciliation needs a connection and
\* the rows.
RecordOutcome(p) ==
  /\ p \in Finalizing \/ (FreeConnection /\ Unlocked(p))
  /\ rows' = Decided(rows, p, recording[p])
  /\ recording' = Without(recording, p)
  /\ UNCHANGED <<world, batches, control, faults>>

\* A handler dies or its transaction fails between the two.
RecordingFails(p) ==
  /\ recording' = Without(recording, p)
  /\ Fault /\ UNCHANGED <<world, rows, batches, control>>

\* finalizeJob: the answer of the provider is UNKNOWN, which the ledger is not told.
RecordUnknown(p) ==
  /\ Decidable(p) /\ rows.payouts[p].status = "PENDING"
  /\ rows' = Unknown(rows, p)
  /\ UNCHANGED <<world, batches, control, recording, faults>>
-----------------------------------------------------------------------------
\* The operations on batches are calls of a single statement.
ManageBatch(c, b, u) ==
  /\ pc[c] = "new"
  /\ Batch!BatchStep(b, u)
  /\ Answer(c, "ok")
  /\ NoFault /\ UNCHANGED <<world, rows>>
-----------------------------------------------------------------------------
CallStep(c) ==
  \/ Begin(c) \/ LockRows(c) \/ SubmitToLedger(c) \/ WriteRows(c) \/ Publish(c)

CallFault(c) ==
  \/ CommitStatusLost(c) \/ WriteAnswerLost(c) \/ Fail(c) \/ RequestTimesOut(c)

ServicesStep ==
  \/ \E c \in Calls : CallStep(c) \/ CallFault(c)
  \/ \E p \in DOMAIN rows.payouts :
       RecordUnknown(p) \/ \E s \in {"SETTLED", "FAILED"} : DecideOnLedger(p, s)
  \/ \E p \in DOMAIN recording : RecordOutcome(p) \/ RecordingFails(p)
  \/ \E c \in Calls, b \in Batches, u \in Users : ManageBatch(c, b, u)
-----------------------------------------------------------------------------
(***************************************************************************)
(* Properties.                                                             *)
(***************************************************************************)
\* As far as the ledger may be when a row is: decided when the row is still open,
\* pending when it is UNKNOWN, and reversed when the row is settled.
LedgerAt(status) ==
  IF status \in {"PENDING", "UNKNOWN"} THEN {"PENDING", "SETTLED", "FAILED"}
  ELSE IF status = "SETTLED" THEN {"SETTLED", "REVERSED"}
  ELSE {status}

\* Every row has its asset, in a state the ledger has reached: Fabric has every
\* payout, owner and place the table has, and decides and reverses first.
RowsFollowLedger ==
  Mode = "fabric" =>
    /\ DOMAIN rows.sources \subseteq DOMAIN world.sources
    /\ \A a \in DOMAIN rows.allocations :
         /\ a \in DOMAIN world.allocations
         /\ rows.allocations[a].owner = world.allocations[a].owner
         /\ rows.allocations[a].place = world.allocations[a].place
    /\ \A p \in DOMAIN rows.people :
         p \in DOMAIN world.people /\ rows.people[p] = world.people[p]
    /\ \A p \in DOMAIN rows.payouts :
         /\ p \in DOMAIN world.payouts
         /\ world.payouts[p].status \in LedgerAt(rows.payouts[p].status)

\* Payouts of which the row is behind the asset.  An UNKNOWN one over a pending
\* asset is not: the ledger has no such state.
Behind ==
  {p \in DOMAIN rows.payouts :
     /\ rows.payouts[p].status # world.payouts[p].status
     /\ ~(rows.payouts[p].status = "UNKNOWN" /\ world.payouts[p].status = "PENDING")}

\* What the ledger has and no row tells: assets without a row, outcomes, reversals.
Unrecorded ==
  (DOMAIN world.sources \ DOMAIN rows.sources)
  \cup (DOMAIN world.allocations \ DOMAIN rows.allocations)
  \cup (DOMAIN world.people \ DOMAIN rows.people)
  \cup (DOMAIN world.payouts \ DOMAIN rows.payouts)
  \cup {<<"status", p>> : p \in Behind}

\* A registration the ledger took and the table refuses, for its phone.
SharedPhones ==
  {p \in DOMAIN world.people \ DOMAIN rows.people :
     \E q \in DOMAIN rows.people : PhoneOf[q] = PhoneOf[p]}

\* The two books part only by a fault, a call or a decision on its way, or a phone
\* that two people share: each of these leaves at most one thing unrecorded.
BooksPartByFaults ==
  Mode = "fabric" =>
    Cardinality(Unrecorded \ SharedPhones)
      <= faults + Cardinality({c \in Calls : pc[c] = "writing"}) + Cardinality(DOMAIN recording)

\* The counters of a book are the sums of what they count, within what there is to
\* spend, whichever calls and decisions failed half-way, are unknown or reversed.
BalancesMatch(b) ==
  /\ \A s \in DOMAIN b.sources :
       /\ b.sources[s].allocated =
            AllocationAmount * Cardinality({a \in DOMAIN b.allocations : b.allocations[a].source = s})
       /\ b.sources[s].allocated <= SourceAmount
  /\ \A a \in DOMAIN b.allocations :
       LET Of(statuses) == {p \in DOMAIN b.payouts :
                              b.payouts[p].allocation = a /\ b.payouts[p].status \in statuses}
       IN  /\ b.allocations[a].reserved = Cardinality(Of({"PENDING", "UNKNOWN"}))
           /\ b.allocations[a].disbursed = Cardinality(Of({"SETTLED"}))
           /\ Promised(b.allocations[a]) <= AllocationAmount

BothBalancesMatch == Mode = "fabric" => BalancesMatch(rows) /\ BalancesMatch(world)

\* Also between calls that pay in it, a batch is approved by a second operator.
ApprovedByAnother == Batch!ApprovedByAnother

\* Calls and decisions that wait for a connection or a row never wait for each
\* other: with any number of them at work, one of them can go on.
NobodyWaitsForEveryone ==
  (\E c \in Calls : InFlight(c)) \/ DOMAIN recording # {} =>
    \/ \E c \in Calls : ENABLED CallStep(c)
    \/ \E p \in DOMAIN recording : ENABLED RecordOutcome(p)

\* The life of a payout in either book; "none" before the payout is there.
StatusIn(b) ==
  [p \in Calls \cup DOMAIN Seeds.payouts |->
     IF p \in DOMAIN b.payouts THEN b.payouts[p].status ELSE "none"]

RowsLife ==
  INSTANCE PayoutLifecycle
    WITH Disbursements <- Calls \cup DOMAIN Seeds.payouts, status <- StatusIn(rows), MaxPaise <- 1

\* In the table a payout is created once, and then goes along payoutTransitions,
\* also by way of UNKNOWN, whichever handlers meet and whichever of them dies: none
\* is decided twice, and none is reversed that was not paid.
RowsLiveOnce == [][RowsLife!LifecycleNext]_(StatusIn(rows))
-----------------------------------------------------------------------------
(***************************************************************************)
(* What there was before the first call.                                   *)
(***************************************************************************)
Orgs == {OrgOf[u] : u \in Users}

\* The shape of either book, and the references between its tables.
IsBook(b) ==
  /\ b = [sources |-> b.sources, allocations |-> b.allocations,
          people |-> b.people, payouts |-> b.payouts]
  /\ b.sources \in [DOMAIN b.sources -> [owner: Orgs, allocated: Int]]
  /\ b.allocations \in [DOMAIN b.allocations ->
       [source: DOMAIN b.sources, owner: Orgs, place: Places, reserved: Int, disbursed: Int]]
  /\ DOMAIN b.people \subseteq People /\ b.people \in [DOMAIN b.people -> Places]
  /\ b.payouts \in [DOMAIN b.payouts ->
       [allocation: DOMAIN b.allocations, person: People, batch: Batches \cup {None},
        status: {"PENDING", "SETTLED", "FAILED", "UNKNOWN", "REVERSED"}]]

Used(b) == DOMAIN b.sources \cup DOMAIN b.allocations \cup DOMAIN b.payouts

\* The seeds are balanced, and no later id is one of theirs.  In the state both books
\* share no payout is UNKNOWN, which the ledger cannot express.
ASSUME SeedsAssumption ==
  /\ IsBook(Seeds) /\ BalancesMatch(Seeds)
  /\ \A p \in DOMAIN Seeds.payouts : Seeds.payouts[p].status # "UNKNOWN"
  /\ IsFiniteSet(Used(Seeds)) /\ Used(Seeds) \cap Calls = {}

ASSUME BatchSeedsAssumption ==
  /\ BatchSeeds \in [Batches -> Batch!Batch]
  /\ \A b \in Batches : BatchSeeds[b].status # "none" =>
       /\ BatchSeeds[b].createdBy \in Users
       /\ BatchSeeds[b].owner = OrgOf[BatchSeeds[b].createdBy]
       /\ BatchSeeds[b].status \in {"APPROVED", "SUBMITTED"} =>
            /\ BatchSeeds[b].approvedBy \in Users \ {BatchSeeds[b].createdBy}
            /\ OrgOf[BatchSeeds[b].approvedBy] = BatchSeeds[b].owner
=============================================================================
