---------------------------- MODULE PayoutRequests ----------------------------
(***************************************************************************)
(* DisbursementsService.initiate: calls that create payouts of one         *)
(* allocation, repeated by their callers under the same idempotency key.   *)
(* A step is what happens between two awaits that others can observe; the  *)
(* ledger is Fabric, reached through LedgerService.submit.                 *)
(*                                                                         *)
(* A call is the random id of the payout it would create.  Amounts are     *)
(* units; a payout's later life is in PayoutWorker and takes no part here. *)
(***************************************************************************)
EXTENDS Integers, FiniteSets

CONSTANTS
  Calls,            \* the calls of the endpoint, each with its own payout id
  Keys,             \* idempotency keys
  Bodies,           \* request bodies, as request_hash tells them apart
  Capacity,         \* amount_paise of the allocation
  MaxFaults,        \* bound: crashes, failed statements, lost answers
  None

ASSUME IdsAssumption ==
  /\ IsFiniteSet(Keys)
  /\ None \notin Calls \cup Bodies
  /\ Calls \cap {"none", "conflict", "error"} = {}
ASSUME BoundsAssumption == Capacity \in Nat /\ MaxFaults \in Nat

VARIABLES
  requests,         \* PostgreSQL: disbursement_requests, by key
  book,             \* PostgreSQL: the disbursement with a key
  reserved,         \* PostgreSQL: allocations.reserved_paise
  ledger,           \* Fabric: the disbursement with a key
  current,          \* Fabric: endorsed transactions that are still valid
  pc, input,        \* where a call is, and what it was called with
  answer,           \* what its caller got
  faults

database == <<requests, book, reserved>>
fabric   == <<ledger, current>>
control  == <<pc, input, answer>>
vars == <<database, fabric, control, faults>>

NoRequest == [status |-> "none", hash |-> None, response |-> None]

Init ==
  /\ requests = [k \in Keys |-> NoRequest]
  /\ book = [k \in Keys |-> None] /\ reserved = 0
  /\ ledger = [k \in Keys |-> None] /\ current = {}
  /\ pc = [c \in Calls |-> "new"]
  /\ input = [c \in Calls |-> None]
  /\ answer = [c \in Calls |-> "none"]
  /\ faults = 0

Fault == faults < MaxFaults /\ faults' = faults + 1
NoFault == UNCHANGED faults

Goto(c, place) == pc' = [pc EXCEPT ![c] = place]
Answer(c, reply) == Goto(c, "done") /\ answer' = [answer EXCEPT ![c] = reply]

Key(c) == input[c].key
-----------------------------------------------------------------------------
(***************************************************************************)
(* The reservation of the key.                                             *)
(***************************************************************************)
\* Mutant of Reservable: the upsert takes over a request in any state.
ReservableAnyStatus(request, hash) == request = NoRequest \/ request.hash = hash

Reservable(request, hash) ==
  request = NoRequest \/ (request.status = "FAILED" /\ request.hash = hash)

Taken(request, hash) ==
  [status |-> "PROCESSING", hash |-> hash, response |-> request.response]

\* Outside of the try: if its answer is lost, the key stays PROCESSING.
Reserve(c, k, body) ==
  /\ pc[c] = "new"
  /\ input' = [input EXCEPT ![c] = [key |-> k, body |-> body]]
  /\ IF Reservable(requests[k], body)
     THEN /\ requests' = [requests EXCEPT ![k] = Taken(requests[k], body)]
          /\ \/ NoFault /\ Goto(c, "reserved") /\ UNCHANGED answer
             \/ Fault /\ Answer(c, "error")
     ELSE NoFault /\ Goto(c, "refused") /\ UNCHANGED <<requests, answer>>
  /\ UNCHANGED <<book, reserved, fabric>>

\* Mutant of SameRequest: the hash of the first request is not compared.
AnyRequest(request, hash) == TRUE

SameRequest(request, hash) == request.hash = hash

Reply(request) == IF request.status = "COMPLETED" THEN request.response ELSE "conflict"

ReadExisting(c) ==
  /\ pc[c] = "refused"
  /\ LET request == requests[Key(c)]
     IN  Answer(c, IF SameRequest(request, input[c].body) THEN Reply(request) ELSE "conflict")
  /\ NoFault
  /\ UNCHANGED <<database, fabric, input>>
-----------------------------------------------------------------------------
(***************************************************************************)
(* The transaction that creates the payout.  It holds the allocation row   *)
(* from its first statement to its end; the ledger is called in between.   *)
(***************************************************************************)
Holding == {"endorsing", "ordering", "recording"}

AllocationLocked == \E c \in Calls : pc[c] \in Holding

\* A transaction that throws is rolled back; the catch of initiate follows.
Abort(c) == Goto(c, "failing") /\ UNCHANGED <<input, answer>>

LockAllocation(c) ==
  /\ pc[c] = "reserved"
  /\ ~AllocationLocked
  /\ IF reserved + 1 > Capacity THEN Abort(c) ELSE Goto(c, "endorsing") /\ UNCHANGED <<input, answer>>
  /\ NoFault
  /\ UNCHANGED <<database, fabric>>

OnLedger == Cardinality({k \in Keys : ledger[k] # None})

\* Mutant of Covered: the new payout itself is left out of the comparison.
CoveredBefore == OnLedger <= Capacity

Covered == OnLedger + 1 <= Capacity

\* InitiateDisbursement against the committed state: LEDGER_DUPLICATE, balance.
Endorse(c) ==
  /\ pc[c] = "endorsing"
  /\ IF ledger[Key(c)] = None /\ Covered
     THEN Goto(c, "ordering") /\ current' = current \cup {c} /\ UNCHANGED <<input, answer>>
     ELSE Abort(c) /\ UNCHANGED current
  /\ NoFault
  /\ UNCHANGED <<database, ledger>>

\* Each initiation writes the allocation: a commit outdates all endorsements.
Commit(c) ==
  /\ ledger' = [ledger EXCEPT ![Key(c)] = c]
  /\ current' = {}

CommitOnLedger(c) ==
  /\ pc[c] = "ordering"
  /\ IF c \in current
     THEN Commit(c) /\ Goto(c, "recording") /\ UNCHANGED <<input, answer>>
     ELSE Abort(c) /\ UNCHANGED fabric
  /\ NoFault
  /\ UNCHANGED database

\* Mutant of CommitStatusLost: a missed deadline is taken for success.
CommitStatusAssumed(c) ==
  /\ pc[c] = "ordering"
  /\ Fault
  /\ Goto(c, "recording")
  /\ UNCHANGED <<database, fabric, input, answer>>

\* A deadline passes first: the client gives up, the transaction goes on.
CommitStatusLost(c) ==
  /\ pc[c] = "ordering"
  /\ Fault
  /\ Abort(c)
  /\ UNCHANGED <<database, fabric>>

OrphanCommits(c) ==
  /\ c \in current /\ pc[c] # "ordering"
  /\ Commit(c)
  /\ NoFault
  /\ UNCHANGED <<database, control>>

Completed(request, c) ==
  [status |-> "COMPLETED", hash |-> request.hash, response |-> c]

\* Everything is written by one COMMIT, whose acknowledgement may be lost.
Record(c) ==
  /\ pc[c] = "recording"
  /\ book[Key(c)] = None
  /\ book' = [book EXCEPT ![Key(c)] = c]
  /\ reserved' = reserved + 1
  /\ requests' = [requests EXCEPT ![Key(c)] = Completed(requests[Key(c)], c)]
  /\ \/ NoFault /\ Answer(c, c) /\ UNCHANGED input
     \/ Fault /\ Abort(c)
  /\ UNCHANGED fabric

RollBack(c) ==
  /\ pc[c] \in Holding \ {"ordering"}
  /\ Fault
  /\ Abort(c)
  /\ UNCHANGED <<database, fabric>>

\* Mutant of Failed: the request is left as the call has found it.
FailedQuietly(request) == request

Failed(request) ==
  [status |-> "FAILED", hash |-> request.hash, response |-> request.response]

\* The catch: whatever has happened to the request, it is FAILED now.
Fail(c) ==
  /\ pc[c] = "failing"
  /\ requests' = [requests EXCEPT ![Key(c)] = Failed(requests[Key(c)])]
  /\ Answer(c, "error")
  /\ NoFault
  /\ UNCHANGED <<book, reserved, fabric, input>>

FailLost(c) ==
  /\ pc[c] = "failing"
  /\ Fault
  /\ Answer(c, "error")
  /\ UNCHANGED <<database, fabric, input>>

InFlight(c) == pc[c] \notin {"new", "done"}

\* A process ends, and all the calls it was answering.
Crash(calls) ==
  /\ calls # {} /\ \A c \in calls : InFlight(c)
  /\ Fault
  /\ pc' = [c \in Calls |-> IF c \in calls THEN "done" ELSE pc[c]]
  /\ answer' = [c \in Calls |-> IF c \in calls THEN "error" ELSE answer[c]]
  /\ UNCHANGED <<database, fabric, input>>
-----------------------------------------------------------------------------
CallStep(c) ==
  \/ ReadExisting(c) \/ LockAllocation(c) \/ Endorse(c)
  \/ CommitOnLedger(c) \/ Record(c) \/ Fail(c)

CallFault(c) == CommitStatusLost(c) \/ RollBack(c) \/ FailLost(c)

Next ==
  \/ \E c \in Calls :
       \/ \E k \in Keys, body \in Bodies : Reserve(c, k, body)
       \/ CallStep(c) \/ CallFault(c) \/ OrphanCommits(c)
  \/ \E calls \in SUBSET Calls : Crash(calls)

Spec == Init /\ [][Next]_vars
-----------------------------------------------------------------------------
(***************************************************************************)
(* Properties.                                                             *)
(***************************************************************************)
Request ==
  [status: {"none", "PROCESSING", "COMPLETED", "FAILED"},
   hash: Bodies \cup {None}, response: Calls \cup {None}]

TypeOK ==
  /\ requests \in [Keys -> Request]
  /\ book \in [Keys -> Calls \cup {None}]
  /\ reserved \in Nat
  /\ ledger \in [Keys -> Calls \cup {None}]
  /\ current \subseteq Calls
  /\ pc \in [Calls -> {"new", "reserved", "refused", "failing", "done"} \cup Holding]
  /\ input \in [Calls -> [key: Keys, body: Bodies] \cup {None}]
  /\ answer \in [Calls -> Calls \cup {"none", "conflict", "error"}]
  /\ faults \in 0..MaxFaults

\* A call that may still write the request of its key.
Working == Holding \cup {"reserved", "failing"}

\* "disbursement_requests rejects concurrent or mismatched reuse of an
\* idempotency key": no two calls are ever at work on one key, however the
\* calls before them ended.
OneCallPerKey ==
  \A c, d \in Calls :
    /\ pc[c] \in Working /\ pc[d] \in Working
    /\ Key(c) = Key(d)
    => c = d

\* Whoever is told of a payout is told of the one that is recorded under the
\* key, and it was created from the same request as the caller's.
AnswersMatchBook ==
  \A c \in Calls : answer[c] \in Calls =>
    book[Key(c)] = answer[c] /\ input[answer[c]].body = input[c].body

\* reserved_paise accounts for every recorded payout once, and neither book promises
\* more than the allocation has: not when calls under different keys meet over the last
\* of it, and not when the ledger has a payout, of a lost commit status, that the table
\* does not count.
ReservationsMatch ==
  /\ reserved = Cardinality({k \in Keys : book[k] # None})
  /\ reserved <= Capacity
  /\ OnLedger <= Capacity

\* The keys that are PROCESSING and that no call works on: the upsert takes over
\* no such request, so whoever uses the key again is refused.
Stranded ==
  {k \in Keys : /\ requests[k].status = "PROCESSING"
                /\ \A c \in Calls : pc[c] \in Working => Key(c) # k}

\* What strands a key is a fault alone (a crash, a lost answer to the upsert or
\* to the UPDATE of the catch): every other way out of initiate settles the
\* request.  And nothing ever frees a key that is stranded.
OnlyFaultsStrand ==
  [][Stranded \subseteq Stranded' /\ (Stranded' = Stranded \/ faults' > faults)]_vars

Intake == INSTANCE PayoutIntake WITH Payouts <- Calls

\* Retries, crashes and lost answers never create a second payout for a key, in
\* either book, nor one in the database that the ledger does not have.
ImplementsIntake == Intake!IntakeSpec
=============================================================================
