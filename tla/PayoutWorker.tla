---------------------------- MODULE PayoutWorker ----------------------------
(***************************************************************************)
(* The payout queue of the API: worker.ts and payouts.service.ts over      *)
(* PostgreSQL, the payout provider and the Fabric ledger (LEDGER_MODE =    *)
(* fabric).  A step is what one process does between two awaits, or one    *)
(* database transaction that waits for nothing but row locks.              *)
(*                                                                         *)
(* Time is abstract: run_after comes due, a lease expires and a deadline   *)
(* passes whenever they like.  Every payout is one unit of one allocation. *)
(***************************************************************************)
EXTENDS Naturals, FiniteSets

CONSTANTS
  Workers,          \* API processes, each with one PayoutWorker
  Ticks,            \* runs of tick(); setInterval starts one before the last ended
  Operators,        \* calls of the operator endpoints
  ProcessOf,        \* the API process of a tick or of a call
  Disbursements,
  Outcomes,         \* the outcomes the simulated provider may be asked for
  MaxAttempts,      \* WORKER_MAX_ATTEMPTS
  BatchSize,        \* config.batchSize
  MaxFaults,        \* bound: crashes, failed calls and lost answers
  None

Procs == Ticks \cup Operators

ASSUME ProcessAssumption ==
  /\ ProcessOf \in [Procs -> Workers]
  /\ Ticks \cap Operators = {}
  /\ Procs \cap Disbursements = {}
ASSUME OutcomesAssumption == Outcomes \subseteq {"SETTLED", "FAILED", "UNKNOWN"}
ASSUME BoundsAssumption ==
  MaxAttempts \in Nat \ {0} /\ BatchSize \in Nat \ {0} /\ MaxFaults \in Nat
ASSUME NoneAssumption ==
  /\ None \notin Workers
  /\ None \notin [job: Disbursements, attempts: Nat]
ASSUME FiniteAssumption == IsFiniteSet(Disbursements)

VARIABLES
  \* PostgreSQL, by disbursement (payout_jobs.disbursement_id is unique)
  db,               \* disbursements.status
  allocation,       \* reserved_paise and disbursed_paise of the allocation
  attempts,         \* number of rows in payout_attempts
  job,              \* the row of payout_jobs
  letter,           \* the row of dead_letter_jobs
  \* Fabric
  ledger,           \* status of the disbursement asset
  current,          \* transactions being ordered, of a process or (its client
                    \* having given up) of a disbursement, that are still valid
  \* the payout provider
  submissions,      \* how often it was asked to pay
  knower,           \* the process that has its last answer in memory
  \* the API processes
  phase,            \* of each process: running, stopping, released
  pc, cur, batch,   \* of each tick and call: where it is, on which job, with what left
  faults

tables   == <<db, allocation, attempts, job, letter>>
chain    == <<ledger, current>>
provider == <<submissions, knower>>
control  == <<pc, cur, batch>>
vars     == <<tables, chain, provider, phase, control, faults>>

Job ==
  [outcome: {"SETTLED", "FAILED", "UNKNOWN"},
   status: {"QUEUED", "LEASED", "DEAD_LETTERED", "COMPLETED"},
   attempts: Nat,
   completed: BOOLEAN,          \* completed_at is set
   leasedBy: Workers \cup {None},
   expired: BOOLEAN]            \* leased_until < now()

\* The copy of a job row that leaseJobs returned.
Leased == [job: Disbursements, attempts: Nat]

\* Every payout was initiated: PENDING in both books, reserved, its job queued.
Init ==
  /\ db = [d \in Disbursements |-> "PENDING"]
  /\ allocation = [reserved |-> Cardinality(Disbursements), disbursed |-> 0]
  /\ attempts = [d \in Disbursements |-> 0]
  /\ job \in [Disbursements ->
       {[outcome |-> o, status |-> "QUEUED", attempts |-> 0, completed |-> FALSE,
         leasedBy |-> None, expired |-> FALSE] : o \in Outcomes}]
  /\ letter = [d \in Disbursements |-> "none"]
  /\ ledger = [d \in Disbursements |-> "PENDING"]
  /\ current = {}
  /\ submissions = [d \in Disbursements |-> 0]
  /\ knower = [d \in Disbursements |-> None]
  /\ phase = [w \in Workers |-> "running"]
  /\ pc = [p \in Procs |-> "idle"]
  /\ cur = [p \in Procs |-> None]
  /\ batch = [t \in Ticks |-> {}]
  /\ faults = 0
-----------------------------------------------------------------------------
Fault == faults < MaxFaults /\ faults' = faults + 1
NoFault == UNCHANGED faults

Goto(p, label) == pc' = [pc EXCEPT ![p] = label]

Finalizing == {"locked", "endorsing", "ordering", "recording"}

\* Mutant of Locked: SELECT without FOR UPDATE.
NeverLocked(d) == FALSE

\* finalizeJob holds the row lock of its job from its first SELECT to its end,
Locked(d) == \E t \in Ticks : pc[t] \in Finalizing \cup {"waiting"} /\ cur[t].job = d

\* and that of the allocation from its second.
AllocationLocked == \E t \in Ticks : pc[t] \in Finalizing

\* The for loop of processBatch goes on with the rest of the batch.
NextJob(t, leased) ==
  /\ batch' = [batch EXCEPT ![t] = @ \ {leased}]
  /\ cur' = [cur EXCEPT ![t] = None]
  /\ Goto(t, IF batch[t] = {leased} THEN "idle" ELSE "working")

\* A failed job is handled by its tick; a failed call is answered with an error.
Abort(p) ==
  IF p \in Ticks
  THEN Goto(p, "failed") /\ UNCHANGED <<cur, batch>>
  ELSE Goto(p, "idle") /\ cur' = [cur EXCEPT ![p] = None] /\ UNCHANGED batch

\* Mutant of Requeued: a job that is queued again is open again.
RequeuedOpen(row) ==
  [row EXCEPT !.status = "QUEUED", !.leasedBy = None, !.expired = FALSE, !.completed = FALSE]

Requeued(row) == [row EXCEPT !.status = "QUEUED", !.leasedBy = None, !.expired = FALSE]

\* What the provider decides in the end; UNKNOWN is reconciled to SETTLED.
Final(d) == IF job[d].outcome = "UNKNOWN" THEN "SETTLED" ELSE job[d].outcome
-----------------------------------------------------------------------------
(***************************************************************************)
(* The worker.                                                             *)
(***************************************************************************)
\* Mutant of ExpiredLease: expired leases are not cleaned up.
NoExpiredLease(d) == FALSE

ExpiredLease(d) == job[d].status = "LEASED" /\ job[d].expired

cleanupExpiredLeases(t) ==
  /\ pc[t] = "idle"
  /\ phase[ProcessOf[t]] = "running"
  /\ \A d \in Disbursements : ExpiredLease(d) => ~Locked(d)
  /\ job' = [d \in Disbursements |-> IF ExpiredLease(d) THEN Requeued(job[d]) ELSE job[d]]
  /\ Goto(t, "leasing")
  /\ NoFault
  /\ UNCHANGED <<db, allocation, attempts, letter, chain, provider, phase, cur, batch>>

\* Mutant of Leasable: jobs of any status are due.
LeasableAnyStatus(d) == ~job[d].completed /\ job[d].attempts < MaxAttempts /\ ~Locked(d)

Leasable(d) ==
  /\ ~job[d].completed
  /\ job[d].status = "QUEUED"
  /\ job[d].attempts < MaxAttempts
  /\ ~Locked(d)

\* `leased' are the due jobs; none when another worker has the advisory lock.
leaseJobs(t, leased) ==
  /\ pc[t] = "leasing"
  /\ \A d \in leased : Leasable(d)
  /\ Cardinality(leased) <= BatchSize
  /\ job' = [d \in Disbursements |->
       IF d \in leased
       THEN [job[d] EXCEPT !.status = "LEASED", !.leasedBy = ProcessOf[t], !.expired = FALSE]
       ELSE job[d]]
  /\ batch' = [batch EXCEPT ![t] = {[job |-> d, attempts |-> job[d].attempts] : d \in leased}]
  /\ Goto(t, IF leased = {} THEN "idle" ELSE "working")
  /\ NoFault
  /\ UNCHANGED <<db, allocation, attempts, letter, chain, provider, phase, cur>>

scheduleRetry(leased) ==
  /\ job' = [job EXCEPT ![leased.job] = [Requeued(@) EXCEPT !.attempts = leased.attempts + 1]]
  /\ UNCHANGED letter

DeadLettered(row) ==
  [Requeued(row) EXCEPT !.status = "DEAD_LETTERED", !.attempts = @ + 1]

\* ON CONFLICT keeps the resolution of an earlier dead letter of the job.
moveToDeadLetter(leased) ==
  /\ job' = [job EXCEPT ![leased.job] = DeadLettered(@)]
  /\ letter' = [letter EXCEPT ![leased.job] = IF @ = "none" THEN "open" ELSE @]

\* Mutant of Exhausted: one attempt too many.
ExhaustedAfter(leased) == leased.attempts + 1 > MaxAttempts

Exhausted(leased) == leased.attempts + 1 >= MaxAttempts

handleJobFailure(t) ==
  /\ pc[t] = "failed"
  /\ ~Locked(cur[t].job)
  /\ IF Exhausted(cur[t])
     THEN moveToDeadLetter(cur[t])
     ELSE scheduleRetry(cur[t])
  /\ NextJob(t, cur[t])
  /\ NoFault
  /\ UNCHANGED <<db, allocation, attempts, chain, provider, phase>>

\* handleJobFailure throws out of the loop: the rest of the batch stays leased.
AbandonBatch(t) ==
  /\ pc[t] = "failed"
  /\ Fault
  /\ Goto(t, "idle")
  /\ cur' = [cur EXCEPT ![t] = None]
  /\ batch' = [batch EXCEPT ![t] = {}]
  /\ UNCHANGED <<tables, chain, provider, phase>>
-----------------------------------------------------------------------------
(***************************************************************************)
(* finalizeJob, one transaction with two calls to the outside in it.       *)
(***************************************************************************)
AlreadyProcessed(d) == job[d].completed

LockJob(t, leased) ==
  /\ pc[t] = "working"
  /\ leased \in batch[t]
  /\ ~Locked(leased.job)
  /\ IF AlreadyProcessed(leased.job)
     THEN NextJob(t, leased)
     ELSE /\ Goto(t, "waiting")
          /\ cur' = [cur EXCEPT ![t] = leased]
          /\ UNCHANGED batch
  /\ NoFault
  /\ UNCHANGED <<tables, chain, provider, phase>>

LockPayout(t) ==
  /\ pc[t] = "waiting"
  /\ ~AllocationLocked
  /\ IF db[cur[t].job] # "PENDING"
     THEN NextJob(t, cur[t])
     ELSE Goto(t, "locked") /\ UNCHANGED <<cur, batch>>
  /\ NoFault
  /\ UNCHANGED <<tables, chain, provider, phase>>

SubmitPayout(t) ==
  /\ pc[t] = "locked"
  /\ LET d == cur[t].job
     IN  /\ submissions' = [submissions EXCEPT ![d] = @ + 1]
         /\ knower' = [knower EXCEPT ![d] = ProcessOf[t]]
         /\ Goto(t, IF job[d].outcome = "UNKNOWN" THEN "recording" ELSE "endorsing")
  /\ NoFault
  /\ UNCHANGED <<tables, chain, phase, cur, batch>>

\* The provider refuses the call (as the simulated one does in production).
PayoutRefused(t) ==
  /\ pc[t] = "locked"
  /\ Fault
  /\ Abort(t)
  /\ UNCHANGED <<tables, chain, provider, phase>>

Outcome(status) == IF status = "SETTLED" THEN 1 ELSE 0

\* Mutant of Settle: the reservation is not released.
SettleUnreleased(row, status) ==
  [reserved |-> row.reserved, disbursed |-> row.disbursed + Outcome(status)]

Settle(row, status) ==
  [reserved |-> row.reserved - 1, disbursed |-> row.disbursed + Outcome(status)]

Balance(status) == IF status = "UNKNOWN" THEN allocation ELSE Settle(allocation, status)

Completed(row) ==
  [row EXCEPT !.completed = TRUE, !.attempts = @ + 1, !.status = "COMPLETED"]

\* The transaction commits; when its acknowledgement is lost, transaction()
\* throws although everything was written.
CommitPayout(t) ==
  /\ pc[t] = "recording"
  /\ LET d == cur[t].job
         status == job[d].outcome
     IN  /\ db' = [db EXCEPT ![d] = status]
         /\ allocation' = Balance(status)
         /\ attempts' = [attempts EXCEPT ![d] = @ + 1]
         /\ job' = [job EXCEPT ![d] = Completed(@)]
  /\ \/ NoFault /\ NextJob(t, cur[t])
     \/ Fault /\ Abort(t)
  /\ UNCHANGED <<letter, chain, provider, phase>>

\* The transaction fails and is rolled back, the attempt row with it.
RollBack(p) ==
  /\ pc[p] = "recording"
  /\ Fault
  /\ Abort(p)
  /\ UNCHANGED <<tables, chain, provider, phase>>
-----------------------------------------------------------------------------
(***************************************************************************)
(* ledger.submit: endorse against the committed state, order, validate,    *)
(* wait for the status.  Every finalization reads and writes the one       *)
(* allocation, so each commit invalidates all that were endorsed before.   *)
(***************************************************************************)
\* Mutant of Endorse: an endorsed transaction is taken for a committed one.
EndorseOnly(p) ==
  /\ pc[p] = "endorsing"
  /\ IF ledger[cur[p].job] = "PENDING"
     THEN Goto(p, "recording") /\ UNCHANGED <<cur, batch>>
     ELSE Abort(p)
  /\ NoFault
  /\ UNCHANGED <<tables, chain, provider, phase>>

Endorse(p) ==
  /\ pc[p] = "endorsing"
  /\ IF ledger[cur[p].job] = "PENDING"
     THEN Goto(p, "ordering") /\ current' = current \cup {p} /\ UNCHANGED <<cur, batch>>
     ELSE Abort(p) /\ UNCHANGED current
  /\ NoFault
  /\ UNCHANGED <<tables, ledger, provider, phase>>

\* The endorsement fails for a reason of its own; nothing was ordered.
EndorseFails(p) ==
  /\ pc[p] = "endorsing"
  /\ Fault
  /\ Abort(p)
  /\ UNCHANGED <<tables, chain, provider, phase>>

Commit(d) ==
  /\ ledger' = [ledger EXCEPT ![d] = Final(d)]
  /\ current' = {}

CommitOnLedger(p) ==
  /\ pc[p] = "ordering"
  /\ IF p \in current
     THEN Commit(cur[p].job) /\ Goto(p, "recording") /\ UNCHANGED <<cur, batch>>
     ELSE Abort(p) /\ UNCHANGED chain
  /\ NoFault
  /\ UNCHANGED <<tables, provider, phase>>

\* The transactions of processes that no longer wait for them.
Orphaned(ps) == (current \ ps) \cup {cur[p].job : p \in ps \cap current}

\* A deadline passes first: the client gives up, the transaction goes on.
CommitStatusLost(p) ==
  /\ pc[p] = "ordering"
  /\ Fault
  /\ current' = Orphaned({p})
  /\ Abort(p)
  /\ UNCHANGED <<tables, ledger, provider, phase>>

OrphanCommits(d) ==
  /\ d \in current
  /\ Commit(d)
  /\ NoFault
  /\ UNCHANGED <<tables, provider, phase, control>>
-----------------------------------------------------------------------------
(***************************************************************************)
(* The operator endpoints.                                                 *)
(***************************************************************************)
\* retryDeadLetter and resolveDeadLetter read the dead letter without a lock.
ReadDeadLetter(o, d, doing) ==
  /\ pc[o] = "idle"
  /\ phase[ProcessOf[o]] = "running"
  /\ letter[d] = "open"
  /\ cur' = [cur EXCEPT ![o] = [job |-> d, attempts |-> 0]]
  /\ Goto(o, doing)
  /\ NoFault
  /\ UNCHANGED <<tables, chain, provider, phase, batch>>

CloseDeadLetter(o, d, resolution) ==
  /\ letter' = [letter EXCEPT ![d] = resolution]
  /\ cur' = [cur EXCEPT ![o] = None]
  /\ Goto(o, "idle")
  /\ NoFault
  /\ UNCHANGED <<db, allocation, attempts, chain, provider, phase, batch>>

retryDeadLetter(o) ==
  /\ pc[o] = "retrying"
  /\ LET d == cur[o].job
     IN  /\ ~Locked(d)
         /\ job' = [job EXCEPT ![d] = [Requeued(@) EXCEPT !.attempts = 0]]
         /\ CloseDeadLetter(o, d, "retried")

resolveDeadLetter(o) ==
  /\ pc[o] = "resolving"
  /\ LET d == cur[o].job
     IN  /\ ~Locked(d)
         /\ job' = [job EXCEPT ![d] =
              [Requeued(@) EXCEPT !.status = "COMPLETED", !.completed = TRUE]]
         /\ CloseDeadLetter(o, d, "resolved")

\* The provider knows only the references this process submitted.
reconcile(o, d) ==
  /\ pc[o] = "idle"
  /\ phase[ProcessOf[o]] = "running"
  /\ db[d] = "UNKNOWN"
  /\ attempts[d] > 0
  /\ knower[d] = ProcessOf[o]
  /\ cur' = [cur EXCEPT ![o] = [job |-> d, attempts |-> 0]]
  /\ Goto(o, "endorsing")
  /\ NoFault
  /\ UNCHANGED <<tables, chain, provider, phase, batch>>

CommitReconciliation(o) ==
  /\ pc[o] = "recording"
  /\ ~AllocationLocked
  /\ LET d == cur[o].job
     IN  /\ db' = [db EXCEPT ![d] = Final(d)]
         /\ allocation' = Settle(allocation, Final(d))
  /\ cur' = [cur EXCEPT ![o] = None]
  /\ Goto(o, "idle")
  /\ NoFault
  /\ UNCHANGED <<attempts, job, letter, chain, provider, phase, batch>>
-----------------------------------------------------------------------------
(***************************************************************************)
(* Time and processes.                                                     *)
(***************************************************************************)
ExpireLease(d) ==
  /\ job[d].status = "LEASED" /\ ~job[d].expired
  /\ job' = [job EXCEPT ![d].expired = TRUE]
  /\ NoFault
  /\ UNCHANGED <<db, allocation, attempts, letter, chain, provider, phase, control>>

\* onApplicationShutdown: no more ticks; those that run are not waited for.
Shutdown(w) ==
  /\ phase[w] = "running"
  /\ Fault
  /\ phase' = [phase EXCEPT ![w] = "stopping"]
  /\ UNCHANGED <<tables, chain, provider, control>>

LeasedBy(d, w) == job[d].status = "LEASED" /\ job[d].leasedBy = w

releaseLeases(w) ==
  /\ phase[w] = "stopping"
  /\ \A d \in Disbursements : LeasedBy(d, w) => ~Locked(d)
  /\ job' = [d \in Disbursements |-> IF LeasedBy(d, w) THEN Requeued(job[d]) ELSE job[d]]
  /\ phase' = [phase EXCEPT ![w] = "released"]
  /\ NoFault
  /\ UNCHANGED <<db, allocation, attempts, letter, chain, provider, control>>

\* The process ends and its successor starts under a new workerId: open
\* transactions are rolled back, its memory and its claim to its leases are gone.
Restart(w) ==
  /\ job' = [d \in Disbursements |->
       IF LeasedBy(d, w) THEN [job[d] EXCEPT !.leasedBy = None] ELSE job[d]]
  /\ knower' = [d \in Disbursements |-> IF knower[d] = w THEN None ELSE knower[d]]
  /\ phase' = [phase EXCEPT ![w] = "running"]
  /\ current' = Orphaned({p \in Procs : ProcessOf[p] = w})
  /\ pc'    = [p \in Procs |-> IF ProcessOf[p] = w THEN "idle" ELSE pc[p]]
  /\ cur'   = [p \in Procs |-> IF ProcessOf[p] = w THEN None ELSE cur[p]]
  /\ batch' = [t \in Ticks |-> IF ProcessOf[t] = w THEN {} ELSE batch[t]]
  /\ UNCHANGED <<db, allocation, attempts, letter, ledger, submissions>>

Crash(w) == phase[w] = "running" /\ Fault /\ Restart(w)

Exit(w) == phase[w] # "running" /\ NoFault /\ Restart(w)
-----------------------------------------------------------------------------
LeaseSome(t) == \E leased \in SUBSET Disbursements \ {{}} : leaseJobs(t, leased)

Ledger(p) == Endorse(p) \/ CommitOnLedger(p)

TickStep(t) ==
  \/ cleanupExpiredLeases(t)
  \/ leaseJobs(t, {})
  \/ LeaseSome(t)
  \/ \E leased \in batch[t] : LockJob(t, leased)
  \/ LockPayout(t)
  \/ SubmitPayout(t)
  \/ Ledger(t)
  \/ CommitPayout(t)
  \/ handleJobFailure(t)

TickFault(t) == PayoutRefused(t) \/ AbandonBatch(t)

CallStep(o) ==
  \/ retryDeadLetter(o)
  \/ resolveDeadLetter(o)
  \/ Ledger(o)
  \/ CommitReconciliation(o)

CallStart(o) ==
  \E d \in Disbursements :
    \/ \E doing \in {"retrying", "resolving"} : ReadDeadLetter(o, d, doing)
    \/ reconcile(o, d)

ProcFault(p) == EndorseFails(p) \/ CommitStatusLost(p) \/ RollBack(p)

Next ==
  \/ \E t \in Ticks : TickStep(t) \/ TickFault(t)
  \/ \E o \in Operators : CallStep(o) \/ CallStart(o)
  \/ \E p \in Procs : ProcFault(p)
  \/ \E d \in Disbursements : ExpireLease(d) \/ OrphanCommits(d)
  \/ \E w \in Workers : Shutdown(w) \/ releaseLeases(w) \/ Crash(w) \/ Exit(w)

\* A process goes on with what it does, a lease held by nobody expires, jobs
\* come due, a stopped process is replaced.  Nobody has to call an endpoint.
Fairness ==
  /\ \A t \in Ticks : WF_vars(TickStep(t)) /\ SF_vars(LeaseSome(t))
  /\ \A o \in Operators : WF_vars(CallStep(o))
  /\ \A d \in Disbursements : WF_vars(ExpireLease(d))
  /\ \A w \in Workers : WF_vars(Exit(w))

Spec == Init /\ [][Next]_vars

FairSpec == Spec /\ Fairness
-----------------------------------------------------------------------------
(***************************************************************************)
(* Properties.                                                             *)
(***************************************************************************)
TypeOK ==
  /\ db \in [Disbursements -> {"PENDING", "SETTLED", "FAILED", "UNKNOWN"}]
  /\ allocation \in [reserved: Nat, disbursed: Nat]
  /\ attempts \in [Disbursements -> Nat]
  /\ job \in [Disbursements -> Job]
  /\ letter \in [Disbursements -> {"none", "open", "retried", "resolved"}]
  /\ ledger \in [Disbursements -> {"PENDING", "SETTLED", "FAILED"}]
  /\ current \subseteq Procs \cup Disbursements
  /\ submissions \in [Disbursements -> Nat]
  /\ knower \in [Disbursements -> Workers \cup {None}]
  /\ phase \in [Workers -> {"running", "stopping", "released"}]
  /\ pc \in [Procs -> {"idle", "leasing", "working", "waiting", "failed", "retrying",
                       "resolving"} \cup Finalizing]
  /\ cur \in [Procs -> Leased \cup {None}]
  /\ batch \in [Ticks -> SUBSET Leased]
  /\ faults \in 0..MaxFaults

Books == INSTANCE PayoutBooks

\* However often a payout is leased, retried, given up and reconciled, and
\* whatever answers are lost: the ledger decides once, and the disbursements
\* table only ever takes over what the ledger has decided.
ImplementsBooks == Books!BooksSpec

Having(statuses) == Cardinality({d \in Disbursements : db[d] \in statuses})

\* reserved_paise and disbursed_paise account for each payout exactly once; an
\* UNKNOWN payout keeps its reservation (BACKEND_CONTRACTS.md).
BalancesMatch ==
  /\ allocation.reserved  = Having({"PENDING", "UNKNOWN"})
  /\ allocation.disbursed = Having({"SETTLED"})

\* A payout that has an outcome has one recorded attempt, and its job is closed: no
\* worker can lease it again and leave it leased (finalizeJob returns early without
\* closing it).  A job closed without an outcome was closed by an operator.
JobsMatchOutcomes ==
  \A d \in Disbursements :
    IF db[d] = "PENDING"
    THEN /\ attempts[d] = 0
         /\ job[d].completed => letter[d] \in {"retried", "resolved"}
    ELSE attempts[d] = 1 /\ job[d].completed

\* Nor does such a payout change any more, whoever still holds an old copy of
\* its job: `Already processed' in finalizeJob is checked under the row lock.
ClosedJobsStayClosed ==
  [][\A d \in Disbursements :
       job[d].completed => job'[d].completed /\ (db[d] = "PENDING" => db'[d] = "PENDING")]_vars

\* No job is left without a place: while it is open, either the workers may still lease
\* it or it has a dead letter, although ticks write the counter from copies of the row
\* they leased long ago.  (Whether the endpoints still take the dead letter is another
\* matter: DeadLettersReviewable.)
NoJobStranded ==
  \A d \in Disbursements : ~job[d].completed =>
    IF job[d].status = "DEAD_LETTERED"
    THEN letter[d] # "none"
    ELSE job[d].status \in {"QUEUED", "LEASED"} /\ job[d].attempts < MaxAttempts

\* "Jobs exceeding the maximum attempt limit are moved to dead-letter state for manual
\* review and resolution" (BACKEND_CONTRACTS.md:75): the endpoints accept the dead letter
\* of every job that is given up.  The code does not: the upsert keeps the resolution of
\* an earlier time, and both endpoints refuse a dead letter that has one.
DeadLettersReviewable ==
  \A d \in Disbursements :
    ~job[d].completed /\ job[d].status = "DEAD_LETTERED" => letter[d] = "open"

\* Every job ends: closed or on an operator's desk.  Leases of crashed or
\* stopped workers expire, retries are used up.
EveryJobEnds ==
  \A d \in Disbursements : <>[](job[d].completed \/ job[d].status = "DEAD_LETTERED")
=============================================================================
