-------------------------- MODULE PayoutWorkerProofs --------------------------
(***************************************************************************)
(* Theorems about PayoutWorker for every number of processes, ticks,       *)
(* operators and payouts, every batch size and any number of attempts and  *)
(* faults.                                                                 *)
(***************************************************************************)
EXTENDS PayoutWorker, FiniteSetTheorems, TLAPS

(***************************************************************************)
(* Types.                                                                  *)
(***************************************************************************)
Statuses == {"PENDING", "SETTLED", "FAILED", "UNKNOWN"}
Reviews == {"none", "open", "retried", "resolved"}
Phases == {"running", "stopping", "released"}
Places ==
  {"idle", "leasing", "working", "waiting", "failed", "retrying", "resolving"} \cup Finalizing

\* Where a tick or a call has a job.
NeedsJob == {"waiting", "failed", "retrying", "resolving"} \cup Finalizing

ControlOK ==
  /\ pc \in [Procs -> Places] /\ cur \in [Procs -> Leased \cup {None}]
  /\ batch \in [Ticks -> SUBSET Leased]
  /\ \A p \in Procs : pc[p] \in NeedsJob => cur[p] \in Leased

JobsOK ==
  /\ db \in [Disbursements -> Statuses] /\ attempts \in [Disbursements -> Nat]
  /\ job \in [Disbursements -> Job] /\ letter \in [Disbursements -> Reviews]

RestOK ==
  /\ ledger \in [Disbursements -> {"PENDING", "SETTLED", "FAILED"}]
  /\ current \subseteq Procs \cup Disbursements
  /\ submissions \in [Disbursements -> Nat]
  /\ knower \in [Disbursements -> Workers \cup {None}]
  /\ phase \in [Workers -> Phases]
  /\ faults \in 0..MaxFaults

Types == ControlOK /\ JobsOK /\ RestOK

LEMMA TypesInit == Init => Types
<1> SUFFICES ASSUME Init PROVE Types
  OBVIOUS
<1>1. ControlOK
  BY DEF Init, ControlOK, Places, NeedsJob, Finalizing
<1>2. JobsOK
  <2>1. \A o \in Outcomes :
          [outcome |-> o, status |-> "QUEUED", attempts |-> 0, completed |-> FALSE,
           leasedBy |-> None, expired |-> FALSE] \in Job
    BY OutcomesAssumption DEF Job
  <2>2. job \in [Disbursements -> Job]
    BY <2>1 DEF Init
  <2> QED
    BY <2>2 DEF Init, JobsOK, Statuses, Reviews
<1>3. RestOK
  BY BoundsAssumption DEF Init, RestOK, Phases
<1> QED
  BY <1>1, <1>2, <1>3 DEF Types

\* What a step of one tick or call does to its own place and to its batch.
MovesTo(p, place) ==
  /\ pc' = [pc EXCEPT ![p] = place] /\ place \in Places
  /\ cur' = cur \/ \E x \in Leased \cup {None} : cur' = [cur EXCEPT ![p] = x]
  /\ place \in NeedsJob => cur'[p] \in Leased
  /\ batch' = batch \/ \E b \in SUBSET Leased : batch' = [batch EXCEPT ![p] = b]

LEMMA MovesTypes ==
  ASSUME ControlOK, NEW p \in Procs, NEW place, MovesTo(p, place)
  PROVE  /\ ControlOK'
         /\ pc'[p] = place /\ \A q \in Procs \ {p} : pc'[q] = pc[q] /\ cur'[q] = cur[q]
<1>1. pc' \in [Procs -> Places] /\ cur' \in [Procs -> Leased \cup {None}]
  BY DEF MovesTo, ControlOK
<1>2. batch' \in [Ticks -> SUBSET Leased]
  BY DEF MovesTo, ControlOK
<1>3. pc'[p] = place /\ \A q \in Procs \ {p} : pc'[q] = pc[q] /\ cur'[q] = cur[q]
  BY DEF MovesTo, ControlOK
<1>4. \A q \in Procs : pc'[q] \in NeedsJob => cur'[q] \in Leased
  BY <1>3 DEF MovesTo, ControlOK
<1> QED
  BY <1>1, <1>2, <1>3, <1>4 DEF ControlOK

\* The ends of the steps of finalizeJob.
LEMMA NextJobMoves ==
  ASSUME ControlOK, NEW t \in Ticks, NEW leased, NextJob(t, leased)
  PROVE  MovesTo(t, "idle") \/ MovesTo(t, "working")
<1>1. batch[t] \ {leased} \in SUBSET Leased
  BY DEF ControlOK
<1>2. {"idle", "working"} \subseteq Places \ NeedsJob
  BY DEF Places, NeedsJob, Finalizing
<1> QED
  BY <1>1, <1>2 DEF NextJob, Goto, MovesTo

LEMMA AbortMoves ==
  ASSUME ControlOK, NEW p \in Procs, pc[p] \in NeedsJob, Abort(p)
  PROVE  MovesTo(p, "idle") \/ MovesTo(p, "failed")
<1>1. {"idle", "failed"} \subseteq Places /\ "idle" \notin NeedsJob
  BY DEF Places, NeedsJob, Finalizing
<1> QED
  BY <1>1 DEF Abort, Goto, MovesTo, ControlOK

\* The rows of payout_jobs that the steps write.
LEMMA JobTypes ==
  ASSUME NEW row \in Job
  PROVE  /\ Requeued(row) \in Job /\ DeadLettered(row) \in Job /\ Completed(row) \in Job
         /\ \A w \in Workers :
              [row EXCEPT !.status = "LEASED", !.leasedBy = w, !.expired = FALSE] \in Job
         /\ \A n \in Nat : [Requeued(row) EXCEPT !.attempts = n] \in Job
         /\ [Requeued(row) EXCEPT !.status = "COMPLETED", !.completed = TRUE] \in Job
         /\ [row EXCEPT !.expired = TRUE] \in Job /\ [row EXCEPT !.leasedBy = None] \in Job
<1>1. /\ row.outcome \in {"SETTLED", "FAILED", "UNKNOWN"} /\ row.completed \in BOOLEAN
      /\ row.status \in {"QUEUED", "LEASED", "DEAD_LETTERED", "COMPLETED"}
      /\ row.attempts \in Nat /\ row.attempts + 1 \in Nat
      /\ row.leasedBy \in Workers \cup {None} /\ row.expired \in BOOLEAN
      /\ row = [outcome |-> row.outcome, status |-> row.status, attempts |-> row.attempts,
                completed |-> row.completed, leasedBy |-> row.leasedBy, expired |-> row.expired]
  BY DEF Job
<1>2. Requeued(row) \in Job /\ \A n \in Nat : [Requeued(row) EXCEPT !.attempts = n] \in Job
  BY <1>1 DEF Requeued, Job
<1>3. DeadLettered(row) \in Job
  BY <1>1 DEF DeadLettered, Requeued, Job
<1>4. Completed(row) \in Job
  BY <1>1 DEF Completed, Job
<1>5. \A w \in Workers : [row EXCEPT !.status = "LEASED", !.leasedBy = w, !.expired = FALSE] \in Job
  BY <1>1 DEF Job
<1>6. [Requeued(row) EXCEPT !.status = "COMPLETED", !.completed = TRUE] \in Job
  BY <1>1 DEF Requeued, Job
<1>7. [row EXCEPT !.expired = TRUE] \in Job /\ [row EXCEPT !.leasedBy = None] \in Job
  BY <1>1 DEF Job
<1> QED
  BY <1>2, <1>3, <1>4, <1>5, <1>6, <1>7
-----------------------------------------------------------------------------
(***************************************************************************)
(* The invariant: who holds which locks, and what holders of locks and     *)
(* those who have decided on the ledger know of their payout.              *)
(***************************************************************************)
Holding == Finalizing \cup {"waiting"}
Reviewed == {"retried", "resolved"}
Undecided == {"PENDING", "UNKNOWN"}

OneHolder ==
  \A t, u \in Ticks :
    pc[t] \in Holding /\ pc[u] \in Holding /\ cur[t].job = cur[u].job => t = u

OneFinalizer ==
  \A t, u \in Ticks : pc[t] \in Finalizing /\ pc[u] \in Finalizing => t = u

HeldAreOpen == \A t \in Ticks : pc[t] \in Holding => ~job[cur[t].job].completed

FinalizedArePending ==
  \A t \in Ticks : pc[t] \in Finalizing => db[cur[t].job] = "PENDING"

TicksDecide ==
  \A t \in Ticks : pc[t] \in {"endorsing", "ordering"} => job[cur[t].job].outcome # "UNKNOWN"

ReconciledWereNot ==
  \A o \in Operators : pc[o] \in Finalizing => db[cur[o].job] # "PENDING"

Locks ==
  /\ OneHolder /\ OneFinalizer /\ HeldAreOpen /\ FinalizedArePending /\ TicksDecide
  /\ ReconciledWereNot

\* A payout whose client gave up: the ledger may still decide it.
Orphan(d) ==
  ledger[d] = "PENDING" /\ (job[d].outcome = "UNKNOWN" => db[d] # "PENDING")

CurrentIsOpen ==
  /\ \A p \in current \cap Procs : pc[p] = "ordering" /\ ledger[cur[p].job] = "PENDING"
  /\ \A d \in current \cap Disbursements : Orphan(d)

\* The ledger has decided, and the table is still to follow.
Recording(p) ==
  pc[p] = "recording" /\ (p \in Operators \/ job[cur[p].job].outcome # "UNKNOWN")

DecidedFirst ==
  \A p \in Procs : Recording(p) =>
    ledger[cur[p].job] = Final(cur[p].job) /\ db[cur[p].job] \in Undecided

OneRecorder ==
  \A p, q \in Procs : Recording(p) /\ Recording(q) /\ cur[p].job = cur[q].job => p = q

TableFollows ==
  \A d \in Disbursements :
    /\ db[d] \notin Undecided => ledger[d] = db[d]
    /\ db[d] = "UNKNOWN" => job[d].outcome = "UNKNOWN"
    /\ ledger[d] \in {"PENDING", Final(d)}
    /\ job[d].outcome = "UNKNOWN" /\ db[d] = "PENDING" => ledger[d] = "PENDING"

Deciding == CurrentIsOpen /\ DecidedFirst /\ OneRecorder /\ TableFollows

Core == Locks /\ Deciding /\ JobsMatchOutcomes

LEMMA CoreInit == Init => Core
<1> SUFFICES ASSUME Init PROVE Core
  OBVIOUS
<1>1. Locks
  BY DEF Init, Locks, OneHolder, OneFinalizer, HeldAreOpen, FinalizedArePending, TicksDecide,
         ReconciledWereNot, Procs, Holding, Finalizing
<1>2. Deciding
  BY DEF Init, Deciding, CurrentIsOpen, DecidedFirst, Recording, OneRecorder, TableFollows,
         Undecided
<1>3. JobsMatchOutcomes
  BY DEF Init, JobsMatchOutcomes
<1> QED
  BY <1>1, <1>2, <1>3 DEF Core

\* Where the job of a tick or call is.
LEMMA JobOf ==
  ASSUME ControlOK, NEW p \in Procs, pc[p] \in NeedsJob
  PROVE  cur[p].job \in Disbursements
BY DEF ControlOK, Leased
-----------------------------------------------------------------------------
(***************************************************************************)
(* Most steps only leave places: they give up locks, endorsements and      *)
(* decisions, and write nothing but jobs that nobody holds.                *)
(***************************************************************************)
Steady(p) == pc'[p] = pc[p] /\ cur'[p] = cur[p]

RowsKept ==
  \A d \in Disbursements :
    /\ job'[d].outcome = job[d].outcome
    /\ job[d].completed => job'[d].completed
    /\ job'[d].completed => job[d].completed \/ (~Locked(d) /\ letter'[d] \in Reviewed)
    /\ letter[d] \in Reviewed => letter'[d] \in Reviewed

CurrentKept ==
  /\ \A p \in current' \cap Procs : p \in current /\ Steady(p)
  /\ \A d \in current' \cap Disbursements : Orphan(d)

Leaves ==
  /\ UNCHANGED <<db, allocation, attempts, ledger>>
  /\ RowsKept /\ CurrentKept
  /\ \A p \in Procs : Steady(p) \/ pc'[p] \notin Holding

LEMMA LeavesLocks == ASSUME Types, Core, Leaves PROVE Locks'
<1> USE DEF Procs
<1>1. \A p \in Procs : pc'[p] \in Holding => Steady(p) /\ cur[p].job \in Disbursements
  BY JobOf DEF Leaves, Steady, Holding, NeedsJob, Types
<1>2. \A p \in Procs : pc'[p] \in Finalizing => pc'[p] \in Holding
  BY DEF Holding
<1>3. OneHolder'
  BY <1>1 DEF Core, Locks, OneHolder, Steady
<1>4. OneFinalizer'
  BY <1>1, <1>2 DEF Core, Locks, OneFinalizer, Steady
<1>5. HeldAreOpen'
  <2> SUFFICES ASSUME NEW t \in Ticks, pc'[t] \in Holding PROVE ~job'[cur'[t].job].completed
    BY DEF HeldAreOpen
  <2>1. Steady(t) /\ cur[t].job \in Disbursements /\ pc[t] \in Holding
    BY <1>1 DEF Steady
  <2>2. ~job[cur[t].job].completed
    BY <2>1 DEF Core, Locks, HeldAreOpen
  <2>3. Locked(cur[t].job)
    BY <2>1 DEF Locked, Holding
  <2> QED
    BY <2>1, <2>2, <2>3 DEF Leaves, RowsKept, Steady
<1>6. FinalizedArePending' /\ ReconciledWereNot'
  BY <1>1, <1>2 DEF Core, Locks, FinalizedArePending, ReconciledWereNot, Steady, Leaves
<1>7. TicksDecide'
  <2> SUFFICES ASSUME NEW t \in Ticks, pc'[t] \in {"endorsing", "ordering"}
               PROVE  job'[cur'[t].job].outcome # "UNKNOWN"
    BY DEF TicksDecide
  <2>1. Steady(t) /\ cur[t].job \in Disbursements /\ pc[t] \in {"endorsing", "ordering"}
    BY <1>1 DEF Steady, Holding, Finalizing
  <2> QED
    BY <2>1 DEF Core, Locks, TicksDecide, Leaves, RowsKept, Steady
<1> QED
  BY <1>3, <1>4, <1>5, <1>6, <1>7 DEF Locks

LEMMA LeavesDeciding == ASSUME Types, Core, Leaves PROVE Deciding'
<1>1. \A p \in Procs : pc'[p] = "recording" => Steady(p) /\ cur[p].job \in Disbursements
  BY JobOf DEF Leaves, Steady, Holding, Finalizing, NeedsJob, Types
<1>2. \A d \in Disbursements : Final(d)' = Final(d) /\ job'[d].outcome = job[d].outcome
  BY DEF Leaves, RowsKept, Final
<1>3. \A p \in Procs : Recording(p)' => Recording(p) /\ Steady(p) /\ cur[p].job \in Disbursements
  BY <1>1, <1>2 DEF Recording, Steady
<1>4. CurrentIsOpen'
  <2>1. ASSUME NEW p \in current' \cap Procs
        PROVE  pc'[p] = "ordering" /\ ledger'[cur'[p].job] = "PENDING"
    BY <2>1 DEF Leaves, CurrentKept, Core, Deciding, CurrentIsOpen, Steady
  <2>2. ASSUME NEW d \in current' \cap Disbursements PROVE Orphan(d)'
    BY <1>2, <2>2 DEF Leaves, CurrentKept, Orphan
  <2> QED
    BY <2>1, <2>2 DEF CurrentIsOpen
<1>5. DecidedFirst'
  <2> SUFFICES ASSUME NEW p \in Procs, Recording(p)'
               PROVE  /\ ledger'[cur'[p].job] = Final(cur[p].job)'
                      /\ db'[cur'[p].job] \in Undecided /\ cur'[p] = cur[p]
    BY DEF DecidedFirst, Final
  <2>1. Recording(p) /\ Steady(p) /\ cur[p].job \in Disbursements
    BY <1>3
  <2> QED
    BY <1>2, <2>1 DEF Core, Deciding, DecidedFirst, Steady, Leaves, Final
<1>6. OneRecorder'
  BY <1>3 DEF Core, Deciding, OneRecorder, Steady
<1>7. TableFollows'
  BY <1>2 DEF Core, Deciding, TableFollows, Leaves
<1> QED
  BY <1>4, <1>5, <1>6, <1>7 DEF Deciding

LEMMA LeavesCore == ASSUME Types, Core, Leaves PROVE Core'
<1>1. JobsMatchOutcomes'
  BY DEF Core, JobsMatchOutcomes, Leaves, RowsKept, Reviewed
<1> QED
  BY <1>1, LeavesLocks, LeavesDeciding DEF Core
-----------------------------------------------------------------------------
(***************************************************************************)
(* Steps that take a place without deciding anything: a lock of a job, the *)
(* lock of the allocation, an endorsement.                                 *)
(***************************************************************************)
Enters(p) ==
  /\ UNCHANGED <<db, allocation, attempts, ledger, job, letter>>
  /\ \A q \in Procs \ {p} : Steady(q)
  /\ current' \subseteq current \cup {p} /\ p \notin current
  /\ p \in current' => pc'[p] = "ordering" /\ ledger[cur'[p].job] = "PENDING"
  /\ pc'[p] = "recording" => p \in Ticks /\ job[cur'[p].job].outcome = "UNKNOWN"

EntersLocks(p) ==
  LET d == cur'[p].job
  IN  /\ p \in Ticks /\ pc'[p] \in Holding =>
           ~job[d].completed /\ \A u \in Ticks \ {p} : pc[u] \in Holding => cur[u].job # d
      /\ p \in Ticks /\ pc'[p] \in Finalizing =>
           db[d] = "PENDING" /\ \A u \in Ticks \ {p} : pc[u] \notin Finalizing
      /\ p \in Ticks /\ pc'[p] \in {"endorsing", "ordering"} => job[d].outcome # "UNKNOWN"
      /\ p \in Operators /\ pc'[p] \in Finalizing => db[d] # "PENDING"

LEMMA EntersCore ==
  ASSUME Types, Core, NEW p \in Procs, Enters(p), EntersLocks(p)
  PROVE  Core'
<1> USE DEF Procs
<1>1. \A q \in Procs : q # p => pc'[q] = pc[q] /\ cur'[q] = cur[q]
  BY DEF Enters, Steady
<1>2. db' = db /\ ledger' = ledger /\ job' = job /\ letter' = letter /\ attempts' = attempts
  BY DEF Enters
<1>3. OneHolder'
  BY <1>1 DEF Core, Locks, OneHolder, EntersLocks
<1>4. OneFinalizer'
  BY <1>1 DEF Core, Locks, OneFinalizer, EntersLocks
<1>5. HeldAreOpen'
  BY <1>1, <1>2 DEF Core, Locks, HeldAreOpen, EntersLocks
<1>6. FinalizedArePending' /\ ReconciledWereNot'
  BY <1>1, <1>2, ProcessAssumption
     DEF Core, Locks, FinalizedArePending, ReconciledWereNot, EntersLocks
<1>7. TicksDecide'
  BY <1>1, <1>2 DEF Core, Locks, TicksDecide, EntersLocks
<1>8. Locks'
  BY <1>3, <1>4, <1>5, <1>6, <1>7 DEF Locks
<1>9. \A q \in Procs : Recording(q)' => q # p /\ Recording(q)
  BY <1>1, <1>2, ProcessAssumption DEF Recording, Enters
<1>10. CurrentIsOpen'
  <2>1. ASSUME NEW q \in current' \cap Procs
        PROVE  pc'[q] = "ordering" /\ ledger'[cur'[q].job] = "PENDING"
    BY <1>1, <1>2, <2>1 DEF Enters, Core, Deciding, CurrentIsOpen
  <2>2. ASSUME NEW d \in current' \cap Disbursements PROVE Orphan(d)'
    BY <1>2, <2>2, ProcessAssumption DEF Enters, Core, Deciding, CurrentIsOpen, Orphan
  <2> QED
    BY <2>1, <2>2 DEF CurrentIsOpen
<1>11. DecidedFirst'
  <2> SUFFICES ASSUME NEW q \in Procs, Recording(q)'
               PROVE  /\ ledger'[cur'[q].job] = Final(cur[q].job)'
                      /\ db'[cur'[q].job] \in Undecided
    BY DEF DecidedFirst, Final
  <2>1. Recording(q) /\ cur'[q] = cur[q]
    BY <1>1, <1>9
  <2> QED
    BY <1>2, <2>1 DEF Core, Deciding, DecidedFirst, Final
<1>12. OneRecorder'
  BY <1>1, <1>9 DEF Core, Deciding, OneRecorder
<1>13. TableFollows'
  BY <1>2 DEF Core, Deciding, TableFollows, Final
<1>14. JobsMatchOutcomes'
  BY <1>2 DEF Core, JobsMatchOutcomes
<1> QED
  BY <1>8, <1>10, <1>11, <1>12, <1>13, <1>14 DEF Core, Deciding
-----------------------------------------------------------------------------
(***************************************************************************)
(* The ledger decides a payout: for the tick or call that waits for it, or *)
(* for nobody.                                                             *)
(***************************************************************************)
Decides(d) ==
  /\ ledger[d] = "PENDING" /\ (job[d].outcome = "UNKNOWN" => db[d] # "PENDING")
  /\ ledger' = [ledger EXCEPT ![d] = Final(d)] /\ current' = {}
  /\ UNCHANGED <<db, allocation, attempts, job, letter>>
  /\ \/ \A q \in Procs : Steady(q)
     \/ \E p \in Procs :
          /\ pc[p] = "ordering" /\ cur[p].job = d /\ pc'[p] = "recording" /\ cur'[p] = cur[p]
          /\ \A q \in Procs \ {p} : Steady(q)

LEMMA DecidesCore ==
  ASSUME Types, Core, NEW d \in Disbursements, Decides(d)
  PROVE  Core'
<1> USE DEF Procs
<1>1. db' = db /\ job' = job /\ letter' = letter /\ attempts' = attempts
  BY DEF Decides
<1>2. /\ ledger'[d] = Final(d)
      /\ \A e \in Disbursements : e # d => ledger'[e] = ledger[e]
  BY DEF Decides, Types, RestOK
<1>3. \A q \in Procs :
        /\ cur'[q] = cur[q]
        /\ pc'[q] = pc[q] \/ (pc[q] = "ordering" /\ pc'[q] = "recording" /\ cur[q].job = d)
  BY DEF Decides, Steady
<1>4. /\ \A q \in Procs : pc'[q] \in Holding <=> pc[q] \in Holding
      /\ \A q \in Procs : pc'[q] \in Finalizing <=> pc[q] \in Finalizing
      /\ \A q \in Procs : pc'[q] \in {"endorsing", "ordering"} => pc[q] \in {"endorsing", "ordering"}
  BY <1>3 DEF Holding, Finalizing
<1>5. Locks'
  <2>1. OneHolder' /\ OneFinalizer'
    BY <1>3, <1>4 DEF Core, Locks, OneHolder, OneFinalizer
  <2>2. HeldAreOpen' /\ FinalizedArePending' /\ ReconciledWereNot' /\ TicksDecide'
    BY <1>1, <1>3, <1>4
       DEF Core, Locks, HeldAreOpen, FinalizedArePending, ReconciledWereNot, TicksDecide
  <2> QED
    BY <2>1, <2>2 DEF Locks
<1>6. db[d] \in Undecided
  BY DEF Decides, Core, Deciding, TableFollows, Undecided
<1>7. ASSUME NEW q \in Procs, Recording(q) PROVE cur[q].job \in Disbursements \ {d}
  <2>1. cur[q].job \in Disbursements
    BY <1>7, JobOf DEF Types, Recording, NeedsJob, Finalizing
  <2>2. ledger[cur[q].job] \in {"SETTLED", "FAILED"}
    <3>1. job[cur[q].job].outcome \in {"SETTLED", "FAILED", "UNKNOWN"}
      BY <2>1 DEF Types, JobsOK, Job
    <3> QED
      BY <1>7, <3>1 DEF Core, Deciding, DecidedFirst, Final
  <2> QED
    BY <2>1, <2>2 DEF Decides
<1>8. \A q \in Procs : Recording(q)' => Recording(q) \/ (cur[q].job = d /\ pc[q] # "recording" /\ ~Steady(q))
  BY <1>1, <1>3 DEF Recording, Steady
<1>9. DecidedFirst'
  <2> SUFFICES ASSUME NEW q \in Procs, Recording(q)'
               PROVE  /\ ledger'[cur'[q].job] = Final(cur[q].job)'
                      /\ db'[cur'[q].job] \in Undecided
    BY DEF DecidedFirst, Final
  <2>1. CASE Recording(q)
    BY <1>1, <1>2, <1>3, <1>7, <2>1 DEF Core, Deciding, DecidedFirst, Final
  <2>2. CASE cur[q].job = d
    BY <1>1, <1>2, <1>3, <1>6, <2>2 DEF Final
  <2> QED
    BY <1>8, <2>1, <2>2
<1>10. OneRecorder'
  <2> SUFFICES ASSUME NEW p \in Procs, NEW q \in Procs, Recording(p)', Recording(q)',
                      cur[p].job = cur[q].job
               PROVE  p = q
    BY <1>3 DEF OneRecorder
  <2>1. CASE Recording(p) /\ Recording(q)
    BY <2>1 DEF Core, Deciding, OneRecorder
  <2>2. CASE cur[p].job = d
    <3>1. ~Steady(p) /\ ~Steady(q)
      BY <1>7, <1>8, <2>2
    <3> QED
      BY <3>1 DEF Decides
  <2> QED
    BY <1>7, <1>8, <2>1, <2>2
<1>11. TableFollows'
  BY <1>1, <1>2, <1>6 DEF Core, Deciding, TableFollows, Final, Decides, Undecided
<1>12. CurrentIsOpen' /\ JobsMatchOutcomes'
  BY <1>1 DEF CurrentIsOpen, Decides, Core, JobsMatchOutcomes
<1> QED
  BY <1>5, <1>9, <1>10, <1>11, <1>12 DEF Core, Deciding
-----------------------------------------------------------------------------
(***************************************************************************)
(* The table takes over what the ledger decided, or that nobody knows.     *)
(***************************************************************************)
Records(p, d, status) ==
  /\ pc[p] = "recording" /\ cur[p].job = d /\ pc'[p] \notin Holding
  /\ \A q \in Procs \ {p} : Steady(q)
  /\ \A t \in Ticks \ {p} : pc[t] \notin Finalizing /\ (pc[t] \in Holding => cur[t].job # d)
  /\ \A q \in Procs \ {p} : Recording(q) => cur[q].job # d
  /\ UNCHANGED <<ledger, current, letter>>
  /\ db' = [db EXCEPT ![d] = status]
  /\ \A e \in Disbursements : job'[e].outcome = job[e].outcome
  /\ \A e \in Disbursements \ {d} : job'[e] = job[e] /\ attempts'[e] = attempts[e]
  /\ job'[d].completed /\ attempts'[d] = 1
  /\ \/ status \in {"SETTLED", "FAILED"} /\ ledger[d] = status
     \/ status = "UNKNOWN" /\ job[d].outcome = "UNKNOWN"

LEMMA RecordsCore ==
  ASSUME Types, Core, NEW p \in Procs, NEW d \in Disbursements, NEW status, Records(p, d, status)
  PROVE  Core'
<1> USE DEF Procs
<1>1. /\ db'[d] = status /\ status # "PENDING"
      /\ \A e \in Disbursements : e # d => db'[e] = db[e]
  BY DEF Records, Types, JobsOK
<1>2. ledger' = ledger /\ current' = current /\ letter' = letter
  BY DEF Records
<1>3. \A e \in Disbursements : job'[e].outcome = job[e].outcome /\ Final(e)' = Final(e)
  BY DEF Records, Final
<1>4. \A q \in Procs : pc'[q] \in Holding =>
        q # p /\ pc'[q] = pc[q] /\ cur'[q] = cur[q] /\ cur[q].job \in Disbursements
  BY JobOf DEF Records, Steady, Holding, NeedsJob, Types
<1>5. \A q \in Procs : pc'[q] \in Finalizing => pc'[q] \in Holding
  BY DEF Holding
<1>6. OneHolder' /\ OneFinalizer'
  BY <1>4, <1>5 DEF Core, Locks, OneHolder, OneFinalizer
<1>7. HeldAreOpen'
  <2> SUFFICES ASSUME NEW t \in Ticks, pc'[t] \in Holding PROVE ~job'[cur'[t].job].completed
    BY DEF HeldAreOpen
  <2>1. pc[t] \in Holding /\ cur'[t] = cur[t] /\ cur[t].job \in Disbursements \ {d}
    BY <1>4 DEF Records
  <2> QED
    BY <2>1 DEF Core, Locks, HeldAreOpen, Records
<1>8. FinalizedArePending'
  BY <1>4, <1>5 DEF Records, FinalizedArePending
<1>9. ReconciledWereNot'
  BY <1>1, <1>4, <1>5 DEF Core, Locks, ReconciledWereNot
<1>10. TicksDecide'
  BY <1>3, <1>4 DEF Core, Locks, TicksDecide, Holding, Finalizing
<1>11. Locks'
  BY <1>6, <1>7, <1>8, <1>9, <1>10 DEF Locks
<1>12. CurrentIsOpen'
  <2>1. ASSUME NEW q \in current' \cap Procs
        PROVE  pc'[q] = "ordering" /\ ledger'[cur'[q].job] = "PENDING"
    <3>1. pc[q] = "ordering" /\ ledger[cur[q].job] = "PENDING"
      BY <1>2, <2>1 DEF Core, Deciding, CurrentIsOpen
    <3>2. Steady(q)
      BY <2>1, <3>1 DEF Records
    <3> QED
      BY <1>2, <3>1, <3>2 DEF Steady
  <2>2. ASSUME NEW e \in current' \cap Disbursements PROVE Orphan(e)'
    BY <1>1, <1>2, <1>3, <2>2 DEF Core, Deciding, CurrentIsOpen, Orphan
  <2> QED
    BY <2>1, <2>2 DEF CurrentIsOpen
<1>13. \A q \in Procs : Recording(q)' =>
         /\ Recording(q) /\ cur'[q] = cur[q] /\ cur[q].job \in Disbursements \ {d}
  <2> SUFFICES ASSUME NEW q \in Procs, Recording(q)'
               PROVE  Recording(q) /\ cur'[q] = cur[q] /\ cur[q].job \in Disbursements \ {d}
    OBVIOUS
  <2>1. q # p /\ pc'[q] = pc[q] /\ cur'[q] = cur[q] /\ cur[q].job \in Disbursements
    BY <1>4 DEF Recording, Holding, Finalizing
  <2>2. Recording(q)
    BY <1>3, <2>1 DEF Recording
  <2> QED
    BY <2>1, <2>2 DEF Records
<1>14. DecidedFirst'
  <2> SUFFICES ASSUME NEW q \in Procs, Recording(q)'
               PROVE  /\ ledger'[cur'[q].job] = Final(cur[q].job)'
                      /\ db'[cur'[q].job] \in Undecided /\ cur'[q] = cur[q]
    BY DEF DecidedFirst, Final
  <2> QED
    BY <1>1, <1>2, <1>3, <1>13 DEF Core, Deciding, DecidedFirst
<1>15. OneRecorder'
  BY <1>13 DEF Core, Deciding, OneRecorder
<1>16. TableFollows'
  <2> SUFFICES ASSUME NEW e \in Disbursements
               PROVE  /\ db'[e] \notin Undecided => ledger'[e] = db'[e]
                      /\ db'[e] = "UNKNOWN" => job'[e].outcome = "UNKNOWN"
                      /\ ledger'[e] \in {"PENDING", Final(e)'}
                      /\ job'[e].outcome = "UNKNOWN" /\ db'[e] = "PENDING" => ledger'[e] = "PENDING"
    BY DEF TableFollows
  <2>1. CASE e = d
    BY <1>1, <1>2, <1>3, <2>1 DEF Core, Deciding, TableFollows, Records, Undecided
  <2>2. CASE e # d
    BY <1>1, <1>2, <1>3, <2>2 DEF Core, Deciding, TableFollows
  <2> QED
    BY <2>1, <2>2
<1>17. JobsMatchOutcomes'
  BY <1>1, <1>2 DEF Core, JobsMatchOutcomes, Records
<1> QED
  BY <1>11, <1>12, <1>14, <1>15, <1>16, <1>17 DEF Core, Deciding

LEMMA CommitRecords ==
  ASSUME Types, Core, NEW t \in Ticks, CommitPayout(t)
  PROVE  /\ cur[t].job \in Disbursements /\ db[cur[t].job] = "PENDING"
         /\ Records(t, cur[t].job, job[cur[t].job].outcome)
         /\ ControlOK' /\ JobsOK'
<1> DEFINE d == cur[t].job
           status == job[d].outcome
<1>a. t \in Procs
  BY DEF Procs
<1>1. /\ pc[t] = "recording" /\ pc[t] \in Finalizing /\ pc[t] \in Holding /\ pc[t] \in NeedsJob
  BY DEF CommitPayout, Holding, Finalizing, NeedsJob
<1>2. d \in Disbursements /\ db[d] = "PENDING" /\ attempts[d] = 0
  BY <1>1, <1>a, JobOf DEF Types, Core, Locks, FinalizedArePending, JobsMatchOutcomes
<1>3. /\ job[d] \in Job /\ status \in {"SETTLED", "FAILED", "UNKNOWN"}
      /\ Completed(job[d]) \in Job
      /\ Completed(job[d]).completed /\ Completed(job[d]).outcome = status
  <2>1. job[d] \in Job
    BY <1>2 DEF Types, JobsOK
  <2>2. Completed(job[d]) \in Job
    BY <2>1, JobTypes
  <2>3. status \in {"SETTLED", "FAILED", "UNKNOWN"}
    BY <2>1 DEF Job
  <2>4. Completed(job[d]).completed /\ Completed(job[d]).outcome = status
    BY <2>1 DEF Job, Completed
  <2> QED
    BY <2>1, <2>2, <2>3, <2>4
<1>4. /\ UNCHANGED <<ledger, current, letter>>
      /\ db' = [db EXCEPT ![d] = status] /\ attempts' = [attempts EXCEPT ![d] = attempts[d] + 1]
      /\ job' = [job EXCEPT ![d] = Completed(job[d])]
      /\ NextJob(t, cur[t]) \/ Abort(t)
  BY DEF CommitPayout, chain
<1>5. \E place \in {"idle", "working", "failed"} : MovesTo(t, place)
  BY <1>1, <1>4, <1>a, NextJobMoves, AbortMoves DEF Types
<1>6. /\ ControlOK' /\ pc'[t] \notin Holding
      /\ \A q \in Procs \ {t} : Steady(q)
  BY <1>5, <1>a, MovesTypes DEF Types, Holding, Finalizing, Steady
<1>7. JobsOK'
  <2> HIDE DEF d, status
  <2> QED
    BY <1>2, <1>3, <1>4 DEF Types, JobsOK, Statuses
<1>8. /\ \A e \in Disbursements : job'[e].outcome = job[e].outcome
      /\ \A e \in Disbursements \ {d} : job'[e] = job[e] /\ attempts'[e] = attempts[e]
      /\ job'[d].completed /\ attempts'[d] = 1
  BY <1>2, <1>3, <1>4 DEF Types, JobsOK
<1>9. \A u \in Ticks \ {t} : pc[u] \notin Finalizing /\ (pc[u] \in Holding => cur[u].job # d)
  BY <1>1 DEF Core, Locks, OneFinalizer, OneHolder
<1>10. \A q \in Procs \ {t} : Recording(q) => cur[q].job # d
  BY <1>2, <1>9 DEF Procs, Recording, Finalizing, Core, Locks, ReconciledWereNot
<1>11. \/ status \in {"SETTLED", "FAILED"} /\ ledger[d] = status
       \/ status = "UNKNOWN"
  BY <1>1, <1>3, <1>a DEF Core, Deciding, DecidedFirst, Recording, Final
<1> QED
  BY <1>1, <1>2, <1>4, <1>6, <1>7, <1>8, <1>9, <1>10, <1>11 DEF Records

LEMMA ReconciliationRecords ==
  ASSUME Types, Core, NEW o \in Operators, CommitReconciliation(o)
  PROVE  /\ cur[o].job \in Disbursements /\ db[cur[o].job] = "UNKNOWN"
         /\ Final(cur[o].job) = "SETTLED" /\ Records(o, cur[o].job, "SETTLED")
         /\ ControlOK' /\ JobsOK'
<1> DEFINE d == cur[o].job
<1>a. o \in Procs
  BY DEF Procs
<1>1. pc[o] = "recording" /\ pc[o] \in Finalizing /\ pc[o] \in NeedsJob /\ Recording(o)
  BY DEF CommitReconciliation, Finalizing, NeedsJob, Recording
<1>2. d \in Disbursements /\ db[d] = "UNKNOWN" /\ ledger[d] = Final(d)
  BY <1>1, <1>a, JobOf
     DEF Types, Core, Locks, ReconciledWereNot, Deciding, DecidedFirst, Undecided
<1>3. Final(d) = "SETTLED" /\ job[d].completed /\ attempts[d] = 1
  BY <1>2 DEF Core, Deciding, TableFollows, Final, JobsMatchOutcomes
<1>4. /\ UNCHANGED <<ledger, current, letter, job, attempts>>
      /\ db' = [db EXCEPT ![d] = "SETTLED"]
      /\ \A t \in Ticks : pc[t] \notin Finalizing
      /\ Goto(o, "idle") /\ cur' = [cur EXCEPT ![o] = None] /\ batch' = batch
  BY <1>3 DEF CommitReconciliation, chain, AllocationLocked
<1>5. MovesTo(o, "idle")
  BY <1>4 DEF MovesTo, Goto, Places, NeedsJob, Finalizing
<1>6. /\ ControlOK' /\ pc'[o] \notin Holding
      /\ \A q \in Procs \ {o} : Steady(q)
  BY <1>5, <1>a, MovesTypes DEF Types, Holding, Finalizing, Steady
<1>7. JobsOK'
  BY <1>4 DEF Types, JobsOK, Statuses
<1>8. \A t \in Ticks : pc[t] \in Holding => cur[t].job # d
  BY <1>3 DEF Core, Locks, HeldAreOpen
<1>9. \A q \in Procs \ {o} : Recording(q) => cur[q].job # d
  BY <1>1, <1>a DEF Core, Deciding, OneRecorder
<1> QED
  BY <1>1, <1>2, <1>3, <1>4, <1>6, <1>7, <1>8, <1>9 DEF Records
-----------------------------------------------------------------------------
(***************************************************************************)
(* Each step is of one of these kinds, and keeps the types.                *)
(***************************************************************************)
LEMMA JobKeeps ==
  ASSUME NEW row \in Job
  PROVE  /\ Requeued(row).outcome = row.outcome /\ Requeued(row).completed = row.completed
         /\ DeadLettered(row).outcome = row.outcome
         /\ DeadLettered(row).completed = row.completed
         /\ \A w \in Workers :
              LET leased == [row EXCEPT !.status = "LEASED", !.leasedBy = w, !.expired = FALSE]
              IN  leased.outcome = row.outcome /\ leased.completed = row.completed
         /\ \A n \in Nat :
              LET again == [Requeued(row) EXCEPT !.attempts = n]
              IN  again.outcome = row.outcome /\ again.completed = row.completed
         /\ LET closed == [Requeued(row) EXCEPT !.status = "COMPLETED", !.completed = TRUE]
            IN  closed.outcome = row.outcome /\ closed.completed
         /\ [row EXCEPT !.expired = TRUE].outcome = row.outcome
         /\ [row EXCEPT !.expired = TRUE].completed = row.completed
         /\ [row EXCEPT !.leasedBy = None].outcome = row.outcome
         /\ [row EXCEPT !.leasedBy = None].completed = row.completed
<1>1. Requeued(row).outcome = row.outcome /\ Requeued(row).completed = row.completed
  BY DEF Requeued, Job
<1>2. /\ DeadLettered(row).outcome = row.outcome
      /\ DeadLettered(row).completed = row.completed
  BY DEF DeadLettered, Requeued, Job
<1>3. \A w \in Workers :
        LET leased == [row EXCEPT !.status = "LEASED", !.leasedBy = w, !.expired = FALSE]
        IN  leased.outcome = row.outcome /\ leased.completed = row.completed
  BY DEF Job
<1>4. \A n \in Nat :
        LET again == [Requeued(row) EXCEPT !.attempts = n]
        IN  again.outcome = row.outcome /\ again.completed = row.completed
  BY DEF Requeued, Job
<1>5. LET closed == [Requeued(row) EXCEPT !.status = "COMPLETED", !.completed = TRUE]
      IN  closed.outcome = row.outcome /\ closed.completed
  BY DEF Requeued, Job
<1>6. /\ [row EXCEPT !.expired = TRUE].outcome = row.outcome
      /\ [row EXCEPT !.expired = TRUE].completed = row.completed
      /\ [row EXCEPT !.leasedBy = None].outcome = row.outcome
      /\ [row EXCEPT !.leasedBy = None].completed = row.completed
  BY DEF Job
<1> QED
  BY <1>1, <1>2, <1>3, <1>4, <1>5, <1>6

\* Steps that write no job and no dead letter, one job, or jobs in place.
LEMMA NoRows ==
  ASSUME Types, UNCHANGED <<db, attempts, job, letter>>
  PROVE  JobsOK' /\ RowsKept
BY DEF Types, JobsOK, RowsKept

LEMMA OneRow ==
  ASSUME Types, UNCHANGED <<db, attempts>>, NEW d \in Disbursements, NEW row \in Job,
         job' = [job EXCEPT ![d] = row], row.outcome = job[d].outcome,
         job[d].completed => row.completed,
         row.completed => job[d].completed \/ (~Locked(d) /\ letter'[d] \in Reviewed),
         \/ letter' = letter
         \/ \E review \in Reviews :
              /\ letter' = [letter EXCEPT ![d] = review]
              /\ letter[d] \in Reviewed => review \in Reviewed
  PROVE  JobsOK' /\ RowsKept
<1>1. job' \in [Disbursements -> Job] /\ letter' \in [Disbursements -> Reviews]
  BY DEF Types, JobsOK
<1>2. \A e \in Disbursements : job'[e] = IF e = d THEN row ELSE job[e]
  BY DEF Types, JobsOK
<1>3. \A e \in Disbursements : letter[e] \in Reviewed => letter'[e] \in Reviewed
  BY DEF Types, JobsOK
<1> QED
  BY <1>1, <1>2, <1>3 DEF Types, JobsOK, RowsKept

LEMMA SomeRows ==
  ASSUME Types, UNCHANGED <<db, attempts, letter>>, job' = [d \in Disbursements |-> job'[d]],
         \A d \in Disbursements :
           /\ job'[d] \in Job
           /\ job'[d].outcome = job[d].outcome /\ job'[d].completed = job[d].completed
  PROVE  JobsOK' /\ RowsKept
BY DEF Types, JobsOK, RowsKept

\* A tick or call leaves a place in which it has nothing being ordered.
LEMMA MoveLeaves ==
  ASSUME Types, Core, NEW p \in Procs, NEW place, MovesTo(p, place), place \notin Holding,
         UNCHANGED <<db, allocation, attempts, ledger, current>>, p \notin current, RowsKept
  PROVE  Leaves /\ ControlOK'
<1>1. /\ ControlOK' /\ pc'[p] \notin Holding
      /\ \A q \in Procs \ {p} : Steady(q)
  BY MovesTypes DEF Types, Steady
<1>2. CurrentKept
  BY <1>1 DEF CurrentKept, Core, Deciding, CurrentIsOpen
<1> QED
  BY <1>1, <1>2 DEF Leaves

\* A tick or call that is not waiting for the ledger has nothing being ordered.
LEMMA NotOrdering ==
  ASSUME Types, Core, NEW p \in Procs, pc[p] # "ordering" PROVE p \notin current
BY DEF Core, Deciding, CurrentIsOpen

LEMMA AbortLeaves ==
  ASSUME Types, Core, NEW p \in Procs, pc[p] \in NeedsJob, Abort(p), p \notin current,
         UNCHANGED <<tables, ledger, current>>
  PROVE  Leaves /\ ControlOK' /\ JobsOK'
<1>1. MovesTo(p, "idle") \/ MovesTo(p, "failed")
  BY AbortMoves DEF Types
<1>2. {"idle", "failed"} \cap Holding = {}
  BY DEF Holding, Finalizing
<1>3. JobsOK' /\ RowsKept
  BY NoRows DEF tables
<1> QED
  BY <1>1, <1>2, <1>3, MoveLeaves DEF tables

LEMMA NextJobLeaves ==
  ASSUME Types, Core, NEW t \in Ticks, NEW leased, NextJob(t, leased), t \notin current,
         UNCHANGED <<db, allocation, attempts, ledger, current>>, RowsKept
  PROVE  Leaves /\ ControlOK'
<1>1. MovesTo(t, "idle") \/ MovesTo(t, "working")
  BY NextJobMoves DEF Types
<1>2. {"idle", "working"} \cap Holding = {}
  BY DEF Holding, Finalizing
<1> QED
  BY <1>1, <1>2, MoveLeaves DEF Procs

\* The steps of a worker's loop around finalizeJob.
LEMMA WorkerLeaves ==
  ASSUME Types, Core, NEW t \in Ticks,
         \/ cleanupExpiredLeases(t)
         \/ \E leased \in SUBSET Disbursements : leaseJobs(t, leased)
         \/ handleJobFailure(t)
         \/ AbandonBatch(t)
  PROVE  Leaves /\ ControlOK' /\ JobsOK'
<1>a. t \in Procs /\ ProcessOf[t] \in Workers
  BY ProcessAssumption DEF Procs
<1>b. \A d \in Disbursements : job[d] \in Job
  BY DEF Types, JobsOK
<1>1. CASE cleanupExpiredLeases(t)
  <2>1. /\ UNCHANGED <<db, allocation, attempts, ledger, current, letter>>
        /\ job' = [d \in Disbursements |-> IF ExpiredLease(d) THEN Requeued(job[d]) ELSE job[d]]
        /\ pc[t] = "idle" /\ Goto(t, "leasing") /\ cur' = cur /\ batch' = batch
    BY <1>1 DEF cleanupExpiredLeases, chain
  <2>2. MovesTo(t, "leasing") /\ "leasing" \notin Holding
    BY <2>1 DEF Goto, MovesTo, Places, NeedsJob, Holding, Finalizing
  <2>3. JobsOK' /\ RowsKept
    <3>1. \A d \in Disbursements : job'[d] = job[d] \/ job'[d] = Requeued(job[d])
      BY <2>1
    <3> QED
      BY <1>b, <2>1, <3>1, JobTypes, JobKeeps, SomeRows
  <2> QED
    BY <1>a, <2>1, <2>2, <2>3, NotOrdering, MoveLeaves
<1>2. ASSUME NEW leased \in SUBSET Disbursements, leaseJobs(t, leased)
      PROVE  Leaves /\ ControlOK' /\ JobsOK'
  <2> DEFINE Taken(d) ==
        [job[d] EXCEPT !.status = "LEASED", !.leasedBy = ProcessOf[t], !.expired = FALSE]
  <2>1. /\ UNCHANGED <<db, allocation, attempts, ledger, current, letter>>
        /\ job' = [d \in Disbursements |-> IF d \in leased THEN Taken(d) ELSE job[d]]
        /\ pc[t] = "leasing" /\ (Goto(t, "idle") \/ Goto(t, "working")) /\ cur' = cur
        /\ batch' = [batch EXCEPT ![t] = {[job |-> d, attempts |-> job[d].attempts] : d \in leased}]
    BY <1>2 DEF leaseJobs, chain
  <2>2. {[job |-> d, attempts |-> job[d].attempts] : d \in leased} \in SUBSET Leased
    BY <1>b DEF Leased, Job
  <2>3. MovesTo(t, "idle") \/ MovesTo(t, "working")
    BY <2>1, <2>2 DEF Goto, MovesTo, Places, NeedsJob, Finalizing
  <2>4. {"idle", "working"} \cap Holding = {}
    BY DEF Holding, Finalizing
  <2>5. JobsOK' /\ RowsKept
    <3>1. \A d \in Disbursements : job'[d] = job[d] \/ job'[d] = Taken(d)
      BY <2>1
    <3>2. \A d \in Disbursements : /\ Taken(d) \in Job
                                   /\ Taken(d).outcome = job[d].outcome
                                   /\ Taken(d).completed = job[d].completed
      BY <1>a, <1>b, JobTypes, JobKeeps
    <3> HIDE DEF Taken
    <3> QED
      BY <1>b, <2>1, <3>1, <3>2, SomeRows
  <2> QED
    BY <1>a, <2>1, <2>3, <2>4, <2>5, NotOrdering, MoveLeaves
<1>3. CASE handleJobFailure(t)
  <2> DEFINE d == cur[t].job
  <2>1. /\ UNCHANGED <<db, allocation, attempts, ledger, current>>
        /\ pc[t] = "failed" /\ NextJob(t, cur[t]) /\ ~Locked(d)
        /\ moveToDeadLetter(cur[t]) \/ scheduleRetry(cur[t])
    BY <1>3 DEF handleJobFailure, chain
  <2>2. d \in Disbursements /\ cur[t].attempts + 1 \in Nat
    BY <1>a, <2>1 DEF Types, ControlOK, NeedsJob, Leased
  <2>3. /\ letter' = letter \/ \E review \in Reviews :
             /\ letter' = [letter EXCEPT ![d] = review]
             /\ letter[d] \in Reviewed => review \in Reviewed
        /\ \E row \in Job :
             /\ job' = [job EXCEPT ![d] = row]
             /\ row.outcome = job[d].outcome /\ row.completed = job[d].completed
    <3>1. CASE scheduleRetry(cur[t])
      <4> DEFINE row == [Requeued(job[d]) EXCEPT !.attempts = cur[t].attempts + 1]
      <4>1. row \in Job /\ row.outcome = job[d].outcome /\ row.completed = job[d].completed
        BY <1>b, <2>2, JobTypes, JobKeeps
      <4> QED
        BY <3>1, <4>1 DEF scheduleRetry
    <3>2. CASE moveToDeadLetter(cur[t])
      <4>1. /\ DeadLettered(job[d]) \in Job /\ DeadLettered(job[d]).outcome = job[d].outcome
            /\ DeadLettered(job[d]).completed = job[d].completed
        BY <1>b, <2>2, JobTypes, JobKeeps
      <4>2. letter[d] \in Reviews
        BY <2>2 DEF Types, JobsOK
      <4>3. /\ job' = [job EXCEPT ![d] = DeadLettered(job[d])]
            /\ letter' = [letter EXCEPT ![d] = IF letter[d] = "none" THEN "open" ELSE letter[d]]
        BY <3>2 DEF moveToDeadLetter
      <4>4. /\ (IF letter[d] = "none" THEN "open" ELSE letter[d]) \in Reviews
            /\ letter[d] \in Reviewed => (IF letter[d] = "none" THEN "open" ELSE letter[d]) \in Reviewed
        BY <4>2 DEF Reviews, Reviewed
      <4> QED
        BY <4>1, <4>3, <4>4
    <3> QED
      BY <2>1, <3>1, <3>2
  <2>4. JobsOK' /\ RowsKept
    <3> HIDE DEF d
    <3> QED
      BY <2>1, <2>2, <2>3, OneRow
  <2> QED
    BY <1>a, <2>1, <2>4, NotOrdering, NextJobLeaves
<1>4. CASE AbandonBatch(t)
  <2>1. /\ UNCHANGED <<tables, ledger, current>>
        /\ pc[t] = "failed" /\ Goto(t, "idle") /\ cur' = [cur EXCEPT ![t] = None]
        /\ batch' = [batch EXCEPT ![t] = {}]
    BY <1>4 DEF AbandonBatch, chain
  <2>2. MovesTo(t, "idle") /\ "idle" \notin Holding
    BY <2>1 DEF Goto, MovesTo, Places, NeedsJob, Holding, Finalizing
  <2> QED
    BY <1>a, <2>1, <2>2, NoRows, NotOrdering, MoveLeaves DEF tables
<1> QED
  BY <1>1, <1>2, <1>3, <1>4

\* What a step that writes no outcome into the table does, one of the kinds above.
Effect ==
  \/ Leaves
  \/ \E p \in Procs : Enters(p) /\ EntersLocks(p)
  \/ \E d \in Disbursements : Decides(d)

LEMMA EffectCore == ASSUME Types, Core, Effect PROVE Core'
BY LeavesCore, EntersCore, DecidesCore DEF Effect

\* finalizeJob up to its call of the ledger.
LEMMA FinalizeEffect ==
  ASSUME Types, Core, NEW t \in Ticks,
         \/ \E leased \in batch[t] : LockJob(t, leased)
         \/ LockPayout(t) \/ SubmitPayout(t) \/ PayoutRefused(t)
  PROVE  Effect /\ ControlOK' /\ JobsOK'
<1>a. t \in Procs /\ t \notin Operators
  BY ProcessAssumption DEF Procs
<1>b. \A place \in Places : pc[t] = place /\ place # "ordering" => t \notin current
  BY <1>a, NotOrdering
<1>1. ASSUME NEW leased \in batch[t], LockJob(t, leased) PROVE Effect /\ ControlOK' /\ JobsOK'
  <2>1. leased \in Leased /\ leased.job \in Disbursements
    BY DEF Types, ControlOK, Leased
  <2>2. /\ UNCHANGED <<db, allocation, attempts, job, letter, ledger, current>>
        /\ pc[t] = "working" /\ ~Locked(leased.job) /\ t \notin current
    BY <1>1, <1>b DEF LockJob, tables, chain, Places
  <2>3. JobsOK' /\ RowsKept
    BY <2>2, NoRows
  <2>4. CASE NextJob(t, leased)
    BY <2>2, <2>3, <2>4, NextJobLeaves DEF Effect
  <2>5. CASE /\ ~job[leased.job].completed
             /\ Goto(t, "waiting") /\ cur' = [cur EXCEPT ![t] = leased] /\ batch' = batch
    <3>1. cur'[t] = leased
      BY <1>a, <2>5 DEF Types, ControlOK
    <3>2. MovesTo(t, "waiting")
      BY <2>1, <2>5, <3>1 DEF Goto, MovesTo, Places
    <3>3. /\ ControlOK' /\ pc'[t] = "waiting" /\ \A q \in Procs \ {t} : Steady(q)
      BY <1>a, <3>2, MovesTypes DEF Types, Steady
    <3>4. Enters(t)
      BY <2>2, <3>3 DEF Enters
    <3>5. \A u \in Ticks : pc[u] \in Holding => cur[u].job # leased.job
      BY <2>2 DEF Locked, Holding
    <3>6. EntersLocks(t)
      BY <1>a, <2>5, <3>1, <3>3, <3>5 DEF EntersLocks, Finalizing
    <3> QED
      BY <1>a, <2>3, <3>3, <3>4, <3>6 DEF Effect
  <2> QED
    BY <1>1, <2>4, <2>5 DEF LockJob, AlreadyProcessed
<1>2. CASE LockPayout(t)
  <2> DEFINE d == cur[t].job
  <2>1. /\ UNCHANGED <<db, allocation, attempts, job, letter, ledger, current>>
        /\ pc[t] = "waiting" /\ \A u \in Ticks : pc[u] \notin Finalizing
    BY <1>2 DEF LockPayout, tables, chain, AllocationLocked
  <2>2. t \notin current
    BY <1>b, <2>1 DEF Places
  <2>3. JobsOK' /\ RowsKept
    BY <2>1, NoRows
  <2>4. CASE NextJob(t, cur[t])
    BY <2>1, <2>2, <2>3, <2>4, NextJobLeaves DEF Effect
  <2>5. CASE db[d] = "PENDING" /\ Goto(t, "locked") /\ UNCHANGED <<cur, batch>>
    <3>1. MovesTo(t, "locked")
      BY <1>a, <2>1, <2>5 DEF Goto, MovesTo, Places, Finalizing, Types, ControlOK, NeedsJob
    <3>2. /\ ControlOK' /\ pc'[t] = "locked" /\ \A q \in Procs \ {t} : Steady(q)
      BY <1>a, <3>1, MovesTypes DEF Types, Steady
    <3>3. Enters(t)
      BY <2>1, <2>2, <3>2 DEF Enters
    <3>4. ~job[d].completed /\ \A u \in Ticks \ {t} : pc[u] \in Holding => cur[u].job # d
      BY <2>1 DEF Core, Locks, HeldAreOpen, OneHolder, Holding
    <3>5. EntersLocks(t)
      BY <1>a, <2>1, <2>5, <3>2, <3>4 DEF EntersLocks
    <3> QED
      BY <1>a, <2>3, <3>2, <3>3, <3>5 DEF Effect
  <2> QED
    BY <1>2, <2>4, <2>5 DEF LockPayout
<1>3. CASE SubmitPayout(t)
  <2> DEFINE d == cur[t].job
  <2>1. /\ UNCHANGED <<db, allocation, attempts, job, letter, ledger, current, cur, batch>>
        /\ pc[t] = "locked"
        /\ Goto(t, IF job[d].outcome = "UNKNOWN" THEN "recording" ELSE "endorsing")
    BY <1>3 DEF SubmitPayout, tables, chain
  <2>2. t \notin current
    BY <1>b, <2>1 DEF Places, Finalizing
  <2>3. JobsOK'
    BY <2>1, NoRows
  <2>4. MovesTo(t, IF job[d].outcome = "UNKNOWN" THEN "recording" ELSE "endorsing")
    BY <1>a, <2>1 DEF Goto, MovesTo, Places, Finalizing, Types, ControlOK, NeedsJob
  <2>5. /\ ControlOK' /\ \A q \in Procs \ {t} : Steady(q)
        /\ pc'[t] = IF job[d].outcome = "UNKNOWN" THEN "recording" ELSE "endorsing"
    BY <1>a, <2>4, MovesTypes DEF Types, Steady
  <2>6. Enters(t)
    BY <1>a, <2>1, <2>2, <2>5 DEF Enters
  <2>7. /\ ~job[d].completed /\ \A u \in Ticks \ {t} : pc[u] \in Holding => cur[u].job # d
        /\ db[d] = "PENDING" /\ \A u \in Ticks \ {t} : pc[u] \notin Finalizing
    BY <2>1 DEF Core, Locks, HeldAreOpen, OneHolder, FinalizedArePending, OneFinalizer,
                Holding, Finalizing
  <2>8. EntersLocks(t)
    BY <1>a, <2>1, <2>5, <2>7 DEF EntersLocks
  <2> QED
    BY <1>a, <2>3, <2>5, <2>6, <2>8 DEF Effect
<1>4. CASE PayoutRefused(t)
  <2>1. UNCHANGED <<tables, ledger, current>> /\ pc[t] = "locked" /\ Abort(t)
    BY <1>4 DEF PayoutRefused, chain
  <2>2. pc[t] \in NeedsJob /\ t \notin current
    BY <1>b, <2>1 DEF Places, NeedsJob, Finalizing
  <2> QED
    BY <1>a, <2>1, <2>2, AbortLeaves DEF Effect
<1> QED
  BY <1>1, <1>2, <1>3, <1>4

\* The call of the ledger, of a tick or of an endpoint.
LEMMA LedgerEffect ==
  ASSUME Types, Core, NEW p \in Procs,
         Endorse(p) \/ CommitOnLedger(p) \/ EndorseFails(p) \/ CommitStatusLost(p) \/ RollBack(p)
  PROVE  Effect /\ ControlOK' /\ JobsOK'
<1> DEFINE d == cur[p].job
<1>a. /\ pc[p] \in {"endorsing", "ordering", "recording"} /\ pc[p] \in NeedsJob
      /\ UNCHANGED <<db, allocation, attempts, job, letter>>
  BY DEF Endorse, CommitOnLedger, EndorseFails, CommitStatusLost, RollBack, NeedsJob, Finalizing,
         tables
<1>b. d \in Disbursements /\ cur[p] \in Leased
  BY <1>a, JobOf DEF Types, ControlOK
<1>c. JobsOK' /\ RowsKept
  BY <1>a, NoRows
<1>d. p \in Ticks \/ p \in Operators
  BY DEF Procs
<1>e. /\ p \in Ticks => db[d] = "PENDING"
      /\ p \in Ticks /\ pc[p] \in {"endorsing", "ordering"} => job[d].outcome # "UNKNOWN"
      /\ p \in Operators => db[d] # "PENDING"
  BY <1>a DEF Core, Locks, FinalizedArePending, TicksDecide, ReconciledWereNot, Finalizing
<1>1. ASSUME Abort(p), p \notin current, UNCHANGED <<ledger, current>>
      PROVE  Effect /\ ControlOK' /\ JobsOK'
  BY <1>a, <1>1, AbortLeaves DEF Effect, tables
<1>2. CASE Endorse(p)
  <2>1. p \notin current
    BY <1>2, NotOrdering DEF Endorse
  <2>2. CASE Abort(p) /\ current' = current
    BY <1>1, <1>2, <2>1, <2>2 DEF Endorse
  <2>3. CASE /\ ledger[d] = "PENDING" /\ Goto(p, "ordering") /\ current' = current \cup {p}
             /\ UNCHANGED <<cur, batch>>
    <3>1. MovesTo(p, "ordering")
      BY <1>b, <2>3 DEF Goto, MovesTo, Places, Finalizing
    <3>2. /\ ControlOK' /\ pc'[p] = "ordering" /\ \A q \in Procs \ {p} : Steady(q)
      BY <3>1, MovesTypes DEF Types, Steady
    <3>3. Enters(p)
      BY <1>2, <1>a, <2>1, <2>3, <3>2 DEF Enters, Endorse
    <3>4. p \in Ticks =>
            /\ ~job[d].completed /\ \A u \in Ticks \ {p} : pc[u] \in Holding => cur[u].job # d
            /\ \A u \in Ticks \ {p} : pc[u] \notin Finalizing
      BY <1>2 DEF Endorse, Core, Locks, HeldAreOpen, OneHolder, OneFinalizer, Holding, Finalizing
    <3>5. pc[p] = "endorsing" /\ cur' = cur
      BY <1>2, <2>3 DEF Endorse
    <3>6. EntersLocks(p)
      BY <1>e, <3>2, <3>4, <3>5 DEF EntersLocks
    <3> QED
      BY <1>c, <3>2, <3>3, <3>6 DEF Effect
  <2> QED
    BY <1>2, <2>2, <2>3 DEF Endorse
<1>3. CASE CommitOnLedger(p)
  <2>1. CASE p \notin current
    BY <1>1, <1>3, <2>1 DEF CommitOnLedger, chain
  <2>2. CASE p \in current
    <3>1. /\ Commit(d) /\ Goto(p, "recording") /\ UNCHANGED <<cur, batch>> /\ pc[p] = "ordering"
      BY <1>3, <2>2 DEF CommitOnLedger
    <3>2. MovesTo(p, "recording")
      BY <1>b, <3>1 DEF Goto, MovesTo, Places, Finalizing
    <3>3. /\ ControlOK' /\ pc'[p] = "recording" /\ \A q \in Procs \ {p} : Steady(q)
      BY <3>2, MovesTypes DEF Types, Steady
    <3>4. ledger[d] = "PENDING"
      BY <2>2 DEF Core, Deciding, CurrentIsOpen
    <3>5. Decides(d)
      BY <1>a, <1>d, <1>e, <3>1, <3>3, <3>4 DEF Decides, Commit
    <3> QED
      BY <1>b, <1>c, <3>3, <3>5 DEF Effect
  <2> QED
    BY <2>1, <2>2
<1>4. CASE EndorseFails(p) \/ RollBack(p)
  <2>1. p \notin current
    BY <1>4, NotOrdering DEF EndorseFails, RollBack
  <2> QED
    BY <1>1, <1>4, <2>1 DEF EndorseFails, RollBack, chain
<1>5. CASE CommitStatusLost(p)
  <2>1. /\ pc[p] = "ordering" /\ current' = Orphaned({p}) /\ Abort(p) /\ ledger' = ledger
    BY <1>5 DEF CommitStatusLost
  <2>2. MovesTo(p, "idle") \/ MovesTo(p, "failed")
    BY <1>a, <2>1, AbortMoves DEF Types
  <2>3. ControlOK' /\ pc'[p] \notin Holding /\ \A q \in Procs \ {p} : Steady(q)
    BY <2>2, MovesTypes DEF Types, Steady, Holding, Finalizing
  <2>4. /\ current' \subseteq (current \ {p}) \cup {d}
        /\ p \notin current => current' \subseteq current \ {p}
    BY <2>1 DEF Orphaned
  <2>5. p \in current => Orphan(d)
    BY <1>d, <1>e, <2>1 DEF Core, Deciding, CurrentIsOpen, Orphan
  <2>6. CurrentKept
    <3>1. ASSUME NEW q \in current' \cap Procs PROVE q \in current /\ Steady(q)
      <4>1. q # d
        BY <1>b, ProcessAssumption
      <4> QED
        BY <2>3, <2>4, <3>1, <4>1
    <3>2. ASSUME NEW e \in current' \cap Disbursements PROVE Orphan(e)
      BY <2>4, <2>5, <3>2 DEF Core, Deciding, CurrentIsOpen
    <3> QED
      BY <3>1, <3>2 DEF CurrentKept
  <2> QED
    BY <1>a, <1>c, <2>1, <2>3, <2>6 DEF Effect, Leaves
<1> QED
  BY <1>2, <1>3, <1>4, <1>5

\* The client of a transaction that is being ordered may give up: the ledger
\* may still decide its payout.
LEMMA WaitingIsOpen ==
  ASSUME Types, Core, NEW p \in Procs \cap current
  PROVE  cur[p].job \in Disbursements /\ Orphan(cur[p].job)
<1> DEFINE d == cur[p].job
<1>1. pc[p] = "ordering" /\ ledger[d] = "PENDING"
  BY DEF Core, Deciding, CurrentIsOpen
<1>2. d \in Disbursements
  BY <1>1, JobOf DEF Types, NeedsJob, Finalizing
<1>3. CASE p \in Ticks
  BY <1>1, <1>2, <1>3 DEF Core, Locks, TicksDecide, Orphan
<1>4. CASE p \in Operators
  BY <1>1, <1>2, <1>4 DEF Core, Locks, ReconciledWereNot, Finalizing, Orphan
<1> QED
  BY <1>3, <1>4 DEF Procs

\* The operator endpoints up to the ledger.
LEMMA EndpointEffect ==
  ASSUME Types, Core, NEW o \in Operators,
         \/ \E d \in Disbursements, doing \in {"retrying", "resolving"} : ReadDeadLetter(o, d, doing)
         \/ \E d \in Disbursements : reconcile(o, d)
         \/ retryDeadLetter(o) \/ resolveDeadLetter(o)
  PROVE  Effect /\ ControlOK' /\ JobsOK'
<1>a. o \in Procs /\ o \notin Ticks
  BY ProcessAssumption DEF Procs
<1>b. pc[o] # "ordering" => o \notin current
  BY <1>a, NotOrdering
<1>c. \A d \in Disbursements : [job |-> d, attempts |-> 0] \in Leased
  BY DEF Leased
<1>1. ASSUME NEW d \in Disbursements, NEW doing \in {"retrying", "resolving"},
             ReadDeadLetter(o, d, doing)
      PROVE  Effect /\ ControlOK' /\ JobsOK'
  <2>1. /\ UNCHANGED <<db, allocation, attempts, job, letter, ledger, current>>
        /\ pc[o] = "idle" /\ Goto(o, doing) /\ batch' = batch
        /\ cur' = [cur EXCEPT ![o] = [job |-> d, attempts |-> 0]]
    BY <1>1 DEF ReadDeadLetter, tables, chain
  <2>2. cur'[o] \in Leased
    BY <1>a, <1>c, <2>1 DEF Types, ControlOK
  <2>3. MovesTo(o, doing) /\ doing \notin Holding
    BY <1>c, <2>1, <2>2 DEF Goto, MovesTo, Places, Holding, Finalizing
  <2> QED
    BY <1>a, <1>b, <2>1, <2>3, NoRows, MoveLeaves DEF Effect
<1>2. ASSUME NEW d \in Disbursements, reconcile(o, d)
      PROVE  Effect /\ ControlOK' /\ JobsOK'
  <2>1. /\ UNCHANGED <<db, allocation, attempts, job, letter, ledger, current>>
        /\ pc[o] = "idle" /\ db[d] = "UNKNOWN" /\ Goto(o, "endorsing") /\ batch' = batch
        /\ cur' = [cur EXCEPT ![o] = [job |-> d, attempts |-> 0]]
    BY <1>2 DEF reconcile, tables, chain
  <2>2. cur'[o] = [job |-> d, attempts |-> 0]
    BY <1>a, <2>1 DEF Types, ControlOK
  <2>3. MovesTo(o, "endorsing")
    BY <1>c, <2>1, <2>2 DEF Goto, MovesTo, Places, Finalizing
  <2>4. ControlOK' /\ pc'[o] = "endorsing" /\ \A q \in Procs \ {o} : Steady(q)
    BY <1>a, <2>3, MovesTypes DEF Types, Steady
  <2>5. Enters(o)
    BY <1>b, <2>1, <2>4 DEF Enters
  <2>6. EntersLocks(o)
    BY <1>a, <2>1, <2>2 DEF EntersLocks
  <2> QED
    BY <1>a, <2>1, <2>4, <2>5, <2>6, NoRows DEF Effect
<1>3. CASE retryDeadLetter(o) \/ resolveDeadLetter(o)
  <2> DEFINE d == cur[o].job
             again == [Requeued(job[d]) EXCEPT !.attempts = 0]
             closed == [Requeued(job[d]) EXCEPT !.status = "COMPLETED", !.completed = TRUE]
  <2>1. /\ UNCHANGED <<db, allocation, attempts, ledger, current>>
        /\ pc[o] \in {"retrying", "resolving"} /\ ~Locked(d)
        /\ Goto(o, "idle") /\ batch' = batch /\ cur' = [cur EXCEPT ![o] = None]
        /\ job' = [job EXCEPT ![d] = again] \/ job' = [job EXCEPT ![d] = closed]
        /\ \E review \in Reviewed : letter' = [letter EXCEPT ![d] = review]
    BY <1>3 DEF retryDeadLetter, resolveDeadLetter, CloseDeadLetter, chain, Reviewed
  <2>2. d \in Disbursements /\ job[d] \in Job
    BY <1>a, <2>1, JobOf DEF NeedsJob, Types, JobsOK
  <2>3. /\ again \in Job /\ again.outcome = job[d].outcome /\ again.completed = job[d].completed
        /\ closed \in Job /\ closed.outcome = job[d].outcome /\ closed.completed
    BY <2>2, JobTypes, JobKeeps
  <2>4. letter'[d] \in Reviewed
    BY <2>1, <2>2 DEF Types, JobsOK
  <2>5. Reviewed \subseteq Reviews
    BY DEF Reviewed, Reviews
  <2>6. JobsOK' /\ RowsKept
    <3>1. \E row \in Job : /\ job' = [job EXCEPT ![d] = row]
                           /\ row.outcome = job[d].outcome
                           /\ job[d].completed => row.completed
      BY <2>1, <2>3
    <3> HIDE DEF d
    <3> QED
      BY <2>1, <2>2, <2>4, <2>5, <3>1, OneRow
  <2>7. MovesTo(o, "idle") /\ "idle" \notin Holding
    BY <2>1 DEF Goto, MovesTo, Places, NeedsJob, Holding, Finalizing
  <2>8. o \notin current
    BY <1>b, <2>1
  <2> QED
    BY <1>a, <2>1, <2>6, <2>7, <2>8, MoveLeaves DEF Effect
<1> QED
  BY <1>1, <1>2, <1>3

\* Time, shutdowns, crashes, and commits that nobody waits for.
LEMMA WorldEffect ==
  ASSUME Types, Core,
         \/ \E d \in Disbursements : ExpireLease(d) \/ OrphanCommits(d)
         \/ \E w \in Workers : Shutdown(w) \/ releaseLeases(w) \/ Crash(w) \/ Exit(w)
  PROVE  Effect /\ ControlOK' /\ JobsOK'
<1>a. \A d \in Disbursements : job[d] \in Job
  BY DEF Types, JobsOK
<1>1. ASSUME UNCHANGED <<db, allocation, attempts, ledger, current, control>>, JobsOK', RowsKept
      PROVE  Effect /\ ControlOK' /\ JobsOK'
  <2>1. ControlOK' /\ \A p \in Procs : Steady(p)
    BY <1>1 DEF control, Types, ControlOK, Steady
  <2>2. CurrentKept
    BY <1>1, <2>1 DEF CurrentKept, Core, Deciding, CurrentIsOpen
  <2> QED
    BY <1>1, <2>1, <2>2 DEF Effect, Leaves
<1>2. ASSUME NEW d \in Disbursements, ExpireLease(d) PROVE Effect /\ ControlOK' /\ JobsOK'
  <2> DEFINE row == [job[d] EXCEPT !.expired = TRUE]
  <2>1. /\ UNCHANGED <<db, allocation, attempts, letter, ledger, current, control>>
        /\ job' = [job EXCEPT ![d] = row]
    BY <1>2 DEF ExpireLease, chain
  <2>2. row \in Job /\ row.outcome = job[d].outcome /\ row.completed = job[d].completed
    BY <1>a, JobTypes, JobKeeps
  <2>3. JobsOK' /\ RowsKept
    <3> HIDE DEF row
    <3> QED
      BY <2>1, <2>2, OneRow
  <2> QED
    BY <1>1, <2>1, <2>3
<1>3. ASSUME NEW d \in Disbursements, OrphanCommits(d) PROVE Effect /\ ControlOK' /\ JobsOK'
  <2>1. /\ UNCHANGED <<db, allocation, attempts, job, letter, control>>
        /\ d \in current /\ Commit(d)
    BY <1>3 DEF OrphanCommits, tables
  <2>2. ControlOK' /\ \A p \in Procs : Steady(p)
    BY <2>1 DEF control, Types, ControlOK, Steady
  <2>3. Orphan(d)
    BY <2>1 DEF Core, Deciding, CurrentIsOpen
  <2>4. Decides(d)
    BY <2>1, <2>2, <2>3 DEF Decides, Commit, Orphan
  <2> QED
    BY <2>1, <2>2, <2>4, NoRows DEF Effect
<1>4. ASSUME NEW w \in Workers, Shutdown(w) PROVE Effect /\ ControlOK' /\ JobsOK'
  BY <1>1, <1>4, NoRows DEF Shutdown, tables, chain
<1>5. ASSUME NEW w \in Workers, releaseLeases(w) PROVE Effect /\ ControlOK' /\ JobsOK'
  <2>1. /\ UNCHANGED <<db, allocation, attempts, letter, ledger, current, control>>
        /\ job' = [d \in Disbursements |-> IF LeasedBy(d, w) THEN Requeued(job[d]) ELSE job[d]]
    BY <1>5 DEF releaseLeases, chain
  <2>2. JobsOK' /\ RowsKept
    <3>1. \A d \in Disbursements : job'[d] = job[d] \/ job'[d] = Requeued(job[d])
      BY <2>1
    <3> QED
      BY <1>a, <2>1, <3>1, JobTypes, JobKeeps, SomeRows
  <2> QED
    BY <1>1, <2>1, <2>2
<1>6. ASSUME NEW w \in Workers, Restart(w) PROVE Effect /\ ControlOK' /\ JobsOK'
  <2> DEFINE gone == {p \in Procs : ProcessOf[p] = w}
             Freed(d) == [job[d] EXCEPT !.leasedBy = None]
  <2>1. /\ UNCHANGED <<db, allocation, attempts, letter, ledger>>
        /\ job' = [d \in Disbursements |-> IF LeasedBy(d, w) THEN Freed(d) ELSE job[d]]
        /\ current' = Orphaned(gone)
        /\ pc' = [p \in Procs |-> IF ProcessOf[p] = w THEN "idle" ELSE pc[p]]
        /\ cur' = [p \in Procs |-> IF ProcessOf[p] = w THEN None ELSE cur[p]]
        /\ batch' = [t \in Ticks |-> IF ProcessOf[t] = w THEN {} ELSE batch[t]]
    BY <1>6 DEF Restart
  <2>2. JobsOK' /\ RowsKept
    <3>1. \A d \in Disbursements : job'[d] = job[d] \/ job'[d] = Freed(d)
      BY <2>1
    <3>2. \A d \in Disbursements :
            /\ Freed(d) \in Job
            /\ Freed(d).outcome = job[d].outcome /\ Freed(d).completed = job[d].completed
      BY <1>a, JobTypes, JobKeeps
    <3> HIDE DEF Freed
    <3> QED
      BY <1>a, <2>1, <3>1, <3>2, SomeRows
  <2>3. "idle" \in Places /\ "idle" \notin NeedsJob /\ "idle" \notin Holding
    BY DEF Places, NeedsJob, Holding, Finalizing
  <2>4. ControlOK'
    BY <2>1, <2>3 DEF Types, ControlOK
  <2>5. \A p \in Procs : IF p \in gone THEN pc'[p] \notin Holding ELSE Steady(p)
    BY <2>1, <2>3 DEF Types, ControlOK, Steady
  <2>6. CurrentKept
    <3>1. ASSUME NEW q \in current' \cap Procs PROVE q \in current /\ Steady(q)
      <4>1. q \in current \ gone \/ \E p \in gone \cap current : q = cur[p].job
        BY <2>1, <3>1 DEF Orphaned
      <4>2. \A p \in gone \cap current : cur[p].job \in Disbursements
        BY WaitingIsOpen
      <4> QED
        BY <2>5, <3>1, <4>1, <4>2, ProcessAssumption
    <3>2. ASSUME NEW e \in current' \cap Disbursements PROVE Orphan(e)
      <4>1. e \in current \/ \E p \in gone \cap current : e = cur[p].job
        BY <2>1, <3>2 DEF Orphaned
      <4> QED
        BY <3>2, <4>1, WaitingIsOpen DEF Core, Deciding, CurrentIsOpen
    <3> QED
      BY <3>1, <3>2 DEF CurrentKept
  <2> QED
    BY <2>1, <2>2, <2>4, <2>5, <2>6 DEF Effect, Leaves
<1> QED
  BY <1>2, <1>3, <1>4, <1>5, <1>6 DEF Crash, Exit
-----------------------------------------------------------------------------
(***************************************************************************)
(* The inductive invariant.                                                *)
(***************************************************************************)
LEMMA StepKinds ==
  ASSUME Types, Core, Next
  PROVE  \/ Effect /\ ControlOK' /\ JobsOK'
         \/ \E t \in Ticks : CommitPayout(t)
         \/ \E o \in Operators : CommitReconciliation(o)
<1>1. ASSUME NEW t \in Ticks, TickStep(t) \/ TickFault(t)
      PROVE  (Effect /\ ControlOK' /\ JobsOK') \/ CommitPayout(t)
  <2>1. CASE \/ cleanupExpiredLeases(t) \/ leaseJobs(t, {}) \/ LeaseSome(t)
             \/ handleJobFailure(t) \/ AbandonBatch(t)
    <3>1. {} \in SUBSET Disbursements
      OBVIOUS
    <3> QED
      BY <2>1, <3>1, WorkerLeaves DEF LeaseSome, Effect
  <2>2. CASE \/ \E leased \in batch[t] : LockJob(t, leased)
             \/ LockPayout(t) \/ SubmitPayout(t) \/ PayoutRefused(t)
    BY <2>2, FinalizeEffect
  <2>3. CASE Ledger(t)
    BY <2>3, LedgerEffect DEF Ledger, Procs
  <2> QED
    BY <1>1, <2>1, <2>2, <2>3 DEF TickStep, TickFault
<1>2. ASSUME NEW o \in Operators, CallStep(o) \/ CallStart(o)
      PROVE  (Effect /\ ControlOK' /\ JobsOK') \/ CommitReconciliation(o)
  <2>1. CASE retryDeadLetter(o) \/ resolveDeadLetter(o) \/ CallStart(o)
    BY <2>1, EndpointEffect DEF CallStart
  <2>2. CASE Ledger(o)
    BY <2>2, LedgerEffect DEF Ledger, Procs
  <2> QED
    BY <1>2, <2>1, <2>2 DEF CallStep
<1>3. ASSUME NEW p \in Procs, ProcFault(p) PROVE Effect /\ ControlOK' /\ JobsOK'
  BY <1>3, LedgerEffect DEF ProcFault
<1>4. CASE \/ \E d \in Disbursements : ExpireLease(d) \/ OrphanCommits(d)
           \/ \E w \in Workers : Shutdown(w) \/ releaseLeases(w) \/ Crash(w) \/ Exit(w)
  BY <1>4, WorldEffect
<1> QED
  BY <1>1, <1>2, <1>3, <1>4 DEF Next

\* What the steps do to the ledger, the provider and the processes.
LEMMA RestTypes ==
  ASSUME Types, Core, Next
  PROVE  RestOK'
<1> DEFINE Counted == Fault \/ NoFault
<1>a. ASSUME Counted PROVE faults' \in 0..MaxFaults
  BY <1>a, BoundsAssumption DEF Types, RestOK, Fault, NoFault
<1>b. /\ Ticks \subseteq Procs /\ Operators \subseteq Procs
      /\ \A p \in Procs : ProcessOf[p] \in Workers
  BY ProcessAssumption DEF Procs
<1>c. \A d \in Disbursements : Final(d) \in {"SETTLED", "FAILED"}
  <2>1. \A d \in Disbursements : job[d].outcome \in {"SETTLED", "FAILED", "UNKNOWN"}
    BY DEF Types, JobsOK, Job
  <2> QED
    BY <2>1 DEF Final
<1>d. \A ps \in SUBSET Procs : Orphaned(ps) \subseteq Procs \cup Disbursements
  BY WaitingIsOpen DEF Types, RestOK, Orphaned
<1>1. ASSUME UNCHANGED <<chain, provider, phase>>, Counted PROVE RestOK'
  BY <1>1, <1>a DEF chain, provider, Types, RestOK
<1>2. ASSUME NEW d \in Disbursements, Commit(d), UNCHANGED <<provider, phase>>, Counted
      PROVE  RestOK'
  BY <1>2, <1>a, <1>c DEF Commit, provider, Types, RestOK
<1>3. ASSUME NEW t \in Ticks, TickStep(t) \/ TickFault(t) PROVE RestOK'
  <2>1. CASE SubmitPayout(t)
    <3>1. cur[t].job \in Disbursements
      BY <1>b, <2>1, JobOf DEF SubmitPayout, NeedsJob, Finalizing, Types
    <3>2. /\ UNCHANGED <<ledger, current, phase>> /\ NoFault
          /\ submissions' = [submissions EXCEPT ![cur[t].job] = @ + 1]
          /\ knower' = [knower EXCEPT ![cur[t].job] = ProcessOf[t]]
      BY <2>1 DEF SubmitPayout, chain
    <3> QED
      BY <1>a, <1>b, <3>1, <3>2 DEF Types, RestOK
  <2>2. CASE Endorse(t)
    BY <1>a, <1>b, <2>2 DEF Endorse, provider, Types, RestOK
  <2>3. CASE CommitOnLedger(t)
    <3>1. cur[t].job \in Disbursements
      BY <1>b, <2>3, JobOf DEF CommitOnLedger, NeedsJob, Finalizing, Types
    <3> QED
      BY <1>1, <1>2, <2>3, <3>1 DEF CommitOnLedger
  <2> QED
    BY <1>1, <1>3, <2>1, <2>2, <2>3
       DEF TickStep, TickFault, Ledger, LeaseSome, cleanupExpiredLeases, leaseJobs, LockJob,
           LockPayout, CommitPayout, handleJobFailure, PayoutRefused, AbandonBatch
<1>4. ASSUME NEW o \in Operators, CallStep(o) \/ CallStart(o) PROVE RestOK'
  <2>1. CASE Endorse(o)
    BY <1>a, <1>b, <2>1 DEF Endorse, provider, Types, RestOK
  <2>2. CASE CommitOnLedger(o)
    <3>1. cur[o].job \in Disbursements
      BY <1>b, <2>2, JobOf DEF CommitOnLedger, NeedsJob, Finalizing, Types
    <3> QED
      BY <1>1, <1>2, <2>2, <3>1 DEF CommitOnLedger
  <2> QED
    BY <1>1, <1>4, <2>1, <2>2
       DEF CallStep, CallStart, Ledger, retryDeadLetter, resolveDeadLetter, CloseDeadLetter,
           CommitReconciliation, ReadDeadLetter, reconcile
<1>5. ASSUME NEW p \in Procs, ProcFault(p) PROVE RestOK'
  <2>1. CASE CommitStatusLost(p)
    <3>1. UNCHANGED <<ledger, provider, phase>> /\ current' = Orphaned({p}) /\ Fault
      BY <2>1 DEF CommitStatusLost
    <3>2. current' \subseteq Procs \cup Disbursements
      BY <1>d, <3>1
    <3> QED
      BY <1>a, <3>1, <3>2 DEF provider, Types, RestOK
  <2> QED
    BY <1>1, <1>5, <2>1 DEF ProcFault, EndorseFails, RollBack
<1>6. ASSUME NEW d \in Disbursements, ExpireLease(d) \/ OrphanCommits(d) PROVE RestOK'
  BY <1>1, <1>2, <1>6 DEF ExpireLease, OrphanCommits
<1>7. ASSUME NEW w \in Workers, Shutdown(w) \/ releaseLeases(w) PROVE RestOK'
  <2>1. /\ UNCHANGED <<ledger, current, submissions, knower>> /\ Counted
        /\ \E now \in Phases : phase' = [phase EXCEPT ![w] = now]
    BY <1>7 DEF Shutdown, releaseLeases, chain, provider, Phases
  <2> QED
    BY <1>a, <2>1 DEF Types, RestOK
<1>8. ASSUME NEW w \in Workers, Crash(w) \/ Exit(w) PROVE RestOK'
  <2>1. Counted /\ Restart(w)
    BY <1>8 DEF Crash, Exit
  <2>2. current' \subseteq Procs \cup Disbursements
    BY <1>d, <2>1 DEF Restart
  <2>3. /\ ledger' = ledger /\ submissions' = submissions
        /\ knower' = [d \in Disbursements |-> IF knower[d] = w THEN None ELSE knower[d]]
        /\ phase' = [phase EXCEPT ![w] = "running"]
    BY <2>1 DEF Restart
  <2> QED
    BY <1>a, <2>1, <2>2, <2>3 DEF Types, RestOK, Phases
<1> QED
  BY <1>3, <1>4, <1>5, <1>6, <1>7, <1>8 DEF Next

LEMMA StepCore == ASSUME Types, Core, [Next]_vars PROVE Types' /\ Core'
<1>1. CASE Next
  <2>1. RestOK'
    BY <1>1, RestTypes
  <2>2. CASE Effect /\ ControlOK' /\ JobsOK'
    BY <2>1, <2>2, EffectCore DEF Types
  <2>3. ASSUME NEW t \in Ticks, CommitPayout(t) PROVE Types' /\ Core'
    <3>1. t \in Procs
      BY DEF Procs
    <3> QED
      BY <2>1, <2>3, <3>1, CommitRecords, RecordsCore DEF Types
  <2>4. ASSUME NEW o \in Operators, CommitReconciliation(o) PROVE Types' /\ Core'
    <3>1. o \in Procs
      BY DEF Procs
    <3> QED
      BY <2>1, <2>4, <3>1, ReconciliationRecords, RecordsCore DEF Types
  <2> QED
    BY <1>1, <2>2, <2>3, <2>4, StepKinds
<1>2. CASE UNCHANGED vars
  <2>1. Types'
    BY <1>2 DEF vars, tables, chain, provider, control, Types, ControlOK, JobsOK, RestOK
  <2>2. Leaves
    BY <1>2
       DEF vars, tables, chain, control, Leaves, RowsKept, CurrentKept, Core, Deciding,
           CurrentIsOpen, Steady
  <2> QED
    BY <2>1, <2>2, LeavesCore
<1> QED
  BY <1>1, <1>2

LEMMA Invariant == Spec => [](Types /\ Core)
<1>1. Init => Types /\ Core
  BY TypesInit, CoreInit
<1>2. Types /\ Core /\ [Next]_vars => (Types /\ Core)'
  BY StepCore
<1> QED
  BY <1>1, <1>2, PTL DEF Spec
-----------------------------------------------------------------------------
(***************************************************************************)
(* The theorems.                                                           *)
(***************************************************************************)
\* A payout that has an outcome has one recorded attempt and a closed job, and a
\* job closed without an outcome was closed by an operator.
THEOREM OutcomesClose == Spec => []JobsMatchOutcomes
<1>1. Types /\ Core => JobsMatchOutcomes
  BY DEF Core
<1> QED
  BY <1>1, Invariant, PTL

ClosedStays ==
  \A d \in Disbursements :
    job[d].completed => job'[d].completed /\ (db[d] = "PENDING" => db'[d] = "PENDING")

LEMMA ClosedStaysStep == Types /\ Core /\ [Next]_vars => [ClosedStays]_vars
<1> SUFFICES ASSUME Types, Core, Next PROVE ClosedStays
  OBVIOUS
<1>1. CASE Effect
  BY <1>1 DEF Effect, Leaves, RowsKept, Enters, Decides, ClosedStays
<1>2. ASSUME NEW p \in Procs, NEW e \in Disbursements, NEW status, Records(p, e, status),
             db[e] = "PENDING" => ~job[e].completed
      PROVE  ClosedStays
  <2>1. \A d \in Disbursements : d # e => job'[d] = job[d] /\ db'[d] = db[d]
    BY <1>2 DEF Records, Types, JobsOK
  <2> QED
    BY <1>2, <2>1 DEF Records, ClosedStays
<1>3. ASSUME NEW t \in Ticks, CommitPayout(t) PROVE ClosedStays
  <2>1. ~job[cur[t].job].completed /\ t \in Procs
    BY <1>3 DEF CommitPayout, Core, Locks, HeldAreOpen, Holding, Finalizing, Procs
  <2> QED
    BY <1>2, <1>3, <2>1, CommitRecords
<1>4. ASSUME NEW o \in Operators, CommitReconciliation(o) PROVE ClosedStays
  <2>1. o \in Procs
    BY DEF Procs
  <2> QED
    BY <1>2, <1>4, <2>1, ReconciliationRecords
<1> QED
  BY <1>1, <1>3, <1>4, StepKinds

\* A job that is closed is never opened again, and its payout never gets an outcome
\* any more, whoever still holds an old copy of the job.
THEOREM ClosedIsClosed == Spec => ClosedJobsStayClosed
<1>1. ClosedStays <=>
        \A d \in Disbursements :
          job[d].completed => job'[d].completed /\ (db[d] = "PENDING" => db'[d] = "PENDING")
  BY DEF ClosedStays
<1>2. Types /\ Core /\ [Next]_vars =>
        [\A d \in Disbursements :
           job[d].completed => job'[d].completed /\ (db[d] = "PENDING" => db'[d] = "PENDING")]_vars
  BY <1>1, ClosedStaysStep
<1> QED
  BY <1>2, Invariant, PTL DEF Spec, ClosedJobsStayClosed

Balances ==
  allocation = [reserved |-> Having(Undecided), disbursed |-> Having({"SETTLED"})]

LEMMA HavingNat == \A S : Having(S) \in Nat
<1>1. \A S : IsFiniteSet({d \in Disbursements : db[d] \in S})
  BY FiniteAssumption, FS_Subset
<1> QED
  BY <1>1, FS_CardinalityType DEF Having

\* One payout changes its status: it is counted where it was, or where it is.
LEMMA HavingMoves ==
  ASSUME db \in [Disbursements -> Statuses], NEW d \in Disbursements, NEW status,
         db' = [db EXCEPT ![d] = status], NEW S
  PROVE  Having(S)' = IF db[d] \in S
                      THEN IF status \in S THEN Having(S) ELSE Having(S) - 1
                      ELSE IF status \in S THEN Having(S) + 1 ELSE Having(S)
<1> DEFINE H == {e \in Disbursements : db[e] \in S}
           G == {e \in Disbursements : db'[e] \in S}
<1>1. IsFiniteSet(H)
  BY FiniteAssumption, FS_Subset
<1>2. G = IF status \in S THEN H \cup {d} ELSE H \ {d}
  OBVIOUS
<1>3. d \in H <=> db[d] \in S
  OBVIOUS
<1>4. /\ Cardinality(H \cup {d}) = IF d \in H THEN Cardinality(H) ELSE Cardinality(H) + 1
      /\ Cardinality(H \ {d}) = IF d \in H THEN Cardinality(H) - 1 ELSE Cardinality(H)
  BY <1>1, FS_AddElement, FS_RemoveElement
<1>5. Having(S) = Cardinality(H) /\ Having(S)' = Cardinality(G)
  BY DEF Having
<1> HIDE DEF H, G
<1> QED
  BY <1>2, <1>3, <1>4, <1>5

LEMMA BalancesStep == Types /\ Core /\ [Next]_vars /\ Balances => Balances'
<1> SUFFICES ASSUME Types, Core, Balances, [Next]_vars PROVE Balances'
  OBVIOUS
<1>1. ASSUME UNCHANGED <<db, allocation>> PROVE Balances'
  BY <1>1 DEF Balances, Having
<1>2. ASSUME Effect PROVE Balances'
  BY <1>1, <1>2 DEF Effect, Leaves, Enters, Decides
<1>3. ASSUME NEW t \in Ticks, CommitPayout(t) PROVE Balances'
  <2> DEFINE d == cur[t].job
             status == job[d].outcome
  <2>1. /\ d \in Disbursements /\ db[d] = "PENDING" /\ status \in {"SETTLED", "FAILED", "UNKNOWN"}
    BY <1>3, CommitRecords DEF Types, JobsOK, Job
  <2>2. db' = [db EXCEPT ![d] = status] /\ allocation' = Balance(status)
    BY <1>3 DEF CommitPayout
  <2>a. db \in [Disbursements -> Statuses]
    BY DEF Types, JobsOK
  <2> HIDE DEF d, status
  <2>3. \A S : Having(S)' = IF db[d] \in S
                            THEN IF status \in S THEN Having(S) ELSE Having(S) - 1
                            ELSE IF status \in S THEN Having(S) + 1 ELSE Having(S)
    BY <2>1, <2>2, <2>a, HavingMoves
  <2>4. Having(Undecided) \in Nat /\ Having({"SETTLED"}) \in Nat
    BY HavingNat
  <2>5. /\ Having(Undecided)' = IF status = "UNKNOWN" THEN Having(Undecided)
                                ELSE Having(Undecided) - 1
        /\ Having({"SETTLED"})' = IF status = "SETTLED" THEN Having({"SETTLED"}) + 1
                                  ELSE Having({"SETTLED"})
    BY <2>1, <2>3 DEF Undecided
  <2> QED
    BY <2>1, <2>2, <2>4, <2>5 DEF Balances, Balance, Settle, Outcome
<1>4. ASSUME NEW o \in Operators, CommitReconciliation(o) PROVE Balances'
  <2> DEFINE d == cur[o].job
  <2>1. d \in Disbursements /\ db[d] = "UNKNOWN" /\ Final(d) = "SETTLED"
    BY <1>4, ReconciliationRecords
  <2>2. db' = [db EXCEPT ![d] = "SETTLED"] /\ allocation' = Settle(allocation, "SETTLED")
    BY <1>4, <2>1 DEF CommitReconciliation
  <2>3. \A S : Having(S)' = IF db[d] \in S
                            THEN IF "SETTLED" \in S THEN Having(S) ELSE Having(S) - 1
                            ELSE IF "SETTLED" \in S THEN Having(S) + 1 ELSE Having(S)
    BY <2>1, <2>2, HavingMoves DEF Types, JobsOK
  <2>4. Having(Undecided)' = Having(Undecided) - 1 /\ Having({"SETTLED"})' = Having({"SETTLED"}) + 1
    BY <2>1, <2>3 DEF Undecided
  <2> QED
    BY <2>2, <2>4 DEF Balances, Settle, Outcome
<1> QED
  BY <1>1, <1>2, <1>3, <1>4, StepKinds DEF vars, tables

LEMMA BalancesInvariant == Spec => []Balances
<1>1. Init => Balances
  <2> SUFFICES ASSUME Init PROVE Balances
    OBVIOUS
  <2>1. /\ {d \in Disbursements : db[d] \in Undecided} = Disbursements
        /\ {d \in Disbursements : db[d] \in {"SETTLED"}} = {}
    BY DEF Init, Undecided
  <2>2. Cardinality({}) = 0
    BY FS_EmptySet
  <2> QED
    BY <2>1, <2>2 DEF Init, Balances, Having
<1> QED
  BY <1>1, BalancesStep, Invariant, PTL DEF Spec

\* reserved_paise and disbursed_paise account for each payout exactly once, whatever
\* crashes, retries and reconciliations.
THEOREM BooksBalance == Spec => []BalancesMatch
<1>1. Balances => BalancesMatch
  BY DEF Balances, BalancesMatch, Undecided
<1> QED
  BY <1>1, BalancesInvariant, PTL

\* Every variable keeps its type; in particular no reservation goes below zero.
THEOREM TypeCorrect == Spec => []TypeOK
<1>1. Types /\ Balances => TypeOK
  BY HavingNat
     DEF Types, ControlOK, JobsOK, RestOK, Balances, TypeOK, Statuses, Reviews, Phases, Places
<1> QED
  BY <1>1, Invariant, BalancesInvariant, PTL

LEMMA BooksStep == Types /\ Core /\ [Next]_vars => [Books!BooksNext]_<<ledger, db>>
<1> SUFFICES ASSUME Types, Core, [Next]_vars PROVE [Books!BooksNext]_<<ledger, db>>
  OBVIOUS
<1>1. ASSUME Effect PROVE Books!BooksNext \/ UNCHANGED <<ledger, db>>
  <2>1. CASE UNCHANGED <<ledger, db>>
    BY <2>1
  <2>2. ASSUME NEW d \in Disbursements, Decides(d) PROVE Books!BooksNext
    <3>1. job[d].outcome \in {"SETTLED", "FAILED", "UNKNOWN"}
      BY DEF Types, JobsOK, Job
    <3>2. Final(d) \in {"SETTLED", "FAILED"}
      BY <3>1 DEF Final
    <3>3. Books!Finalize(d)
      BY <2>2, <3>2 DEF Decides, Books!Finalize
    <3> QED
      BY <3>3 DEF Books!BooksNext
  <2> QED
    BY <1>1, <2>1, <2>2 DEF Effect, Leaves, Enters
<1>2. ASSUME NEW t \in Ticks, CommitPayout(t) PROVE Books!BooksNext
  <2> DEFINE d == cur[t].job
             status == job[d].outcome
  <2>1. /\ d \in Disbursements /\ db[d] = "PENDING" /\ Records(t, d, status)
    BY <1>2, CommitRecords
  <2>2. CASE status = "UNKNOWN"
    <3>1. ledger[d] = "PENDING"
      BY <2>1, <2>2 DEF Core, Deciding, TableFollows
    <3>2. Books!Defer(d)
      BY <2>1, <2>2, <3>1 DEF Records, Books!Defer
    <3> QED
      BY <2>1, <3>2 DEF Books!BooksNext
  <2>3. CASE status \in {"SETTLED", "FAILED"} /\ ledger[d] = status
    <3>1. Books!Record(d)
      BY <2>1, <2>3 DEF Records, Books!Record
    <3> QED
      BY <2>1, <3>1 DEF Books!BooksNext
  <2> QED
    BY <2>1, <2>2, <2>3 DEF Records
<1>3. ASSUME NEW o \in Operators, CommitReconciliation(o) PROVE Books!BooksNext
  <2>1. /\ cur[o].job \in Disbursements /\ db[cur[o].job] = "UNKNOWN"
        /\ Records(o, cur[o].job, "SETTLED")
    BY <1>3, ReconciliationRecords
  <2>2. Books!Record(cur[o].job)
    BY <2>1 DEF Records, Books!Record
  <2> QED
    BY <2>1, <2>2 DEF Books!BooksNext
<1> QED
  BY <1>1, <1>2, <1>3, StepKinds DEF vars, tables, chain

\* The worker, its retries and the operators implement the two books: the ledger
\* decides once, and the table only ever takes over what it decided.
THEOREM BooksImplemented == Spec => ImplementsBooks
<1>1. Init => Books!BooksInit
  BY DEF Init, Books!BooksInit
<1> QED
  BY <1>1, BooksStep, Invariant, PTL DEF Spec, ImplementsBooks, Books!BooksSpec
-----------------------------------------------------------------------------
(***************************************************************************)
(* No open job is out of sight of both the workers and the operators.      *)
(***************************************************************************)
Seen(row, review) == ~row.completed =>
  IF row.status = "DEAD_LETTERED"
  THEN review # "none"
  ELSE row.status \in {"QUEUED", "LEASED"} /\ row.attempts < MaxAttempts

\* What the steps write into a row, and when it is seen.
LEMMA RowsSeen ==
  ASSUME NEW row \in Job, NEW review
  PROVE  /\ row.completed => Seen(row, review)
         /\ row.status = "LEASED" /\ Seen(row, review) => Seen(Requeued(row), review)
         /\ review # "none" => Seen(DeadLettered(row), review)
         /\ \A n \in Nat : n < MaxAttempts =>
              Seen([Requeued(row) EXCEPT !.attempts = n], review)
         /\ \A w \in Workers : row.attempts < MaxAttempts =>
              Seen([row EXCEPT !.status = "LEASED", !.leasedBy = w, !.expired = FALSE], review)
         /\ Seen([Requeued(row) EXCEPT !.status = "COMPLETED", !.completed = TRUE], review)
         /\ Seen(Completed(row), review)
         /\ Seen(row, review) =>
              /\ Seen([row EXCEPT !.expired = TRUE], review)
              /\ Seen([row EXCEPT !.leasedBy = None], review)
<1>1. /\ row.completed => Seen(row, review)
      /\ row.status = "LEASED" /\ Seen(row, review) => Seen(Requeued(row), review)
  BY DEF Seen, Requeued, Job
<1>2. review # "none" => Seen(DeadLettered(row), review)
  BY DEF Seen, DeadLettered, Requeued, Job
<1>3. \A n \in Nat : n < MaxAttempts => Seen([Requeued(row) EXCEPT !.attempts = n], review)
  BY DEF Seen, Requeued, Job
<1>4. \A w \in Workers : row.attempts < MaxAttempts =>
        Seen([row EXCEPT !.status = "LEASED", !.leasedBy = w, !.expired = FALSE], review)
  BY DEF Seen, Job
<1>5. /\ Seen([Requeued(row) EXCEPT !.status = "COMPLETED", !.completed = TRUE], review)
      /\ Seen(Completed(row), review)
  BY DEF Seen, Requeued, Completed, Job
<1>6. Seen(row, review) => /\ Seen([row EXCEPT !.expired = TRUE], review)
                           /\ Seen([row EXCEPT !.leasedBy = None], review)
  BY DEF Seen, Job
<1> QED
  BY <1>1, <1>2, <1>3, <1>4, <1>5, <1>6

\* A step that writes one row, or some rows and no dead letter.
LEMMA OneRowSeen ==
  ASSUME Types, NoJobStranded, NEW d \in Disbursements, NEW row, job' = [job EXCEPT ![d] = row],
         \/ letter' = letter
         \/ \E review \in Reviews : letter' = [letter EXCEPT ![d] = review],
         Seen(row, letter'[d])
  PROVE  NoJobStranded'
<1>1. job'[d] = row
  BY DEF Types, JobsOK
<1>2. \A e \in Disbursements \ {d} : job'[e] = job[e] /\ letter'[e] = letter[e]
  BY DEF Types, JobsOK
<1> QED
  BY <1>1, <1>2 DEF NoJobStranded, Seen

LEMMA SomeRowsSeen ==
  ASSUME letter' = letter, \A d \in Disbursements : Seen(job'[d], letter[d])
  PROVE  NoJobStranded'
BY DEF NoJobStranded, Seen

LEMMA TickStranding ==
  ASSUME Types, Core, NoJobStranded, NEW t \in Ticks, TickStep(t) \/ TickFault(t)
  PROVE  NoJobStranded'
<1>a. \A d \in Disbursements : job[d] \in Job /\ letter[d] \in Reviews /\ Seen(job[d], letter[d])
  BY DEF Types, JobsOK, NoJobStranded, Seen
<1>b. t \in Procs /\ ProcessOf[t] \in Workers
  BY ProcessAssumption DEF Procs
<1>1. ASSUME UNCHANGED <<job, letter>> PROVE NoJobStranded'
  BY <1>1 DEF NoJobStranded
<1>2. CASE cleanupExpiredLeases(t)
  <2>1. /\ letter' = letter
        /\ job' = [d \in Disbursements |-> IF ExpiredLease(d) THEN Requeued(job[d]) ELSE job[d]]
    BY <1>2 DEF cleanupExpiredLeases
  <2>2. \A d \in Disbursements : Seen(job'[d], letter[d])
    BY <1>a, <2>1, RowsSeen DEF ExpiredLease
  <2> QED
    BY <2>1, <2>2, SomeRowsSeen
<1>3. ASSUME NEW leased \in SUBSET Disbursements, leaseJobs(t, leased) PROVE NoJobStranded'
  <2> DEFINE Taken(d) ==
        [job[d] EXCEPT !.status = "LEASED", !.leasedBy = ProcessOf[t], !.expired = FALSE]
  <2>1. /\ letter' = letter /\ \A d \in leased : job[d].attempts < MaxAttempts
        /\ job' = [d \in Disbursements |-> IF d \in leased THEN Taken(d) ELSE job[d]]
    BY <1>3 DEF leaseJobs, Leasable
  <2>2. \A d \in leased : Seen(Taken(d), letter[d])
    BY <1>a, <1>b, <2>1, RowsSeen
  <2>3. \A d \in Disbursements : Seen(job'[d], letter[d])
    BY <1>a, <2>1, <2>2
  <2> QED
    BY <2>1, <2>3, SomeRowsSeen
<1>4. CASE handleJobFailure(t)
  <2> DEFINE d == cur[t].job
  <2>1. pc[t] \in NeedsJob
    BY <1>4 DEF handleJobFailure, NeedsJob
  <2>2. d \in Disbursements /\ cur[t].attempts \in Nat
    BY <1>b, <2>1 DEF Types, ControlOK, Leased
  <2>3. CASE ~Exhausted(cur[t]) /\ scheduleRetry(cur[t])
    <3>1. cur[t].attempts + 1 < MaxAttempts /\ cur[t].attempts + 1 \in Nat
      BY <2>2, <2>3, BoundsAssumption DEF Exhausted
    <3>2. Seen([Requeued(job[d]) EXCEPT !.attempts = cur[t].attempts + 1], letter[d])
      <4>1. job[d] \in Job
        BY <1>a, <2>2
      <4> HIDE DEF d
      <4> QED
        BY <3>1, <4>1, RowsSeen
    <3>3. /\ letter' = letter
          /\ job' = [job EXCEPT ![d] = [Requeued(job[d]) EXCEPT !.attempts = cur[t].attempts + 1]]
      BY <2>3 DEF scheduleRetry
    <3> HIDE DEF d
    <3> QED
      BY <2>2, <3>2, <3>3, OneRowSeen
  <2>4. CASE moveToDeadLetter(cur[t])
    <3> DEFINE review == IF letter[d] = "none" THEN "open" ELSE letter[d]
    <3>1. review \in Reviews /\ review # "none"
      BY <1>a, <2>2 DEF Reviews
    <3>2. letter' = [letter EXCEPT ![d] = review] /\ job' = [job EXCEPT ![d] = DeadLettered(job[d])]
      BY <2>4 DEF moveToDeadLetter
    <3>3. letter'[d] = review
      BY <2>2, <3>2 DEF Types, JobsOK
    <3>4. Seen(DeadLettered(job[d]), letter'[d])
      <4>1. job[d] \in Job /\ letter'[d] # "none"
        BY <1>a, <2>2, <3>1, <3>3
      <4> HIDE DEF d, review
      <4> QED
        BY <4>1, RowsSeen
    <3> HIDE DEF d, review
    <3> QED
      BY <2>2, <3>1, <3>2, <3>4, OneRowSeen
  <2> QED
    BY <1>4, <2>3, <2>4 DEF handleJobFailure
<1>5. CASE CommitPayout(t)
  <2>1. cur[t].job \in Disbursements
    BY <1>5, CommitRecords
  <2>2. Seen(Completed(job[cur[t].job]), letter[cur[t].job])
    BY <1>a, <2>1, RowsSeen
  <2>3. letter' = letter /\ job' = [job EXCEPT ![cur[t].job] = Completed(job[cur[t].job])]
    BY <1>5 DEF CommitPayout
  <2> QED
    BY <2>1, <2>2, <2>3, OneRowSeen
<1>6. CASE \/ \E leased \in batch[t] : LockJob(t, leased)
           \/ LockPayout(t) \/ SubmitPayout(t) \/ Ledger(t) \/ TickFault(t)
  BY <1>1, <1>6
     DEF LockJob, LockPayout, SubmitPayout, Ledger, Endorse, CommitOnLedger, TickFault,
         PayoutRefused, AbandonBatch, tables
<1> QED
  <2>1. {} \in SUBSET Disbursements
    OBVIOUS
  <2> QED
    BY <1>2, <1>3, <1>4, <1>5, <1>6, <2>1 DEF TickStep, LeaseSome

LEMMA StrandingStep ==
  ASSUME Types, Core, NoJobStranded, [Next]_vars PROVE NoJobStranded'
<1>a. \A d \in Disbursements : job[d] \in Job /\ Seen(job[d], letter[d])
  BY DEF Types, JobsOK, NoJobStranded, Seen
<1>1. ASSUME UNCHANGED <<job, letter>> PROVE NoJobStranded'
  BY <1>1 DEF NoJobStranded
<1>2. ASSUME NEW o \in Operators, CallStep(o) \/ CallStart(o) PROVE NoJobStranded'
  <2>1. CASE retryDeadLetter(o) \/ resolveDeadLetter(o)
    <3> DEFINE d == cur[o].job
               again == [Requeued(job[d]) EXCEPT !.attempts = 0]
               closed == [Requeued(job[d]) EXCEPT !.status = "COMPLETED", !.completed = TRUE]
    <3>1. d \in Disbursements
      BY <2>1, JobOf DEF retryDeadLetter, resolveDeadLetter, NeedsJob, Types, Procs
    <3>2. /\ job' = [job EXCEPT ![d] = again] \/ job' = [job EXCEPT ![d] = closed]
          /\ \E review \in Reviews : letter' = [letter EXCEPT ![d] = review]
      BY <2>1 DEF retryDeadLetter, resolveDeadLetter, CloseDeadLetter, Reviews
    <3>3. 0 \in Nat /\ 0 < MaxAttempts
      BY BoundsAssumption
    <3>4. Seen(again, letter'[d]) /\ Seen(closed, letter'[d])
      BY <1>a, <3>1, <3>3, RowsSeen
    <3>5. \E row : job' = [job EXCEPT ![d] = row] /\ Seen(row, letter'[d])
      BY <3>2, <3>4
    <3> HIDE DEF d
    <3> QED
      BY <3>1, <3>2, <3>5, OneRowSeen
  <2>2. CASE Ledger(o) \/ CommitReconciliation(o) \/ CallStart(o)
    BY <1>1, <2>2
       DEF Ledger, Endorse, CommitOnLedger, CommitReconciliation, CallStart, ReadDeadLetter,
           reconcile, tables
  <2> QED
    BY <1>2, <2>1, <2>2 DEF CallStep
<1>3. ASSUME NEW d \in Disbursements, ExpireLease(d) PROVE NoJobStranded'
  <2>1. letter' = letter /\ job' = [job EXCEPT ![d] = [job[d] EXCEPT !.expired = TRUE]]
    BY <1>3 DEF ExpireLease
  <2>2. Seen([job[d] EXCEPT !.expired = TRUE], letter[d])
    BY <1>a, RowsSeen
  <2> QED
    BY <2>1, <2>2, OneRowSeen
<1>4. ASSUME NEW w \in Workers, releaseLeases(w) PROVE NoJobStranded'
  <2>1. /\ letter' = letter
        /\ job' = [d \in Disbursements |-> IF LeasedBy(d, w) THEN Requeued(job[d]) ELSE job[d]]
    BY <1>4 DEF releaseLeases
  <2>2. \A d \in Disbursements : Seen(job'[d], letter[d])
    BY <1>a, <2>1, RowsSeen DEF LeasedBy
  <2> QED
    BY <2>1, <2>2, SomeRowsSeen
<1>5. ASSUME NEW w \in Workers, Restart(w) PROVE NoJobStranded'
  <2> DEFINE Freed(d) == [job[d] EXCEPT !.leasedBy = None]
  <2>1. /\ letter' = letter
        /\ job' = [d \in Disbursements |-> IF LeasedBy(d, w) THEN Freed(d) ELSE job[d]]
    BY <1>5 DEF Restart
  <2>2. \A d \in Disbursements : Seen(Freed(d), letter[d])
    BY <1>a, RowsSeen
  <2>3. \A d \in Disbursements : Seen(job'[d], letter[d])
    BY <1>a, <2>1, <2>2
  <2> QED
    BY <2>1, <2>3, SomeRowsSeen
<1>6. CASE \/ \E p \in Procs : ProcFault(p)
           \/ \E d \in Disbursements : OrphanCommits(d)
           \/ \E w \in Workers : Shutdown(w)
           \/ UNCHANGED vars
  BY <1>1, <1>6
     DEF ProcFault, EndorseFails, CommitStatusLost, RollBack, OrphanCommits, Shutdown, vars, tables
<1> QED
  BY <1>2, <1>3, <1>4, <1>5, <1>6, TickStranding DEF Next, Crash, Exit

\* However many copies of its row are at large, an open job is either still to be
\* leased, with attempts left, or has a dead letter for the operators.
THEOREM NoneStranded == Spec => []NoJobStranded
<1>1. Init => NoJobStranded
  BY BoundsAssumption DEF Init, NoJobStranded
<1>2. Types /\ Core /\ NoJobStranded /\ [Next]_vars => NoJobStranded'
  BY StrandingStep
<1> QED
  BY <1>1, <1>2, Invariant, PTL DEF Spec
-----------------------------------------------------------------------------
(***************************************************************************)
(* A dead letter that comes back.                                          *)
(***************************************************************************)
\* No process has d at hand, and no worker or operator may take it.
Untouched(d) ==
  /\ \A p \in Procs : cur[p] # None => cur[p].job # d
  /\ \A t \in Ticks : \A leased \in batch[t] : leased.job # d

Sits(d) ==
  ~job[d].completed /\ job[d].status = "DEAD_LETTERED" /\ letter[d] # "open" /\ Untouched(d)

\* The jobs that break DeadLettersReviewable and that no process holds.
Abandoned == {d \in Disbursements : Sits(d)}

\* None is no copy of a job.
LEMMA NoneNotLeased == \A x \in Leased : x # None
BY NoneAssumption DEF Leased

LEMMA SameRow ==
  ASSUME NEW d \in Disbursements, Sits(d), job'[d] = job[d], letter'[d] = letter[d],
         db'[d] = db[d], Untouched(d)'
  PROVE  Sits(d)' /\ db'[d] = db[d]
BY DEF Sits

\* A process that goes on with the jobs it has does not come to d.
LEMMA GoesOn ==
  ASSUME ControlOK, NEW d, Untouched(d), NEW p \in Procs,
         \/ cur' = cur
         \/ cur' = [cur EXCEPT ![p] = None]
         \/ \E x \in Leased : x.job # d /\ cur' = [cur EXCEPT ![p] = x],
         \/ batch' = batch
         \/ p \in Ticks /\ \E b \in SUBSET batch[p] : batch' = [batch EXCEPT ![p] = b]
  PROVE  Untouched(d)'
BY DEF ControlOK, Untouched

\* What the processes do with other jobs.
LEMMA TickPasses ==
  ASSUME Types, Core, NEW d \in Disbursements, Sits(d),
         NEW t \in Ticks, TickStep(t) \/ TickFault(t)
  PROVE  Sits(d)' /\ db'[d] = db[d]
<1> USE DEF Types
<1>a. t \in Procs /\ (pc[t] \in NeedsJob => cur[t].job # d /\ cur[t].job \in Disbursements)
  BY JobOf, NoneNotLeased DEF Procs, Sits, Untouched, ControlOK
<1>1. CASE cleanupExpiredLeases(t)
  <2>1. job'[d] = job[d] /\ UNCHANGED <<letter, db, cur, batch>>
    BY <1>1 DEF cleanupExpiredLeases, ExpiredLease, Sits
  <2> QED BY <1>a, <2>1, GoesOn, SameRow DEF Sits
<1>2. ASSUME NEW leased \in SUBSET Disbursements, leaseJobs(t, leased)
      PROVE  Sits(d)' /\ db'[d] = db[d]
  <2>1. d \notin leased
    BY <1>2 DEF leaseJobs, Leasable, Sits
  <2>2. job'[d] = job[d] /\ UNCHANGED <<letter, db, cur>>
    BY <1>2, <2>1 DEF leaseJobs
  <2>3. batch' = [batch EXCEPT ![t] = {[job |-> e, attempts |-> job[e].attempts] : e \in leased}]
    BY <1>2 DEF leaseJobs
  <2>4. Untouched(d)'
    BY <2>1, <2>2, <2>3 DEF Untouched, Sits, ControlOK
  <2> QED BY <2>2, <2>4, SameRow
<1>3. CASE handleJobFailure(t)
  <2>1. pc[t] \in NeedsJob /\ NextJob(t, cur[t]) /\ UNCHANGED db
    BY <1>3 DEF handleJobFailure, NeedsJob
  <2>2. job'[d] = job[d] /\ letter'[d] = letter[d]
    BY <1>3, <1>a, <2>1 DEF handleJobFailure, moveToDeadLetter, scheduleRetry, JobsOK
  <2>3. Untouched(d)'
    BY <1>a, <2>1, GoesOn DEF NextJob, Sits
  <2> QED BY <2>1, <2>2, <2>3, SameRow
<1>4. CASE CommitPayout(t)
  <2>1. pc[t] \in NeedsJob /\ (NextJob(t, cur[t]) \/ Abort(t)) /\ UNCHANGED letter
    BY <1>4 DEF CommitPayout, NeedsJob, Finalizing
  <2>2. job'[d] = job[d] /\ db'[d] = db[d]
    BY <1>4, <1>a, <2>1 DEF CommitPayout, JobsOK
  <2>3. Untouched(d)'
    BY <1>a, <2>1, GoesOn DEF NextJob, Abort, Sits
  <2> QED BY <2>1, <2>2, <2>3, SameRow
<1>5. CASE \/ \E leased \in batch[t] : LockJob(t, leased)
           \/ LockPayout(t) \/ SubmitPayout(t) \/ Ledger(t) \/ TickFault(t)
  <2>1. UNCHANGED <<job, letter, db>>
    BY <1>5 DEF LockJob, LockPayout, SubmitPayout, Ledger, Endorse, CommitOnLedger, TickFault,
       PayoutRefused, AbandonBatch, tables
  <2>2. \/ cur' = cur \/ cur' = [cur EXCEPT ![t] = None]
        \/ \E x \in Leased : x.job # d /\ cur' = [cur EXCEPT ![t] = x]
    BY <1>5 DEF LockJob, LockPayout, SubmitPayout, Ledger, Endorse, CommitOnLedger, TickFault,
       PayoutRefused, AbandonBatch, NextJob, Abort, Sits, Untouched, ControlOK
  <2>3. batch' = batch \/ \E b \in SUBSET batch[t] : batch' = [batch EXCEPT ![t] = b]
    BY <1>5 DEF LockJob, LockPayout, SubmitPayout, Ledger, Endorse, CommitOnLedger, TickFault,
       PayoutRefused, AbandonBatch, NextJob, Abort
  <2>4. Untouched(d)'
    BY <1>a, <2>2, <2>3, GoesOn DEF Sits
  <2> QED BY <2>1, <2>4, SameRow
<1> QED
  <2>1. {} \in SUBSET Disbursements
    OBVIOUS
  <2> QED BY <1>1, <1>2, <1>3, <1>4, <1>5, <2>1 DEF TickStep, LeaseSome

LEMMA CallPasses ==
  ASSUME Types, Core, NEW d \in Disbursements, Sits(d),
         NEW o \in Operators, CallStep(o) \/ CallStart(o)
  PROVE  Sits(d)' /\ db'[d] = db[d]
<1> USE DEF Types
<1>a. o \in Procs /\ (pc[o] \in NeedsJob => cur[o].job # d /\ cur[o].job \in Disbursements)
  BY JobOf, NoneNotLeased DEF Procs, Sits, Untouched, ControlOK
<1>b. db[d] = "PENDING"
  BY DEF Core, JobsMatchOutcomes, Sits
<1>1. CASE retryDeadLetter(o) \/ resolveDeadLetter(o) \/ CommitReconciliation(o)
  <2>1. pc[o] \in NeedsJob /\ cur' = [cur EXCEPT ![o] = None] /\ UNCHANGED batch
    BY <1>1 DEF retryDeadLetter, resolveDeadLetter, CommitReconciliation, CloseDeadLetter,
       NeedsJob, Finalizing
  <2>2. job'[d] = job[d] /\ letter'[d] = letter[d] /\ db'[d] = db[d]
    BY <1>1, <1>a, <2>1 DEF retryDeadLetter, resolveDeadLetter, CommitReconciliation,
       CloseDeadLetter, JobsOK
  <2>3. Untouched(d)'
    BY <1>a, <2>1, GoesOn DEF Sits
  <2> QED BY <2>2, <2>3, SameRow
<1>2. CASE Ledger(o)
  <2>1. /\ UNCHANGED <<job, letter, db, batch>>
        /\ cur' = cur \/ cur' = [cur EXCEPT ![o] = None]
    BY <1>2, ProcessAssumption DEF Ledger, Endorse, CommitOnLedger, Abort, tables
  <2>2. Untouched(d)'
    BY <1>a, <2>1, GoesOn DEF Sits
  <2> QED BY <2>1, <2>2, SameRow
<1>3. CASE CallStart(o)
  <2>1. PICK e \in Disbursements :
          \/ \E doing \in {"retrying", "resolving"} : ReadDeadLetter(o, e, doing)
          \/ reconcile(o, e)
    BY <1>3 DEF CallStart
  <2>2. e # d /\ UNCHANGED <<job, letter, db, batch>>
    BY <1>b, <2>1 DEF ReadDeadLetter, reconcile, Sits, tables
  <2>3. cur' = [cur EXCEPT ![o] = [job |-> e, attempts |-> 0]]
    BY <2>1 DEF ReadDeadLetter, reconcile
  <2>4. [job |-> e, attempts |-> 0] \in Leased
    BY DEF Leased
  <2>5. Untouched(d)'
    BY <1>a, <2>2, <2>3, <2>4, GoesOn DEF Sits
  <2> QED BY <2>2, <2>5, SameRow
<1> QED BY <1>1, <1>2, <1>3 DEF CallStep

LEMMA AbandonedStays ==
  ASSUME Types, Core, NEW d \in Disbursements, Sits(d), [Next]_vars
  PROVE  Sits(d)' /\ db'[d] = db[d]
<1> USE DEF Types
<1>1. ASSUME NEW p \in Procs, ProcFault(p) PROVE Sits(d)' /\ db'[d] = db[d]
  <2>1. /\ UNCHANGED <<job, letter, db, batch>>
        /\ cur' = cur \/ cur' = [cur EXCEPT ![p] = None]
    BY <1>1 DEF ProcFault, EndorseFails, CommitStatusLost, RollBack, Abort, tables
  <2>2. Untouched(d)'
    BY <2>1, GoesOn DEF Sits
  <2> QED BY <2>1, <2>2, SameRow
<1>2. ASSUME NEW e \in Disbursements, ExpireLease(e) PROVE Sits(d)' /\ db'[d] = db[d]
  <2>1. e # d /\ job'[d] = job[d] /\ UNCHANGED <<letter, db, cur, batch>>
    BY <1>2 DEF ExpireLease, Sits, JobsOK, control
  <2> QED BY <2>1, SameRow DEF Sits, Untouched
<1>3. ASSUME NEW w \in Workers, releaseLeases(w) PROVE Sits(d)' /\ db'[d] = db[d]
  <2>1. job'[d] = job[d] /\ UNCHANGED <<letter, db, cur, batch>>
    BY <1>3 DEF releaseLeases, LeasedBy, Sits, control
  <2> QED BY <2>1, SameRow DEF Sits, Untouched
<1>4. ASSUME NEW w \in Workers, Restart(w) PROVE Sits(d)' /\ db'[d] = db[d]
  <2>1. job'[d] = job[d] /\ UNCHANGED <<letter, db>>
    BY <1>4 DEF Restart, LeasedBy, Sits
  <2>2. Untouched(d)'
    BY <1>4 DEF Restart, Untouched, Sits
  <2> QED BY <2>1, <2>2, SameRow
<1>5. CASE \/ \E e \in Disbursements : OrphanCommits(e)
           \/ \E w \in Workers : Shutdown(w)
           \/ UNCHANGED vars
  <2>1. UNCHANGED <<job, letter, db, cur, batch>>
    BY <1>5 DEF OrphanCommits, Shutdown, vars, tables, control
  <2> QED BY <2>1, SameRow DEF Sits, Untouched
<1> QED BY <1>1, <1>2, <1>3, <1>4, <1>5, TickPasses, CallPasses DEF Next, Crash, Exit

\* The defect of DeadLettersReviewable does not heal: a job that is dead-lettered after
\* its dead letter was retried is lost once no process has a copy of it.  However many
\* workers, operators and restarts come after, its payout stays PENDING and its amount
\* reserved.
THEOREM AbandonedForever ==
  Spec => [][\A d \in Abandoned : d \in Abandoned' /\ db'[d] = db[d]]_vars
<1>1. Types /\ Core /\ [Next]_vars =>
        [\A d \in Abandoned : d \in Abandoned' /\ db'[d] = db[d]]_vars
  BY AbandonedStays DEF Abandoned
<1> QED BY <1>1, Invariant, PTL DEF Spec
-----------------------------------------------------------------------------
(***************************************************************************)
(* Row locks: the job first, then the allocation, and never two of a kind. *)
(***************************************************************************)
\* The loop of processBatch has a job to go on with, and the job being finalized is
\* one of its own.
BatchesOK ==
  \A t \in Ticks :
    /\ pc[t] = "working" => batch[t] # {}
    /\ pc[t] \in Holding \cup {"failed"} => cur[t] \in batch[t]

\* No row lock stands in the way of the next statement of p.
CanGo(p) ==
  /\ p \in Ticks /\ pc[p] = "working" => \E leased \in batch[p] : ~Locked(leased.job)
  /\ pc[p] \in {"failed", "retrying", "resolving"} => ~Locked(cur[p].job)
  /\ pc[p] = "waiting" \/ (pc[p] = "recording" /\ p \in Operators) => ~AllocationLocked

NoWaitingInACircle ==
  \A p \in Procs : ~CanGo(p) => \E t \in Ticks : pc[t] \in Holding /\ CanGo(t)

\* A step of p moves p, and takes or leaves jobs of its batch.
LEMMA OwnBatch ==
  ASSUME ControlOK, BatchesOK, NEW p \in Procs, NEW place, pc' = [pc EXCEPT ![p] = place],
         cur' = cur \/ \E x : cur' = [cur EXCEPT ![p] = x],
         batch' = batch \/ \E b : p \in Ticks /\ batch' = [batch EXCEPT ![p] = b],
         p \in Ticks /\ place = "working" => batch'[p] # {},
         p \in Ticks /\ place \in Holding \cup {"failed"} => cur'[p] \in batch'[p]
  PROVE  BatchesOK'
<1>1. pc'[p] = place /\ \A q \in Procs \ {p} : pc'[q] = pc[q] /\ cur'[q] = cur[q]
  BY DEF ControlOK
<1>2. \A t \in Ticks \ {p} : batch'[t] = batch[t] /\ t \in Procs
  BY DEF ControlOK, Procs
<1> QED
  BY <1>1, <1>2 DEF BatchesOK

LEMMA NextBatch ==
  ASSUME ControlOK, BatchesOK, NEW t \in Ticks, NEW leased \in batch[t], NextJob(t, leased)
  PROVE  BatchesOK'
<1> DEFINE place == IF batch[t] = {leased} THEN "idle" ELSE "working"
<1>1. /\ pc' = [pc EXCEPT ![t] = place] /\ cur' = [cur EXCEPT ![t] = None]
      /\ batch' = [batch EXCEPT ![t] = batch[t] \ {leased}]
  BY DEF NextJob, Goto
<1>2. batch'[t] = batch[t] \ {leased} /\ t \in Procs
  BY <1>1 DEF ControlOK, Procs
<1>3. place = "working" => batch'[t] # {}
  BY <1>2
<1>4. place \notin Holding \cup {"failed"}
  BY DEF Holding, Finalizing
<1> HIDE DEF place
<1> QED
  BY <1>1, <1>2, <1>3, <1>4, OwnBatch

LEMMA AbortBatch ==
  ASSUME ControlOK, BatchesOK, NEW p \in Procs, pc[p] \in Holding, Abort(p)
  PROVE  BatchesOK'
<1>1. CASE p \in Ticks
  <2>1. pc' = [pc EXCEPT ![p] = "failed"] /\ UNCHANGED <<cur, batch>>
    BY <1>1 DEF Abort, Goto
  <2>2. cur[p] \in batch[p]
    BY <1>1 DEF BatchesOK
  <2> QED
    BY <2>1, <2>2, OwnBatch
<1>2. CASE p \notin Ticks
  <2>1. pc' = [pc EXCEPT ![p] = "idle"] /\ cur' = [cur EXCEPT ![p] = None] /\ batch' = batch
    BY <1>2 DEF Abort, Goto
  <2> QED
    BY <1>2, <2>1, OwnBatch
<1> QED
  BY <1>1, <1>2

\* A tick goes on with the job it has.
LEMMA SameBatch ==
  ASSUME ControlOK, BatchesOK, NEW p \in Procs, pc[p] \in Holding, NEW place \in Holding,
         Goto(p, place), UNCHANGED <<cur, batch>>
  PROVE  BatchesOK'
<1>1. place # "working"
  BY DEF Holding, Finalizing
<1>2. p \in Ticks => cur[p] \in batch[p]
  BY DEF BatchesOK
<1> QED
  BY <1>1, <1>2, OwnBatch DEF Goto

LEMMA BatchesStep ==
  ASSUME Types, BatchesOK, [Next]_vars PROVE BatchesOK'
<1> USE DEF Types
<1>a. Ticks \subseteq Procs /\ Operators \subseteq Procs /\ \A o \in Operators : o \notin Ticks
  BY ProcessAssumption DEF Procs
<1>b. /\ Finalizing \subseteq Holding /\ "waiting" \in Holding
      /\ {"locked", "endorsing", "ordering", "recording"} \subseteq Holding
      /\ {"idle", "leasing", "working", "retrying", "resolving"} \cap (Holding \cup {"failed"}) = {}
  BY DEF Holding, Finalizing
<1>1. ASSUME UNCHANGED control PROVE BatchesOK'
  BY <1>1 DEF control, BatchesOK
<1>2. ASSUME NEW t \in Ticks, TickStep(t) \/ TickFault(t) PROVE BatchesOK'
  <2>1. CASE cleanupExpiredLeases(t)
    <3>1. pc' = [pc EXCEPT ![t] = "leasing"] /\ UNCHANGED <<cur, batch>>
      BY <2>1 DEF cleanupExpiredLeases, Goto
    <3> QED
      BY <1>a, <1>b, <3>1, OwnBatch
  <2>2. ASSUME NEW leased \in SUBSET Disbursements, leaseJobs(t, leased) PROVE BatchesOK'
    <3> DEFINE taken == {[job |-> d, attempts |-> job[d].attempts] : d \in leased}
               place == IF leased = {} THEN "idle" ELSE "working"
    <3>1. /\ pc' = [pc EXCEPT ![t] = place] /\ cur' = cur
          /\ batch' = [batch EXCEPT ![t] = taken]
      BY <2>2 DEF leaseJobs, Goto
    <3>2. batch'[t] = taken
      BY <3>1 DEF ControlOK
    <3>3. place = "working" => taken # {}
      OBVIOUS
    <3>4. place \notin Holding \cup {"failed"}
      BY <1>b
    <3> HIDE DEF taken, place
    <3> QED
      BY <1>a, <3>1, <3>2, <3>3, <3>4, OwnBatch
  <2>3. ASSUME NEW leased \in batch[t], LockJob(t, leased) PROVE BatchesOK'
    <3>1. CASE NextJob(t, leased)
      BY <3>1, NextBatch
    <3>2. CASE Goto(t, "waiting") /\ cur' = [cur EXCEPT ![t] = leased] /\ batch' = batch
      <4>1. cur'[t] = leased
        BY <1>a, <3>2 DEF ControlOK
      <4> QED
        BY <1>a, <1>b, <3>2, <4>1, OwnBatch DEF Goto
    <3> QED
      BY <2>3, <3>1, <3>2 DEF LockJob
  <2>4. CASE LockPayout(t)
    <3>1. pc[t] = "waiting" /\ cur[t] \in batch[t]
      BY <1>b, <2>4 DEF LockPayout, BatchesOK
    <3> QED
      BY <1>a, <1>b, <2>4, <3>1, NextBatch, SameBatch DEF LockPayout
  <2>5. CASE SubmitPayout(t)
    <3>1. \E place \in {"recording", "endorsing"} : Goto(t, place)
      BY <2>5 DEF SubmitPayout
    <3>2. pc[t] = "locked" /\ UNCHANGED <<cur, batch>>
      BY <2>5 DEF SubmitPayout
    <3> QED
      BY <1>a, <1>b, <3>1, <3>2, SameBatch
  <2>6. CASE CommitPayout(t)
    <3>1. pc[t] = "recording" /\ cur[t] \in batch[t]
      BY <1>b, <2>6 DEF CommitPayout, BatchesOK
    <3> QED
      BY <1>a, <1>b, <2>6, <3>1, NextBatch, AbortBatch DEF CommitPayout
  <2>7. CASE handleJobFailure(t)
    <3>1. cur[t] \in batch[t]
      BY <2>7 DEF handleJobFailure, BatchesOK
    <3> QED
      BY <2>7, <3>1, NextBatch DEF handleJobFailure
  <2>8. CASE AbandonBatch(t)
    <3>1. /\ pc' = [pc EXCEPT ![t] = "idle"] /\ cur' = [cur EXCEPT ![t] = None]
          /\ batch' = [batch EXCEPT ![t] = {}]
      BY <2>8 DEF AbandonBatch, Goto
    <3> QED
      BY <1>a, <1>b, <3>1, OwnBatch
  <2>9. CASE PayoutRefused(t)
    BY <1>a, <1>b, <2>9, AbortBatch DEF PayoutRefused
  <2>10. CASE Endorse(t) \/ CommitOnLedger(t)
    BY <1>a, <1>b, <2>10, AbortBatch, SameBatch DEF Endorse, CommitOnLedger
  <2> QED
    <3>1. {} \in SUBSET Disbursements
      OBVIOUS
    <3> QED
      BY <1>2, <2>1, <2>2, <2>3, <2>4, <2>5, <2>6, <2>7, <2>8, <2>9, <2>10, <3>1
         DEF TickStep, TickFault, LeaseSome, Ledger
<1>3. ASSUME NEW o \in Operators, CallStep(o) \/ CallStart(o) PROVE BatchesOK'
  <2>1. CASE Endorse(o) \/ CommitOnLedger(o)
    BY <1>a, <1>b, <2>1, AbortBatch, SameBatch DEF Endorse, CommitOnLedger
  <2>2. CASE retryDeadLetter(o) \/ resolveDeadLetter(o) \/ CommitReconciliation(o) \/ CallStart(o)
    <3>1. /\ \E place : pc' = [pc EXCEPT ![o] = place]
          /\ \E x : cur' = [cur EXCEPT ![o] = x]
          /\ batch' = batch
      BY <2>2 DEF retryDeadLetter, resolveDeadLetter, CloseDeadLetter, CommitReconciliation,
                  CallStart, ReadDeadLetter, reconcile, Goto
    <3> QED
      BY <1>a, <3>1, OwnBatch
  <2> QED
    BY <1>3, <2>1, <2>2 DEF CallStep, Ledger
<1>4. ASSUME NEW p \in Procs, ProcFault(p) PROVE BatchesOK'
  BY <1>b, <1>4, AbortBatch DEF ProcFault, EndorseFails, CommitStatusLost, RollBack
<1>5. ASSUME NEW w \in Workers, Restart(w) PROVE BatchesOK'
  <2>1. \A t \in Ticks : IF ProcessOf[t] = w
                         THEN pc'[t] = "idle"
                         ELSE pc'[t] = pc[t] /\ cur'[t] = cur[t] /\ batch'[t] = batch[t]
    BY <1>5, <1>a DEF Restart
  <2> QED
    BY <1>b, <2>1 DEF BatchesOK
<1>6. CASE \/ \E d \in Disbursements : ExpireLease(d) \/ OrphanCommits(d)
           \/ \E w \in Workers : Shutdown(w) \/ releaseLeases(w)
           \/ UNCHANGED vars
  BY <1>1, <1>6 DEF ExpireLease, OrphanCommits, Shutdown, releaseLeases, vars
<1> QED
  BY <1>2, <1>3, <1>4, <1>5, <1>6 DEF Next, Crash, Exit

LEMMA LocksEnd == Types /\ BatchesOK => NoWaitingInACircle
<1> SUFFICES ASSUME Types, BatchesOK, NEW p \in Procs, ~CanGo(p)
             PROVE  \E t \in Ticks : pc[t] \in Holding /\ CanGo(t)
  BY DEF NoWaitingInACircle
<1>a. \A t \in Ticks : t \notin Operators
  BY ProcessAssumption
<1>1. ASSUME NEW t \in Ticks, pc[t] \in Finalizing PROVE pc[t] \in Holding /\ CanGo(t)
  BY <1>a, <1>1 DEF CanGo, Holding, Finalizing
<1>2. CASE AllocationLocked
  BY <1>1, <1>2 DEF AllocationLocked
<1>3. CASE ~AllocationLocked
  <2>1. \E d : Locked(d)
    <3>1. CASE /\ p \in Ticks /\ pc[p] = "working"
               /\ \A leased \in batch[p] : Locked(leased.job)
      BY <3>1 DEF BatchesOK
    <3>2. CASE Locked(cur[p].job)
      BY <3>2
    <3> QED
      BY <1>3, <3>1, <3>2 DEF CanGo
  <2>2. PICK t \in Ticks : pc[t] \in Holding
    BY <2>1 DEF Locked, Holding
  <2>3. CanGo(t)
    BY <1>3, <2>2 DEF CanGo, Holding, Finalizing
  <2> QED
    BY <2>2, <2>3
<1> QED
  BY <1>2, <1>3

\* Whoever waits for a row lock of another: some tick holds one whose next statement
\* no lock stands in the way of.  Ticks, retries, resolutions and reconciliations
\* never wait for each other in a circle.
THEOREM LocksReleased == Spec => []NoWaitingInACircle
<1>1. Init => BatchesOK
  BY DEF Init, BatchesOK, Holding, Finalizing, Procs
<1>2. Types /\ Core /\ BatchesOK /\ [Next]_vars => BatchesOK'
  BY BatchesStep
<1>3. Types /\ Core /\ BatchesOK => NoWaitingInACircle
  BY LocksEnd
<1> QED
  BY <1>1, <1>2, <1>3, Invariant, PTL DEF Spec
-----------------------------------------------------------------------------
(***************************************************************************)
(* What PayoutBooks promises, and the worker therefore keeps.              *)
(***************************************************************************)
LedgerLife == INSTANCE PayoutLifecycle WITH status <- ledger, MaxPaise <- 1
TableLife  == INSTANCE PayoutLifecycle WITH status <- db, MaxPaise <- 1

TableTrustsLedger ==
  \A d \in Disbursements : db[d] \in {"SETTLED", "FAILED"} => db[d] = ledger[d]

BooksTypes ==
  /\ ledger \in [Disbursements -> {"PENDING", "SETTLED", "FAILED"}]
  /\ db \in [Disbursements -> Statuses]

\* One status moves along payoutTransitions.
LEMMA Moved ==
  ASSUME NEW d \in Disbursements, NEW to
  PROVE  /\ ledger[d] = "PENDING" /\ to \in {"SETTLED", "FAILED"}
              /\ ledger' = [ledger EXCEPT ![d] = to] => LedgerLife!LifecycleNext
         /\ \/ db[d] = "PENDING" /\ to \in {"SETTLED", "FAILED", "UNKNOWN"}
            \/ db[d] = "UNKNOWN" /\ to \in {"SETTLED", "FAILED"}
            => (db' = [db EXCEPT ![d] = to] => TableLife!LifecycleNext)
<1>1. /\ LedgerLife!payoutTransitions["PENDING"] = {"SETTLED", "FAILED", "UNKNOWN"}
      /\ "PENDING" \in LedgerLife!PayoutStates
  BY DEF LedgerLife!payoutTransitions, LedgerLife!PayoutStates
<1>2. /\ TableLife!payoutTransitions["PENDING"] = {"SETTLED", "FAILED", "UNKNOWN"}
      /\ TableLife!payoutTransitions["UNKNOWN"] = {"SETTLED", "FAILED"}
      /\ {"PENDING", "UNKNOWN"} \subseteq TableLife!PayoutStates
  BY DEF TableLife!payoutTransitions, TableLife!PayoutStates
<1>3. ASSUME ledger[d] = "PENDING", to \in {"SETTLED", "FAILED"},
             ledger' = [ledger EXCEPT ![d] = to]
      PROVE  LedgerLife!LifecycleNext
  BY <1>1, <1>3 DEF LedgerLife!LifecycleNext, LedgerLife!Transition
<1>4. ASSUME \/ db[d] = "PENDING" /\ to \in {"SETTLED", "FAILED", "UNKNOWN"}
             \/ db[d] = "UNKNOWN" /\ to \in {"SETTLED", "FAILED"},
             db' = [db EXCEPT ![d] = to]
      PROVE  TableLife!LifecycleNext
  BY <1>2, <1>4 DEF TableLife!LifecycleNext, TableLife!Transition
<1> QED
  BY <1>3, <1>4

LEMMA BooksKeep ==
  ASSUME BooksTypes, TableTrustsLedger, [Books!BooksNext]_<<ledger, db>>
  PROVE  /\ BooksTypes' /\ TableTrustsLedger'
         /\ [LedgerLife!LifecycleNext]_ledger /\ [TableLife!LifecycleNext]_db
<1>1. CASE UNCHANGED <<ledger, db>>
  BY <1>1 DEF BooksTypes, TableTrustsLedger
<1>2. ASSUME NEW d \in Disbursements, Books!Finalize(d)
      PROVE  /\ BooksTypes' /\ TableTrustsLedger'
             /\ LedgerLife!LifecycleNext /\ db' = db
  BY <1>2, Moved DEF Books!Finalize, BooksTypes, TableTrustsLedger
<1>3. ASSUME NEW d \in Disbursements, Books!Defer(d) \/ Books!Record(d)
      PROVE  /\ BooksTypes' /\ TableTrustsLedger'
             /\ TableLife!LifecycleNext /\ ledger' = ledger
  <2>1. PICK to :
          /\ db' = [db EXCEPT ![d] = to] /\ ledger' = ledger
          /\ \/ db[d] = "PENDING" /\ to = "UNKNOWN"
             \/ db[d] \in {"PENDING", "UNKNOWN"} /\ to \in {"SETTLED", "FAILED"} /\ to = ledger[d]
    BY <1>3 DEF Books!Defer, Books!Record, BooksTypes
  <2>2. BooksTypes' /\ TableTrustsLedger'
    BY <2>1 DEF BooksTypes, TableTrustsLedger, Statuses
  <2> QED
    BY <2>1, <2>2, Moved
<1> QED
  BY <1>1, <1>2, <1>3 DEF Books!BooksNext

LEMMA BooksPromise ==
  Books!BooksSpec =>
    /\ [][LedgerLife!LifecycleNext]_ledger /\ [][TableLife!LifecycleNext]_db
    /\ []TableTrustsLedger
<1>1. Books!BooksInit => BooksTypes /\ TableTrustsLedger
  BY DEF Books!BooksInit, BooksTypes, TableTrustsLedger, Statuses
<1> QED
  BY <1>1, BooksKeep, PTL DEF Books!BooksSpec

\* In both books a payout only moves along payoutTransitions of the contract, and an
\* outcome in the table is the one on the ledger: the worker's retries, crashes and
\* lost answers never pay a payout that failed, nor fail one that was paid.
THEOREM PayoutsLiveOnce ==
  Spec => /\ [][LedgerLife!LifecycleNext]_ledger /\ [][TableLife!LifecycleNext]_db
          /\ []TableTrustsLedger
BY BooksImplemented, BooksPromise, PTL DEF ImplementsBooks
=============================================================================
