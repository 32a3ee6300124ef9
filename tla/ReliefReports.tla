----------------------------- MODULE ReliefReports -----------------------------
(***************************************************************************)
(* What the public and the auditors are told: the reads of                 *)
(* PublicController and AuditController over the tables the services and   *)
(* the indexer write.  A read is one statement, so it sees one state of    *)
(* the tables; two reads of one page may see two.                          *)
(*                                                                         *)
(* The tables are those of a relief operation in which every source,       *)
(* allocation and payout has a fixed place, and amounts are units: a       *)
(* payout is one unit.  How a payout gets its status is in PayoutWorker,   *)
(* how it is created in ReliefServices; here a step of either is atomic.   *)
(***************************************************************************)
EXTENDS Integers, Sequences, FiniteSets, FiniteSetsExt

CONSTANTS
  Sources, SourceAmount,
  Allocations, AllocationAmount,
  SourceOf, DistrictOf,       \* of an allocation
  Payouts, AllocationOf,
  PersonOf,
  Cohort,                     \* fewest families of a district that is shown: 3
  PageSize,                   \* events on a page: 100
  MaxEvents,                  \* bound: events of the ledger
  None                        \* null: nothing was answered, or is selected

ASSUME ReportsAssumption ==
  /\ Cohort \in Nat \ {0} /\ PageSize \in Nat \ {0} /\ MaxEvents \in Nat
  /\ {SourceAmount, AllocationAmount} \subseteq Nat
  /\ IsFiniteSet(Sources) /\ IsFiniteSet(Allocations) /\ IsFiniteSet(Payouts)
  /\ \A a \in Allocations : SourceOf[a] \in Sources

VARIABLES
  made,             \* the allocations in the table
  status,           \* disbursements: the status of a payout, or "none"
  events            \* ledger_events: what each is about, by sequence

tables == <<made, status, events>>

ReportsInit ==
  /\ made = {}
  /\ status = [p \in Payouts |-> "none"]
  /\ events = <<>>

Recorded(entity) == Len(events) < MaxEvents /\ events' = Append(events, entity)

allocate(a) ==
  /\ a \notin made
  /\ Cardinality({b \in made : SourceOf[b] = SourceOf[a]}) * AllocationAmount
       + AllocationAmount <= SourceAmount
  /\ made' = made \cup {a} /\ Recorded("allocation") /\ UNCHANGED status

PayoutsOf(as, statuses) ==
  {p \in Payouts : AllocationOf[p] \in as /\ status[p] \in statuses}

\* A payout whose outcome is not known keeps what it has reserved.
Reserved(as) == Cardinality(PayoutsOf(as, {"PENDING", "UNKNOWN"}))
Disbursed(as) == Cardinality(PayoutsOf(as, {"SETTLED"}))

Affords(a) == Reserved({a}) + Disbursed({a}) + 1 <= AllocationAmount

initiate(p) ==
  /\ status[p] = "none" /\ AllocationOf[p] \in made /\ Affords(AllocationOf[p])
  /\ status' = [status EXCEPT ![p] = "PENDING"] /\ Recorded("payout") /\ UNCHANGED made

Successors(s) ==
  CASE s = "PENDING" -> {"SETTLED", "FAILED", "UNKNOWN"}
    [] s = "UNKNOWN" -> {"SETTLED", "FAILED"}
    [] s = "SETTLED" -> {"REVERSED"}
    [] OTHER -> {}

\* UNKNOWN is a state of the table alone: the ledger has no event for it.
decide(p, s) ==
  /\ s \in Successors(status[p])
  /\ status' = [status EXCEPT ![p] = s]
  /\ IF s = "UNKNOWN" THEN UNCHANGED events ELSE Recorded("payout")
  /\ UNCHANGED made

ReportsStep ==
  \/ \E a \in Allocations : allocate(a)
  \/ \E p \in Payouts : initiate(p) \/ \E s \in Successors(status[p]) : decide(p, s)
-----------------------------------------------------------------------------
(***************************************************************************)
(* PublicController.                                                       *)
(***************************************************************************)
Paid == {"PENDING", "SETTLED", "FAILED", "UNKNOWN", "REVERSED"}
Pending(as) == Cardinality(PayoutsOf(as, {"PENDING"}))

SummaryOf(pending, disbursed) ==
  LET received == SourceAmount * Cardinality(Sources)
  IN  [received |-> received,
       allocated |-> AllocationAmount * Cardinality(made),
       pending |-> pending, disbursed |-> disbursed]

\* Mutant of Summary: AND d.status='SETTLED' is missing.
SummaryOfEveryPayout == SummaryOf(Pending(made), Cardinality(PayoutsOf(made, Paid)))

\* Without filters, as the page asks for it.
Summary == SummaryOf(Pending(made), Disbursed(made))

Within(d) == {a \in made : DistrictOf[a] = d}

\* Mutant of Families: count(d.id) in place of count(DISTINCT d.beneficiary_id).
FamiliesByPayout(d) == Cardinality(PayoutsOf(Within(d), Paid))

Families(d) == Cardinality({PersonOf[p] : p \in PayoutsOf(Within(d), Paid)})

\* The districts with a cohort, and what is shown of each.
DistrictRows ==
  [d \in {e \in {DistrictOf[a] : a \in made} : Families(e) >= Cohort} |->
     [allocated |-> AllocationAmount * Cardinality(Within(d)),
      families |-> Families(d),
      payouts |-> Cardinality(PayoutsOf(Within(d), Paid)),
      settled |-> Cardinality(PayoutsOf(Within(d), {"SETTLED"})),
      pending |-> Pending(Within(d)),
      disbursed |-> Disbursed(Within(d))]]
-----------------------------------------------------------------------------
(***************************************************************************)
(* AuditController.                                                        *)
(***************************************************************************)
Everywhere == {DistrictOf[a] : a \in Allocations}

\* The allocations of a source that a district filter leaves.
ReconciledAllocations(s, districts) ==
  {a \in made : SourceOf[a] = s /\ DistrictOf[a] \in districts}

\* Mutant of Reconciliation: the filter is on what is allocated, and not on the
\* sums of the joined allocations.
ReconciliationOfAllocated(districts) ==
  [s \in Sources |->
     [amount |-> SourceAmount,
      allocated |-> AllocationAmount * Cardinality(ReconciledAllocations(s, districts)),
      disbursed |-> Disbursed(ReconciledAllocations(s, Everywhere)),
      pending |-> Reserved(ReconciledAllocations(s, Everywhere))]]

\* reconciliation: a filter drops the sources without an allocation there, but
\* the allocated amount of a source is that of the whole source.
Reconciliation(districts) ==
  LET Of(s) == ReconciledAllocations(s, districts)
  IN  [s \in {t \in Sources : districts = Everywhere \/ Of(t) # {}} |->
         [amount |-> SourceAmount,
          allocated |-> AllocationAmount * Cardinality({a \in made : SourceOf[a] = s}),
          disbursed |-> Disbursed(Of(s)),
          pending |-> Reserved(Of(s))]]

\* listEvents: the newest sequences below the cursor.
Below(cursor) == {i \in DOMAIN events : i < cursor}

PageBelow(cursor) ==
  {i \in Below(cursor) : Cardinality({j \in Below(cursor) : j > i}) < PageSize}

Matching(page, entity) == {i \in page : events[i] = entity}

\* Mutant of NextBefore: the cursor is that of the rows the filter has left.
NextBeforeFiltered(page, entity) ==
  IF Cardinality(Matching(page, entity)) = PageSize THEN Min(Matching(page, entity)) ELSE 0

\* The sequence of the last row of a full page, whatever the filter leaves of it,
\* and nothing (0) after any other page.
NextBefore(page, entity) == IF Cardinality(page) = PageSize THEN Min(page) ELSE 0
=============================================================================
