---------------------------- MODULE DashboardsProofs ----------------------------
(***************************************************************************)
(* The public page, the auditor page and the audit client, for any tables, *)
(* districts, loads and sizes of a page.                                   *)
(*                                                                         *)
(* The tables stay sound while they are read: a source is not allocated    *)
(* more than it has, an allocation does not spend more, and no payout      *)
(* leaves the table.  What one statement reads of sound tables is sound,   *)
(* and remains so however late it is shown; so everything that is under    *)
(* way or on a page is.  The rest is about the pages alone: the selection  *)
(* follows the rows, a load that was settled replaces all the parts or     *)
(* warns, and the client's cursor is where its pages end.                  *)
(***************************************************************************)
EXTENDS Dashboards, SumProofs

Statuses == Paid \cup {"none"}

TablesType ==
  /\ made \subseteq Allocations
  /\ status \in [Payouts -> Statuses]
  /\ events \in Seq({"allocation", "payout"})

Given(s) == {a \in made : SourceOf[a] = s}

\* The payouts that take from their allocation, or may yet.
Spending(given) == PayoutsOf(given, {"PENDING", "UNKNOWN", "SETTLED"})

TablesSound ==
  /\ TablesType
  /\ \A s \in Sources : AllocationAmount * Cardinality(Given(s)) <= SourceAmount
  /\ \A a \in made : Cardinality(Spending({a})) <= AllocationAmount
  /\ \A p \in Payouts : status[p] # "none" => AllocationOf[p] \in made

\* The amounts are numbers and the tables finite.
LEMMA Amounts ==
  /\ SourceAmount \in Nat /\ AllocationAmount \in Nat
  /\ IsFiniteSet(Sources) /\ IsFiniteSet(Allocations) /\ IsFiniteSet(Payouts)
  BY ReportsAssumption

\* Whatever is counted in the tables is a number.
LEMMA Counts ==
  /\ \A given, statuses : /\ IsFiniteSet(PayoutsOf(given, statuses))
                       /\ Cardinality(PayoutsOf(given, statuses)) \in Nat
  /\ TablesType => \A given \in SUBSET made : IsFiniteSet(given) /\ Cardinality(given) \in Nat
<1>1. ASSUME NEW given, NEW statuses
      PROVE  /\ IsFiniteSet(PayoutsOf(given, statuses))
             /\ Cardinality(PayoutsOf(given, statuses)) \in Nat
  <2>1. PayoutsOf(given, statuses) \subseteq Payouts
    BY DEF PayoutsOf
  <2> QED BY <2>1, Amounts, FS_Subset, FS_CardinalityType
<1>2. ASSUME TablesType, NEW given \in SUBSET made
      PROVE  IsFiniteSet(given) /\ Cardinality(given) \in Nat
  <2>1. given \subseteq Allocations
    BY <1>2 DEF TablesType
  <2> QED BY <2>1, Amounts, FS_Subset, FS_CardinalityType
<1> QED BY <1>1, <1>2

\* Payouts of more statuses are more payouts, and those of other statuses are others.
LEMMA MoreStatuses ==
  ASSUME NEW given, NEW s, NEW t
  PROVE  /\ s \cap t = {} => Cardinality(PayoutsOf(given, s \cup t)) =
                               Cardinality(PayoutsOf(given, s)) + Cardinality(PayoutsOf(given, t))
         /\ s \subseteq t => Cardinality(PayoutsOf(given, s)) <= Cardinality(PayoutsOf(given, t))
<1>1. /\ IsFiniteSet(PayoutsOf(given, s)) /\ Cardinality(PayoutsOf(given, s)) \in Nat
      /\ IsFiniteSet(PayoutsOf(given, t)) /\ Cardinality(PayoutsOf(given, t)) \in Nat
  BY Counts
<1>2. ASSUME s \cap t = {}
      PROVE  Cardinality(PayoutsOf(given, s \cup t)) =
               Cardinality(PayoutsOf(given, s)) + Cardinality(PayoutsOf(given, t))
  <2>1. /\ PayoutsOf(given, s \cup t) = PayoutsOf(given, s) \cup PayoutsOf(given, t)
        /\ PayoutsOf(given, s) \cap PayoutsOf(given, t) = {}
    BY <1>2 DEF PayoutsOf
  <2>2. Cardinality(PayoutsOf(given, s \cup t)) =
          Cardinality(PayoutsOf(given, s)) + Cardinality(PayoutsOf(given, t)) - Cardinality({})
    BY <1>1, <2>1, FS_Union
  <2> QED BY <1>1, <2>2, FS_EmptySet
<1>3. ASSUME s \subseteq t
      PROVE  Cardinality(PayoutsOf(given, s)) <= Cardinality(PayoutsOf(given, t))
  <2>1. PayoutsOf(given, s) \subseteq PayoutsOf(given, t)
    BY <1>3 DEF PayoutsOf
  <2> QED BY <1>1, <2>1, FS_Subset
<1> QED BY <1>2, <1>3

\* A payout that is pending, unknown or settled is of one of them.
LEMMA SpendingIs ==
  ASSUME NEW given
  PROVE  /\ Reserved(given) \in Nat /\ Disbursed(given) \in Nat /\ Pending(given) \in Nat
         /\ Cardinality(Spending(given)) = Reserved(given) + Disbursed(given)
         /\ Pending(given) <= Reserved(given)
<1>1. {"PENDING", "UNKNOWN"} \cap {"SETTLED"} = {}
  OBVIOUS
<1>2. {"PENDING", "UNKNOWN"} \cup {"SETTLED"} = {"PENDING", "UNKNOWN", "SETTLED"}
  OBVIOUS
<1>3. Cardinality(PayoutsOf(given, {"PENDING", "UNKNOWN"} \cup {"SETTLED"})) = Reserved(given) + Disbursed(given)
  BY <1>1, MoreStatuses DEF Reserved, Disbursed
<1>4. {"PENDING"} \subseteq {"PENDING", "UNKNOWN"}
  OBVIOUS
<1>5. Pending(given) <= Reserved(given)
  BY <1>4, MoreStatuses DEF Pending, Reserved
<1> QED BY <1>2, <1>3, <1>5, Counts DEF Spending, Reserved, Disbursed, Pending

\* What allocations spend is within what they have.
LEMMA SpentWithin ==
  ASSUME TablesSound, NEW given \in SUBSET made
  PROVE  Reserved(given) + Disbursed(given) <= AllocationAmount * Cardinality(given)
<1> DEFINE S == {p \in Payouts : status[p] \in {"PENDING", "UNKNOWN", "SETTLED"}}
<1>1. IsFiniteSet(S) /\ IsFiniteSet(given) /\ 1 \in Nat /\ AllocationAmount \in Nat
  BY Amounts, Counts, FS_Subset DEF TablesSound
<1>2. \A a : {p \in S : AllocationOf[p] = a} = Spending({a})
  BY DEF Spending, PayoutsOf
<1>3. {p \in S : AllocationOf[p] \in given} = Spending(given)
  BY DEF Spending, PayoutsOf
<1>4. ASSUME NEW a \in given PROVE 1 * Cardinality({p \in S : AllocationOf[p] = a}) <= AllocationAmount
  <2>1. Cardinality(Spending({a})) <= AllocationAmount /\ Cardinality(Spending({a})) \in Nat
    BY Counts DEF TablesSound, Spending
  <2>2. Cardinality({p \in S : AllocationOf[p] = a}) = Cardinality(Spending({a}))
    BY <1>2
  <2> HIDE DEF S
  <2> QED BY <2>1, <2>2
<1> HIDE DEF S
<1>5. 1 * Cardinality({p \in S : AllocationOf[p] \in given}) <= AllocationAmount * Cardinality(given)
  BY <1>1, <1>4, GroupsBound
<1>6. 1 * Cardinality(Spending(given)) = Reserved(given) + Disbursed(given)
  BY SpendingIs
<1> QED BY <1>3, <1>5, <1>6

\* What is allocated is within what was received.
LEMMA AllocatedWithin ==
  ASSUME TablesSound
  PROVE  AllocationAmount * Cardinality(made) <= SourceAmount * Cardinality(Sources)
<1>1. IsFiniteSet(made) /\ IsFiniteSet(Sources) /\ AllocationAmount \in Nat /\ SourceAmount \in Nat
  BY Amounts, Counts DEF TablesSound
<1>2. \A s \in Sources : AllocationAmount * Cardinality({a \in made : SourceOf[a] = s}) <= SourceAmount
  BY DEF TablesSound, Given
<1>3. {a \in made : SourceOf[a] \in Sources} = made
  BY ReportsAssumption DEF TablesSound, TablesType
<1>4. AllocationAmount * Cardinality({a \in made : SourceOf[a] \in Sources})
        <= SourceAmount * Cardinality(Sources)
  BY <1>1, <1>2, GroupsBound
<1> QED BY <1>3, <1>4
-----------------------------------------------------------------------------
(***************************************************************************)
(* The tables.                                                             *)
(***************************************************************************)

\* Nothing is allocated or paid at first.
LEMMA TablesInit == Init => TablesSound
<1> SUFFICES ASSUME Init PROVE TablesSound
  OBVIOUS
<1>1. made = {} /\ status = [p \in Payouts |-> "none"] /\ events = <<>>
  BY DEF Init, ReportsInit
<1>2. TablesType
  BY <1>1 DEF TablesType, Statuses
<1>3. ASSUME NEW s \in Sources PROVE AllocationAmount * Cardinality(Given(s)) <= SourceAmount
  <2>1. Given(s) = {} /\ Cardinality({}) = 0
    BY <1>1, FS_EmptySet DEF Given
  <2>2. AllocationAmount * 0 = 0
    BY Amounts
  <2> QED BY <2>1, <2>2, Amounts
<1> QED BY <1>1, <1>2, <1>3 DEF TablesSound

\* A source gives to one more allocation if it has the amount left.
LEMMA AllocateSound ==
  ASSUME TablesSound, NEW a \in Allocations, allocate(a)
  PROVE  TablesSound'
<1>1. /\ a \notin made /\ made' = made \cup {a} /\ status' = status
      /\ events' = Append(events, "allocation")
      /\ Cardinality(Given(SourceOf[a])) * AllocationAmount + AllocationAmount <= SourceAmount
  BY DEF allocate, Recorded, Given
<1>2. TablesType'
  BY <1>1 DEF TablesSound, TablesType
<1>3. ASSUME NEW s \in Sources
      PROVE  AllocationAmount * Cardinality(Given(s)') <= SourceAmount
  <2>1. CASE s # SourceOf[a]
    <3>1. Given(s)' = Given(s)
      BY <1>1, <2>1 DEF Given
    <3> QED BY <3>1 DEF TablesSound
  <2>2. CASE s = SourceOf[a]
    <3>1. Given(s)' = Given(s) \cup {a} /\ a \notin Given(s)
      BY <1>1, <2>2 DEF Given
    <3>2. IsFiniteSet(Given(s)) /\ Cardinality(Given(s)) \in Nat
      BY Counts DEF TablesSound, Given
    <3>3. Cardinality(Given(s)') = Cardinality(Given(s)) + 1
      BY <3>1, <3>2, FS_AddElement
    <3>4. \A m, n \in Nat : n * (m + 1) = m * n + n
      OBVIOUS
    <3>5. AllocationAmount * (Cardinality(Given(s)) + 1) =
            Cardinality(Given(s)) * AllocationAmount + AllocationAmount
      BY <3>2, <3>4, Amounts
    <3> QED BY <1>1, <2>2, <3>3, <3>5
  <2> QED BY <2>1, <2>2
<1>4. \A xs : Spending(xs)' = Spending(xs)
  BY <1>1 DEF Spending, PayoutsOf
<1>5. \A p \in Payouts : status[p] # "none" => AllocationOf[p] \in made
  BY DEF TablesSound
<1>6. Cardinality(Spending({a})) <= AllocationAmount
  <2>1. Spending({a}) = {} /\ Cardinality({}) = 0
    BY <1>1, <1>5, FS_EmptySet DEF Spending, PayoutsOf
  <2> QED BY <2>1, Amounts
<1> QED BY <1>1, <1>2, <1>3, <1>4, <1>5, <1>6 DEF TablesSound

\* A payout is added to what its allocation spends, if it affords one more.
LEMMA InitiateSound ==
  ASSUME TablesSound, NEW p \in Payouts, initiate(p)
  PROVE  TablesSound'
<1> DEFINE a == AllocationOf[p]
<1>1. /\ status[p] = "none" /\ a \in made /\ made' = made
      /\ status' = [status EXCEPT ![p] = "PENDING"]
      /\ events' = Append(events, "payout")
      /\ Reserved({a}) + Disbursed({a}) + 1 <= AllocationAmount
  BY DEF initiate, Recorded, Affords
<1>2. TablesType'
  BY <1>1 DEF TablesSound, TablesType, Statuses, Paid
<1>3. \A s \in Sources : Given(s)' = Given(s)
  BY <1>1 DEF Given
<1>4. ASSUME NEW b \in made PROVE Cardinality(Spending({b})') <= AllocationAmount
  <2>1. CASE b # a
    <3>1. Spending({b})' = Spending({b})
      BY <1>1, <2>1 DEF Spending, PayoutsOf, TablesSound, TablesType
    <3> QED BY <3>1 DEF TablesSound
  <2>2. CASE b = a
    <3>1. Spending({a})' = Spending({a}) \cup {p} /\ p \notin Spending({a})
      BY <1>1 DEF Spending, PayoutsOf, TablesSound, TablesType
    <3>2. IsFiniteSet(Spending({a}))
      BY Counts DEF Spending
    <3>3. Cardinality(Spending({a})') = Cardinality(Spending({a})) + 1
      BY <3>1, <3>2, FS_AddElement
    <3> QED BY <1>1, <2>2, <3>3, SpendingIs
  <2> QED BY <2>1, <2>2
<1>5. ASSUME NEW q \in Payouts, status'[q] # "none" PROVE AllocationOf[q] \in made
  BY <1>1, <1>5 DEF TablesSound, TablesType
<1> QED BY <1>1, <1>2, <1>3, <1>4, <1>5 DEF TablesSound

\* A decision never adds to what its allocation spends.
LEMMA DecideSound ==
  ASSUME TablesSound, NEW p \in Payouts, NEW s, decide(p, s)
  PROVE  TablesSound'
<1>1. /\ s \in Successors(status[p]) /\ made' = made
      /\ status' = [status EXCEPT ![p] = s]
      /\ events' = events \/ events' = Append(events, "payout")
  BY DEF decide, Recorded
<1>2. /\ s \in Paid /\ status[p] \notin {"none", "FAILED", "REVERSED"}
      /\ s \in {"PENDING", "UNKNOWN", "SETTLED"} => status[p] \in {"PENDING", "UNKNOWN"}
  BY <1>1 DEF Successors, Paid, TablesSound, TablesType, Statuses
<1>3. TablesType'
  BY <1>1, <1>2 DEF TablesSound, TablesType, Statuses
<1>4. \A t \in Sources : Given(t)' = Given(t)
  BY <1>1 DEF Given
<1>5. ASSUME NEW b \in made PROVE Cardinality(Spending({b})') <= AllocationAmount
  <2>1. Spending({b})' \subseteq Spending({b})
    BY <1>1, <1>2 DEF Spending, PayoutsOf, TablesSound, TablesType
  <2>2. IsFiniteSet(Spending({b})) /\ Cardinality(Spending({b})) \in Nat
    BY Counts DEF Spending
  <2>3. /\ Cardinality(Spending({b})') <= Cardinality(Spending({b}))
        /\ Cardinality(Spending({b})') \in Nat
    BY <2>1, <2>2, FS_Subset, FS_CardinalityType
  <2>4. Cardinality(Spending({b})) <= AllocationAmount
    BY DEF TablesSound
  <2> QED BY <2>2, <2>3, <2>4, Amounts
<1>6. ASSUME NEW q \in Payouts, status'[q] # "none" PROVE AllocationOf[q] \in made
  BY <1>1, <1>2, <1>6 DEF TablesSound, TablesType
<1> QED BY <1>1, <1>3, <1>4, <1>5, <1>6 DEF TablesSound

\* Nothing but the steps of the services changes a table.
LEMMA OnlyServicesWrite == [Next]_vars => ReportsStep \/ UNCHANGED tables
  BY DEF Next, vars, Show, submit, follow, logout, LoginReached, OpenClient

\* The tables stay sound.
LEMMA TablesStep == TablesSound /\ [Next]_vars => TablesSound'
<1> SUFFICES ASSUME TablesSound, [Next]_vars PROVE TablesSound'
  OBVIOUS
<1>1. CASE ReportsStep
  BY <1>1, AllocateSound, InitiateSound, DecideSound DEF ReportsStep
<1>2. CASE UNCHANGED tables
  BY <1>2 DEF tables, TablesSound, TablesType, Given, Spending, PayoutsOf
<1> QED BY <1>1, <1>2, OnlyServicesWrite

\* What the reports rest on: for any sources, allocations and payouts, no source
\* is allocated more than it has, no allocation spends more, and none is paid from
\* that is not in the table.
THEOREM TablesStaySound == Spec => []TablesSound
  BY TablesInit, TablesStep, PTL DEF Spec
-----------------------------------------------------------------------------
(***************************************************************************)
(* The life of a payout in the table.                                      *)
(***************************************************************************)
Life == INSTANCE PayoutLifecycle WITH Disbursements <- Payouts, MaxPaise <- 1

LEMMA StepLives == ASSUME TablesSound, ReportsStep PROVE [Life!LifecycleNext]_status
<1>1. ASSUME NEW p \in Payouts, initiate(p) PROVE Life!LifecycleNext
  BY <1>1 DEF initiate, Life!LifecycleNext, Life!Create
<1>2. ASSUME NEW p \in Payouts, NEW s, decide(p, s) PROVE Life!LifecycleNext
  <2>1. s \in Successors(status[p]) /\ status' = [status EXCEPT ![p] = s]
    BY <1>2 DEF decide
  <2>2. status[p] \in Life!PayoutStates /\ s \in Life!payoutTransitions[status[p]]
    BY <2>1 DEF Successors, TablesSound, TablesType, Statuses, Paid, Life!PayoutStates,
       Life!payoutTransitions
  <2>3. Life!Transition(p)
    BY <2>1, <2>2 DEF Life!Transition
  <2> QED BY <2>3 DEF Life!LifecycleNext
<1>3. ASSUME NEW a \in Allocations, allocate(a) PROVE UNCHANGED status
  BY <1>3 DEF allocate
<1> QED BY <1>1, <1>2, <1>3 DEF ReportsStep

\* The payouts that the pages count live as the contract lets them, and nothing a
\* page or an audit client does has a part in it.
THEOREM ReportedPayoutsLiveOnce == Spec => Life!LifecycleSpec
<1>1. Init => Life!LifecycleInit
  BY DEF Init, ReportsInit, Life!LifecycleInit
<1>2. TablesSound /\ [Next]_vars => [Life!LifecycleNext]_status
  BY StepLives, OnlyServicesWrite DEF tables
<1> QED BY <1>1, <1>2, TablesStaySound, PTL DEF Spec, Life!LifecycleSpec
-----------------------------------------------------------------------------
(***************************************************************************)
(* What the public page reads of them.                                     *)
(***************************************************************************)
SummarySound(s) ==
  /\ s.received >= s.allocated
  /\ s.allocated >= s.disbursed + s.pending

RowSound(row) ==
  /\ {row.allocated, row.disbursed, row.pending, row.families, row.payouts, row.settled}
       \subseteq Nat
  /\ row.allocated >= row.disbursed + row.pending
  /\ row.payouts >= row.families /\ row.payouts >= row.settled

RowsSound(ds) == IsFiniteSet(DOMAIN ds) /\ \A d \in DOMAIN ds : RowSound(ds[d])

\* The four cards of one statement narrow.
LEMMA SummaryRead == TablesSound => SummarySound(Summary)
<1> SUFFICES ASSUME TablesSound PROVE SummarySound(Summary)
  OBVIOUS
<1> DEFINE received == SourceAmount * Cardinality(Sources)
           allocated == AllocationAmount * Cardinality(made)
<1>1. Summary = [received |-> received, allocated |-> allocated,
                 pending |-> Pending(made), disbursed |-> Disbursed(made)]
  BY DEF Summary, SummaryOf
<1>2. received \in Nat /\ allocated \in Nat
  <2>1. Cardinality(Sources) \in Nat /\ Cardinality(made) \in Nat
    BY Amounts, Counts, FS_CardinalityType DEF TablesSound
  <2> QED BY <2>1, Amounts
<1>3. allocated <= received
  BY AllocatedWithin
<1>4. /\ Reserved(made) \in Nat /\ Disbursed(made) \in Nat /\ Pending(made) \in Nat
      /\ Pending(made) <= Reserved(made)
  BY SpendingIs
<1>5. Reserved(made) + Disbursed(made) <= allocated
  BY SpentWithin
<1> HIDE DEF received, allocated
<1> QED BY <1>1, <1>2, <1>3, <1>4, <1>5 DEF SummarySound

\* Each row of one statement narrows too.
LEMMA RowsRead == TablesSound => RowsSound(DistrictRows)
<1> SUFFICES ASSUME TablesSound PROVE RowsSound(DistrictRows)
  OBVIOUS
<1>1. /\ DOMAIN DistrictRows = {e \in {DistrictOf[a] : a \in made} : Families(e) >= Cohort}
      /\ \A d \in DOMAIN DistrictRows :
           DistrictRows[d] = [allocated |-> AllocationAmount * Cardinality(Within(d)),
                              families |-> Families(d),
                              payouts |-> Cardinality(PayoutsOf(Within(d), Paid)),
                              settled |-> Cardinality(PayoutsOf(Within(d), {"SETTLED"})),
                              pending |-> Pending(Within(d)),
                              disbursed |-> Disbursed(Within(d))]
  BY DEF DistrictRows
<1>2. IsFiniteSet(DOMAIN DistrictRows)
  <2>1. IsFiniteSet(made)
    BY Counts DEF TablesSound
  <2>2. IsFiniteSet({DistrictOf[a] : a \in made})
    BY <2>1, ImageIsFinite
  <2> QED BY <1>1, <2>2, FS_Subset
<1>3. ASSUME NEW d \in DOMAIN DistrictRows PROVE RowSound(DistrictRows[d])
  <2> DEFINE paid == PayoutsOf(Within(d), Paid)
             allocated == AllocationAmount * Cardinality(Within(d))
  <2>1. Within(d) \in SUBSET made
    BY DEF Within
  <2>2. allocated \in Nat
    <3>1. Cardinality(Within(d)) \in Nat
      BY <2>1, Counts DEF TablesSound
    <3> QED BY <3>1, Amounts
  <2>3. /\ Reserved(Within(d)) \in Nat /\ Disbursed(Within(d)) \in Nat
        /\ Pending(Within(d)) \in Nat /\ Pending(Within(d)) <= Reserved(Within(d))
    BY SpendingIs
  <2>4. Reserved(Within(d)) + Disbursed(Within(d)) <= allocated
    BY <2>1, SpentWithin
  <2>5. Families(d) \in Nat /\ Cardinality(paid) \in Nat /\ Families(d) <= Cardinality(paid)
    <3>1. IsFiniteSet(paid) /\ Cardinality(paid) \in Nat
      BY Counts
    <3>2. /\ IsFiniteSet({PersonOf[p] : p \in paid})
          /\ Cardinality({PersonOf[p] : p \in paid}) <= Cardinality(paid)
      BY <3>1, ImageIsFinite
    <3> QED BY <3>1, <3>2, FS_CardinalityType DEF Families
  <2>6. /\ Cardinality(PayoutsOf(Within(d), {"SETTLED"})) \in Nat
        /\ Cardinality(PayoutsOf(Within(d), {"SETTLED"})) <= Cardinality(paid)
    <3>1. {"SETTLED"} \subseteq Paid
      BY DEF Paid
    <3> QED BY <3>1, Counts, MoreStatuses
  <2>7. Pending(Within(d)) + Disbursed(Within(d)) <= allocated
    BY <2>2, <2>3, <2>4
  <2> DEFINE row == DistrictRows[d]
  <2>8. /\ row.allocated = allocated /\ row.families = Families(d)
        /\ row.payouts = Cardinality(paid)
        /\ row.settled = Cardinality(PayoutsOf(Within(d), {"SETTLED"}))
        /\ row.pending = Pending(Within(d)) /\ row.disbursed = Disbursed(Within(d))
    <3>1. row = [allocated |-> allocated, families |-> Families(d),
                 payouts |-> Cardinality(paid),
                 settled |-> Cardinality(PayoutsOf(Within(d), {"SETTLED"})),
                 pending |-> Pending(Within(d)), disbursed |-> Disbursed(Within(d))]
      BY <1>1, Zenon
    <3> HIDE DEF row, allocated, paid
    <3> QED BY <3>1
  <2> HIDE DEF paid, allocated, row
  <2>9. RowSound(row)
    BY <2>2, <2>3, <2>5, <2>6, <2>7, <2>8 DEF RowSound
  <2> QED BY <2>9 DEF row
<1> QED BY <1>2, <1>3 DEF RowsSound

\* Whatever of sound rows is selected: their sums narrow.
LEMMA TotalsNarrow ==
  ASSUME RowsSound(districts)
  PROVE  /\ totals["allocated"] >= totals["disbursed"] + totals["pending"]
         /\ totals["payouts"] >= totals["families"] /\ totals["payouts"] >= totals["settled"]
         /\ totalFamilies >= totals["families"]
<1> DEFINE V == visibleDistricts
           D == DOMAIN districts
           Column(c) == [d \in V |-> districts[d][c]]
           Columns == {"allocated", "disbursed", "pending", "families", "payouts", "settled"}
<1>1. IsFiniteSet(D) /\ V \in SUBSET D /\ D \in SUBSET D /\ IsFiniteSet(V)
  BY FS_Subset DEF RowsSound, visibleDistricts, fundedDistricts
<1>2. \A d \in D : /\ \A c \in Columns : districts[d][c] \in Nat
                   /\ districts[d]["allocated"] >= districts[d]["disbursed"] + districts[d]["pending"]
                   /\ districts[d]["payouts"] >= districts[d]["families"]
                   /\ districts[d]["payouts"] >= districts[d]["settled"]
  BY DEF RowsSound, RowSound
<1>3. \A c \in Columns : totals[c] = SumFunctionOnSet(Column(c), V)
  BY DEF totals, Sum, SumFunction
<1>4. \A c \in Columns : \A d \in V : Column(c)[d] \in Nat /\ Column(c)[d] = districts[d][c]
  BY <1>1, <1>2
<1>5. \A c \in Columns : SumFunctionOnSet(Column(c), V) \in Nat
  <2>1. ASSUME NEW c \in Columns PROVE SumFunctionOnSet(Column(c), V) \in Nat
    <3>1. \A d \in V : Column(c)[d] \in Nat
      BY <1>4
    <3> HIDE DEF Column, V
    <3> QED BY <1>1, <3>1, SumNat
  <2> QED BY <2>1
<1>6. ASSUME NEW c \in Columns, NEW e \in Columns,
             \A d \in V : districts[d][c] <= districts[d][e]
      PROVE  totals[c] <= totals[e]
  <2>1. \A d \in V : /\ Column(c)[d] \in Int /\ Column(e)[d] \in Int
                     /\ Column(c)[d] <= Column(e)[d]
    BY <1>4, <1>6
  <2>2. SumFunctionOnSet(Column(c), V) <= SumFunctionOnSet(Column(e), V)
    <3> HIDE DEF Column, V
    <3> QED BY <1>1, <2>1, SumMonotonic
  <2> QED BY <1>3, <2>2
<1>7. totals["allocated"] >= totals["disbursed"] + totals["pending"]
  <2> DEFINE both == [d \in V |-> districts[d]["disbursed"] + districts[d]["pending"]]
             a == Column("allocated")
             x == Column("disbursed")
             y == Column("pending")
  <2>1. \A d \in V : /\ x[d] \in Int /\ y[d] \in Int /\ both[d] = x[d] + y[d]
                     /\ both[d] \in Int /\ a[d] \in Int /\ both[d] <= a[d]
    <3>1. ASSUME NEW d \in V
          PROVE  /\ a[d] \in Nat /\ a[d] = districts[d]["allocated"]
                 /\ x[d] \in Nat /\ x[d] = districts[d]["disbursed"]
                 /\ y[d] \in Nat /\ y[d] = districts[d]["pending"]
                 /\ both[d] = districts[d]["disbursed"] + districts[d]["pending"]
                 /\ a[d] >= both[d]
      <4> HIDE DEF V
      <4> QED BY <1>1, <1>2, <1>4
    <3> HIDE DEF V, a, x, y, both
    <3> QED BY <3>1
  <2>2. /\ totals["allocated"] = SumFunctionOnSet(a, V)
        /\ totals["disbursed"] = SumFunctionOnSet(x, V)
        /\ totals["pending"] = SumFunctionOnSet(y, V)
    BY <1>3
  <2>3. /\ SumFunctionOnSet(a, V) \in Nat /\ SumFunctionOnSet(x, V) \in Nat
        /\ SumFunctionOnSet(y, V) \in Nat
    BY <1>5
  <2> HIDE DEF Column, V, both, a, x, y
  <2>4. SumFunctionOnSet(both, V) = SumFunctionOnSet(x, V) + SumFunctionOnSet(y, V)
    BY <1>1, <2>1, SumAdds
  <2>5. SumFunctionOnSet(both, V) <= SumFunctionOnSet(a, V)
    BY <1>1, <2>1, SumMonotonic
  <2> QED BY <2>2, <2>3, <2>4, <2>5
<1>8. totalFamilies >= totals["families"]
  <2> DEFINE f == Column("families")
             w == [d \in D |-> districts[d]["families"]]
  <2>1. /\ \A d \in V : f[d] \in Int /\ f[d] = w[d]
        /\ \A d \in D : w[d] \in Nat
    BY <1>1, <1>2, <1>4
  <2>2. totals["families"] = SumFunctionOnSet(f, V) /\ totalFamilies = SumFunctionOnSet(w, D)
    BY <1>3 DEF totalFamilies, Sum, SumFunction
  <2> HIDE DEF Column, V, D, f, w
  <2>3. SumFunctionOnSet(f, V) = SumFunctionOnSet(w, V)
    BY <1>1, <2>1, SumAgree
  <2>4. SumFunctionOnSet(w, V) <= SumFunctionOnSet(w, D)
    BY <1>1, <2>1, SumOfFewer
  <2>5. SumFunctionOnSet(w, V) \in Int /\ SumFunctionOnSet(w, D) \in Int
    <3>1. \A d \in D : w[d] \in Int
      BY <2>1
    <3> QED BY <1>1, <3>1, SumInt
  <2> QED BY <2>2, <2>3, <2>4, <2>5
<1>9. totals["families"] <= totals["payouts"] /\ totals["settled"] <= totals["payouts"]
  <2>1. \A d \in V : /\ districts[d]["families"] <= districts[d]["payouts"]
                     /\ districts[d]["settled"] <= districts[d]["payouts"]
    <3>1. ASSUME NEW d \in V
          PROVE  /\ districts[d]["families"] \in Nat /\ districts[d]["settled"] \in Nat
                 /\ districts[d]["payouts"] \in Nat
                 /\ districts[d]["payouts"] >= districts[d]["families"]
                 /\ districts[d]["payouts"] >= districts[d]["settled"]
      <4> HIDE DEF V
      <4> QED BY <1>1, <1>2
    <3> HIDE DEF V
    <3> QED BY <3>1
  <2> HIDE DEF V
  <2> QED BY <1>6, <2>1
<1>10. \A c \in Columns : totals[c] \in Nat
  BY <1>3, <1>5
<1>11. totals["payouts"] >= totals["families"] /\ totals["payouts"] >= totals["settled"]
  <2>1. totals["payouts"] \in Nat /\ totals["families"] \in Nat /\ totals["settled"] \in Nat
    BY <1>10
  <2> QED BY <1>9, <2>1
<1> QED BY <1>7, <1>8, <1>11
-----------------------------------------------------------------------------
(***************************************************************************)
(* The public page.                                                        *)
(***************************************************************************)
SiteSound ==
  /\ part = [summary |-> part.summary, districts |-> part.districts]
  /\ summary # None => SummarySound(summary)
  /\ part.summary # None => SummarySound(part.summary)
  /\ RowsSound(districts)
  /\ part.districts # None => RowsSound(part.districts)

\* A tab that is at the public page takes a step of it, is led to a page, or shows
\* what it did.
LEMMA SiteKinds ==
  [Next]_vars => (SiteStep /\ UNCHANGED tables) \/ SiteMounted \/ UNCHANGED site
  BY DEF Next, vars, Show, submit, follow, logout, LoginReached, OpenClient

\* No rows are sound rows.
LEMMA NoRows == DOMAIN << >> = {} /\ RowsSound(<< >>)
<1>1. DOMAIN << >> = {}
  OBVIOUS
<1> QED BY <1>1, FS_EmptySet DEF RowsSound

\* Whatever selects a district takes one that has a row.
Selects ==
  /\ selected' \in fundedDistricts \cup {None}
  /\ UNCHANGED <<summary, districts, loading, part>>

\* The steps of the public page: the four of its load, those that select, and the
\* drawing of the map, which touches nothing else.
LEMMA SiteEffects ==
  SiteStep => \/ SummaryServed \/ DistrictsServed \/ loadDashboard \/ loadDashboardFails
              \/ Selects \/ UNCHANGED <<summary, districts, loading, part, selected>>
<1>1. ASSUME NEW f \in Features, clickFeature(f) PROVE Selects
  BY <1>1 DEF clickFeature, matchDistrict, Clickable, fundedDistricts, Selects
<1>2. ASSUME NEW d \in fundedDistricts \cup {None}, selectInTable(d) PROVE Selects
  BY <1>2 DEF selectInTable, Selects
<1>3. ASSUME NEW outcome, loadMap(outcome)
      PROVE  UNCHANGED <<summary, districts, loading, part, selected>>
  BY <1>3 DEF loadMap
<1> QED BY <1>1, <1>2, <1>3 DEF SiteStep

\* Every part was read from sound tables, and the page is put together from parts.
LEMMA SiteStepSound == TablesSound /\ SiteSound /\ [Next]_vars => SiteSound'
<1> SUFFICES ASSUME TablesSound, SiteSound, [Next]_vars PROVE SiteSound'
  OBVIOUS
<1>1. CASE SiteMounted
  BY <1>1, NoRows DEF SiteMounted, NoParts, SiteSound
<1>2. CASE UNCHANGED site
  BY <1>2 DEF site, SiteSound
<1>3. CASE SiteStep
  <2>1. CASE SummaryServed
    BY <2>1, SummaryRead DEF SummaryServed, SiteSound
  <2>2. CASE DistrictsServed
    BY <2>2, RowsRead DEF DistrictsServed, SiteSound
  <2>3. CASE loadDashboard
    BY <2>3 DEF loadDashboard, NoParts, SiteSound
  <2>4. CASE loadDashboardFails
    BY <2>4 DEF loadDashboardFails, NoParts, SiteSound
  <2>5. CASE Selects
    BY <2>5 DEF Selects, SiteSound
  <2>6. CASE UNCHANGED <<summary, districts, loading, part, selected>>
    BY <2>6 DEF SiteSound
  <2> QED BY <1>3, <2>1, <2>2, <2>3, <2>4, <2>5, <2>6, SiteEffects
<1> QED BY <1>1, <1>2, <1>3, SiteKinds

\* Whichever statements the page was put together from, and whatever was decided,
\* reversed or left unknown between them: the cards and the table narrow.
THEOREM PublicMoneyAlwaysNarrows == Spec => []PublicMoneyNarrows
<1>1. Init => TablesSound /\ SiteSound
  <2>1. Init => SiteSound
    BY NoRows DEF Init, SiteInit, SiteSound, NoParts
  <2> QED BY <2>1, TablesInit
<1>2. SiteSound => PublicMoneyNarrows
  BY TotalsNarrow DEF SiteSound, SummarySound, PublicMoneyNarrows
<1> QED BY <1>1, <1>2, TablesStep, SiteStepSound, PTL DEF Spec

\* What is selected has a row, and nothing is loaded over it.
SelectionSound ==
  /\ loading => districts = << >>
  /\ selected # None => selected \in fundedDistricts

\* The selection follows the rows: they come once, before anything is selected.
THEOREM SelectionAlwaysVisible == Spec => []SelectionIsVisible
<1>1. Init => SelectionSound
  BY DEF Init, SiteInit, SelectionSound
<1>2. SelectionSound /\ [Next]_vars => SelectionSound'
  <2> SUFFICES ASSUME SelectionSound, [Next]_vars PROVE SelectionSound'
    OBVIOUS
  <2>1. CASE SiteMounted
    BY <2>1 DEF SiteMounted, SelectionSound
  <2>2. CASE UNCHANGED site
    BY <2>2 DEF site, SelectionSound, fundedDistricts
  <2>3. CASE SiteStep
    <3>1. CASE SummaryServed
      BY <3>1 DEF SummaryServed, SelectionSound, fundedDistricts
    <3>2. CASE DistrictsServed
      BY <3>2 DEF DistrictsServed, SelectionSound, fundedDistricts
    <3>3. CASE loadDashboard
      <4>1. selected = None
        BY <3>3, NoRows DEF loadDashboard, SelectionSound, fundedDistricts
      <4> QED BY <3>3, <4>1 DEF loadDashboard, SelectionSound
    <3>4. CASE loadDashboardFails
      BY <3>4 DEF loadDashboardFails, SelectionSound, fundedDistricts
    <3>5. CASE Selects
      BY <3>5 DEF Selects, SelectionSound, fundedDistricts
    <3>6. CASE UNCHANGED <<summary, districts, loading, part, selected>>
      BY <3>6 DEF SelectionSound, fundedDistricts
    <3> QED BY <2>3, <3>1, <3>2, <3>3, <3>4, <3>5, <3>6, SiteEffects
  <2> QED BY <2>1, <2>2, <2>3, SiteKinds
<1>3. SelectionSound => SelectionIsVisible
  BY DEF SelectionSound, SelectionIsVisible, visibleDistricts
<1> QED BY <1>1, <1>2, <1>3, PTL DEF Spec
-----------------------------------------------------------------------------
(***************************************************************************)
(* The cohorts.                                                            *)
(***************************************************************************)
\* The families a district has in the tables.
FamiliesOf(d) ==
  {PersonOf[p] : p \in {q \in Payouts : status[q] # "none" /\ DistrictOf[AllocationOf[q]] = d}}

HasCohort(d) == Cardinality(FamiliesOf(d)) >= Cohort

CohortsHold ==
  /\ \A d \in DOMAIN districts : HasCohort(d)
  /\ part.districts # None => \A d \in DOMAIN part.districts : HasCohort(d)

LEMMA FamiliesFinite == \A d : IsFiniteSet(FamiliesOf(d)) /\ Cardinality(FamiliesOf(d)) \in Nat
<1> TAKE d
<1> DEFINE Q == {q \in Payouts : status[q] # "none" /\ DistrictOf[AllocationOf[q]] = d}
<1>1. IsFiniteSet(Q)
  BY Amounts, FS_Subset
<1>2. IsFiniteSet({PersonOf[p] : p \in Q})
  <2> HIDE DEF Q
  <2> QED BY <1>1, ImageIsFinite
<1> QED BY <1>2, FS_CardinalityType DEF FamiliesOf

\* The query gives no row to a district without a cohort.
LEMMA CohortRead == TablesSound => \A d \in DOMAIN DistrictRows : HasCohort(d)
<1> SUFFICES ASSUME TablesSound, NEW d \in DOMAIN DistrictRows PROVE HasCohort(d)
  OBVIOUS
<1> DEFINE F == {PersonOf[p] : p \in PayoutsOf(Within(d), Paid)}
<1>1. Cardinality(F) >= Cohort
  BY DEF DistrictRows, Families
<1>2. F \subseteq FamiliesOf(d)
  BY DEF FamiliesOf, PayoutsOf, Within, Paid
<1>3. /\ IsFiniteSet(FamiliesOf(d)) /\ Cardinality(FamiliesOf(d)) \in Nat
      /\ IsFiniteSet(F) /\ Cardinality(F) \in Nat /\ Cardinality(F) <= Cardinality(FamiliesOf(d))
  <2> HIDE DEF F
  <2> QED BY <1>2, FamiliesFinite, FS_Subset, FS_CardinalityType
<1> HIDE DEF F
<1> QED BY <1>1, <1>3, ReportsAssumption DEF HasCohort

\* No payout leaves the tables, so a district keeps its families.
LEMMA CohortKept == TablesSound /\ [Next]_vars => \A d : HasCohort(d) => HasCohort(d)'
<1>0. (\A d : IsFiniteSet(FamiliesOf(d)) /\ Cardinality(FamiliesOf(d)) \in Nat)'
  BY FamiliesFinite, PTL
<1> SUFFICES ASSUME TablesSound, [Next]_vars, NEW d, HasCohort(d) PROVE HasCohort(d)'
  OBVIOUS
<1>1. ASSUME NEW q \in Payouts, status[q] # "none" PROVE status'[q] # "none"
  <2>1. CASE UNCHANGED tables
    BY <2>1, <1>1 DEF tables
  <2>2. ASSUME NEW a \in Allocations, allocate(a) PROVE status'[q] # "none"
    BY <2>2, <1>1 DEF allocate
  <2>3. ASSUME NEW p \in Payouts, initiate(p) PROVE status'[q] # "none"
    BY <2>3, <1>1 DEF initiate, TablesSound, TablesType
  <2>4. ASSUME NEW p \in Payouts, NEW s, decide(p, s) PROVE status'[q] # "none"
    BY <2>4, <1>1 DEF decide, Successors, TablesSound, TablesType
  <2> QED BY <2>1, <2>2, <2>3, <2>4, OnlyServicesWrite DEF ReportsStep
<1>2. FamiliesOf(d) \subseteq FamiliesOf(d)'
  BY <1>1 DEF FamiliesOf
<1>3. IsFiniteSet(FamiliesOf(d)') /\ Cardinality(FamiliesOf(d)') \in Nat
  BY <1>0
<1>4. Cardinality(FamiliesOf(d)) \in Nat /\ Cardinality(FamiliesOf(d)) <= Cardinality(FamiliesOf(d)')
  BY <1>2, <1>3, FamiliesFinite, FS_Subset
<1> QED BY <1>3, <1>4, ReportsAssumption DEF HasCohort

\* "suppresses groups with fewer than three distinct beneficiaries": of any cohort,
\* and however old what is shown of a district is.
THEOREM SmallGroupsStayHidden == Spec => []SmallGroupsHidden
<1>1. Init => TablesSound /\ CohortsHold
  <2>1. Init => CohortsHold
    BY NoRows DEF Init, SiteInit, CohortsHold, NoParts
  <2> QED BY <2>1, TablesInit
<1>2. TablesSound /\ SiteSound /\ CohortsHold /\ [Next]_vars => CohortsHold'
  <2> SUFFICES ASSUME TablesSound, SiteSound, CohortsHold, [Next]_vars PROVE CohortsHold'
    OBVIOUS
  <2>1. CASE SiteMounted
    BY <2>1, NoRows DEF SiteMounted, NoParts, CohortsHold
  <2>2. CASE UNCHANGED site
    BY <2>2, CohortKept DEF site, CohortsHold
  <2>3. CASE SiteStep
    <3>1. \A d : HasCohort(d) => HasCohort(d)'
      BY CohortKept
    <3>2. part = [summary |-> part.summary, districts |-> part.districts]
      BY DEF SiteSound
    <3>3. CASE SummaryServed
      BY <3>1, <3>2, <3>3 DEF SummaryServed, CohortsHold
    <3>4. CASE DistrictsServed
      BY <3>1, <3>2, <3>4, CohortRead DEF DistrictsServed, CohortsHold
    <3>5. CASE loadDashboard
      BY <3>1, <3>5 DEF loadDashboard, NoParts, CohortsHold
    <3>6. CASE loadDashboardFails
      BY <3>1, <3>6 DEF loadDashboardFails, NoParts, CohortsHold
    <3>7. CASE Selects
      BY <3>1, <3>7 DEF Selects, CohortsHold
    <3>8. CASE UNCHANGED <<summary, districts, loading, part, selected>>
      BY <3>1, <3>8 DEF CohortsHold
    <3> QED BY <2>3, <3>3, <3>4, <3>5, <3>6, <3>7, <3>8, SiteEffects
  <2> QED BY <2>1, <2>2, <2>3, SiteKinds
<1>3. CohortsHold => SmallGroupsHidden
  BY DEF CohortsHold, HasCohort, FamiliesOf, SmallGroupsHidden
<1>4. Init => SiteSound
  BY NoRows DEF Init, SiteInit, SiteSound, NoParts
<1> QED BY <1>1, <1>2, <1>3, <1>4, TablesStep, SiteStepSound, PTL DEF Spec
-----------------------------------------------------------------------------
(***************************************************************************)
(* The auditor page.                                                       *)
(***************************************************************************)

\* A tab that is at the auditor page takes a step of it, mounts it anew, or leaves it.
LEMMA DeskKinds ==
  [Next]_vars => \/ DeskStep /\ UNCHANGED tables
                 \/ DeskMounted \/ DeskGone \/ UNCHANGED desk
  BY DEF Next, vars, auditor, Show, submit, follow, logout, LoginReached, OpenClient

\* Two ways to start a load, and no other step of the page but an answer's arrival
\* and the end of a load.
LEMMA DeskEffects ==
  DeskStep => \/ (\E d \in Everywhere \cup {None} : load(d)) /\ UNCHANGED <<shown, leaving>>
              \/ load(selectedDistrict) /\ UNCHANGED <<selectedDistrict, shown, leaving>>
              \/ \E i \in DOMAIN loads :
                   settled(i) \/ denied(i) \/ \E x \in Parts : PartServed(i, x)
  BY DEF DeskStep, selectDistrict, Retry

\* Loads may end in any order: the one that ends last has replaced every part, a
\* warning names those it has not, or it was refused and the page is on its way out.
THEOREM PartsAlwaysOfOneLoad == Spec => []PartsOfOneLoad
<1>1. Init => PartsOfOneLoad
  BY DEF Init, DeskInit, PartsOfOneLoad, OnPage
<1>2. PartsOfOneLoad /\ [Next]_vars => PartsOfOneLoad'
  <2> SUFFICES ASSUME PartsOfOneLoad, [Next]_vars PROVE PartsOfOneLoad'
    OBVIOUS
  <2>1. CASE DeskMounted
    BY <2>1 DEF DeskMounted, PartsOfOneLoad, OnPage
  <2>2. CASE DeskGone
    BY <2>2 DEF DeskGone, PartsOfOneLoad, OnPage
  <2>3. CASE UNCHANGED desk
    BY <2>3 DEF desk, PartsOfOneLoad, OnPage
  <2>4. CASE DeskStep
    <3>1. ASSUME NEW d, load(d) PROVE PartsOfOneLoad'
      BY <3>1 DEF load, PartsOfOneLoad, OnPage
    <3>2. ASSUME NEW i \in DOMAIN loads, settled(i) PROVE PartsOfOneLoad'
      <4>1. warned' = {} => Failed(i) = {}
        BY <3>2 DEF settled, FailedSections
      <4>2. Failed(i) = {} => \A x \in Parts : shown'[x].load = i
        BY <3>2 DEF settled
      <4> QED BY <4>1, <4>2 DEF PartsOfOneLoad
    <3>3. ASSUME NEW i \in DOMAIN loads, NEW x \in Parts, PartServed(i, x) PROVE PartsOfOneLoad'
      <4>1. loads # <<>>
        OBVIOUS
      <4> QED BY <3>3, <4>1 DEF PartServed, PartsOfOneLoad, OnPage
    <3>4. ASSUME NEW i \in DOMAIN loads, denied(i) PROVE PartsOfOneLoad'
      BY <3>4 DEF denied, PartsOfOneLoad
    <3> QED BY <2>4, <3>1, <3>2, <3>3, <3>4, DeskEffects
  <2> QED BY <2>1, <2>2, <2>3, <2>4, DeskKinds
<1> QED BY <1>1, <1>2, PTL DEF Spec
-----------------------------------------------------------------------------
(***************************************************************************)
(* The reconciliation.                                                     *)
(***************************************************************************)
Records == [amount : Nat, allocated : Nat, disbursed : Nat, pending : Nat]

\* The tables of records that all reconcile.
Healthy == UNION {[ss -> {r \in Records : healthy(r)}] : ss \in SUBSET Sources}

\* What may stand in the place of a part.
Answers(x) == IF x = "reconciliation" THEN Healthy ELSE {"served"}

Loaded ==
  [district : Everywhere \cup {None}, state : {"open", "closed"},
   parts : {f \in [Parts -> {None, Failure, "served"} \cup Healthy] :
              \A x \in Parts : f[x] \in {None, Failure} \cup Answers(x)}]

DeskSound ==
  /\ selectedDistrict \in Everywhere \cup {None}
  /\ loads \in Seq(Loaded)
  /\ shown["reconciliation"].value \in {None} \cup Healthy

\* One statement reads a table of records that reconcile, whatever it is limited to.
LEMMA ReconciliationRead == TablesSound => \A d : Reconciliation(Scope(d)) \in Healthy
<1> SUFFICES ASSUME TablesSound, NEW d PROVE Reconciliation(Scope(d)) \in Healthy
  OBVIOUS
<1> DEFINE Of(s) == ReconciledAllocations(s, Scope(d))
           R(s) == [amount |-> SourceAmount,
                    allocated |-> AllocationAmount * Cardinality({a \in made : SourceOf[a] = s}),
                    disbursed |-> Disbursed(Of(s)), pending |-> Reserved(Of(s))]
           ss == {t \in Sources : Scope(d) = Everywhere \/ Of(t) # {}}
<1>1. Reconciliation(Scope(d)) = [s \in ss |-> R(s)]
  BY DEF Reconciliation
<1>2. ASSUME NEW s \in Sources PROVE R(s) \in Records /\ healthy(R(s))
  <2>1. Of(s) \in SUBSET made /\ Of(s) \in SUBSET Given(s) /\ Given(s) \in SUBSET made
    BY DEF ReconciledAllocations, Given
  <2>2. /\ IsFiniteSet(Given(s)) /\ Cardinality(Given(s)) \in Nat /\ Cardinality(Of(s)) \in Nat
        /\ Cardinality(Of(s)) <= Cardinality(Given(s))
    BY <2>1, Counts, FS_Subset DEF TablesSound
  <2>3. \A k, m, n \in Nat : m <= n => k * m <= k * n
    OBVIOUS
  <2>4. AllocationAmount * Cardinality(Of(s)) <= AllocationAmount * Cardinality(Given(s))
    BY <2>2, <2>3, Amounts
  <2>5. Reserved(Of(s)) + Disbursed(Of(s)) <= AllocationAmount * Cardinality(Of(s))
    BY <2>1, SpentWithin
  <2>6. AllocationAmount * Cardinality(Given(s)) <= SourceAmount
    BY DEF TablesSound
  <2>7. Reserved(Of(s)) \in Nat /\ Disbursed(Of(s)) \in Nat
    BY SpendingIs
  <2>8. /\ AllocationAmount * Cardinality(Given(s)) \in Nat
        /\ AllocationAmount * Cardinality(Of(s)) \in Nat
    BY <2>2, Amounts
  <2>9. R(s) = [amount |-> SourceAmount, allocated |-> AllocationAmount * Cardinality(Given(s)),
                disbursed |-> Disbursed(Of(s)), pending |-> Reserved(Of(s))]
    BY DEF Given
  <2> DEFINE g == AllocationAmount * Cardinality(Given(s))
             o == AllocationAmount * Cardinality(Of(s))
             paid == Disbursed(Of(s))
             left == Reserved(Of(s))
  <2>10. /\ R(s) = [amount |-> SourceAmount, allocated |-> g, disbursed |-> paid, pending |-> left]
         /\ left + paid <= o /\ o <= g /\ g <= SourceAmount
         /\ g \in Nat /\ o \in Nat /\ paid \in Nat /\ left \in Nat
    BY <2>4, <2>5, <2>6, <2>7, <2>8, <2>9
  <2> HIDE DEF g, o, paid, left, R
  <2> QED BY <2>10, Amounts DEF Records, healthy
<1>3. [s \in ss |-> R(s)] \in [ss -> {r \in Records : healthy(r)}]
  <2> HIDE DEF R
  <2> QED BY <1>2
<1>4. ss \in SUBSET Sources
  OBVIOUS
<1> HIDE DEF ss, R
<1> QED BY <1>1, <1>3, <1>4 DEF Healthy

\* A load that is started has no answers.
LEMMA LoadStarts == ASSUME NEW d \in Everywhere \cup {None} PROVE NewLoad(d) \in Loaded
  BY DEF NewLoad, Loaded

\* Every answer is what was read when it was served, and a load is shown as it is.
LEMMA DeskStepSound == TablesSound /\ DeskSound /\ [Next]_vars => DeskSound'
<1> SUFFICES ASSUME TablesSound, DeskSound, [Next]_vars PROVE DeskSound'
  OBVIOUS
<1>1. CASE DeskMounted
  <2>1. NewLoad(None) \in Loaded
    BY LoadStarts
  <2> QED BY <1>1, <2>1 DEF DeskMounted, DeskSound, NothingShown, Parts
<1>2. CASE DeskGone
  BY <1>2 DEF DeskGone, DeskSound, NothingShown, Parts
<1>3. CASE UNCHANGED desk
  BY <1>3 DEF desk, DeskSound
<1>4. CASE DeskStep
  <2>1. ASSUME NEW d \in Everywhere \cup {None}, selectDistrict(d) PROVE DeskSound'
    <3>1. NewLoad(d) \in Loaded
      BY LoadStarts
    <3> QED BY <2>1, <3>1 DEF selectDistrict, load, DeskSound
  <2>2. CASE Retry
    <3>1. NewLoad(selectedDistrict) \in Loaded
      BY LoadStarts DEF DeskSound
    <3> QED BY <2>2, <3>1 DEF Retry, load, DeskSound
  <2>3. ASSUME NEW i \in DOMAIN loads, settled(i) PROVE DeskSound'
    <3>1. loads[i] \in Loaded
      BY DEF DeskSound
    <3>2. Closed(loads[i]) \in Loaded
      BY <3>1 DEF Closed, Loaded
    <3>3. loads' \in Seq(Loaded)
      BY <2>3, <3>2 DEF settled, DeskSound
    <3>4. shown'["reconciliation"].value \in {None} \cup Healthy
      <4>1. loads[i].parts["reconciliation"] \in {None, Failure} \cup Healthy
        BY <3>1 DEF Loaded, Answers, Parts
      <4>2. CASE "reconciliation" \in Failed(i)
        BY <2>3, <4>2 DEF settled, DeskSound, Parts
      <4>3. CASE "reconciliation" \notin Failed(i)
        <5>1. loads[i].parts["reconciliation"] # Failure
          BY <4>3 DEF Failed, Parts
        <5>2. shown'["reconciliation"] = [load |-> i, value |-> loads[i].parts["reconciliation"]]
          BY <2>3, <4>3 DEF settled, Parts
        <5> QED BY <4>1, <5>1, <5>2
      <4> QED BY <4>2, <4>3
    <3> QED BY <2>3, <3>3, <3>4 DEF settled, DeskSound
  <2>4. ASSUME NEW i \in DOMAIN loads, NEW x \in Parts, PartServed(i, x) PROVE DeskSound'
    <3>1. PICK v \in {Value(x, loads[i].district), Failure} :
            loads' = [loads EXCEPT ![i].parts[x] = v]
      BY <2>4 DEF PartServed
    <3>2. loads[i] \in Loaded
      BY DEF DeskSound
    <3>3. v \in {Failure} \cup Answers(x)
      BY <3>1, ReconciliationRead DEF Value, Answers
    <3>4. v \in {None, Failure, "served"} \cup Healthy
      BY <3>3 DEF Answers
    <3>5. [loads[i] EXCEPT !.parts[x] = v] \in Loaded
      BY <3>2, <3>3, <3>4 DEF Loaded
    <3>6. loads' \in Seq(Loaded)
      BY <3>1, <3>5 DEF DeskSound
    <3> QED BY <2>4, <3>6 DEF PartServed, DeskSound
  <2>5. ASSUME NEW i \in DOMAIN loads, denied(i) PROVE DeskSound'
    <3>1. loads[i] \in Loaded
      BY DEF DeskSound
    <3>2. Closed(loads[i]) \in Loaded
      BY <3>1 DEF Closed, Loaded
    <3>3. loads' \in Seq(Loaded)
      BY <2>5, <3>2 DEF denied, DeskSound
    <3> QED BY <2>5, <3>3 DEF denied, DeskSound
  <2> QED BY <1>4, <2>1, <2>2, <2>3, <2>4, <2>5 DEF DeskStep
<1> QED BY <1>1, <1>2, <1>3, <1>4, DeskKinds

\* "Every funding source should reconcile": no order of payments, reads and loads
\* makes the page call one of sound books to attention.
THEOREM NeverFalseAlarm == Spec => []NoFalseAlarm
<1>1. Init => TablesSound /\ DeskSound
  <2>1. Init => DeskSound
    BY DEF Init, DeskInit, DeskSound, NothingShown, Parts
  <2> QED BY <2>1, TablesInit
<1>2. DeskSound => NoFalseAlarm
  <2> SUFFICES ASSUME DeskSound, shown["reconciliation"].value # None,
                      NEW s \in DOMAIN shown["reconciliation"].value
               PROVE  healthy(shown["reconciliation"].value[s])
    BY DEF NoFalseAlarm
  <2>1. PICK ss \in SUBSET Sources :
          shown["reconciliation"].value \in [ss -> {r \in Records : healthy(r)}]
    BY DEF DeskSound, Healthy
  <2> QED BY <2>1
<1> QED BY <1>1, <1>2, TablesStep, DeskStepSound, PTL DEF Spec
-----------------------------------------------------------------------------
(***************************************************************************)
(* The client of the audit API.                                            *)
(***************************************************************************)

\* What the client has been given lies between its cursor and where it began; the
\* ledger may have grown above.
PagingSound ==
  /\ cursor \in Nat /\ top \in Nat
  /\ cursor <= top /\ top <= Len(events) + 1
  /\ top > 0 => seen = Matching({i \in 1..(top - 1) : i >= cursor}, "payout")

\* A page is the last sequences below the cursor, and the next page ends where it
\* begins; there is none below a page that is not full.
LEMMA PageEnds ==
  ASSUME TablesType, NEW c \in Nat, c > 0, c <= Len(events) + 1, NEW entity
  PROVE  /\ NextBefore(PageBelow(c), entity) \in Nat
         /\ NextBefore(PageBelow(c), entity) < c
         /\ PageBelow(c) = {i \in 1..(c - 1) : i >= NextBefore(PageBelow(c), entity)}
<1> DEFINE P == PageBelow(c)
           first == c - PageSize
<1>1. /\ Len(events) \in Nat /\ DOMAIN events = 1..Len(events)
      /\ PageSize \in Nat \ {0}
  BY ReportsAssumption DEF TablesType
<1>2. Below(c) = 1..(c - 1)
  BY <1>1 DEF Below
<1>3. ASSUME NEW i \in 1..(c - 1)
      PROVE  Cardinality({j \in Below(c) : j > i}) = c - 1 - i
  <2>1. {j \in Below(c) : j > i} = (i + 1)..(c - 1)
    BY <1>2
  <2>2. Cardinality((i + 1)..(c - 1)) = IF i + 1 > c - 1 THEN 0 ELSE (c - 1) - (i + 1) + 1
    BY FS_Interval
  <2>3. (IF i + 1 > c - 1 THEN 0 ELSE (c - 1) - (i + 1) + 1) = c - 1 - i
    OBVIOUS
  <2> QED BY <2>1, <2>2, <2>3, Zenon
<1>4. P = {i \in 1..(c - 1) : i >= first}
  <2>1. P = {i \in 1..(c - 1) : Cardinality({j \in Below(c) : j > i}) < PageSize}
    BY <1>2 DEF PageBelow
  <2>2. ASSUME NEW i \in 1..(c - 1)
        PROVE  Cardinality({j \in Below(c) : j > i}) < PageSize <=> i >= first
    BY <1>1, <1>3
  <2> HIDE DEF P, first
  <2> QED BY <2>1, <2>2
<1>5. CASE first >= 1
  <2>1. P = first..(c - 1) /\ first \in Int
    BY <1>1, <1>4, <1>5
  <2>2. Cardinality(first..(c - 1)) = IF first > c - 1 THEN 0 ELSE (c - 1) - first + 1
    BY <1>1, FS_Interval
  <2>3. Cardinality(P) = PageSize
    BY <1>1, <2>1, <2>2
  <2>4. Min(P) = first
    <3>1. first \in P /\ \A y \in P : first <= y
      BY <1>1, <2>1
    <3> HIDE DEF P, first
    <3>2. ASSUME NEW z \in P, \A y \in P : z <= y PROVE z = first
      <4>1. z <= first /\ first <= z
        BY <3>1, <3>2
      <4>2. z \in Int /\ first \in Int
        BY <1>1, <2>1
      <4> QED BY <4>1, <4>2
    <3>3. Min(P) \in P /\ \A y \in P : Min(P) <= y
      BY <3>1 DEF Min
    <3> QED BY <3>2, <3>3
  <2>5. NextBefore(P, entity) = first
    BY <2>3, <2>4 DEF NextBefore
  <2> HIDE DEF P
  <2>6. NextBefore(P, entity) \in Nat /\ NextBefore(P, entity) < c
    BY <1>1, <1>5, <2>5
  <2>7. P = {i \in 1..(c - 1) : i >= NextBefore(P, entity)}
    BY <1>4, <2>5
  <2> QED BY <2>6, <2>7 DEF P
<1>6. CASE ~(first >= 1)
  <2>1. P = 1..(c - 1)
    BY <1>1, <1>4, <1>6
  <2>2. Cardinality(1..(c - 1)) = IF 1 > c - 1 THEN 0 ELSE (c - 1) - 1 + 1
    BY FS_Interval
  <2>3. Cardinality(P) # PageSize
    BY <1>1, <1>6, <2>1, <2>2
  <2>4. NextBefore(P, entity) = 0
    BY <2>3 DEF NextBefore
  <2>5. 1..(c - 1) = {i \in 1..(c - 1) : i >= 0}
    OBVIOUS
  <2> HIDE DEF P, first
  <2>6. P = {i \in 1..(c - 1) : i >= NextBefore(P, entity)}
    BY <2>1, <2>4, <2>5
  <2>7. NextBefore(P, entity) \in Nat /\ NextBefore(P, entity) < c
    BY <2>4
  <2> QED BY <2>6, <2>7 DEF P
<1> HIDE DEF P, first
<1> QED BY <1>5, <1>6

\* The ledger's events are only ever appended to.
LEMMA EventsStay ==
  TablesSound /\ [Next]_vars =>
    /\ Len(events) \in Nat /\ Len(events') \in Nat /\ Len(events) <= Len(events')
    /\ \A i \in 1..Len(events) : events'[i] = events[i]
<1> SUFFICES ASSUME TablesSound, [Next]_vars
             PROVE  /\ Len(events) \in Nat /\ Len(events') \in Nat /\ Len(events) <= Len(events')
                    /\ \A i \in 1..Len(events) : events'[i] = events[i]
  OBVIOUS
<1>1. events' = events \/ \E e \in {"allocation", "payout"} : events' = Append(events, e)
  BY OnlyServicesWrite DEF ReportsStep, allocate, initiate, decide, Recorded, tables
<1>2. events \in Seq({"allocation", "payout"})
  BY DEF TablesSound, TablesType
<1> QED BY <1>1, <1>2

\* A tab that is not a client has none of its data, and the client only reads.
LEMMA ClientKinds ==
  [Next]_vars => \/ ClientStep("payout") /\ UNCHANGED tables
                 \/ ClientGone \/ UNCHANGED client
  BY DEF Next, vars, auditor, Show, submit, follow, logout, LoginReached, OpenClient

\* A page joins what the client has to where the next one ends.
LEMMA PagingStepSound == TablesSound /\ PagingSound /\ [Next]_vars => PagingSound'
<1> SUFFICES ASSUME TablesSound, PagingSound, [Next]_vars PROVE PagingSound'
  OBVIOUS
<1>1. /\ Len(events) \in Nat /\ Len(events') \in Nat /\ Len(events) <= Len(events')
      /\ \A i \in 1..Len(events) : events'[i] = events[i]
  BY EventsStay
<1>2. CASE ClientGone
  BY <1>1, <1>2 DEF ClientGone, PagingSound
<1>3. CASE UNCHANGED client
  <2>1. cursor' = cursor /\ seen' = seen /\ top' = top
    BY <1>3 DEF client
  <2>2. \A page \in SUBSET (1..Len(events)) :
          Matching(page, "payout")' = Matching(page, "payout")
    BY <1>1 DEF Matching
  <2>3. {i \in 1..(top - 1) : i >= cursor} \in SUBSET (1..Len(events))
    BY <1>1 DEF PagingSound
  <2> QED BY <1>1, <2>1, <2>2, <2>3 DEF PagingSound, Matching
<1>4. CASE ClientStep("payout") /\ UNCHANGED tables
  <2>1. events' = events
    BY <1>4 DEF tables
  <2>2. CASE StartPaging
    <3>1. {i \in 1..((Len(events) + 1) - 1) : i >= Len(events) + 1} = {}
      BY <1>1
    <3> QED BY <1>1, <2>1, <2>2, <3>1 DEF StartPaging, PagingSound, Matching
  <2>3. CASE ReadPage("payout")
    <3> DEFINE P == PageBelow(cursor)
               next == NextBefore(P, "payout")
    <3>1. /\ cursor > 0 /\ cursor \in Nat /\ top \in Nat /\ cursor <= top /\ top <= Len(events) + 1
          /\ top > 0 /\ seen = Matching({i \in 1..(top - 1) : i >= cursor}, "payout")
      BY <1>1, <2>3 DEF ReadPage, PagingSound
    <3>2. /\ next \in Nat /\ next < cursor
          /\ P = {i \in 1..(cursor - 1) : i >= next}
      <4>1. TablesType
        BY DEF TablesSound
      <4> QED BY <3>1, <4>1, PageEnds
    <3>3. seen' = seen \cup Matching(P, "payout") /\ cursor' = next /\ top' = top
      BY <2>3 DEF ReadPage
    <3> HIDE DEF P, next
    <3>4. {i \in 1..(top - 1) : i >= next} = {i \in 1..(top - 1) : i >= cursor} \cup P
      BY <3>1, <3>2
    <3>5. seen' = Matching({i \in 1..(top - 1) : i >= next}, "payout")
      BY <3>1, <3>3, <3>4 DEF Matching
    <3> QED BY <2>1, <3>1, <3>2, <3>3, <3>5 DEF PagingSound, Matching
  <2> QED BY <1>4, <2>2, <2>3 DEF ClientStep
<1> QED BY <1>2, <1>3, <1>4, ClientKinds

\* Whatever the filter leaves of a page and whatever is appended: the client that
\* came to the end has seen every event of its type that was there.
THEOREM PagingNeverMisses == Spec => []PagingMissesNothing
<1>1. Init => TablesSound /\ PagingSound
  <2>1. Init => PagingSound
    BY DEF Init, DeskInit, ReportsInit, PagingSound
  <2> QED BY <2>1, TablesInit
<1>2. PagingSound => PagingMissesNothing
  <2> SUFFICES ASSUME PagingSound, cursor = 0, top > 0
               PROVE  seen = Matching(1..(top - 1), "payout")
    BY DEF PagingMissesNothing
  <2>1. {i \in 1..(top - 1) : i >= 0} = 1..(top - 1)
    BY DEF PagingSound
  <2> QED BY <2>1 DEF PagingSound
<1> QED BY <1>1, <1>2, TablesStep, PagingStepSound, PTL DEF Spec
=============================================================================
