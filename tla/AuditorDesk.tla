------------------------------ MODULE AuditorDesk ------------------------------
(***************************************************************************)
(* The auditor page, which loads three things at once whenever a district  *)
(* is selected, and a client of the audit API that pages through the       *)
(* ledger's events.  A load that was started is never cancelled: what it   *)
(* brings is shown when it arrives, in whatever order loads arrive.        *)
(***************************************************************************)
EXTENDS ReliefReports

CONSTANTS
  Failure,          \* in place of a part that was not served
  Loads             \* 1..n: the loads of a page, in their order (a bound)

VARIABLES
  selectedDistrict, \* a district, or None for all
  loads,            \* the loads that have been started
  shown,            \* the parts the page shows, each with the load it is of
  busy,             \* the page says that it is loading
  warned,           \* the parts the warning names
  leaving,          \* the guard refused a load: the login is on its way
  cursor, seen,     \* the client's cursor (0: done) and what it was given
  top               \* history: the first cursor of the client

desk == <<selectedDistrict, loads, shown, busy, warned, leaving>>
client == <<cursor, seen, top>>

Parts == {"events", "reconciliation", "exceptions"}

Scope(d) == IF d = None THEN Everywhere ELSE {d}

NewLoad(d) == [district |-> d, state |-> "open", parts |-> [x \in Parts |-> None]]
NothingShown == [x \in Parts |-> [load |-> 0, value |-> None]]

DeskMounted ==
  /\ selectedDistrict' = None
  /\ loads' = <<NewLoad(None)>>
  /\ shown' = NothingShown /\ busy' = TRUE /\ warned' = {} /\ leaving' = FALSE

ClientGone == cursor' = 0 /\ seen' = {} /\ top' = 0

DeskInit ==
  /\ selectedDistrict = None /\ loads = <<>>
  /\ shown = NothingShown /\ busy = FALSE /\ warned = {} /\ leaving = FALSE
  /\ cursor = 0 /\ seen = {} /\ top = 0
-----------------------------------------------------------------------------
\* load: started by an effect on the selection, and by the button of a warning.
load(d) ==
  /\ Len(loads) + 1 \in Loads
  /\ loads' = Append(loads, NewLoad(d))
  /\ busy' = TRUE /\ warned' = {}

selectDistrict(d) ==
  /\ d # selectedDistrict
  /\ selectedDistrict' = d /\ load(d)
  /\ UNCHANGED <<shown, leaving>>

Retry ==
  /\ ~busy /\ warned # {}
  /\ load(selectedDistrict)
  /\ UNCHANGED <<selectedDistrict, shown, leaving>>

\* What a request is answered with: only the sums are told apart.
Value(x, d) == IF x = "reconciliation" THEN Reconciliation(Scope(d)) ELSE "served"

PartServed(i, x) ==
  /\ loads[i].state = "open" /\ loads[i].parts[x] = None
  /\ \E v \in {Value(x, loads[i].district), Failure} :
       loads' = [loads EXCEPT ![i].parts[x] = v]
  /\ UNCHANGED <<selectedDistrict, shown, busy, warned, leaving>>

Failed(i) == {x \in Parts : loads[i].parts[x] = Failure}

\* Mutant of FailedSections: only a load of which nothing arrived is warned of.
FailedAltogether(i) == IF Failed(i) = Parts THEN Parts ELSE {}

FailedSections(i) == Failed(i)

\* ReconciliationTable: the record of a source is "Reconciled", or asks for attention.
healthy(record) ==
  /\ record.allocated <= record.amount
  /\ record.disbursed + record.pending <= record.allocated

Closed(old) == [old EXCEPT !.state = "closed", !.parts = [x \in Parts |-> None]]

AllSettled(i) == loads[i].state = "open" /\ \A x \in Parts : loads[i].parts[x] # None

\* The parts that arrived replace those that are shown.
settled(i) ==
  /\ AllSettled(i)
  /\ shown' = [x \in Parts |-> IF x \in Failed(i) THEN shown[x]
                               ELSE [load |-> i, value |-> loads[i].parts[x]]]
  /\ busy' = FALSE
  /\ warned' = IF FailedSections(i) = {} THEN warned ELSE FailedSections(i)
  /\ loads' = [loads EXCEPT ![i] = Closed(loads[i])]
  /\ UNCHANGED <<selectedDistrict, leaving>>

\* A part failed with 401 or 403: the login is pushed, and the page is drawn again
\* as it was until the login is there.
denied(i) ==
  /\ AllSettled(i) /\ Failed(i) # {}
  /\ leaving' = TRUE /\ busy' = FALSE
  /\ loads' = [loads EXCEPT ![i] = Closed(loads[i])]
  /\ UNCHANGED <<selectedDistrict, shown, warned>>

DeskStep ==
  \/ \E d \in Everywhere \cup {None} : selectDistrict(d)
  \/ Retry
  \/ \E i \in DOMAIN loads : settled(i) \/ denied(i) \/ \E x \in Parts : PartServed(i, x)
-----------------------------------------------------------------------------
(***************************************************************************)
(* GET /audit/events?before=: a client reads the events of an entity type. *)
(***************************************************************************)
StartPaging ==
  /\ top = 0 /\ cursor' = Len(events) + 1 /\ top' = Len(events) + 1 /\ seen' = {}

ReadPage(entity) ==
  /\ cursor > 0
  /\ seen' = seen \cup Matching(PageBelow(cursor), entity)
  /\ cursor' = NextBefore(PageBelow(cursor), entity)
  /\ UNCHANGED top

ClientStep(entity) == StartPaging \/ ReadPage(entity)
-----------------------------------------------------------------------------
OnPage == ~busy /\ loads # <<>>

\* Unless a warning names parts that are older, or the guard refused a load and the
\* page is being left, the events, the sums and the exceptions on the page came with
\* one load, however many are under way.
PartsOfOneLoad ==
  OnPage /\ warned = {} /\ ~leaving => \A x, y \in Parts : shown[x].load = shown[y].load

\* "Every funding source should reconcile": no order of reads, payments and
\* filters makes the table call a source of sound books to attention.
NoFalseAlarm ==
  LET sums == shown["reconciliation"].value
  IN  sums # None => \A s \in DOMAIN sums : healthy(sums[s])

\* A client that follows the cursor to its end was given every matching event
\* that was there when it began, whatever was appended meanwhile.
PagingMissesNothing ==
  cursor = 0 /\ top > 0 => seen = Matching(1..(top - 1), "payout")
=============================================================================
