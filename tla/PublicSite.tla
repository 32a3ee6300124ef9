------------------------------ MODULE PublicSite ------------------------------
(***************************************************************************)
(* The public page with its map of the districts and its table of them.    *)
(* Mounting the page starts a load of two requests; the map, the list and  *)
(* the rows of the table select a district.                                *)
(***************************************************************************)
EXTENDS ReliefReports, SequencesExt

CONSTANTS
  Features,         \* the districts drawn on the map
  NameOf            \* words of the name of a district, as a sequence

VARIABLES
  summary, districts,         \* the data of the page, or None and no rows
  loading,
  geojson,                    \* the drawing of the map: "loading", "ready" or "failed"
  part,                       \* the answers of the load that is under way
  selected                    \* a district, or None

site == <<summary, districts, loading, geojson, part, selected>>

NoParts == [summary |-> None, districts |-> None]

SiteMounted ==
  /\ summary' = None /\ districts' = <<>> /\ loading' = TRUE /\ geojson' = "loading"
  /\ part' = NoParts /\ selected' = None

SiteInit ==
  /\ summary = None /\ districts = <<>> /\ loading = TRUE /\ geojson = "loading"
  /\ part = NoParts /\ selected = None
-----------------------------------------------------------------------------
\* One of the two requests of loadDashboard is answered.
SummaryServed ==
  /\ loading /\ part.summary = None
  /\ part' = [part EXCEPT !.summary = Summary]
  /\ UNCHANGED <<summary, districts, loading, geojson, selected>>

DistrictsServed ==
  /\ loading /\ part.districts = None
  /\ part' = [part EXCEPT !.districts = DistrictRows]
  /\ UNCHANGED <<summary, districts, loading, geojson, selected>>

\* Promise.all: the data arrive together, or not at all.
loadDashboard ==
  /\ loading /\ part.summary # None /\ part.districts # None
  /\ summary' = part.summary /\ districts' = part.districts
  /\ loading' = FALSE /\ part' = NoParts
  /\ UNCHANGED <<geojson, selected>>

loadDashboardFails ==
  /\ loading
  /\ loading' = FALSE /\ part' = NoParts
  /\ UNCHANGED <<summary, districts, geojson, selected>>

\* AssamReliefMap reads its drawing once, beside the data.
loadMap(outcome) ==
  /\ geojson = "loading" /\ geojson' = outcome
  /\ UNCHANGED <<summary, districts, loading, part, selected>>
-----------------------------------------------------------------------------
Funded(row) == row.disbursed > 0 \/ row.pending > 0

fundedDistricts == {d \in DOMAIN districts : Funded(districts[d])}

\* DistrictDistribution: the rows of the table.
visibleDistricts == {d \in fundedDistricts : selected \in {None, d}}

\* What the table sums up of its rows, and how many families the hero counts.
Sum(column, ds) == SumFunction([d \in ds |-> districts[d][column]])
totals == [column \in {"allocated", "disbursed", "pending", "families", "payouts", "settled"} |->
             Sum(column, visibleDistricts)]
totalFamilies == Sum("families", DOMAIN districts)

\* normalizeName drops the words that districts have besides their names.
normalizeName(words) ==
  SelectSeq(words, LAMBDA w : w \notin {"district", "metropolitan", "metro", "city"})

includes(words, part_) ==
  \E i \in 0..(Len(words) - Len(part_)) : SubSeq(words, i + 1, i + Len(part_)) = part_

Alike(d, e) ==
  LET x == normalizeName(NameOf[d])
      y == normalizeName(NameOf[e])
  IN  includes(x, y) \/ includes(y, x)

\* The districts whose row a feature may be given: the first in the order of the
\* answer, by disbursed amount, whose name is like the feature's.
matchDistrict(f) ==
  LET like == {d \in DOMAIN districts : Alike(f, d)}
  IN  {d \in like : \A e \in like : districts[e].disbursed <= districts[d].disbursed}

\* handleDistrictSelect, by the list or a row of the table.
selectInTable(d) ==
  /\ d \in fundedDistricts \cup {None}
  /\ selected' = IF d = selected THEN None ELSE d
  /\ UNCHANGED <<summary, districts, loading, geojson, part>>

\* Mutant of Clickable: handleClick does not ask whether the district is funded.
ClickableAlways(d) == TRUE

Clickable(d) == Funded(districts[d])

\* handleClick of a DistrictMesh; the map is drawn when nothing is loading.
clickFeature(f) ==
  /\ ~loading /\ geojson = "ready"
  /\ \E d \in matchDistrict(f) : Clickable(d) /\ selected' = d
  /\ UNCHANGED <<summary, districts, loading, geojson, part>>

SiteStep ==
  \/ \E outcome \in {"ready", "failed"} : loadMap(outcome)
  \/ SummaryServed \/ DistrictsServed \/ loadDashboard \/ loadDashboardFails
  \/ \E d \in fundedDistricts \cup {None} : selectInTable(d)
  \/ \E f \in Features : clickFeature(f)
-----------------------------------------------------------------------------
\* "suppresses groups with fewer than three distinct beneficiaries": whenever a
\* district was read, what is shown of it is of a full cohort of families.
SmallGroupsHidden ==
  \A d \in DOMAIN districts :
    Cardinality({PersonOf[p] : p \in {q \in Payouts :
      status[q] # "none" /\ DistrictOf[AllocationOf[q]] = d}}) >= Cohort

\* Whichever of map, list and table selected it, a district that is selected has
\* a row in the table.
SelectionIsVisible == selected # None => visibleDistricts = {selected}

\* Whichever statements the page was put together from, and whatever failed, was
\* reversed or is unknown: the cards narrow from what was received to what was
\* paid, and the table never tells of more payments than allocated, of more families
\* than payouts, or of more families than the hero.
PublicMoneyNarrows ==
  /\ summary # None =>
       /\ summary.received >= summary.allocated
       /\ summary.allocated >= summary.disbursed + summary.pending
  /\ totals["allocated"] >= totals["disbursed"] + totals["pending"]
  /\ totals["payouts"] >= totals["families"] /\ totals["payouts"] >= totals["settled"]
  /\ totalFamilies >= totals["families"]
=============================================================================
