------------------------------ MODULE Dashboards ------------------------------
(***************************************************************************)
(* One tab of a browser that is at the public page, the login or the       *)
(* auditor page, or a program in its place that reads the audit API, with  *)
(* the services that go on changing the tables the pages report.           *)
(***************************************************************************)
EXTENDS PublicSite, AuditorDesk

VARIABLE route      \* the page of the tab, or "client"

auditor == <<desk, client>>
vars == <<tables, site, route, auditor>>

Init == ReportsInit /\ SiteInit /\ DeskInit /\ route = "/"

DeskGone ==
  /\ selectedDistrict' = None /\ loads' = <<>>
  /\ shown' = NothingShown /\ busy' = FALSE /\ warned' = {} /\ leaving' = FALSE

\* The data of a page are gone when the tab shows another one, and mounting a
\* page starts its load.
Show(page) ==
  /\ route' = page
  /\ SiteMounted
  /\ IF page = "/auditor" THEN DeskMounted ELSE DeskGone
  /\ ClientGone
  /\ UNCHANGED tables

\* submit of login/page.tsx: the role leads to a page.  A login that fails is
\* shown, and changes nothing else.
PageFor(role) == IF role = "AUDITOR" THEN "/auditor" ELSE "/operator"

submit(role) == route = "/login" /\ Show(PageFor(role))

\* The links between the pages, and logout of the protected ones.
follow(page) ==
  /\ <<route, page>> \in {<<"/", "/login">>, <<"/login", "/">>}
  /\ Show(page)

logout == route \in {"/auditor", "/operator"} /\ Show("/login")

\* The login that a refused load of the auditor page pushed is there.
LoginReached == leaving /\ Show("/login")

\* The reader of the reports is a program.
OpenClient == route = "/login" /\ Show("client")

Next ==
  \/ ReportsStep /\ UNCHANGED <<site, route, auditor>>
  \/ route = "/" /\ SiteStep /\ UNCHANGED <<tables, route, auditor>>
  \/ route = "/auditor" /\ DeskStep /\ UNCHANGED <<tables, site, route, client>>
  \/ route = "client" /\ ClientStep("payout")
     /\ UNCHANGED <<tables, site, route, desk>>
  \/ \E role \in {"AUDITOR", "GOVERNMENT", "NGO"} : submit(role)
  \/ \E page \in {"/", "/login"} : follow(page)
  \/ logout \/ LoginReached \/ OpenClient

Spec == Init /\ [][Next]_vars
=============================================================================
