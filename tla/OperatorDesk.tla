----------------------------- MODULE OperatorDesk -----------------------------
(***************************************************************************)
(* The operator page of the web portal, in one tab of a browser, and the   *)
(* endpoints its forms call.  The page shows the context it loaded when it *)
(* was opened; a form offers what that context has; api() sends whatever   *)
(* token the browser has at that moment, which a login in another tab may  *)
(* have replaced.  Other clients call the same endpoints.                  *)
(***************************************************************************)
EXTENDS ReliefServices

VARIABLES
  token,            \* localStorage: whose token the browser has, or None
  page,             \* the page the tab shows
  context,          \* the page's data, or None
  sent              \* the call the panel waits for, or None

browser == <<token, page, context, sent>>
vars == <<services, browser>>

Init ==
  /\ ServicesInit
  /\ token = None /\ page = "login" /\ context = None
  /\ sent = None
-----------------------------------------------------------------------------
(***************************************************************************)
(* GET /operator/context, and what the page shows of it.                   *)
(***************************************************************************)
\* Queries of the context, which are answered in any order, each by what its
\* table has by then: the sources and the allocations of the caller's organization.
\* The beneficiaries come with the latter; a row of theirs never changes, so that
\* when they are read makes no more difference than how many there are.
Tables == {"sources", "allocations"}

Own(table, org) == [i \in {j \in DOMAIN table : table[j].owner = org} |-> table[i]]

Unfetched(org) == [org |-> org, got |-> {}, sources |-> <<>>, allocations |-> <<>>, people |-> <<>>]

Fetched(data, name) ==
  LET more == [data EXCEPT !.got = @ \cup {name}]
  IN  IF name = "sources" THEN [more EXCEPT !.sources = Own(rows.sources, data.org)]
      ELSE [more EXCEPT !.allocations = Own(rows.allocations, data.org), !.people = rows.people]

\* Mutant of eligibleBeneficiaries: the panel offers every beneficiary.
allBeneficiaries(data, a) == DOMAIN data.people

eligibleBeneficiaries(data, a) ==
  {p \in DOMAIN data.people : data.people[p] = data.allocations[a].place}

\* What each form of the panel lets the operator send.
FundForm == [kind: {"source"}, type: {OrgOf[u] : u \in Users}]

AllocationForm(data) == [kind: {"allocation"}, source: DOMAIN data.sources, place: Places]

BeneficiaryForm == [kind: {"beneficiary"}, person: People, place: Places]

PayoutForm(data) ==
  UNION {[kind: {"payout"}, allocation: {a}, person: eligibleBeneficiaries(data, a),
          batch: {None}] : a \in DOMAIN data.allocations}

Forms(data) == FundForm \cup AllocationForm(data) \cup BeneficiaryForm \cup PayoutForm(data)
-----------------------------------------------------------------------------
(***************************************************************************)
(* The handlers of the page.                                               *)
(***************************************************************************)
\* A login, in this tab or, while this one shows the panel, in another: the token
\* is the browser's.  A page that is opening has sent its requests already.
login(u) ==
  /\ page = "login" \/ (page = "operator" /\ u # token)
  /\ token' = u
  /\ page' = IF page = "login" THEN "opening" ELSE page
  /\ UNCHANGED <<services, context, sent>>

\* load: the page asks with the token the browser has, and one query is answered.
load(name) ==
  /\ page = "opening" /\ context = None /\ token # None /\ FreeConnection
  /\ context' = Fetched(Unfetched(OrgOf[token]), name)
  /\ UNCHANGED <<services, token, page, sent>>

\* The other one is answered: the panel is mounted anew.
loaded(name) ==
  /\ page = "opening" /\ context # None /\ name \notin context.got /\ FreeConnection
  /\ context' = Fetched(context, name) /\ page' = "operator"
  /\ UNCHANGED <<services, token, sent>>

\* load: any error, also of a context that is only late, leads to the login.
loadFails ==
  /\ page = "opening"
  /\ page' = "login" /\ context' = None
  /\ UNCHANGED <<services, token, sent>>

\* The operator reloads the page; an answer that is still to come is lost.
reopen ==
  /\ page = "operator"
  /\ page' = "opening" /\ context' = None /\ sent' = None
  /\ UNCHANGED <<services, token>>

logout ==
  /\ page = "operator"
  /\ token' = None /\ page' = "login" /\ context' = None /\ sent' = None
  /\ UNCHANGED services

\* The path and the body of a form, with the token that api() adds.
Request(form) == With(form, "user", token)

\* submit: the button is disabled while the panel waits.  An amount that is
\* not a positive number never leaves the panel.
submit(c, form) ==
  /\ page = "operator" /\ sent = None /\ token # None
  /\ form \in Forms(context)
  /\ Call(c, Request(form))
  /\ sent' = c
  /\ UNCHANGED <<token, page, context>>

\* The answer.  After the await event.currentTarget is null: of a success the
\* message is set, but reset() throws, the catch sets the message of the error
\* in its place, and onReload is never called.
answered ==
  /\ sent # None /\ answer[sent] # "none"
  /\ sent' = None
  /\ UNCHANGED <<services, token, page, context>>

\* Clients without the portal, for what its forms cannot send: payouts to anyone
\* and in a batch, and reversals.
OtherClient(c, in) ==
  /\ in.kind \in {"payout", "reversal"}
  /\ Call(c, in) /\ UNCHANGED browser

Next ==
  \/ \E u \in Users : login(u)
  \/ loadFails \/ reopen \/ logout \/ answered
  \/ \E name \in Tables : load(name) \/ loaded(name)
  \/ \E c \in Calls :
       \/ page = "operator" /\ \E form \in Forms(context) : submit(c, form)
       \/ \E in \in Inputs : OtherClient(c, in)
  \/ ServicesStep /\ UNCHANGED browser

Spec == Init /\ [][Next]_vars
-----------------------------------------------------------------------------
(***************************************************************************)
(* Properties.                                                             *)
(***************************************************************************)
\* However old the context is, and whoever's token the browser has by then,
\* the panel never sends a payout to a beneficiary of another scheme or
\* district: what it sends is refused for its owner or its balance only.
PanelOffersEligible == sent # None => answer[sent] # "ineligible"
=============================================================================
