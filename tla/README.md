# ReliefChain: specifications, model checking and proofs

ReliefChain moves disaster relief money. Operators of a government and of NGOs
register funds, allocate them to schemes and pay beneficiaries; a Hyperledger
Fabric chaincode decides what is allowed and keeps the public record; a NestJS
API with PostgreSQL queues the payouts, asks a payout provider to pay, and
records the outcome in both books; a web portal offers the operators forms, the
auditors a desk and the public a map. This directory specifies the parts of that
system where money could be lost, created or paid twice, where somebody could
act under a session that is over, and where what is shown could be untrue.

## The system

| component | state it keeps | operations | hard behaviour | what makes it correct |
|---|---|---|---|---|
| Chaincode (`fabric/chaincode/src`) | world state: disasters, schemes, sources, allocations, beneficiaries, disbursements, idempotency keys; one event per transaction | eight writing transactions, two reads | transactions of several organizations in any order, running totals, repeated keys | no over-commitment, totals equal the assets they stand for, a payout is decided once, events replay to the balances |
| Payout worker (`apps/api/src/worker.ts`) | `payout_jobs`, `dead_letter_jobs`; its timer and the batch a tick has leased | tick, lease, retry, dead-letter, release | overlapping ticks, several processes, expiring leases without fencing, crashes, lost answers | every job ends, no payout is decided twice, a closed job stays closed |
| Payout service (`payouts.service.ts`) | `disbursements`, `allocations`, `payout_attempts` | `finalizeJob`, `reconcile`, retry and resolve of dead letters | two external calls inside one transaction | the table only takes over what the ledger decided; balances account for each payout once |
| Ledger client (`ledger.ts`) | none (fabric mode); `ledger_events` (memory mode) | `submit`, `evaluate` | deadlines: committed although the caller was told otherwise; in memory mode a second connection of the pool | see the two above |
| Disbursements (`disbursements.service.ts`) | `disbursement_requests`, `disbursements`, `payout_batches` | `initiate`, `reverse`, the four batch operations | idempotent retries across two books, crash between them | at most one payout per key, eligibility, approval by a second person, both books balance |
| Funds, beneficiaries (`funds.service.ts`, `beneficiaries.service.ts`) | `sources`, `allocations`, `beneficiaries` | `createFundSource`, `allocate`, `registerBeneficiary` | ledger first, rows afterwards, with or without a transaction | rows follow the ledger; the books part by faults only |
| Pool (`database.service.ts`) | connections, row locks | `query`, `transaction` | transactions that hold a connection and wait for another, or for a row | somebody can always go on |
| Indexer (`ledger-indexer.service.ts`) | `ledger_events`, `indexer_checkpoint`, an event stream | event loop, rebuild | duplicate delivery, restarts, rebuild against a running stream | every event stored once, none lost below the checkpoint |
| Sessions (`auth/`, `rate-limit.service.ts`, `retention.service.ts`) | `staff_sessions`, `otp_challenges`, `token_revocations`, `rate_limit_buckets` | login, codes, refresh, logout, guard, purge | parallel requests between check and update; expiry and purge against a logout | a used code is of no use to a later request, a logout stays in force, limits hold |
| Reads (`controllers/`) | none | summary, districts, reconciliation, exceptions, events, operator context | several reads of changing tables put together as one page | small groups hidden, pages miss nothing |
| Web portal (`apps/web`) | one tab: token, context, form, selected district, loads under way | login, operator page, public page with map, auditor page | old data, a token replaced by another tab, answers out of order | what is offered may be paid, what is shown belongs together |
| Seeding, schemas, demo API, mobile app, Fabric configuration | | | | see "Not modelled" |

The API calls the chaincode through `LedgerService.submit` and waits for the
commit; the worker and the operators' endpoints share the payout tables; the
indexer follows the chaincode's events; the pages read the tables through the
controllers, several reads to a page, and keep what they have read.

## The modules

| module | what it is | code |
|---|---|---|
| `ReliefDomain` | the rules on money and identities, as operators | `domain.ts`, `ledger-access.ts` |
| `PayoutLifecycle` | abstract: the life of one disbursement | `payoutTransitions` in `domain.ts` |
| `ReliefLedger` | the world state and its eight writing transactions; implements `PayoutLifecycle` | `relief-contract.ts` |
| `PayoutBooks` | abstract: the ledger decides a payout once, the table follows | promised by the documents of the API |
| `PayoutWorker` | queue, provider, ledger client and operators' endpoints together; implements `PayoutBooks` | `worker.ts`, `payouts.service.ts`, `simulated-payout.provider.ts`, `ledger.ts`, `database.service.ts` |
| `PayoutIntake` | abstract: at most one payout per idempotency key, in both books | promised by the documents of the API |
| `PayoutRequests` | repeated calls that create payouts, with the ledger and the database; implements `PayoutIntake` | `DisbursementsService.initiate`, migration 006 |
| `PayoutBatches` | the rows of `payout_batches` and the four operations on them | `DisbursementsService` |
| `ReliefServices` | the endpoints that write to both books, over the pool; contains `PayoutBatches` (`INSTANCE`) | `funds.service.ts`, `beneficiaries.service.ts`, `disbursements.service.ts`, `authorization.ts`, `database.service.ts` |
| `OperatorDesk` | the operator page in a browser, over `ReliefServices` | `app/operator/page.tsx`, `TransactionPanel.tsx`, `lib/api.ts`, the operator controller |
| `AuditIndex` | abstract: the index is a prefix of the channel's events | promised by the documents of the API |
| `LedgerIndexer` | event loop, checkpoint, halt, restart and rebuild; implements `AuditIndex` | `ledger-indexer.service.ts` |
| `Sessions` | logins, codes, refresh sessions, the guard, rate windows, the purge | `auth/`, `rate-limit.service.ts`, `retention.service.ts` |
| `ReliefReports` | what the public and audit controllers compute | `public.controller.ts`, `audit.controller.ts` |
| `PublicSite` | the public page with its table and map, over `ReliefReports` | `app/page.tsx`, `AssamReliefMap.tsx` |
| `AuditorDesk` | the auditor page and a client that pages through events, over `ReliefReports` | `app/auditor/page.tsx`, `audit.controller.ts` |
| `Dashboards` | the routes between login, public and auditor page; composes the last three | `app/login/page.tsx` and the pages |
| `*Proofs` | theorems | |
| `MC*` | small instances for TLC | |

### How state and actions correspond to the code

**ReliefLedger.** One variable per kind of asset key, and `event`, the single
chaincode event the last transaction set. A chaincode transaction reads and
writes one committed state (Fabric validates read sets), so each is one action;
a run whose check throws writes nothing and is an action that is not enabled.
A client is its MSP and its role attribute, and the operators `requireWriter`,
`requireOwner` and so on are those of the contract. Amounts are integers from 1
to `MaxPaise`; what the schemas reject never reaches a transaction and is not an
input. Each transaction checks the same things in the model as in the code: in
particular nothing compares the disaster of an allocation's scheme with that of
its source, on the ledger or in the model.

**PayoutWorker.** PostgreSQL is one variable per table (`db`, `allocation`,
`attempts`, `job`, `letter`), keyed by disbursement because
`payout_jobs.disbursement_id` is unique. A step is what happens between two
awaits that others can observe: `leaseJobs`, the lock of the job (`LockJob`) and
of the allocation (`LockPayout`), the provider's answer (`SubmitPayout`), the
endorsement, the commit of the ledger, and the commit of the database
transaction (`CommitPayout`), which writes everything its statements wrote. The
row locks are guards (`Locked`, `AllocationLocked`). A Fabric transaction is
endorsed against the committed state and enters `current`; every commit that
writes what it read takes it out again, which is the MVCC check. A client that
misses a deadline gives up, and its transaction, now the payout's own, may still
commit (`OrphanCommits`). Lost answers are part of the actions: a COMMIT whose
acknowledgement is lost has happened, and the `catch` still runs. `Restart` ends
all that runs in a process and forgets what the provider had told it, which the
simulated provider keeps in memory only. Leases expire at any time: a batch
takes up to five jobs of about eighty seconds each, a lease lasts three hundred,
and nothing renews or fences it.

The ledger here is reduced to the status of the disbursement. The other check of
`FinalizeDisbursement`, that the allocation holds the amount, is implied for a
PENDING disbursement by `TotalsMatchAssets`, which is proved of `ReliefLedger`.

**PayoutRequests.** `requests` is `disbursement_requests`, `book` the
disbursement recorded under a key, `ledger` the one the chaincode has under it.
A call is the random UUID it draws for its payout. `Reserve` is the upsert with
its `WHERE` clause, `ReadExisting` the second statement of a refused call,
`LockAllocation` to `Record` the transaction with the ledger call inside, `Fail`
the `catch`, which updates the request whatever state it has. All that the last
statements of the transaction write becomes visible with its COMMIT, in `Record`.
`Crash` ends any set of calls at once, as the end of a process does.

**LedgerIndexer.** `chain` is what the channel has committed, `stored` the rows
of `ledger_events`, `checkpoint` the row of `indexer_checkpoint`, `last` the
block in memory. The loop opens a stream at the checkpoint, inclusively, and
stores each event with a conflict clause and the checkpoint with `GREATEST`, in
one transaction. An event that cannot be read halts the loop. A replay closes
the stream, deletes in a transaction, lowers the checkpoint and then the memory
of the loop; these are separate steps next to the loop's. Its argument is any
block, also one past the checkpoint, which then rises to it. No route calls it, so
that `Spec` is the loop alone; `ReplaySpec` is the loop with replays beside it, and
`asked` remembers the highest block one was asked from.

**ReliefServices and OperatorDesk.** `world` is what Fabric has, `rows` what the
tables have, both as a record of sources, allocations, people and payouts. A
call stands for the id it draws. `Call` is the request with the checks that need
no table (`MayCall`), `Begin` the `BEGIN` with a connection of the pool,
`LockRows` the `SELECT ... FOR UPDATE` with everything the transaction then
checks (`Refusal`, in the order of the code), `SubmitToLedger` the transaction on
Fabric with the checks of the contract (`Accepted`), `WriteRows` the COMMIT, or
the single INSERT of the two endpoints that have no transaction, and `Publish`
the outbox row they write after it. What one call writes is one operator,
`After`, for both books: the contract puts what the SQL writes. Failures are
actions of their own: a commit on Fabric nobody hears of, a COMMIT whose
acknowledgement is lost, a statement that fails, and `TimeoutInterceptor`, which
answers while the handler goes on. A place is a scheme with a district, the two
things eligibility compares; the contract does not compare them. A payout is one
unit and every allocation has one size, so that balances are counts. Of the
worker and of reconciliations, whose details are `PayoutWorker`, the desk has the
steps that its books tell apart. `DecideOnLedger` is the transaction on Fabric,
and `recording` keeps its outcome for the handler that is about to write it:
`RecordOutcome` is the COMMIT on the table, `RecordingFails` the handler that dies
or rolls back in between. The worker holds a connection and the rows meanwhile
(`Finalizing`); a reconciliation asks for them afterwards. `RecordUnknown` is the
provider that does not know: the table alone turns UNKNOWN, the asset stays
PENDING, and both keep the reservation. Both books
start from `Seeds`, earlier calls that are over. `Mode` chooses the ledger: with
"memory" nothing is checked or kept outside the tables, and `record` needs a
connection of its own while a transaction holds one.

The page in `OperatorDesk` has what it loaded (`context`, in two queries that
may be answered at different times) and the call it waits for (`sent`). The token is the browser's: another tab may
log in as somebody else. A form offers what the context has, `api()` adds the
token of the moment. `answered` is the rest of the handler after the answer, as it is: it ends
at `reset()`, which throws, so that the page is not loaded again and keeps its
context.

**Sessions.** A token is one id: the row of `staff_sessions`, the refresh token
hashed in it and the access token with its `jti`. Each handler is a sequence of
its statements (`verifyOtp` finds a code, counts the attempt, consumes it, issues
the tokens), except where one statement makes them atomic (the upsert of a rate
bucket). A refresh ends at its first statement, a `SELECT` over two outer joins
with `FOR UPDATE`, which PostgreSQL refuses: `refresh` answers with an error
whatever the token is, and the exchange after it has no action. Time is
actions that let one thing run out: an access token, a session, a code, the
half minute between two codes, a window. `Purge` deletes a revocation whose
token has expired. `over` and `passed` are history variables.

**ReliefReports, PublicSite, AuditorDesk, Dashboards.** A read is one statement,
so it is computed from one state; what a page puts together from two reads may
come from two. The money of the tables moves by `allocate`, `initiate` and
`decide`, which are the atomic views of the modules above. `AuditorDesk` keeps
each load with what has arrived of it: loads are never cancelled, and what
arrives is shown, in whatever order. A load the guard refuses (`denied`) pushes the
login and draws the page again as it was; `leaving` says that the login is on its
way, and the page goes on until `LoginReached`. The map matches a feature to a district by
the words of their names, as `normalizeName` and `includes` do.

## The runs

| run | instance | what it shows |
|---|---|---|
| `relief_ledger` | 2 sources, allocations, payouts and keys, 1 disaster, scheme and beneficiary, amounts 1 to 3, 4 clients; 110 804 states | no over-commitment (`NoOversubscription`), totals are sums (`TotalsMatchAssets`), keys (`OneDisbursementPerKey`), `Traceable`, each event moves the balances as its transaction did (`EventsReplayBalances`), `ImplementsLifecycle` |
| `payout_worker` | 1 payout of any outcome, 2 processes with a tick and an operator each, 2 attempts, 3 faults; 1.2 million states | `ImplementsBooks`; a decided payout has one attempt and a closed job, an undecided one closes by an operator only (`JobsMatchOutcomes`); `ClosedJobsStayClosed`; an open job is one the workers may lease or one with a dead letter (`NoJobStranded`) |
| `payout_worker_batch` | 2 payouts of one allocation in batches of 2, 1 fault; 2.1 million states | `BalancesMatch` where jobs share a lease and an allocation lock |
| `payout_worker_liveness` | as the first, 1 operator, 2 faults; 180 543 states | `EveryJobEnds` |
| `payout_requests` | 4 calls, 3 keys, 2 bodies, room for 2 payouts, 3 faults; 124 562 states | `OneCallPerKey`, `AnswersMatchBook`, `ImplementsIntake`; calls that meet over the last of the allocation never exceed it (`ReservationsMatch`); a key is left PROCESSING without a call by faults only, and then for good (`OnlyFaultsStrand`) |
| `operator_desk` | 2 calls of any kind, 3 operators (2 of the government, 1 of them restricted to a place, 1 of an NGO), 3 people of whom 2 share a phone, 2 places, 2 batches, a pool of 1, 1 fault, any outcomes; 553 292 states | the tables follow the ledger (`RowsFollowLedger`) and the books part by faults, calls and decisions on their way and shared phones only, by at most one row each (`BooksPartByFaults`); both balance, UNKNOWN payouts included (`BothBalancesMatch`); a payout of the tables lives once (`RowsLiveOnce`); `ApprovedByAnother`; an old page under anybody's token never sends a payout to an ineligible beneficiary (`PanelOffersEligible`); nobody waits for everyone (`NobodyWaitsForEveryone`) |
| `ledger_indexer` | 3 blocks of up to 2 events, any unreadable, 3 faults; 40 042 states | `ImplementsIndex`, `CheckpointCovers`, `EveryEventIndexed` |
| `sessions` | 4 requests, 3 sessions, 1 staff user, 1 phone, windows of 2, 2 codes of 2 guesses, 1 fault; 582 124 states | a logout is final whatever expires or is purged (`LogoutIsFinal`), a code that was over is of no use to requests that begin later (`SpentCodesStayDead`), a window lets no more pass than its limit (`PassedWithinLimit`) |
| `dashboards` | 1 source, 2 allocations in 2 districts, 3 map features, 3 payouts of 2 families, groups of 2, pages of 2, 4 events, 2 loads; 944 184 states | groups below the cohort are hidden (`SmallGroupsHidden`), a selection is one the table shows (`SelectionIsVisible`), public money narrows towards the beneficiary (`PublicMoneyNarrows`), what the auditor sees is of one load, or a warning says so, or the login is on its way (`PartsOfOneLoad`); the reconciliation table calls no source of sound books to attention (`NoFalseAlarm`); paging misses no event (`PagingMissesNothing`) |
| `rebuild_loses_events` (expects a violation) | 3 blocks of 1 event, 1 replay, no fault | `CheckpointCovers` fails, see Findings |
| `dead_letters_reviewable` (expects a violation) | 1 payout that settles, 1 attempt, 2 processes, 2 faults | `DeadLettersReviewable` fails, see Findings |
| `refresh_refused` (expects a violation) | 2 requests, no fault needed | `RefreshAnswered` fails, see Findings |

**Why the bounds are enough.** Two of each id is what a rule needs to confuse
one with the other; with amounts up to 3 a source can be filled exactly, exceeded
by one, and split. In the queue every hazard is between two owners of one job (a
stale tick and a new one, in one process or in two), with an operator beside
each; two attempts give a job that is retried, dead-lettered and retried again,
and three faults allow a lost answer, a crash and a missed deadline in one
behaviour. Three keys and room for two payouts let calls under different keys
find the last of the allocation free together, with one of them refused in the
end; the fourth call repeats one of the three. At the desk, two calls meet in
every pair of kinds at every step, with the page, the worker, a reconciliation
and the batch beside them; a pool of one is the limit at which a call or a
decision waits for another's connection; the allocation has room for one payout, so
a second one meets a full balance. Four requests are a login or a code, two that race, and one
that comes after. Two loads are what an answer out of order needs, and three
payouts of two families tell payouts from families at a cohort of two.
`MaxFaults` bounds crashes, failed statements and lost answers together. Leases,
manual retries, expiries and purges are not bounded. Symmetry is used on ids that
no rule orders or names (and never in the runs with liveness). Deadlock is not
checked: a ledger that is full, a queue that is empty, answered calls and a
halted indexer have nothing left to do. Where waiting for each other would be a
fault of the code, `NobodyWaitsForEveryone` says so instead.

**Fairness.** `payout_worker_liveness`: a tick goes on with what it does (weak),
and leases a job that comes due again and again (strong: `setInterval` polls for
as long as the process runs); the endpoints go on once called, but nobody has to
call them; a lease expires; a process that was shut down is started again.
The last is an assumption on whoever operates the API, not on its code: with
every process stopped for good no job ends. Nothing is assumed of crashes, answers or
deadlines except that there are finitely many faults. `ledger_indexer`: the loop
goes on and reopens its stream (weak, one assumption over all of its steps),
which is its `while` with a delay after an error; there too faults are finitely many.

**Mutants.** Each property of a passing run has a mutant, an operator next to
the one it stands for: a plausible bug of that code (a dropped guard, a missing
reset, a swapped order) that the property detects under the run's own bounds.

## What is proved

51 theorems, over lemmas in eight modules, each for every value of the constants that
satisfies the named assumptions: any number of users, processes, calls, ids,
faults, any amounts. The assumptions say what the constants are (`IdsAssumption`,
`BoundsAssumption`, `MaxPaiseAssumption`, `IdentitiesAssumption`,
`AbsentAssumption`, `FiniteAssumption`, `ProcessAssumption`,
`OutcomesAssumption`, `NoneAssumption`, `ValidityAssumption`,
`ReportsAssumption`, `SessionsAssumption`, `ServicesAssumption`, and that the
desk starts from balanced books, `SeedsAssumption` and `BatchSeedsAssumption`);
TLC evaluates each on its instances.

*Sums* (`SumProofs`). The totals of the chaincode's accounts and the cards of the public
page are sums, which the modules write with
`SumFunctionOnSet` of the community modules: a choice of a function that
satisfies a recursion over sets. `SumExists` and `SumUnique` show that there is
exactly one. They are by induction over the subsets of a finite set, in the form
the provers have it: a property is the set of those that have it, and a set of
those that have it not would have a least one (`WFMin` of the library). From
these follow what the other proofs use: a summand taken out (`SumRemove`), one of
them changed (`SumUpdate`), two functions compared (`SumMonotonic`, `SumAdds`,
`SumAgree`), and a sum over groups bounded by what is grouped (`GroupsBound`).

*ReliefLedger* (`ReliefLedgerProofs`): `TypeOK`, `Traceable`, `TotalsMatchAssets`,
`NoOversubscription`, `OneDisbursementPerKey`, `EventsReplayBalances` and the
refinement `ImplementsLifecycle`. The inductive invariant is
`TypeOK /\ Traceable /\ TotalsMatchAssets`. It needs `Traceable` because a total
is a sum over disbursements whose allocation must exist, and `TotalsMatchAssets`
gives that a subtraction never goes below zero. The proofs first show that each
transaction has one of a few effects on the accounts, then that each effect
keeps the sums, moves the balances as its event says, and is a step or a stutter
of `PayoutLifecycle`. Keys come from an invariant of their own on top of `TypeOK`.

*PayoutRequests* (`PayoutRequestsProofs`): `TypeOK`, `OneCallPerKey`,
`AnswersMatchBook`, `ReservationsMatch`, and the refinement `ImplementsIntake`.
The properties are not inductive: that one call at a time works on a key rests
on `Owned` (a call at work finds the request PROCESSING with the hash of its
body, unless its COMMIT was done and it is about to mark it FAILED), and that the
table follows the ledger rests on `Endorsed` (a valid endorsement is of a key
still free) and `Committed` (a call that records is the one the ledger took).
`IInv` joins these; `Accounts` adds that whoever holds the allocation row, and
whoever has a valid endorsement, has room for one more payout. Three more results
rest on it:

- `OnlyFaultsStrand`: every way out of `initiate` without a fault leaves the
  request of its key COMPLETED or FAILED, and `Reservable` admits no PROCESSING one,
  so that a stranded key stays stranded (`StepStrands`).
- `NoCallStuck`: a call in flight can take its next step, or waits for the
  allocation row of one that can. It needs `RecordedOnce` (the call whose payout is
  in the table has left the transaction), so that the INSERT never meets its key.
- `KeysStandForOne` follows from `PayoutIntake` alone: the payout of a key is never
  replaced, in either book.

*PayoutWorker* (`PayoutWorkerProofs`): `TypeOK`, `JobsMatchOutcomes`,
`ClosedJobsStayClosed`, `BalancesMatch` and the refinement `ImplementsBooks`.
The inductive invariant is `Types /\ Core`. Leases do not exclude two owners of a
job, so `Core` says what does: `Locks` (one holder of each row, what is held is
open, whoever finalizes holds the job) and `Deciding` (what can still commit on
Fabric, the transactions of clients that gave up included, meets an open payout;
the ledger is decided first; one step at a time records; the table follows),
beside `JobsMatchOutcomes` itself. Every step of the twenty-odd actions is shown
to be of one of four kinds (it leaves the decision alone, enters, decides on the
ledger, or records in the table), and only the four kinds are shown to keep
`Core`. `BalancesMatch` counts payouts by cardinality on top of it. Four more
results rest on the same invariant:

- `NoJobStranded` is inductive on top of `Core`: a tick writes the counter from the
  copy it leased, however old, but dead-letters the job whenever that copy is at the
  limit, and a letter once written is never unwritten.
- `AbandonedForever`, of what DeadLettersReviewable finds broken: a job that is
  dead-lettered after its dead letter was retried is lost. `Untouched` says that no process has a job at hand. It stays
  so, since the one step that could change it is a lease, which wants a QUEUED or
  expired LEASED row, and a dead letter that is not open sends both endpoints away.
- `LocksReleased`: whoever waits for the row of a job, a payout or an allocation, some
  tick that holds rows has none in its way. Rows are locked in one order (the job, then the
  allocation), and `BatchesOK` gives each tick its place in the batch.
- `PayoutsLiveOnce` follows from `PayoutBooks` alone: asset and row each move along
  `PayoutLifecycle`, and an outcome in the table is the one on the ledger.

*PayoutBatches* and the desk (`OperatorDeskProofs`). `ApprovedByASecond` is of the
four operations of a batch in any order. `ApprovedBetweenCalls` carries it over to
the desk (`ApprovedByAnother`), where payouts join batches between any two of
them. Of the desk are proved `RowsFollowLedger`, `PanelOffersEligible`,
`BothBalancesMatch`, `BooksPartByFaults` and `RowsLiveOnce`. The
invariant has three parts: `Tidy` (the tables are a book whose rows name rows
that exist, and new ids are fresh), `Loaded` (what an old page says of places is
still true: rows are added and their states move, but places never change), and,
with Fabric, `Ledger` (the same of the world state, that each row has its asset,
in a state the asset has reached, and that a call about to write its rows has its
assets on the ledger already).
`BothBalancesMatch` adds `Guarded`: two calls that hold a row hold different rows,
and what a call has checked under its lock is still true when it writes. That is
why the check before the ledger call and the counter after it agree.

`BooksPartByFaults` counts what the ledger has and the tables lack. Its form is
not inductive: a step that writes a row frees one place of the bound and one of
the count, and that these are the same needs names. `Lost` is what is missing,
tagged with its kind, without what calls in the stage "writing" and handlers with
an outcome in `recording` are about to write (`Coming`), and `FaultsLose` says that the faults so far are at least as
many. It rests on `Twins`: a payout is the same in both books but for its status,
and a call about to write a person finds the table without them and no other call
at it. Then each step leaves `Lost`
as it is or smaller, or is a fault and adds one item (`Counted`, `LostStep`).

`NobodyWaitsInACircle` is the guard form of `NobodyWaitsForEveryone`, whose
ENABLED no prover here speaks of: in fabric mode, if a call or a decision is in
flight, one has what its next step waits for, a connection, a row, or nothing
(`CanGo`, `CanRecord`). It
holds because a transaction keeps one connection for all of its statements and
needs no other for the ledger, so that whoever holds rows can go on (`Staged`).
In memory mode the same holds while a connection is free: calls can then only
wait for each other's connections, never for each other's rows.

`PayoutsLiveOnce` carries `PayoutLifecycle` from the chaincode to the desk: the
payouts of the tables, and those of Fabric in fabric mode, are steps of it, the
moves to UNKNOWN and out of it included. Of the table this needs `Guarded`, by
which the state a call checked under its lock is the one it moves from, and that an
outcome in `recording` meets a row that is still open.

*Sessions* (`SessionsProofs`): `TypeOK`, `PassedWithinLimit`,
`SpentCodesStayDead`, `LogoutIsFinal`. A counter bounds what it let pass
(`Counts`); a dead code never lives again (`Codes`);
a token that is out stays out, whatever runs out or is purged (`Logouts`: no step
takes an id out of the set `Out`).

*LedgerIndexer* (`LedgerIndexerProofs`). Of `Spec`, the loop as the API runs it:
`CheckpointCovers` and the refinement `ImplementsIndex`; a loop that halts has
indexed all that comes before the first unreadable event, and one at the end of the
channel has indexed everything (`NothingLeftBehind`), so that the index is a prefix
of the channel and only grows (`IndexIsPrefix`). Of `ReplaySpec`, with replays
from any block, `CheckpointCovers` is false (Findings); what is proved there is
`TypeOK`, that nothing is stored at or after an unreadable event
(`EndsAtUnreadable`), and that a halted loop is at an unreadable event
(`HaltsAtUnreadable`), both except for events below the highest block a replay
was asked from (`asked`): a replay past an unreadable event is the only way around
it. The invariants are `Ordered` (the events of the channel are in the order of
their blocks), `Intact` (nothing at or after an unreadable event that was not
passed over is stored, delivered or resumed from) and `Complete` (no gap between
what is stored, the checkpoint and what the stream delivers next).

*ReliefReports and the pages* (`DashboardsProofs`). All properties of the
`dashboards` run, for any tables, any cohort and page size, and any number of
loads. They rest on `TablesSound` (an allocation pays no more than it has, a
source allocates no more than it received), an invariant of the tables that
`TablesStep` shows once (`TablesStaySound`). The services under the pages are
abstract here; that they implement `PayoutLifecycle` (`ReportedPayoutsLiveOnce`)
ties them to the modules above.

- `PublicMoneyNarrows`: whatever is shown, or has arrived and waits for the other
  request, came from one statement over sound tables (`SiteSound`; `SummarySound`
  and `RowsSound` say what a statement gives).
- `SelectionIsVisible`: rows come once, before anything can be selected, and a
  selection is one of them (`SelectionSound`).
- `SmallGroupsHidden`: a district that was ever shown has its cohort in the tables
  of today (`CohortsHold`), since rows of payouts are added and never deleted.
- `PartsOfOneLoad` is inductive as it stands: a load that ends either replaces a
  part, names it in the warning, or was refused, and then the page is being left.
- `NoFalseAlarm`: each answer that is under way or shown reconciles (`DeskSound`).
- `PagingMissesNothing`: what the client has seen is what matches between its
  cursor and the place it began at (`PagingSound`).

**Only model-checked.** The liveness properties (`EveryJobEnds`,
`EveryEventIndexed`) and `NobodyWaitsForEveryone` itself, which speaks of enabled
actions, are out of the prover's reach; every other invariant and action property
of a passing run is stated by a theorem. The three runs that end with a
counterexample have no theorem, as what they check is false. The
runs and the theorems complement each other: a theorem has no bound, a run also
shows that the interesting cases happen, because its mutants are caught there.

## Findings

Three promises of the documents that the program does not keep, each a run that
TLC ends with a counterexample.

- `dead_letters_reviewable`: BACKEND_CONTRACTS.md:75 moves jobs past the limit "to
  dead-letter state for manual review and resolution". The upsert of
  `moveToDeadLetter` (`worker.ts:200`) leaves `resolved_at` alone, so that a job
  that is dead-lettered, retried by an operator and dead-lettered again has a dead
  letter which both endpoints take for resolved. Nobody can act on the payout, and
  its reservation stays. `AbandonedForever` proves that nothing brings it back.
- `refresh_refused`: BACKEND_WORKFLOW.md:38 has the refresh lock the active session
  and replace it. Its `SELECT` (`auth.service.ts:60`) locks the nullable side of
  two outer joins, which PostgreSQL refuses, so that a session ends with its access
  token. No test of the API runs this statement.
- `rebuild_loses_events`: BACKEND_WORKFLOW.md:168 says that `rebuildProjections`
  replays the index from a block. It closes the stream but does not wait for the
  event the loop is storing, whose `GREATEST` and `Math.max` raise the checkpoint
  again over the rows the replay deleted; those blocks are not read any more
  (`ledger-indexer.service.ts:208`).

### Observations without a run

Seen while reading and modelling; no property of a run states them.

- Worker: when the acknowledgement of a COMMIT is lost, the `catch` puts the job of a settled payout back to QUEUED
  (BACKEND_CONTRACTS.md:76); no tick leases it, since `completed_at` is set, and
  `JobsMatchOutcomes` counts it as closed. The row of an attempt is rolled back with
  the ledger call that failed after it (BACKEND_WORKFLOW.md:106).
- Requests: for the reason of the lost COMMIT a completed request can become
  FAILED, and its repetition is refused by the ledger instead of being answered
  with the row (BACKEND_WORKFLOW.md:91). A crash between the upsert and the end
  leaves a key PROCESSING, which `OnlyFaultsStrand` says of faults only. An initiation can be on the ledger and never in the
  table, which ARCHITECTURE.md says itself.
- Batches: payouts of a draft batch are paid like any other
  (BACKEND_WORKFLOW.md:53), and payouts can be added after the approval.
- Sessions: `verifyOtp` reads the number of attempts before it counts its own, so
  the limit holds for one request at a time. The logout of a beneficiary ends the
  access token and leaves the refresh session (BACKEND_WORKFLOW.md:39). The
  portal's own logout does not call `/auth/logout`. `purgeExpired` has no caller
  (OTHER_TEAMS_WORK.md:66).
- Registrations: a second identity with a known phone is committed on the ledger
  and then refused by the table, which leaves the commitment without a row.
- Pool: in memory mode `record` takes a second connection while a transaction holds
  one (`ledger.ts:111`), so that as many transactions as connections wait for each
  other. The mutant of `NobodyWaitsForEveryone` puts that need into Fabric mode.
- Reads: the public "Available balance" leaves UNKNOWN payouts out. A filtered
  reconciliation compares a whole source's allocated amount with the sums of one
  district; "discrepancies" lists every source that is not fully allocated;
  `repeatedReversals` is always empty; `?type=` on audit events is compared with two
  columns at once; the public summary with a district uses an alias it does not
  define; timelines sort by a field that may be missing; the error rate of the
  metrics is always 0. The operator context is six separate reads.
- Portal: the home page shows 'LIVE' after a load that failed. Its cards and its
  table come from two requests and may be of different moments. Loads of the
  auditor page are not cancelled, so totals may be of another district than the one
  selected; an older load that succeeds leaves the warning of a newer one on the
  page, which then is without reason; and after a 401 or 403 the page is drawn again
  with the parts it had, of several loads and without a warning, until the login
  is there. Feature and district names are matched by words, which some neighbouring
  names share: the map may select a neighbour's row (`matchDistrict`).
- Panel: `TransactionPanel.tsx:277` calls `event.currentTarget.reset()` after an
  `await`, when React has set `currentTarget` to null; the `catch` shows an error in
  place of "Transaction submitted." and the page is not reloaded. An operator who
  submits the form again sends another payout under a new key, which the balance
  alone limits. The cards of the operator page mix amounts of the separate reads of
  the context (`OperatorMetrics.tsx:16`).
- Web: `PaymentVerifier`, `PublicNavbar` and `MoneyFlow` are imported by nobody.
- Mobile: `AuthProvider.logout` does not clear `BeneficiaryProvider`, and nothing
  else calls its `clear`, so the record stays in memory and in the cache; the
  dashboard loads only when there is none (`dashboard_screen.dart:34`), and the next
  user of the device sees the former one's until a refresh succeeds
  (ARCHITECTURE.md:29, "the beneficiary's own payment history"). A start without
  connectivity ends the stored session, because `restoreSession` clears it when its
  refresh fails, and with it the way to the cached record (`mobile/README.md:83`).

## What is abstracted

- Time: due dates, leases, deadlines, expiries and windows run out whenever they
  like. A property that holds does so for every length.
- Amounts: units in `PayoutWorker`, `PayoutRequests`, `ReliefServices` and the pages;
  real amounts in `ReliefLedger`, whose `NoOversubscription` and `TotalsMatchAssets`
  together give that what is disbursed never exceeds what was received.
- Hashes, signatures, passwords and tokens are right or wrong; public references,
  history rows and wording decide nothing that is modelled.
- PostgreSQL deadlocks and serialization errors appear as failed statements.
- Components are composed at their committed states: `ReliefServices` has a
  decision as a step on the ledger and one in the table, without the queue that
  leads to it; the pages have the tables' money as atomic steps. The
  detailed modules show that those steps are what others can observe
  (`ImplementsBooks`, `ImplementsIntake`, `ImplementsLifecycle`).

## Not modelled

- Functions of `domain.ts` for payouts and batches (v2) that no transaction of the
  contract calls.
- The path of `initiate` that registers assets of seeded rows the ledger does not
  have, and seeding itself: fixed rows inserted when the tables are empty, before
  the API listens. The models start from rows of that shape.
- Migrations: SQL run once under a lock before the API listens.
- Health, metrics, exports, timelines and annotations: reads, or rows nothing else
  depends on.
- Shared schemas: shape checks, which the models have as their input sets.
- The payment verifier form, charts, layout and wording of the portal.
- The mobile app: a client of the same API in Dart, whose session is one of
  `Sessions` and whose cache no other part reads. That a logout may meet a load in
  flight, whose answer is then cached (`beneficiary_provider.dart:52`), is not
  covered by any property.
- The demo API, which shares no state with the system, and the configuration of
  the Fabric test network; what the code relies on there (endorsement against the
  committed state, MVCC validation, one event per transaction) is in the models.
