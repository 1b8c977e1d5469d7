# Verification of the Financial Dream Planner backend

TLA+ modules, TLC configurations and machine-checked proofs for the backend under `backend/src`:
an Express API, a BullMQ worker, PostgreSQL through Drizzle, Redis, and an R2 object store. Paths
below are relative to `backend/src` unless they start with `docs/`.

## The system

| Part | State it keeps | Operations that change it | What makes it correct | Module |
|---|---|---|---|---|
| plans (`modules/plans`) | `financial_snapshots`, `plan_versions`, `plans.current_version_id` | `recalculatePlan` | one append-only history per household, the pointer names its last version | `LivingPlan` |
| scenarios (`modules/scenarios`) | `scenarios` (draft, applied) | `createScenario`, `applyScenario` | a scenario becomes at most one version, and only of the baseline it was made for | `LivingPlan` |
| drift (`modules/drift`) | `drift_checks`, `drift_events` | `createOrDeduplicateCheck`, `processDriftCheck` (worker), `acceptDriftEvent`, `keepDriftEvent`, `cleanupExpiredDriftRecords` | one check per observation, one event per check, one verdict per event; retention never removes what is undecided or adopted | `LivingPlan` |
| jobs (`modules/jobs`, `worker-composition.ts`) | `outbox_events`, the BullMQ queue | `dispatchBatch`, the job handler, shutdown | what was requested in a transaction reaches the queue and is settled | `JobPipeline` |
| runs (`modules/runs`) | `job_runs`, `run_events` | cancel, append, the SSE stream | a reader misses and repeats no event of a run, and sees no completion before a start | `EventStream`, `JobPipeline` |
| privacy (`modules/privacy`) | consent, exports, deletions, audit events | consent, export, deletion (request, confirm, process), retention | a completed export has its artifact; a confirmed deletion is final and takes the documents; a retry never undoes a consent | `Privacy` |
| documents, storage | `documents`, objects | create, delete, clean-up | a listed document has its object; an object has a row that leads to it | `Privacy` |
| auth (`modules/auth`), the tab's interceptor (`frontend/src/lib/api.ts`) | users, identities, session families, sessions, challenges, invitations, the tab's cookie | register, login, refresh, logout, verify, reset, OIDC start, callback and bridge, Google | a live family has one usable token; a code signs in once; a reset ends the sessions of the old password | `Auth` |
| ledger (`modules/transactions`), accounts | transactions and their sources, accounts | `syncTransactions`, manual create, update, delete, account create and delete | an observation counts once; look-alikes are reviewed; an answered batch is recorded | `Ledger` |
| planner, research | conversations, messages, citations, research runs, evidence | chat and analysis through the agent graph, research, retention | a question and its answer stay together; what a shown answer cites is stored | `Planner` |
| financial engine | none | pure functions | schedules repay their loan, feasibility agrees to a cent with month-by-month saving | `FinancialEngine` |
| drift comparator | none | `compareDrift` | worse figures are not judged milder, with two exceptions | `DriftComparator` |
| categories, users, households | their rows | single-statement create, update and delete | ownership checks | |
| API shell, health, metrics, frontend, SDK | none that matters here | | | |

How they interact: API handlers call the services; a service that needs background work inserts an
outbox row in its own transaction; the dispatcher adds a job to the queue; the worker calls the
service again (`processDriftCheck`, `processPrivacyExport`, `processHouseholdDeletion`). Services
share nothing but the database, where they synchronise with advisory locks
(`pg_advisory_xact_lock(hashtext(...))` of a household, a conversation, a run or a fingerprint),
`SELECT ... FOR UPDATE`, conditional updates and unique indexes; privacy and documents also share the
object store, which no transaction covers. The models meet where the components do: `LivingPlan` and
`Privacy` may deliver a job to any worker, twice or at the same time, as long as its row allows it;
that a requested job is delivered at all, and that at most its attempts limit it, is `JobPipeline`.

What is hard here: the interleaving of those transactions, jobs that are delivered twice or to two
workers at once, requests retried after their answer was lost, failures between two statements that
are not one transaction, two stores that must agree without one, and retention that deletes rows
others are working with. `PROJECT.json` lists each of these hazards at its line.

## Modules

| Module | Content |
|---|---|
| `PlanHistory` | the abstract specification: an append-only history of versions with one pointer; a proposal (scenario or drift event) is adopted at most once and only while its basis is the current version |
| `LivingPlan`, `MCLivingPlan` | plans, scenarios and drift of one household as concurrent PostgreSQL transactions; implements `PlanHistory` |
| `EventStream` | the abstract specification of following a run: a history that is only appended to, as the in-memory store (`run.service.ts`) keeps it, received from its beginning, one event after the other; a completion follows a start |
| `JobPipeline`, `MCJobPipeline` | outbox, dispatchers, queue, job slots, runs and the event stream of a subscriber; implements `EventStream` |
| `Privacy`, `MCPrivacy` | consent, documents, export, household deletion and retention over rows and stored objects |
| `Auth`, `MCAuth` | accounts, sessions and one-time codes of one address, and the tab that refreshes its session |
| `Ledger`, `MCLedger` | reported and manual transactions of a household and the account they are booked on |
| `Planner`, `MCPlanner` | questions to the planning assistant, research and retention |
| `FinancialEngine`, `DriftComparator`, `Calculations`, `MCCalculations` | the calculators as operators, the comparator built on them, and the behaviours in which they are asked |
| `LivingPlan_proofs`, `PlanHistory_proofs` | proofs about `LivingPlan` and about `PlanHistory` |
| `JobPipeline_proofs`, `Privacy_proofs`, `Auth_proofs`, `Ledger_proofs`, `Planner_proofs`, `Calculations_proofs` | proofs about these six |

Every MC module instantiates its specification by `EXTENDS` and holds the values of constants that a
`.cfg` cannot write.

### How LivingPlan corresponds to the code

Variables are tables: `versions` is `plan_versions` joined with `financial_snapshots`, `current` is
`plans.current_version_id`, `scenario`, `check` and `event` are the rows of their tables. `lock`,
`stage`, `op`, `seen` and `reply` are the transactions in flight: who holds which lock, how far each
process is, what it serves, what it has read under its locks, what it answers.

A process is an API connection (`Clients`) or a job slot of the worker (`Workers`). A request is

1. `Begin`;
2. the locks one at a time in the order of the code: `LockHousehold` (the advisory lock), `LockRow`
   (the scenario, event or check row `FOR UPDATE`; its status is read), `LockPlan` (the plan row;
   the pointer and the highest version number are read). `createScenario` takes none (`ReadPlan`);
3. the commit: one action per outcome (`ApplyScenario`, `ApplyReplayed`, `ApplyRefused`, ...),
   which acts on what was *read* (`seen`), writes everything the transaction writes, releases its
   locks and answers.

Between two steps any other process may step. Statements of one transaction after its last lock are
one step: nobody else sees its uncommitted writes, and what it reads there is either immutable
(versions, the inputs of a check, the fields of an event other than its status) or locked; that the
locks suffice is not assumed but the property `ReadsStayTrue`. `Publishable` is the unique index
on version numbers and the one plan per household; a violation fails the transaction.

`Crash` covers a failing statement, a broken connection and the death of the process, before the
commit. `ProcessDriftCheck` may also commit and be taken for failed (a connection that breaks during
the commit): then, as after `RollBack`, the catch block `MarkFailed` runs, one `UPDATE` by id
outside the transaction. A retry by a client whose answer was lost is simply another `Begin`.

The retention cleanup is `CleanupEvents` and `CleanupChecks`, its two statements; each checks its
condition again when it deletes, on rows nobody holds. `ExpireCheck` and `ExpireEvent` let a
deadline pass.

Abstractions:

- One household; the operations never touch another's rows.
- Inputs are functions from a few fields to amounts or `None`. What the financial engine computes is
  left out; the comparator's verdict is the constant relation `Material`. The verdict is a function
  of immutable inputs, so the re-verification in `acceptDriftEvent` recomputes the same verdict.
- `mode` and `revision` of a check are compared exactly like its inputs and are left out. The status
  `running` is written and overwritten in one transaction and is never visible to another.
- A request names versions, scenarios and events that were issued; the 404 for an id that never
  existed needs no model. The 404 for an event that was deleted is there.
- `origin` of a version is not a column: it records the scenario or event whose transaction inserted
  the version, so that properties can talk about it.
- The outbox row is inserted with the check, so a check that exists can be delivered
  (`Deliverable`). A job ends long before the 90-day deadline of its check (`ExpireCheck` waits for
  it): the queue's retries take seconds.
- Deleting a household removes all of this and is left to the model of privacy.

### JobPipeline

`outbox[e]` is the row of event `e` (`available`, `backing_off` while `available_at` lies ahead,
`published`), `job[e]` the BullMQ job, which `durableJobOptions` names by the row. `dispatcher[d]` is
the batch a dispatcher has selected and the event it has added but not yet marked, `slot[w]` what one
of the concurrent handlers of the worker processes is doing, `run` and `log` are `job_runs` and the
committed `run_events`, `subscriber[s]` a client of `GET /runs/:id/events` with what is on the wire.

`SelectBatch`, `AddJob` and `MarkPublished` are the three awaits of `dispatchBatch`; two dispatchers
may hold the same rows, since the select locks nothing. `AddJobFails` is the catch block, whose
update is by id and does not take back a publication. `ReadRun`, `StartRun`, `AppendEvent`,
`CommitEvent` and `CompleteRun` are the statements of the run branch of the handler; an append
computes its number under the run's advisory lock and is visible at the commit. `Connect`, `Poll`
and `Receive` are the stream: the cursor comes from `Last-Event-ID`, that is from what the client has
*received*, and what was written to a connection is lost with it.

BullMQ is external, modelled from how it is used: a job id the queue holds is not added again, a job
is given to one slot, given out again once its slot is gone or has stopped renewing its lock
(`JobStalls`, `LockIsLost`; the slot may go on), retried after a back-off until its attempts are used
up. That the queue forgets a job after a thousand later ones (`removeOnComplete`) is left out: a
dispatcher would have to hold its batch for that long.

### Privacy

`doc`, `export` and `deletion` are the rows, `objects` the keys in the store, `task[p]` what a client
or a job slot is doing between two awaits, `sweep` where `runPrivacyRetentionCleanup` is: the rows a
phase selected and the one whose object it has just deleted. Statuses are the code's, with `absent`
for an id not used yet and `removed` for a row that is gone. `alive` is the household row.

Everything that runs under the household's advisory lock and reads a worker's row once is one step
(consent, the requests, the confirmation). Everything else moves one statement or one storage call
at a time, so a worker's claim, the listing of keys, each deletion of an object and the final
transaction interleave with uploads, deletions, another worker and the cleanup. `StoreDocumentFails`
and `StoreArtifactFails` may have stored the object; `Crash` and `EndSweep` may happen between any two
steps. Updates are by id and do nothing once the row is gone (`Updated`). Time is the passing of
deadlines (`DocumentAges`, `ExportAges`, `DeletionAges`), which is why no clock appears.

### Auth

One address. `user` is its row and identities, a password is named by how often it was set;
`families` and `tokens` are `session_families` and `sessions` in the order of insertion; `request[q]`
is a request between two of its statements; `tab` is the browser tab: its cookie, the refresh the
interceptor has under way, and those it has given up on.

A transaction that begins with a conditional update of the row it is about holds that row to its end
and is one step (`InsertAccount`, `VerifyEmail`, `ResetPassword`, `ExchangeBridge`). What the code
reads before is a step of its own: `ReadToken`, `ReadFamily` and `Rotate` are the three accesses of
`refresh`, `BeginLogin` verifies the password and `FinishLogin` opens the session, `BeginCallback`
consumes the state, then the provider is asked (`FindOidcIdentity`), then the account or session is
made. `lost`, `signIns` and `accounts` record history for the properties.

### Ledger

`ledger` holds the rows in order of insertion, `sources` the `transaction_sources`, `sync[s]` a batch
the backend works on and its place in the loop: the look-up of the client id, the account, then
either the insert with a reference and its conflict, or the fingerprint's lock with the second
look-up, and the insert. An observation belongs to a class that stands for what the fingerprint hashes
besides the account. `Interrupt` ends a batch anywhere; devices send batches again. The user's
operations are one step each, since they are one transaction or statement, except the deletion of an
account, which looks first and deletes later. `owed`, `deleted` and `straddled` are history.

### Planner

`question[s]` is a request on its way through `planner-graph.ts`: the stage is the node, with the
budgets of calls and tools, the research under way, the evidence gathered and the citations still to
be reviewed. `PutQuestion` and `PutAnswer` are the two transactions around the graph; the answer's
number is the question's plus one, chosen long before. What the wording filters and the models say is
a choice: `Reject`, or go on. `SweepMessages`, `SweepConversations`, `SweepEvidence` and `SweepRuns` are
the statements of `cleanupExpiredRecords`, at most a batch each; `DeleteHousehold` is what the privacy
deletion does to these tables.

### FinancialEngine, DriftComparator, Calculations

The calculators are operators over whole amounts, rates in whole percent. They round half up, as
`decimal.ts:5` configures decimal.js:

- *goals and projections* compute with fractions, and every result of `Plus`, `Minus`, `Times`, `Over` and
  `Compounded` is rounded to `Precision` significant digits (40 in the code), wherever the code calls
  decimal.js, so an answer may lie on the other side of a boundary than the exact fraction does
  (target 100 000 in one month at a return of 7 percent requires a little more than 100 000). A power
  is rounded once; decimal.js computes it with guard digits before it rounds;
- *loans* round every quotient and interest to one fixed unit, which stands for the last digit kept of
  amounts of this size; differences of whole units are exact. The instalment's quotient is rounded once
  instead of at each of its operations;
- the *comparator* compares ratios multiplied out, and a runway as it is published, with four decimals.

`Calculations` turns them into behaviours: a loan or a goal is calculated once; the figures of a plan get worse one step at a time and
are compared with the baseline after each. Inflation is one of these figures; the expected return differs
from plan to plan and stays what it was: with one month to go the required payment does not depend on it
but for the last digit, which may then decide either way. Loans, projections, sums and powers are recursive functions,
never `RECURSIVE` operators, so that the prover can reason about them. What the requests' schemas
(`financial-engine/model.ts`) let through are the assumptions on `Loans`, `Goals`, `Baselines` and
`Levels`: an optional value is missing or one natural number, months are positive, a prepayment falls
within the months.

## Runs

Every property has a mutant, an operator defined before its original with the bug of a plausible edit
(a row read without `FOR UPDATE`, an update that is no longer conditional, a cursor that trusts the
server, a cleanup that selects too early, ...) which makes TLC report that property violated. They are
listed in `PROJECT.json` and used by no specification.

| Run | Instance and states | Shows |
|---|---|---|
| `living_plan` | 2 clients, 2 workers, 1 scenario, 1 ageing check, 2 attempts, 1 version before decisions; 396 000 | types and references; every behaviour is one of `PlanHistory`; one version per decision, event and check agree, an event is resolved once, reads stay true and answers name their own decision under recalculation, apply, concurrent delivery, keep, accept and cleanup |
| `rivals` | 2 clients, 1 worker, 2 checks against one baseline, 2 versions before decisions; 1 400 000 | only the first of two rival events is accepted, and none once a recalculation came first; keys and observations never belong to two checks; no deadlock |
| `liveness` | 2 clients, 1 worker, 1 scenario, 1 check, no symmetry; 27 000 | every request is answered or its process fails |
| `job_pipeline` | 1 aggregate or 1 run, 2 dispatchers, 2 slots, 1 subscriber, 2 attempts, 2 faults, no symmetry; 45 000 | what is published is queued; every behaviour is one of `EventStream`, so a subscriber misses and repeats nothing; requested work is settled and a subscriber catches up |
| `privacy` | 2 clients, 2 workers, 1 deletion beside 1 document or 1 export, 2 attempts, 3 consent records and a withdrawal; 714 000 | rows and objects agree through uncertain storage calls, crashes, two deliveries and the cleanup; deletion keeps its promise |
| `auth` | 2 requests at a time, 2 challenges, 2 families, 3 tokens, 2 passwords, closed beta with and without required verification | rotation, one-time codes, invitations and resets in every order of their statements |
| `ledger` | 2 devices with 2 observations each, one of them referenced, 2 batches at a time, 3 rows; 970 000 | replays, collisions and corrections against the account's creation and deletion |
| `planner` | 2 questions at a time, 3 in all, 1 page, 1 research run, 2 calls, 1 tool, rows kept 3 steps of the clock, evidence fresh for 2; 1 820 000 | numbering, citations and research runs under concurrent questions, crashes, sweeps and the household's deletion |
| `calculations` | loans of up to 4 months with up to 2 prepayments, goals of up to 3 months with every capacity to 30, figures around every threshold, inflation 0 to 2, return 0 or 3, decimals of 2 digits; 92 000 | schedules with and without prepayments; feasibility and saving month by month agree to a cent a month; monotony of the comparator |
| `failed_check_with_event` | 2 workers, 1 check | violated, see below |
| `replay_after_new_version` | 1 client, 1 check, 2 versions | violated, see below |
| `prepaid_loan_overruns` | the loans of `calculations` | violated, see below |

### Bounds

`LivingPlan`: two fields (so that an overlay can leave one alone), two amounts, the request sets of
`MCLivingPlan`. `MaxVersions` stops new recalculations (decisions may still publish beyond it),
`MaxAttempts` stops redelivery, `Aging` names the checks whose deadline passes, `BatchSize` is the
cleanup's batch. Requests under way count against the versions and ids that are left, so that the
bounds never leave a request without an outcome. Two processes suffice for every race of two
transactions; a second version makes every baseline stale at some point (`rivals` recalculates it; in
`living_plan` it is the applied scenario or the accepted event); two attempts give a failed and a
repeated delivery; two checks share a baseline, a key or an observation. What one instance keeps apart,
such as a scenario and a second recalculation, `LivingPlan_proofs` covers for any number of each.

`JobPipeline`: what happens to one event never depends on another event, except that the queue serves
them in some order, so one event at a time is followed; two dispatchers hold the same row and two
slots the same job. `MaxFaults = 2` allows a lost job lock followed by a crash, or two failures in a row;
`MaxAttempts` is 5 in the code and 2 here.

`Privacy`: two deliveries need two workers, a deletion during an upload two clients. Documents and
exports share neither rows nor keys (`RowIdsAreDistinct`), so one is followed at a time beside the
household's deletion (`Fresh`). An id is used once; with two ids of a kind, the operations on the other
one touch nothing of the first. `Privacy_proofs` covers any number of them.

`Auth`: reuse needs one token and its successor, and a tab that is late needs a third; the reset needs
a second password and a family opened before and one after it. `Ledger`: a collision needs two
observations of one class, and a third row shows what happens to one that joins later. `Planner`: one
research run and one page, since runs never touch each other's evidence; the third question is asked
when the first two were answered, lost or swept. `Freshness >= 2` says that a question, which takes
seconds, does not outlive the evidence it has just gathered. `Calculations`: `Scale`, `StepMonths` and
the policies are small so that the roundings, the zero rates and every threshold occur; four months
contain a first, an inner and a last payment with a prepayment at each. `Precision` is 2 instead of
40, so that rounding decides cases among small numbers; the amounts are chosen so that what rounding
adds up to in three months stays below `Cent`, as forty digits do for any amount of money. The goals
include those that rounding alone makes infeasible: with `Cent = 0`, `FeasibleGoalsAreReached` is violated.

`CHECK_DEADLOCK FALSE` is set where the system of the model really stops: when the ids, rows, requests,
attempts or questions of the bounds are used up, when the household is gone, or when a calculation is
answered. `rivals` and `liveness` check deadlock.

Symmetry is used for safety only, over sets whose members the constants treat alike (`Aging` is empty or
all of `Checks`; in `Ledger` the devices are permuted together with their observations, which are built
from them). `liveness`, `job_pipeline` and the runs of `Calculations` use none.

### Fairness

`LivingPlan` (`FairSpec`): taking a lock and the `UPDATE` of the catch block are strongly fair, since
PostgreSQL queues the waiters of a lock; committing, once the locks are held, is weakly fair, since
nothing else can disable it. Beginning a request, expiry, cleanup and crashes are not fair.

`JobPipeline` (`FairSpec`): the dispatch interval, each job slot, BullMQ's timers and stall check, and
the polling of a connected client are weakly fair: each is a timer or a loop that nothing stops for
good, and each of them stays enabled until it acts. New requests, cancellations and faults are not
fair, and faults are bounded: a queue that stays unreachable for ever settles nothing.

### What the code does that no property excludes

Modelled or met while modelling, and left out of the properties on purpose:

- *Privacy.* An export that is carried out twice, or whose worker dies between the upload and the
  update, leaves an artifact without a row (`privacy.service.ts:667`), so reachability is stated of
  documents only. A document uploaded after the keys were enumerated keeps its object while its row
  goes, so `DeletionTakesTheDocuments` speaks of those there at the confirmation. Consent withdrawn
  during an upload does not stop it (`documents.service.ts:69`). A failed deletion stays unresolved
  and blocks new requests (`privacy.service.ts:774`). A document the cleanup finishes gets no retention
  deadline (`:1281`), and fifty failed documents fill every batch of that sweep (`:1267`). The export
  reads table after table without a snapshot (`:505`).
- *Jobs and runs.* A cancelled run is overwritten by `running` and `completed`, a redelivered run
  appends its events twice; no code calls the function that creates runs. The close listener of the
  stream is registered after the first poll (`run.route.ts:28`), so a client that leaves during it
  leaves a timer behind.
- *Auth.* A logout that finds its token rotated ends nothing (`auth.service.ts:334`). A login that
  verified the old password before a reset opens a session after it; the property names this
  exception. A tab whose refresh was answered too late, and two tabs that share a cookie, look like
  reuse; the interceptor coalesces per tab only.
- *Ledger.* An observation that is being booked while the account is created or deleted takes the
  locks of two fingerprints and may insert two rows, one without a source
  (`transactions.service.ts:134-146` against the lock at `:200`; the test in
  `tests/integration/ledger.integration.test.ts:215` keeps the account fixed). Deleting a row deletes its
  sources, so a batch sent again inserts it again. A device that gives one client id to observations
  with different references would leave a row without a source; `ItemsHaveTheirId` excludes it. The
  fingerprint of a corrected row stays what it was (`:393`).
- *Planner.* A tool's failed research ends the question, the graph's own failure is passed over. A
  crash leaves its research run `running`. `cleanupExpiredRecords` is exported and called nowhere in
  `src/`; the model lets it run at any time.
- *Calculations.* The two calculators about goals agree to a cent a month only: (1 + r) - 1 need not be r in
  forty digits, so a goal may be infeasible by 6E-33 that saving month by month reaches exactly
  (`goal-funding.ts:140-147`). The published `requiredSip` is rounded to the cent, so entering it as the
  capacity may be judged infeasible. `WorseFiguresAreNotJudgedMilder` has two exceptions, both in the run's
  levels and both needed. A plan without any monthly need has no runway (`emergency-fund.ts`), so one that
  appears is compared with nothing, and the finding it gives may vanish as the need goes on growing. And
  a horizon that shrinks takes inflation away from a goal's cost (`goal-funding.ts:111-113`), which may make
  the goal feasible again: at inflation 12, return 0, target 1 000 000, a plan with 240 months and a capacity of
  50 000 becomes infeasible when the capacity falls to 40 000 (critical), and feasible when the horizon
  then falls to 180 months (a warning).

### Where the code and the documents disagree

- `FailedChecksHaveNoEvent` (`docs/implementation/U7-SPEC.md:33`, "Failed checks create no event").
  The catch block of `processDriftCheck` (`drift.service.ts:300-316`) sets `failed` by id, outside
  the transaction and whatever the status is by then. When another delivery of the same check has
  completed in between, or the connection broke during this delivery's own commit, the check is
  `failed` and has an event; the event cannot be accepted until a redelivery completes the check.
- `ReplayReturnsTheCheck` (`docs/implementation/U7-SPEC.md:63`, "the same key and same canonical
  request returns the original check"). The baseline is compared (`drift.service.ts:102`) before the
  key is looked up (`drift.service.ts:119`), so the retry of a request whose answer was lost is
  refused once the plan has moved on.
- `PrepaymentsRepay` (`docs/implementation/U4-SPEC.md:56`, "The final amortization row is adjusted to clear
  the remaining unrounded principal exactly"). `generateAmortizationSchedule` does so (`loan.ts:104-122`,
  `SchedulesRepay`); the loop with prepayments (`loan.ts:213-250`) goes on with the same instalment, for up to
  twice the months. What rounding leaves over costs another month: 100 000 over 12 months at rate 0 with
  10 000 prepaid in the first month under `reduce_emi` takes 13 months, the last of them for 4.0E-35.

## Proofs

Checked by TLAPS for every value of the constants that satisfies the assumptions of the module
(processes and ids are distinct, requests are typed, bounds are natural numbers; TLC evaluates the
assumptions on every run). `LivingPlan_proofs` proves first what a process may do and then what the
transactions decide; in the others each part has the theorems of one component:

| Module | Theorem | Statement |
|---|---|---|
| `LivingPlan_proofs` | `BasicsHold` | `Spec => []Basics`, the inductive invariant of `LivingPlan` |
| | `TypeCorrect` | `Spec => []TypeOK` |
| | `ReadsAreStable` | `Spec => []ReadsStayTrue` |
| | `DecisionsAreFollowed` | `Spec => []DecisionsFollowTheirBasis` |
| | `DecisionsAreUnique` | `Spec => []OneVersionPerDecision` |
| | `EventsMatch` | `Spec => []EventMatchesItsCheck` |
| | `EventsResolve` | `Spec => EventsResolveOnce`, an action property |
| | `ChecksStayDistinct` | `Spec => []ChecksAreDistinct` |
| | `AnswersAreRight` | `Spec => []AnswersNameTheirDecision` |
| | `Refinement` | `Spec => ImplementsHistory` |
| `PlanHistory_proofs` | `Adoption` | the promise of the abstract history: adoption directly follows its basis |
| `JobPipeline_proofs` | `PipelineIsTyped` | `Spec => []TypeOK` |
| | `PublishedIsQueued` | `Spec => []PublishedWorkIsQueued` |
| | `NothingIsMissed` | `Spec => []SubscribersMissNothing`, which the run's refinement implies |
| | `StreamIsImplemented` | `Spec => ImplementsStream` |
| | `ReceiptsAreInOrder` | `Spec => []Stream!ReceivedInOrder`, the promise of the abstract stream |
| `Privacy_proofs` | `PrivacyIsTyped` | `Spec => []TypeOK` |
| | `CustodyHolds` | `Spec => []Custody`, the inductive invariant of rows and documents |
| | `ListedDocumentsCanBeRead` | `Spec => []AvailableDocumentsHaveTheirObject` |
| | `NoDocumentObjectIsOrphaned` | `Spec => []DocumentObjectsAreReachable` |
| | `DeletedHouseholdsLeaveNoDocument` | `Spec => []DeletionTakesTheDocuments` |
| | `ShownExportsCanBeDownloaded` | `Spec => []CompletedExportsHaveTheirArtifact` |
| | `ConfirmationIsFinal` | `Spec => ConfirmedDeletionsStay`, an action property |
| | `ConsentChangesByRecord` | `Spec => RetriesDoNotUndoConsent`, an action property |
| `Auth_proofs` | `AuthIsTyped` | `Spec => []TypeOK` |
| | `FamiliesHaveOneToken` | `Spec => []LiveFamiliesHaveOneToken` |
| | `ResetEndsSessions` | `Spec => []SessionsEndWithTheirPassword` |
| | `CodesAreSpentOnce` | `Spec => []CodesSignInOnce` |
| | `InvitationsMatchAccounts` | `Spec => []InvitationsAreSpentOnAccounts` |
| | `TabIsNoThief` | `Spec => []ReuseOnlyAfterLoss` |
| `Ledger_proofs` | `LedgerIsTyped` | `Spec => []TypeOK` |
| | `AccountsAreKept` | `Spec => []HistoryKeepsItsAccount` |
| | `LookalikesWait` | `Spec => []LookalikesAreReviewed` |
| | `AnswersAreRecorded` | `Spec => []AnsweredBatchesAreRecorded` |
| | `ObservationsAreCounted` | `Spec => []ObservationsCountOnce` |
| `Planner_proofs` | `PlannerIsTyped` | `Spec => []TypeOK` |
| | `AnswersHaveTheirPlace` | `Spec => []QuestionsKeepTheirAnswers` |
| | `CitationsAreStored` | `Spec => []ShownAnswersCiteStoredEvidence` |
| | `RunsSayWhatCameOfThem` | `Spec => []ResearchRunsMatchTheirEvidence` |
| `Calculations_proofs` | `NoFindingBecomesMilder` | `Spec => WorseFiguresAreNotJudgedMilder`, an action property |
| | `SchedulesAreRepaid` | `Spec => []SchedulesRepay` |
| | `ShorteningNeverCosts` | `PrepaymentsRepay` and `PrepaymentsNeverCost` of every loan whose prepayments shorten it and one of which covers the last month's rounding |
| | `PrepaymentsAreCapped` | `Spec => []PrepaymentsNeverOverpay`, of every loan whatever its prepayments |

**LivingPlan.** `TypeOK` is not inductive: that `applyScenario` merges the inputs of a version that
exists depends on the baseline of the row, the row on the request naming a row that exists, and the
version number on nobody having published since it was read. `Basics` therefore adds that numbers
count the versions (`Counting`), that requests name rows that exist (`Naming`), which locks a
process holds at each stage (`Holding`), and that what it has read under them is still so
(`ReadsStayTrue`). The step lemma has two halves. `OthersHold` and `OthersSeeTruth` say that a step
of one process leaves the locks and the reads of the others alone, provided it is *protected*: a row
whose status it changes, or the plan it publishes to, is locked by this process or by nobody. One
lemma per action then shows that it is protected: because it holds the household lock where it
publishes and the row lock where it decides, and because the catch block and the cleanup wait for
rows nobody holds.

`Decisions` is inductive relative to `Basics`: at the moment a transaction publishes, the row it
decides on is undecided and made against the current version, so the new version extends the
history at its basis (`Published`), and every other step leaves versions, baselines and verdicts as
they are (`Settled`). The refinement maps a version to its origin and a proposal to its baseline:
`RecalculatePlan` is `Recalculate`, `CreateScenario` and the first `ProcessDriftCheck` of a check
are `Propose`, `ApplyScenario` and `AcceptDriftEvent` are `Adopt`, everything else is a stutter.

Two facts more give the other four. `Timely` orders the deadlines: a worker's job begins before the
deadline of its check, and that of an event passes after it; so no delivery inserts again an event that
retention has removed, and `EventMatchesItsCheck` and `EventsResolveOnce` follow from what a worker
has read under the lock of the check. `ChecksAreDistinct` rests on the household's advisory lock, under
which key and observation are looked up among the live checks, and on no check coming back to life. An
answer is right when it is given (`RightAnswers`), and no later step rewrites what it names: the origin
of a version, the observation of a check.

**JobPipeline.** That a published row has its job is inductive once it is strengthened by `Handed`: an
event a dispatcher has added, and not yet marked, has its job too. A job never becomes absent again,
and only `MarkPublished` publishes, which acts on such an event; so neither a second dispatcher with
the same rows, nor a failure that marks the row for another attempt, nor a crash matters.

`NothingIsMissed` adds `Numbered`: the committed events of a run are numbered from one without a gap, and
the slot between insert and commit holds the next number and is alone in it, which is what the run's
advisory lock is for. `Following` then describes a subscriber: what it has received are the first events
of its run, what is on the wire follows them up to the cursor, and all of it is committed. A broken
connection drops the wire, and a new one starts from what was received, so both parts survive it. The
model's `EventsAfter` orders the events after a cursor by the rank of their numbers; a lemma says that
without a gap these are just the next numbers.

The refinement maps the committed `log` to the history and the numbers a client `got`, with what the log
says of them, to what it received: `CommitEvent` is `Start` or `Complete`, `Receive` is `Deliver`, and
everything else (insertion under the lock, polls, reconnects, faults) is a stutter. It rests on the two
invariants above and on `Announced`: a slot that is about to complete a run, or to append the completion,
has committed the start before, and no event is ever taken away; so a completion follows a start in every
history, although jobs are delivered twice and a run is carried out again.

**Privacy.** `Custody` is `Typed /\ Requested /\ Kept /\ Backed /\ Promised`.

- `Requested`: at most one deletion request is current (pending, confirmed or processing); a worker
  that purges does so for a confirmed one; the cleanup selects pending requests only, and only expired
  ones. This gives `ConfirmationIsFinal`.
- `Kept`, while the household exists: a document not inserted yet, or reported deleted, has no object;
  an upload is alone with its document, whose row is absent or pending until the upload ends; whoever
  has deleted an object, the user's deletion or the cleanup, acts on a document whose upload has ended.
- `Backed`, until a deletion is confirmed: a listed document has its object, and whoever is about to
  delete an object (the user's deletion, the cleanup) has withdrawn the document from the list first.
- `Promised`: nobody uploads a document that existed at the confirmation and was settled, and a worker
  on its way to remove the rows has what is left of their objects among the keys it has in hand; so when
  the rows go, nothing of them is left.

`Artifacts` is inductive beside `Custody` and is about exports: keys are drawn once, so no two exports
and no two deliveries share one; a worker about to complete an export has the object stored under a key of
its own; and whatever artifact the cleanup selected is `Outdated`: drawn before, in no worker's hand, and
shown by no export. So an export that is produced again after the cleanup read about it keeps its new file.

`Kept`, `Backed` and `Promised` are proved together, since the actions that keep one may disturb
another. The proof uses only `RowIdsAreDistinct`, `EarlierAreRequests` and `ConsentRequestsAreTyped`
of the constants.

**Auth.** Four invariants, each inductive relative to `Typed`, which adds to `TypeOK` that a verification
or bridge code exists only for an account and that a password a sign-in has verified was once set.

- `Sound`: a live family has one usable token (`Lone`) and the current password, or its sign-in
  overlapped the reset. `Rotate` keeps the first part because its conditional update makes the token it
  replaces the usable one; `ResetPassword` keeps the second because it leaves no family live.
- `Spent`: a code is consumed when it is presented, one request carries it from then on, and it has
  given nothing before that request ends. Two callbacks, a callback that fails after the exchange and the
  exchange of a bridge code are the cases.
- `Invited`: an account is created only where there is none, and consumes the invitation in the same step.
- `Waiting`, while the tab has not given up on a refresh: its one refresh presents a usable token; the
  cookie is usable, or the answer that replaces it is on the wire; tokens on the wire are usable and
  differ from each other, from the cookie and from what is presented. So no presented token is revoked,
  which is what reuse detection looks for.

**Ledger.** `Typed`, and three invariants relative to it.

- `Reviewed`: whoever is about to insert a row without a reference has seen every row with its
  fingerprint (`Looked`), and no two batches are about to insert one with the same fingerprint
  (`Exclusive`, the fingerprint's advisory lock). So a row inserted beside another marks both.
- `Answered`: a batch has dealt with every observation behind its place in the loop (`Behind`): it is
  recorded, or was and the user deleted the row. When the loop ends this is the whole batch.
- `Counted`: a reference has one row, a row is recorded as the source of its observation, an observation
  is recorded once, and one with a reference for the row of that reference. For an observation that is
  being booked (`Booked`), either the account is still what the batch read and nothing is recorded for it
  before the insert, or it is among the straddled ones the property excepts.

**Planner.** `Planned` is `RowsTyped /\ QuestionsTyped /\ Distinct /\ Numbered /\ Waiting /\ Researched /\
Cited`, each inductive relative to those before it.

- `Numbered`: a question's message has an odd number and an answer's an even one, and no number is above
  twice the count of questions that were numbered or given up so far, which also bounds the numbers.
- `Waiting`: the message of a question under way is stored and the next number is free. The sweep does not
  take the message, since a question is answered within a step of the clock and `Retention >= 2`; and
  nobody takes the number, since later questions take odd ones and an answer that of its own question.
- `Researched`: evidence belongs to completed runs, a completed run that has not expired has evidence, and
  what a search found belongs to the run of its question. Evidence expires with its run, not before.
- `Cited`: what a question has gathered comes from runs started no earlier than it was asked, so what an
  answer cites expires no earlier than the answer; and it is stored when `PutAnswer` refers to it.

**Calculations.** The states are few; what is hard is what the loops over months compute, for any number of
them. The library's induction theorems take an operator, which the provers cannot instantiate, so
`Induction` takes a set instead (the numbers a fact holds of) and follows from the well-foundedness of `<`
on the naturals; every loop is unfolded once, into a function with its first value and its step
(`ScheduleLoop`, `PrepaidLoop`, `SumLoop`, ...), and proved about from there.

- `SchedulesAreRepaid`: after `m` months the rows and what is owed add up to the principal, every month
  before the last pays the instalment, and nothing follows a cleared balance (`Scheduled`). The
  instalment covers the interest of the first month, since `Emi` is that interest times a quotient above
  one and rounding half up is monotone; hence that of every later month.
- `PrepaymentsAreCapped`: the same for the loop with prepayments (`Revised`), under both strategies; a month's
  payment and prepayment are each capped by what is left.
- `ShorteningNeverCosts`: both loops are followed side by side (`Ahead`). Month by month the revised loan
  owes no more and has paid no more interest; from the month of a prepayment `e` on it owes `e` less, until
  it owes nothing. If the schedule's last payment exceeds the instalment by at most `e`, the revised loop
  clears the loan by that month. The hypothesis is what keeps the disagreement above out.
- `NoFindingBecomesMilder` rests on `Drifted`: the figures are no better than the plan's, and the result is
  the findings about them. For each of the nine comparisons a lemma shows that a figure further away
  from its baseline meets every threshold it met before and gets no milder severity; the runway, a
  quotient rounded to four decimals, sinks as the need grows or the reserves shrink. The findings about
  other figures stay as they are.
- A goal that gets poorer is judged no better (`PoorerGoals`): more is asked for, at higher inflation, or less
  is there or can be saved, and the horizon stays, or is shortened where there is no inflation. Exactly
  computed this is monotony of fractions; the code computes it in seven rounded operations, so it is shown
  of each of them. `RoundedIsMonotone` says that rounding to significant digits keeps the order of
  fractions: two that are rounded to the same last digit by monotony of rounding half up, two of different
  magnitudes because a rounded number has no fewer than `10^(Precision - 1)` and no more than
  `10^Precision` of its units (`RoundedHasDigits`). Hence sums, products, quotients and differences keep
  their order, and the steps that exact arithmetic would take through `(1 + r)^n` go through the rounded
  ones: more at a higher rate (`GrownGrows`), more in a longer time (`GrownGrowsWithTime`), a larger payment
  for more that is short or in less time (`RequiredSipGrows`). By `PrecisionAssumption` adding a
  monthly rate to 1 does not lose it, so the code's divisor `(1 + r)^n - 1` is not zero
  (`CompoundedExceedsOne`).

Only model-checked, and why:

- `RequestsAreAnswered`, `RequestedWorkIsSettled` and `SubscribersCatchUp`: liveness under fairness and
  `ENABLED` are out of the prover's reach;
- `FeasibleGoalsAreReached`: how far the rounded annuity and the rounded loop of the projection drift apart
  depends on the amounts, the rate and the months; that it stays below a cent is no fact about all of them;
- `PrepaymentsNeverCost` where `ShorteningNeverCosts` does not reach: `reduce_emi`, which computes the
  instalment anew and rounds it again, and a prepayment below what rounding leaves to the last month. For
  amounts of a few units rounding may then add up to more than a unit of interest. The run checks it on
  loans of all kinds whose amounts are large beside the rounding.

## Plan

1. Living plan, 2. job pipeline and runs, 3. privacy, documents and storage, 4. auth, 5. ledger,
6. planner and research, 7. financial engine and comparator are modelled and checked.

Left, in this order:

- bounds, as theorems, on what rounding leaves to the last months under `reduce_emi`, and on how far
  feasibility and the projection drift apart, in terms of amount, rate, months and `Precision`;
- an abstract ledger (a set of observations, each counted or under review) that `Ledger` implements;
- the remaining calculators: refinancing, milestones, scenario deltas;
- fetching a page (`safe-fetcher.ts`) as a loop over redirects with its budget of bytes and time.

## Not modelled

`components` in `PROJECT.json` gives the reason for each part. What stays out: HTTP routing,
validation, configuration, logging, health and metrics (no state that these properties are about);
fetching pages and the calls to providers (I/O, whose outcomes are choices in `Planner`); the wording
the planner's filters look for; what an export contains and what the audit log says; decimal
formulas without discrete cases; single-statement create, update and delete of categories, profiles
and memberships; migrations and connection set-up; the frontend apart from the interceptor that
refreshes a session, and the generated SDK.

## Running

    tlc -workers 2 -config LivingPlan.cfg MCLivingPlan
    tlc -workers 2 -config Privacy.cfg MCPrivacy
    tlapm LivingPlan_proofs.tla
    tlapm Calculations_proofs.tla
    tlapm Planner_proofs.tla

Each run takes between a few seconds and three minutes. `runs` in `PROJECT.json` pairs every
configuration with its module. Most of the proof modules take some minutes each.
