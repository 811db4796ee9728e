# LineSense AI: verification project

TLA+ models of the backend under `src/services/backend/app` (Python, asyncio,
PostgreSQL), the TLC configurations that check them, and TLAPS proofs about
them. Paths below are relative to `src/services/backend/app/`.

The backend lets a user start an *analysis run* for a garment order. A run is a
small graph of agent tasks (materials, lines, quality, planning) driven by a
durable job queue. It ends with a report and, when a plan commits units, with a
recommendation that a human decides on and applies to stock, capacity and the
order. What is hard here is that no step is in charge: the API, several worker
slots, the reconciler, deadlines and users all move the same rows, each in
short transactions, and any of them may stop between two transactions.

    tlc -workers 2 -config MCJobQueue.cfg MCJobQueue.tla      # model-check
    tlapm JobQueueProofs.tla                                  # prove

Invariants and action properties are proved for every value of the constants;
liveness is model-checked (section 5).

## 1. Inventory

| Component | State | Operations | Correct when |
|---|---|---|---|
| Durable job queue, `jobs/queue.py` | `jobs` rows: status, attempt, lease token, expiry, dedupe key | enqueue, claim, heartbeat, complete, fail, exhaustion callback | one lease decides the row; attempts are bounded; every job settles once |
| Worker, `jobs/worker.py` | slots, stop event, heartbeat per handler | claim loop, handler, outcome, shutdown | a stale handler changes nothing; a dead one is replaced |
| Orchestrator, `orchestration/orchestrator.py`, `dispatch.py` | `analysis_runs`, events, recommendation | `advance_run`: decide under the run lock, commit, call the API | the graph's order; the run closes, once, with the outcome of its tasks |
| Dispatch API, `api/internal.py` | `agent_tasks`, `agent.execute` job | create a task for an idempotency key | one task per key; no task for a closed run |
| Executor, `orchestration/executor.py` | task status and error, `agent_results` | execute, store outcome, record retryable error, exhaustion hook | one result, from the lease that completed the job; the run is woken with it |
| Reconciler, `jobs/reconcile.py`, `jobs/handlers.py` | none of its own | re-enqueue advance jobs of stalled runs, purge, refresh | no run stays active for ever |
| Run API, `api/analyses.py`, `api/runs.py` | runs and their jobs | start, cancel, retry | one active run per order; a bounded number per factory |
| Recommendations and approvals, `domain/approvals/service.py`, `api/recommendations.py` | recommendation, pins, decision, application | propose, decide, apply, expire, supersede, cancel | nothing stale or undecided is applied, and nothing twice |
| Inventory, `domain/inventory/` | lots, balances, reservations, movements, material states | receive, accept, issue, correct, reserve, release, refresh | balance equals the ledger; free stock is never negative; states follow the stock |
| Capacity, `domain/capacity/service.py` | slots, allocations | allocate, release | allocated minutes stay within the slot |
| Orders, `domain/orders/`, `api/imports.py` | production state, version, import batches | create, import, transition, progress, cancel | only listed transitions; a file is imported once and whole |
| Quality, `domain/quality/service.py`, `agents/quality/` | inspections, holds, releases, quality state | inspect, hold, release, dispatch, report | no shipment against the latest facts |
| Idempotency, `idempotency/service.py` | keys with owner and stored response | begin, finish, release, purge | one effect per key, the original answer to a repeat |
| Documents, `retrieval/pipeline.py`, `storage.py`, `search.py` | versions, chunks, files | upload, process, reject, search, cite, download | what is served is stored, and stays served |
| Agents and LLM loop, `agents/`, `llm/` | none; the run's call budget | assess, call tools, submit, repair, merge | results pass validation, proposals fit the snapshot |
| Calculations, `domain/planning/`, `domain/ie/` | none | plan slots, rank, cover, balance a line | the stated optimum; figures do not contradict each other |
| Authentication and administration, `auth/`, `api/admin.py` | sessions, memberships, role assignments | login, rotate, logout, grant, revoke, deactivate | somebody can administer |
| HTTP layer, `api/deps.py`, `api/ratelimit.py`, `db/session.py`, `audit/` | connections, buckets, audit events | authenticate, execute, deny, commit, answer | the audit trail agrees with the effects; rates are bounded |
| Web application, evaluation, seed, scripts, migrations | no shared protocol state | | left out, see section 7 |

**Interactions.** `start_run` inserts run, snapshot and the job
`orchestrator.advance` in one transaction. A worker slot claims the job.
`advance_run` locks the run, decides, commits, and then posts one envelope per
missing task to the internal API, which reads the run *without* a lock and
inserts the task and its `agent.execute` job. A worker executes the agent
outside any transaction and commits result, task status, event, the next
advance job (key `run:<id>:after:<task>`) and the completion of its own job
together. The reconciler adds advance jobs for active runs that are overdue or
have nothing runnable. Isolation is READ COMMITTED; row locks are taken in the
order run, and elsewhere order, slots, balances.

**Where it is hard.** Leases that run out under a live worker; the exhaustion
callback that runs after the commit it reports; decisions committed before the
calls they entail; requests accepted before and executed after the end of a
run; unfenced updates of a task by whoever once held its job; two tasks that
finish together; cancellation and deadlines at any of these points. In the
services: facts read in one transaction and used in the next (a proposal, a
shipment view, a count of administrators); totals that repeat what rows say;
locks taken in more than one order; files, which no transaction covers; a
client that repeats what may have happened. `PROJECT.json` lists these hazards
line by line, with the properties that cover each or the reason why none does.

## 2. Modules

| Module | Content |
|---|---|
| `JobContract` | abstract: what the queue promises to whoever enqueues a job |
| `JobQueue` | `jobs/queue.py` and `jobs/worker.py`; refines `JobContract` |
| `JobQueueProofs` | theorems about `JobQueue` |
| `TaskContract` | abstract: what an agent task promises to its run |
| `AgentTask` | one task, its job, several workers: `orchestration/executor.py`; refines `TaskContract` |
| `AgentTaskProofs` | theorems about `AgentTask` |
| `Sums` | what a sum over a finite set is after one summand changed: lemmas for totals kept beside rows; largest elements and ordered listings of finite sets |
| `RunOrchestration` | one run with all its tasks: orchestrator, dispatch, API, executor, reconciler, cancellation |
| `RunProofs` | theorems about `RunOrchestration` |
| `ProposalContract` | abstract: what a recommendation promises to the people who decide |
| `Approvals` | `domain/approvals`, `domain/capacity`, run admission: proposals of several orders that compete for slots and stock; refines `ProposalContract` |
| `ApprovalsProofs` | theorems about `Approvals` |
| `Inventory` | `domain/inventory`: ledger, reservations, material states |
| `InventoryProofs` | theorems about `Inventory` |
| `Shipment` | `domain/quality`, dispatch, the quality agent's report |
| `Documents` | `retrieval/`, `storage/`: the versions of one document, its job, its files, search and citation |
| `Idempotency` | one key and the requests that carry it |
| `LockOrder` | the row locks of every command, in the order it takes them |
| `OrderImport` | CSV batches beside orders made by hand |
| `Access` | sessions and the administration of memberships |
| `RateLimit` | token buckets |
| `CommandRequest` | a write command through connection pool, permission check, audit and commit |
| `Services` | the modules from `Inventory` on side by side, with what they assume of their parameters |
| `ServiceProofs` | theorems about `Services` |
| `Analysis` | the numbers of one run, from snapshot to proposal and report |
| `AgentLoop` | the model loop of one task |
| `LineBalance` | cycle samples, line balance and the warnings drawn from them |
| `Agents` | `Analysis`, `AgentLoop` and `LineBalance` side by side, with what they assume of their parameters |
| `AgentProofs` | theorems about `Agents` |
| `MC*` | constants of the instances that TLC checks |

The modules are layered by their contracts rather than multiplied into one
product. `JobQueue` shows what a job is: tried at most `MaxAttempts` times,
completed under one lease, settled once. `AgentTask` looks at the one handler
that writes outside the fence and shows what a task is in spite of that: one
result, woken with it. `RunOrchestration` relies on both: a task is executed by
one attempt at a time and stores one result, a delivery of `advance_run` is
leased, may fail, and is retried while the fault budget lasts. `AgentTask` and
`RunOrchestration` meet in `TaskContract`: the executor of one task keeps it with
all its attempts and hooks (`KeepsTaskContract`), and a run keeps it for every task
of its graph (`TasksKeepContract`), so both tell the same life of a task, one from
the side of its leases, the other from the side of the run's deliveries.

### JobQueue

`status`, `attempt`, `token` are columns of `jobs`. Two facts stand for time:
`expired` (`leased_until < now()`) and `due` (`available_at <= now()`); the
environment makes them true at any moment (`LeaseExpires`, `BecomeDue`). A token
is the serial number of the claim that drew it (`uuid4` is fresh), and
`issued` counts them. A slot has a place `pc` in `Worker.run_once`, the job
`cur` and the token `lease` it was given, and a process that is up, stopping or
down (`life`). One action is one transaction or one step between two of them:

- `Enqueue`, `CancelReady` (the run API cancels READY jobs), `Poll`, `ClaimNothing` (also what SKIP LOCKED gives), `Claim`, `ClaimExhausted` (attempts used up by a lost lease: FAILED, hook after the commit);
- `Heartbeat`, `HeartbeatFencedOut` (with the check for a job its own handler completed);
- `FinishInTransaction`, `FinishFencedOut`, `HandlerReturns`, `HandlerRaises`, `CompleteAfterHandler`;
- `FailWithRetry`, `FailForGood`, `FailFencedOut`, `RunExhausted`, `LoopError`;
- `RequestStop`, `SlotExits`, `CutOff`, `Restart`: graceful stop, cut-off and kill, restart.

`starts`, `rejected`, `effects` and `hooks` are history that no guard reads:
attempts begun, permanent errors, tokens under which business writes were
committed, callbacks completed.

### AgentTask

The task's row (`status`, `outage`: the attempt whose `PROVIDER_UNAVAILABLE`
code it carries), its result with its origin (`source`), its job, and workers
at a place `pc` in `execute_agent_task`. Fenced: the transaction that stores the
outcome, and the failure report. Not fenced, as in the code: `MarkRunning` and
`RecordRetryable`, which a worker that has lost its lease may still perform.
The hook reads in one transaction (`HookDecides`) and stores in another
(`HookStores`), and may be lost in between (`HookLost`). `DeadlineEndsRun` and
`CancelRun` end the task from outside. A crash needs no bound: it costs an
attempt.

### RunOrchestration

Tasks are `rm0`, `ie0`, `quality0`, `planning0`, `planning1` (revision after a
shortage) and `rm1` (validation of the final plan). What a decision reads of a
plan is whether its first allocation commits `nothing`, units `covered` by the
material assessment, or units `uncovered` by it. A delivery (*advancer*) claims
an advance job (`Take`), decides (`DecideNothing`, `DecideDispatch`, `Finalize`,
`FinalizeDeadline`: one transaction each under the run's row lock; `Due`
is the envelope of a task that is called for, `Dispatches` those of one decision in their order), then submits
one envelope after the other (`SubmitKnown`, `SubmitNew`, `SubmitRejected`,
`SubmitFails`) and completes its job (`Finish`). The API answers 202 before its
session commits (`api/internal.py:273`, `db/session.py:103`), so an accepted envelope
(`Accept`) is answered at once and stays `inflight` until `InsertTask`, or `InsertFails`
when the commit fails: a request outlives the delivery that sent it, which may record the
dispatch of a task that will never exist. `Requests` bounds how many are outstanding. Tasks run through `ClaimTask`, `SkipTask`, `BeginTask`, `CompleteTask`,
`AttemptFails`, `ExhaustTask`, `HookBegins`, `HookStores`, `HookLost`. The
environment is `DeadlinePasses`, `Cancel`, `Review` (the recommendation is
settled), `Reconcile`, `CrashAdvancer` and `GiveUpAdvance`.

Abstractions: the reconciler's job key is per minute, and the model has one
open reconcile job at a time; `Parent` stands for `parent_task_id`; report,
events other than `run.finalized`, notifications and audit rows are left out;
envelope validations that only reject malformed envelopes are left out, since
the orchestrator builds every envelope in the model.

### Approvals

Several orders, several analyses of each. `run` is the stage of an analysis, `seen`
the rows its snapshot pinned, `plan` what it proposes, `status` the
recommendation, `order` the state and version of each order, `slot` and `bal`
the totals with their version columns, `alloc` and `held` the rows they count (`BookedOn` and `HeldOf`, per
slot and per material), `by`
the proposal an order is planned by. `StartRun` and `RetryRun` admit an
analysis (one active per order; the factory limit is counted under the lock of
one order only, as in the code), `ReadSlots` is the last query of
the snapshot, which under READ COMMITTED sees later commits than the first, `Propose` and `CloseRun` end the run,
`CancelRun` ends it from outside. A proposal goes through `Decide`, `Apply`, `ApplyStale`
(the locked rows are newer than the pins: SUPERSEDED), `ExpireOnUse`, `Lapse` and
`Reconcile`. `CanDecide` and `CanApply` are what the review screen offers, and the
guards of both commands (without the staleness of the moment); `SlotAfter` and `ReservedAfter` are the figures it shows
for the time after application. `MoveStock`, `ReserveByHand`, `ReleaseByHand`, `Refresh`,
`BeginProduction` and `CancelOrder` are the commands that compete. `ProposalContract` knows a fate
per proposal and the proposal in force per order.

### The services

`Inventory` keeps the ledger (`lot` and the sum of its movements `net`, totals in `bal`, and in `active[o][m]` the
reservation rows of an order for a material, in the order in which an issue consumes them). A command on stock and a
refresh job are two steps, as in `readiness.py:102-127`: `Select` and `StartRefresh` read without locks which orders
use the material (`selected`, at most `cutoff` of them, the earliest due first); the command itself, `FinishRefresh`
and their last part `Settle` lock these orders, recompute their material state and commit. Between the two other
transactions create orders, move stock and commit; `Abandon` is a refused or rolled back command, `RefreshFails` a
failed attempt of the job, or its last. `overlooked` and the field `late` are history that no guard
reads: the orders that a finished selection did not contain, and those missed by others while a selection is at work. `Shipment` is one order whose `log` of facts grows while users act on screens.
`view` is the verdict on a user's screen, `Outdated` once the order's version has moved
on; transitions, progress and releases are accepted from a current screen only. The verdict comes
from one of two derivations, as in the code: `OpenOrder` looks up the latest
inspection of each type (`Eligible`), `ListOrders` reads the facts newest first and keeps
the first one of each type (`ListedEligible`). An inspector reports counts, which `Evaluate` compares with the
policy; a FAIL is itself a hold. The quality agent reads a
`snapshot` and publishes its `report` in a later step; the report is shown as stale once
the order has changed. `Documents` follows uploads
of one document through upload, the job's three transactions and those of a rejection,
with lost leases, failed transactions and crashes at every step. Moving the file
(`Move`) and deleting it (`Reject`) are steps of their own before the commit that
records them (`Activate`, `CommitReject`), and nothing brings the file back when that commit
does not happen. `found` is what the activating transaction saw as ACTIVE, `hits` what searches returned, `cited` what
a stored result cites.
`Idempotency` has one transaction per request, holding the key's row; the
response leaves before the commit except in `apply`. `LockOrder` contains nothing but lock requests, read off
each command including the share locks of foreign keys. `OrderImport` separates
check and flush of a batch. `Access` separates the reads of a request (principal, guards)
from its commit. `CommandRequest` follows the connection, the transaction, the
audit event and the reply of a command. `RateLimit` is one step per call because the
code never awaits inside it.

### The agents

`Analysis` computes with integers: minutes in the smallest fraction of an
instance (0.0001 in the code), units in the minutes they take. A slot stores multiples of `Step`; `Stored` is what
`capacity.allocate` books, rounded half up, and `Refused` what it answers with 422. Units come from a division
with 28 digits, and what it loses is some 1E-26 units: 0 in any sum of minutes, but the code compares what is
left, and what was placed, with 0. `Residue(rows)` and `Shortfall(rows)` say for which rows something is left or missing; when there is a
residue, the next open slot gets a row of 0 minutes. They are constants, so the theorems hold for whatever
the division loses; the comparisons of units rounded to six places (`unscheduled_reason`) are exact here. Its actions are the tasks of the graph; each
reads the world and the results before it, and the model's choice among the
candidates is free. `AgentLoop` lets the model answer anything it may answer: calls, a
submission with any citations, rubbish, a refusal, an outage; `OtherTaskCalls` uses the
same budget. `LineBalance` records and discounts samples.

### Tables

Modules over tables state their constraints (checks, foreign keys, unique keys,
enumerations) as one predicate or set per table (`LotRows`, `JobRows`, `InspectionRows`,
...), and `TypeOK` is their conjunction. A row outside them would mean that the database refuses
a statement whose command thought it valid: a 500 instead of a 4xx.

### Composition in MCServices and MCAgents

The services share the database but not, in these modules, any variable: what
one reads of another's tables is part of its own module (`Approvals` has
orders, slots and balances in one). `Services` instantiates them side by
side: a step of the whole is a step of one of them, and the theorems are about
`ServicesSpec`, in which all services run. `MCServices` adds `focus`, chosen at
the start, the one that runs: every service is explored completely within the bounds of
section 3, and products of independent services would show nothing more, which the first
lemmas of `ServiceProofs` (`KeysMove` and its like) say formally. `Agents` and
`MCAgents` do the same for what the agents compute. `Approvals`, where several
services do interact, has a run of its own, and `LockOrder` relates all of them.

## 3. Runs

| Run | Instance | Distinct states | Shows |
|---|---|---|---|
| `job_queue` | 2 slots, 2 jobs (one of an unknown type), 2 attempts, crashes without bound | 54 k | fencing, hook at most once, live leases respected, refinement of `JobContract`, every job settles |
| `run_graph` | 2 advancers, 2 requests with an outstanding commit, all branches of the graph, deadline, cancellation, no fault | 2.1 M | order of the graph, results and statuses agree, no lost wake-up, a closed run is the outcome of its whole graph |
| `run_faults` | 2 advancers, 1 outstanding commit, the longest path, 1 fault of any kind, hooks may be lost | 2.4 M | deliveries that decided at different times never disagree; a closed run stays closed |
| `run_closes` | 1 advancer, 1 outstanding commit, 1 fault, hooks may be lost, deadline, fairness | 0.8 M | the run ends by itself unless a task is abandoned; past its deadline every run ends |
| `agent_task` | 2 workers, 3 attempts, crashes and stalls without bound, lost hooks | 8 k | results are fenced, refinement of `TaskContract`, the task settles unless its hook is lost |
| `proposals` | 2 orders, 3 analyses (two of one order), 1 slot of 2 minutes, 1 material of 2 pieces, 1 competing command, factory limit 1 | 249 k | a proposal that passes the staleness check fits; one open per order; totals are the plans in force; refinement of `ProposalContract`; proposals settle |
| `services` | nine services, one at a time, the ledger twice (below) | 0.82 M | the safety properties of each |
| `agents` | 792 worlds for `Analysis`, 2 attempts of 5 calls for `AgentLoop`, 3 operations of up to 3 samples for `LineBalance` | 1.6 M | proposals fit, no assignment beats the greedy plan, the final plan is covered, results pass validation, warnings stand |
| `lost_hook`, `two_active`, `lock_cycle`, `last_admin` | | violations | see section 6 |

**Bounds and why they are enough.** Two slots are what a stale and a current
holder of a lease need; a third adds another stale one, and the proofs cover any
number. Two attempts give a first, a retried and an exhausted one; three
(the code's own value for `agent.execute`) let an error of the second attempt be
read after the third. Jobs interact only through slots, so two suffice. One
fault at any point of the longest path reaches every state "a delivery or task
stopped here and was retried"; the paths of faults and of branches are checked
separately (`run_faults`, `run_graph`) to keep the product small. With one request whose commit is
outstanding (`run_faults`, `run_closes`) the next task is dispatched before the last one
exists or fails to; two (`run_graph`) add envelopes committed in another order than answered. In
`run_graph`, results are restricted to the tasks whose result a decision reads
(`Branching`). `run_closes` uses one advancer: with two, liveness is beyond a
few minutes, and overlapping deliveries are covered by the safety runs. Slots
are interchangeable, hence `SYMMETRY` in the safety runs and none in the
liveness runs.

`proposals`: two analyses of one order are needed for supersession, one of
another order for competition; a slot and a material that hold two
plans but not three make a third collide; one free command is enough to make any proposal
stale at any point. `services`: the ledger has two orders with different bills
of material, two materials and two lots of at most 2, which bounds the reservation rows, as a row
reserves at least one piece of what is in stock (one row partly consumed while another waits), and runs twice. In
`ledger` every command runs with all its quantities, but settles right after its selection and no refresh is given
up (`AtOnce`); in `rivals` two transactions overlap at any points, with a limit of one or two orders per selection,
on one material in one lot of one piece, without reservations or production (`OneMaterial`), since only what is
available and who uses it matter to a selection; the shipment gate two users (one may not
release what he inspected) and three
facts (hold, release, and an inspection that outdates it), under a policy of two samples,
one defect and no critical one, with counts below the sample, at the limit, above it, and
malformed; documents two versions, two workers
and two attempts (a stale worker beside its successor, and exhaustion) in two job slots at a time (`TwoSlots`); a key
has three equal requests and a different one; three commands of every kind
hold locks at once (a cycle of three is the longest over order, slot,
balance); three batches of three files, two of which overlap and one of which
has a bad row; two administrators with two commands in flight together (one browser is
enough for both, as logging in changes its user); a bucket of two over a window
of three ticks; two calls on three connections, one of which needs two.
`SYMMETRY` is declared for versions, and for workers, users and transactions, which are the same two
values, as no service sees two of these kinds; no definition tells them apart, and the run checks no liveness.
The commands of `services` that take locks leave out manual reservation, whose locks
are those of an issue. `services` says of overlapping administrators and of corrections what
is true of them (`LostToOvertakenCommand`, `OnlyCorrectionsDeadlock`); `last_admin` and
`lock_cycle` show that what the code's own text says is not. `agents`: the worlds vary due dates, skills, free
minutes that are and are not storable, orders that end in a sliver below half a storable step, in a half and in more,
risky lines and free material in one part, and receipts, reservations and missing balances in the other. `residue`
and `shortfall` let the quotients of some rows lose something and of others nothing; rows of residue on the same and on a
later day, and whole orders that do not count as full, all occur.

Deadlock checking is off where a run really ends, that is,
everywhere but in `job_queue`, whose slots poll for ever.

**Fairness.** `JobQueue`: a slot that is up polls, its handler and its outcome
transaction come to an end, a stopped process is restarted, a backoff ends, and a
lease that nobody renews runs out: weak fairness each. Strong fairness for
polling (a crash and restart interrupts it again and again) and for the claim of
each job: claims are ordered by `available_at`, so a job is not overtaken for
ever. `AgentTask`: leases run out, somebody claims, workers and hooks go on.
`RunOrchestration`: deliveries, agents and hooks end, accepted requests commit (a commit that fails is a fault),
the reconciler runs every 15 s. `Approvals`: a snapshot under way ends, an
open proposal reaches its expiry date, and the reconciler's expiry job runs.
The services state no fairness. Nothing is assumed about
crashes, cancellation or the passing of the deadline.

## 4. Properties

- `EffectsAreFenced`, `OneOwner`, `LiveLeaseRespected`, `HookRunsOnce`, `SettledIsFinal` (JobQueue): several slots may run the same job, but only the newest token changes its row or commits its writes, and a live lease is safe from everybody else; the callback of a failed job completes at most once although two code paths lead to it.
- `KeepsContract`, `EveryJobSettles`: refinement of `JobContract`, and its progress.
- `ResultIsFenced`, `KeepsTaskContract`, `TaskSettles` (AgentTask).
- `DependencyOrder`, `DecisionsAgree`, `OutcomesAgree`, `NoLostWakeup`, `ClosedRunIsComplete`, `ClosedStaysClosed`, `GraphCloses`, `DeadlineCloses` (RunOrchestration). `NoLostWakeup` is the property of the wake-up keys: without a fault an active run always has something runnable or a missing task whose insert is about to commit, although the delivery that dispatched it may have ended, so the reconciler repairs faults and never the normal path. A commit that fails after the 202 is a fault (`InsertFails`): then nothing is left and `GraphCloses` shows that the reconciler finds the run. `GraphCloses` names the one exception, an abandoned task. `TasksKeepContract`: no task of the graph does more than `TaskContract` allows.

- `FreshPlanFits` (Approvals): the version columns that `apply` compares stand for the contents, so a proposal that is not stale was computed from the very rows of now, fits them, and is shown to the reviewer with totals no lower than applying it will leave and no higher than the limits. `OneOpenPerOrder`; `CommitmentsAgree`: totals on slots and balances are those of the rows, within their limits, and the rows are exactly the plan of one applied proposal; `KeepsProposalContract`, `ProposalSettles`.
- `StockAgrees`, `OnlyMissedAreStale` (Inventory): totals against ledger and reservations through partial issues and corrections; a stored material state that is not the one the stock implies, while no refresh for it waits or is at work, belongs to an order that some selection missed (created after it, or beyond its limit) or whose refresh was given up, and that nobody who selected later has reached. That there is no such order at all (`MaterialStatesCurrent`) is not so, see section 6.
- `DispatchBacked` (Shipment): what is dispatched is inspected, within the policy, released by another person after its last hold, and packed, at the moment of dispatch; every current screen, list or detail, and a report that is not outdated agree.
- `ServedIsStored`, `ServedStaysServed` (Documents): an ACTIVE or SUPERSEDED version has its file and its chunks, the evidence of an agent stays valid, a citation stays readable; no lost lease, failed transaction or late rejection withdraws it, although files are moved and deleted before the commit. What is not promised is `WaitingHasFile` (section 6).
- `OneEffectPerKey`, `ReplayIsOriginal` (Idempotency); `OnlyCorrectionsDeadlock` (LockOrder): a circle of waiting commands contains a correction about to name its order; `ImportedOnceAndWhole` (OrderImport); `LostToOvertakenCommand` (Access): the last administrator is lost only to a command overtaken between its guards and its commit, so the guards would suffice if the rows they read were locked; `RateIsBounded` (RateLimit); `AuditAgrees` (CommandRequest).
- `ProposalFitsSnapshot`, `EarliestIsBest`, `FinalPlanIsCovered` (Analysis): flooring, rounding, ranking and the replan against the definitions they stand for. A proposal fits the records as `capacity.allocate` rounds it; a row may round to nothing only where the order ends. No assignment schedules more than the greedy plan, and none that schedules as much is done before the plan's last minutes; only a row of residue may be later. What does not hold, that every row can be booked and that a whole order counts as full, is in section 6. `ResultIsValid` (AgentLoop): whatever the model answered, the server's own validation accepts the merged result. `WarningsStand` (LineBalance). `AgreesWhereReadAlike` (Analysis): report and order detail agree on the material state of every order with BOM lines that is not overdue, has no reservation of its own and a balance for each convertible material.

In `services` and `agents` the property of a module with tables includes that module's `TypeOK`, so that the
table constraints are checked along with it, each while its service runs.

`TasksKeepContract` and `AgreesWhereReadAlike` are proved (section 5) and not part of
a kept run: the first is a contract per task, which TLC takes only with its
quantifier moved inside (checked so on the instance of `run_graph`), the second
was checked on the worlds of `agents`.

Every property of a run has a mutant in `PROJECT.json`: a one-line change of a modelled
definition (a dropped fence, a reused token, a forgotten wake-up, a missing
status guard) that makes TLC refute the property.

## 5. Proofs

`JobQueueProofs` proves for any set of jobs and slots and any number of
attempts, from `JobsAssumption` alone (`MaxAttempts` a positive natural number,
`Unregistered` a set of jobs, `NoJob` not a job):

- `TypeCorrect`, `Fencing`, `OwnersDiffer`, `HooksRunOnce`: the invariants;
- `FinalStates`, `LeasesRespected`: the action properties;
- `ImplementsContract`: the refinement of `JobContract`.

The inductive invariant `IInv` adds `HeldIsIssued` to the properties: a slot
beyond its claim knows its job, and holds a token drawn for it and no newer than
the last. It is needed because a fresh token is only known to differ from all
held ones if those were drawn before. Most steps draw no token and give no slot
a job; `OnlyClaimsDrawTokens` and `NoNewHolder` settle them at once for
`OneOwner`, and `NoNewHook` does the same for `HookRunsOnce`. For the refinement,
`TriesCounted` (attempts begun equal the row's attempt) ties the
history variable to the column on which the code decides.

`AgentTaskProofs` proves `TaskTypes`, `Fenced` and `ImplementsTaskContract` for
any set of workers and any number of attempts, from `TaskAssumption` alone. Its
`IInv` strengthens `ResultIsFenced` by what a worker's place implies: an attempt
under way holds a lease that is neither 0 nor `Hook`, only a failed job has
a hook, and there is a source exactly when there is a result and the wake-up.

`RunProofs` proves for any set of deliveries and any number of faults, from
`RunAssumption` (the outcomes a task may have are result statuses, `NoOne` is no delivery):

- `RunIsTyped`, and `ClosedForGood` (the action property `ClosedStaysClosed`);
- `OutcomesHold`, `ClosedIsComplete`, `DependenciesHold`, `DecisionsHold`: the invariants of the graph;
- `WakeUpsHold`: no lost wake-up;
- `TasksKeepTheirContract`: each task refines `TaskContract`.

The inductive invariant of the graph, `GraphInv`, adds three things to the
properties. `AdvancersAgree`: a lease has a holder only while the job is leased, and a
delivery's place tells whether it has a job and envelopes left. `JobsAgree`: a worker has
a task only as far as the task's job says, and a stored result has enqueued
the task's advance job. `GraphJustified` gives every envelope, pending or executed, its reason: for
`planning0` that the assessments of round zero were terminal, for `planning1`
that the first plan committed units its material did not cover, for `rm1` the
plan it validates. Envelopes outlive decisions, so these reasons must stay true:
`Grows` says that results are stored once and never change and that terminal tasks stay
terminal, and each reason is shown to be stable under it (`StartStays` and its
neighbours). That is why a stale delivery and a current one have the same envelope for
a task. For the wake-up, `WakeUp` follows what makes a run move while nothing failed: an
advance job is ready, a delivery is still to decide, a task is active (and its job
is then open), or there is nothing to do that no delivery is submitting and no request about to
commit (`Served`). A delivery that
decides to wait has seen all that ended before
(it holds the run's row lock), and what ends afterwards enqueues its own job.
For the contract of a task, `GraphInv` supplies what the abstract steps ask for: who stores a
result finds none (`JobsAgree`), storing and wake-up are one step, inserting an envelope is not seen
by the contract (the task was, and is, to begin), and what ends a run cancels
its active tasks only (`StoringAllowed`, `InsertionAllowed`, `StoppingAllowed`).

`ApprovalsProofs` proves for any orders, analyses, slots, materials and amounts, from
`ApprovalsAssumption` (finitely many orders; capacities and stock are natural
numbers; an analysis has one order):

- `ApprovalTypes`, `OneIsOpen`;
- `Committed`: `CommitmentsAgree`, the totals against their rows, within the limits;
- `FreshIsRoom`: `FreshPlanFits`;
- `ImplementsProposalContract`: the refinement of `ProposalContract`.

`IInv` adds `PinsMeanRows` (a pinned version that still stands means that the
row has not changed since the snapshot read it, because every write that changes
a row counts its version up) and `PlanIsOfSnapshot` (what is proposed fitted the
snapshot). Together they give `FreshPlanFits`; room for the plan on the pinned
rows keeps `CommitmentsAgree` when it is applied.

`InventoryProofs` proves `BalancesAgree` (`StockAgrees`) and `OnlyMissedGoStale`
(`OnlyMissedAreStale`) for any orders, bills of material, lots, quantities, limits and any
number of overlapping transactions, from
`InventoryAssumption` (finitely many orders and lots, quantities positive). The
balance is a sum over lots and a sum over orders of sums over reservation
rows. An issue that consumes rows partly changes the last of these by exactly
what it consumed: `Consumed` is a `SubSeq` whose total is worked out from
`Upto`. For the material states, the assessment of an order depends on its own materials
only (`Assess`), so what a command does to others is no matter (`StatesFollow`). A command
that moves a material has selected by that material: an order that uses it was locked and recomputed by it, or is
missed and thereby overlooked (`SettledStates`). What a selection can contain and still not
settle is an order that another transaction missed after the selection: it stays
overlooked (`late`). The commands that do not select leave a refresh job for all they touched (`ApplyPlanStates`,
`CancelStates`), and a job that is taken from the queue remains pending in the
transaction that does it (`Pending`), until it settles, is put back, or is given up.

`ServiceProofs` proves the properties of the services for `ServicesSpec`, from
`ServicesAssumption`:

- `EffectsAreSingle`, `ReplaysAreOriginal` (Idempotency). `KeyInv`: the effects a key protects are those of its fresh row, which is the answer to a request with the row's payload; whoever works on the command holds the key, and it protected nothing when it was claimed.
- `AuditHolds` (CommandRequest). `CallInv`: effect and audit event are written by one transaction and committed together, and a reply follows what was committed, except in the one route that commits itself.
- `ImportsAreWhole` (OrderImport). `ImportInv`: an order comes from a batch exactly when the batch is committed and its file names it, and a batch being flushed passed its checks; of batches that race, the unique key on references lets one commit.
- `RatesAreBounded` (RateLimit). `LimitInv`: what is left in a bucket, with all that was admitted since some call, came from a full bucket and the refill of the time since (`BucketIsSaved`), in integers, in units of a token divided by the window. Limit and window are arbitrary, so products of them are hidden behind definitions and the provers see linear arithmetic.
- `LastAdministratorIsOvertaken` (Access), for any number of overlapping commands. Only a commit changes who administers, and one whose caller and guard still stand leaves somebody (`GuardedCommitLeavesOne`): a grant takes nothing, a revocation passed the count of the assignments that are left, and nobody deactivates himself. That commands do overlap is what the run `last_admin` shows.
- `DeadlocksAreCorrections` (LockOrder), for any processes, orders, slots, balances and kinds of command. Rows are totally ordered by table and number; in `LockInv` every command wants its locks in ascending order, but for the last of a correction, and holds only lower ones. Of the rows that a set of commands waits for in line, the highest is held by none of them, since its holder would wait for a higher one.
- `ServedHasFile`, `ServedForGood` (Documents). `DocInv`: for every version what its row, file, chunks and job say of each other (`RowOK`) and what each worker may be at (`WorkerOK`: one holds the row's lock, and what it did to the file is there), and that the numbers of committed versions differ and leave no gap below.
- `DispatchIsBacked` (Shipment). `ShipInv`: every result in the log is what the policy makes of its counts, every release follows a passed FINAL inspection by someone else, and every screen, snapshot and report that is not outdated says what is so now. `ListFindsLatest` shows that the list of orders, which goes through the facts newest first, finds the latest inspection of each type, so that its verdict is that of the order itself (`ListAgrees`).

`AgentProofs` proves the properties of the agents for `AgentsSpec`, from
`AgentsAssumption` (the assessment cites finitely many records, and its candidates have
names apart from each other and from `simulate_allocation`'s), `LinesAssumption`
(every operation has an operator, at least one sample is required) and `AnalysisAssumption`
(what the tables guarantee of the records of a snapshot: a line has one slot per day
and shift, BOM quantities are positive, at most the stock is reserved; that slots are
booked within their capacity is not needed). `Residue` and `Shortfall` are arbitrary, but that
no rows leave no residue; an order of no units never gets to the question:

- `ResultsAreValid` (AgentLoop), for any limits, attempts and length of answers. `LoopInv` says of the state between two calls that evidence found by tools has ids of its own, each once (`FoundOnce`), and that the actions are the candidates followed by simulated ones with numbers from 1 (`IsNumbered`), so that the next number is free. An answer is processed block by block: the blocks keep both and keep what an accepted submission cites known (`BlockKeeps`, `AnswerKeeps`). Merging puts the chosen action first and loses or repeats none (`RerankIsOK`).
- `WarningsAreKept` (LineBalance), for any operations, parallel operators, observed times and thresholds. The median is one or the mean of two order statistics, each of which exists because there are enough samples (`KthIs`, `MedianIs`). Effective cycles are quotients compared by cross products, so "the slowest, and of equal ones the first" is a maximum of a total order and exists (`BottleneckIs`). When an operation gets enough samples while the others keep theirs, the bottleneck of the larger set is no faster (`OneMoreMeasured`).

- `ProposalFits`, `PlanIsCovered` and `GreedyIsBest` (Analysis), for any records, SAM and storable step, whatever the quotients lose and the model chose. `AnalysisInv` has four parts. `BaseInv` is the order of the tasks, and what rm round 0 calls coverable is there of every material. `FitsInv`: every candidate's rows fit their slots, up to the end of the order. `CoveredInv`: the revised plan needs no more than is coverable. `BestInv`: the first candidate is the greedy plan of all lines.

The greedy plan is the core of it. The open slots can be listed in the order of
`plan_earliest_slots` (`EligibleIs`; any finite set can be listed by a total order,
`CanBeListed`). After i slots of the list there are w rows with minutes, and behind them only residue; either
something is left and all slots so far are full, or the w-th row was the one needed (`FillOK`, `FillKeeps`). So a plan has as many
minutes as the target or the room there is, and the slots before its w-th row have less
(`PlanIs`, `EarliestIs`). An assignment that is done earlier has minutes only in slots
before that row, and fewer (`PlanIsBest`); no exchange of slots is needed. A plan
for fewer units has fewer rows with minutes or a smaller last one, so plans with equal rows,
which `_deduplicate` takes for one, have equal minutes (`SameRows`). When the
material-limited option is dropped as a duplicate, the plan kept in its place is therefore
covered too; when it is kept, the revised ranking puts it first
(`RevisedIsCovered`). What is free is floored to a storable amount, so no part of it is rounded
beyond the slot and all of it is not rounded to nothing (`FreeIs`, `RoundsHalfUp`): a row that is, is not a full slot, and so
the last one with minutes (`PlanFits`).

`ReportsAgree` says where the report and the order detail must agree on the material
state. The agent's findings are exactly the lines of the order detail that are not
ready (`FindingsAreLines`), and the worst of a set of states is the first of unknown,
shortage and at risk that is among them (`WorstIs`), so leaving out the ready ones changes nothing
unless all are ready (`StatesAgree`). The hypothesis `ReadAlike` therefore delimits the
finding on `ReportAgreesWithOrder` of section 6: it has no further causes.

`Sums` proves what a sum over a finite set does when one summand changes
(`SumOne`), is equal (`SumEqual`), gains an element (`SumAdd`), that it is no less than
any summand (`SumAtLeast`) and no more than the sum of what is nowhere smaller
(`SumNoMore`), for `SumFunctionOnSet` of the community modules. Induction over finite
sets and numbers is done without the library's induction theorems, as a minimal
counterexample: a non-empty set of subsets of a finite set has a minimal one
(`Minimal`), a non-empty finite set of integers a largest and a
smallest one (`HasLargest`, `HasSmallest`).

**Only model-checked.** Liveness rests on fairness and is out of reach of these
proofs: `EveryJobSettles`, `TaskSettles`, `GraphCloses`, `DeadlineCloses`,
`ProposalSettles`.
`AtMostOneActive` and the other properties of section 6 are false. `Documents.Spec`, `Shipment.Spec`
and the like are not the subject of theorems of their own: `ServicesSpec` contains them.

## 6. Findings

Four runs show that the code does not keep a promise its own text makes.

1. **A lost exhaustion hook abandons its task** (`lost_hook`). `fail` and `claim` commit FAILED and run `on_exhausted` afterwards (`jobs/queue.py:355`). If the process dies in between, or the hook raises, the task stays active without a job. `jobs/reconcile.py:247` counts a RUNNING task as progress, so only the deadline ends the run; `executor.py:412-415` promises that "the run never stalls on an exhausted task".
2. **Two versions of a document become ACTIVE** (`two_active`). Activation locks its own version and the ACTIVE one it finds (`retrieval/pipeline.py:317`). When there is none, two activations lock different rows and neither supersedes the other; state-machines.md:145-146 says "at most one".
3. **A stock correction locks against the documented order** (`lock_cycle`). The movement it inserts share-locks its order while the balance is held (`domain/inventory/service.py:609`); an order in production is not among the rows locked before. It is the only way in which the row locks of commands can close a circle (`DeadlocksAreCorrections`); two imports that name the same references in opposite order can also wait for each other at the unique index on `external_ref` (`api/imports.py:334`), which `LockOrder` leaves out and whose outcome, one of them rolled back, is `RollBack` in `OrderImport`.
4. **The last administrator can be lost** (`last_admin`). The guards of `api/admin.py:307` count rows they do not lock. Locking them would be enough (`LastAdministratorIsOvertaken`).

Findings that the models show but no kept run does (each is in `PROJECT.json`,
with the definition that states it where there is one):

- A task is inserted after the deadline closed its run: `dispatch_agent_task` checks the status on an unlocked read (`api/internal.py:158`; `RunOrchestration.DeadlineStopsTasks`).
- A plan is proposed although its validation failed (`orchestrator.py:494`; `ProposalIsValidated`).
- The error code that the hook reads may be one attempt old (`executor.py:462`; `AgentTask.ErrorCodeIsFresh`).
- A file is moved or deleted before the activation or rejection commits (`retrieval/pipeline.py:331`, `:412`); after a failed commit the retry cannot read it from quarantine, and after a failed rejection in the exhaustion hook the version stays PROCESSING without file or job (`Documents.WaitingHasFile`).
- The material state of the report and of the order detail differ by the order's own reservations, overdue demand and missing balances (`synthesis.py:131`; `Analysis.ReportAgreesWithOrder`); without these they agree (`ReportsAgree`).
- An order that is created, and recomputed by another transaction, between the selection of a command and its commit keeps a state computed from the stock before that command, and no refresh is left (`readiness.py:125`; `Inventory.MaterialStatesCurrent`). user-guide.md:760-762 says that every ledger command recomputes the orders that use the material. `OnlyMissedAreStale` delimits it.
- A proposal may end in a row that `capacity.allocate` refuses, so it can never be applied (`capacity/service.py:199`; `Analysis.EveryRowIsBookable`): the order ends in a sliver below 0.005 minutes, or the quotients of the rows before add up to 1E-26 units less than the target. Flooring the slots, which IMPLEMENTATION_STATUS.md:2191-2192 says removes these rows, removes neither.
- The same losses make a wholly scheduled order count as not full, or finish later than it does (`planning/agent.py:80`, `calc.py:192`; `Analysis.WholeIsFull`), and it is ranked by both.
- The review screen offers *apply* without looking at the state of the order: after production began, an approved proposal can no longer be applied (`approvals/service.py:743`; `Approvals.OfferedApplies`), and the allocation after application that the screen shows ignores what a replaced plan gives back (`:680`; `Approvals.ReviewShowsOutcome`).
- A second search reuses the ids of the first one's passages (`retrieval/agent_tool.py:51`; `AgentLoop.CitationMeansWhatWasShown`).
- `docs/architecture/state-machines.md` differs from the code at lines 24, 46, 97 and 140.

Met while modelling and reproduced by the models as the code has it: cancelling
a run in AWAITING_REVIEW whose plan is APPLIED leaves the run CANCELLED and the order
PLANNED; requests for different orders can exceed the factory limit of active
runs; reservations of dispatched orders are not released; a request is answered
before its transaction commits; a denial whose audit finds no connection ends
in 500 instead of 403; the executor's module text says that a worker that lost
its lease "writes nothing at all", whereas the RUNNING mark and the retryable
error are written without a fence; `jobs/worker.py:436` says that no job is claimed
after the stop signal, whereas a claim in progress completes; the
state-machine document lists no step from AWAITING_REVIEW to CANCELLED, which
`cancel_run` performs. Read, and outside the models:
an upload whose transaction fails leaves its file in quarantine; a form that is edited and edited back draws a new key.

## 7. Not modelled

Left out for good: ranking, chunking and text classification of searches
and document access lists; wire formats of the model providers; the OIDC
exchange and password hashing; read routes, dashboards and schemas; the web
application; migrations, evaluation, seed data and scripts. They keep no state
that another component could see half-changed, or are tooling. Where such a
part decides something, its outcome is a free choice: what a search returns,
what a model answers, whether an extraction succeeds. Inside
the modelled components: length of backoffs and leases, order of claims,
liveness files, logging, notifications, events, audit rows other than those of
`CommandRequest`, and the wording of reports. Units of measure are
one, expected receipts and slots are fixed, and the quality policy does not change.

## 8. What remains open

Every module of section 2 is written, and each safety invariant and action
property that a run checks has its theorem in section 5. What stays with TLC is
liveness, on the instances of section 3. Time is abstract throughout: that a lease
of so many seconds and a heartbeat of so many suit each other is not a question
these models can be asked.
