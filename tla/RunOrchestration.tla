-------------------------- MODULE RunOrchestration --------------------------
(***************************************************************************)
(* One analysis run: the orchestrator that advances it                     *)
(* (app/orchestration/orchestrator.py), the internal API that creates its  *)
(* tasks (app/api/internal.py), the executor that runs them                *)
(* (app/orchestration/executor.py), the reconciler that revives it         *)
(* (app/jobs/reconcile.py) and the user who cancels it (app/api/runs.py).  *)
(*                                                                         *)
(* Every delivery of orchestrator.advance decides under the run lock,      *)
(* commits, and only then calls the API, which reads the run without a     *)
(* lock and answers before it commits (app/db/session.py: the session of a *)
(* request commits when the response is out).  So decisions of several     *)
(* deliveries, requests that are in flight or answered and not committed,  *)
(* running agents, deadline, cancellation and crashes interleave freely.   *)
(* Jobs are taken as JobQueue promises them: leased, fenced and retried a  *)
(* bounded number of times; what goes wrong is bounded by MaxFaults.       *)
(***************************************************************************)
EXTENDS Integers, Sequences, FiniteSets

CONSTANTS Advancers,     \* worker slots that may run orchestrator.advance
          NoOne,
          Outcomes,      \* Outcomes[t]: result statuses the agent of t may report
          Units,         \* what a plan may commit, against what rm0 covers
          Requests,      \* bound on requests whose commit is outstanding
          MaxFaults,     \* crashes, lapsed leases, failed calls, failed attempts
          Deadline,      \* whether deadline_at may pass
          HooksMayFail   \* whether an on_exhausted hook may be lost

RoundZero == {"rm0", "ie0", "quality0"}
Planning == {"planning0", "planning1"}
Tasks == RoundZero \cup Planning \cup {"rm1"}

\* Dedupe keys of orchestrator.advance: run:<id>:start, run:<id>:after:<task>,
\* and the reconciler's key of the minute.
Keys == Tasks \cup {"start", "reconcile"}

AnyUnits == {"nothing", "covered", "uncovered"}

ResultStatuses == {"SUCCEEDED", "DEGRADED", "FAILED"}

ASSUME RunAssumption ==
  /\ NoOne \notin Advancers
  /\ Outcomes \in [Tasks -> SUBSET ResultStatuses]
  /\ Units \subseteq AnyUnits
  /\ Requests \in Nat \ {0} /\ MaxFaults \in Nat
  /\ Deadline \in BOOLEAN /\ HooksMayFail \in BOOLEAN

VARIABLES
  \* analysis_runs
  run,        \* status
  overdue,    \* now() >= deadline_at
  replanned,  \* replan_count = 1
  rec,        \* the run's recommendation
  \* agent_tasks and agent_results
  task, result,
  plan,       \* units the result's first ALLOCATION commits
  validates,  \* parent_task_id of rm1
  \* jobs
  advance,    \* status of the advance job behind each key
  owner,      \* who holds its lease
  agentJob,   \* status of agent.execute of each task
  \* deliveries in progress
  pc, key,    \* where an advancer stands, and with which job
  todo,       \* envelopes it still has to submit
  inflight,   \* envelopes the API accepted, whose insert is not committed
  work,       \* what a worker does with the agent job of each task
  \* bookkeeping
  closings,   \* run.finalized events
  faults

runVars == <<run, overdue, replanned, rec, closings>>
taskVars == <<task, result, plan, validates>>
jobVars == <<advance, owner>>
advancerVars == <<pc, key, todo>>
vars == <<run, overdue, replanned, rec, closings, task, result, plan, validates,
          advance, owner, agentJob, pc, key, todo, inflight, work, faults>>

ActiveRun == {"QUEUED", "RUNNING"}
ClosedRun == {"AWAITING_REVIEW", "COMPLETED", "DEGRADED", "FAILED", "CANCELLED"}
ActiveTask == {"PENDING", "RUNNING"}
TerminalTask == {"SUCCEEDED", "FAILED", "CANCELLED"}
OpenJob == {"READY", "LEASED"}
JobStatuses == {"ABSENT", "READY", "LEASED", "DONE", "FAILED", "CANCELLED"}
Envelopes == [task : Tasks, parent : Planning \cup {"none"}]

TypeOK ==
  /\ run \in ActiveRun \cup ClosedRun
  /\ overdue \in BOOLEAN /\ replanned \in BOOLEAN
  /\ rec \in {"none", "open", "settled", "SUPERSEDED"}
  /\ closings \in Nat
  /\ task \in [Tasks -> {"ABSENT"} \cup ActiveTask \cup TerminalTask]
  /\ result \in [Tasks -> {"none"} \cup ResultStatuses]
  /\ plan \in [Planning -> AnyUnits]
  /\ validates \in Planning \cup {"none"}
  /\ advance \in [Keys -> JobStatuses]
  /\ owner \in [Keys -> Advancers \cup {NoOne}]
  /\ agentJob \in [Tasks -> JobStatuses]
  /\ pc \in [Advancers -> {"idle", "deciding", "sending", "finishing"}]
  /\ key \in [Advancers -> Keys \cup {"none"}]
  /\ todo \in [Advancers -> Seq(Envelopes)]
  /\ inflight \subseteq Envelopes
  /\ work \in [Tasks -> {"idle", "claimed", "working", "exhausted", "degrading"}]
  /\ faults \in 0..MaxFaults

\* start_run: the run, its snapshot and its first advance job in one transaction.
Init ==
  /\ run = "QUEUED" /\ overdue = FALSE /\ replanned = FALSE
  /\ rec = "none" /\ closings = 0
  /\ task = [t \in Tasks |-> "ABSENT"]
  /\ result = [t \in Tasks |-> "none"]
  /\ plan = [t \in Planning |-> "nothing"]
  /\ validates = "none"
  /\ advance = [k \in Keys |-> IF k = "start" THEN "READY" ELSE "ABSENT"]
  /\ owner = [k \in Keys |-> NoOne]
  /\ agentJob = [t \in Tasks |-> "ABSENT"]
  /\ pc = [a \in Advancers |-> "idle"]
  /\ key = [a \in Advancers |-> "none"]
  /\ todo = [a \in Advancers |-> <<>>]
  /\ inflight = {}
  /\ work = [t \in Tasks |-> "idle"]
  /\ faults = 0

Fault == faults < MaxFaults /\ faults' = faults + 1

-----------------------------------------------------------------------------
(* What a decision reads *)

Terminal(t) == task[t] \in TerminalTask
Missing(t) == task[t] = "ABSENT"

\* _USABLE_RESULT_STATUSES: a degraded result keeps its deterministic content.
Usable(t) == result[t] \in {"SUCCEEDED", "DEGRADED"}

\* planning1 or planning0
FinalPlan == IF Missing("planning1") THEN "planning0" ELSE "planning1"

\* Both results are there and the first plan commits more than rm0 covers.
NeedsReplan ==
  /\ Usable("planning0") /\ Usable("rm0")
  /\ plan["planning0"] = "uncovered"

\* replan_count survives a dispatch that has to be retried.
WantsReplan == NeedsReplan \/ replanned

AllocatesUnits(t) == Usable(t) /\ plan[t] # "nothing"

PlanningWithoutLines ==
  /\ \A t \in RoundZero : ~Missing(t)
  /\ Terminal("rm0")

\* Planning needs both material and line capability; quality runs beside them.
PlanningMayStart ==
  /\ \A t \in RoundZero : ~Missing(t)
  /\ Terminal("rm0") /\ Terminal("ie0")

PlanFinalTooEarly ==
  /\ PlanningMayStart
  /\ Terminal("planning0")

PlanIsFinal ==
  /\ PlanningMayStart
  /\ Terminal("planning0")
  /\ WantsReplan => Terminal("planning1")

\* The tasks _decide would dispatch now.
Wanted(t) ==
  /\ Missing(t)
  /\ CASE t \in RoundZero -> TRUE
       [] t = "planning0" -> PlanningMayStart
       [] t = "planning1" -> PlanningMayStart /\ Terminal("planning0") /\ WantsReplan
       [] t = "rm1" -> PlanIsFinal /\ AllocatesUnits(FinalPlan)

Parent(t) ==
  CASE t = "planning1" -> "planning0"
    [] t = "rm1" -> FinalPlan
    [] OTHER -> "none"

Envelope(t) == [task |-> t, parent |-> Parent(t)]

Due(t) == IF Wanted(t) THEN <<Envelope(t)>> ELSE <<>>

\* In the order they are submitted; more than one only at the run's start.
Dispatches ==
  Due("rm0") \o Due("ie0") \o Due("quality0") \o Due("planning0") \o Due("planning1") \o Due("rm1")

FinalizeWithoutQuality ==
  /\ PlanIsFinal
  /\ AllocatesUnits(FinalPlan) => Terminal("rm1")

\* Nothing is left to dispatch or to wait for.
MayFinalize ==
  /\ PlanIsFinal
  /\ AllocatesUnits(FinalPlan) => Terminal("rm1")
  /\ Terminal("quality0")

-----------------------------------------------------------------------------
(* orchestrator.advance: claim and decide *)

\* A lease whose holder died is free to take; taking it from a live holder
\* (the lease lapsed) is a fault.
Take(a, k) ==
  /\ pc[a] = "idle"
  /\ advance[k] \in OpenJob
  /\ IF owner[k] \in Advancers /\ key[owner[k]] = k THEN Fault ELSE UNCHANGED faults
  /\ advance' = [advance EXCEPT ![k] = "LEASED"]
  /\ owner' = [owner EXCEPT ![k] = a]
  /\ pc' = [pc EXCEPT ![a] = "deciding"]
  /\ key' = [key EXCEPT ![a] = k]
  /\ UNCHANGED <<runVars, taskVars, agentJob, todo, inflight, work>>

\* The run is closed, or it waits for tasks.
DecideNothing(a) ==
  /\ pc[a] = "deciding"
  /\ run \in ActiveRun => ~overdue /\ run = "RUNNING" /\ Dispatches = <<>> /\ ~MayFinalize
  /\ pc' = [pc EXCEPT ![a] = "finishing"]
  /\ UNCHANGED <<runVars, taskVars, jobVars, agentJob, key, todo, inflight, work, faults>>

\* The start (QUEUED -> RUNNING), or one step of the graph.
DecideDispatch(a) ==
  /\ pc[a] = "deciding"
  /\ run \in ActiveRun /\ ~overdue
  /\ Dispatches # <<>>
  /\ run' = "RUNNING"
  /\ replanned' = (replanned \/ Wanted("planning1"))
  /\ pc' = [pc EXCEPT ![a] = "sending"]
  /\ todo' = [todo EXCEPT ![a] = Dispatches]
  /\ UNCHANGED <<overdue, rec, closings, taskVars, jobVars, agentJob, key, inflight,
                 work, faults>>

\* The status a finished graph earns.
FinalStatus ==
  CASE task["rm0"] = "FAILED" /\ task[FinalPlan] = "FAILED" -> "FAILED"
    [] AllocatesUnits(FinalPlan) -> "AWAITING_REVIEW"
    [] OTHER -> IF \A t \in Tasks : result[t] \in {"none", "SUCCEEDED"}
                THEN "COMPLETED" ELSE "DEGRADED"

FinalizeAgain(a) ==
  /\ pc[a] = "deciding"
  /\ run # "QUEUED" /\ ~overdue
  /\ Dispatches = <<>> /\ MayFinalize
  /\ run' = FinalStatus
  /\ rec' = IF AllocatesUnits(FinalPlan) THEN "open" ELSE "none"
  /\ closings' = closings + 1
  /\ pc' = [pc EXCEPT ![a] = "finishing"]
  /\ UNCHANGED <<overdue, replanned, taskVars, jobVars, agentJob, key, todo,
                 inflight, work, faults>>

\* Report, recommendation, status, run.finalized, notification, audit: one transaction.
Finalize(a) ==
  /\ pc[a] = "deciding"
  /\ run = "RUNNING" /\ ~overdue
  /\ Dispatches = <<>> /\ MayFinalize
  /\ run' = FinalStatus
  /\ rec' = IF AllocatesUnits(FinalPlan) THEN "open" ELSE "none"
  /\ closings' = closings + 1
  /\ pc' = [pc EXCEPT ![a] = "finishing"]
  /\ UNCHANGED <<overdue, replanned, taskVars, jobVars, agentJob, key, todo,
                 inflight, work, faults>>

Stopped == [t \in Tasks |-> IF task[t] \in ActiveTask THEN "CANCELLED" ELSE task[t]]

\* The deadline cancels the tasks; their READY jobs stay and will be skipped.
FinalizeDeadline(a) ==
  /\ pc[a] = "deciding"
  /\ run \in ActiveRun /\ overdue
  /\ task' = Stopped
  /\ run' = IF \E t \in Planning : result[t] = "SUCCEEDED" THEN "DEGRADED" ELSE "FAILED"
  /\ closings' = closings + 1
  /\ pc' = [pc EXCEPT ![a] = "finishing"]
  /\ UNCHANGED <<overdue, replanned, rec, result, plan, validates, jobVars,
                 agentJob, key, todo, inflight, work, faults>>

-----------------------------------------------------------------------------
(* orchestrator.advance: submit and finish *)

\* The envelope to submit.
Current(a) == Head(todo[a])

\* That envelope is answered.
Delivered(a) ==
  /\ todo' = [todo EXCEPT ![a] = Tail(@)]
  /\ pc' = [pc EXCEPT ![a] = IF Len(todo[a]) = 1 THEN "finishing" ELSE "sending"]

\* The advancer lets its job go; only the lease's holder records an outcome.
Leave(a, outcome) ==
  /\ IF owner[key[a]] = a
     THEN /\ advance' = [advance EXCEPT ![key[a]] = outcome]
          /\ owner' = [owner EXCEPT ![key[a]] = NoOne]
     ELSE UNCHANGED jobVars
  /\ pc' = [pc EXCEPT ![a] = "idle"]
  /\ key' = [key EXCEPT ![a] = "none"]
  /\ todo' = [todo EXCEPT ![a] = <<>>]

\* 200: the idempotency key has its task already.
SubmitKnown(a) ==
  /\ pc[a] = "sending"
  /\ ~Missing(Current(a).task)
  /\ Delivered(a)
  /\ UNCHANGED <<runVars, taskVars, jobVars, agentJob, key, inflight, work, faults>>

\* The API accepts the envelope on an unlocked read of the run.
Accept(e) ==
  /\ Missing(e.task)
  /\ run \in ActiveRun
  /\ inflight' = inflight \cup {e}
  /\ Cardinality(inflight') <= Requests

\* 202, sent before the insert commits, or 200 when another insert came first.
\* Nothing tells the delivery whether the commit succeeds.
SubmitNew(a) ==
  /\ pc[a] = "sending"
  /\ Accept(Current(a))
  /\ Delivered(a)
  /\ UNCHANGED <<runVars, taskVars, jobVars, agentJob, key, work, faults>>

\* 409: PermanentJobError fails the advance job.
SubmitRejected(a) ==
  /\ pc[a] = "sending"
  /\ Missing(Current(a).task)
  /\ run \notin ActiveRun
  /\ Leave(a, "FAILED")
  /\ UNCHANGED <<runVars, taskVars, agentJob, inflight, work, faults>>

\* get_db_session commits: task row and agent job in one transaction.  Equal
\* envelopes are one here: the second insert waits for the first one's commit
\* and inserts nothing after it.
InsertTask(e) ==
  /\ e \in inflight
  /\ inflight' = inflight \ {e}
  /\ IF Missing(e.task)
     THEN /\ task' = [task EXCEPT ![e.task] = "PENDING"]
          /\ agentJob' = [agentJob EXCEPT ![e.task] = "READY"]
          /\ validates' = IF e.task = "rm1" THEN e.parent ELSE validates
     ELSE UNCHANGED <<task, agentJob, validates>>
  /\ UNCHANGED <<runVars, result, plan, jobVars, advancerVars, work, faults>>

\* The request ends without its insert: the commit fails after the answer, or
\* the API process dies before it.
InsertFails(e) ==
  /\ e \in inflight
  /\ Fault
  /\ inflight' = inflight \ {e}
  /\ UNCHANGED <<runVars, taskVars, jobVars, agentJob, advancerVars, work>>

\* Transport error or 5xx, although the API may have accepted the task: the
\* job is retried, or failed once its attempts are used up (no hook).
SubmitFails(a) ==
  /\ pc[a] = "sending"
  /\ Fault
  /\ UNCHANGED inflight \/ Accept(Current(a))
  /\ \E outcome \in {"READY", "FAILED"} : Leave(a, outcome)
  /\ UNCHANGED <<runVars, taskVars, agentJob, work>>

\* finish_in_transaction
Finish(a) ==
  /\ pc[a] = "finishing"
  /\ Leave(a, "DONE")
  /\ UNCHANGED <<runVars, taskVars, agentJob, inflight, work, faults>>

\* The worker dies; its lease runs out later.
CrashAdvancer(a) ==
  /\ pc[a] # "idle"
  /\ Fault
  /\ pc' = [pc EXCEPT ![a] = "idle"]
  /\ key' = [key EXCEPT ![a] = "none"]
  /\ todo' = [todo EXCEPT ![a] = <<>>]
  /\ UNCHANGED <<runVars, taskVars, jobVars, agentJob, inflight, work>>

\* A lapsed lease whose last attempt is used up: the claim fails the job.
GiveUpAdvance(k) ==
  /\ advance[k] = "LEASED"
  /\ Fault
  /\ advance' = [advance EXCEPT ![k] = "FAILED"]
  /\ owner' = [owner EXCEPT ![k] = NoOne]
  /\ UNCHANGED <<runVars, taskVars, agentJob, advancerVars, inflight, work>>

-----------------------------------------------------------------------------
(* agent.execute *)

ClaimTask(t) ==
  /\ agentJob[t] \in OpenJob /\ work[t] = "idle"
  /\ agentJob' = [agentJob EXCEPT ![t] = "LEASED"]
  /\ work' = [work EXCEPT ![t] = "claimed"]
  /\ UNCHANGED <<runVars, taskVars, jobVars, advancerVars, inflight, faults>>

RunnableTask(t) == run # "CANCELLED" /\ task[t] \in ActiveTask

SkipTask(t) ==
  /\ work[t] = "claimed"
  /\ ~RunnableTask(t)
  /\ agentJob' = [agentJob EXCEPT ![t] = "DONE"]
  /\ work' = [work EXCEPT ![t] = "idle"]
  /\ UNCHANGED <<runVars, taskVars, jobVars, advancerVars, inflight, faults>>

\* RUNNING is committed before the agent runs outside any transaction.
BeginTask(t) ==
  /\ work[t] = "claimed"
  /\ RunnableTask(t)
  /\ task' = [task EXCEPT ![t] = "RUNNING"]
  /\ work' = [work EXCEPT ![t] = "working"]
  /\ UNCHANGED <<runVars, result, plan, validates, jobVars, agentJob, advancerVars,
                 inflight, faults>>

AdvanceForgotten(t) == UNCHANGED advance

\* enqueue with dedupe key run:<id>:after:<task>
AdvanceAfter(t) ==
  advance' = IF advance[t] = "ABSENT" THEN [advance EXCEPT ![t] = "READY"] ELSE advance

OnlySuccessSettles(status) == IF status = "SUCCEEDED" THEN "SUCCEEDED" ELSE "FAILED"

\* _SUCCESSFUL_RESULT_STATUSES
SettlesAs(status) == IF status = "FAILED" THEN "FAILED" ELSE "SUCCEEDED"

\* The insert that conflicts with an earlier result of the task is left out:
\* AgentTask shows there is one result, TaskContract!Report.  Only an active
\* task takes its status; the advance job is enqueued in any case.
StoreOutcome(t) ==
  \E status \in Outcomes[t] :
    /\ result' = [result EXCEPT ![t] = status]
    /\ IF t \in Planning
       THEN \E units \in Units :
              plan' = [plan EXCEPT ![t] = IF status = "FAILED" THEN "nothing" ELSE units]
       ELSE UNCHANGED plan
    /\ task' = IF task[t] \in ActiveTask
               THEN [task EXCEPT ![t] = SettlesAs(status)]
               ELSE task
    /\ AdvanceAfter(t)

\* Outcome and completion of the job in one fenced transaction.
CompleteTask(t) ==
  /\ work[t] = "working"
  /\ StoreOutcome(t)
  /\ agentJob' = [agentJob EXCEPT ![t] = "DONE"]
  /\ work' = [work EXCEPT ![t] = "idle"]
  /\ UNCHANGED <<runVars, validates, owner, advancerVars, inflight, faults>>

\* A retryable error, a crash or a lapsed lease ends the attempt ...
AttemptFails(t) ==
  /\ work[t] \in {"claimed", "working"}
  /\ Fault
  /\ agentJob' \in {[agentJob EXCEPT ![t] = "READY"], agentJob}
  /\ work' = [work EXCEPT ![t] = "idle"]
  /\ UNCHANGED <<runVars, taskVars, jobVars, advancerVars, inflight>>

\* ... and so does the last one: FAILED is committed, the hook comes after it.
ExhaustTask(t) ==
  /\ agentJob[t] = "LEASED" /\ work[t] \in {"idle", "claimed", "working"}
  /\ Fault
  /\ agentJob' = [agentJob EXCEPT ![t] = "FAILED"]
  /\ work' = [work EXCEPT ![t] = "exhausted"]
  /\ UNCHANGED <<runVars, taskVars, jobVars, advancerVars, inflight>>

\* on_agent_task_exhausted reads the task, works, and stores an outcome.
HookBegins(t) ==
  /\ work[t] = "exhausted"
  /\ work' = [work EXCEPT ![t] = IF task[t] \in ActiveTask THEN "degrading" ELSE "idle"]
  /\ UNCHANGED <<runVars, taskVars, jobVars, agentJob, advancerVars, inflight, faults>>

HookStores(t) ==
  /\ work[t] = "degrading"
  /\ StoreOutcome(t)
  /\ work' = [work EXCEPT ![t] = "idle"]
  /\ UNCHANGED <<runVars, validates, owner, agentJob, advancerVars, inflight, faults>>

\* The process dies before the hook is done, or its exception is swallowed.
HookLost(t) ==
  /\ HooksMayFail
  /\ work[t] \in {"exhausted", "degrading"}
  /\ work' = [work EXCEPT ![t] = "idle"]
  /\ UNCHANGED <<runVars, taskVars, jobVars, agentJob, advancerVars, inflight, faults>>

-----------------------------------------------------------------------------
(* Deadline, user and reconciler *)

DeadlinePasses ==
  /\ Deadline /\ ~overdue
  /\ overdue' = TRUE
  /\ UNCHANGED <<run, replanned, rec, closings, taskVars, jobVars, agentJob,
                 advancerVars, inflight, work, faults>>

Cancel ==
  /\ run \in ActiveRun \cup {"AWAITING_REVIEW"}
  /\ run' = "CANCELLED"
  /\ task' = Stopped
  /\ agentJob' = [t \in Tasks |->
                    IF agentJob[t] = "READY" THEN "CANCELLED" ELSE agentJob[t]]
  /\ rec' = IF rec = "open" THEN "SUPERSEDED" ELSE rec
  /\ UNCHANGED <<overdue, replanned, closings, result, plan, validates, jobVars,
                 advancerVars, inflight, work, faults>>

\* Rejection, application, expiry or a newer analysis settles the proposal.
Review ==
  /\ rec = "open"
  /\ rec' = "settled"
  /\ UNCHANGED <<run, overdue, replanned, closings, taskVars, jobVars, agentJob,
                 advancerVars, inflight, work, faults>>

\* _runs_with_runnable_jobs
Busy ==
  \/ \E k \in Keys : advance[k] \in OpenJob
  \/ \E t \in Tasks : agentJob[t] \in OpenJob \/ task[t] = "RUNNING"

NeverStalled == FALSE

StalledUnlessBusy == run \in ActiveRun /\ ~Busy

\* Quiet (RUN_STALL_GRACE is over) and idle, or past the deadline.
Stalled == run \in ActiveRun /\ (overdue \/ ~Busy)

\* advance_stalled_runs: a key per minute, so a closed job does not block it.
Reconcile ==
  /\ Stalled
  /\ advance["reconcile"] \notin OpenJob
  /\ advance' = [advance EXCEPT !["reconcile"] = "READY"]
  /\ UNCHANGED <<runVars, taskVars, owner, agentJob, advancerVars, inflight, work, faults>>

-----------------------------------------------------------------------------
Decide(a) ==
  DecideNothing(a) \/ DecideDispatch(a) \/ Finalize(a) \/ FinalizeDeadline(a)

Submit(a) ==
  SubmitKnown(a) \/ SubmitNew(a) \/ SubmitRejected(a)

ExecuteTask(t) ==
  ClaimTask(t) \/ SkipTask(t) \/ BeginTask(t) \/ CompleteTask(t)

Hook(t) == HookBegins(t) \/ HookStores(t)

Next ==
  \/ \E a \in Advancers :
       \/ \E k \in Keys : Take(a, k)
       \/ Decide(a) \/ Submit(a) \/ Finish(a)
       \/ SubmitFails(a) \/ CrashAdvancer(a)
  \/ \E k \in Keys : GiveUpAdvance(k)
  \/ \E e \in inflight : InsertTask(e) \/ InsertFails(e)
  \/ \E t \in Tasks :
       ExecuteTask(t) \/ AttemptFails(t) \/ ExhaustTask(t) \/ Hook(t) \/ HookLost(t)
  \/ DeadlinePasses \/ Cancel \/ Review \/ Reconcile

Spec == Init /\ [][Next]_vars

\* Workers poll, the API answers, agents and hooks end (their calls time out)
\* and the reconciler runs every 15 s.  Nothing is assumed of the deadline,
\* the user, or of faults, of which there are at most MaxFaults.
Fairness ==
  /\ WF_vars(\E a \in Advancers, k \in Keys : Take(a, k) /\ UNCHANGED faults)
  /\ WF_vars(\E a \in Advancers : Decide(a) \/ Submit(a) \/ Finish(a))
  /\ WF_vars(\E e \in inflight : InsertTask(e))
  /\ WF_vars(\E t \in Tasks : ExecuteTask(t) \/ Hook(t))
  /\ WF_vars(Reconcile)

FairSpec == Spec /\ Fairness
-----------------------------------------------------------------------------
(* Properties *)

Present(t) == ~Missing(t)

(***************************************************************************)
(* The graph is respected by every interleaving of deliveries and delayed  *)
(* requests: planning starts on terminal material and line assessments, it *)
(* is revised only for a shortage of the finished first plan, and rm1      *)
(* validates the final plan, which commits units.                          *)
(***************************************************************************)
DependencyOrder ==
  /\ Present("planning0") => \A t \in RoundZero : Present(t)
  /\ Present("planning0") => Terminal("rm0") /\ Terminal("ie0")
  /\ Present("planning1") => Terminal("planning0") /\ NeedsReplan /\ replanned
  /\ Present("rm1") =>
       /\ validates = FinalPlan
       /\ Terminal(FinalPlan) /\ AllocatesUnits(FinalPlan)

Pending == inflight \cup UNION {{todo[a][i] : i \in DOMAIN todo[a]} : a \in Advancers}

(***************************************************************************)
(* Deliveries that decided at different times never disagree on what a     *)
(* task is for: the idempotency key run:recipient:snapshot:round hides no  *)
(* two different envelopes.                                                *)
(***************************************************************************)
DecisionsAgree ==
  \A e, f \in Pending :
    /\ e.task = f.task => e = f
    /\ e.task = "rm1" /\ Present("rm1") => e.parent = validates

(***************************************************************************)
(* A task's status, its stored result and the wake-up of the run agree:    *)
(* a finished task has the result that finished it, every stored result    *)
(* has enqueued its advance job, and only closing the run cancels a task.  *)
(***************************************************************************)
OutcomesAgree ==
  \A t \in Tasks :
    /\ task[t] = "SUCCEEDED" => Usable(t)
    /\ task[t] = "FAILED" => result[t] = "FAILED"
    /\ task[t] = "CANCELLED" => run \in ClosedRun
    /\ result[t] # "none" => Terminal(t) /\ advance[t] # "ABSENT"

(***************************************************************************)
(* No wake-up is lost: as long as nothing has gone wrong, an active run    *)
(* always has a job that will move it, or the API is about to commit a     *)
(* task it still lacks, whichever of two tasks that finish together is     *)
(* seen by whose delivery, and although a delivery may end before the      *)
(* tasks it dispatched are committed; the reconciler is not needed.        *)
(***************************************************************************)
NoLostWakeup ==
  faults = 0 /\ run \in ActiveRun => Busy \/ \E e \in inflight : Missing(e.task)

(***************************************************************************)
(* A closed run is the outcome of its whole graph: a proposal awaits       *)
(* review only if the final plan commits units and rm1 has looked at it,   *)
(* COMPLETED only if every agent succeeded, and a run is closed once.      *)
(***************************************************************************)
ClosedRunIsComplete ==
  /\ closings = IF run \in ActiveRun \/ (run = "CANCELLED" /\ rec = "none")
                THEN 0 ELSE 1
  /\ run = "AWAITING_REVIEW" => rec \in {"open", "settled"}
  /\ rec = "open" => run = "AWAITING_REVIEW"
  /\ rec # "none" =>
       /\ AllocatesUnits(FinalPlan) /\ Present("rm1")
       /\ \A t \in Tasks : Present(t) => Terminal(t)
  /\ run = "COMPLETED" => \A t \in Tasks : Present(t) => task[t] = "SUCCEEDED"

\* One task of the graph as its contract sees it; a task that is still to be
\* inserted has not begun.
Contract(t) == INSTANCE TaskContract
  WITH status <- IF Missing(t) THEN "PENDING" ELSE task[t],
       result <- result[t],
       woken <- advance[t] # "ABSENT"

(***************************************************************************)
(* To each task of its graph a run does no more than TaskContract allows,  *)
(* the contract that AgentTask keeps with its attempts, leases and hooks:  *)
(* deliveries, deadline, cancellation and late outcomes included, a task   *)
(* begins once, gets one result, and wakes the run with it.                *)
(***************************************************************************)
TasksKeepContract == \A t \in Tasks : Contract(t)!SafeSpec

Closed == run \in ClosedRun

(***************************************************************************)
(* A closed run never moves again, except that a user may cancel one that  *)
(* awaits review: late deliveries, the deadline and results that arrive    *)
(* after the end change neither its status nor its proposal's origin.      *)
(***************************************************************************)
ClosedStaysClosed ==
  [][Closed =>
       /\ run' # run => run = "AWAITING_REVIEW" /\ run' = "CANCELLED"
       /\ closings' = closings /\ replanned' = replanned
       /\ rec = "none" => rec' = "none"]_vars

\* The job of t failed, and so did its hook: nothing will finish t.
Abandoned(t) == agentJob[t] = "FAILED" /\ task[t] \in ActiveTask /\ work[t] = "idle"

(***************************************************************************)
(* The graph ends by itself: whatever advance jobs crash, lose their lease *)
(* or give up, retries and the reconciler bring the run to its end without *)
(* the deadline - unless a task is abandoned, which nothing else repairs.  *)
(***************************************************************************)
GraphCloses == <>[](Closed \/ \E t \in Tasks : Abandoned(t))

(***************************************************************************)
(* Past its deadline every run is closed, even one with an abandoned task  *)
(* or whose deliveries have all failed.                                    *)
(***************************************************************************)
DeadlineCloses == overdue ~> Closed

(***************************************************************************)
(* on_agent_task_exhausted: "so the run never stalls on an exhausted task" *)
(***************************************************************************)
ExhaustedTaskSettles ==
  \A t \in Tasks : agentJob[t] = "FAILED" ~> Terminal(t)

(***************************************************************************)
(* _finalize_deadline: "stop every open task and close it".                *)
(***************************************************************************)
DeadlineStopsTasks ==
  overdue /\ run \in {"DEGRADED", "FAILED"} => \A t \in Tasks : task[t] \notin ActiveTask

(***************************************************************************)
(* _allocates_units: the plan's "materials must be validated before a      *)
(* human is asked to approve it".                                          *)
(***************************************************************************)
ProposalIsValidated == rec = "open" => Usable("rm1")
=============================================================================
