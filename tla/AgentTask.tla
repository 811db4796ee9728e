------------------------------ MODULE AgentTask ------------------------------
(***************************************************************************)
(* One agent task in detail: its agent.execute job (app/jobs/queue.py) and *)
(* the workers that run it (app/orchestration/executor.py), several at a   *)
(* time when a lease runs out while its worker is alive.                   *)
(*                                                                         *)
(* The outcome is stored in one transaction with the fenced completion of  *)
(* the job.  The RUNNING mark and the record of a retryable error are      *)
(* transactions of their own and not fenced.  The exhaustion hook runs     *)
(* after the job is FAILED.  RunOrchestration takes tasks as TaskContract  *)
(* promises them; this module shows the executor keeps that promise.       *)
(***************************************************************************)
EXTENDS Integers

CONSTANTS Workers,
          MaxAttempts    \* jobs.max_attempts of agent.execute

ASSUME TaskAssumption == MaxAttempts \in Nat \ {0}

VARIABLES
  run,        \* open, ended (deadline) or CANCELLED
  status,     \* agent_tasks.status
  outage,     \* the attempt whose PROVIDER_UNAVAILABLE error_code holds; 0: none
  result,     \* agent_results.status
  source,     \* history: the attempt that stored the result, or Hook
  woken,      \* the advance job of the task was enqueued
  \* the job
  job, attempt,
  token,      \* the attempt whose lease_token the row carries; 0: NULL
  expired,
  \* the workers
  pc,
  lease,      \* the attempt a worker was given
  said,       \* its last error names PROVIDER_UNAVAILABLE
  verdict     \* what the hook has worked out

taskVars == <<run, status, outage, result, source, woken>>
jobVars == <<job, attempt, token, expired>>
workerVars == <<pc, lease, said, verdict>>
vars == <<run, status, outage, result, source, woken, job, attempt, token, expired,
          pc, lease, said, verdict>>

Hook == MaxAttempts + 1
ActiveTask == {"PENDING", "RUNNING"}
ResultStatuses == {"SUCCEEDED", "DEGRADED", "FAILED"}
Attempting == {"claimed", "loaded", "working", "outage", "failing", "answered"}

TypeOK ==
  /\ run \in {"open", "ended", "CANCELLED"}
  /\ status \in ActiveTask \cup {"SUCCEEDED", "FAILED", "CANCELLED"}
  /\ outage \in 0..MaxAttempts
  /\ result \in {"none"} \cup ResultStatuses
  /\ source \in 0..Hook
  /\ woken \in BOOLEAN
  /\ job \in {"READY", "LEASED", "DONE", "FAILED", "CANCELLED"}
  /\ attempt \in 0..MaxAttempts /\ token \in 0..MaxAttempts
  /\ expired \in BOOLEAN
  /\ pc \in [Workers -> {"idle", "hook", "storing"} \cup Attempting]
  /\ lease \in [Workers -> 0..MaxAttempts]
  /\ said \in [Workers -> BOOLEAN]
  /\ verdict \in [Workers -> {"none", "DEGRADED", "FAILED"}]

\* The API has just inserted the task and its job.
Init ==
  /\ run = "open" /\ status = "PENDING" /\ outage = 0
  /\ result = "none" /\ source = 0 /\ woken = FALSE
  /\ job = "READY" /\ attempt = 0 /\ token = 0 /\ expired = FALSE
  /\ pc = [w \in Workers |-> "idle"]
  /\ lease = [w \in Workers |-> 0]
  /\ said = [w \in Workers |-> FALSE]
  /\ verdict = [w \in Workers |-> "none"]

AnyLeaseOwns(w) == job = "LEASED"

Owns(w) == job = "LEASED" /\ token = lease[w]

RunnableNeverReclaimed == job = "READY"

Runnable == job = "READY" \/ (job = "LEASED" /\ expired)

OneAttemptTooMany == attempt <= MaxAttempts

AttemptLeft == attempt < MaxAttempts

Goto(w, to) == pc' = [pc EXCEPT ![w] = to]

Idle(w) ==
  /\ Goto(w, "idle")
  /\ lease' = [lease EXCEPT ![w] = 0]
  /\ said' = [said EXCEPT ![w] = FALSE]
  /\ verdict' = [verdict EXCEPT ![w] = "none"]

-----------------------------------------------------------------------------
(* The job *)

LeaseExpires ==
  /\ job = "LEASED" /\ ~expired
  /\ expired' = TRUE
  /\ UNCHANGED <<taskVars, job, attempt, token, workerVars>>

Claim(w) ==
  /\ pc[w] = "idle" /\ Runnable
  /\ AttemptLeft
  /\ job' = "LEASED" /\ attempt' = attempt + 1 /\ token' = attempt + 1
  /\ expired' = FALSE
  /\ Goto(w, "claimed")
  /\ lease' = [lease EXCEPT ![w] = attempt + 1]
  /\ UNCHANGED <<taskVars, said, verdict>>

\* The attempts ended with a lost lease: FAILED, and the hook after the commit.
ClaimExhausted(w) ==
  /\ pc[w] = "idle" /\ Runnable
  /\ ~AttemptLeft
  /\ job' = "FAILED" /\ token' = 0 /\ expired' = FALSE
  /\ Goto(w, "hook")
  /\ lease' = [lease EXCEPT ![w] = attempt]
  /\ UNCHANGED <<taskVars, attempt, said, verdict>>

-----------------------------------------------------------------------------
(* execute_agent_task *)

\* The task is read; a finished task or a cancelled run only ends the job.
Load(w) ==
  /\ pc[w] = "claimed"
  /\ run # "CANCELLED" /\ status \in ActiveTask
  /\ Goto(w, "loaded")
  /\ UNCHANGED <<taskVars, jobVars, lease, said, verdict>>

Skip(w) ==
  /\ pc[w] = "claimed"
  /\ run = "CANCELLED" \/ status \notin ActiveTask
  /\ IF Owns(w) THEN job' = "DONE" /\ expired' = FALSE ELSE UNCHANGED <<job, expired>>
  /\ Idle(w)
  /\ UNCHANGED <<taskVars, attempt, token>>

\* Not fenced: whoever has loaded an active task marks it and clears its error.
MarkRunning(w) ==
  /\ pc[w] = "loaded"
  /\ IF status \in ActiveTask THEN status' = "RUNNING" /\ outage' = 0
                              ELSE UNCHANGED <<status, outage>>
  /\ Goto(w, "working")
  /\ UNCHANGED <<run, result, source, woken, jobVars, lease, said, verdict>>

\* The agent has run outside any transaction: it has a result or an outage to
\* report.
AgentReturns(w) ==
  /\ pc[w] = "working"
  /\ \E to \in {"answered", "outage"} : Goto(w, to)
  /\ UNCHANGED <<taskVars, jobVars, lease, said, verdict>>

\* Any other error, a failing transaction included, fails the attempt.
HandlerRaises(w) ==
  /\ pc[w] \in {"claimed", "loaded", "working", "outage", "answered"}
  /\ Goto(w, "failing")
  /\ UNCHANGED <<taskVars, jobVars, lease, said, verdict>>

StatusIgnored(r) == IF r = "FAILED" THEN "FAILED" ELSE "SUCCEEDED"

\* The status a result gives the task; one that is no longer active keeps its own.
StatusAfter(r) ==
  IF status \in ActiveTask
  THEN IF r = "FAILED" THEN "FAILED" ELSE "SUCCEEDED"
  ELSE status

\* _store_outcome: insert once; an inserted result updates the task (and its
\* error code), and enqueues the advance job.
Store(r, by) ==
  IF result = "none"
  THEN /\ result' = r /\ source' = by /\ woken' = TRUE
       /\ status' = StatusAfter(r)
       /\ outage' = IF status \in ActiveTask THEN 0 ELSE outage
  ELSE UNCHANGED <<result, source, woken, status, outage>>

\* Outcome and completion in one transaction, rolled back behind the fence.
StoreOutcome(w) ==
  /\ pc[w] = "answered"
  /\ Owns(w)
  /\ \E r \in ResultStatuses : Store(r, lease[w])
  /\ job' = "DONE" /\ expired' = FALSE
  /\ Idle(w)
  /\ UNCHANGED <<run, attempt, token>>

StoreFencedOut(w) ==
  /\ pc[w] = "answered"
  /\ ~Owns(w)
  /\ Idle(w)
  /\ UNCHANGED <<taskVars, jobVars>>

\* _record_retryable: not fenced, whatever the task's status.
RecordRetryable(w) ==
  /\ pc[w] = "outage"
  /\ outage' = lease[w]
  /\ said' = [said EXCEPT ![w] = TRUE]
  /\ Goto(w, "failing")
  /\ UNCHANGED <<run, status, result, source, woken, jobVars, lease, verdict>>

FailAttempt(w) ==
  /\ pc[w] = "failing"
  /\ Owns(w)
  /\ token' = 0 /\ expired' = FALSE
  /\ IF AttemptLeft
     THEN job' = "READY" /\ Idle(w)
     ELSE job' = "FAILED" /\ Goto(w, "hook") /\ UNCHANGED <<lease, said, verdict>>
  /\ UNCHANGED <<taskVars, attempt>>

FailFencedOut(w) ==
  /\ pc[w] = "failing"
  /\ ~Owns(w)
  /\ Idle(w)
  /\ UNCHANGED <<taskVars, jobVars>>

\* The heartbeat cancels a handler whose lease is lost.
HeartbeatFencedOut(w) ==
  /\ pc[w] \in {"claimed", "loaded", "working", "outage", "answered"}
  /\ ~Owns(w)
  /\ Idle(w)
  /\ UNCHANGED <<taskVars, jobVars>>

-----------------------------------------------------------------------------
(* on_agent_task_exhausted *)

\* An outage, by the task's error code or the text of the last error,
\* degrades to the deterministic result (which may fail too).
HookDecides(w) ==
  /\ pc[w] = "hook"
  /\ IF status \in ActiveTask
     THEN /\ \E v \in IF outage # 0 \/ said[w] THEN {"DEGRADED", "FAILED"} ELSE {"FAILED"} :
               verdict' = [verdict EXCEPT ![w] = v]
          /\ Goto(w, "storing")
          /\ UNCHANGED <<lease, said>>
     ELSE Idle(w)
  /\ UNCHANGED <<taskVars, jobVars>>

\* The second transaction reads the task again.  A cancellation may still come
\* between that read and the update, which then leaves the status alone.
HookStores(w) ==
  /\ pc[w] = "storing"
  /\ Store(verdict[w], Hook)
  /\ Idle(w)
  /\ UNCHANGED <<run, jobVars>>

HookGivesWay(w) ==
  /\ pc[w] = "storing"
  /\ status \notin ActiveTask
  /\ Idle(w)
  /\ UNCHANGED <<taskVars, jobVars>>

\* The hook raises, which _run_exhausted swallows, or its process dies.
HookLost(w) ==
  /\ pc[w] \in {"hook", "storing"}
  /\ Idle(w)
  /\ UNCHANGED <<taskVars, jobVars>>

Crash(w) ==
  /\ pc[w] \in Attempting
  /\ Idle(w)
  /\ UNCHANGED <<taskVars, jobVars>>

-----------------------------------------------------------------------------
(* The end of the run *)

EndTask == status' = IF status \in ActiveTask THEN "CANCELLED" ELSE status

DeadlineEndsRun ==
  /\ run = "open"
  /\ run' = "ended"
  /\ EndTask
  /\ outage' = IF status \in ActiveTask THEN 0 ELSE outage
  /\ UNCHANGED <<result, source, woken, jobVars, workerVars>>

CancelRun ==
  /\ run = "open"
  /\ run' = "CANCELLED"
  /\ EndTask
  /\ job' = IF job = "READY" THEN "CANCELLED" ELSE job
  /\ UNCHANGED <<outage, result, source, woken, attempt, token, expired, workerVars>>

-----------------------------------------------------------------------------
Execute(w) ==
  \/ Load(w) \/ Skip(w) \/ MarkRunning(w) \/ AgentReturns(w)
  \/ StoreOutcome(w) \/ StoreFencedOut(w) \/ RecordRetryable(w)
  \/ HandlerRaises(w) \/ FailAttempt(w) \/ FailFencedOut(w)

RunHook(w) == HookDecides(w) \/ HookStores(w) \/ HookGivesWay(w)

Next ==
  \/ LeaseExpires \/ DeadlineEndsRun \/ CancelRun
  \/ \E w \in Workers :
       \/ Claim(w) \/ ClaimExhausted(w) \/ Execute(w) \/ RunHook(w)
       \/ HeartbeatFencedOut(w) \/ HookLost(w) \/ Crash(w)

Spec == Init /\ [][Next]_vars

\* Workers poll, handlers and hooks end, and leases run out in time; crashes
\* need no bound because every one of them costs an attempt.
Fairness ==
  /\ WF_vars(LeaseExpires)
  /\ WF_vars(\E w \in Workers : Claim(w) \/ ClaimExhausted(w))
  /\ \A w \in Workers : WF_vars(Execute(w)) /\ WF_vars(RunHook(w))

FairSpec == Spec /\ Fairness
-----------------------------------------------------------------------------
(* Properties *)

(***************************************************************************)
(* The result belongs to the lease that completed the job, or to the hook  *)
(* of the failed one: no stale worker's answer is ever kept, and a job     *)
(* that is still to be run has no result yet.                              *)
(***************************************************************************)
ResultIsFenced ==
  CASE source = 0 -> result = "none"
    [] source = Hook -> job = "FAILED"
    [] OTHER -> job = "DONE" /\ token = source

Promise == INSTANCE TaskContract

(***************************************************************************)
(* Refinement: expired leases, crashes, retries and the hook give the run  *)
(* a task with at most one result, woken exactly with it, and cancelled    *)
(* only by the end of the run.                                             *)
(***************************************************************************)
KeepsTaskContract == Promise!SafeSpec

\* A job FAILED without a hook at work.
Abandoned == job = "FAILED" /\ \A w \in Workers : pc[w] \notin {"hook", "storing"}

(***************************************************************************)
(* Every task settles, whoever crashes, unless its exhaustion hook was     *)
(* lost: nothing else leaves an active task without somebody to finish it. *)
(***************************************************************************)
TaskSettles == status \in ActiveTask ~> (status \notin ActiveTask \/ Abandoned)

(***************************************************************************)
(* _last_error_code: "the task's own error code is cleared at the start of *)
(* every attempt, so it is never stale".                                   *)
(***************************************************************************)
ErrorCodeIsFresh ==
  \A w \in Workers : pc[w] = "hook" /\ status \in ActiveTask /\ outage # 0
                       => outage = attempt
=============================================================================
