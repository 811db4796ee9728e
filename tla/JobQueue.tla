------------------------------ MODULE JobQueue ------------------------------
(***************************************************************************)
(* The durable PostgreSQL job queue (app/jobs/queue.py) and the worker      *)
(* slots that drain it (app/jobs/worker.py).                                *)
(*                                                                          *)
(* A job row is leased under a fresh token; heartbeat, complete and fail    *)
(* are fenced by the token and by status LEASED.  A lease may expire while  *)
(* its worker is alive, so several workers can hold the same job at once    *)
(* and only the newest token may change the row.  Each action below is one  *)
(* database transaction or one step of a worker slot between transactions.  *)
(* Time is reduced to two facts the environment may make true: a lease has  *)
(* run out (expired) and a backoff is over (due).                           *)
(***************************************************************************)
EXTENDS Integers

CONSTANTS Jobs,          \* job rows, one per dedupe key
          Workers,       \* worker slots (Worker._slot)
          Unregistered,  \* jobs whose job_type has no handler
          MaxAttempts,   \* jobs.max_attempts
          NoJob          \* a slot that holds no job

ASSUME JobsAssumption ==
  /\ MaxAttempts \in Nat \ {0}
  /\ Unregistered \subseteq Jobs
  /\ NoJob \notin Jobs

\* A token no claim ever issues: the column is NULL.
NoToken == 0

VARIABLES
  \* the jobs table
  status,     \* ABSENT before the row is inserted
  attempt,
  token,      \* lease_token
  expired,    \* leased_until < now()
  due,        \* available_at <= now()
  issued,     \* how many tokens claims have drawn for the job (uuid4 is fresh)
  \* the worker slots
  life,       \* the process of the slot: up, stopping (stop_event set), down
  pc,         \* where run_once stands
  cur,        \* ClaimedJob.id
  lease,      \* ClaimedJob.lease_token
  \* history, read by no guard
  starts,     \* attempts handed to a worker
  rejected,   \* a handler failed the job permanently
  effects,    \* tokens under which business writes were committed
  hooks       \* how often on_exhausted completed

rowVars == <<status, attempt, token, expired, due, issued>>
slotVars == <<life, pc, cur, lease>>
history == <<starts, rejected, effects, hooks>>
vars == <<status, attempt, token, expired, due, issued,
          life, pc, cur, lease, starts, rejected, effects, hooks>>

Statuses == {"ABSENT", "READY", "LEASED", "DONE", "FAILED", "CANCELLED"}
Terminal == {"DONE", "FAILED", "CANCELLED"}

InHandler == {"running", "postcommit"}
Failing == {"failRetryable", "failPermanent"}
InHook == {"hookInClaim", "hookInFail"}
Holding == InHandler \cup Failing \cup InHook \cup {"returned"}
Points == Holding \cup {"idle", "claiming"}

TypeOK ==
  /\ status \in [Jobs -> Statuses]
  /\ attempt \in [Jobs -> 0..MaxAttempts]
  /\ token \in [Jobs -> Nat]
  /\ expired \in [Jobs -> BOOLEAN]
  /\ due \in [Jobs -> BOOLEAN]
  /\ issued \in [Jobs -> Nat]
  /\ life \in [Workers -> {"up", "stopping", "down"}]
  /\ pc \in [Workers -> Points]
  /\ cur \in [Workers -> Jobs \cup {NoJob}]
  /\ lease \in [Workers -> Nat]
  /\ starts \in [Jobs -> Nat]
  /\ rejected \in [Jobs -> BOOLEAN]
  /\ effects \in [Jobs -> SUBSET Nat]
  /\ hooks \in [Jobs -> Nat]

Init ==
  /\ status = [j \in Jobs |-> "ABSENT"]
  /\ attempt = [j \in Jobs |-> 0]
  /\ token = [j \in Jobs |-> NoToken]
  /\ expired = [j \in Jobs |-> FALSE]
  /\ due = [j \in Jobs |-> FALSE]
  /\ issued = [j \in Jobs |-> 0]
  /\ life = [w \in Workers |-> "up"]
  /\ pc = [w \in Workers |-> "idle"]
  /\ cur = [w \in Workers |-> NoJob]
  /\ lease = [w \in Workers |-> NoToken]
  /\ starts = [j \in Jobs |-> 0]
  /\ rejected = [j \in Jobs |-> FALSE]
  /\ effects = [j \in Jobs |-> {}]
  /\ hooks = [j \in Jobs |-> 0]

-----------------------------------------------------------------------------
(* Shared pieces of the statements.  Each is preceded by the slips of it     *)
(* that the runs must notice.                                               *)

FenceWithoutToken(j, t) == status[j] = "LEASED"

\* The WHERE clause of every fenced update; the lease's expiry is not in it.
Fence(j, t) == token[j] = t /\ status[j] = "LEASED"

Owns(w) == Fence(cur[w], lease[w])

DoneByUs(w) == status[cur[w]] = "DONE" /\ token[cur[w]] = lease[w]

RunnableWithLiveLease(j) == (status[j] = "READY" /\ due[j]) \/ status[j] = "LEASED"
RunnableNeverReclaimed(j) == status[j] = "READY" /\ due[j]

\* What the claim statement selects.
Runnable(j) ==
  \/ status[j] = "READY" /\ due[j]
  \/ status[j] = "LEASED" /\ expired[j]

OneAttemptTooMany(j) == attempt[j] <= MaxAttempts

HasAttemptLeft(j) == attempt[j] + 1 <= MaxAttempts

\* uuid4: never drawn before.
FreshToken(j) == issued[j] + 1

NeverRetry(w) == FALSE

\* retryable and job.attempt < job.max_attempts
WillRetry(w) == pc[w] = "failRetryable" /\ attempt[cur[w]] < MaxAttempts

Move(w, to) == pc' = [pc EXCEPT ![w] = to]

\* The slot lets go of its job and goes on at `to`; the row is not touched.
LetGo(w, to) ==
  /\ Move(w, to)
  /\ cur' = [cur EXCEPT ![w] = NoJob]
  /\ lease' = [lease EXCEPT ![w] = NoToken]

-----------------------------------------------------------------------------
(* The table: enqueue, cancellation and the passing of time *)

\* INSERT ... ON CONFLICT (dedupe_key) DO NOTHING: a second enqueue of the
\* same key leaves the row as it is, whatever its status.
Enqueue(j) ==
  /\ status[j] = "ABSENT"
  /\ status' = [status EXCEPT ![j] = "READY"]
  /\ due' \in {[due EXCEPT ![j] = TRUE], due}
  /\ UNCHANGED <<attempt, token, expired, issued, slotVars, history>>

\* cancel_run takes READY jobs only; a leased one is left to its worker.
CancelReady(j) ==
  /\ status[j] = "READY"
  /\ status' = [status EXCEPT ![j] = "CANCELLED"]
  /\ UNCHANGED <<attempt, token, expired, due, issued, slotVars, history>>

BecomeDue(j) ==
  /\ status[j] = "READY" /\ ~due[j]
  /\ due' = [due EXCEPT ![j] = TRUE]
  /\ UNCHANGED <<status, attempt, token, expired, issued, slotVars, history>>

LeaseExpires(j) ==
  /\ status[j] = "LEASED" /\ ~expired[j]
  /\ expired' = [expired EXCEPT ![j] = TRUE]
  /\ UNCHANGED <<status, attempt, token, due, issued, slotVars, history>>

-----------------------------------------------------------------------------
(* Claiming *)

\* The stop event is read before run_once, not inside claim.
Poll(w) ==
  /\ life[w] = "up" /\ pc[w] = "idle"
  /\ Move(w, "claiming")
  /\ UNCHANGED <<rowVars, life, cur, lease, history>>

\* Nothing is runnable, or what is runnable is locked by another transaction
\* (SKIP LOCKED): the slot waits for the next poll.
ClaimNothing(w) ==
  /\ pc[w] = "claiming"
  /\ Move(w, "idle")
  /\ UNCHANGED <<rowVars, life, cur, lease, history>>

\* An attempt is left: the slot gets the job under a fresh token.  _process
\* fails a job of an unregistered type at once, before any handler runs.
Claim(w, j) ==
  /\ pc[w] = "claiming"
  /\ Runnable(j)
  /\ HasAttemptLeft(j)
  /\ status' = [status EXCEPT ![j] = "LEASED"]
  /\ attempt' = [attempt EXCEPT ![j] = @ + 1]
  /\ issued' = [issued EXCEPT ![j] = @ + 1]
  /\ token' = [token EXCEPT ![j] = FreshToken(j)]
  /\ expired' = [expired EXCEPT ![j] = FALSE]
  /\ Move(w, IF j \in Unregistered THEN "failPermanent" ELSE "running")
  /\ cur' = [cur EXCEPT ![w] = j]
  /\ lease' = [lease EXCEPT ![w] = FreshToken(j)]
  /\ starts' = [starts EXCEPT ![j] = @ + 1]
  /\ UNCHANGED <<due, life, rejected, effects, hooks>>

\* No attempt is left: the same transaction marks the job FAILED, and the
\* hook runs after the commit.
ClaimExhausted(w, j) ==
  /\ pc[w] = "claiming"
  /\ Runnable(j)
  /\ ~HasAttemptLeft(j)
  /\ status' = [status EXCEPT ![j] = "FAILED"]
  /\ attempt' = [attempt EXCEPT ![j] = MaxAttempts]
  /\ issued' = [issued EXCEPT ![j] = @ + 1]
  /\ token' = [token EXCEPT ![j] = NoToken]
  /\ expired' = [expired EXCEPT ![j] = FALSE]
  /\ Move(w, "hookInClaim")
  /\ cur' = [cur EXCEPT ![w] = j]
  /\ lease' = [lease EXCEPT ![w] = FreshToken(j)]
  /\ UNCHANGED <<due, life, history>>

-----------------------------------------------------------------------------
(* The handler and the heartbeat that runs beside it *)

Heartbeat(w) ==
  /\ pc[w] \in InHandler
  /\ Owns(w)
  /\ expired' = [expired EXCEPT ![cur[w]] = FALSE]
  /\ UNCHANGED <<status, attempt, token, due, issued, slotVars, history>>

\* A fenced-out heartbeat cancels the handler unless the handler itself has
\* committed the completion.
HeartbeatFencedOut(w) ==
  /\ pc[w] \in InHandler
  /\ ~Owns(w) /\ ~DoneByUs(w)
  /\ LetGo(w, "idle")
  /\ UNCHANGED <<rowVars, life, history>>

\* The handler's last transaction: business writes and completion together.
FinishInTransaction(w) ==
  /\ pc[w] = "running"
  /\ Owns(w)
  /\ status' = [status EXCEPT ![cur[w]] = "DONE"]
  /\ expired' = [expired EXCEPT ![cur[w]] = FALSE]
  /\ effects' = [effects EXCEPT ![cur[w]] = @ \cup {lease[w]}]
  /\ Move(w, "postcommit")
  /\ UNCHANGED <<attempt, token, due, issued, life, cur, lease, starts, rejected, hooks>>

\* LeaseLostError: the transaction rolls back and the worker walks away.
FinishFencedOut(w) ==
  /\ pc[w] = "running"
  /\ ~Owns(w)
  /\ LetGo(w, "idle")
  /\ UNCHANGED <<rowVars, life, history>>

HandlerReturns(w) ==
  /\ pc[w] \in InHandler
  /\ Move(w, "returned")
  /\ UNCHANGED <<rowVars, life, cur, lease, history>>

\* PermanentJobError, or any other exception (CancelledError included).
HandlerRaises(w) ==
  /\ pc[w] \in InHandler
  /\ \E how \in Failing : Move(w, how)
  /\ UNCHANGED <<rowVars, life, cur, lease, history>>

-----------------------------------------------------------------------------
(* Recording the outcome *)

\* A handler that did not complete its job is completed by the worker; if
\* the fence refuses, either the handler completed it or the lease is lost.
CompleteAfterHandler(w) ==
  /\ pc[w] = "returned"
  /\ IF Owns(w)
     THEN /\ status' = [status EXCEPT ![cur[w]] = "DONE"]
          /\ expired' = [expired EXCEPT ![cur[w]] = FALSE]
     ELSE UNCHANGED <<status, expired>>
  /\ LetGo(w, "idle")
  /\ UNCHANGED <<attempt, token, due, issued, life, history>>

FailWithRetry(w) ==
  /\ pc[w] \in Failing
  /\ Owns(w) /\ WillRetry(w)
  /\ status' = [status EXCEPT ![cur[w]] = "READY"]
  /\ token' = [token EXCEPT ![cur[w]] = NoToken]
  /\ expired' = [expired EXCEPT ![cur[w]] = FALSE]
  /\ due' = [due EXCEPT ![cur[w]] = FALSE]
  /\ LetGo(w, "idle")
  /\ UNCHANGED <<attempt, issued, life, history>>

FailForGood(w) ==
  /\ pc[w] \in Failing
  /\ Owns(w) /\ ~WillRetry(w)
  /\ status' = [status EXCEPT ![cur[w]] = "FAILED"]
  /\ token' = [token EXCEPT ![cur[w]] = NoToken]
  /\ expired' = [expired EXCEPT ![cur[w]] = FALSE]
  /\ rejected' = [rejected EXCEPT ![cur[w]] = @ \/ pc[w] = "failPermanent"]
  /\ Move(w, "hookInFail")
  /\ UNCHANGED <<attempt, due, issued, life, cur, lease, starts, effects, hooks>>

HookAlthoughFencedOut(w) ==
  /\ pc[w] \in Failing
  /\ ~Owns(w)
  /\ Move(w, "hookInFail")
  /\ UNCHANGED <<rowVars, life, cur, lease, history>>

\* fail found no row behind the fence: nothing is recorded, no hook runs.
FailFencedOut(w) ==
  /\ pc[w] \in Failing
  /\ ~Owns(w)
  /\ LetGo(w, "idle")
  /\ UNCHANGED <<rowVars, life, history>>

\* on_exhausted after the FAILED row is committed; an exception in it is
\* swallowed.  Inside claim the loop then claims again.
RunExhausted(w) ==
  /\ pc[w] \in InHook
  /\ hooks' \in {hooks, [hooks EXCEPT ![cur[w]] = @ + 1]}
  /\ LetGo(w, IF pc[w] = "hookInClaim" THEN "claiming" ELSE "idle")
  /\ UNCHANGED <<rowVars, life, starts, rejected, effects>>

-----------------------------------------------------------------------------
(* Failures and shutdown *)

\* The database refuses the slot's own transaction: _slot logs and polls on.
LoopError(w) ==
  /\ pc[w] \in Failing \cup {"returned", "claiming"}
  /\ LetGo(w, "idle")
  /\ UNCHANGED <<rowVars, life, history>>

RequestStop(w) ==
  /\ life[w] = "up"
  /\ life' = [life EXCEPT ![w] = "stopping"]
  /\ UNCHANGED <<rowVars, pc, cur, lease, history>>

SlotExits(w) ==
  /\ life[w] = "stopping" /\ pc[w] = "idle"
  /\ life' = [life EXCEPT ![w] = "down"]
  /\ UNCHANGED <<rowVars, pc, cur, lease, history>>

\* The grace period is over, or the process dies: the handler is cut off
\* wherever it stands and its row stays LEASED until the lease runs out.
CutOff(w) ==
  /\ life[w] # "down"
  /\ life' = [life EXCEPT ![w] = "down"]
  /\ LetGo(w, "idle")
  /\ UNCHANGED <<rowVars, history>>

Restart(w) ==
  /\ life[w] = "down"
  /\ life' = [life EXCEPT ![w] = "up"]
  /\ UNCHANGED <<rowVars, pc, cur, lease, history>>

-----------------------------------------------------------------------------
TableStep(j) == Enqueue(j) \/ CancelReady(j) \/ BecomeDue(j) \/ LeaseExpires(j)

ClaimStep(w) ==
  \/ ClaimNothing(w)
  \/ \E j \in Jobs : Claim(w, j) \/ ClaimExhausted(w, j)

HandlerStep(w) ==
  \/ FinishInTransaction(w) \/ FinishFencedOut(w)
  \/ HandlerReturns(w) \/ HandlerRaises(w)

OutcomeStep(w) ==
  \/ CompleteAfterHandler(w) \/ FailWithRetry(w) \/ FailForGood(w)
  \/ FailFencedOut(w) \/ RunExhausted(w)

ProcessStep(w) ==
  LoopError(w) \/ RequestStop(w) \/ SlotExits(w) \/ CutOff(w) \/ Restart(w)

Next ==
  \/ \E j \in Jobs : TableStep(j)
  \/ \E w \in Workers :
       \/ Poll(w) \/ ClaimStep(w)
       \/ Heartbeat(w) \/ HeartbeatFencedOut(w)
       \/ HandlerStep(w) \/ OutcomeStep(w) \/ ProcessStep(w)

\* No slot that is still running holds the row's lease.
Orphaned(j) == \A w \in Workers : ~(pc[w] \in Holding /\ cur[w] = j /\ Owns(w))

\* Handlers end (their database and model calls time out), the process
\* manager restarts a dead worker and not every process dies before its first
\* poll (crashes are otherwise unlimited), backoffs and unattended leases run out,
\* and claims are granted oldest first, so a job that is runnable again and
\* again is claimed (or failed) in the end.
Fairness ==
  /\ \A w \in Workers :
       /\ SF_vars(Poll(w)) /\ WF_vars(ClaimStep(w))
       /\ WF_vars(HandlerStep(w)) /\ WF_vars(OutcomeStep(w))
       /\ WF_vars(SlotExits(w)) /\ WF_vars(Restart(w))
  /\ \A j \in Jobs :
       /\ WF_vars(BecomeDue(j))
       /\ WF_vars(LeaseExpires(j) /\ Orphaned(j))
       /\ SF_vars(\E w \in Workers : Claim(w, j) \/ ClaimExhausted(w, j))

Spec == Init /\ [][Next]_vars
FairSpec == Spec /\ Fairness
-----------------------------------------------------------------------------
(* Properties *)

(***************************************************************************)
(* A job's business writes are committed under at most one lease, and that  *)
(* lease is the one the DONE row records (queue.complete keeps the token);  *)
(* a job that is retried, failed or cancelled has committed nothing.        *)
(***************************************************************************)
EffectsAreFenced ==
  \A j \in Jobs :
    /\ effects[j] # {} => status[j] = "DONE" /\ effects[j] = {token[j]}
    /\ hooks[j] > 0 => effects[j] = {}

\* The slot is about to run on_exhausted for j.
AtHook(w, j) == pc[w] \in InHook /\ cur[w] = j

(***************************************************************************)
(* on_exhausted completes at most once for a job, only for a FAILED one,    *)
(* and never while another slot is about to run it as well, although both   *)
(* a reclaiming slot and a failing slot may find the last attempt used up.  *)
(***************************************************************************)
HookRunsOnce ==
  \A j \in Jobs :
    /\ hooks[j] <= 1
    /\ hooks[j] > 0 => status[j] = "FAILED"
    /\ \A w \in Workers : AtHook(w, j) =>
         /\ status[j] = "FAILED" /\ hooks[j] = 0
         /\ \A v \in Workers : AtHook(v, j) => v = w

(***************************************************************************)
(* The same job may run in several slots, but every slot holds a token of   *)
(* its own and no token of the row is newer than the last one drawn: at     *)
(* most one of them passes the fence.                                       *)
(***************************************************************************)
OneOwner ==
  /\ \A v, w \in Workers :
       v # w /\ pc[v] \in Holding /\ pc[w] \in Holding /\ cur[v] = cur[w]
         => lease[v] # lease[w]
  /\ \A w \in Workers : pc[w] \in Holding => lease[w] <= issued[cur[w]]
  /\ \A j \in Jobs : token[j] <= issued[j]

(***************************************************************************)
(* DONE, FAILED and CANCELLED are final: a late heartbeat, fail, completion *)
(* or a second enqueue under the same dedupe key never revives the row.     *)
(***************************************************************************)
SettledIsFinal ==
  [][\A j \in Jobs : status[j] \in Terminal => status'[j] = status[j]]_vars

(***************************************************************************)
(* While a lease has not run out, only the slot that holds it changes the   *)
(* status or the token of the row: a stale worker whose job was reclaimed   *)
(* can neither fail, complete nor release the job of its successor.         *)
(***************************************************************************)
LiveLeaseRespected ==
  [][\A j \in Jobs :
       /\ status[j] = "LEASED" /\ ~expired[j]
       /\ <<status'[j], token'[j]>> # <<status[j], token[j]>>
       => \E w \in Workers :
            /\ cur[w] = j /\ lease[w] = token[j]
            /\ pc'[w] # pc[w]]_vars

\* What a caller sees of the row's status, and of the handler's writes.
Phase(j) ==
  CASE status[j] = "ABSENT" -> "absent"
    [] status[j] \in {"READY", "LEASED"} -> "open"
    [] status[j] = "DONE" -> "done"
    [] status[j] = "FAILED" -> "failed"
    [] status[j] = "CANCELLED" -> "cancelled"

Applied(j) == effects[j] # {}

Contract ==
  INSTANCE JobContract WITH
    phase <- [j \in Jobs |-> Phase(j)],
    tries <- starts,
    applied <- [j \in Jobs |-> Applied(j)]

(***************************************************************************)
(* Refinement: whatever crashes, expired leases, zombies and shutdowns do,  *)
(* callers see a job that is tried at most max_attempts times, is given up  *)
(* only when the attempts are used up or the handler rejected it, and       *)
(* settles once.                                                            *)
(***************************************************************************)
KeepsContract == Contract!SafeSpec

(***************************************************************************)
(* Every enqueued job settles, although workers crash and restart, leases   *)
(* run out and the last attempt may be lost (claim then fails the job).     *)
(***************************************************************************)
EveryJobSettles == Contract!Progress
=============================================================================
