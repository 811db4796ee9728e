-------------------------- MODULE AgentTaskProofs --------------------------
(* Proofs about AgentTask for any workers and any number of attempts. *)
EXTENDS AgentTask, TLAPS

(* A worker at an attempt was given a lease; only a failed job has a hook. *)
PlacesAgree ==
  \A w \in Workers :
    /\ pc[w] \in Attempting => lease[w] \in 1..MaxAttempts
    /\ pc[w] \in {"hook", "storing"} => job = "FAILED"
    /\ pc[w] = "storing" => verdict[w] \in {"DEGRADED", "FAILED"}

(* Result, origin and wake-up are there together. *)
ResultHasSource == (result = "none" <=> source = 0) /\ (woken <=> result # "none")

(* The inductive invariant. *)
IInv == TypeOK /\ PlacesAgree /\ ResultHasSource /\ ResultIsFenced

-----------------------------------------------------------------------------
(* Types *)

LEMMA InitTypeOK == Init => TypeOK
<1> SUFFICES ASSUME Init PROVE TypeOK
  OBVIOUS
<1>1. said \in [Workers -> BOOLEAN]
  BY Zenon DEF Init
<1>2. 0 \in 0..MaxAttempts /\ 0 \in 0..Hook
  BY TaskAssumption DEF Hook
<1>3. QED
  BY <1>1, <1>2 DEF Init, TypeOK, ActiveTask, ResultStatuses, Attempting

(* Back to idle: the four variables of the workers keep their types. *)
LEMMA IdleTypes ==
  ASSUME TypeOK, NEW w \in Workers, Idle(w)
  PROVE  /\ pc' \in [Workers -> {"idle", "hook", "storing"} \cup Attempting]
         /\ lease' \in [Workers -> 0..MaxAttempts]
         /\ said' \in [Workers -> BOOLEAN]
         /\ verdict' \in [Workers -> {"none", "DEGRADED", "FAILED"}]
<1>1. said' \in [Workers -> BOOLEAN]
  BY Zenon DEF Idle, TypeOK
<1>2. 0 \in 0..MaxAttempts
  BY TaskAssumption
<1>3. QED
  BY <1>1, <1>2 DEF Idle, Goto, TypeOK

(* What _store_outcome writes has its type. *)
StoreTypes ==
  /\ status' \in ActiveTask \cup {"SUCCEEDED", "FAILED", "CANCELLED"}
  /\ outage' \in 0..MaxAttempts
  /\ result' \in {"none"} \cup ResultStatuses
  /\ source' \in 0..Hook
  /\ woken' \in BOOLEAN

LEMMA StoreIsTyped ==
  ASSUME TypeOK, NEW r \in ResultStatuses, NEW by \in 0..Hook, Store(r, by)
  PROVE StoreTypes
<1>1. StatusAfter(r) \in ActiveTask \cup {"SUCCEEDED", "FAILED", "CANCELLED"}
  BY DEF TypeOK, StatusAfter
<1>2. 0 \in 0..MaxAttempts
  BY TaskAssumption
<1>3. QED
  BY <1>1, <1>2 DEF TypeOK, Store, StoreTypes

LEMMA NextTypeOK == TypeOK /\ PlacesAgree /\ [Next]_vars => TypeOK'
<1> SUFFICES ASSUME TypeOK, PlacesAgree, [Next]_vars PROVE TypeOK'
  OBVIOUS
<1> USE TaskAssumption DEF TypeOK, Attempting, ActiveTask, ResultStatuses,
                           taskVars, jobVars, workerVars, Goto
<1>0. 0 \in 0..MaxAttempts
  OBVIOUS
<1>1. CASE LeaseExpires
  BY <1>1 DEF LeaseExpires
<1>2. CASE DeadlineEndsRun
  BY <1>2 DEF DeadlineEndsRun, EndTask
<1>3. CASE CancelRun
  BY <1>3 DEF CancelRun, EndTask
<1>4. ASSUME NEW w \in Workers, Claim(w) PROVE TypeOK'
  <2>1. attempt + 1 \in 0..MaxAttempts
    BY <1>4 DEF Claim, AttemptLeft
  <2>2. QED
    BY <1>4, <2>1 DEF Claim
<1>5. ASSUME NEW w \in Workers, ClaimExhausted(w) PROVE TypeOK'
  <2>1. token' \in 0..MaxAttempts
    BY <1>5, <1>0 DEF ClaimExhausted
  <2>2. lease' \in [Workers -> 0..MaxAttempts]
    BY <1>5 DEF ClaimExhausted
  <2>3. QED
    BY <1>5, <2>1, <2>2 DEF ClaimExhausted
<1>6. ASSUME NEW w \in Workers,
             Load(w) \/ Skip(w) \/ MarkRunning(w) \/ AgentReturns(w) \/ HandlerRaises(w)
      PROVE TypeOK'
  <2>1. CASE Load(w)
    BY <2>1 DEF Load
  <2>2. CASE Skip(w)
    BY ZenonT(40), <2>2, IdleTypes DEF Skip
  <2>3. CASE MarkRunning(w)
    BY <2>3 DEF MarkRunning
  <2>4. CASE AgentReturns(w)
    BY <2>4 DEF AgentReturns
  <2>5. CASE HandlerRaises(w)
    BY <2>5 DEF HandlerRaises
  <2>6. QED
    BY <1>6, <2>1, <2>2, <2>3, <2>4, <2>5
<1>7. ASSUME NEW w \in Workers, StoreOutcome(w) PROVE TypeOK'
  <2>1. PICK r \in ResultStatuses : Store(r, lease[w])
    BY <1>7 DEF StoreOutcome
  <2>2. lease[w] \in 0..Hook
    BY DEF Hook
  <2>3. QED
    <3>1. StoreTypes
      BY <2>1, <2>2, StoreIsTyped
    <3>2. Idle(w) /\ job' = "DONE" /\ expired' = FALSE /\ UNCHANGED <<run, attempt, token>>
      BY <1>7 DEF StoreOutcome
    <3>3. QED
      BY <3>1, <3>2, IdleTypes DEF StoreTypes
<1>8. ASSUME NEW w \in Workers,
             RecordRetryable(w) \/ FailAttempt(w)
      PROVE TypeOK'
  <2>1. CASE RecordRetryable(w)
    BY <2>1 DEF RecordRetryable
  <2>2. CASE FailAttempt(w)
    <3>1. CASE AttemptLeft
      BY <1>0, <2>2, <3>1, IdleTypes DEF FailAttempt
    <3>2. CASE ~AttemptLeft
      BY <1>0, <2>2, <3>2 DEF FailAttempt
    <3>3. QED
      BY <3>1, <3>2
  <2>3. QED
    BY <1>8, <2>1, <2>2
<1>9. ASSUME NEW w \in Workers,
             \/ StoreFencedOut(w) \/ FailFencedOut(w) \/ HeartbeatFencedOut(w)
             \/ HookGivesWay(w) \/ HookLost(w) \/ Crash(w)
      PROVE TypeOK'
  BY <1>9, IdleTypes DEF StoreFencedOut, FailFencedOut, HeartbeatFencedOut, HookGivesWay,
       HookLost, Crash
<1>10. ASSUME NEW w \in Workers, HookDecides(w) PROVE TypeOK'
  <2>1. CASE status \in ActiveTask
    BY <1>10, <2>1 DEF HookDecides
  <2>2. CASE status \notin ActiveTask
    BY <1>10, <2>2, IdleTypes DEF HookDecides
  <2>3. QED
    BY <2>1, <2>2
<1>11. ASSUME NEW w \in Workers, HookStores(w) PROVE TypeOK'
  <2>1. verdict[w] \in ResultStatuses
    BY <1>11 DEF HookStores, PlacesAgree
  <2>2. Hook \in 0..Hook
    BY DEF Hook
  <2>3. QED
    <3>1. StoreTypes
      BY <1>11, <2>1, <2>2, StoreIsTyped DEF HookStores
    <3>2. Idle(w) /\ UNCHANGED <<run, jobVars>>
      BY <1>11 DEF HookStores
    <3>3. QED
      BY <3>1, <3>2, IdleTypes DEF StoreTypes
<1>12. CASE UNCHANGED vars
  BY <1>12 DEF vars
<1>13. QED
  BY <1>1, <1>2, <1>3, <1>4, <1>5, <1>6, <1>7, <1>8, <1>9, <1>10, <1>11, <1>12
     DEF Next, Execute, RunHook

-----------------------------------------------------------------------------
(* Where the workers stand *)

(* Nothing claims, completes or fails a FAILED job again. *)
LEMMA FailedStays ==
  ASSUME TypeOK, [Next]_vars, job = "FAILED" PROVE job' = "FAILED"
  BY DEF Next, Execute, RunHook, vars, taskVars, jobVars, workerVars, LeaseExpires,
         DeadlineEndsRun, CancelRun, Claim, ClaimExhausted, Runnable, Load, Skip, Owns,
         MarkRunning, AgentReturns, HandlerRaises, StoreOutcome, StoreFencedOut,
         RecordRetryable, FailAttempt, FailFencedOut, HeartbeatFencedOut, HookDecides,
         HookStores, HookGivesWay, HookLost, Crash

LEMMA NextPlacesAgree == TypeOK /\ PlacesAgree /\ [Next]_vars => PlacesAgree'
<1> SUFFICES ASSUME TypeOK, PlacesAgree, [Next]_vars PROVE PlacesAgree'
  OBVIOUS
<1> USE DEF TypeOK, PlacesAgree, Attempting, taskVars, jobVars, workerVars, Goto, Idle
<1>1. CASE LeaseExpires \/ DeadlineEndsRun \/ CancelRun \/ UNCHANGED vars
  BY <1>1 DEF LeaseExpires, DeadlineEndsRun, CancelRun, vars
<1>2. ASSUME NEW w \in Workers, Claim(w) PROVE PlacesAgree'
  <2>1. attempt + 1 \in 1..MaxAttempts
    BY <1>2, TaskAssumption DEF Claim, AttemptLeft
  <2>2. job # "FAILED"
    BY <1>2 DEF Claim, Runnable
  <2>3. QED
    BY <1>2, <2>1, <2>2 DEF Claim
<1>3. ASSUME NEW w \in Workers, ClaimExhausted(w) PROVE PlacesAgree'
  BY <1>3 DEF ClaimExhausted
<1>4. ASSUME NEW w \in Workers,
             Load(w) \/ MarkRunning(w) \/ AgentReturns(w) \/ HandlerRaises(w)
      PROVE PlacesAgree'
  BY <1>4 DEF Load, MarkRunning, AgentReturns, HandlerRaises
<1>5. ASSUME NEW w \in Workers, Skip(w) \/ StoreOutcome(w) PROVE PlacesAgree'
  BY <1>5, FailedStays DEF Skip, StoreOutcome, Owns
<1>6. ASSUME NEW w \in Workers, RecordRetryable(w) \/ FailAttempt(w) PROVE PlacesAgree'
  BY <1>6 DEF RecordRetryable, FailAttempt, Owns
<1>7. ASSUME NEW w \in Workers,
             \/ StoreFencedOut(w) \/ FailFencedOut(w) \/ HeartbeatFencedOut(w)
             \/ HookGivesWay(w) \/ HookLost(w) \/ Crash(w)
      PROVE PlacesAgree'
  BY <1>7 DEF StoreFencedOut, FailFencedOut, HeartbeatFencedOut, HookGivesWay, HookLost, Crash
<1>8. ASSUME NEW w \in Workers, HookDecides(w) \/ HookStores(w) PROVE PlacesAgree'
  BY <1>8 DEF HookDecides, HookStores
<1>9. QED
  BY <1>1, <1>2, <1>3, <1>4, <1>5, <1>6, <1>7, <1>8 DEF Next, Execute, RunHook

-----------------------------------------------------------------------------
(* Results *)

LEMMA NextResult == IInv /\ [Next]_vars => ResultHasSource' /\ ResultIsFenced'
<1> SUFFICES ASSUME IInv, [Next]_vars PROVE ResultHasSource' /\ ResultIsFenced'
  OBVIOUS
<1> USE TaskAssumption DEF IInv, TypeOK, ResultHasSource, ResultIsFenced, Hook,
                           taskVars, jobVars
<1>1. ASSUME NEW w \in Workers, StoreOutcome(w) PROVE ResultHasSource' /\ ResultIsFenced'
  <2>1. result = "none"
    BY <1>1 DEF StoreOutcome, Owns
  <2>2. lease[w] \in 1..MaxAttempts /\ token = lease[w]
    BY <1>1 DEF StoreOutcome, Owns, PlacesAgree, Attempting
  <2>3. PICK r \in ResultStatuses : Store(r, lease[w])
    BY <1>1 DEF StoreOutcome
  <2>4. result' = r /\ source' = lease[w] /\ woken' = TRUE /\ r # "none"
    BY <2>1, <2>3 DEF Store, ResultStatuses
  <2>5. job' = "DONE" /\ token' = token
    BY <1>1 DEF StoreOutcome
  <2>6. QED
    BY <2>2, <2>4, <2>5
<1>2. ASSUME NEW w \in Workers, HookStores(w) PROVE ResultHasSource' /\ ResultIsFenced'
  <2>1. job = "FAILED" /\ verdict[w] # "none" /\ UNCHANGED <<job, token>>
    BY <1>2 DEF HookStores, PlacesAgree
  <2>2. QED
    BY <1>2, <2>1 DEF HookStores, Store
<1>3. ASSUME UNCHANGED <<result, source, woken>>,
             job \in {"DONE", "FAILED"} => UNCHANGED <<job, token>>
      PROVE ResultHasSource' /\ ResultIsFenced'
  BY <1>3
<1>4. CASE LeaseExpires \/ DeadlineEndsRun \/ CancelRun \/ UNCHANGED vars
  BY <1>3, <1>4 DEF LeaseExpires, DeadlineEndsRun, CancelRun, vars
<1>5. ASSUME NEW w \in Workers, Claim(w) \/ ClaimExhausted(w) \/ Skip(w) \/ FailAttempt(w)
      PROVE ResultHasSource' /\ ResultIsFenced'
  BY <1>3, <1>5 DEF Claim, ClaimExhausted, Runnable, Skip, FailAttempt, Owns
<1>6. ASSUME NEW w \in Workers,
             \/ Load(w) \/ MarkRunning(w) \/ AgentReturns(w) \/ HandlerRaises(w)
             \/ RecordRetryable(w) \/ StoreFencedOut(w) \/ FailFencedOut(w)
             \/ HeartbeatFencedOut(w) \/ HookDecides(w) \/ HookGivesWay(w)
             \/ HookLost(w) \/ Crash(w)
      PROVE ResultHasSource' /\ ResultIsFenced'
  BY <1>3, <1>6 DEF Load, MarkRunning, AgentReturns, HandlerRaises, RecordRetryable,
       StoreFencedOut, FailFencedOut, HeartbeatFencedOut, HookDecides, HookGivesWay,
       HookLost, Crash
<1>7. QED
  BY <1>1, <1>2, <1>4, <1>5, <1>6 DEF Next, Execute, RunHook

LEMMA InitIInv == Init => IInv
<1> SUFFICES ASSUME Init PROVE IInv
  OBVIOUS
<1>1. PlacesAgree
  BY DEF Init, PlacesAgree, Attempting
<1>2. ResultHasSource /\ ResultIsFenced
  <2>1. result = "none" /\ source = 0 /\ woken = FALSE
    BY DEF Init
  <2>2. ResultIsFenced
    BY <2>1, TaskAssumption DEF ResultIsFenced, Hook
  <2>3. ResultHasSource
    BY <2>1, Zenon DEF ResultHasSource
  <2>4. QED
    BY <2>2, <2>3
<1>3. QED
  BY InitTypeOK, <1>1, <1>2 DEF IInv

LEMMA IInvHolds == Spec => []IInv
<1>1. IInv /\ [Next]_vars => IInv'
  BY NextTypeOK, NextPlacesAgree, NextResult DEF IInv
<1>2. QED
  BY InitIInv, <1>1, PTL DEF Spec

(***************************************************************************)
(* The types of the task, its job and its workers (executor.py, queue.py). *)
(***************************************************************************)
THEOREM TaskTypes == Spec => []TypeOK
<1>1. IInv => TypeOK
  BY DEF IInv
<1>2. QED
  BY IInvHolds, <1>1, PTL

(***************************************************************************)
(* finish_in_transaction and the hook: a stored result belongs to the      *)
(* lease that completed the job, or to the hook of the failed job.         *)
(***************************************************************************)
THEOREM Fenced == Spec => []ResultIsFenced
<1>1. IInv => ResultIsFenced
  BY DEF IInv
<1>2. QED
  BY IInvHolds, <1>1, PTL

-----------------------------------------------------------------------------
(* Refinement *)

(* _store_outcome reports the task, once. *)
LEMMA StoreReports ==
  ASSUME NEW r \in ResultStatuses, NEW by, Store(r, by)
  PROVE [Promise!Next]_(Promise!tvars)
<1>1. CASE result = "none"
  <2>1. Promise!Report(r)
    BY <1>1 DEF Store, StatusAfter, Promise!Report, Promise!Active, ActiveTask
  <2>2. QED
    BY <2>1 DEF Promise!Next, ResultStatuses
<1>2. CASE result # "none"
  BY <1>2 DEF Store, Promise!tvars
<1>3. QED
  BY <1>1, <1>2

LEMMA StepRefines == IInv /\ [Next]_vars => [Promise!Next]_(Promise!tvars)
<1> SUFFICES ASSUME IInv, [Next]_vars PROVE [Promise!Next]_(Promise!tvars)
  OBVIOUS
<1> USE DEF taskVars
<1>1. ASSUME NEW w \in Workers, StoreOutcome(w) PROVE [Promise!Next]_(Promise!tvars)
  BY <1>1, StoreReports DEF StoreOutcome
<1>2. ASSUME NEW w \in Workers, HookStores(w) PROVE [Promise!Next]_(Promise!tvars)
  BY <1>2, StoreReports DEF HookStores, IInv, PlacesAgree, ResultStatuses
<1>3. ASSUME NEW w \in Workers, MarkRunning(w) PROVE [Promise!Next]_(Promise!tvars)
  <2>1. CASE status = "PENDING"
    BY <1>3, <2>1 DEF MarkRunning, ActiveTask, Promise!Next, Promise!Begin
  <2>2. CASE status # "PENDING"
    BY <1>3, <2>2 DEF MarkRunning, ActiveTask, Promise!tvars
  <2>3. QED
    BY <2>1, <2>2
<1>4. CASE DeadlineEndsRun \/ CancelRun
  <2>1. CASE status \in ActiveTask
    BY <1>4, <2>1 DEF DeadlineEndsRun, CancelRun, EndTask, ActiveTask, Promise!Next,
                      Promise!Cancel, Promise!Active
  <2>2. CASE status \notin ActiveTask
    BY <1>4, <2>2 DEF DeadlineEndsRun, CancelRun, EndTask, Promise!tvars
  <2>3. QED
    BY <2>1, <2>2
<1>5. CASE LeaseExpires \/ UNCHANGED vars
  BY <1>5 DEF LeaseExpires, vars, Promise!tvars
<1>6. ASSUME NEW w \in Workers,
             \/ Claim(w) \/ ClaimExhausted(w) \/ Load(w) \/ Skip(w) \/ AgentReturns(w)
             \/ HandlerRaises(w) \/ RecordRetryable(w) \/ FailAttempt(w)
             \/ StoreFencedOut(w) \/ FailFencedOut(w) \/ HeartbeatFencedOut(w)
             \/ HookDecides(w) \/ HookGivesWay(w) \/ HookLost(w) \/ Crash(w)
      PROVE [Promise!Next]_(Promise!tvars)
  BY <1>6 DEF Claim, ClaimExhausted, Load, Skip, AgentReturns, HandlerRaises,
       RecordRetryable, FailAttempt, StoreFencedOut, FailFencedOut, HeartbeatFencedOut,
       HookDecides, HookGivesWay, HookLost, Crash, Promise!tvars
<1>7. QED
  BY <1>1, <1>2, <1>3, <1>4, <1>5, <1>6 DEF Next, Execute, RunHook

(***************************************************************************)
(* executor.py gives the run a task as TaskContract promises it, although  *)
(* the RUNNING mark and the record of an outage are not fenced.            *)
(***************************************************************************)
THEOREM ImplementsTaskContract == Spec => KeepsTaskContract
<1>1. Init => Promise!Init
  BY DEF Init, Promise!Init
<1>2. QED
  BY <1>1, IInvHolds, StepRefines, PTL DEF Spec, KeepsTaskContract, Promise!SafeSpec
=============================================================================
