--------------------------- MODULE JobQueueProofs ---------------------------
(* Proofs about JobQueue for any jobs, slots and number of attempts. *)
EXTENDS JobQueue, TLAPS

(* A slot beyond the claim knows its job and a token drawn for it. *)
HeldIsIssued ==
  /\ \A w \in Workers :
       pc[w] \in Holding =>
         /\ cur[w] \in Jobs
         /\ lease[w] # NoToken
         /\ lease[w] <= issued[cur[w]]
  /\ \A j \in Jobs : token[j] <= issued[j]

(* The inductive invariant. *)
IInv == TypeOK /\ HeldIsIssued /\ OneOwner /\ EffectsAreFenced /\ HookRunsOnce

-----------------------------------------------------------------------------
(* Types *)

LEMMA InitTypeOK == Init => TypeOK
  BY JobsAssumption DEF Init, TypeOK, Statuses, Points, NoToken

LEMMA NextTypeOK == TypeOK /\ [Next]_vars => TypeOK'
<1> SUFFICES ASSUME TypeOK, [Next]_vars PROVE TypeOK'
  OBVIOUS
<1> USE JobsAssumption DEF TypeOK, rowVars, slotVars, history
<1>1. ASSUME NEW j \in Jobs, TableStep(j) PROVE TypeOK'
  BY <1>1 DEF TableStep, Enqueue, CancelReady, BecomeDue, LeaseExpires, Statuses
<1> USE DEF Points, Holding, InHandler, Failing, InHook, Move, LetGo, NoToken
<1>2. ASSUME NEW w \in Workers, Poll(w) \/ ClaimNothing(w) PROVE TypeOK'
  BY <1>2 DEF Poll, ClaimNothing
<1>3. ASSUME NEW w \in Workers, NEW j \in Jobs, Claim(w, j) PROVE TypeOK'
  <2>1. attempt' \in [Jobs -> 0..MaxAttempts]
    BY <1>3 DEF Claim, HasAttemptLeft
  <2>2. QED
    BY <1>3, <2>1 DEF Claim, FreshToken, Statuses
<1>4. ASSUME NEW w \in Workers, NEW j \in Jobs, ClaimExhausted(w, j) PROVE TypeOK'
  <2>1. /\ attempt' \in [Jobs -> 0..MaxAttempts]
        /\ issued' \in [Jobs -> Nat] /\ lease' \in [Workers -> Nat]
    BY <1>4 DEF ClaimExhausted, FreshToken
  <2>2. /\ status' \in [Jobs -> Statuses] /\ token' \in [Jobs -> Nat]
        /\ expired' \in [Jobs -> BOOLEAN]
    BY <1>4 DEF ClaimExhausted, Statuses
  <2>3. QED
    BY <1>4, <2>1, <2>2 DEF ClaimExhausted
<1>5. ASSUME NEW w \in Workers, Heartbeat(w) \/ HeartbeatFencedOut(w) PROVE TypeOK'
  <2>1. CASE Heartbeat(w)
    <3>1. expired' \in [Jobs -> BOOLEAN]
      BY <2>1 DEF Heartbeat
    <3>2. QED
      BY <2>1, <3>1 DEF Heartbeat
  <2>2. CASE HeartbeatFencedOut(w)
    BY <2>2 DEF HeartbeatFencedOut
  <2>3. QED
    BY <1>5, <2>1, <2>2
<1>6. ASSUME NEW w \in Workers, HandlerStep(w) PROVE TypeOK'
  <2>1. CASE FinishInTransaction(w)
    <3>1. effects' \in [Jobs -> SUBSET Nat]
      <4>1. \A j \in Jobs : effects[j] \cup {lease[w]} \in SUBSET Nat
        OBVIOUS
      <4>2. QED
        BY <2>1, <4>1 DEF FinishInTransaction
    <3>2. status' \in [Jobs -> Statuses] /\ expired' \in [Jobs -> BOOLEAN]
      BY <2>1 DEF FinishInTransaction, Statuses
    <3>3. QED
      BY <2>1, <3>1, <3>2 DEF FinishInTransaction
  <2>2. CASE FinishFencedOut(w) \/ HandlerReturns(w) \/ HandlerRaises(w)
    BY <2>2 DEF FinishFencedOut, HandlerReturns, HandlerRaises
  <2>3. QED
    BY <1>6, <2>1, <2>2 DEF HandlerStep
<1>7. ASSUME NEW w \in Workers, OutcomeStep(w) PROVE TypeOK'
  <2>1. CASE CompleteAfterHandler(w)
    BY <2>1 DEF CompleteAfterHandler, Statuses
  <2>2. CASE FailWithRetry(w)
    BY <2>2 DEF FailWithRetry, Statuses
  <2>3. CASE FailForGood(w)
    BY <2>3 DEF FailForGood, Statuses
  <2>4. CASE FailFencedOut(w) \/ RunExhausted(w)
    BY <2>4 DEF FailFencedOut, RunExhausted
  <2>5. QED
    BY <1>7, <2>1, <2>2, <2>3, <2>4 DEF OutcomeStep
<1>8. ASSUME NEW w \in Workers, ProcessStep(w) PROVE TypeOK'
  BY <1>8 DEF ProcessStep, LoopError, RequestStop, SlotExits, CutOff, Restart
<1>9. CASE UNCHANGED vars
  BY <1>9 DEF vars
<1>10. QED
  BY <1>1, <1>2, <1>3, <1>4, <1>5, <1>6, <1>7, <1>8, <1>9 DEF Next, ClaimStep

(***************************************************************************)
(* Type correctness of every reachable state of the queue and its workers.  *)
(***************************************************************************)
THEOREM TypeCorrect == Spec => []TypeOK
<1>1. QED
  BY InitTypeOK, NextTypeOK, PTL DEF Spec
-----------------------------------------------------------------------------
(* Tokens and owners *)

(* A step that draws no token: no slot comes to hold a job or a token it    *)
(* did not hold, and no row gets a token other than NULL.                   *)
NoNewHolder ==
  /\ issued' = issued
  /\ \A j \in Jobs : token'[j] = token[j] \/ token'[j] = NoToken
  /\ \A w \in Workers : pc'[w] \in Holding =>
       /\ pc[w] \in Holding
       /\ cur'[w] = cur[w] /\ lease'[w] = lease[w]

(* Every step but a claim is such a step.                                    *)
LEMMA OnlyClaimsDrawTokens ==
  ASSUME TypeOK, [Next]_vars,
         \A w \in Workers, j \in Jobs : ~Claim(w, j) /\ ~ClaimExhausted(w, j)
  PROVE  NoNewHolder
<1> USE DEF TypeOK, NoNewHolder, rowVars, slotVars, history
<1>1. ASSUME NEW j \in Jobs, TableStep(j) PROVE NoNewHolder
  BY <1>1 DEF TableStep, Enqueue, CancelReady, BecomeDue, LeaseExpires
<1> USE DEF Points, Holding, InHandler, Failing, InHook, Move, LetGo
<1>2. ASSUME NEW w \in Workers, Poll(w) \/ ClaimNothing(w) PROVE NoNewHolder
  BY <1>2 DEF Poll, ClaimNothing
<1>3. ASSUME NEW w \in Workers, Heartbeat(w) \/ HeartbeatFencedOut(w)
      PROVE NoNewHolder
  BY <1>3 DEF Heartbeat, HeartbeatFencedOut
<1>4. ASSUME NEW w \in Workers, HandlerStep(w) PROVE NoNewHolder
  BY <1>4 DEF HandlerStep, FinishInTransaction, FinishFencedOut,
              HandlerReturns, HandlerRaises
<1>5. ASSUME NEW w \in Workers, OutcomeStep(w) PROVE NoNewHolder
  <2>1. CASE CompleteAfterHandler(w) \/ FailFencedOut(w) \/ RunExhausted(w)
    BY <2>1 DEF CompleteAfterHandler, FailFencedOut, RunExhausted
  <2>2. CASE FailWithRetry(w) \/ FailForGood(w)
    BY <2>2 DEF FailWithRetry, FailForGood
  <2>3. QED
    BY <1>5, <2>1, <2>2 DEF OutcomeStep
<1>6. ASSUME NEW w \in Workers, ProcessStep(w) PROVE NoNewHolder
  BY <1>6 DEF ProcessStep, LoopError, RequestStop, SlotExits, CutOff, Restart
<1>7. CASE UNCHANGED vars
  BY <1>7 DEF vars
<1>8. QED
  BY <1>1, <1>2, <1>3, <1>4, <1>5, <1>6, <1>7 DEF Next, ClaimStep

(* A claim gives one slot the newest token of the job it takes.             *)
LEMMA ClaimDrawsNewest ==
  ASSUME TypeOK, NEW w \in Workers, NEW j \in Jobs,
         Claim(w, j) \/ ClaimExhausted(w, j)
  PROVE  /\ cur'[w] = j /\ lease'[w] = issued[j] + 1
         /\ issued' = [issued EXCEPT ![j] = @ + 1]
         /\ token'[j] \in {NoToken, issued[j] + 1}
         /\ \A i \in Jobs \ {j} : token'[i] = token[i]
         /\ \A v \in Workers \ {w} :
              pc'[v] = pc[v] /\ cur'[v] = cur[v] /\ lease'[v] = lease[v]
  BY DEF TypeOK, Claim, ClaimExhausted, FreshToken, Move

LEMMA NextHeldIsIssued ==
  TypeOK /\ HeldIsIssued /\ [Next]_vars => HeldIsIssued'
<1> SUFFICES ASSUME TypeOK, HeldIsIssued, [Next]_vars PROVE HeldIsIssued'
  OBVIOUS
<1> USE DEF TypeOK, HeldIsIssued, NoToken
<1>1. ASSUME NEW w \in Workers, NEW j \in Jobs,
             Claim(w, j) \/ ClaimExhausted(w, j)
      PROVE  HeldIsIssued'
  <2>1. \A i \in Jobs : issued[i] <= issued'[i] /\ issued'[i] \in Nat
    BY <1>1, ClaimDrawsNewest
  <2>2. ASSUME NEW v \in Workers, pc'[v] \in Holding
        PROVE  cur'[v] \in Jobs /\ lease'[v] # NoToken /\ lease'[v] <= issued'[cur'[v]]
    <3>1. CASE v = w
      BY <1>1, <3>1, ClaimDrawsNewest
    <3>2. CASE v # w
      <4>1. /\ cur'[v] \in Jobs /\ lease'[v] # NoToken
            /\ lease'[v] \in Nat /\ lease'[v] <= issued[cur'[v]]
        <5>1. pc'[v] = pc[v] /\ cur'[v] = cur[v] /\ lease'[v] = lease[v]
          BY <1>1, <3>2, ClaimDrawsNewest
        <5>2. cur[v] \in Jobs /\ lease[v] # NoToken /\ lease[v] <= issued[cur[v]]
          BY <2>2, <5>1
        <5>3. QED
          BY <5>1, <5>2
      <4>2. QED
        BY <2>1, <4>1
    <3>3. QED
      BY <3>1, <3>2
  <2>3. ASSUME NEW i \in Jobs PROVE token'[i] <= issued'[i]
    <3>1. token'[i] = token[i] \/ token'[i] = NoToken \/ token'[i] = issued'[i]
      BY <1>1, ClaimDrawsNewest
    <3>2. QED
      BY <2>1, <3>1
  <2>4. QED
    BY <2>2, <2>3
<1>2. CASE \A w \in Workers, j \in Jobs : ~Claim(w, j) /\ ~ClaimExhausted(w, j)
  BY <1>2, OnlyClaimsDrawTokens DEF NoNewHolder
<1>3. QED
  BY <1>1, <1>2

LEMMA NextOneOwner ==
  TypeOK /\ HeldIsIssued /\ OneOwner /\ [Next]_vars => OneOwner'
<1> SUFFICES ASSUME TypeOK, HeldIsIssued, OneOwner, [Next]_vars PROVE OneOwner'
  OBVIOUS
<1> USE DEF TypeOK, HeldIsIssued, OneOwner, NoToken
<1>1. ASSUME NEW w \in Workers, NEW j \in Jobs,
             Claim(w, j) \/ ClaimExhausted(w, j)
      PROVE  OneOwner'
  <2>1. ASSUME NEW u \in Workers, NEW v \in Workers, u # v,
               pc'[u] \in Holding, pc'[v] \in Holding, cur'[u] = cur'[v]
        PROVE  lease'[u] # lease'[v]
    <3>1. CASE u = w
      <4>1. lease'[u] = issued[j] + 1 /\ lease'[v] <= issued[j]
        BY <1>1, <2>1, <3>1, ClaimDrawsNewest
      <4>2. QED
        BY <1>1, <4>1, ClaimDrawsNewest
    <3>2. CASE v = w
      <4>1. lease'[v] = issued[j] + 1 /\ lease'[u] <= issued[j]
        BY <1>1, <2>1, <3>2, ClaimDrawsNewest
      <4>2. QED
        BY <1>1, <4>1, ClaimDrawsNewest
    <3>3. CASE u # w /\ v # w
      BY <1>1, <2>1, <3>3, ClaimDrawsNewest
    <3>4. QED
      BY <3>1, <3>2, <3>3
  <2>2. QED
    BY <2>1, NextHeldIsIssued
<1>2. CASE \A w \in Workers, j \in Jobs : ~Claim(w, j) /\ ~ClaimExhausted(w, j)
  BY <1>2, OnlyClaimsDrawTokens DEF NoNewHolder
<1>3. QED
  BY <1>1, <1>2
-----------------------------------------------------------------------------
(* Exhaustion hooks *)

(* A step that neither completes a hook, nor sends a slot to one, nor moves *)
(* a FAILED row.                                                            *)
NoNewHook ==
  /\ hooks' = hooks
  /\ \A j \in Jobs : status[j] = "FAILED" => status'[j] = "FAILED"
  /\ \A w \in Workers : pc'[w] \in InHook =>
       pc[w] \in InHook /\ cur'[w] = cur[w]

LEMMA NoNewHookKeepsHooks ==
  ASSUME HookRunsOnce, NoNewHook PROVE HookRunsOnce'
  BY DEF HookRunsOnce, NoNewHook, AtHook

(* Sending slot w to the hook of a job whose row was not FAILED before.     *)
LEMMA EnteringHook ==
  ASSUME TypeOK, HookRunsOnce,
         NEW w \in Workers, NEW j \in Jobs, status[j] # "FAILED",
         status' = [status EXCEPT ![j] = "FAILED"], hooks' = hooks,
         cur'[w] = j,
         \A v \in Workers \ {w} : pc'[v] = pc[v] /\ cur'[v] = cur[v]
  PROVE  HookRunsOnce'
<1>1. hooks[j] = 0 /\ \A v \in Workers : ~AtHook(v, j)
  BY DEF HookRunsOnce, TypeOK
<1>2. \A v \in Workers : AtHook(v, j)' => v = w
  BY <1>1 DEF AtHook
<1>3. \A i \in Jobs \ {j}, v \in Workers : AtHook(v, i)' => AtHook(v, i)
  BY DEF AtHook
<1>4. ASSUME NEW i \in Jobs
      PROVE  /\ hooks'[i] <= 1
             /\ hooks'[i] > 0 => status'[i] = "FAILED"
             /\ \A u \in Workers : AtHook(u, i)' =>
                  /\ status'[i] = "FAILED" /\ hooks'[i] = 0
                  /\ \A v \in Workers : AtHook(v, i)' => v = u
  <2>1. CASE i = j
    BY <1>1, <1>2, <2>1 DEF TypeOK
  <2>2. CASE i # j
    BY <1>3, <2>2 DEF HookRunsOnce, TypeOK
  <2>3. QED
    BY <2>1, <2>2
<1>5. QED
  BY <1>4 DEF HookRunsOnce

LEMMA NextHookRunsOnce ==
  TypeOK /\ HeldIsIssued /\ HookRunsOnce /\ [Next]_vars => HookRunsOnce'
<1> SUFFICES ASSUME TypeOK, HeldIsIssued, HookRunsOnce, [Next]_vars
             PROVE  HookRunsOnce'
  OBVIOUS
<1> USE DEF rowVars, slotVars, history
<1>1. ASSUME NEW j \in Jobs, TableStep(j) PROVE HookRunsOnce'
  <2>1. NoNewHook
    BY <1>1 DEF TypeOK, NoNewHook, TableStep, Enqueue, CancelReady, BecomeDue,
                LeaseExpires
  <2>2. QED
    BY <2>1, NoNewHookKeepsHooks
<1>2. ASSUME NEW w \in Workers, Poll(w) \/ ClaimNothing(w) PROVE HookRunsOnce'
  <2>1. NoNewHook
    BY <1>2 DEF TypeOK, NoNewHook, Poll, ClaimNothing, Move, InHook
  <2>2. QED
    BY <2>1, NoNewHookKeepsHooks
<1>3. ASSUME NEW w \in Workers, NEW j \in Jobs, Claim(w, j) PROVE HookRunsOnce'
  <2>1. NoNewHook
    BY <1>3 DEF TypeOK, NoNewHook, Claim, Runnable, Move, InHook
  <2>2. QED
    BY <2>1, NoNewHookKeepsHooks
<1>4. ASSUME NEW w \in Workers, NEW j \in Jobs, ClaimExhausted(w, j)
      PROVE  HookRunsOnce'
  <2>1. /\ status[j] # "FAILED"
        /\ status' = [status EXCEPT ![j] = "FAILED"]
        /\ hooks' = hooks
        /\ cur'[w] = j
        /\ \A v \in Workers \ {w} : pc'[v] = pc[v] /\ cur'[v] = cur[v]
    BY <1>4 DEF TypeOK, ClaimExhausted, Runnable, Move
  <2>2. QED
    BY <2>1, EnteringHook
<1>5. ASSUME NEW w \in Workers, Heartbeat(w) \/ HeartbeatFencedOut(w)
      PROVE  HookRunsOnce'
  <2>1. NoNewHook
    BY <1>5 DEF TypeOK, NoNewHook, Heartbeat, HeartbeatFencedOut, LetGo, Move,
                InHook
  <2>2. QED
    BY <2>1, NoNewHookKeepsHooks
<1>6. ASSUME NEW w \in Workers, HandlerStep(w) PROVE HookRunsOnce'
  <2>1. NoNewHook
    BY <1>6 DEF TypeOK, NoNewHook, HandlerStep, FinishInTransaction,
                FinishFencedOut, HandlerReturns, HandlerRaises, Owns, Fence,
                LetGo, Move, InHook, Failing
  <2>2. QED
    BY <2>1, NoNewHookKeepsHooks
<1>7. ASSUME NEW w \in Workers,
             CompleteAfterHandler(w) \/ FailWithRetry(w) \/ FailFencedOut(w)
      PROVE  HookRunsOnce'
  <2>1. NoNewHook
    BY <1>7 DEF TypeOK, NoNewHook, CompleteAfterHandler, FailWithRetry,
                FailFencedOut, Owns, Fence, LetGo, Move, InHook
  <2>2. QED
    BY <2>1, NoNewHookKeepsHooks
<1>8. ASSUME NEW w \in Workers, FailForGood(w) PROVE HookRunsOnce'
  <2>1. cur[w] \in Jobs
    BY <1>8 DEF HeldIsIssued, FailForGood, Holding
  <2>2. /\ status[cur[w]] # "FAILED"
        /\ status' = [status EXCEPT ![cur[w]] = "FAILED"]
        /\ hooks' = hooks
        /\ cur'[w] = cur[w]
        /\ \A v \in Workers \ {w} : pc'[v] = pc[v] /\ cur'[v] = cur[v]
    BY <1>8 DEF TypeOK, FailForGood, Owns, Fence, Move
  <2>3. QED
    BY <2>1, <2>2, EnteringHook
<1>9. ASSUME NEW w \in Workers, RunExhausted(w) PROVE HookRunsOnce'
  <2>1. cur[w] \in Jobs /\ AtHook(w, cur[w])
    BY <1>9 DEF HeldIsIssued, RunExhausted, Holding, AtHook
  <2>2. /\ \A v \in Workers, j \in Jobs : AtHook(v, j)' => AtHook(v, j) /\ v # w
        /\ status' = status
    BY <1>9 DEF TypeOK, RunExhausted, LetGo, Move, AtHook, InHook
  <2>3. /\ \A j \in Jobs \ {cur[w]} : hooks'[j] = hooks[j]
        /\ hooks'[cur[w]] \in {hooks[cur[w]], hooks[cur[w]] + 1}
    BY <1>9, <2>1 DEF TypeOK, RunExhausted
  <2>4. /\ hooks[cur[w]] = 0 /\ status[cur[w]] = "FAILED"
        /\ \A v \in Workers : AtHook(v, cur[w]) => v = w
    BY <2>1 DEF HookRunsOnce
  <2>5. QED
    BY <2>2, <2>3, <2>4 DEF HookRunsOnce, TypeOK
<1>10. ASSUME NEW w \in Workers, ProcessStep(w) PROVE HookRunsOnce'
  <2>1. NoNewHook
    BY <1>10 DEF TypeOK, NoNewHook, ProcessStep, LoopError, RequestStop,
                 SlotExits, CutOff, Restart, LetGo, Move, InHook
  <2>2. QED
    BY <2>1, NoNewHookKeepsHooks
<1>11. CASE UNCHANGED vars
  BY <1>11 DEF vars, HookRunsOnce, AtHook
<1>12. QED
  BY <1>1, <1>2, <1>3, <1>4, <1>5, <1>6, <1>7, <1>8, <1>9, <1>10, <1>11
     DEF Next, ClaimStep, OutcomeStep
-----------------------------------------------------------------------------
(* Committed effects and final states *)

(* What any step does to row j: nothing is committed and a DONE row stays   *)
(* as it is, or the holder of the row's token commits and completes it.     *)
CommitsOnlyAsOwner(j) ==
  \/ /\ effects'[j] = effects[j]
     /\ status[j] = "DONE" => token'[j] = token[j]
  \/ /\ status[j] = "LEASED" /\ status'[j] = "DONE"
     /\ token'[j] = token[j] /\ effects'[j] = effects[j] \cup {token[j]}

FinalStays(j) == status[j] \in Terminal => status'[j] = status[j]

LEMMA RowStep ==
  ASSUME TypeOK, HeldIsIssued, [Next]_vars, NEW j \in Jobs
  PROVE  CommitsOnlyAsOwner(j) /\ FinalStays(j)
<1> USE DEF TypeOK, CommitsOnlyAsOwner, FinalStays, Terminal,
            rowVars, slotVars, history, Owns, Fence, Move, LetGo
<1>1. ASSUME NEW i \in Jobs, TableStep(i)
      PROVE  CommitsOnlyAsOwner(j) /\ FinalStays(j)
  BY <1>1 DEF TableStep, Enqueue, CancelReady, BecomeDue, LeaseExpires
<1>2. ASSUME NEW w \in Workers, NEW i \in Jobs,
             Claim(w, i) \/ ClaimExhausted(w, i)
      PROVE  CommitsOnlyAsOwner(j) /\ FinalStays(j)
  BY <1>2 DEF Claim, ClaimExhausted, Runnable
<1>3. ASSUME NEW w \in Workers, FinishInTransaction(w)
      PROVE  CommitsOnlyAsOwner(j) /\ FinalStays(j)
  BY <1>3 DEF FinishInTransaction
<1>4. ASSUME NEW w \in Workers, CompleteAfterHandler(w)
      PROVE  CommitsOnlyAsOwner(j) /\ FinalStays(j)
  BY <1>4 DEF CompleteAfterHandler
<1>5. ASSUME NEW w \in Workers, FailWithRetry(w) \/ FailForGood(w)
      PROVE  CommitsOnlyAsOwner(j) /\ FinalStays(j)
  BY <1>5 DEF FailWithRetry, FailForGood
<1>6. ASSUME NEW w \in Workers,
             \/ Poll(w) \/ ClaimNothing(w) \/ Heartbeat(w)
             \/ HeartbeatFencedOut(w) \/ FinishFencedOut(w)
             \/ HandlerReturns(w) \/ HandlerRaises(w)
             \/ FailFencedOut(w) \/ RunExhausted(w) \/ ProcessStep(w)
      PROVE  CommitsOnlyAsOwner(j) /\ FinalStays(j)
  BY <1>6 DEF Poll, ClaimNothing, Heartbeat, HeartbeatFencedOut,
              FinishFencedOut, HandlerReturns, HandlerRaises, FailFencedOut,
              RunExhausted, ProcessStep, LoopError, RequestStop, SlotExits,
              CutOff, Restart
<1>7. CASE UNCHANGED vars
  BY <1>7 DEF vars
<1>8. QED
  BY <1>1, <1>2, <1>3, <1>4, <1>5, <1>6, <1>7
     DEF Next, ClaimStep, HandlerStep, OutcomeStep

LEMMA NextEffectsAreFenced ==
  /\ TypeOK /\ HeldIsIssued /\ EffectsAreFenced
  /\ HookRunsOnce' /\ [Next]_vars
  => EffectsAreFenced'
<1> SUFFICES ASSUME TypeOK, HeldIsIssued, EffectsAreFenced,
                    HookRunsOnce', [Next]_vars, NEW j \in Jobs
             PROVE  /\ effects'[j] # {} =>
                         status'[j] = "DONE" /\ effects'[j] = {token'[j]}
                    /\ hooks'[j] > 0 => effects'[j] = {}
  BY DEF EffectsAreFenced
<1>1. CommitsOnlyAsOwner(j) /\ FinalStays(j)
  BY RowStep
<1>2. effects'[j] # {} => status'[j] = "DONE" /\ effects'[j] = {token'[j]}
  BY <1>1 DEF EffectsAreFenced, CommitsOnlyAsOwner, FinalStays, Terminal
<1>3. hooks'[j] > 0 => status'[j] = "FAILED"
  BY DEF HookRunsOnce
<1>4. QED
  BY <1>2, <1>3

LEMMA InitIInv == Init => IInv
<1> SUFFICES ASSUME Init PROVE HeldIsIssued /\ OneOwner /\ EffectsAreFenced /\ HookRunsOnce
  BY InitTypeOK DEF IInv
<1>1. QED
  BY DEF Init, HeldIsIssued, OneOwner, EffectsAreFenced, HookRunsOnce, AtHook,
         Holding, InHandler, Failing, InHook, NoToken

LEMMA NextIInv == IInv /\ [Next]_vars => IInv'
  BY NextTypeOK, NextHeldIsIssued, NextOneOwner, NextHookRunsOnce,
     NextEffectsAreFenced DEF IInv

LEMMA IInvHolds == Spec => []IInv
  BY InitIInv, NextIInv, PTL DEF Spec

(***************************************************************************)
(* Fencing: business writes are committed under at most one lease, the one  *)
(* the DONE row records, for any number of jobs, slots and attempts.        *)
(***************************************************************************)
THEOREM Fencing == Spec => []EffectsAreFenced
<1>1. IInv => EffectsAreFenced
  BY DEF IInv
<1>2. QED
  BY <1>1, IInvHolds, PTL

(***************************************************************************)
(* Slots that hold the same job hold different tokens, and no row carries a *)
(* token newer than the last one drawn for it.                              *)
(***************************************************************************)
THEOREM OwnersDiffer == Spec => []OneOwner
<1>1. IInv => OneOwner
  BY DEF IInv
<1>2. QED
  BY <1>1, IInvHolds, PTL

(***************************************************************************)
(* on_exhausted completes at most once, for a FAILED job, in one slot.      *)
(***************************************************************************)
THEOREM HooksRunOnce == Spec => []HookRunsOnce
<1>1. IInv => HookRunsOnce
  BY DEF IInv
<1>2. QED
  BY <1>1, IInvHolds, PTL

(***************************************************************************)
(* DONE, FAILED and CANCELLED rows never change their status again.         *)
(***************************************************************************)
THEOREM FinalStates == Spec => SettledIsFinal
<1>1. IInv /\ [Next]_vars =>
        [\A j \in Jobs : status[j] \in Terminal => status'[j] = status[j]]_vars
  BY RowStep DEF IInv, FinalStays
<1>2. QED
  BY <1>1, IInvHolds, PTL DEF Spec, SettledIsFinal
-----------------------------------------------------------------------------
(* The queue implements its contract *)

(* Each claim of a job that still had an attempt left started one try.      *)
TriesCounted ==
  \A j \in Jobs :
    /\ starts[j] = attempt[j]
    /\ status[j] = "LEASED" => attempt[j] > 0

LEMMA NextTriesCounted ==
  TypeOK /\ HeldIsIssued /\ TriesCounted /\ [Next]_vars => TriesCounted'
<1> SUFFICES ASSUME TypeOK, HeldIsIssued, TriesCounted, [Next]_vars
             PROVE  TriesCounted'
  OBVIOUS
<1> USE JobsAssumption
    DEF TypeOK, TriesCounted, rowVars, slotVars, history, Move, LetGo
<1>1. ASSUME NEW j \in Jobs, TableStep(j) PROVE TriesCounted'
  BY <1>1 DEF TableStep, Enqueue, CancelReady, BecomeDue, LeaseExpires
<1>2. ASSUME NEW w \in Workers, NEW j \in Jobs, Claim(w, j) PROVE TriesCounted'
  BY <1>2 DEF Claim
<1>3. ASSUME NEW w \in Workers, NEW j \in Jobs, ClaimExhausted(w, j)
      PROVE  TriesCounted'
  <2>1. attempt[j] = MaxAttempts
    BY SMTT(40), <1>3 DEF ClaimExhausted, HasAttemptLeft
  <2>2. QED
    BY <1>3, <2>1 DEF ClaimExhausted
<1>4. ASSUME NEW w \in Workers,
             \/ FinishInTransaction(w) \/ CompleteAfterHandler(w)
             \/ FailWithRetry(w) \/ FailForGood(w)
      PROVE  TriesCounted'
  BY <1>4 DEF FinishInTransaction, CompleteAfterHandler, FailWithRetry, FailForGood
<1>5. ASSUME NEW w \in Workers,
             \/ Poll(w) \/ ClaimNothing(w) \/ Heartbeat(w)
             \/ HeartbeatFencedOut(w) \/ FinishFencedOut(w)
             \/ HandlerReturns(w) \/ HandlerRaises(w)
             \/ FailFencedOut(w) \/ RunExhausted(w) \/ ProcessStep(w)
      PROVE  TriesCounted'
  BY <1>5 DEF Poll, ClaimNothing, Heartbeat, HeartbeatFencedOut,
              FinishFencedOut, HandlerReturns, HandlerRaises, FailFencedOut,
              RunExhausted, ProcessStep, LoopError, RequestStop, SlotExits,
              CutOff, Restart
<1>6. CASE UNCHANGED vars
  BY <1>6 DEF vars
<1>7. QED
  BY <1>1, <1>2, <1>3, <1>4, <1>5, <1>6
     DEF Next, ClaimStep, HandlerStep, OutcomeStep

(* A step that changes none of the mapped columns maps to a stutter.        *)
LEMMA StutterRefines ==
  ASSUME status' = status, starts' = starts, rejected' = rejected,
         effects' = effects
  PROVE  UNCHANGED Contract!cvars
<1>1. \A j \in Jobs : Phase(j)' = Phase(j) /\ Applied(j)' = Applied(j)
  BY DEF Phase, Applied
<1>2. QED
  BY <1>1 DEF Contract!cvars

(* A step that moves one row, with the other rows' columns left alone.      *)
LEMMA OneRowMoves ==
  ASSUME TypeOK, NEW j \in Jobs, NEW s \in Statuses,
         status' = [status EXCEPT ![j] = s]
  PROVE  /\ \A i \in Jobs \ {j} : Phase(i)' = Phase(i)
         /\ s = "READY" \/ s = "LEASED" => Phase(j)' = "open"
         /\ s = "DONE" => Phase(j)' = "done"
         /\ s = "FAILED" => Phase(j)' = "failed"
         /\ s = "CANCELLED" => Phase(j)' = "cancelled"
  BY DEF Phase, TypeOK, Statuses

LEMMA StepRefines ==
  ASSUME IInv, TriesCounted, [Next]_vars
  PROVE  [Contract!Next]_(Contract!cvars)
<1> DEFINE ph == [j \in Jobs |-> Phase(j)]
           ap == [j \in Jobs |-> Applied(j)]
<1>a. TypeOK /\ HeldIsIssued /\ EffectsAreFenced
  BY DEF IInv
<1> USE <1>a, JobsAssumption DEF rowVars, slotVars, history
<1>1. ASSUME NEW j \in Jobs, Enqueue(j) PROVE Contract!Submit(j)
  <2>1. Phase(j) = "absent" /\ status' = [status EXCEPT ![j] = "READY"]
        /\ effects' = effects /\ starts' = starts /\ rejected' = rejected
    BY <1>1 DEF Enqueue, Phase
  <2>2. ph' = [ph EXCEPT ![j] = "open"] /\ ap' = ap
    BY <2>1, OneRowMoves DEF Statuses, Applied
  <2>3. QED
    BY <2>1, <2>2 DEF Contract!Submit
<1>2. ASSUME NEW j \in Jobs, CancelReady(j) PROVE Contract!Cancel(j)
  <2>1. Phase(j) = "open" /\ status' = [status EXCEPT ![j] = "CANCELLED"]
        /\ effects' = effects /\ starts' = starts /\ rejected' = rejected
    BY <1>2 DEF CancelReady, Phase
  <2>2. ph' = [ph EXCEPT ![j] = "cancelled"] /\ ap' = ap
    BY <2>1, OneRowMoves DEF Statuses, Applied
  <2>3. QED
    BY <2>1, <2>2 DEF Contract!Cancel
<1>3. ASSUME NEW w \in Workers, NEW j \in Jobs, Claim(w, j)
      PROVE  Contract!Try(j)
  <2>1. Phase(j) = "open" /\ status' = [status EXCEPT ![j] = "LEASED"]
        /\ effects' = effects /\ rejected' = rejected
        /\ starts' = [starts EXCEPT ![j] = @ + 1] /\ starts[j] < MaxAttempts
    BY <1>3 DEF Claim, Runnable, HasAttemptLeft, TriesCounted, TypeOK, Phase
  <2>2. ph' = ph /\ ap' = ap
    BY <2>1, OneRowMoves DEF Statuses, Applied
  <2>3. QED
    BY <2>1, <2>2 DEF Contract!Try
<1>4. ASSUME NEW w \in Workers, NEW j \in Jobs, ClaimExhausted(w, j)
      PROVE  Contract!GiveUp(j)
  <2>1. Phase(j) = "open" /\ status' = [status EXCEPT ![j] = "FAILED"]
        /\ effects' = effects /\ rejected' = rejected
        /\ starts' = starts /\ starts[j] = MaxAttempts
    BY <1>4 DEF ClaimExhausted, Runnable, HasAttemptLeft, TriesCounted, TypeOK, Phase
  <2>2. ph' = [ph EXCEPT ![j] = "failed"] /\ ap' = ap
    BY <2>1, OneRowMoves DEF Statuses, Applied
  <2>3. QED
    BY <2>1, <2>2 DEF Contract!GiveUp
<1>5. ASSUME NEW w \in Workers, FinishInTransaction(w)
      PROVE  Contract!Succeed(cur[w])
  <2>1. /\ cur[w] \in Jobs /\ Phase(cur[w]) = "open" /\ starts[cur[w]] > 0
        /\ status' = [status EXCEPT ![cur[w]] = "DONE"]
        /\ effects' = [effects EXCEPT ![cur[w]] = @ \cup {lease[w]}]
        /\ starts' = starts /\ rejected' = rejected
    BY <1>5 DEF FinishInTransaction, HeldIsIssued, Holding, InHandler, Owns,
                Fence, TriesCounted, Phase
  <2>2. ph' = [ph EXCEPT ![cur[w]] = "done"]
    BY <2>1, OneRowMoves DEF Statuses
  <2>3. effects[cur[w]] \cup {lease[w]} # {}
    OBVIOUS
  <2>4. \A j \in Jobs : Applied(j)' = IF j = cur[w] THEN TRUE ELSE Applied(j)
    BY <2>1, <2>3 DEF Applied, TypeOK
  <2>5. ap' = [ap EXCEPT ![cur[w]] = TRUE]
    BY <2>1, <2>4
  <2>6. QED
    BY <2>1, <2>2, <2>5 DEF Contract!Succeed
<1>6. ASSUME NEW w \in Workers, CompleteAfterHandler(w)
      PROVE  Contract!Succeed(cur[w]) \/ UNCHANGED Contract!cvars
  <2>1. CASE Owns(w)
    <3>1. /\ cur[w] \in Jobs /\ Phase(cur[w]) = "open" /\ starts[cur[w]] > 0
          /\ status' = [status EXCEPT ![cur[w]] = "DONE"]
          /\ effects' = effects /\ starts' = starts /\ rejected' = rejected
      BY <1>6, <2>1 DEF CompleteAfterHandler, HeldIsIssued, Holding, Owns,
                        Fence, TriesCounted, Phase
    <3>2. ph' = [ph EXCEPT ![cur[w]] = "done"] /\ ap' = ap
      BY <3>1, OneRowMoves DEF Statuses, Applied
    <3>3. QED
      BY <3>1, <3>2 DEF Contract!Succeed
  <2>2. CASE ~Owns(w)
    BY <1>6, <2>2, StutterRefines DEF CompleteAfterHandler
  <2>3. QED
    BY <2>1, <2>2
<1>7. ASSUME NEW w \in Workers, FailWithRetry(w)
      PROVE  UNCHANGED Contract!cvars
  <2>1. /\ cur[w] \in Jobs /\ Phase(cur[w]) = "open"
        /\ status' = [status EXCEPT ![cur[w]] = "READY"]
        /\ effects' = effects /\ starts' = starts /\ rejected' = rejected
    BY <1>7 DEF FailWithRetry, HeldIsIssued, Holding, Owns, Fence, Phase
  <2>2. ph' = ph /\ ap' = ap
    BY <2>1, OneRowMoves DEF Statuses, Applied
  <2>3. QED
    BY <2>1, <2>2 DEF Contract!cvars
<1>8. ASSUME NEW w \in Workers, FailForGood(w)
      PROVE  Contract!GiveUp(cur[w])
  <2>1. /\ cur[w] \in Jobs /\ Phase(cur[w]) = "open"
        /\ status' = [status EXCEPT ![cur[w]] = "FAILED"]
        /\ effects' = effects /\ starts' = starts
    BY <1>8 DEF FailForGood, HeldIsIssued, Holding, Owns, Fence, Phase
  <2>2. ph' = [ph EXCEPT ![cur[w]] = "failed"] /\ ap' = ap
    BY <2>1, OneRowMoves DEF Statuses, Applied
  <2>3. \/ rejected' = [rejected EXCEPT ![cur[w]] = TRUE]
        \/ starts[cur[w]] = MaxAttempts /\ rejected' = rejected
    <3>1. CASE pc[w] = "failPermanent"
      BY <1>8, <3>1 DEF FailForGood, TypeOK
    <3>2. CASE pc[w] = "failRetryable"
      <4>1. starts[cur[w]] = MaxAttempts
        BY <1>8, <2>1, <3>2 DEF FailForGood, WillRetry, TriesCounted, TypeOK
      <4>2. rejected' = rejected
        BY <1>8, <3>2 DEF FailForGood, TypeOK
      <4>3. QED
        BY <4>1, <4>2
    <3>3. QED
      BY <1>8, <3>1, <3>2 DEF FailForGood, Failing
  <2>4. QED
    BY <2>1, <2>2, <2>3 DEF Contract!GiveUp
<1>9. ASSUME NEW w \in Workers,
             \/ Poll(w) \/ ClaimNothing(w) \/ Heartbeat(w)
             \/ HeartbeatFencedOut(w) \/ FinishFencedOut(w)
             \/ HandlerReturns(w) \/ HandlerRaises(w)
             \/ FailFencedOut(w) \/ RunExhausted(w) \/ ProcessStep(w)
      PROVE  UNCHANGED Contract!cvars
  <2>1. /\ status' = status /\ starts' = starts
        /\ rejected' = rejected /\ effects' = effects
    BY <1>9 DEF Poll, ClaimNothing, Heartbeat, HeartbeatFencedOut,
                FinishFencedOut, HandlerReturns, HandlerRaises, FailFencedOut,
                RunExhausted, ProcessStep, LoopError, RequestStop, SlotExits,
                CutOff, Restart
  <2>2. QED
    BY <2>1, StutterRefines
<1>10. ASSUME NEW j \in Jobs, BecomeDue(j) \/ LeaseExpires(j)
       PROVE  UNCHANGED Contract!cvars
  <2>1. /\ status' = status /\ starts' = starts
        /\ rejected' = rejected /\ effects' = effects
    BY <1>10 DEF BecomeDue, LeaseExpires
  <2>2. QED
    BY <2>1, StutterRefines
<1>11. CASE UNCHANGED vars
  BY <1>11, StutterRefines DEF vars
<1>12. \A w \in Workers : pc[w] \in Holding => cur[w] \in Jobs
  BY DEF HeldIsIssued
<1>13. \A w \in Workers :
         FinishInTransaction(w) \/ CompleteAfterHandler(w) \/ FailForGood(w)
           => cur[w] \in Jobs
  BY <1>12 DEF FinishInTransaction, CompleteAfterHandler, FailForGood, Holding,
               InHandler
<1>14. QED
  BY <1>1, <1>2, <1>3, <1>4, <1>5, <1>6, <1>7, <1>8, <1>9, <1>10, <1>11, <1>13
     DEF Next, TableStep, ClaimStep, HandlerStep, OutcomeStep,
         Contract!Next, Contract!Settle

LEMMA InitRefines == Init => TriesCounted /\ Contract!Init
<1> SUFFICES ASSUME Init PROVE TriesCounted /\ Contract!Init
  OBVIOUS
<1>1. \A j \in Jobs : Phase(j) = "absent" /\ Applied(j) = FALSE
  BY DEF Init, Phase, Applied
<1>2. QED
  BY <1>1 DEF Init, TriesCounted, Contract!Init

(***************************************************************************)
(* The leased, fenced, crash-prone queue implements the safety part of the  *)
(* contract: bounded tries, giving up only for a reason, settling once.     *)
(***************************************************************************)
THEOREM ImplementsContract == Spec => KeepsContract
<1>1. IInv /\ TriesCounted /\ [Next]_vars => TriesCounted'
  BY NextTriesCounted DEF IInv
<1>2. Spec => []TriesCounted
  BY <1>1, InitRefines, IInvHolds, PTL DEF Spec
<1>3. QED
  BY <1>2, InitRefines, StepRefines, IInvHolds, PTL
     DEF Spec, KeepsContract, Contract!SafeSpec
-----------------------------------------------------------------------------
(***************************************************************************)
(* While a lease has not run out, status and token of the row change only   *)
(* in a step of the slot that holds it.                                     *)
(***************************************************************************)
THEOREM LeasesRespected == Spec => LiveLeaseRespected
<1> DEFINE Respected(j) ==
      /\ status[j] = "LEASED" /\ ~expired[j]
      /\ <<status'[j], token'[j]>> # <<status[j], token[j]>>
      => \E w \in Workers :
           cur[w] = j /\ lease[w] = token[j] /\ pc'[w] # pc[w]
<1>1. ASSUME IInv, [Next]_vars, NEW j \in Jobs PROVE Respected(j)
  <2>a. TypeOK /\ HeldIsIssued
    BY <1>1 DEF IInv
  <2> USE <2>a DEF TypeOK, rowVars, slotVars, history, Owns, Fence, Move, LetGo
  <2>1. ASSUME NEW i \in Jobs, TableStep(i) PROVE Respected(j)
    BY <2>1 DEF TableStep, Enqueue, CancelReady, BecomeDue, LeaseExpires
  <2>2. ASSUME NEW w \in Workers, NEW i \in Jobs,
               Claim(w, i) \/ ClaimExhausted(w, i)
        PROVE  Respected(j)
    BY <2>2 DEF Claim, ClaimExhausted, Runnable
  <2>3. ASSUME NEW w \in Workers, FinishInTransaction(w) PROVE Respected(j)
    BY <2>3 DEF FinishInTransaction
  <2>4. ASSUME NEW w \in Workers, CompleteAfterHandler(w) PROVE Respected(j)
    BY <2>4 DEF CompleteAfterHandler
  <2>5. ASSUME NEW w \in Workers, FailWithRetry(w) PROVE Respected(j)
    BY <2>5 DEF FailWithRetry, Failing
  <2>6. ASSUME NEW w \in Workers, FailForGood(w) PROVE Respected(j)
    BY <2>6 DEF FailForGood, Failing
  <2>7. ASSUME NEW w \in Workers,
               \/ Poll(w) \/ ClaimNothing(w) \/ Heartbeat(w)
               \/ HeartbeatFencedOut(w) \/ FinishFencedOut(w)
               \/ HandlerReturns(w) \/ HandlerRaises(w)
               \/ FailFencedOut(w) \/ RunExhausted(w) \/ ProcessStep(w)
        PROVE  Respected(j)
    BY <2>7 DEF Poll, ClaimNothing, Heartbeat, HeartbeatFencedOut,
                FinishFencedOut, HandlerReturns, HandlerRaises, FailFencedOut,
                RunExhausted, ProcessStep, LoopError, RequestStop, SlotExits,
                CutOff, Restart
  <2>8. CASE UNCHANGED vars
    BY <2>8 DEF vars
  <2>9. QED
    BY <1>1, <2>1, <2>2, <2>3, <2>4, <2>5, <2>6, <2>7, <2>8
       DEF Next, ClaimStep, HandlerStep, OutcomeStep
<1>2. IInv /\ [Next]_vars =>
        [\A j \in Jobs :
           /\ status[j] = "LEASED" /\ ~expired[j]
           /\ <<status'[j], token'[j]>> # <<status[j], token[j]>>
           => \E w \in Workers :
                /\ cur[w] = j /\ lease[w] = token[j]
                /\ pc'[w] # pc[w]]_vars
  BY <1>1
<1>3. QED
  BY <1>2, IInvHolds, PTL DEF Spec, LiveLeaseRespected
=============================================================================
