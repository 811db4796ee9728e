---------------------------- MODULE JobContract ----------------------------
(***************************************************************************)
(* What the durable job queue promises to the code that enqueues a job,     *)
(* without leases, tokens, workers or crashes: a submitted job is tried at  *)
(* most MaxAttempts times and then settles once and for all, and the        *)
(* business writes of its handler take effect in the step that makes it     *)
(* "done" and in no other.                                                  *)
(***************************************************************************)
EXTENDS Naturals

CONSTANTS Jobs,          \* the jobs, one per dedupe key
          MaxAttempts    \* the attempts a job may consume

VARIABLES phase,         \* phase[j]: absent, open, or how j settled
          tries,         \* tries[j]: how often a handler of j was started
          rejected,      \* rejected[j]: a handler reported a permanent error
          applied        \* applied[j]: the handler's writes are committed

cvars == <<phase, tries, rejected, applied>>

Settled == {"done", "failed", "cancelled"}

Init ==
  /\ phase = [j \in Jobs |-> "absent"]
  /\ tries = [j \in Jobs |-> 0]
  /\ rejected = [j \in Jobs |-> FALSE]
  /\ applied = [j \in Jobs |-> FALSE]

Submit(j) ==
  /\ phase[j] = "absent"
  /\ phase' = [phase EXCEPT ![j] = "open"]
  /\ UNCHANGED <<tries, rejected, applied>>

Try(j) ==
  /\ phase[j] = "open"
  /\ tries[j] < MaxAttempts
  /\ tries' = [tries EXCEPT ![j] = @ + 1]
  /\ UNCHANGED <<phase, rejected, applied>>

\* The handler's writes and the completion are one atomic step.
Succeed(j) ==
  /\ phase[j] = "open"
  /\ tries[j] > 0
  /\ phase' = [phase EXCEPT ![j] = "done"]
  /\ applied' \in {applied, [applied EXCEPT ![j] = TRUE]}
  /\ UNCHANGED <<tries, rejected>>

\* A job is given up for one of two reasons only.
GiveUp(j) ==
  /\ phase[j] = "open"
  /\ phase' = [phase EXCEPT ![j] = "failed"]
  /\ \/ tries[j] = MaxAttempts /\ UNCHANGED rejected
     \/ rejected' = [rejected EXCEPT ![j] = TRUE]
  /\ UNCHANGED <<tries, applied>>

Cancel(j) ==
  /\ phase[j] = "open"
  /\ phase' = [phase EXCEPT ![j] = "cancelled"]
  /\ UNCHANGED <<tries, rejected, applied>>

Settle(j) == Succeed(j) \/ GiveUp(j) \/ Cancel(j)

Next == \E j \in Jobs : Submit(j) \/ Try(j) \/ Settle(j)

\* Every submitted job settles.
Progress == \A j \in Jobs : (phase[j] = "open") ~> (phase[j] \in Settled)

SafeSpec == Init /\ [][Next]_cvars
Spec == SafeSpec /\ Progress
=============================================================================
