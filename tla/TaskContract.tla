---------------------------- MODULE TaskContract ----------------------------
(***************************************************************************)
(* What an agent task promises to the run it belongs to, without jobs,     *)
(* leases or attempts: it gets at most one result, a result and the        *)
(* wake-up of its run come in one step, a finished task is finished by its *)
(* result, and only the end of the run cancels it.                         *)
(***************************************************************************)
VARIABLES status,    \* agent_tasks.status
          result,    \* agent_results.status
          woken      \* an advance job for run:<id>:after:<task> was enqueued

tvars == <<status, result, woken>>

Active == {"PENDING", "RUNNING"}

Init == status = "PENDING" /\ result = "none" /\ woken = FALSE

Begin ==
  /\ status = "PENDING"
  /\ status' = "RUNNING"
  /\ UNCHANGED <<result, woken>>

\* A result that comes after the cancellation is kept, but does not count.
Report(r) ==
  /\ result = "none"
  /\ result' = r
  /\ woken' = TRUE
  /\ status' = IF status \in Active
               THEN IF r = "FAILED" THEN "FAILED" ELSE "SUCCEEDED"
               ELSE status

Cancel ==
  /\ status \in Active
  /\ status' = "CANCELLED"
  /\ UNCHANGED <<result, woken>>

Next == Begin \/ Cancel \/ \E r \in {"SUCCEEDED", "DEGRADED", "FAILED"} : Report(r)

SafeSpec == Init /\ [][Next]_tvars
=============================================================================
