------------------------- MODULE MCRunOrchestration -------------------------
(* One run with two advancers for TLC. *)
EXTENDS RunOrchestration, TLC

CONSTANTS a1, a2

Slots == {a1, a2}

OneSlot == {a1}

SlotSymmetry == Permutations(Slots)

\* Where the graph branches on a result: rm0 and the plans.
Branching == [t \in Tasks |->
  CASE t = "planning0" -> {"DEGRADED", "FAILED"}
    [] t \in {"rm0", "planning1", "rm1"} -> {"SUCCEEDED", "FAILED"}
    [] OTHER -> {"SUCCEEDED"}]

Shortage == {"uncovered"}

Covered == {"covered"}

NoFailures == [t \in Tasks |-> {"SUCCEEDED"}]
=============================================================================
