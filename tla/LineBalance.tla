------------------------------ MODULE LineBalance ------------------------------
(***************************************************************************)
(* The throughput model of a line and style: cycle observations and        *)
(* outliers (domain/ie/service), the representative cycle and the line     *)
(* balance (domain/ie/calc), and what the industrial engineering agent     *)
(* reports when only some of the operations have enough samples            *)
(* (agents/ie/agent).                                                      *)
(*                                                                         *)
(* Seconds are integers.  A median of an even number of samples is the     *)
(* mean of two, so cycles are kept in half seconds, and an effective cycle *)
(* is compared with another by cross multiplication.                       *)
(***************************************************************************)
EXTENDS Integers, Functions

CONSTANTS
    Operations,    \* number of operations, in routing sequence
    Operators,     \* operation -> parallel operators
    Seconds,       \* observable cycle times
    MinSamples,    \* MIN_SAMPLES
    MaxSamples,    \* bound: observations of an operation that count
    PlannedCycle   \* effective seconds per unit at CAPACITY_WARNING_RATIO of the SAM capacity

VARIABLES
    samples        \* operation -> seconds -> observations in the window, outliers left out

Ops == 1..Operations

\* cycle_observations that count: of the window, and no outliers.
ObservationRows == [Ops -> [Seconds -> 0..MaxSamples]]

TypeOK == samples \in ObservationRows

Count(o) == SumFunctionOnSet(samples[o], Seconds)
Measured(o) == Count(o) >= MinSamples
MeasuredOps == {o \in Ops : Measured(o)}

\* The k-th smallest sample: the shortest time that k of them do not exceed.
AtMost(o, sec) == SumFunctionOnSet(samples[o], {s \in Seconds : s <= sec})
Kth(o, k) == CHOOSE sec \in Seconds :
                /\ AtMost(o, sec) >= k
                /\ \A s \in Seconds : AtMost(o, s) >= k => sec <= s

\* representative_cycle_seconds: the median, in half seconds.
Representative(o) ==
    LET n == Count(o)
    IN IF n % 2 = 1 THEN 2 * Kth(o, (n + 1) \div 2)
                    ELSE Kth(o, n \div 2) + Kth(o, n \div 2 + 1)

\* effective_cycle_seconds of o is longer than that of p.
Slower(o, p) == Representative(o) * Operators[p] > Representative(p) * Operators[o]

Fastest == CHOOSE o \in MeasuredOps :
              \A p \in MeasuredOps \ {o} : ~Slower(o, p) /\ (p < o => Slower(p, o))

\* line_balance: the first of the slowest.
Bottleneck == CHOOSE o \in MeasuredOps :
                 \A p \in MeasuredOps \ {o} : ~Slower(p, o) /\ (p < o => Slower(o, p))

\* _capacity: LINE_CAPACITY_BELOW_PLAN
BelowPlan == /\ MeasuredOps # {}
             /\ Representative(Bottleneck) > 2 * PlannedCycle * Operators[Bottleneck]

\* INSUFFICIENT_SAMPLES, and the assessment is not complete.
Partial == MeasuredOps # Ops

Record(o, sec) ==
    /\ Count(o) < MaxSamples
    /\ samples' = [samples EXCEPT ![o][sec] = @ + 1]

\* mark_outlier, or the observation leaves the window: it counts no more.
Discount(o, sec) ==
    /\ samples[o][sec] > 0
    /\ samples' = [samples EXCEPT ![o][sec] = @ - 1]

Init == samples = [o \in Ops |-> [sec \in Seconds |-> 0]]

Next == \E o \in Ops, sec \in Seconds : Record(o, sec) \/ Discount(o, sec)

Spec == Init /\ [][Next]_samples

-----------------------------------------------------------------------------
(* Properties                                                               *)

\* A warning that a line is below plan, raised while some operations lack
\* samples, is not withdrawn because another operation gets its samples: the
\* figures of a partial coverage overstate the line, never understate it
\* (agents/ie/agent: "Partial coverage: the same domain function over the
\* measured subset").
NewlyMeasured == \E o \in Ops : ~Measured(o) /\ Measured(o)'
WarningsStand == [][(BelowPlan /\ NewlyMeasured) => BelowPlan']_samples
===============================================================================
