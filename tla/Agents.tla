------------------------------- MODULE Agents --------------------------------
(***************************************************************************)
(* What the agents of a run compute, side by side: the numbers of Analysis, *)
(* the loop of one task around a model, and the throughput of a line.  Each *)
(* has variables of its own.                                                *)
(***************************************************************************)
EXTENDS Analysis

CONSTANTS
  Base, Passages, Candidates, ToolLimit, MaxRepairs, CallLimit, Attempts, Longest,  \* AgentLoop
  Operations, Operators, Seconds, MinSamples, MaxSamples, PlannedCycle              \* LineBalance

VARIABLES
  phase, attempt, turn, repairs, tools, found, actions, shown, run, mine, out,
  samples

Looping == INSTANCE AgentLoop

Lines == INSTANCE LineBalance

\* An assessment cites finitely many records and names its candidates apart,
\* and from what simulate_allocation adds.
ASSUME AgentsAssumption ==
  /\ IsFiniteSet(Base)
  /\ Candidates \in Seq({Candidates[i] : i \in DOMAIN Candidates})
  /\ \A i, j \in DOMAIN Candidates : Candidates[i] = Candidates[j] => i = j
  /\ \A i \in DOMAIN Candidates : Candidates[i] \notin {"act-sim"} \X Nat
  /\ Longest \in Nat

\* Every operation has operators and is timed in seconds; the median is of one
\* sample at least.
ASSUME LinesAssumption ==
  /\ Operations \in Nat /\ Operators \in [1..Operations -> Nat \ {0}]
  /\ Seconds \subseteq Int /\ IsFiniteSet(Seconds)
  /\ MinSamples \in Nat \ {0} /\ MaxSamples \in Nat /\ PlannedCycle \in Int

loop == <<phase, attempt, turn, repairs, tools, found, actions, shown, run, mine, out>>

AgentsVars == <<vars, loop, samples>>

AgentsInit == Init /\ Looping!Init /\ Lines!Init

AnalysisStep == Next /\ UNCHANGED <<loop, samples>>
LoopStep == Looping!Next /\ UNCHANGED <<vars, samples>>
LineStep == Lines!Next /\ UNCHANGED <<vars, loop>>

AgentsNext == AnalysisStep \/ LoopStep \/ LineStep

AgentsSpec == AgentsInit /\ [][AgentsNext]_AgentsVars

-------------------------------------------------------------------------------
(* Properties *)

\* AgentLoop: what the loop returns passes the server's validation.
ResultIsValid == Looping!ResultIsValid

\* LineBalance: partial figures never hide a warning.
WarningsStand == []Lines!TypeOK /\ Lines!WarningsStand
===============================================================================
