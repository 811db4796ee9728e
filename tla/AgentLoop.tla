------------------------------ MODULE AgentLoop -------------------------------
(***************************************************************************)
(* The bounded loop an agent runs around its deterministic assessment      *)
(* (agents/base.py): model calls reserved against the run's budget         *)
(* (llm/budget.py), investigative tools, one repair, and the merge of the  *)
(* model's submission into the result that validation.py then checks.      *)
(* One task, retried by its job when the provider is unavailable; the      *)
(* run's other tasks are the environment: they use the same budget, and    *)
(* the run may be closed.                                                  *)
(*                                                                         *)
(* Evidence is a pair of an id and what it refers to.  Two tools matter:   *)
(* search_documents, whose passages are numbered within each answer, and   *)
(* simulate_allocation, which adds a candidate action.                     *)
(***************************************************************************)
EXTENDS Integers, SequencesExt, FiniteSetsExt

CONSTANTS
    Base,        \* the assessment's evidence ids; each refers to itself
    Passages,    \* passages a search may find
    Candidates,  \* the assessment's candidate actions, a sequence of ids
    ToolLimit,   \* min(MAX_TOOL_CALLS, constraints.max_tool_calls)
    MaxRepairs,  \* MAX_REPAIR_CALLS
    CallLimit,   \* model_calls_limit of the run
    Attempts,    \* attempts of the task's job
    Longest      \* bound: blocks in one answer of the model

VARIABLES
    phase,       \* of the task: "ready", "asking", "done"
    attempt,
    turn,        \* iterations of the loop in this attempt
    repairs,
    tools,       \* tool calls made in this attempt
    found,       \* evidence the tools added, in order
    actions,     \* candidate actions, in rank order: [id, cites]
    shown,       \* every <<id, referent>> the model was shown in this attempt
    run,         \* [calls |-> model_calls_used, open |-> QUEUED or RUNNING]
    mine,        \* provider calls this task made, over all attempts
    out          \* the result

vars == <<phase, attempt, turn, repairs, tools, found, actions, shown, run, mine, out>>

NoResult == [status |-> "NONE", evidence |-> <<>>, actions |-> <<>>, cited |-> {}]

Ev(id, ref) == [id |-> id, ref |-> ref]
BaseEvidence == SetToSeq({Ev(e, e) : e \in Base})
BaseActions == [i \in DOMAIN Candidates |-> [id |-> Candidates[i], cites |-> Base]]
Ids(evidence) == {e.id : e \in ToSet(evidence)}

\* evidence_by_id of the loop: the assessment's evidence and what tools added.
Known(fs) == Base \cup Ids(fs)

DocId == <<"ev-doc", 1>>      \* the first passage of every search answer
SimId(n) == <<"ev-sim", n>>
SimAction(n) == <<"act-sim", n>>

None == <<"none", 0>>
Unknown == <<"unknown", 0>>

\* What the model may send in one answer.
Selections == {None, Unknown} \cup ToSet(Candidates) \cup {SimAction(1)}
Submissions == [kind : {"submit"}, select : Selections,
                cites : {{}, {DocId}, {SimId(1)}, {Unknown}}]
ToolCalls == [kind : {"search"}, passage : Passages]
             \cup [kind : {"simulate", "refused", "invalid"}]
Answers == SeqOf(Submissions \cup ToolCalls, Longest)

-----------------------------------------------------------------------------
(* Processing one answer, block by block.                                   *)

RegisteredTwice(st, e) ==
    [st EXCEPT !.found = Append(@, e),
               !.shown = @ \cup {<<e.id, e.ref>>},
               !.tools = @ + 1]

\* A tool reports evidence: an id the loop knows already is left as it is.
Registered(st, e) ==
    [st EXCEPT !.found = IF e.id \in Known(@) THEN @ ELSE Append(@, e),
               !.shown = @ \cup {<<e.id, e.ref>>},
               !.tools = @ + 1]

Search(st, passage) == Registered(st, Ev(DocId, passage))

\* The simulated action cites evidence of the assessment only; what the
\* simulation found is returned as tool evidence under an id of its own.
SimulatedCites(n) == Base
SimulatedIn(acts) == {i \in DOMAIN acts : acts[i].id \notin ToSet(Candidates)}
Simulate(st) ==
    LET n == Cardinality(SimulatedIn(st.actions)) + 1
    IN [Registered(st, Ev(SimId(n), SimId(n)))
            EXCEPT !.actions = Append(@, [id |-> SimAction(n), cites |-> SimulatedCites(n)])]

\* A handler that raises ToolError has been called, and counts.
Refused(st) == [st EXCEPT !.tools = @ + 1]

\* _validate_submission
Accepts(st, call) ==
    /\ call.select = None \/ call.select \in {a.id : a \in ToSet(st.actions)}
    /\ call.cites \subseteq Known(st.found)

Block(st, call) ==
    CASE call.kind = "submit" ->
            IF Accepts(st, call) THEN [st EXCEPT !.submitted = <<call>>]
            ELSE [st EXCEPT !.problems = @ \cup {call}]
      [] call.kind = "invalid" -> st      \* unknown tool, arguments that do not parse
      [] call.kind \in {"search", "simulate", "refused"} /\ st.tools >= ToolLimit -> st
      [] call.kind = "search" /\ st.tools < ToolLimit -> Search(st, call.passage)
      [] call.kind = "simulate" /\ st.tools < ToolLimit -> Simulate(st)
      [] OTHER -> Refused(st)

Processed(answer) ==
    LET st[i \in 0..Len(answer)] ==   \* after i blocks
          IF i = 0
          THEN [tools |-> tools, found |-> found, actions |-> actions, shown |-> shown,
                submitted |-> <<>>, problems |-> {}]
          ELSE Block(st[i - 1], answer[i])
    IN  st[Len(answer)]

-----------------------------------------------------------------------------
(* Results                                                                  *)

\* _reranked: the selected action first, the rest in their order.
Reranked(acts, id) ==
    IF id \notin {a.id : a \in ToSet(acts)} THEN acts
    ELSE LET i == CHOOSE i \in DOMAIN acts : acts[i].id = id
         IN  <<acts[i]>> \o RemoveAt(acts, i)

Merged(st) ==
    LET call == st.submitted[1]
    IN [status |-> "SUCCEEDED", evidence |-> BaseEvidence \o st.found,
        actions |-> Reranked(st.actions, call.select), cited |-> call.cites]

\* _degraded keeps the assessment, with the actions tools added to it, and
\* drops the evidence of the tools.
Degraded(acts) == [status |-> "DEGRADED", evidence |-> BaseEvidence,
                   actions |-> acts, cited |-> {}]
FailedResult == [NoResult EXCEPT !.status = "FAILED"]

Finish(result) == phase' = "done" /\ out' = result

-----------------------------------------------------------------------------
(* The loop                                                                 *)

Fresh == /\ turn' = 0 /\ repairs' = 0 /\ tools' = 0
         /\ found' = <<>> /\ actions' = BaseActions /\ shown' = {}

\* The top of an iteration: deadline, iterations left, reserve_model_call.
Local == <<attempt, turn, repairs, tools, found, actions, shown, mine>>

DeadlinePasses == /\ phase = "ready"
                  /\ Finish(FailedResult)
                  /\ UNCHANGED <<Local, run>>

CanReserve == run.open /\ run.calls < CallLimit

Reserve ==
    /\ phase = "ready"
    /\ turn < ToolLimit + 2 + MaxRepairs
    /\ \/ /\ CanReserve
          /\ run' = [run EXCEPT !.calls = @ + 1]
          /\ phase' = "asking"
          /\ UNCHANGED out
       \/ /\ ~CanReserve
          /\ Finish(Degraded(actions))
          /\ UNCHANGED run
    /\ UNCHANGED Local

OutOfTurns == /\ phase = "ready"
              /\ turn >= ToolLimit + 2 + MaxRepairs
              /\ Finish(Degraded(actions))
              /\ UNCHANGED <<Local, run>>

\* The provider refuses or its answer cannot be used.
ProviderRefuses == /\ phase = "asking"
                   /\ Finish(Degraded(actions))
                   /\ UNCHANGED <<Local, run>>

\* Unavailable or rate limited: the attempt ends, and the next one starts
\* over; after the last one the exhaustion hook assesses without a model.
ProviderUnavailable ==
    /\ phase = "asking"
    /\ IF attempt < Attempts
       THEN /\ attempt' = attempt + 1
            /\ phase' = "ready"
            /\ Fresh
            /\ UNCHANGED out
       ELSE /\ Finish(Degraded(BaseActions))
            /\ UNCHANGED <<attempt, turn, repairs, tools, found, actions, shown>>
    /\ UNCHANGED <<run, mine>>

Repaired == IF repairs >= MaxRepairs
            THEN /\ Finish(Degraded(actions'))
                 /\ UNCHANGED repairs
            ELSE /\ repairs' = repairs + 1
                 /\ phase' = "ready"
                 /\ UNCHANGED out

Respond(answer) ==
    /\ phase = "asking"
    /\ mine' = mine + 1
    /\ turn' = turn + 1
    /\ LET st == Processed(answer)
       IN /\ tools' = st.tools /\ found' = st.found
          /\ actions' = st.actions /\ shown' = st.shown
          /\ IF st.submitted # <<>>
             THEN Finish(Merged(st)) /\ UNCHANGED repairs
             ELSE IF answer = <<>> \/ st.problems # {}
                  THEN Repaired
                  ELSE phase' = "ready" /\ UNCHANGED <<repairs, out>>
    /\ UNCHANGED <<attempt, run>>

\* The run's other tasks reserve calls, and the run may be closed.
OtherTaskCalls == /\ phase # "done"
                  /\ CanReserve
                  /\ run' = [run EXCEPT !.calls = @ + 1]
                  /\ UNCHANGED <<phase, Local, out>>
RunCloses == /\ run.open /\ phase # "done"
             /\ run' = [run EXCEPT !.open = FALSE]
             /\ UNCHANGED <<phase, Local, out>>

Init ==
    /\ phase = "ready" /\ attempt = 1
    /\ turn = 0 /\ repairs = 0 /\ tools = 0
    /\ found = <<>> /\ actions = BaseActions /\ shown = {}
    /\ run = [calls |-> 0, open |-> TRUE]
    /\ mine = 0 /\ out = NoResult

Next ==
    \/ Reserve \/ OutOfTurns \/ DeadlinePasses
    \/ ProviderRefuses \/ ProviderUnavailable
    \/ \E answer \in Answers : Respond(answer)
    \/ OtherTaskCalls \/ RunCloses

Spec == Init /\ [][Next]_vars

-----------------------------------------------------------------------------
(* Properties                                                               *)

\* Every result the loop can return, degraded or merged, passes the server's
\* own validation (validation.py 182-231): no evidence id is declared twice
\* and everything cited is declared; and it is built on the assessment: all
\* its evidence, and each candidate action exactly once.
ResultIsValid ==
    out.status \in {"SUCCEEDED", "DEGRADED"} =>
        /\ \A i, j \in DOMAIN out.evidence : out.evidence[i].id = out.evidence[j].id => i = j
        /\ Base \subseteq Ids(out.evidence)
        /\ out.cited \subseteq Ids(out.evidence)
        /\ \A i \in DOMAIN out.actions :
              /\ out.actions[i].cites \subseteq Ids(out.evidence)
              /\ \A j \in DOMAIN out.actions : out.actions[i].id = out.actions[j].id => i = j
        /\ ToSet(Candidates) \subseteq {a.id : a \in ToSet(out.actions)}

\* agent_tool.py 13-15: "the model can only ever cite one of the evidence_ids
\* handed back here": an id in the result denotes the record the model was
\* shown under it.
CitationMeansWhatWasShown ==
    \A e \in ToSet(out.evidence) :
        e.id \in out.cited => \A s \in shown : s[1] = e.id => s[2] = e.ref
===============================================================================
