------------------------------- MODULE Analysis -------------------------------
(***************************************************************************)
(* The numbers of one analysis run: what the snapshot hands to the agents, *)
(* the material readiness (agents/rm), the candidate plans and their       *)
(* ranking (agents/planning, domain/planning/calc), the one replan, the    *)
(* validation of the chosen plan, and what is left at the end of the run:  *)
(* the recommendation (orchestration/recommendations) and the material     *)
(* state of the report (orchestration/synthesis).                          *)
(*                                                                         *)
(* Everything is an integer.  Minutes are multiples of the smallest        *)
(* fraction the instance uses (0.0001 in the code, the places of a SAM); a *)
(* slot can store multiples of Step of them (numeric(12,2) in the code,    *)
(* calc.ALLOCATABLE_PLACES).  A planned quantity of units is kept as the   *)
(* standard minutes it takes, so n units are n * Sam; a quantity of        *)
(* material is scaled by Sam for the same reason.  The code divides by the *)
(* SAM with 28 digits: what its quotients lose, some 1E-26 units, is an    *)
(* infinitesimal here.  It is 0 minutes in every sum, and counts where the *)
(* code compares what is left, or what was placed, exactly: Residue and    *)
(* Shortfall.  Day 0 is the day the snapshot was taken.                    *)
(***************************************************************************)
EXTENDS Integers, FiniteSets, SequencesExt, FiniteSetsExt

CONSTANTS
    Worlds,      \* the records a snapshot may find: see the MC module
    Materials,   \* the materials of the order's BOM
    Sam,         \* standard minutes per unit, > 0
    Step,        \* the minutes a slot can store are multiples of Step
    Parts,       \* the parts of a unit that an allocation can store
    Residue(_),  \* rows that are the whole target leave something above 0
    Shortfall(_) \* the quotients of these rows add up to less than the whole

\* The CHECKs and unique keys of the tables a snapshot is read from: quantities
\* of BOM lines are positive, nothing is reserved beyond what is on hand, a line
\* has one slot per day and shift.
ASSUME AnalysisAssumption ==
  /\ Sam \in Nat \ {0} /\ Step \in Nat \ {0} /\ Parts \in Nat \ {0}
  /\ IsFiniteSet(Materials) /\ ~Residue(<<>>)
  /\ \A w \in Worlds :
       /\ w.units \in Nat /\ w.due \in Int
       /\ IsFiniteSet(w.slots)
       /\ \A s \in w.slots : /\ s.line \in Int /\ s.day \in Int /\ s.shift \in Int
                             /\ s.raw \in Int /\ s.booked \in Int
       /\ \A s, t \in w.slots :
            s.line = t.line /\ s.day = t.day /\ s.shift = t.shift => s = t
       /\ \A m \in Materials :
            /\ w.mats[m].per \in Nat \ {0}
            /\ w.mats[m].onHand \in Nat /\ w.mats[m].reserved \in 0..w.mats[m].onHand

VARIABLES
    world,       \* the order, its BOM, the balances and the slots
    result,      \* agent task -> its result
    proposal,    \* the recommendation of the run
    report       \* the material state of the run's report

vars == <<world, result, proposal, report>>

Tasks == {"rm0", "ie0", "planning0", "planning1", "rm1"}

\* A result: rank order is the order of actions.
Blank == [status |-> "PENDING", actions |-> <<>>, chosen |-> FALSE,
          coverable |-> -1, findings |-> {}, complete |-> TRUE,
          risky |-> {}, reserved |-> [m \in Materials |-> 0]]
Failed == [Blank EXCEPT !.status = "FAILED"]

NoProposal == [rows |-> <<>>, reserved |-> [m \in Materials |-> 0], exists |-> FALSE]

Usable(t) == result[t].status \in {"SUCCEEDED", "DEGRADED"}
Finished(t) == result[t].status # "PENDING"

-----------------------------------------------------------------------------
(* The snapshot: the lines with every skill of the style's operations (none *)
(* for a style without operations), their slots from today to the due date, *)
(* and what is free in each, floored to a storable amount.                  *)

FreeUnfloored(s) == IF s.raw > s.booked THEN s.raw - s.booked ELSE 0

Free(s) == LET free == s.raw - s.booked
           IN IF free > 0 THEN free - (free % Step) ELSE 0

\* What capacity.allocate books for minutes: rounded half up.  It refuses a row
\* of which no minutes or no units are left (units to 1/Parts, half up).
Stored(minutes) == ((2 * minutes + Step) \div (2 * Step)) * Step
Refused(minutes) == Stored(minutes) = 0 \/ 2 * Parts * minutes < Sam

Compatible == IF world.skills = {} THEN {}
              ELSE {l \in DOMAIN world.lines : world.skills \subseteq world.lines[l]}

\* The balance, reservations and expected receipts of a BOM material.
Stock(m) == world.mats[m]

\* The BOM's usage per unit with its wastage, in the stock unit.
PerUnit(m) == Stock(m).per

SnapshotSlots == {s \in world.slots : s.line \in Compatible
                                      /\ 0 <= s.day /\ s.day <= world.due}

LineFirst(s, t) == \/ s.line < t.line
                   \/ s.line = t.line /\ s.day < t.day
                   \/ s.line = t.line /\ s.day = t.day /\ s.shift < t.shift

Earlier(s, t) == \/ s.day < t.day
                 \/ s.day = t.day /\ s.shift < t.shift
                 \/ s.day = t.day /\ s.shift = t.shift /\ s.line < t.line

\* plan_earliest_slots: fill the eligible slots in order until the target is met
\* and the quotients have left nothing; a residue takes 0 minutes of one more slot.
Required == world.units * Sam
Met(acc) == acc.left < 0 \/ (acc.left = 0 /\ ~Residue(acc.rows))
Fill(acc, s) ==
    IF Met(acc) THEN acc
    ELSE LET take == Min({acc.left, Free(s)})
         IN [left |-> acc.left - take,
             rows |-> Append(acc.rows, [slot |-> s, minutes |-> take])]
Filled(target, slots) ==
    LET after[i \in 0..Len(slots)] ==      \* the first i slots
          IF i = 0 THEN [left |-> target, rows |-> <<>>] ELSE Fill(after[i - 1], slots[i])
    IN  after[Len(slots)]

\* The members of S in ascending order of what is Prior.
Listed(S, Prior(_, _)) ==
    CHOOSE f \in [1..Cardinality(S) -> S] : \A i, j \in DOMAIN f : i < j => Prior(f[i], f[j])

Open(lines) == {s \in SnapshotSlots : s.line \in lines /\ Free(s) > 0}
Eligible(lines) == Listed(Open(lines), Earlier)

PlanEarliest(lines, target) ==
    LET filled  == Filled(target, Eligible(lines))
        minutes == target - filled.left
    IN [rows |-> filled.rows, minutes |-> minutes,
        full |-> minutes >= Required /\ ~Shortfall(filled.rows),
        reason |-> IF ~\E s \in SnapshotSlots : s.line \in lines THEN "NO_COMPATIBLE_LINE"
                   ELSE IF filled.left > 0 THEN "INSUFFICIENT_CAPACITY_BEFORE_DUE_DATE"
                   ELSE IF target < Required THEN "LIMITED_BY_MATERIAL"
                   ELSE "NONE"]

-----------------------------------------------------------------------------
(* The planning agent: candidates, duplicates dropped, ranked.              *)

LinesOf(rows) == {rows[i].slot.line : i \in DOMAIN rows}
Option(code, plan) == [code |-> code, plan |-> plan]

Remaining(line) ==
    MapThenSumSet(Free, {s \in SnapshotSlots : s.line = line})
BestLine == CHOOSE l \in Compatible :
                \A k \in Compatible \ {l} :
                    \/ Remaining(l) > Remaining(k)
                    \/ Remaining(l) = Remaining(k) /\ l > k

Target(cap) == IF cap = -1 THEN Required ELSE Min({Required, cap * Sam})

\* The fingerprint of an option is its rows; the first of equal ones is kept.
Options(coverable) ==
    LET full    == Option("FULL_EARLIEST", PlanEarliest(Compatible, Required))
        limited == Option("MATERIAL_LIMITED", PlanEarliest(Compatible, Target(coverable)))
        single  == Option("SINGLE_LINE", PlanEarliest({BestLine}, Required))
        capped  == IF coverable # -1 /\ limited.plan.rows # full.plan.rows THEN {limited} ELSE {}
    IN {full} \cup capped
         \cup (IF \A o \in {full} \cup capped : o.plan.rows # single.plan.rows
               THEN {single} ELSE {})

CodeOrder == [c \in {"FULL_EARLIEST", "MATERIAL_LIMITED", "SINGLE_LINE"} |->
                 CASE c = "FULL_EARLIEST" -> 1 [] c = "MATERIAL_LIMITED" -> 2 [] OTHER -> 3]
NoDate == 99
FinishDay(plan) == IF plan.rows = <<>> THEN NoDate ELSE Last(plan.rows).slot.day

RankByTargetFirst(o, revise, risky) ==
    << 1, IF o.plan.full THEN 0 ELSE 1, FinishDay(o.plan),
       Cardinality(LinesOf(o.plan.rows)),
       IF LinesOf(o.plan.rows) \cap risky # {} THEN 1 ELSE 0, CodeOrder[o.code] >>

RankKey(o, revise, risky) ==
    << IF revise /\ o.code = "MATERIAL_LIMITED" THEN 0 ELSE 1,
       IF o.plan.full THEN 0 ELSE 1,
       FinishDay(o.plan),
       Cardinality(LinesOf(o.plan.rows)),
       IF LinesOf(o.plan.rows) \cap risky # {} THEN 1 ELSE 0,
       CodeOrder[o.code] >>
Before(a, b) == \E i \in DOMAIN a : a[i] < b[i] /\ \A j \in 1..(i - 1) : a[j] = b[j]

Ranked(options, revise, risky) ==
    Listed(options, LAMBDA a, b : Before(RankKey(a, revise, risky), RankKey(b, revise, risky)))

\* assess: without a compatible line there is nothing to propose.
PlanningActions(revise) ==
    IF Compatible = {} THEN <<>>
    ELSE Ranked(Options(IF Usable("rm0") THEN result["rm0"].coverable ELSE -1),
                revise,
                IF Usable("ie0") THEN result["ie0"].risky ELSE {})

\* simulate_allocation adds a candidate the model asked for ...
Simulated ==
    {Option("SIMULATED", PlanEarliest(ls, Target(cap))) :
        ls \in (SUBSET Compatible) \ {{}}, cap \in 0..world.units}
\* ... and submit_assessment moves the chosen candidate to rank 0 (_reranked).
Reranked(actions, i) == <<actions[i]>> \o RemoveAt(actions, i)

\* What the planning agent may answer: the deterministic ranking (no model,
\* a budget or a refusal), or the model's choice among the candidates.
PlanningResults(revise) ==
    LET ranked == PlanningActions(revise)
        longer == {Append(ranked, s) : s \in IF ranked = <<>> THEN {} ELSE Simulated}
        ok(status, actions, chosen) == [Blank EXCEPT !.status = status,
                                        !.actions = actions, !.chosen = chosen]
    IN {ok("DEGRADED", ranked, FALSE), ok("SUCCEEDED", ranked, FALSE), Failed}
         \cup UNION {{ok("SUCCEEDED", Reranked(a, i), TRUE) : i \in DOMAIN a} :
                     a \in {ranked} \cup longer}

-----------------------------------------------------------------------------
(* The material agent.  Stock the order itself has reserved is not counted. *)

Known == {m \in Materials : Stock(m).convertible}
Available(m) == IF Stock(m).balance THEN Stock(m).onHand - Stock(m).reserved ELSE 0
Demand(m, minutes) == minutes * PerUnit(m)                \* scaled by Sam
Short(m, minutes) == Demand(m, minutes) > Available(m) * Sam
ReceivedBy(receipts, day) ==
    MapThenSumSet(LAMBDA r : r[2], {r \in receipts : r[1] <= day})
\* The demand is dated today, so it counts only when the due date has not passed.
ProjectedShort(m, minutes) ==
    (Available(m) + ReceivedBy(Stock(m).receipts, world.due)) * Sam
        < (IF 0 <= world.due THEN Demand(m, minutes) ELSE 0)

Coverable(m) == IF Available(m) <= 0 THEN 0 ELSE Available(m) \div PerUnit(m)

MaterialFindings ==
    {"UNIT_CONVERSION_MISSING" : m \in Materials \ Known}
    \cup {IF ProjectedShort(m, Required) THEN "MATERIAL_SHORTAGE" ELSE "MATERIAL_AT_RISK" :
          m \in {n \in Known : Short(n, Required)}}

Readiness ==
    [Blank EXCEPT !.status = "SUCCEEDED",
        !.coverable = IF Known = {} THEN world.units ELSE Min({Coverable(m) : m \in Known}),
        !.findings = MaterialFindings,
        !.complete = \A m \in Materials : Stock(m).convertible /\ Stock(m).balance]

\* _validate_plan: reserve what there is for the units of the rank-0 allocation.
Reservable(minutes) ==
    [m \in Materials |->
        IF m \in Known /\ Stock(m).balance
        THEN Min({Demand(m, minutes), Available(m) * Sam}) ELSE 0]
Validation(minutes) ==
    [Blank EXCEPT !.status = "SUCCEEDED",
        !.reserved = Reservable(minutes),
        !.findings = {"PLAN_MATERIAL_SHORT" : m \in {n \in Known : Short(n, minutes)}}]

-----------------------------------------------------------------------------
(* The orchestrator's decisions.                                            *)

TopMinutes(t) == IF Usable(t) /\ result[t].actions # <<>>
                 THEN result[t].actions[1].plan.minutes ELSE 0
NeedsReplan == /\ Usable("planning0") /\ result["planning0"].actions # <<>>
               /\ Usable("rm0")
               /\ TopMinutes("planning0") > result["rm0"].coverable * Sam
FinalPlanning == IF NeedsReplan THEN "planning1" ELSE "planning0"
ChainDone == Finished(FinalPlanning) /\ (TopMinutes(FinalPlanning) > 0 => Finished("rm1"))

Answer(t, results) == /\ ~Finished(t)
                      /\ \E r \in results : result' = [result EXCEPT ![t] = r]
                      /\ UNCHANGED <<world, proposal, report>>

AssessMaterials == Answer("rm0", {Readiness, Failed})
AssessLines == Answer("ie0", {[Blank EXCEPT !.status = "SUCCEEDED", !.risky = world.risky], Failed})
Propose == /\ Finished("rm0") /\ Finished("ie0")
           /\ Answer("planning0", PlanningResults(FALSE))
Revise == /\ Finished("planning0") /\ NeedsReplan
          /\ Answer("planning1", PlanningResults(TRUE))
Validate == /\ Finished("planning0") /\ Finished(FinalPlanning)
            /\ TopMinutes(FinalPlanning) > 0
            /\ Answer("rm1", {Validation(TopMinutes(FinalPlanning)), Failed})

-----------------------------------------------------------------------------
(* _finalize: the recommendation and the report.                            *)

Severity == [s \in {"READY", "AT_RISK", "SHORTAGE", "UNKNOWN"} |->
               CASE s = "READY" -> 0 [] s = "AT_RISK" -> 1 [] s = "SHORTAGE" -> 2 [] OTHER -> 3]
Worst(states) == IF states = {} THEN "UNKNOWN"
                 ELSE CHOOSE s \in states : \A t \in states : Severity[t] <= Severity[s]

StateOfFinding == [c \in {"MATERIAL_SHORTAGE", "MATERIAL_AT_RISK", "UNIT_CONVERSION_MISSING"} |->
                     CASE c = "MATERIAL_SHORTAGE" -> "SHORTAGE"
                       [] c = "MATERIAL_AT_RISK" -> "AT_RISK" [] OTHER -> "UNKNOWN"]
ReportedState ==
    IF ~Usable("rm0") THEN "UNKNOWN"
    ELSE IF result["rm0"].findings = {}
         THEN IF result["rm0"].complete THEN "READY" ELSE "UNKNOWN"
         ELSE Worst({StateOfFinding[c] : c \in result["rm0"].findings})

Finalize ==
    /\ report = "NONE"
    /\ Finished("planning0") /\ ChainDone
    /\ report' = ReportedState
    /\ proposal' = IF TopMinutes(FinalPlanning) > 0
                   THEN [rows |-> result[FinalPlanning].actions[1].plan.rows,
                         reserved |-> result["rm1"].reserved, exists |-> TRUE]
                   ELSE NoProposal
    /\ UNCHANGED <<world, result>>

Init == /\ world \in Worlds
        /\ result = [t \in Tasks |-> Blank]
        /\ proposal = NoProposal
        /\ report = "NONE"

Next == AssessMaterials \/ AssessLines \/ Propose \/ Revise \/ Validate \/ Finalize

Spec == Init /\ [][Next]_vars

-----------------------------------------------------------------------------
(* What the order detail shows (readiness.recompute_material_states) for    *)
(* the same records: the order may use its own reservations, an overdue     *)
(* order's demand is dated at its due date, no balance is UNKNOWN.          *)

OrderLineState(m) ==
    LET mat       == Stock(m)
        usable    == mat.onHand - mat.reserved + mat.own
        demand    == Demand(m, Required)
    IN CASE ~mat.convertible \/ ~mat.balance -> "UNKNOWN"
         [] mat.convertible /\ mat.balance /\ demand <= usable * Sam -> "READY"
         [] mat.convertible /\ mat.balance /\ demand > usable * Sam
              /\ (usable + ReceivedBy(mat.receipts, world.due)) * Sam < demand -> "SHORTAGE"
         [] OTHER -> "AT_RISK"
OrderState == Worst({OrderLineState(m) : m \in Materials})

-----------------------------------------------------------------------------
(* Properties                                                               *)

\* Whatever the ranking, the replan or the model's choice did, the proposal
\* can be booked on the records it was computed from, but for its end: each
\* slot still holds its minutes as capacity.allocate rounds them, no slot is
\* booked twice, no balance is asked for more than it has free, and when a row
\* rounds to nothing the order was placed with it: what follows is residue
\* (calc.py 154-177, capacity/service.py 197-200, recommendations.py 81-174).
ProposalFitsSnapshot ==
    proposal.exists =>
        /\ \A i \in DOMAIN proposal.rows :
              LET row == proposal.rows[i]
              IN /\ row.minutes >= 0
                 /\ row.slot.booked + Stored(row.minutes) <= row.slot.raw
                 /\ \A j \in DOMAIN proposal.rows :
                       /\ row.slot = proposal.rows[j].slot => i = j
                       /\ Stored(row.minutes) = 0 /\ i < j => proposal.rows[j].minutes = 0
        /\ \A m \in Materials : proposal.reserved[m] <= Available(m) * Sam

\* calc.py 46-51 and docs/IMPLEMENTATION_STATUS.md 2191-2192: "Flooring the free
\* remainder to what a slot can store removes those rows", the rows
\* capacity.allocate refuses.
EveryRowIsBookable ==
    proposal.exists => \A i \in DOMAIN proposal.rows : ~Refused(proposal.rows[i].minutes)

\* The greedy plan against its definition: no assignment of minutes to the
\* open slots schedules more of the order, and none that schedules as much is
\* done on an earlier day than the plan has work on; only a row of residue may
\* be later (calc.plan_earliest_slots).  Read off the first answer of the
\* planning agent.
Assignments == [SnapshotSlots -> 0..Required]
EarliestIsBest ==
    (Finished("planning0") /\ ~Finished("planning1") /\ ~Finished("rm1")
       /\ report = "NONE" /\ result["planning0"].status = "DEGRADED") =>
        \A k \in DOMAIN result["planning0"].actions :
            LET o == result["planning0"].actions[k]
            IN o.code = "FULL_EARLIEST" =>
                \A a \in Assignments :
                    LET total == MapThenSumSet(LAMBDA s : a[s], DOMAIN a)
                        days  == {s.day : s \in {r \in DOMAIN a : a[r] > 0}}
                    IN (total <= Required /\ \A s \in DOMAIN a : a[s] <= Free(s)) =>
                        /\ total <= o.plan.minutes
                        /\ total = o.plan.minutes =>
                             \A i \in DOMAIN o.plan.rows :
                                o.plan.rows[i].minutes > 0 =>
                                    \E d \in days : o.plan.rows[i].slot.day <= d

\* calc.py 59-69 and planning/agent.py 139-147: a plan that schedules the whole
\* order counts as full, and its finish date is the day its last unit is made.
WholeIsFull ==
    \A k \in DOMAIN result["planning0"].actions :
        LET plan == result["planning0"].actions[k].plan
        IN plan.minutes = Required =>
             plan.full /\ (plan.rows # <<>> => Last(plan.rows).minutes > 0)

\* Unless the model chose another candidate, the plan that is validated and
\* proposed never needs more of a material than can be reserved for it: the
\* replan and its preference for the material-limited option leave no
\* PLAN_MATERIAL_SHORT, and every unit proposed is covered.  It takes the
\* coverable units of one agent, the ranking of another and the orchestrator's
\* comparison to agree (orchestrator.needs_replan, planning/agent._rank_key).
FinalPlanIsCovered ==
    (/\ Finished("rm1") /\ result["rm1"].status # "FAILED"
     /\ Usable("rm0") /\ ~result[FinalPlanning].chosen) =>
        /\ result["rm1"].findings = {}
        /\ \A m \in Known : result["rm1"].reserved[m] = Demand(m, TopMinutes(FinalPlanning))

\* synthesis.py 131-137: round 1 "never changes what the order detail and this
\* report agree the material state is".
ReportAgreesWithOrder == (report # "NONE" /\ Usable("rm0")) => report = OrderState

\* The order has BOM lines, is not overdue and has reserved nothing, and what
\* is converted has its balance.
ReadAlike ==
    /\ Materials # {} /\ 0 <= world.due
    /\ \A m \in Materials : /\ Stock(m).own = 0
                            /\ Stock(m).convertible => Stock(m).balance

\* The disagreement has no other cause than those: where both read the same
\* figures, the worst finding of the agent and the worst line of the order
\* detail are the same state, whatever is short, at risk or not convertible
\* (synthesis._material_state, readiness.recompute_material_states).
AgreesWhereReadAlike ==
    (report # "NONE" /\ Usable("rm0") /\ ReadAlike) => report = OrderState
===============================================================================
