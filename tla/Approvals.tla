----------------------------- MODULE Approvals -----------------------------
(***************************************************************************)
(* Recommendations from snapshot to application: app/api/analyses.py        *)
(* (start_run), orchestration/recommendations.py, approvals/service.py,     *)
(* capacity/service.py, and whatever else moves their inputs: inventory     *)
(* commands, order transitions, the refresh job and the reconciler.         *)
(*                                                                          *)
(* Every row a plan is computed from carries a version; a recommendation    *)
(* pins the versions its snapshot read and apply compares them under the    *)
(* row locks.  An action is one transaction: they all lock the order first. *)
(* The snapshot is the exception: it reads balances, then slots, under the  *)
(* order's lock only, so other orders may move them in between.             *)
(***************************************************************************)
EXTENDS Integers, FiniteSets, FiniteSetsExt

CONSTANTS Orders,
          Recs,       \* analysis runs; each makes at most one recommendation
          OrderOf,    \* [Recs -> Orders], analysis_runs.order_id
          Slots, Materials,
          Capacity,   \* [Slots -> Nat], operator minutes times efficiency
          OnHand,     \* [Materials -> Nat], the stock at the start
          Minutes, Quantities,  \* amounts a plan may hold of one row
          MaxActiveRuns,  \* MAX_ACTIVE_RUNS_PER_FACTORY
          MaxMoves,   \* bound on commands other than those of proposals
          NoRec

ASSUME ApprovalsAssumption ==
  /\ IsFiniteSet(Orders)
  /\ OrderOf \in [Recs -> Orders]
  /\ Capacity \in [Slots -> Nat]
  /\ OnHand \in [Materials -> Nat]
  /\ Minutes \subseteq Nat
  /\ Quantities \subseteq Nat
  /\ MaxActiveRuns \in Nat
  /\ MaxMoves \in Nat
  /\ NoRec \notin Recs

VARIABLES
  order,    \* orders: production_state and version
  slot,     \* line_capacity_slots: allocated minutes and version
  bal,      \* material_balances: on hand, reserved, version
  alloc,    \* minutes of the order's ACTIVE allocations, per slot
  by,       \* allocations.recommendation_id of those rows
  held,     \* quantity of the order's ACTIVE reservations, per material
  run,      \* analysis_runs.status; READING while start_run is uncommitted,
            \* ENDED once it is AWAITING_REVIEW, final or cancelled
  status,   \* recommendations.status; NONE before the row exists
  pins,     \* the versions in the snapshot
  plan,     \* recommendations.proposal
  late,     \* expires_at <= now(), of an open proposal
  seen,     \* history: the rows the snapshot read
  moves     \* bound: commands so far

rows == <<order, slot, bal, alloc, by, held>>
proposals == <<run, status, pins, plan, late, seen>>
vars == <<order, slot, bal, alloc, by, held, run, status, pins, plan, late, seen, moves>>

States == {"DRAFT", "VALIDATED", "PLANNED", "IN_PRODUCTION", "CANCELLED"}
Statuses == {"NONE", "PROPOSED", "APPROVED", "REJECTED", "APPLIED", "EXPIRED", "SUPERSEDED"}
Open == {"PROPOSED", "APPROVED"}
Active == {"READING", "RUNNING"}
RunStates == Active \cup {"NONE", "ENDED"}

SlotRows == [used : Nat, version : Nat]
BalanceRows == {b \in [onHand : Nat, reserved : Nat, version : Nat] : b.reserved <= b.onHand}
Plans == [minutes : [Slots -> Nat], qty : [Materials -> Nat]]

\* allocations that are ACTIVE, each of the recommendation that made it.
AllocationRows ==
  /\ alloc \in [Orders -> [Slots -> Nat]]
  /\ by \in [Orders -> Recs \cup {NoRec}]

\* reservations that are ACTIVE.
ReservationRows == held \in [Orders -> [Materials -> Nat]]

\* recommendations
RecommendationRows ==
  /\ status \in [Recs -> Statuses]
  /\ plan \in [Recs -> Plans]
  /\ late \in [Recs -> BOOLEAN]

\* run_snapshots: input_versions, and what was read with them.
SnapshotRows ==
  /\ pins \in [Recs -> [order : Nat, slot : [Slots -> Nat], bal : [Materials -> Nat]]]
  /\ seen \in [Recs -> [slot : [Slots -> SlotRows], bal : [Materials -> BalanceRows]]]

TypeOK ==
  /\ order \in [Orders -> [state : States, version : Nat]]
  /\ slot \in [Slots -> SlotRows]
  /\ bal \in [Materials -> BalanceRows]
  /\ run \in [Recs -> RunStates]
  /\ AllocationRows /\ ReservationRows /\ RecommendationRows /\ SnapshotRows
  /\ moves \in Nat

None == [s \in Slots |-> 0]
NoStock == [m \in Materials |-> 0]

Init ==
  /\ order = [o \in Orders |-> [state |-> "VALIDATED", version |-> 1]]
  /\ slot = [s \in Slots |-> [used |-> 0, version |-> 1]]
  /\ bal = [m \in Materials |-> [onHand |-> OnHand[m], reserved |-> 0, version |-> 1]]
  /\ alloc = [o \in Orders |-> None]
  /\ by = [o \in Orders |-> NoRec]
  /\ held = [o \in Orders |-> NoStock]
  /\ run = [r \in Recs |-> "NONE"]
  /\ status = [r \in Recs |-> "NONE"]
  /\ pins = [r \in Recs |-> [order |-> 0, slot |-> None, bal |-> NoStock]]
  /\ plan = [r \in Recs |-> [minutes |-> None, qty |-> NoStock]]
  /\ late = [r \in Recs |-> FALSE]
  /\ seen = [r \in Recs |-> [slot |-> slot, bal |-> bal]]
  /\ moves = 0

\* The order's row lock is held by a start_run that has not committed.
Locked(o) == \E r \in Recs : OrderOf[r] = o /\ run[r] = "READING"

------------------------------------------------------------------------------
(* The analysis *)

\* One active run per order; a cancelled order is not analysed.  The
\* factory's limit counts committed runs only: it is no lock between orders.
StartRun(r) ==
  LET o == OrderOf[r] IN
  /\ Cardinality({x \in Recs : run[x] = "RUNNING"}) < MaxActiveRuns
  /\ run[r] = "NONE"
  /\ order[o].state # "CANCELLED"
  /\ \A x \in Recs : OrderOf[x] = o => run[x] \notin Active
  /\ run' = [run EXCEPT ![r] = "READING"]
  /\ pins' = [pins EXCEPT ![r].order = order[o].version,
                          ![r].bal = [m \in Materials |-> bal[m].version]]
  /\ seen' = [seen EXCEPT ![r].bal = bal]
  /\ UNCHANGED <<rows, status, plan, late, moves>>

\* retry_run: a new run of the order, beside one that failed, was degraded or
\* was cancelled; ENDED does not tell those from the others.
RetryRun(r) ==
  /\ \E x \in Recs : OrderOf[x] = OrderOf[r] /\ run[x] = "ENDED"
  /\ StartRun(r)

\* The slots are read after the balances; then the transaction commits.
ReadSlots(r) ==
  /\ run[r] = "READING"
  /\ run' = [run EXCEPT ![r] = "RUNNING"]
  /\ pins' = [pins EXCEPT ![r].slot = [s \in Slots |-> slot[s].version]]
  /\ seen' = [seen EXCEPT ![r].slot = slot]
  /\ UNCHANGED <<rows, status, plan, late, moves>>

\* The planner fills free minutes and the materials agent reserves what was
\* available, both read from the snapshot alone.
FitsSnapshot(r, p) ==
  /\ \E s \in Slots : p.minutes[s] > 0
  /\ \A s \in Slots : p.minutes[s] > 0 => seen[r].slot[s].used + p.minutes[s] <= Capacity[s]
  /\ \A m \in Materials : p.qty[m] > 0 =>
       seen[r].bal[m].reserved + p.qty[m] <= seen[r].bal[m].onHand

\* Only the expiry of an open proposal is ever looked at.
ForgetSettled == late' = [r \in Recs |-> late[r] /\ status'[r] \in Open]

PreviousStaysOpen(r) == [status EXCEPT ![r] = "PROPOSED"]

\* Statuses after proposal r is created: the order's open ones are superseded.
AfterProposal(r) ==
  [x \in Recs |->
     IF x = r THEN "PROPOSED"
     ELSE IF OrderOf[x] = OrderOf[r] /\ status[x] \in Open THEN "SUPERSEDED"
     ELSE status[x]]

\* _finalize with a plan: create_recommendation, then _supersede_previous.
Propose(r, p) ==
  /\ run[r] = "RUNNING"
  /\ ~Locked(OrderOf[r])
  /\ FitsSnapshot(r, p)
  /\ plan' = [plan EXCEPT ![r] = p]
  /\ status' = AfterProposal(r)
  /\ run' = [run EXCEPT ![r] = "ENDED"]
  /\ ForgetSettled
  /\ UNCHANGED <<rows, pins, seen, moves>>

\* The run ends without a plan: nothing is superseded.
CloseRun(r) ==
  /\ run[r] = "RUNNING"
  /\ run' = [run EXCEPT ![r] = "ENDED"]
  /\ UNCHANGED <<rows, status, pins, plan, late, seen, moves>>

\* cancel_run: while it runs or its proposal is reviewed.  Cancelling a run
\* whose proposal was settled already changes only its own status.
CancelRun(r) ==
  /\ run[r] \in {"RUNNING", "ENDED"}
  /\ run' = [run EXCEPT ![r] = "ENDED"]
  /\ status' = [status EXCEPT ![r] = IF @ \in Open THEN "SUPERSEDED" ELSE @]
  /\ ForgetSettled
  /\ UNCHANGED <<rows, pins, plan, seen, moves>>

------------------------------------------------------------------------------
(* Time *)

Lapse(r) ==
  /\ status[r] \in Open
  /\ ~late[r]
  /\ late' = [late EXCEPT ![r] = TRUE]
  /\ UNCHANGED <<rows, run, status, pins, plan, seen, moves>>

ExpirableUnlessApproved == {r \in Recs : status[r] = "PROPOSED" /\ late[r]}

Expirable == {r \in Recs : status[r] \in Open /\ late[r]}

\* The reconciler expires those whose rows nobody has locked.
Reconcile(S) ==
  /\ S # {}
  /\ S \subseteq Expirable
  /\ status' = [r \in Recs |-> IF r \in S THEN "EXPIRED" ELSE status[r]]
  /\ ForgetSettled
  /\ UNCHANGED <<rows, run, pins, plan, seen, moves>>

\* decide of a PROPOSED one, apply of an APPROVED one: the refusal is kept.
ExpireOnUse(r) ==
  /\ ~Locked(OrderOf[r])
  /\ r \in Expirable
  /\ status' = [status EXCEPT ![r] = "EXPIRED"]
  /\ ForgetSettled
  /\ UNCHANGED <<rows, run, pins, plan, seen, moves>>

------------------------------------------------------------------------------
(* Decision and application *)

\* _decide_block: what the review screen offers, of a caller with the permission
\* who is not the proposer, and what decide checks again.
CanDecide(r) == status[r] = "PROPOSED" /\ ~late[r]

DecideAgain(r, verdict) ==
  /\ ~Locked(OrderOf[r])
  /\ status[r] # "NONE"
  /\ ~late[r]
  /\ status' = [status EXCEPT ![r] = verdict]
  /\ ForgetSettled
  /\ UNCHANGED <<rows, run, pins, plan, seen, moves>>

Decide(r, verdict) ==
  /\ ~Locked(OrderOf[r])
  /\ CanDecide(r)
  /\ status' = [status EXCEPT ![r] = verdict]
  /\ ForgetSettled
  /\ UNCHANGED <<rows, run, pins, plan, seen, moves>>

\* check_staleness: the order and every row the plan would write to.
Stale(r) ==
  \/ pins[r].order # order[OrderOf[r]].version
  \/ \E s \in Slots : plan[r].minutes[s] > 0 /\ pins[r].slot[s] # slot[s].version
  \/ \E m \in Materials : plan[r].qty[m] > 0 /\ pins[r].bal[m] # bal[m].version

\* _apply_block; apply checks more than the screen.
CanApply(r) == status[r] = "APPROVED" /\ ~late[r] /\ ~Stale(r)

\* The refusal of a stale proposal is kept, too.
ApplyStale(r) ==
  /\ ~Locked(OrderOf[r])
  /\ status[r] = "APPROVED"
  /\ ~late[r]
  /\ Stale(r)
  /\ status' = [status EXCEPT ![r] = "SUPERSEDED"]
  /\ ForgetSettled
  /\ UNCHANGED <<rows, run, pins, plan, seen, moves>>

\* release_order_allocations: every ACTIVE allocation of the order ends.
SlotReleased(o, s) ==
  IF alloc[o][s] = 0 THEN slot[s]
  ELSE [used |-> slot[s].used - alloc[o][s], version |-> slot[s].version + 1]

\* release_reservation, on a balance.
Unreserved(row, qty) == [row EXCEPT !.reserved = @ - qty, !.version = @ + 1]

\* release_order_reservations, on the balance of one material.
BalanceReleased(o, m) ==
  IF held[o][m] = 0 THEN bal[m] ELSE Unreserved(bal[m], held[o][m])

\* allocate: refused when the slot's free minutes do not suffice.
Allocated(row, minutes) ==
  IF minutes = 0 THEN row ELSE [used |-> row.used + minutes, version |-> row.version + 1]

\* reserve_material: refused when the free stock does not suffice.
Reserved(row, qty) ==
  IF qty = 0 THEN row ELSE [row EXCEPT !.reserved = @ + qty, !.version = @ + 1]

SlotApplied(r, s) == Allocated(SlotReleased(OrderOf[r], s), plan[r].minutes[s])

AppliedOverOld(r, m) == Reserved(bal[m], plan[r].qty[m])

BalanceApplied(r, m) == Reserved(BalanceReleased(OrderOf[r], m), plan[r].qty[m])

\* No allocate and no reserve_material of the plan is refused.
PlanFits(r) ==
  /\ \A s \in Slots : plan[r].minutes[s] > 0 => SlotApplied(r, s).used <= Capacity[s]
  /\ \A m \in Materials : plan[r].qty[m] > 0 =>
       BalanceApplied(r, m).reserved <= BalanceApplied(r, m).onHand

\* apply: release what the order holds, then allocate and reserve the plan.
\* shift: whether recompute_material_states changes the order's state.
Apply(r, shift) ==
  LET o == OrderOf[r] IN
  /\ ~Locked(o)
  /\ CanApply(r)
  /\ order[o].state \in {"VALIDATED", "PLANNED"}
  /\ PlanFits(r)
  /\ slot' = [s \in Slots |-> SlotApplied(r, s)]
  /\ bal' = [m \in Materials |-> BalanceApplied(r, m)]
  /\ alloc' = [alloc EXCEPT ![o] = plan[r].minutes]
  /\ by' = [by EXCEPT ![o] = r]
  /\ held' = [held EXCEPT ![o] = plan[r].qty]
  /\ order' = [order EXCEPT ![o] =
       [state |-> "PLANNED", version |-> @.version + IF shift THEN 2 ELSE 1]]
  /\ status' = [status EXCEPT ![r] = "APPLIED"]
  /\ ForgetSettled
  /\ UNCHANGED <<run, pins, plan, seen, moves>>

------------------------------------------------------------------------------
(* The review screen, recommendation_detail *)

\* _slot_diffs and _reservation_diffs: the plan on top of what is booked now.
SlotAfter(r, s) == slot[s].used + plan[r].minutes[s]

ReservedAfter(r, m) == bal[m].reserved + plan[r].qty[m]

------------------------------------------------------------------------------
(* Everything else that moves the same rows *)

Command == moves < MaxMoves /\ moves' = moves + 1

\* recompute_material_states touches orders up to PLANNED.
Recomputed == {o \in Orders : order[o].state \in {"DRAFT", "VALIDATED", "PLANNED"}}

\* Inventory commands lock those orders, then change a balance; S are the
\* orders whose material_state changes with it.
Bumped(S) == [o \in Orders |-> IF o \in S THEN [order[o] EXCEPT !.version = @ + 1] ELSE order[o]]

MoveUncounted(m, onHand, S) ==
  /\ Command
  /\ S \subseteq Recomputed
  /\ \A o \in Recomputed : ~Locked(o)
  /\ bal[m].reserved <= onHand
  /\ bal' = [bal EXCEPT ![m].onHand = onHand]
  /\ order' = Bumped(S)
  /\ UNCHANGED <<slot, alloc, by, held, proposals>>

\* A receipt, an accepted lot, an issue or a correction.
Stocked(row, onHand) == [row EXCEPT !.onHand = onHand, !.version = @ + 1]

MoveStock(m, onHand, S) ==
  /\ Command
  /\ S \subseteq Recomputed
  /\ \A o \in Recomputed : ~Locked(o)
  /\ onHand # bal[m].onHand
  /\ bal[m].reserved <= onHand
  /\ bal' = [bal EXCEPT ![m] = Stocked(@, onHand)]
  /\ order' = Bumped(S)
  /\ UNCHANGED <<slot, alloc, by, held, proposals>>

\* create_reservation and release_reservation, by a storekeeper.
ReserveByHand(o, m, qty, S) ==
  /\ Command
  /\ S \subseteq Recomputed
  /\ \A x \in Recomputed \cup {o} : ~Locked(x)
  /\ order[o].state \in {"DRAFT", "VALIDATED", "PLANNED", "IN_PRODUCTION"}
  /\ qty > 0
  /\ bal[m].reserved + qty <= bal[m].onHand
  /\ bal' = [bal EXCEPT ![m] = Reserved(@, qty)]
  /\ held' = [held EXCEPT ![o][m] = @ + qty]
  /\ order' = Bumped(S)
  /\ UNCHANGED <<slot, alloc, by, proposals>>

ReleaseByHand(o, m, qty, S) ==
  /\ Command
  /\ S \subseteq Recomputed
  /\ \A x \in Recomputed \cup {o} : ~Locked(x)
  /\ qty > 0
  /\ qty <= held[o][m]
  /\ bal' = [bal EXCEPT ![m] = Unreserved(@, qty)]
  /\ held' = [held EXCEPT ![o][m] = @ - qty]
  /\ order' = Bumped(S)
  /\ UNCHANGED <<slot, alloc, by, proposals>>

\* The job maintenance.refresh_material_states.
Refresh(S) ==
  /\ Command
  /\ S # {}
  /\ S \subseteq Recomputed
  /\ \A o \in Recomputed : ~Locked(o)
  /\ order' = Bumped(S)
  /\ UNCHANGED <<slot, bal, alloc, by, held, proposals>>

\* transition_order to IN_PRODUCTION.
BeginProduction(o) ==
  /\ Command
  /\ ~Locked(o)
  /\ order[o].state = "PLANNED"
  /\ order' = [order EXCEPT ![o].state = "IN_PRODUCTION", ![o].version = @ + 1]
  /\ UNCHANGED <<slot, bal, alloc, by, held, proposals>>

\* transition_order to CANCELLED releases what the order holds.
CancelOrder(o) ==
  /\ Command
  /\ ~Locked(o)
  /\ order[o].state \in {"DRAFT", "VALIDATED", "PLANNED"}
  /\ order' = [order EXCEPT ![o].state = "CANCELLED", ![o].version = @ + 1]
  /\ slot' = [s \in Slots |-> SlotReleased(o, s)]
  /\ bal' = [m \in Materials |-> BalanceReleased(o, m)]
  /\ alloc' = [alloc EXCEPT ![o] = None]
  /\ by' = [by EXCEPT ![o] = NoRec]
  /\ held' = [held EXCEPT ![o] = NoStock]
  /\ UNCHANGED proposals

PlanChoices == [minutes : [Slots -> Minutes], qty : [Materials -> Quantities]]

Next ==
  \/ \E r \in Recs :
       \/ StartRun(r) \/ RetryRun(r) \/ ReadSlots(r) \/ CloseRun(r) \/ CancelRun(r)
       \/ \E p \in PlanChoices : Propose(r, p)
       \/ Lapse(r) \/ ExpireOnUse(r) \/ ApplyStale(r)
       \/ \E verdict \in {"APPROVED", "REJECTED"} : Decide(r, verdict)
       \/ \E shift \in BOOLEAN : Apply(r, shift)
  \/ \E S \in SUBSET Recs : Reconcile(S)
  \/ \E S \in SUBSET Orders :
       \/ Refresh(S)
       \/ \E m \in Materials, qty \in Quantities :
            \/ MoveStock(m, qty, S)
            \/ \E o \in Orders : ReserveByHand(o, m, qty, S) \/ ReleaseByHand(o, m, qty, S)
  \/ \E o \in Orders : BeginProduction(o) \/ CancelOrder(o)

\* Clocks run and the reconciler is scheduled every minute.
Fairness ==
  /\ \A r \in Recs : WF_vars(ReadSlots(r)) /\ WF_vars(Lapse(r))
  /\ WF_vars(Reconcile(Expirable))

Spec == Init /\ [][Next]_vars /\ Fairness

------------------------------------------------------------------------------
(* Properties *)

\* The versions apply compares stand for the contents (approvals/service.py,
\* check_staleness): a fresh proposal was computed from the very rows the
\* database holds now, so that applying it finds the room it was planned with.
\* A write that forgot to count the version would break this.  Nor does the
\* review screen show less than apply will book, or more than there is.
FreshPlanFits ==
  \A r \in Recs : status[r] \in Open /\ ~Stale(r) =>
    /\ \A s \in Slots : plan[r].minutes[s] > 0 =>
         /\ slot[s] = seen[r].slot[s]
         /\ SlotApplied(r, s).used <= SlotAfter(r, s)
         /\ SlotAfter(r, s) <= Capacity[s]
    /\ \A m \in Materials : plan[r].qty[m] > 0 =>
         /\ bal[m] = seen[r].bal[m]
         /\ BalanceApplied(r, m).reserved <= ReservedAfter(r, m)
         /\ ReservedAfter(r, m) <= bal[m].onHand
    /\ PlanFits(r)

\* service.py:762, of recommendation_detail: "Everything the review screen
\* shows, including what the caller may do"; user-guide.md 8.9: the buttons come
\* "entirely from the server's own can_decide/can_apply flags".  Not so for an
\* order in DRAFT, production or beyond: apply is offered, and refused.
OfferedApplies ==
  \A r \in Recs : CanApply(r) => order[OrderOf[r]].state \in {"VALIDATED", "PLANNED"} /\ PlanFits(r)

\* user-guide.md 8.9: "Before/after diff tables for every line of the proposal".
\* Not so for an order that holds rows already: apply releases them first.
ReviewShowsOutcome ==
  \A r \in Recs, s \in Slots :
    CanApply(r) /\ plan[r].minutes[s] > 0 => SlotAfter(r, s) = SlotApplied(r, s).used

\* A human never has two open proposals for one order to choose from
\* (orchestrator._supersede_previous): creation, expiry, cancellation and
\* decisions race, and still at most one is open.
OneOpenPerOrder ==
  \A r, x \in Recs :
    status[r] \in Open /\ status[x] \in Open /\ OrderOf[r] = OrderOf[x] => r = x

\* What the rows of the orders add up to.
BookedOn(s) == [o \in Orders |-> alloc[o][s]]

HeldOf(m) == [o \in Orders |-> held[o][m]]

\* The totals kept on slots and balances are those of the rows they count
\* (capacity/service.py, inventory/service.py) and stay within their limits,
\* however applications, releases and commands of several orders interleave.
CommittedWithinLimits ==
  /\ \A s \in Slots :
       /\ slot[s].used = SumFunctionOnSet(BookedOn(s), Orders)
       /\ slot[s].used <= Capacity[s]
  /\ \A m \in Materials :
       /\ bal[m].reserved = SumFunctionOnSet(HeldOf(m), Orders)
       /\ bal[m].reserved <= bal[m].onHand

\* What an order has allocated is the plan of one applied recommendation,
\* whole and unmixed (approvals.apply releases before it allocates), and only
\* an order planned by it, or beyond, has any.
AllocationsAreThePlan ==
  \A o \in Orders :
    IF by[o] = NoRec
    THEN alloc[o] = None /\ order[o].state \in {"DRAFT", "VALIDATED", "CANCELLED"}
    ELSE /\ status[by[o]] = "APPLIED"
         /\ OrderOf[by[o]] = o
         /\ alloc[o] = plan[by[o]].minutes
         /\ order[o].state \in {"PLANNED", "IN_PRODUCTION"}

\* The counters of slots and balances agree with the rows of the orders, stay
\* within the limits, and the rows are the plan in force: apply,
\* cancellation and manual reservations never book or free anything twice.
CommitmentsAgree == CommittedWithinLimits /\ AllocationsAreThePlan

Fate ==
  [r \in Recs |->
     CASE status[r] = "NONE" -> "unborn"
       [] status[r] = "PROPOSED" -> "proposed"
       [] status[r] = "APPROVED" -> "approved"
       [] status[r] = "APPLIED" -> "applied"
       [] OTHER -> "dropped"]

Contract == INSTANCE ProposalContract WITH fate <- Fate, inForce <- by

\* Approvals implement ProposalContract: an applied, rejected, expired or
\* superseded proposal stays so, and nothing unapproved is put in force.
KeepsProposalContract == Contract!Init /\ [][Contract!Next]_(Contract!vars)

\* No proposal stays open: it is decided and applied, or the reconciler
\* expires it (jobs/reconcile.py, expire_recommendations).
ProposalSettles == \A r \in Recs : status[r] \in Open ~> status[r] \notin Open
=============================================================================
