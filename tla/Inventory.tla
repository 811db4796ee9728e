----------------------------- MODULE Inventory -----------------------------
(***************************************************************************)
(* The stock ledger, reservations and material readiness of one factory:    *)
(* app/domain/inventory/service.py and readiness.py, with what the order    *)
(* lifecycle and the application of a plan do to them.                      *)
(*                                                                          *)
(* A command reads, without locks, which open orders use the material, and  *)
(* at most so many of them; then it locks these, the balance and the lot,   *)
(* and recomputes the states of exactly the orders it locked.  The read is  *)
(* a step, and all under the locks another.  Applying a plan and cancelling *)
(* an order hold one order only and leave the others to a queued refresh    *)
(* job, which selects and locks its orders alike.  A lot is its net ledger  *)
(* quantity; the reservations of an order for a material are the quantities *)
(* of its ACTIVE rows, oldest first.                                        *)
(***************************************************************************)
EXTENDS Integers, FiniteSets, Sequences, SequencesExt, Functions

CONSTANTS Orders, Materials, Lots,
          LotOf,      \* [Lots -> Materials], what the lot code is used for
          Bom,        \* [Orders -> SUBSET Materials]
          Need,       \* gross demand of an order for a material on its BOM
          Expected,   \* [Materials -> Nat], open receipts due in time
          Amounts,    \* quantities commands are called with
          MaxLot,     \* bound on the net quantity of a lot
          DueRank,    \* [Orders -> Nat], the order by due_date and id
          Cutoffs,    \* what MATERIAL_STATE_ORDER_LIMIT may be
          Callers,    \* transactions that work at once
          NoOrder

\* A lot belongs to one material; a bill of materials names each material
\* once; _quantity refuses what is not positive.
ASSUME InventoryAssumption ==
  /\ IsFiniteSet(Orders) /\ IsFiniteSet(Lots)
  /\ LotOf \in [Lots -> Materials]
  /\ Bom \in [Orders -> SUBSET Materials]
  /\ Need \in [Orders -> [Materials -> Nat]]
  /\ Expected \in [Materials -> Nat]
  /\ Amounts \subseteq Nat \ {0}
  /\ MaxLot \in Nat
  /\ DueRank \in [Orders -> Nat] /\ Cutoffs \subseteq Nat
  /\ NoOrder \notin Orders

VARIABLES
  lot,        \* material_lots.status, ABSENT before the first receipt
  net,        \* sum of the lot's stock_movements
  bal,        \* material_balances: exists, on_hand_accepted, reserved
  active,     \* ACTIVE reservations of an order for a material
  state,      \* orders.production_state
  mstate,     \* orders.material_state
  refresh,    \* materials of the refresh jobs that wait
  selected,   \* what each transaction at work has selected
  cutoff,     \* MATERIAL_STATE_ORDER_LIMIT
  overlooked  \* orders that a selection missed, and none has reached since

stock == <<lot, net>>
selections == <<selected, cutoff, overlooked>>
vars == <<lot, net, bal, active, state, mstate, refresh, selected, cutoff, overlooked>>

States == {"ABSENT", "DRAFT", "VALIDATED", "PLANNED", "IN_PRODUCTION", "CANCELLED"}

\* material_lots; no command makes a lot REJECTED.
LotRows == [Lots -> {"ABSENT", "QUARANTINE", "ACCEPTED"}]

\* stock_movements: the sum over a lot; no lot is issued below zero.
MovementRows == [Lots -> Nat]

\* material_balances, with its CHECKs.
BalanceRows ==
  {b \in [exists : BOOLEAN, onHand : Nat, reserved : Nat] : b.reserved <= b.onHand}

\* reservations that are ACTIVE; no quantity is zero.
ReservationRows == [Orders -> [Materials -> Seq(Nat \ {0})]]

\* A transaction between its selection and its locks: of a command or of a
\* refresh job, for these materials, with the orders known to use them; late
\* are the orders that another one missed meanwhile, which this one may have
\* assessed before.
Selections ==
  [materials : SUBSET Materials, known : SUBSET Orders, late : SUBSET Orders, job : BOOLEAN]

Idle == [materials |-> {}, known |-> {}, late |-> {}, job |-> FALSE]

TypeOK ==
  /\ lot \in LotRows
  /\ net \in MovementRows
  /\ bal \in [Materials -> BalanceRows]
  /\ active \in ReservationRows
  /\ state \in [Orders -> States]
  /\ mstate \in [Orders -> {"UNKNOWN", "READY", "AT_RISK", "SHORTAGE"}]
  /\ refresh \in SUBSET SUBSET Materials
  /\ selected \in [Callers -> Selections]
  /\ cutoff \in Cutoffs
  /\ overlooked \subseteq Orders

Init ==
  /\ lot = [l \in Lots |-> "ABSENT"]
  /\ net = [l \in Lots |-> 0]
  /\ bal = [m \in Materials |-> [exists |-> FALSE, onHand |-> 0, reserved |-> 0]]
  /\ active = [o \in Orders |-> [m \in Materials |-> <<>>]]
  /\ state = [o \in Orders |-> "ABSENT"]
  /\ mstate = [o \in Orders |-> "UNKNOWN"]
  /\ refresh = {}
  /\ selected = [p \in Callers |-> Idle]
  /\ cutoff \in Cutoffs
  /\ overlooked = {}

------------------------------------------------------------------------------
(* Reading *)

\* The sum of the first n reservations, and of all.
Upto(rows, n) == SumFunctionOnSet(rows, 1..n)

Total(rows) == Upto(rows, Len(rows))

Available(b) == b.onHand - b.reserved

\* readiness: the state of one BOM line, the order's own reservations counted
\* as usable; AT_RISK when open receipts cover what is short.
LineState(o, m, b, rows) ==
  LET usable == Available(b[m]) + Total(rows[o][m])
  IN  IF ~b[m].exists THEN "UNKNOWN"
      ELSE IF usable >= Need[o][m] THEN "READY"
      ELSE IF usable + Expected[m] >= Need[o][m] THEN "AT_RISK"
      ELSE "SHORTAGE"

Severity == <<"READY", "AT_RISK", "SHORTAGE", "UNKNOWN">>

\* worst_material_state over the order's BOM.
Assess(o, b, rows) ==
  LET found == {LineState(o, m, b, rows) : m \in Bom[o]}
      worst == CHOOSE i \in 1..4 :
                 Severity[i] \in found /\ \A j \in 1..4 : Severity[j] \in found => j <= i
  IN  IF found = {} THEN "UNKNOWN" ELSE Severity[worst]

\* The orders whose material_state is kept up to date.
Kept == {o \in Orders : state[o] \in {"DRAFT", "VALIDATED", "PLANNED"}}

Using(ms) == {o \in Kept : Bom[o] \cap ms # {}}

\* recompute_material_states of the orders S, at the end of a transaction.
Recompute(S) ==
  mstate' = [o \in Orders |->
    IF o \in S /\ state'[o] \in {"DRAFT", "VALIDATED", "PLANNED"}
    THEN Assess(o, bal', active') ELSE mstate[o]]

------------------------------------------------------------------------------
(* Selecting orders *)

\* _orders_using_materials: the earliest due of them, up to the limit.
Earliest(S) ==
  {o \in S : Cardinality({x \in S : DueRank[x] < DueRank[o]}) < cutoff}

\* orders_using_materials: read without locks, by a command or a refresh job.
Selecting(p, ms, isJob) ==
  /\ selected[p] = Idle
  /\ selected' = [selected EXCEPT ![p] =
       [materials |-> ms, known |-> Earliest(Using(ms)), late |-> {}, job |-> isJob]]
  /\ UNCHANGED <<stock, bal, active, state, mstate, cutoff, overlooked>>

\* A command of one material begins.
Select(p, m) == Selecting(p, {m}, FALSE) /\ UNCHANGED refresh

\* The command that runs as p, and no refresh job.
Runs(p, m) == selected[p].materials = {m} /\ ~selected[p].job

\* No longer at work; the orders it missed may be assessed wrongly by others
\* that are.
Leave(p, missed) ==
  selected' = [q \in Callers |->
    IF q = p \/ selected[q] = Idle THEN Idle
    ELSE [selected[q] EXCEPT !.late = @ \cup missed]]

\* lock_orders and recompute_material_states, and the COMMIT, of what p has
\* selected and of its own orders: what it did not lock keeps its state.
Settle(p, own) ==
  LET locked == selected[p].known \cup own
      missed == Using(selected[p].materials) \ locked
  IN  /\ Recompute(locked)
      /\ overlooked' = (overlooked \cup missed) \ (locked \ selected[p].late)
      /\ Leave(p, missed)
      /\ UNCHANGED cutoff

\* A command that is refused, or rolls back.
Abandon(p) ==
  /\ selected[p] # Idle /\ ~selected[p].job
  /\ Leave(p, {})
  /\ UNCHANGED <<stock, bal, active, state, mstate, refresh, cutoff, overlooked>>

------------------------------------------------------------------------------
(* Ledger commands *)

\* ensure_balance: the row a command locks is created when it is missing.
Ensured(m) == [bal[m] EXCEPT !.exists = TRUE]

\* record_receipt: a new lot is accepted or quarantined; accept also accepts
\* a quarantined lot, with all it holds.
Receive(p, l, q, accept) ==
  LET m == LotOf[l]
      joins == CASE lot[l] = "ACCEPTED" -> q
                 [] lot[l] # "ACCEPTED" /\ accept -> net[l] + q
                 [] OTHER -> 0
  IN  /\ Runs(p, m)
      /\ net[l] + q <= MaxLot
      /\ net' = [net EXCEPT ![l] = @ + q]
      /\ lot' = [lot EXCEPT ![l] =
           IF accept \/ @ = "ACCEPTED" THEN "ACCEPTED" ELSE "QUARANTINE"]
      /\ bal' = [bal EXCEPT ![m] = [Ensured(m) EXCEPT !.onHand = @ + joins]]
      /\ UNCHANGED <<active, state, refresh>>
      /\ Settle(p, {})

\* accept_lot
AcceptLot(p, l) ==
  LET m == LotOf[l] IN
  /\ Runs(p, m)
  /\ lot[l] = "QUARANTINE"
  /\ lot' = [lot EXCEPT ![l] = "ACCEPTED"]
  /\ bal' = [bal EXCEPT ![m] = [Ensured(m) EXCEPT !.onHand = @ + net[l]]]
  /\ UNCHANGED <<net, active, state, refresh>>
  /\ Settle(p, {})

\* How many of the oldest reservations q uses up.
UsedUp(rows, q) ==
  CHOOSE n \in 0..Len(rows) :
    Upto(rows, n) <= q /\ (n = Len(rows) \/ q < Upto(rows, n + 1))

ConsumedWhole(rows, q) ==
  IF q = 0 THEN rows ELSE SubSeq(rows, UsedUp(rows, q - 1) + 2, Len(rows))

\* _consume_reservations: oldest first; the last one may keep a remainder.
Consumed(rows, q) ==
  LET n == UsedUp(rows, q) IN
  IF n = Len(rows) THEN <<>>
  ELSE <<Upto(rows, n + 1) - q>> \o SubSeq(rows, n + 2, Len(rows))

\* record_issue, for an order (whose reservations it consumes) or for none.
Issue(p, l, q, o) ==
  LET m == LotOf[l]
      own == IF o = NoOrder THEN 0 ELSE Total(active[o][m])
      consumed == IF own < q THEN own ELSE q
      after == [bal[m] EXCEPT !.onHand = @ - q, !.reserved = @ - consumed]
  IN  /\ Runs(p, m)
      /\ o # NoOrder => state[o] # "ABSENT"
      /\ lot[l] = "ACCEPTED"
      /\ q <= net[l]
      /\ Available(after) >= 0
      /\ net' = [net EXCEPT ![l] = @ - q]
      /\ bal' = [bal EXCEPT ![m] = after]
      /\ active' = IF o = NoOrder THEN active
                   ELSE [active EXCEPT ![o][m] = Consumed(@, consumed)]
      /\ UNCHANGED <<lot, state, refresh>>
      /\ Settle(p, {o} \cap Orders)

\* record_correction of a receipt or an issue of the lot.
Correct(p, l, delta) ==
  LET m == LotOf[l]
      joins == IF lot[l] = "ACCEPTED" THEN delta ELSE 0
  IN  /\ Runs(p, m)
      /\ lot[l] # "ABSENT"
      /\ delta # 0
      /\ net[l] + delta \in 0..MaxLot
      /\ lot[l] = "ACCEPTED" => bal[m].onHand + delta >= bal[m].reserved
      /\ net' = [net EXCEPT ![l] = @ + delta]
      /\ bal' = [bal EXCEPT ![m] = [Ensured(m) EXCEPT !.onHand = @ + joins]]
      /\ UNCHANGED <<lot, active, state, refresh>>
      /\ Settle(p, {})

------------------------------------------------------------------------------
(* Reservations *)

\* create_reservation: the state is checked again under the order's lock.
Reserve(p, o, m, q) ==
  /\ Runs(p, m)
  /\ m \in Bom[o]
  /\ state[o] \in {"DRAFT", "VALIDATED", "PLANNED", "IN_PRODUCTION"}
  /\ q <= Available(bal[m])
  /\ bal' = [bal EXCEPT ![m] = [Ensured(m) EXCEPT !.reserved = @ + q]]
  /\ active' = [active EXCEPT ![o][m] = Append(@, q)]
  /\ UNCHANGED <<stock, state, refresh>>
  /\ Settle(p, {o})

\* release_reservation, of any of the rows.
Release(p, o, m, i) ==
  /\ Runs(p, m)
  /\ bal' = [bal EXCEPT ![m].reserved = @ - active[o][m][i]]
  /\ active' = [active EXCEPT ![o][m] = RemoveAt(@, i)]
  /\ UNCHANGED <<stock, state, refresh>>
  /\ Settle(p, {o})

\* release_order_reservations: balances and rows without those of the order.
Freed(o) ==
  [m \in Materials |-> [bal[m] EXCEPT !.reserved = @ - Total(active[o][m])]]
RowsWithout(o) == [active EXCEPT ![o] = [m \in Materials |-> <<>>]]

Holds(o) == {m \in Materials : active[o][m] # <<>>}

\* apply: the balances of the whole BOM are created and locked, the order's
\* reservations released and those of the plan (one row each) made.
ApplyPlan(o, plan) ==
  LET chosen == {m \in Bom[o] : plan[m] > 0}
      touched == Bom[o] \cup Holds(o)
  IN  /\ state[o] \in {"VALIDATED", "PLANNED"}
      /\ \A m \in chosen : plan[m] <= Available(Freed(o)[m])
      /\ bal' = [m \in Materials |->
           [exists |-> bal[m].exists \/ m \in touched, onHand |-> bal[m].onHand,
            reserved |-> Freed(o)[m].reserved + IF m \in chosen THEN plan[m] ELSE 0]]
      /\ active' = [active EXCEPT ![o] =
           [m \in Materials |-> IF m \in chosen THEN <<plan[m]>> ELSE <<>>]]
      /\ state' = [state EXCEPT ![o] = "PLANNED"]
      /\ refresh' = IF touched = {} THEN refresh ELSE refresh \cup {touched}
      /\ UNCHANGED <<stock, selected, cutoff>>
      /\ Recompute({o})
      /\ overlooked' = overlooked \ {o}

\* apply of a stale plan: the refusal is committed, with the new balances.
RefusePlan(o) ==
  /\ state[o] # "ABSENT"
  /\ bal' = [m \in Materials |-> IF m \in Bom[o] THEN Ensured(m) ELSE bal[m]]
  /\ UNCHANGED <<stock, active, state, mstate, refresh, selections>>

------------------------------------------------------------------------------
(* Orders *)

\* create_order: the material state is UNKNOWN until something moves.
Create(o) ==
  /\ state[o] = "ABSENT"
  /\ state' = [state EXCEPT ![o] = "DRAFT"]
  /\ UNCHANGED <<stock, bal, active, mstate, refresh, selections>>

\* transition_order, towards production.
Transition(o) ==
  /\ \/ state[o] = "DRAFT" /\ state' = [state EXCEPT ![o] = "VALIDATED"]
     \/ state[o] = "PLANNED" /\ state' = [state EXCEPT ![o] = "IN_PRODUCTION"]
  /\ UNCHANGED <<stock, bal, active, mstate, refresh, selections>>

CancelQuietly(o) ==
  /\ state[o] \in {"DRAFT", "VALIDATED", "PLANNED"}
  /\ state' = [state EXCEPT ![o] = "CANCELLED"]
  /\ bal' = Freed(o)
  /\ active' = RowsWithout(o)
  /\ UNCHANGED <<stock, mstate, refresh, selections>>

\* transition_order to CANCELLED: _release_and_enqueue_refresh.
Cancel(o) ==
  /\ state[o] \in {"DRAFT", "VALIDATED", "PLANNED"}
  /\ state' = [state EXCEPT ![o] = "CANCELLED"]
  /\ bal' = Freed(o)
  /\ active' = RowsWithout(o)
  /\ refresh' = IF Holds(o) = {} THEN refresh ELSE refresh \cup {Holds(o)}
  /\ UNCHANGED <<stock, mstate, selections>>

------------------------------------------------------------------------------
(* Refresh jobs: handle_refresh_material_states, done in one transaction      *)

StartRefresh(p, ms) == Selecting(p, ms, TRUE) /\ refresh' = refresh \ {ms}

FinishRefresh(p) ==
  /\ selected[p].job
  /\ UNCHANGED <<stock, bal, active, state, refresh>>
  /\ Settle(p, {})

\* A failed attempt is repeated, and the last one leaves its orders as they are.
RefreshFails(p) ==
  LET ms == selected[p].materials IN
  /\ selected[p].job
  /\ \/ refresh' = refresh \cup {ms} /\ Leave(p, {}) /\ overlooked' = overlooked
     \/ refresh' = refresh /\ Leave(p, Using(ms)) /\ overlooked' = overlooked \cup Using(ms)
  /\ UNCHANGED <<stock, bal, active, state, mstate, cutoff>>

\* A step of a transaction that has selected its orders, or selects them.
Works(p) ==
  \/ \E m \in Materials : Select(p, m)
  \/ \E l \in Lots, q \in Amounts :
       \/ \E accept \in BOOLEAN : Receive(p, l, q, accept)
       \/ \E o \in Orders \cup {NoOrder} : Issue(p, l, q, o)
       \/ Correct(p, l, q) \/ Correct(p, l, -q)
  \/ \E l \in Lots : AcceptLot(p, l)
  \/ \E o \in Orders, m \in Materials, q \in Amounts : Reserve(p, o, m, q)
  \/ \E o \in Orders, m \in Materials : \E i \in DOMAIN active[o][m] : Release(p, o, m, i)
  \/ \E ms \in refresh : StartRefresh(p, ms)
  \/ Abandon(p) \/ FinishRefresh(p) \/ RefreshFails(p)

Next ==
  \/ \E p \in Callers : Works(p)
  \/ \E o \in Orders :
       \/ \E plan \in [Materials -> Amounts \cup {0}] : ApplyPlan(o, plan)
       \/ RefusePlan(o) \/ Create(o) \/ Transition(o) \/ Cancel(o)

Spec == Init /\ [][Next]_vars

------------------------------------------------------------------------------
(* Properties *)

\* What each lot counts towards a balance, and what each order does.
Accepted(m) == [l \in Lots |-> IF LotOf[l] = m /\ lot[l] = "ACCEPTED" THEN net[l] ELSE 0]

ReservedBy(m) == [o \in Orders |-> Total(active[o][m])]

\* on_hand_accepted is the ledger of the accepted lots: quarantined receipts, a
\* receipt that accepts its lot, issues and corrections before and after
\* acceptance all count once.
LedgerAgrees ==
  \A m \in Materials : bal[m].onHand = SumFunctionOnSet(Accepted(m), Lots)

\* reserved counts the ACTIVE rows of all orders, and a cancelled order keeps
\* none.
ReservationsAgree ==
  /\ \A m \in Materials : bal[m].reserved = SumFunctionOnSet(ReservedBy(m), Orders)
  /\ \A o \in Orders : state[o] = "CANCELLED" => Holds(o) = {}

\* The balance agrees with the movements and with the reservations: partial
\* consumption, release and cancellation never take a quantity twice, and a
\* correction never takes what is reserved (inventory/service.py).
StockAgrees == TypeOK /\ LedgerAgrees /\ ReservationsAgree

\* Refresh jobs that wait or are at work.
Pending == refresh \cup {selected[p].materials : p \in {q \in Callers : selected[q].job}}

\* Shows READY, AT_RISK or SHORTAGE, is not what its materials are now, and no
\* refresh job will tell.
Stale(o) ==
  /\ mstate[o] # "UNKNOWN" /\ mstate[o] # Assess(o, bal, active)
  /\ \A ms \in Pending : ms \cap Bom[o] = {}

\* "Every ledger command recomputes the material state of the orders that use
\* that material" (docs/user-guide.md): false of an order that appears between
\* a command's selection and its locks (readiness.py).
MaterialStatesCurrent == \A o \in Kept : ~Stale(o)

\* An order is stale only when a selection missed it - it was created since, or
\* due after as many others as the limit - or a refresh job for it was given up,
\* and no transaction that began later has reached it: otherwise every command
\* that moves stock reaches every order that uses it, itself or through the job
\* it leaves, whatever the others do (readiness.py, orders/service.py).
OnlyMissedAreStale == \A o \in Kept \ overlooked : ~Stale(o)
=============================================================================
