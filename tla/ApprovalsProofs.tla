-------------------------- MODULE ApprovalsProofs --------------------------
(***************************************************************************)
(* Proofs about Approvals, for any orders, runs, slots, materials, amounts  *)
(* and number of commands.                                                  *)
(***************************************************************************)
EXTENDS Approvals, Sums, TLAPS

(* A version that a snapshot pinned and that the row still has stands for   *)
(* the contents that were read with it.                                     *)
PinsMeanRows ==
  \A r \in Recs :
    /\ \A s \in Slots :
         /\ pins[r].slot[s] <= slot[s].version
         /\ pins[r].slot[s] = slot[s].version => seen[r].slot[s] = slot[s]
    /\ \A m \in Materials :
         /\ pins[r].bal[m] <= bal[m].version
         /\ pins[r].bal[m] = bal[m].version => seen[r].bal[m] = bal[m]

(* A recommendation exists from the end of its run on, and its plan is one  *)
(* that the snapshot had room for.                                          *)
PlanIsOfSnapshot ==
  \A r \in Recs :
    /\ run[r] \in {"NONE", "READING", "RUNNING"} => status[r] = "NONE"
    /\ status[r] # "NONE" => FitsSnapshot(r, plan[r])

(* The inductive invariant. *)
IInv == TypeOK /\ PinsMeanRows /\ PlanIsOfSnapshot /\ OneOpenPerOrder /\ CommitmentsAgree

-----------------------------------------------------------------------------
(* What the operators on rows return *)

(* A write that changes a row counts its version up. *)
Counted(row, new) ==
  new.version >= row.version /\ (new.version = row.version => new = row)

(* What one order has of a slot is part of the slot's total. *)
LEMMA AllocatedIsPart ==
  ASSUME TypeOK, CommittedWithinLimits, NEW o \in Orders, NEW s \in Slots
  PROVE  alloc[o][s] \in Nat /\ alloc[o][s] <= slot[s].used
<1>1. BookedOn(s) \in [Orders -> Nat] /\ BookedOn(s)[o] = alloc[o][s]
  BY DEF TypeOK, AllocationRows, BookedOn
<1>2. BookedOn(s)[o] <= SumFunctionOnSet(BookedOn(s), Orders)
  BY <1>1, SumAtLeast, ApprovalsAssumption
<1>3. QED
  BY <1>1, <1>2 DEF CommittedWithinLimits, TypeOK, AllocationRows

(* What one order has reserved is part of the balance's total. *)
LEMMA HeldIsPart ==
  ASSUME TypeOK, CommittedWithinLimits, NEW o \in Orders, NEW m \in Materials
  PROVE  held[o][m] \in Nat /\ held[o][m] <= bal[m].reserved
<1>1. HeldOf(m) \in [Orders -> Nat] /\ HeldOf(m)[o] = held[o][m]
  BY DEF TypeOK, ReservationRows, HeldOf
<1>2. HeldOf(m)[o] <= SumFunctionOnSet(HeldOf(m), Orders)
  BY <1>1, SumAtLeast, ApprovalsAssumption
<1>3. QED
  BY <1>1, <1>2 DEF CommittedWithinLimits, TypeOK, ReservationRows

(* release_order_allocations: the slot gets back exactly what the order had. *)
LEMMA SlotReleasedRow ==
  ASSUME TypeOK, CommittedWithinLimits, NEW o \in Orders, NEW s \in Slots
  PROVE  /\ SlotReleased(o, s) \in SlotRows
         /\ SlotReleased(o, s).used = slot[s].used - alloc[o][s]
         /\ Counted(slot[s], SlotReleased(o, s))
<1>1. slot[s] \in SlotRows
  BY DEF TypeOK
<1>2. QED
  BY <1>1, AllocatedIsPart DEF SlotRows, SlotReleased, Counted

(* release_order_reservations, likewise. *)
LEMMA BalanceReleasedRow ==
  ASSUME TypeOK, CommittedWithinLimits, NEW o \in Orders, NEW m \in Materials
  PROVE  /\ BalanceReleased(o, m) \in BalanceRows
         /\ BalanceReleased(o, m).reserved = bal[m].reserved - held[o][m]
         /\ BalanceReleased(o, m).onHand = bal[m].onHand
         /\ Counted(bal[m], BalanceReleased(o, m))
<1> DEFINE h == held[o][m]
           b == bal[m]
<1>1. b \in [onHand : Nat, reserved : Nat, version : Nat] /\ b.reserved <= b.onHand
  BY DEF TypeOK, BalanceRows
<1>2. h \in Nat /\ h <= b.reserved
  BY HeldIsPart
<1>3. BalanceReleased(o, m)
        = IF h = 0 THEN b ELSE [b EXCEPT !.reserved = @ - h, !.version = @ + 1]
  BY DEF BalanceReleased, Unreserved
<1> HIDE DEF h, b
<1>4. CASE h = 0
  BY <1>1, <1>3, <1>4 DEF BalanceRows, Counted, h, b
<1>5. CASE h # 0
  <2>1. BalanceReleased(o, m)
          = [onHand |-> b.onHand, reserved |-> b.reserved - h, version |-> b.version + 1]
    BY <1>1, <1>3, <1>5
  <2>2. BalanceReleased(o, m) \in BalanceRows
    BY <1>1, <1>2, <2>1 DEF BalanceRows
  <2>3. Counted(b, BalanceReleased(o, m))
    BY <1>1, <2>1 DEF Counted
  <2>4. QED
    BY <2>1, <2>2, <2>3 DEF h, b
<1>6. QED
  BY <1>4, <1>5

(* apply, on a slot: released, then the plan's minutes. *)
LEMMA SlotAppliedRow ==
  ASSUME TypeOK, CommittedWithinLimits, NEW r \in Recs, NEW s \in Slots
  PROVE  /\ SlotApplied(r, s) \in SlotRows
         /\ SlotApplied(r, s).used
              = slot[s].used - alloc[OrderOf[r]][s] + plan[r].minutes[s]
         /\ Counted(slot[s], SlotApplied(r, s))
<1> DEFINE o == OrderOf[r]
           row == SlotReleased(o, s)
           minutes == plan[r].minutes[s]
<1>1. o \in Orders /\ minutes \in Nat
  BY ApprovalsAssumption DEF TypeOK, RecommendationRows, Plans
<1>2. row \in SlotRows /\ row.used = slot[s].used - alloc[o][s] /\ Counted(slot[s], row)
  BY <1>1, SlotReleasedRow
<1>3. slot[s] \in SlotRows
  BY DEF TypeOK
<1>4. SlotApplied(r, s) = Allocated(row, minutes)
  BY DEF SlotApplied
<1> HIDE DEF row, minutes
<1>5. /\ Allocated(row, minutes) \in SlotRows
      /\ Allocated(row, minutes).used = row.used + minutes
      /\ Counted(slot[s], Allocated(row, minutes))
  BY <1>1, <1>2, <1>3 DEF Allocated, SlotRows, Counted
<1>6. QED
  BY <1>2, <1>4, <1>5 DEF minutes

(* apply, on a balance: released, then the plan's quantity, if it fits. *)
LEMMA BalanceAppliedRow ==
  ASSUME TypeOK, CommittedWithinLimits, NEW r \in Recs, NEW m \in Materials
  PROVE  /\ BalanceApplied(r, m).reserved
              = bal[m].reserved - held[OrderOf[r]][m] + plan[r].qty[m]
         /\ BalanceApplied(r, m).onHand = bal[m].onHand
         /\ BalanceApplied(r, m).reserved <= BalanceApplied(r, m).onHand
              => BalanceApplied(r, m) \in BalanceRows
         /\ plan[r].qty[m] = 0 => BalanceApplied(r, m) \in BalanceRows
         /\ Counted(bal[m], BalanceApplied(r, m))
<1> DEFINE o == OrderOf[r]
           row == BalanceReleased(o, m)
           qty == plan[r].qty[m]
<1>1. o \in Orders /\ qty \in Nat
  BY ApprovalsAssumption DEF TypeOK, RecommendationRows, Plans
<1>2. /\ row \in BalanceRows
      /\ row.reserved = bal[m].reserved - held[o][m]
      /\ row.onHand = bal[m].onHand
      /\ Counted(bal[m], row)
  BY <1>1, BalanceReleasedRow
<1>3. bal[m] \in BalanceRows
  BY DEF TypeOK
<1>4. BalanceApplied(r, m) = Reserved(row, qty)
  BY DEF BalanceApplied
<1> HIDE DEF row, qty
<1>5. row \in [onHand : Nat, reserved : Nat, version : Nat] /\ row.reserved <= row.onHand
  BY <1>2 DEF BalanceRows
<1>6. bal[m].version \in Nat
  BY <1>3 DEF BalanceRows
<1>7. CASE qty = 0
  <2>1. BalanceApplied(r, m) = row
    BY <1>4, <1>7 DEF Reserved
  <2>2. QED
    BY <1>2, <1>5, <1>7, <2>1 DEF qty
<1>8. CASE qty # 0
  <2>1. BalanceApplied(r, m)
          = [onHand |-> row.onHand, reserved |-> row.reserved + qty,
             version |-> row.version + 1]
    BY <1>4, <1>5, <1>8 DEF Reserved
  <2>2. BalanceApplied(r, m).reserved <= BalanceApplied(r, m).onHand
          => BalanceApplied(r, m) \in BalanceRows
    BY <1>1, <1>5, <2>1 DEF BalanceRows
  <2>3. Counted(bal[m], BalanceApplied(r, m))
    BY <1>2, <1>5, <1>6, <2>1 DEF Counted
  <2>4. QED
    BY <1>2, <1>8, <2>1, <2>2, <2>3 DEF qty
<1>9. QED
  BY <1>7, <1>8

-----------------------------------------------------------------------------
(* Types *)

LEMMA InitTypeOK == Init => TypeOK
<1> SUFFICES ASSUME Init PROVE TypeOK
  OBVIOUS
<1> USE ApprovalsAssumption
<1>1. order \in [Orders -> [state : States, version : Nat]] /\ moves \in Nat
  BY DEF Init, States
<1>2. slot \in [Slots -> SlotRows]
  BY DEF Init, SlotRows
<1>3. bal \in [Materials -> BalanceRows]
  <2>1. ASSUME NEW m \in Materials
        PROVE  [onHand |-> OnHand[m], reserved |-> 0, version |-> 1] \in BalanceRows
    BY DEF BalanceRows
  <2>2. QED
    BY <2>1 DEF Init
<1>4. AllocationRows /\ ReservationRows
  BY DEF Init, AllocationRows, ReservationRows, None, NoStock
<1>5. late \in [Recs -> BOOLEAN]
  BY Zenon DEF Init
<1>6. status \in [Recs -> Statuses] /\ plan \in [Recs -> Plans] /\ run \in [Recs -> RunStates]
  BY DEF Init, Statuses, Plans, RunStates, Active, None, NoStock
<1>7. SnapshotRows
  <2>1. seen = [r \in Recs |-> [slot |-> slot, bal |-> bal]]
    BY DEF Init
  <2>2. seen \in [Recs -> [slot : [Slots -> SlotRows], bal : [Materials -> BalanceRows]]]
    BY <1>2, <1>3, <2>1
  <2>3. pins \in [Recs -> [order : Nat, slot : [Slots -> Nat], bal : [Materials -> Nat]]]
    BY DEF Init, None, NoStock
  <2>4. QED
    BY <2>2, <2>3 DEF SnapshotRows
<1>8. QED
  BY <1>1, <1>2, <1>3, <1>4, <1>5, <1>6, <1>7 DEF TypeOK, RecommendationRows

(* ForgetSettled keeps late a set of flags. *)
LEMMA LateIsTyped == ForgetSettled => late' \in [Recs -> BOOLEAN]
  BY Zenon DEF ForgetSettled

(* One field of one record of a function is written within its type. *)
LEMMA PinsAreTyped ==
  ASSUME NEW R, NEW A, NEW B, NEW C, NEW r,
         NEW f \in [R -> [order : A, slot : B, bal : C]]
  PROVE  /\ \A v \in A : [f EXCEPT ![r].order = v] \in [R -> [order : A, slot : B, bal : C]]
         /\ \A v \in B : [f EXCEPT ![r].slot = v] \in [R -> [order : A, slot : B, bal : C]]
         /\ \A v \in C : [f EXCEPT ![r].bal = v] \in [R -> [order : A, slot : B, bal : C]]
OBVIOUS

(* start_run and the reads of its snapshot write types. *)
LEMMA SnapshotTypes ==
  ASSUME TypeOK, NEW r \in Recs, StartRun(r) \/ ReadSlots(r) \/ CloseRun(r)
  PROVE  TypeOK'
<1> USE DEF TypeOK, rows
<1>1. CASE StartRun(r)
  <2>1. run' \in [Recs -> RunStates]
    BY <1>1 DEF StartRun, RunStates, Active
  <2>2. order[OrderOf[r]].version \in Nat
    BY ApprovalsAssumption
  <2>3. [m \in Materials |-> bal[m].version] \in [Materials -> Nat]
    BY DEF BalanceRows
  <2>4. SnapshotRows'
    <3> DEFINE Pinned == [order : Nat, slot : [Slots -> Nat], bal : [Materials -> Nat]]
               Seen == [slot : [Slots -> SlotRows], bal : [Materials -> BalanceRows]]
               ordered == [pins EXCEPT ![r].order = order[OrderOf[r]].version]
    <3>1. pins \in [Recs -> Pinned] /\ seen \in [Recs -> Seen]
      BY DEF SnapshotRows
    <3>2. ordered \in [Recs -> Pinned]
      <4>1. \A v \in Nat : [pins EXCEPT ![r].order = v] \in [Recs -> Pinned]
        BY <3>1, PinsAreTyped, Zenon
      <4>2. QED
        BY <2>2, <4>1, Zenon
    <3>3. pins' = [ordered EXCEPT ![r].bal = [m \in Materials |-> bal[m].version]]
      BY <1>1, <3>1 DEF StartRun
    <3> HIDE DEF ordered
    <3>4. pins' \in [Recs -> Pinned]
      BY <2>3, <3>2, <3>3, PinsAreTyped, Zenon
    <3>5. seen' = [seen EXCEPT ![r].bal = bal]
      BY <1>1 DEF StartRun
    <3>6. seen' \in [Recs -> Seen]
      BY <3>1, <3>5
    <3>7. QED
      BY <3>4, <3>6 DEF SnapshotRows
  <2>5. UNCHANGED <<rows, status, plan, late, moves>>
    BY <1>1 DEF StartRun
  <2>6. QED
    BY <2>1, <2>4, <2>5 DEF AllocationRows, ReservationRows, RecommendationRows
<1>2. CASE ReadSlots(r)
  <2>1. run' \in [Recs -> RunStates]
    BY <1>2 DEF ReadSlots, RunStates, Active
  <2>2. [s \in Slots |-> slot[s].version] \in [Slots -> Nat]
    BY DEF SlotRows
  <2>3. SnapshotRows'
    <3>1. pins' \in [Recs -> [order : Nat, slot : [Slots -> Nat], bal : [Materials -> Nat]]]
      <4>1. pins' = [pins EXCEPT ![r].slot = [s \in Slots |-> slot[s].version]]
        BY <1>2 DEF ReadSlots
      <4>2. QED
        BY <2>2, <4>1, PinsAreTyped, Zenon DEF SnapshotRows
    <3>2. seen' \in [Recs -> [slot : [Slots -> SlotRows], bal : [Materials -> BalanceRows]]]
      <4>1. seen' = [seen EXCEPT ![r].slot = slot]
        BY <1>2 DEF ReadSlots
      <4>2. QED
        BY <4>1 DEF SnapshotRows
    <3>3. QED
      BY <3>1, <3>2 DEF SnapshotRows
  <2>4. UNCHANGED <<rows, status, plan, late, moves>>
    BY <1>2 DEF ReadSlots
  <2>5. QED
    BY <2>1, <2>3, <2>4 DEF AllocationRows, ReservationRows, RecommendationRows
<1>3. CASE CloseRun(r)
  <2>1. run' \in [Recs -> RunStates]
    BY <1>3 DEF CloseRun, RunStates
  <2>2. UNCHANGED <<rows, status, pins, plan, late, seen, moves>>
    BY <1>3 DEF CloseRun
  <2>3. QED
    BY <2>1, <2>2 DEF AllocationRows, ReservationRows, RecommendationRows, SnapshotRows
<1>4. QED
  BY <1>1, <1>2, <1>3

(* The actions that only give proposals a new status, or let them lapse. *)
Settles ==
  \/ \E r \in Recs : \/ CancelRun(r) \/ Lapse(r) \/ ExpireOnUse(r) \/ ApplyStale(r)
                     \/ \E verdict \in {"APPROVED", "REJECTED"} : Decide(r, verdict)
  \/ \E S \in SUBSET Recs : Reconcile(S)

LEMMA SettleTypes == TypeOK /\ Settles => TypeOK' /\ UNCHANGED <<rows, pins, plan, seen, moves>>
<1> SUFFICES ASSUME TypeOK, Settles
             PROVE  TypeOK' /\ UNCHANGED <<rows, pins, plan, seen, moves>>
  OBVIOUS
<1> DEFINE Goal == /\ run' \in [Recs -> RunStates]
                   /\ status' \in [Recs -> Statuses]
                   /\ late' \in [Recs -> BOOLEAN]
                   /\ UNCHANGED <<rows, pins, plan, seen, moves>>
<1>1. ASSUME NEW r \in Recs, CancelRun(r) PROVE Goal
  <2>1. run' \in [Recs -> RunStates] /\ status' \in [Recs -> Statuses]
    BY <1>1 DEF CancelRun, TypeOK, RunStates, RecommendationRows, Statuses
  <2>2. QED
    BY <1>1, <2>1, LateIsTyped DEF CancelRun
<1>2. ASSUME NEW r \in Recs, Lapse(r) PROVE Goal
  <2>1. late' \in [Recs -> BOOLEAN]
    BY <1>2, Zenon DEF Lapse, TypeOK, RecommendationRows
  <2>2. QED
    BY <1>2, <2>1 DEF Lapse, TypeOK, RecommendationRows
<1>3. ASSUME NEW r \in Recs, NEW verdict \in Statuses,
             status' = [status EXCEPT ![r] = verdict], ForgetSettled,
             UNCHANGED <<rows, run, pins, plan, seen, moves>>
      PROVE Goal
  BY <1>3, LateIsTyped DEF TypeOK, RecommendationRows
<1>4. ASSUME NEW r \in Recs, ExpireOnUse(r) PROVE Goal
  BY <1>3, <1>4 DEF ExpireOnUse, Statuses
<1>5. ASSUME NEW r \in Recs, ApplyStale(r) PROVE Goal
  BY <1>3, <1>5 DEF ApplyStale, Statuses
<1>6. ASSUME NEW r \in Recs, NEW verdict \in {"APPROVED", "REJECTED"}, Decide(r, verdict) PROVE Goal
  <2>1. verdict \in Statuses
    BY DEF Statuses
  <2>2. QED
    BY <1>3, <1>6, <2>1 DEF Decide
<1>7. ASSUME NEW S \in SUBSET Recs, Reconcile(S) PROVE Goal
  <2>1. status' \in [Recs -> Statuses]
    BY <1>7 DEF Reconcile, TypeOK, RecommendationRows, Statuses
  <2>2. QED
    BY <1>7, <2>1, LateIsTyped DEF Reconcile, TypeOK
<1>8. Goal
  BY <1>1, <1>2, <1>4, <1>5, <1>6, <1>7 DEF Settles
<1>9. QED
  BY <1>8 DEF TypeOK, AllocationRows, ReservationRows, RecommendationRows, SnapshotRows, rows

(* The end of a run with a plan. *)
LEMMA ProposeTypes ==
  ASSUME TypeOK, NEW r \in Recs, NEW p \in PlanChoices, Propose(r, p)
  PROVE  TypeOK' /\ UNCHANGED <<rows, pins, seen, moves>>
<1>1. p \in Plans
  BY ApprovalsAssumption DEF PlanChoices, Plans
<1>2. plan' \in [Recs -> Plans]
  BY <1>1 DEF Propose, TypeOK, RecommendationRows
<1>3. status' \in [Recs -> Statuses]
  BY DEF Propose, AfterProposal, TypeOK, RecommendationRows, Statuses
<1>4. run' \in [Recs -> RunStates]
  BY DEF Propose, TypeOK, RunStates
<1>5. late' \in [Recs -> BOOLEAN]
  BY LateIsTyped DEF Propose
<1>6. UNCHANGED <<rows, pins, seen, moves>>
  BY DEF Propose
<1>7. QED
  BY <1>2, <1>3, <1>4, <1>5, <1>6
     DEF TypeOK, AllocationRows, ReservationRows, RecommendationRows, SnapshotRows, rows

-----------------------------------------------------------------------------
(* The actions that write rows *)

(* Every row that changes has its version counted up; no snapshot changes. *)
RowsCounted ==
  /\ \A s \in Slots : Counted(slot[s], slot'[s])
  /\ \A m \in Materials : Counted(bal[m], bal'[m])
  /\ UNCHANGED <<pins, seen>>

(* What a write of one order's allocations does to the slot's total. *)
LEMMA BookedMoves ==
  ASSUME TypeOK, alloc' \in [Orders -> [Slots -> Nat]], NEW o \in Orders, NEW s \in Slots,
         \A x \in Orders : x # o => alloc'[x][s] = alloc[x][s]
  PROVE  SumFunctionOnSet(BookedOn(s)', Orders)
           = SumFunctionOnSet(BookedOn(s), Orders) - alloc[o][s] + alloc'[o][s]
<1> DEFINE f == BookedOn(s)
           e == BookedOn(s)'
<1>1. /\ f \in [Orders -> Int] /\ e \in [Orders -> Int]
      /\ f[o] = alloc[o][s] /\ e[o] = alloc'[o][s]
      /\ AgreeBut(f, e, Orders, o)
  BY DEF BookedOn, TypeOK, AllocationRows, AgreeBut
<1> HIDE DEF f, e
<1>2. SumFunctionOnSet(e, Orders) = SumFunctionOnSet(f, Orders) - f[o] + e[o]
  <2>1. IsFiniteSet(Orders) /\ f \in [Orders -> Int] /\ e \in [Orders -> Int] /\ AgreeBut(f, e, Orders, o)
    BY <1>1, ApprovalsAssumption
  <2>2. QED
    BY <2>1, SumOne
<1>3. QED
  BY <1>1, <1>2 DEF f, e

(* The same of its reservations. *)
LEMMA HeldMoves ==
  ASSUME TypeOK, held' \in [Orders -> [Materials -> Nat]], NEW o \in Orders, NEW m \in Materials,
         \A x \in Orders : x # o => held'[x][m] = held[x][m]
  PROVE  SumFunctionOnSet(HeldOf(m)', Orders)
           = SumFunctionOnSet(HeldOf(m), Orders) - held[o][m] + held'[o][m]
<1> DEFINE f == HeldOf(m)
           e == HeldOf(m)'
<1>1. /\ f \in [Orders -> Int] /\ e \in [Orders -> Int]
      /\ f[o] = held[o][m] /\ e[o] = held'[o][m]
      /\ AgreeBut(f, e, Orders, o)
  BY DEF HeldOf, TypeOK, ReservationRows, AgreeBut
<1> HIDE DEF f, e
<1>2. SumFunctionOnSet(e, Orders) = SumFunctionOnSet(f, Orders) - f[o] + e[o]
  <2>1. IsFiniteSet(Orders) /\ f \in [Orders -> Int] /\ e \in [Orders -> Int] /\ AgreeBut(f, e, Orders, o)
    BY <1>1, ApprovalsAssumption
  <2>2. QED
    BY <2>1, SumOne
<1>3. QED
  BY <1>1, <1>2 DEF f, e

(* What the proof of each writing action gives. *)
Written == TypeOK' /\ RowsCounted /\ CommittedWithinLimits'

(* apply *)
LEMMA ApplyWrites ==
  ASSUME TypeOK, CommittedWithinLimits, NEW r \in Recs, NEW shift \in BOOLEAN, Apply(r, shift)
  PROVE  Written
<1> DEFINE o == OrderOf[r]
<1>1. o \in Orders /\ plan[r].minutes \in [Slots -> Nat] /\ plan[r].qty \in [Materials -> Nat]
  BY ApprovalsAssumption DEF TypeOK, RecommendationRows, Plans
<1>2. \A s \in Slots : slot'[s] = SlotApplied(r, s)
  BY DEF Apply
<1>3. \A m \in Materials : bal'[m] = BalanceApplied(r, m)
  BY DEF Apply
<1>4. PlanFits(r)
  BY DEF Apply
<1>5. slot' \in [Slots -> SlotRows]
  <2>1. slot' = [s \in Slots |-> SlotApplied(r, s)]
    BY DEF Apply
  <2>2. QED
    BY <2>1, SlotAppliedRow
<1>6. bal' \in [Materials -> BalanceRows]
  <2>1. bal' = [m \in Materials |-> BalanceApplied(r, m)]
    BY DEF Apply
  <2>2. ASSUME NEW m \in Materials PROVE BalanceApplied(r, m) \in BalanceRows
    <3>1. plan[r].qty[m] = 0 \/ plan[r].qty[m] > 0
      BY <1>1
    <3>2. QED
      BY <1>4, <3>1, BalanceAppliedRow DEF PlanFits
  <2>3. QED
    BY <2>1, <2>2
<1>7. alloc' \in [Orders -> [Slots -> Nat]] /\ by' \in [Orders -> Recs \cup {NoRec}]
  BY <1>1 DEF Apply, TypeOK, AllocationRows
<1>8. held' \in [Orders -> [Materials -> Nat]]
  BY <1>1 DEF Apply, TypeOK, ReservationRows
<1>9. order' \in [Orders -> [state : States, version : Nat]]
  BY <1>1 DEF Apply, TypeOK, States
<1>10. status' \in [Recs -> Statuses]
  BY DEF Apply, TypeOK, RecommendationRows, Statuses
<1>11. late' \in [Recs -> BOOLEAN]
  BY LateIsTyped DEF Apply
<1>12. UNCHANGED <<run, pins, plan, seen, moves>>
  BY DEF Apply
<1>13. TypeOK'
  BY <1>5, <1>6, <1>7, <1>8, <1>9, <1>10, <1>11, <1>12
     DEF TypeOK, AllocationRows, ReservationRows, RecommendationRows, SnapshotRows
<1>14. RowsCounted
  BY <1>2, <1>3, <1>12, SlotAppliedRow, BalanceAppliedRow DEF RowsCounted
<1>15. ASSUME NEW s \in Slots
       PROVE  slot'[s].used = SumFunctionOnSet(BookedOn(s)', Orders) /\ slot'[s].used <= Capacity[s]
  <2>1. alloc'[o][s] = plan[r].minutes[s] /\ \A x \in Orders : x # o => alloc'[x][s] = alloc[x][s]
    BY <1>1 DEF Apply, TypeOK, AllocationRows
  <2>2. slot'[s].used = slot[s].used - alloc[o][s] + plan[r].minutes[s]
    BY <1>2, SlotAppliedRow
  <2>3. SumFunctionOnSet(BookedOn(s)', Orders)
          = SumFunctionOnSet(BookedOn(s), Orders) - alloc[o][s] + alloc'[o][s]
    BY <1>1, <1>7, <2>1, BookedMoves
  <2>4. slot[s].used = SumFunctionOnSet(BookedOn(s), Orders) /\ slot[s].used <= Capacity[s]
    BY DEF CommittedWithinLimits
  <2>5. slot'[s].used <= Capacity[s]
    <3>1. plan[r].minutes[s] > 0 => slot'[s].used <= Capacity[s]
      BY <1>2, <1>4 DEF PlanFits
    <3>2. plan[r].minutes[s] \in Nat /\ slot[s].used \in Nat /\ Capacity[s] \in Nat
      BY <1>1, ApprovalsAssumption DEF TypeOK, SlotRows
    <3>3. alloc[o][s] \in Nat
      BY <1>1, AllocatedIsPart
    <3>4. QED
      BY <2>2, <2>4, <3>1, <3>2, <3>3
  <2>6. QED
    BY <2>1, <2>2, <2>3, <2>4, <2>5
<1>16. ASSUME NEW m \in Materials
       PROVE  bal'[m].reserved = SumFunctionOnSet(HeldOf(m)', Orders) /\ bal'[m].reserved <= bal'[m].onHand
  <2>1. held'[o][m] = plan[r].qty[m] /\ \A x \in Orders : x # o => held'[x][m] = held[x][m]
    BY <1>1 DEF Apply, TypeOK, ReservationRows
  <2>2. bal'[m].reserved = bal[m].reserved - held[o][m] + plan[r].qty[m]
    BY <1>3, BalanceAppliedRow
  <2>3. SumFunctionOnSet(HeldOf(m)', Orders)
          = SumFunctionOnSet(HeldOf(m), Orders) - held[o][m] + held'[o][m]
    BY <1>1, <1>8, <2>1, HeldMoves
  <2>4. bal[m].reserved = SumFunctionOnSet(HeldOf(m), Orders)
    BY DEF CommittedWithinLimits
  <2>5. bal'[m].reserved <= bal'[m].onHand
    BY <1>6 DEF BalanceRows
  <2>6. QED
    BY <2>1, <2>2, <2>3, <2>4, <2>5
<1>17. CommittedWithinLimits'
  BY <1>15, <1>16 DEF CommittedWithinLimits
<1>18. QED
  BY <1>13, <1>14, <1>17 DEF Written

(* transition_order to CANCELLED *)
LEMMA CancelWrites ==
  ASSUME TypeOK, CommittedWithinLimits, NEW o \in Orders, CancelOrder(o)
  PROVE  Written
<1>1. \A s \in Slots : slot'[s] = SlotReleased(o, s)
  BY DEF CancelOrder
<1>2. \A m \in Materials : bal'[m] = BalanceReleased(o, m)
  BY DEF CancelOrder
<1>3. slot' \in [Slots -> SlotRows]
  <2>1. slot' = [s \in Slots |-> SlotReleased(o, s)]
    BY DEF CancelOrder
  <2>2. QED
    BY <2>1, SlotReleasedRow
<1>4. bal' \in [Materials -> BalanceRows]
  <2>1. bal' = [m \in Materials |-> BalanceReleased(o, m)]
    BY DEF CancelOrder
  <2>2. QED
    BY <2>1, BalanceReleasedRow
<1>5. alloc' \in [Orders -> [Slots -> Nat]] /\ by' \in [Orders -> Recs \cup {NoRec}]
  BY DEF CancelOrder, TypeOK, AllocationRows, None
<1>6. held' \in [Orders -> [Materials -> Nat]]
  BY DEF CancelOrder, TypeOK, ReservationRows, NoStock
<1>7. order' \in [Orders -> [state : States, version : Nat]] /\ moves' \in Nat
  BY DEF CancelOrder, Command, TypeOK, States
<1>8. UNCHANGED <<run, status, pins, plan, late, seen>>
  BY DEF CancelOrder, proposals
<1>9. TypeOK'
  BY <1>3, <1>4, <1>5, <1>6, <1>7, <1>8
     DEF TypeOK, AllocationRows, ReservationRows, RecommendationRows, SnapshotRows
<1>10. RowsCounted
  BY <1>1, <1>2, <1>8, SlotReleasedRow, BalanceReleasedRow DEF RowsCounted
<1>11. ASSUME NEW s \in Slots
       PROVE  slot'[s].used = SumFunctionOnSet(BookedOn(s)', Orders) /\ slot'[s].used <= Capacity[s]
  <2>1. alloc'[o][s] = 0 /\ \A x \in Orders : x # o => alloc'[x][s] = alloc[x][s]
    BY DEF CancelOrder, TypeOK, AllocationRows, None
  <2>2. slot'[s].used = slot[s].used - alloc[o][s]
    BY <1>1, SlotReleasedRow
  <2>3. SumFunctionOnSet(BookedOn(s)', Orders)
          = SumFunctionOnSet(BookedOn(s), Orders) - alloc[o][s] + alloc'[o][s]
    BY <1>5, <2>1, BookedMoves
  <2>4. slot[s].used = SumFunctionOnSet(BookedOn(s), Orders) /\ slot[s].used <= Capacity[s]
    BY DEF CommittedWithinLimits
  <2>5. slot[s].used \in Nat /\ Capacity[s] \in Nat /\ alloc[o][s] \in Nat
    BY ApprovalsAssumption DEF TypeOK, SlotRows, AllocationRows
  <2>6. QED
    BY <2>1, <2>2, <2>3, <2>4, <2>5
<1>12. ASSUME NEW m \in Materials
       PROVE  bal'[m].reserved = SumFunctionOnSet(HeldOf(m)', Orders) /\ bal'[m].reserved <= bal'[m].onHand
  <2>1. held'[o][m] = 0 /\ \A x \in Orders : x # o => held'[x][m] = held[x][m]
    BY DEF CancelOrder, TypeOK, ReservationRows, NoStock
  <2>2. bal'[m].reserved = bal[m].reserved - held[o][m]
    BY <1>2, BalanceReleasedRow
  <2>3. SumFunctionOnSet(HeldOf(m)', Orders)
          = SumFunctionOnSet(HeldOf(m), Orders) - held[o][m] + held'[o][m]
    BY <1>6, <2>1, HeldMoves
  <2>4. bal[m].reserved = SumFunctionOnSet(HeldOf(m), Orders)
    BY DEF CommittedWithinLimits
  <2>5. bal'[m].reserved <= bal'[m].onHand
    BY <1>4 DEF BalanceRows
  <2>6. bal[m].reserved \in Nat /\ held[o][m] \in Nat
    BY DEF TypeOK, BalanceRows, ReservationRows
  <2>7. QED
    BY <2>1, <2>2, <2>3, <2>4, <2>5, <2>6
<1>13. CommittedWithinLimits'
  BY <1>11, <1>12 DEF CommittedWithinLimits
<1>14. QED
  BY <1>9, <1>10, <1>13 DEF Written

(* The commands that leave allocations and slots alone. *)
Commands ==
  \/ \E S \in SUBSET Orders :
       \/ Refresh(S)
       \/ \E m \in Materials, qty \in Quantities :
            \/ MoveStock(m, qty, S)
            \/ \E o \in Orders : ReserveByHand(o, m, qty, S) \/ ReleaseByHand(o, m, qty, S)
  \/ \E o \in Orders : BeginProduction(o)

(* The reservations of the other materials are left alone. *)
OthersHeld(m) == \A x \in Materials : x # m => HeldOf(x)' = HeldOf(x)

(* One balance is rewritten, and the reservations it counts. *)
BalanceWritten(m, b) ==
  /\ b \in BalanceRows /\ Counted(bal[m], b)
  /\ bal' = [bal EXCEPT ![m] = b]
  /\ held' \in [Orders -> [Materials -> Nat]]
  /\ OthersHeld(m)
  /\ b.reserved = SumFunctionOnSet(HeldOf(m)', Orders)
  /\ UNCHANGED <<slot, alloc, by, proposals>>
  /\ order' \in [Orders -> [state : States, version : Nat]]
  /\ moves' \in Nat

LEMMA OneBalanceWritten ==
  ASSUME TypeOK, CommittedWithinLimits, NEW m \in Materials, NEW b, BalanceWritten(m, b)
  PROVE  Written
<1> USE DEF BalanceWritten
<1>1. bal' \in [Materials -> BalanceRows]
  BY DEF TypeOK
<1>2. UNCHANGED <<run, status, pins, plan, late, seen>>
  BY DEF proposals
<1>3. TypeOK'
  BY <1>1, <1>2
     DEF TypeOK, AllocationRows, ReservationRows, RecommendationRows, SnapshotRows
<1>4. RowsCounted
  <2>1. ASSUME NEW x \in Materials PROVE Counted(bal[x], bal'[x])
    <3>1. bal[x] \in BalanceRows /\ (x = m => bal'[x] = b) /\ (x # m => bal'[x] = bal[x])
      BY DEF TypeOK
    <3>2. bal[x].version \in Nat
      BY <3>1 DEF BalanceRows
    <3>3. QED
      BY <3>1, <3>2 DEF Counted
  <2>2. ASSUME NEW s \in Slots PROVE Counted(slot[s], slot'[s])
    BY DEF TypeOK, SlotRows, Counted
  <2>3. QED
    BY <1>2, <2>1, <2>2 DEF RowsCounted
<1>5. ASSUME NEW x \in Materials
      PROVE  bal'[x].reserved = SumFunctionOnSet(HeldOf(x)', Orders) /\ bal'[x].reserved <= bal'[x].onHand
  <2>1. bal'[x].reserved <= bal'[x].onHand
    BY <1>1 DEF BalanceRows
  <2>2. CASE x = m
    <3>1. bal'[x] = b
      BY <2>2 DEF TypeOK
    <3>2. QED
      BY <2>1, <2>2, <3>1
  <2>3. CASE x # m
    <3>1. bal'[x] = bal[x] /\ HeldOf(x)' = HeldOf(x)
      BY <2>3 DEF TypeOK, OthersHeld
    <3>2. QED
      BY <2>1, <3>1 DEF CommittedWithinLimits
  <2>4. QED
    BY <2>2, <2>3
<1>6. ASSUME NEW s \in Slots PROVE BookedOn(s)' = BookedOn(s) /\ slot'[s] = slot[s]
  BY DEF BookedOn
<1>7. CommittedWithinLimits'
  BY <1>5, <1>6 DEF CommittedWithinLimits
<1>8. QED
  BY <1>3, <1>4, <1>7 DEF Written

(* A reservation by hand: one order, one material. *)
LEMMA HeldByHand ==
  ASSUME TypeOK, CommittedWithinLimits, NEW m \in Materials, NEW o \in Orders, NEW h \in Nat,
         held' = [held EXCEPT ![o][m] = h]
  PROVE  /\ held' \in [Orders -> [Materials -> Nat]]
         /\ OthersHeld(m)
         /\ SumFunctionOnSet(HeldOf(m)', Orders) = bal[m].reserved - held[o][m] + h
<1>1. held' \in [Orders -> [Materials -> Nat]]
  BY DEF TypeOK, ReservationRows
<1>2. ASSUME NEW x \in Materials, x # m PROVE HeldOf(x)' = HeldOf(x)
  <2>1. \A y \in Orders : held'[y][x] = held[y][x]
    BY <1>2 DEF TypeOK, ReservationRows
  <2>2. QED
    BY <2>1 DEF HeldOf
<1>3. held'[o][m] = h /\ \A y \in Orders : y # o => held'[y][m] = held[y][m]
  BY DEF TypeOK, ReservationRows
<1>4. SumFunctionOnSet(HeldOf(m)', Orders)
        = SumFunctionOnSet(HeldOf(m), Orders) - held[o][m] + held'[o][m]
  BY <1>1, <1>3, HeldMoves
<1>5. bal[m].reserved = SumFunctionOnSet(HeldOf(m), Orders)
  BY DEF CommittedWithinLimits
<1>6. QED
  BY <1>1, <1>2, <1>3, <1>4, <1>5 DEF OthersHeld

(* A balance whose reserved quantity is rewritten, within the stock. *)
LEMMA ReservedRewritten ==
  ASSUME NEW old \in BalanceRows, NEW q \in Nat, q <= old.onHand,
         NEW b, b = [old EXCEPT !.reserved = q, !.version = @ + 1]
  PROVE  b \in BalanceRows /\ Counted(old, b) /\ b.reserved = q
<1>1. old \in [onHand : Nat, reserved : Nat, version : Nat]
  BY DEF BalanceRows
<1>2. b = [onHand |-> old.onHand, reserved |-> q, version |-> old.version + 1]
  BY <1>1
<1>3. b \in [onHand : Nat, reserved : Nat, version : Nat]
  BY <1>1, <1>2
<1>4. QED
  BY <1>1, <1>2, <1>3 DEF BalanceRows, Counted

(* A balance whose stock is rewritten, above what is reserved. *)
LEMMA OnHandRewritten ==
  ASSUME NEW old \in BalanceRows, NEW q \in Nat, old.reserved <= q,
         NEW b, b = [old EXCEPT !.onHand = q, !.version = @ + 1]
  PROVE  b \in BalanceRows /\ Counted(old, b) /\ b.reserved = old.reserved
<1>1. old \in [onHand : Nat, reserved : Nat, version : Nat]
  BY DEF BalanceRows
<1>2. b = [onHand |-> q, reserved |-> old.reserved, version |-> old.version + 1]
  BY <1>1
<1>3. b \in [onHand : Nat, reserved : Nat, version : Nat]
  BY <1>1, <1>2
<1>4. QED
  BY <1>1, <1>2, <1>3 DEF BalanceRows, Counted

LEMMA CommandWrites == TypeOK /\ CommittedWithinLimits /\ Commands => Written
<1> SUFFICES ASSUME TypeOK, CommittedWithinLimits, Commands PROVE Written
  OBVIOUS
<1>1. ASSUME NEW S \in SUBSET Orders PROVE Bumped(S) \in [Orders -> [state : States, version : Nat]]
  BY DEF Bumped, TypeOK
<1>2. Command => moves' \in Nat
  BY DEF Command, TypeOK
<1>3. ASSUME order' \in [Orders -> [state : States, version : Nat]], moves' \in Nat,
             UNCHANGED <<slot, bal, alloc, by, held, proposals>>
      PROVE  Written
  <2>1. UNCHANGED <<run, status, pins, plan, late, seen>>
    BY <1>3 DEF proposals
  <2>2. TypeOK'
    BY <1>3, <2>1 DEF TypeOK, AllocationRows, ReservationRows, RecommendationRows, SnapshotRows
  <2>3. \A s \in Slots : slot[s].version \in Nat
    BY DEF TypeOK, SlotRows
  <2>4. \A m \in Materials : bal[m].version \in Nat
    BY DEF TypeOK, BalanceRows
  <2>5. RowsCounted
    BY <1>3, <2>1, <2>3, <2>4 DEF RowsCounted, Counted
  <2>6. CommittedWithinLimits'
    BY <1>3 DEF CommittedWithinLimits, BookedOn, HeldOf
  <2>7. QED
    BY <2>2, <2>5, <2>6 DEF Written
<1>4. ASSUME NEW m \in Materials
      PROVE  /\ bal[m] \in BalanceRows
             /\ bal[m].onHand \in Nat /\ bal[m].reserved \in Nat
             /\ bal[m].reserved <= bal[m].onHand
  BY DEF TypeOK, BalanceRows
<1>5. ASSUME NEW S \in SUBSET Orders, Refresh(S) PROVE Written
  BY <1>1, <1>2, <1>3, <1>5 DEF Refresh
<1>6. ASSUME NEW o \in Orders, BeginProduction(o) PROVE Written
  <2>1. order' \in [Orders -> [state : States, version : Nat]]
    BY <1>6 DEF BeginProduction, TypeOK, States
  <2>2. QED
    BY <1>2, <1>3, <1>6, <2>1 DEF BeginProduction
<1>7. ASSUME NEW S \in SUBSET Orders, NEW m \in Materials, NEW qty \in Quantities, NEW o \in Orders,
             ReserveByHand(o, m, qty, S)
      PROVE  Written
  <2> DEFINE old == bal[m]
             h == held[o][m] + qty
             q == old.reserved + qty
             b == [old EXCEPT !.reserved = q, !.version = @ + 1]
  <2>1. old \in BalanceRows
    BY <1>4
  <2>2. held[o][m] \in Nat /\ held[o][m] <= old.reserved
    BY HeldIsPart
  <2>3. h \in Nat /\ q \in Nat /\ q <= old.onHand /\ q = old.reserved - held[o][m] + h
    BY <1>4, <1>7, <2>2, ApprovalsAssumption DEF ReserveByHand
  <2>4. bal' = [bal EXCEPT ![m] = b]
    <3>1. qty # 0
      BY <1>7, ApprovalsAssumption DEF ReserveByHand
    <3>2. Reserved(old, qty) = b
      BY <3>1, Zenon DEF Reserved
    <3>3. bal' = [bal EXCEPT ![m] = Reserved(old, qty)]
      BY <1>7, Zenon DEF ReserveByHand
    <3>4. QED
      BY <3>2, <3>3, Zenon
  <2>5. held' = [held EXCEPT ![o][m] = h]
    BY <1>7 DEF ReserveByHand
  <2>6. order' \in [Orders -> [state : States, version : Nat]] /\ moves' \in Nat
    BY <1>1, <1>2, <1>7 DEF ReserveByHand
  <2>7. UNCHANGED <<slot, alloc, by, proposals>>
    BY <1>7 DEF ReserveByHand
  <2>8. b = [old EXCEPT !.reserved = q, !.version = @ + 1]
    OBVIOUS
  <2> HIDE DEF b, q, h
  <2>9. /\ held' \in [Orders -> [Materials -> Nat]]
        /\ OthersHeld(m)
        /\ SumFunctionOnSet(HeldOf(m)', Orders) = old.reserved - held[o][m] + h
    BY <2>3, <2>5, HeldByHand
  <2>10. b \in BalanceRows /\ Counted(old, b) /\ b.reserved = q
    <3> HIDE DEF old
    <3>1. QED
      BY <2>1, <2>3, <2>8, ReservedRewritten
  <2>11. BalanceWritten(m, b)
    BY <2>3, <2>4, <2>6, <2>7, <2>9, <2>10 DEF BalanceWritten
  <2>12. QED
    BY <2>11, OneBalanceWritten
<1>8. ASSUME NEW S \in SUBSET Orders, NEW m \in Materials, NEW qty \in Quantities, NEW o \in Orders,
             ReleaseByHand(o, m, qty, S)
      PROVE  Written
  <2> DEFINE old == bal[m]
             h == held[o][m] - qty
             q == old.reserved - qty
             b == [old EXCEPT !.reserved = q, !.version = @ + 1]
  <2>1. old \in BalanceRows
    BY <1>4
  <2>2. held[o][m] \in Nat /\ held[o][m] <= old.reserved
    BY HeldIsPart
  <2>3. h \in Nat /\ q \in Nat /\ q <= old.onHand /\ q = old.reserved - held[o][m] + h
    BY <1>4, <1>8, <2>2, ApprovalsAssumption DEF ReleaseByHand
  <2>4. bal' = [bal EXCEPT ![m] = b]
    <3>1. bal' = [bal EXCEPT ![m] = Unreserved(old, qty)]
      BY <1>8, Zenon DEF ReleaseByHand
    <3>2. Unreserved(old, qty) = b
      BY Zenon DEF Unreserved
    <3>3. QED
      BY <3>1, <3>2, Zenon
  <2>5. held' = [held EXCEPT ![o][m] = h]
    BY <1>8 DEF ReleaseByHand
  <2>6. order' \in [Orders -> [state : States, version : Nat]] /\ moves' \in Nat
    BY <1>1, <1>2, <1>8 DEF ReleaseByHand
  <2>7. UNCHANGED <<slot, alloc, by, proposals>>
    BY <1>8 DEF ReleaseByHand
  <2>8. b = [old EXCEPT !.reserved = q, !.version = @ + 1]
    OBVIOUS
  <2> HIDE DEF b, q, h
  <2>9. /\ held' \in [Orders -> [Materials -> Nat]]
        /\ OthersHeld(m)
        /\ SumFunctionOnSet(HeldOf(m)', Orders) = old.reserved - held[o][m] + h
    BY <2>3, <2>5, HeldByHand
  <2>10. b \in BalanceRows /\ Counted(old, b) /\ b.reserved = q
    <3> HIDE DEF old
    <3>1. QED
      BY <2>1, <2>3, <2>8, ReservedRewritten
  <2>11. BalanceWritten(m, b)
    BY <2>3, <2>4, <2>6, <2>7, <2>9, <2>10 DEF BalanceWritten
  <2>12. QED
    BY <2>11, OneBalanceWritten
<1>9. ASSUME NEW S \in SUBSET Orders, NEW m \in Materials, NEW qty \in Quantities, MoveStock(m, qty, S)
      PROVE  Written
  <2> DEFINE old == bal[m]
             b == [old EXCEPT !.onHand = qty, !.version = @ + 1]
  <2>1. old \in BalanceRows
    BY <1>4
  <2>2. qty \in Nat /\ old.reserved <= qty
    BY <1>9, ApprovalsAssumption DEF MoveStock
  <2>3. bal' = [bal EXCEPT ![m] = b]
    <3>1. bal' = [bal EXCEPT ![m] = Stocked(old, qty)]
      BY <1>9, Zenon DEF MoveStock
    <3>2. Stocked(old, qty) = b
      BY Zenon DEF Stocked
    <3>3. QED
      BY <3>1, <3>2, Zenon
  <2>4. order' \in [Orders -> [state : States, version : Nat]] /\ moves' \in Nat
    BY <1>1, <1>2, <1>9 DEF MoveStock
  <2>5. UNCHANGED <<slot, alloc, by, proposals>> /\ UNCHANGED held
    BY <1>9 DEF MoveStock
  <2>6. b = [old EXCEPT !.onHand = qty, !.version = @ + 1]
    OBVIOUS
  <2> HIDE DEF b
  <2>7. b \in BalanceRows /\ Counted(old, b) /\ b.reserved = old.reserved
    <3> HIDE DEF old
    <3>1. QED
      BY <2>1, <2>2, <2>6, OnHandRewritten
  <2>8. OthersHeld(m) /\ HeldOf(m)' = HeldOf(m)
    BY <2>5 DEF HeldOf, OthersHeld
  <2>9. b.reserved = SumFunctionOnSet(HeldOf(m)', Orders)
    BY <2>7, <2>8 DEF CommittedWithinLimits
  <2>10. held' \in [Orders -> [Materials -> Nat]]
    BY <2>5 DEF TypeOK, ReservationRows
  <2>11. BalanceWritten(m, b)
    BY <2>3, <2>4, <2>5, <2>7, <2>8, <2>9, <2>10 DEF BalanceWritten
  <2>12. QED
    BY <2>11, OneBalanceWritten
<1>10. QED
  BY <1>5, <1>6, <1>7, <1>8, <1>9 DEF Commands

-----------------------------------------------------------------------------
(* The invariant *)

(* The six kinds of steps. *)
Analyses == \E r \in Recs : StartRun(r) \/ ReadSlots(r) \/ CloseRun(r)

Proposes == \E r \in Recs, p \in PlanChoices : Propose(r, p)

Applies == \E r \in Recs, shift \in BOOLEAN : Apply(r, shift)

Cancels == \E o \in Orders : CancelOrder(o)

LEMMA NextKinds ==
  [Next]_vars
    => Analyses \/ Proposes \/ Settles \/ Applies \/ Commands \/ Cancels \/ UNCHANGED vars
<1> SUFFICES ASSUME Next
             PROVE  Analyses \/ Proposes \/ Settles \/ Applies \/ Commands \/ Cancels
  OBVIOUS
<1>1. ASSUME NEW r \in Recs,
             \/ StartRun(r) \/ RetryRun(r) \/ ReadSlots(r) \/ CloseRun(r)
             \/ \E p \in PlanChoices : Propose(r, p)
             \/ \E shift \in BOOLEAN : Apply(r, shift)
      PROVE  Analyses \/ Proposes \/ Applies
  BY <1>1 DEF Analyses, Proposes, Applies, RetryRun
<1>2. ASSUME NEW r \in Recs,
             \/ CancelRun(r) \/ Lapse(r) \/ ExpireOnUse(r) \/ ApplyStale(r)
             \/ \E verdict \in {"APPROVED", "REJECTED"} : Decide(r, verdict)
      PROVE  Settles
  BY <1>2 DEF Settles
<1>3. ASSUME NEW S \in SUBSET Recs, Reconcile(S) PROVE Settles
  BY <1>3 DEF Settles
<1>4. QED
  BY <1>1, <1>2, <1>3 DEF Next, Commands, Cancels

(* Writes count versions, so pinned versions go on meaning their rows. *)
LEMMA PinsKept == TypeOK /\ PinsMeanRows /\ RowsCounted /\ TypeOK' => PinsMeanRows'
<1> SUFFICES ASSUME TypeOK, PinsMeanRows, RowsCounted, TypeOK', NEW r \in Recs
             PROVE  /\ \A s \in Slots :
                         /\ pins'[r].slot[s] <= slot'[s].version
                         /\ pins'[r].slot[s] = slot'[s].version => seen'[r].slot[s] = slot'[s]
                    /\ \A m \in Materials :
                         /\ pins'[r].bal[m] <= bal'[m].version
                         /\ pins'[r].bal[m] = bal'[m].version => seen'[r].bal[m] = bal'[m]
  BY DEF PinsMeanRows
<1>1. pins' = pins /\ seen' = seen
  BY DEF RowsCounted
<1>2. ASSUME NEW s \in Slots
      PROVE  pins[r].slot[s] \in Nat /\ slot[s].version \in Nat /\ slot'[s].version \in Nat
  BY DEF TypeOK, SlotRows, SnapshotRows
<1>3. ASSUME NEW m \in Materials
      PROVE  pins[r].bal[m] \in Nat /\ bal[m].version \in Nat /\ bal'[m].version \in Nat
  BY DEF TypeOK, BalanceRows, SnapshotRows
<1>4. QED
  BY <1>1, <1>2, <1>3 DEF PinsMeanRows, RowsCounted, Counted

(* Nothing is written: all versions stand. *)
LEMMA RowsStand == TypeOK /\ UNCHANGED <<rows, pins, seen>> => RowsCounted
<1> SUFFICES ASSUME TypeOK, UNCHANGED <<rows, pins, seen>> PROVE RowsCounted
  OBVIOUS
<1>1. \A s \in Slots : slot[s].version \in Nat
  BY DEF TypeOK, SlotRows
<1>2. \A m \in Materials : bal[m].version \in Nat
  BY DEF TypeOK, BalanceRows
<1>3. QED
  BY <1>1, <1>2 DEF RowsCounted, Counted, rows

(* The snapshot pins the version of every row as it reads it. *)
LEMMA PinsRead ==
  ASSUME TypeOK, PinsMeanRows, NEW r \in Recs, StartRun(r) \/ ReadSlots(r)
  PROVE  PinsMeanRows'
<1>1. \A s \in Slots : slot[s].version \in Nat
  BY DEF TypeOK, SlotRows
<1>2. \A m \in Materials : bal[m].version \in Nat
  BY DEF TypeOK, BalanceRows
<1>3. CASE StartRun(r)
  <2>1. slot' = slot /\ bal' = bal
    BY <1>3 DEF StartRun, rows
  <2>2. \A x \in Recs : pins'[x].slot = pins[x].slot /\ seen'[x].slot = seen[x].slot
    BY <1>3 DEF StartRun, TypeOK, SnapshotRows
  <2>3. \A x \in Recs : x # r => pins'[x].bal = pins[x].bal /\ seen'[x].bal = seen[x].bal
    BY <1>3 DEF StartRun, TypeOK, SnapshotRows
  <2>4. pins'[r].bal = [m \in Materials |-> bal[m].version] /\ seen'[r].bal = bal
    BY <1>3 DEF StartRun, TypeOK, SnapshotRows
  <2>5. QED
    BY <1>1, <1>2, <2>1, <2>2, <2>3, <2>4 DEF PinsMeanRows
<1>4. CASE ReadSlots(r)
  <2>1. slot' = slot /\ bal' = bal
    BY <1>4 DEF ReadSlots, rows
  <2>2. \A x \in Recs : pins'[x].bal = pins[x].bal /\ seen'[x].bal = seen[x].bal
    BY <1>4 DEF ReadSlots, TypeOK, SnapshotRows
  <2>3. \A x \in Recs : x # r => pins'[x].slot = pins[x].slot /\ seen'[x].slot = seen[x].slot
    BY <1>4 DEF ReadSlots, TypeOK, SnapshotRows
  <2>4. pins'[r].slot = [s \in Slots |-> slot[s].version] /\ seen'[r].slot = slot
    BY <1>4 DEF ReadSlots, TypeOK, SnapshotRows
  <2>5. QED
    BY <1>1, <1>2, <2>1, <2>2, <2>3, <2>4 DEF PinsMeanRows
<1>5. QED
  BY <1>3, <1>4

(* Only open proposals are settled, and none is opened again. *)
LEMMA SettleMoves ==
  ASSUME TypeOK, Settles, NEW x \in Recs
  PROVE  /\ status[x] \notin Open => status'[x] = status[x]
         /\ status[x] \in Open => status'[x] \in Statuses \ {"NONE", "APPLIED"}
         /\ run'[x] = run[x] \/ run'[x] = "ENDED"
<1> USE DEF TypeOK, RecommendationRows, Open, Statuses
<1>1. ASSUME NEW r \in Recs, CancelRun(r)
      PROVE  /\ status[x] \notin Open => status'[x] = status[x]
             /\ status[x] \in Open => status'[x] \in Statuses \ {"NONE", "APPLIED"}
             /\ run'[x] = run[x] \/ run'[x] = "ENDED"
  BY <1>1 DEF CancelRun
<1>2. ASSUME NEW r \in Recs, Lapse(r) \/ ExpireOnUse(r) \/ ApplyStale(r)
      PROVE  /\ status[x] \notin Open => status'[x] = status[x]
             /\ status[x] \in Open => status'[x] \in Statuses \ {"NONE", "APPLIED"}
             /\ run'[x] = run[x]
  BY <1>2 DEF Lapse, ExpireOnUse, ApplyStale, Expirable
<1>3. ASSUME NEW r \in Recs, NEW verdict \in {"APPROVED", "REJECTED"}, Decide(r, verdict)
      PROVE  /\ status[x] \notin Open => status'[x] = status[x]
             /\ status[x] \in Open => status'[x] \in Statuses \ {"NONE", "APPLIED"}
             /\ run'[x] = run[x]
  BY <1>3 DEF Decide, CanDecide
<1>4. ASSUME NEW S \in SUBSET Recs, Reconcile(S)
      PROVE  /\ status[x] \notin Open => status'[x] = status[x]
             /\ status[x] \in Open => status'[x] \in Statuses \ {"NONE", "APPLIED"}
             /\ run'[x] = run[x]
  BY <1>4 DEF Reconcile, Expirable
<1>5. QED
  BY <1>1, <1>2, <1>3, <1>4 DEF Settles

(* What create_recommendation and _supersede_previous do to the statuses. *)
LEMMA ProposeMoves ==
  ASSUME TypeOK, NEW r \in Recs, NEW p \in PlanChoices, Propose(r, p)
  PROVE  /\ status'[r] = "PROPOSED" /\ plan'[r] = p /\ FitsSnapshot(r, p)
         /\ \A x \in Recs : x # r =>
              /\ plan'[x] = plan[x] /\ run'[x] = run[x]
              /\ status'[x] = IF OrderOf[x] = OrderOf[r] /\ status[x] \in Open
                              THEN "SUPERSEDED" ELSE status[x]
         /\ run[r] = "RUNNING" /\ run'[r] = "ENDED"
  BY DEF Propose, AfterProposal, TypeOK, RecommendationRows

(* apply, likewise. *)
LEMMA ApplyMoves ==
  ASSUME TypeOK, NEW r \in Recs, NEW shift \in BOOLEAN, Apply(r, shift)
  PROVE  /\ status[r] = "APPROVED" /\ status'[r] = "APPLIED"
         /\ \A x \in Recs : x # r => status'[x] = status[x]
         /\ UNCHANGED <<run, plan, seen>>
  BY DEF Apply, CanApply, TypeOK, RecommendationRows

(* Commands on rows leave the proposals alone. *)
LEMMA CommandsKeep == Commands \/ Cancels => UNCHANGED <<run, status, plan, seen>>
<1>1. ASSUME NEW S \in SUBSET Orders, Refresh(S) PROVE UNCHANGED proposals
  BY <1>1 DEF Refresh
<1>2. ASSUME NEW S \in SUBSET Orders, NEW m \in Materials, NEW qty \in Quantities,
             MoveStock(m, qty, S)
      PROVE  UNCHANGED proposals
  BY <1>2 DEF MoveStock
<1>3. ASSUME NEW S \in SUBSET Orders, NEW m \in Materials, NEW qty \in Quantities, NEW o \in Orders,
             ReserveByHand(o, m, qty, S) \/ ReleaseByHand(o, m, qty, S)
      PROVE  UNCHANGED proposals
  BY <1>3 DEF ReserveByHand, ReleaseByHand
<1>4. ASSUME NEW o \in Orders, BeginProduction(o) \/ CancelOrder(o) PROVE UNCHANGED proposals
  BY <1>4 DEF BeginProduction, CancelOrder
<1>5. Commands \/ Cancels => UNCHANGED proposals
  BY <1>1, <1>2, <1>3, <1>4 DEF Commands, Cancels
<1>6. QED
  BY <1>5 DEF proposals

(* Types, totals and pins, step by step. *)
LEMMA NextRows ==
  IInv /\ [Next]_vars => TypeOK' /\ PinsMeanRows' /\ CommittedWithinLimits'
<1> SUFFICES ASSUME IInv, [Next]_vars
             PROVE  TypeOK' /\ PinsMeanRows' /\ CommittedWithinLimits'
  OBVIOUS
<1>0. TypeOK /\ PinsMeanRows /\ CommittedWithinLimits
  BY DEF IInv, CommitmentsAgree
<1>1. ASSUME UNCHANGED rows PROVE CommittedWithinLimits'
  BY <1>0, <1>1 DEF rows, CommittedWithinLimits, BookedOn, HeldOf
<1>2. CASE Analyses
  <2>1. PICK r \in Recs : StartRun(r) \/ ReadSlots(r) \/ CloseRun(r)
    BY <1>2 DEF Analyses
  <2>2. TypeOK'
    BY <1>0, <2>1, SnapshotTypes
  <2>3. UNCHANGED rows
    BY <2>1 DEF StartRun, ReadSlots, CloseRun
  <2>4. PinsMeanRows'
    <3>1. CASE StartRun(r) \/ ReadSlots(r)
      BY <1>0, <3>1, PinsRead
    <3>2. CASE CloseRun(r)
      <4>1. UNCHANGED <<rows, pins, seen>>
        BY <3>2 DEF CloseRun
      <4>2. QED
        BY <1>0, <2>2, <4>1, RowsStand, PinsKept
    <3>3. QED
      BY <2>1, <3>1, <3>2
  <2>5. QED
    BY <1>1, <2>2, <2>3, <2>4
<1>3. ASSUME TypeOK', UNCHANGED <<rows, pins, seen>>
      PROVE  PinsMeanRows' /\ CommittedWithinLimits'
  BY <1>0, <1>1, <1>3, RowsStand, PinsKept
<1>4. CASE Proposes
  BY <1>0, <1>3, <1>4, ProposeTypes DEF Proposes
<1>5. CASE Settles
  BY <1>0, <1>3, <1>5, SettleTypes
<1>6. ASSUME Written PROVE TypeOK' /\ PinsMeanRows' /\ CommittedWithinLimits'
  BY <1>0, <1>6, PinsKept DEF Written
<1>7. CASE Applies
  BY <1>0, <1>6, <1>7, ApplyWrites DEF Applies
<1>8. CASE Commands
  BY <1>0, <1>6, <1>8, CommandWrites
<1>9. CASE Cancels
  BY <1>0, <1>6, <1>9, CancelWrites DEF Cancels
<1>10. CASE UNCHANGED vars
  <2>1. UNCHANGED <<rows, pins, seen>> /\ UNCHANGED <<run, status, plan, late, moves>>
    BY <1>10 DEF vars, rows
  <2>2. TypeOK'
    BY <1>0, <2>1 DEF TypeOK, AllocationRows, ReservationRows, RecommendationRows, SnapshotRows, rows
  <2>3. QED
    BY <1>3, <2>1, <2>2
<1>11. QED
  BY NextKinds, <1>2, <1>4, <1>5, <1>7, <1>8, <1>9, <1>10

(* A plan goes on being one of its snapshot: no snapshot is read again once  *)
(* its run has ended.                                                        *)
LEMMA NextPlan == IInv /\ [Next]_vars => PlanIsOfSnapshot'
<1> SUFFICES ASSUME IInv, [Next]_vars PROVE PlanIsOfSnapshot'
  OBVIOUS
<1>0. TypeOK /\ PlanIsOfSnapshot
  BY DEF IInv
<1> DEFINE Before(x) == run[x] \in {"NONE", "READING", "RUNNING"}
<1>1. CASE Analyses
  <2>1. PICK r \in Recs : StartRun(r) \/ ReadSlots(r) \/ CloseRun(r)
    BY <1>1 DEF Analyses
  <2>2. status' = status /\ plan' = plan /\ Before(r)
    BY <2>1 DEF StartRun, ReadSlots, CloseRun
  <2>3. \A x \in Recs : x # r => run'[x] = run[x] /\ seen'[x] = seen[x]
    BY <1>0, <2>1 DEF StartRun, ReadSlots, CloseRun, TypeOK, SnapshotRows
  <2>4. status[r] = "NONE"
    BY <1>0, <2>2 DEF PlanIsOfSnapshot
  <2>5. QED
    BY <1>0, <2>2, <2>3, <2>4 DEF PlanIsOfSnapshot, FitsSnapshot
<1>2. CASE Proposes
  <2>1. PICK r \in Recs, p \in PlanChoices : Propose(r, p)
    BY <1>2 DEF Proposes
  <2>2. seen' = seen
    BY <2>1 DEF Propose
  <2>3. ASSUME NEW x \in Recs, x # r
        PROVE  /\ run'[x] \in {"NONE", "READING", "RUNNING"} => status'[x] = "NONE"
               /\ status'[x] # "NONE" => FitsSnapshot(x, plan[x])
    <3>1. run'[x] = run[x] /\ (status[x] = "NONE" => status'[x] = "NONE")
      BY <1>0, <2>1, <2>3, ProposeMoves DEF Open
    <3>2. QED
      BY <1>0, <3>1 DEF PlanIsOfSnapshot
  <2>4. \A x \in Recs : x # r => plan'[x] = plan[x]
    BY <1>0, <2>1, ProposeMoves
  <2>5. run'[r] = "ENDED" /\ plan'[r] = p /\ FitsSnapshot(r, p)
    BY <1>0, <2>1, ProposeMoves
  <2>6. QED
    BY <2>2, <2>3, <2>4, <2>5 DEF PlanIsOfSnapshot, FitsSnapshot
<1>3. CASE Settles
  <2>1. plan' = plan /\ seen' = seen
    BY <1>0, <1>3, SettleTypes
  <2>2. ASSUME NEW x \in Recs
        PROVE  /\ run'[x] \in {"NONE", "READING", "RUNNING"} => status'[x] = "NONE"
               /\ status'[x] # "NONE" => FitsSnapshot(x, plan[x])
    <3>1. /\ status[x] = "NONE" => status'[x] = "NONE"
          /\ run'[x] = run[x] \/ run'[x] = "ENDED"
      BY <1>0, <1>3, SettleMoves DEF Open
    <3>2. QED
      BY <1>0, <3>1 DEF PlanIsOfSnapshot
  <2>3. QED
    BY <2>1, <2>2 DEF PlanIsOfSnapshot, FitsSnapshot
<1>4. CASE Applies
  <2>1. PICK r \in Recs, shift \in BOOLEAN : Apply(r, shift)
    BY <1>4 DEF Applies
  <2>2. /\ status[r] = "APPROVED" /\ \A x \in Recs : x # r => status'[x] = status[x]
        /\ UNCHANGED <<run, plan, seen>>
    BY <1>0, <2>1, ApplyMoves
  <2>3. QED
    BY <1>0, <2>2 DEF PlanIsOfSnapshot, FitsSnapshot
<1>5. CASE Commands \/ Cancels \/ UNCHANGED vars
  <2>1. UNCHANGED <<run, status, plan, seen>>
    BY <1>5, CommandsKeep DEF vars
  <2>2. QED
    BY <1>0, <2>1 DEF PlanIsOfSnapshot, FitsSnapshot
<1>6. QED
  BY NextKinds, <1>1, <1>2, <1>3, <1>4, <1>5

(* A proposal opens only as it ends the others of its order. *)
LEMMA NextOneOpen == IInv /\ [Next]_vars => OneOpenPerOrder'
<1> SUFFICES ASSUME IInv, [Next]_vars PROVE OneOpenPerOrder'
  OBVIOUS
<1>0. TypeOK /\ OneOpenPerOrder
  BY DEF IInv
<1>1. ASSUME \A x \in Recs : status'[x] \in Open => status[x] \in Open
      PROVE  OneOpenPerOrder'
  BY <1>0, <1>1 DEF OneOpenPerOrder
<1>2. CASE Proposes
  <2>1. PICK r \in Recs, p \in PlanChoices : Propose(r, p)
    BY <1>2 DEF Proposes
  <2>2. \A x \in Recs : x # r =>
          status'[x] = IF OrderOf[x] = OrderOf[r] /\ status[x] \in Open
                       THEN "SUPERSEDED" ELSE status[x]
    BY <1>0, <2>1, ProposeMoves
  <2>3. QED
    BY <1>0, <2>2 DEF OneOpenPerOrder, Open
<1>3. CASE Settles
  BY <1>0, <1>1, <1>3, SettleMoves
<1>4. CASE Applies
  <2>1. PICK r \in Recs, shift \in BOOLEAN : Apply(r, shift)
    BY <1>4 DEF Applies
  <2>2. status[r] = "APPROVED" /\ \A x \in Recs : x # r => status'[x] = status[x]
    BY <1>0, <2>1, ApplyMoves
  <2>3. QED
    BY <1>1, <2>2 DEF Open
<1>5. CASE Analyses \/ Commands \/ Cancels \/ UNCHANGED vars
  <2>1. status' = status
    BY <1>5, CommandsKeep DEF Analyses, StartRun, ReadSlots, CloseRun, vars
  <2>2. QED
    BY <1>1, <2>1
<1>6. QED
  BY NextKinds, <1>2, <1>3, <1>4, <1>5

(* What the orders have allocated is the plan of an applied recommendation,  *)
(* step by step.                                                             *)
LEMMA NextAllocations == IInv /\ [Next]_vars => AllocationsAreThePlan'
<1> SUFFICES ASSUME IInv, [Next]_vars PROVE AllocationsAreThePlan'
  OBVIOUS
<1>0. TypeOK /\ PlanIsOfSnapshot /\ AllocationsAreThePlan
  BY DEF IInv, CommitmentsAgree
<1> DEFINE Kept(o) == /\ by'[o] = by[o] /\ alloc'[o] = alloc[o]
                      /\ order'[o].state = order[o].state
           SettledKept == \A x \in Recs :
                            status[x] = "APPLIED" => status'[x] = "APPLIED" /\ plan'[x] = plan[x]
           Agrees(o) == IF by'[o] = NoRec
                        THEN alloc'[o] = None /\ order'[o].state \in {"DRAFT", "VALIDATED", "CANCELLED"}
                        ELSE /\ status'[by'[o]] = "APPLIED"
                             /\ OrderOf[by'[o]] = o
                             /\ alloc'[o] = plan'[by'[o]].minutes
                             /\ order'[o].state \in {"PLANNED", "IN_PRODUCTION"}
<1>1. ASSUME NEW o \in Orders PROVE by[o] \in Recs \cup {NoRec}
  BY <1>0 DEF TypeOK, AllocationRows
<1>2. ASSUME NEW o \in Orders, Kept(o), SettledKept PROVE Agrees(o)
  BY <1>0, <1>1, <1>2 DEF AllocationsAreThePlan
<1>3. ASSUME \A o \in Orders : Agrees(o) PROVE AllocationsAreThePlan'
  BY <1>3 DEF AllocationsAreThePlan
<1>4. ASSUME UNCHANGED <<order, alloc, by>>, SettledKept PROVE AllocationsAreThePlan'
  BY <1>2, <1>3, <1>4
<1>5. CASE Analyses \/ UNCHANGED vars
  BY <1>4, <1>5 DEF Analyses, StartRun, ReadSlots, CloseRun, rows, vars
<1>6. CASE Proposes
  <2>1. PICK r \in Recs, p \in PlanChoices : Propose(r, p)
    BY <1>6 DEF Proposes
  <2>2. UNCHANGED <<order, alloc, by>>
    BY <2>1 DEF Propose, rows
  <2>3. status[r] = "NONE"
    BY <1>0, <2>1, ProposeMoves DEF PlanIsOfSnapshot
  <2>4. SettledKept
    BY <1>0, <2>1, <2>3, ProposeMoves DEF Open
  <2>5. QED
    BY <1>4, <2>2, <2>4
<1>7. CASE Settles
  <2>1. UNCHANGED <<order, alloc, by>> /\ plan' = plan
    BY <1>0, <1>7, SettleTypes DEF rows
  <2>2. SettledKept
    BY <1>0, <1>7, <2>1, SettleMoves DEF Open
  <2>3. QED
    BY <1>4, <2>1, <2>2
<1>8. CASE Applies
  <2>1. PICK r \in Recs, shift \in BOOLEAN : Apply(r, shift)
    BY <1>8 DEF Applies
  <2>2. /\ status'[r] = "APPLIED" /\ plan' = plan
        /\ \A x \in Recs : x # r => status'[x] = status[x]
    BY <1>0, <2>1, ApplyMoves
  <2>3. SettledKept
    BY <2>2
  <2>4. OrderOf[r] \in Orders /\ r # NoRec
    BY ApprovalsAssumption
  <2>5. /\ by'[OrderOf[r]] = r /\ alloc'[OrderOf[r]] = plan[r].minutes
        /\ order'[OrderOf[r]].state = "PLANNED"
    BY <1>0, <2>1, <2>4 DEF Apply, TypeOK, AllocationRows
  <2>6. ASSUME NEW o \in Orders, o # OrderOf[r] PROVE Kept(o)
    BY <1>0, <2>1, <2>6 DEF Apply, TypeOK, AllocationRows
  <2>7. Agrees(OrderOf[r])
    BY <2>2, <2>4, <2>5
  <2>8. QED
    BY <1>2, <1>3, <2>3, <2>6, <2>7
<1>9. CASE Cancels
  <2>1. PICK c \in Orders : CancelOrder(c)
    BY <1>9 DEF Cancels
  <2>2. SettledKept
    BY <1>9, CommandsKeep
  <2>3. by'[c] = NoRec /\ alloc'[c] = None /\ order'[c].state = "CANCELLED"
    BY <1>0, <2>1 DEF CancelOrder, TypeOK, AllocationRows
  <2>4. ASSUME NEW o \in Orders, o # c PROVE Kept(o)
    BY <1>0, <2>1, <2>4 DEF CancelOrder, TypeOK, AllocationRows
  <2>5. QED
    BY <1>2, <1>3, <2>2, <2>3, <2>4
<1>10. CASE Commands
  <2>1. SettledKept
    BY <1>10, CommandsKeep
  <2>2. ASSUME NEW S \in SUBSET Orders, NEW o \in Orders
        PROVE  Bumped(S)[o].state = order[o].state
    BY <1>0 DEF Bumped, TypeOK
  <2>3. ASSUME UNCHANGED <<alloc, by>>, NEW S \in SUBSET Orders, order' = Bumped(S)
        PROVE  AllocationsAreThePlan'
    BY <1>2, <1>3, <2>1, <2>2, <2>3
  <2>4. ASSUME NEW c \in Orders, BeginProduction(c) PROVE AllocationsAreThePlan'
    <3>1. UNCHANGED <<alloc, by>>
      BY <2>4 DEF BeginProduction
    <3>2. order[c].state = "PLANNED" /\ order'[c].state = "IN_PRODUCTION"
      BY <1>0, <2>4 DEF BeginProduction, TypeOK
    <3>3. ASSUME NEW o \in Orders, o # c PROVE Kept(o)
      BY <1>0, <2>4, <3>3 DEF BeginProduction, TypeOK
    <3>4. Agrees(c)
      BY <1>0, <1>1, <2>1, <3>1, <3>2 DEF AllocationsAreThePlan
    <3>5. QED
      BY <1>2, <1>3, <2>1, <3>3, <3>4
  <2>5. ASSUME NEW S \in SUBSET Orders,
               \/ Refresh(S)
               \/ \E m \in Materials, qty \in Quantities :
                    \/ MoveStock(m, qty, S)
                    \/ \E o \in Orders : ReserveByHand(o, m, qty, S) \/ ReleaseByHand(o, m, qty, S)
        PROVE  UNCHANGED <<alloc, by>> /\ order' = Bumped(S)
    BY <2>5 DEF Refresh, MoveStock, ReserveByHand, ReleaseByHand
  <2>6. QED
    BY <1>10, <2>3, <2>4, <2>5 DEF Commands
<1>11. QED
  BY NextKinds, <1>5, <1>6, <1>7, <1>8, <1>9, <1>10

LEMMA InitIInv == Init => IInv
<1> SUFFICES ASSUME Init PROVE IInv
  OBVIOUS
<1>1. TypeOK
  BY InitTypeOK
<1>2. PinsMeanRows
  BY DEF Init, PinsMeanRows, None, NoStock
<1>3. PlanIsOfSnapshot /\ OneOpenPerOrder
  BY DEF Init, PlanIsOfSnapshot, OneOpenPerOrder, Open
<1>4. AllocationsAreThePlan
  BY DEF Init, AllocationsAreThePlan
<1>5. CommittedWithinLimits
  <2>1. ASSUME NEW s \in Slots PROVE SumFunctionOnSet(BookedOn(s), Orders) = 0
    <3>1. \A o \in Orders : BookedOn(s)[o] = 0
      BY DEF Init, BookedOn, None
    <3>2. QED
      BY <3>1, SumZero, ApprovalsAssumption
  <2>2. ASSUME NEW m \in Materials PROVE SumFunctionOnSet(HeldOf(m), Orders) = 0
    <3>1. \A o \in Orders : HeldOf(m)[o] = 0
      BY DEF Init, HeldOf, NoStock
    <3>2. QED
      BY <3>1, SumZero, ApprovalsAssumption
  <2>3. \A s \in Slots : slot[s].used = 0 /\ 0 <= Capacity[s]
    BY ApprovalsAssumption DEF Init
  <2>4. \A m \in Materials : bal[m].reserved = 0 /\ 0 <= bal[m].onHand
    BY ApprovalsAssumption DEF Init
  <2>5. QED
    BY <2>1, <2>2, <2>3, <2>4 DEF CommittedWithinLimits
<1>6. QED
  BY <1>1, <1>2, <1>3, <1>4, <1>5 DEF IInv, CommitmentsAgree

LEMMA IInvHolds == Spec => []IInv
<1>1. IInv /\ [Next]_vars => IInv'
  BY NextRows, NextPlan, NextOneOpen, NextAllocations DEF IInv, CommitmentsAgree
<1>2. QED
  BY InitIInv, <1>1, PTL DEF Spec

(***************************************************************************)
(* The types of orders, rows, snapshots and recommendations.                *)
(***************************************************************************)
THEOREM ApprovalTypes == Spec => []TypeOK
<1>1. IInv => TypeOK
  BY DEF IInv
<1>2. QED
  BY IInvHolds, <1>1, PTL

(***************************************************************************)
(* approvals.apply, release_order_allocations, reserve_material and the     *)
(* cancellation of orders: totals are those of the rows they count and stay *)
(* within their limits, and the rows are the plan in force.                 *)
(***************************************************************************)
THEOREM Committed == Spec => []CommitmentsAgree
<1>1. IInv => CommitmentsAgree
  BY DEF IInv
<1>2. QED
  BY IInvHolds, <1>1, PTL

(***************************************************************************)
(* orchestrator._supersede_previous: a reviewer has one open proposal of an *)
(* order at most.                                                           *)
(***************************************************************************)
THEOREM OneIsOpen == Spec => []OneOpenPerOrder
<1>1. IInv => OneOpenPerOrder
  BY DEF IInv
<1>2. QED
  BY IInvHolds, <1>1, PTL

LEMMA FreshFits == IInv => FreshPlanFits
<1> SUFFICES ASSUME IInv, NEW r \in Recs, status[r] \in Open, ~Stale(r)
             PROVE  /\ \A s \in Slots : plan[r].minutes[s] > 0 =>
                         /\ slot[s] = seen[r].slot[s]
                         /\ SlotApplied(r, s).used <= SlotAfter(r, s)
                         /\ SlotAfter(r, s) <= Capacity[s]
                    /\ \A m \in Materials : plan[r].qty[m] > 0 =>
                         /\ bal[m] = seen[r].bal[m]
                         /\ BalanceApplied(r, m).reserved <= ReservedAfter(r, m)
                         /\ ReservedAfter(r, m) <= bal[m].onHand
                    /\ PlanFits(r)
  BY DEF FreshPlanFits
<1>1. TypeOK /\ PinsMeanRows /\ FitsSnapshot(r, plan[r]) /\ CommittedWithinLimits
  BY DEF IInv, CommitmentsAgree, PlanIsOfSnapshot, Open
<1>2. OrderOf[r] \in Orders
  BY ApprovalsAssumption
<1>3. ASSUME NEW s \in Slots, plan[r].minutes[s] > 0
      PROVE  /\ slot[s] = seen[r].slot[s]
             /\ SlotApplied(r, s).used <= SlotAfter(r, s)
             /\ SlotAfter(r, s) <= Capacity[s]
             /\ SlotApplied(r, s).used <= Capacity[s]
  <2>1. slot[s] = seen[r].slot[s]
    BY <1>1, <1>3 DEF Stale, PinsMeanRows
  <2>2. slot[s].used + plan[r].minutes[s] <= Capacity[s]
    BY <1>1, <1>3, <2>1 DEF FitsSnapshot
  <2>3. SlotApplied(r, s).used = slot[s].used - alloc[OrderOf[r]][s] + plan[r].minutes[s]
    BY <1>1, SlotAppliedRow
  <2>4. /\ slot[s].used \in Nat /\ plan[r].minutes[s] \in Nat /\ Capacity[s] \in Nat
        /\ alloc[OrderOf[r]][s] \in Nat
    BY <1>1, <1>2, ApprovalsAssumption
       DEF TypeOK, SlotRows, AllocationRows, RecommendationRows, Plans
  <2>5. QED
    BY <2>1, <2>2, <2>3, <2>4 DEF SlotAfter
<1>4. ASSUME NEW m \in Materials, plan[r].qty[m] > 0
      PROVE  /\ bal[m] = seen[r].bal[m]
             /\ BalanceApplied(r, m).reserved <= ReservedAfter(r, m)
             /\ ReservedAfter(r, m) <= bal[m].onHand
             /\ BalanceApplied(r, m).reserved <= BalanceApplied(r, m).onHand
  <2>1. bal[m] = seen[r].bal[m]
    BY <1>1, <1>4 DEF Stale, PinsMeanRows
  <2>2. bal[m].reserved + plan[r].qty[m] <= bal[m].onHand
    BY <1>1, <1>4, <2>1 DEF FitsSnapshot
  <2>3. /\ BalanceApplied(r, m).reserved = bal[m].reserved - held[OrderOf[r]][m] + plan[r].qty[m]
        /\ BalanceApplied(r, m).onHand = bal[m].onHand
    BY <1>1, BalanceAppliedRow
  <2>4. /\ bal[m].reserved \in Nat /\ bal[m].onHand \in Nat /\ plan[r].qty[m] \in Nat
        /\ held[OrderOf[r]][m] \in Nat
    BY <1>1, <1>2 DEF TypeOK, BalanceRows, ReservationRows, RecommendationRows, Plans
  <2>5. QED
    BY <2>1, <2>2, <2>3, <2>4 DEF ReservedAfter
<1>5. PlanFits(r)
  BY <1>3, <1>4 DEF PlanFits
<1>6. QED
  BY <1>3, <1>4, <1>5

(***************************************************************************)
(* check_staleness of apply: a proposal whose versions stand was computed    *)
(* from the rows that are there, and there is room for what it plans.        *)
(***************************************************************************)
THEOREM FreshIsRoom == Spec => []FreshPlanFits
  BY IInvHolds, FreshFits, PTL

-----------------------------------------------------------------------------
(* Refinement *)

(* The fate of a proposal, by its status. *)
LEMMA FateIs ==
  ASSUME TypeOK, NEW x \in Recs
  PROVE  /\ Fate[x] = "unborn" <=> status[x] = "NONE"
         /\ Fate[x] = "proposed" <=> status[x] = "PROPOSED"
         /\ Fate[x] = "approved" <=> status[x] = "APPROVED"
         /\ Fate[x] = "applied" <=> status[x] = "APPLIED"
         /\ Fate[x] = "dropped" <=> status[x] \in {"REJECTED", "EXPIRED", "SUPERSEDED"}
         /\ Fate[x] \in {"unborn", "proposed", "approved", "applied", "dropped"}
  BY DEF Fate, TypeOK, RecommendationRows, Statuses

(* A function of the proposals, as its values. *)
LEMMA FateNext ==
  ASSUME NEW f, \A x \in Recs : Fate'[x] = f[x], f = [x \in Recs |-> f[x]]
  PROVE  Fate' = f
<1>1. Fate' = [x \in Recs |-> Fate'[x]]
  BY DEF Fate
<1>2. QED
  BY <1>1

(* Statuses that do not change, or change from open to settled ones. *)
LEMMA DropRefines ==
  ASSUME TypeOK, TypeOK', UNCHANGED by,
         \A x \in Recs : \/ status'[x] = status[x]
                         \/ /\ status[x] \in Open
                            /\ status'[x] \in {"REJECTED", "EXPIRED", "SUPERSEDED"}
  PROVE  Contract!Next
<1> DEFINE S == {x \in Recs : status'[x] # status[x]}
           f == [x \in Recs |-> IF x \in S THEN "dropped" ELSE Fate[x]]
<1>1. ASSUME NEW x \in Recs PROVE Fate'[x] = f[x]
  <2>1. CASE x \in S
    BY <2>1, FateIs DEF Fate
  <2>2. CASE x \notin S
    BY <2>2 DEF Fate
  <2>3. QED
    BY <2>1, <2>2
<1>2. Fate' = f
  <2> HIDE DEF f
  <2>1. f = [x \in Recs |-> f[x]]
    BY DEF f
  <2>2. QED
    BY <1>1, <2>1, FateNext
<1>3. \A x \in S : Fate[x] \in Contract!Open
  BY FateIs DEF Open, Contract!Open
<1>4. S \in SUBSET Recs
  OBVIOUS
<1>5. Contract!Drop(S)
  BY <1>2, <1>3 DEF Contract!Drop
<1>6. QED
  BY <1>4, <1>5 DEF Contract!Next

LEMMA OfferRefines ==
  ASSUME IInv, TypeOK', NEW r \in Recs, NEW p \in PlanChoices, Propose(r, p)
  PROVE  Contract!Next
<1>0. TypeOK /\ PlanIsOfSnapshot
  BY DEF IInv
<1> DEFINE f == [x \in Recs |->
                   IF x = r THEN "proposed"
                   ELSE IF OrderOf[x] = OrderOf[r] /\ Fate[x] \in Contract!Open THEN "dropped"
                   ELSE Fate[x]]
<1>1. status[r] = "NONE"
  BY <1>0, ProposeMoves DEF PlanIsOfSnapshot
<1>2. ASSUME NEW x \in Recs PROVE Fate'[x] = f[x]
  <2>1. CASE x = r
    BY <1>0, <2>1, ProposeMoves DEF Fate
  <2>2. CASE x # r
    <3>1. Fate[x] \in Contract!Open <=> status[x] \in Open
      BY <1>0, FateIs DEF Open, Contract!Open
    <3>2. status'[x] = IF OrderOf[x] = OrderOf[r] /\ status[x] \in Open
                       THEN "SUPERSEDED" ELSE status[x]
      BY <1>0, <2>2, ProposeMoves
    <3>3. CASE OrderOf[x] = OrderOf[r] /\ status[x] \in Open
      BY <2>2, <3>1, <3>2, <3>3 DEF Fate
    <3>4. CASE ~(OrderOf[x] = OrderOf[r] /\ status[x] \in Open)
      BY <2>2, <3>1, <3>2, <3>4 DEF Fate
    <3>5. QED
      BY <3>3, <3>4
  <2>3. QED
    BY <2>1, <2>2
<1>3. Fate' = f
  <2> HIDE DEF f
  <2>1. f = [x \in Recs |-> f[x]]
    BY DEF f
  <2>2. QED
    BY <1>2, <2>1, FateNext
<1>4. Fate[r] = "unborn" /\ by' = by
  BY <1>0, <1>1, FateIs DEF Propose, rows
<1>5. Contract!Offer(r)
  BY <1>3, <1>4 DEF Contract!Offer
<1>6. QED
  BY <1>5 DEF Contract!Next

(* One proposal gets a fate, the others keep theirs. *)
LEMMA OneFate ==
  ASSUME TypeOK, NEW r \in Recs, NEW v, status' = [status EXCEPT ![r] = v],
         NEW fate, (v = "APPROVED" /\ fate = "approved") \/ (v = "APPLIED" /\ fate = "applied")
  PROVE  Fate' = [Fate EXCEPT ![r] = fate]
<1> DEFINE f == [Fate EXCEPT ![r] = fate]
<1>1. ASSUME NEW x \in Recs PROVE Fate'[x] = f[x]
  BY DEF Fate, TypeOK, RecommendationRows
<1>2. f = [x \in Recs |-> f[x]]
  BY DEF Fate
<1> HIDE DEF f
<1>3. Fate' = f
  BY <1>1, <1>2, FateNext
<1>4. QED
  BY <1>3 DEF f

LEMMA SettleRefines ==
  ASSUME IInv, TypeOK', Settles
  PROVE  [Contract!Next]_(Contract!vars)
<1>0. TypeOK /\ UNCHANGED by
  BY SettleTypes DEF IInv, rows
<1> USE DEF TypeOK, RecommendationRows, Open
<1>1. ASSUME NEW r \in Recs, Decide(r, "APPROVED") PROVE Contract!Next
  <2>1. status' = [status EXCEPT ![r] = "APPROVED"] /\ status[r] = "PROPOSED"
    BY <1>1 DEF Decide, CanDecide
  <2>2. Fate' = [Fate EXCEPT ![r] = "approved"]
    BY <1>0, <2>1, OneFate
  <2>3. Fate[r] = "proposed"
    BY <1>0, <2>1, FateIs
  <2>4. Contract!Approve(r)
    BY <1>0, <2>2, <2>3 DEF Contract!Approve
  <2>5. QED
    BY <2>4 DEF Contract!Next
<1>2. ASSUME \A x \in Recs : \/ status'[x] = status[x]
                             \/ /\ status[x] \in {"PROPOSED", "APPROVED"}
                                /\ status'[x] \in {"REJECTED", "EXPIRED", "SUPERSEDED"}
      PROVE  Contract!Next
  BY <1>0, <1>2, DropRefines
<1>3. ASSUME NEW r \in Recs,
             \/ CancelRun(r) \/ Lapse(r) \/ ExpireOnUse(r) \/ ApplyStale(r) \/ Decide(r, "REJECTED")
      PROVE  Contract!Next
  <2>1. CASE CancelRun(r)
    BY <1>0, <1>2, <2>1 DEF CancelRun
  <2>2. CASE Lapse(r)
    BY <1>0, <1>2, <2>2 DEF Lapse
  <2>3. CASE ExpireOnUse(r) \/ ApplyStale(r) \/ Decide(r, "REJECTED")
    BY <1>0, <1>2, <2>3 DEF ExpireOnUse, ApplyStale, Decide, CanDecide, Expirable
  <2>4. QED
    BY <1>3, <2>1, <2>2, <2>3
<1>4. ASSUME NEW S \in SUBSET Recs, Reconcile(S) PROVE Contract!Next
  BY <1>0, <1>2, <1>4 DEF Reconcile, Expirable
<1>5. QED
  BY <1>1, <1>3, <1>4 DEF Settles

LEMMA EnforceRefines ==
  ASSUME IInv, NEW r \in Recs, NEW shift \in BOOLEAN, Apply(r, shift)
  PROVE  Contract!Next
<1>1. TypeOK
  BY DEF IInv
<1>2. /\ status' = [status EXCEPT ![r] = "APPLIED"] /\ status[r] = "APPROVED"
      /\ by' = [by EXCEPT ![OrderOf[r]] = r]
  BY DEF Apply, CanApply
<1>3. Fate' = [Fate EXCEPT ![r] = "applied"]
  BY <1>1, <1>2, OneFate
<1>4. Fate[r] = "approved"
  BY <1>1, <1>2, FateIs
<1>5. Contract!Enforce(r)
  BY <1>2, <1>3, <1>4 DEF Contract!Enforce
<1>6. QED
  BY <1>5 DEF Contract!Next

LEMMA StepRefines == IInv /\ TypeOK' /\ [Next]_vars => [Contract!Next]_(Contract!vars)
<1> SUFFICES ASSUME IInv, TypeOK', [Next]_vars PROVE [Contract!Next]_(Contract!vars)
  OBVIOUS
<1>1. ASSUME status' = status, by' = by PROVE UNCHANGED Contract!vars
  BY <1>1 DEF Contract!vars, Fate
<1>2. CASE Analyses \/ UNCHANGED vars
  BY <1>1, <1>2 DEF Analyses, StartRun, ReadSlots, CloseRun, rows, vars
<1>3. CASE Proposes
  BY <1>3, OfferRefines DEF Proposes
<1>4. CASE Settles
  BY <1>4, SettleRefines
<1>5. CASE Applies
  BY <1>5, EnforceRefines DEF Applies
<1>6. CASE Cancels
  <2>1. PICK o \in Orders : CancelOrder(o)
    BY <1>6 DEF Cancels
  <2>2. Fate' = Fate
    BY <1>6, CommandsKeep DEF Fate
  <2>3. by' = [by EXCEPT ![o] = NoRec]
    BY <2>1 DEF CancelOrder
  <2>4. Contract!Revoke(o)
    BY <2>2, <2>3 DEF Contract!Revoke
  <2>5. QED
    BY <2>4 DEF Contract!Next
<1>7. CASE Commands
  <2>1. status' = status
    BY <1>7, CommandsKeep
  <2>2. by' = by
    <3>1. ASSUME NEW S \in SUBSET Orders, NEW m \in Materials, NEW qty \in Quantities, NEW o \in Orders,
                 ReserveByHand(o, m, qty, S) \/ ReleaseByHand(o, m, qty, S)
          PROVE  by' = by
      BY <3>1 DEF ReserveByHand, ReleaseByHand
    <3>2. ASSUME NEW S \in SUBSET Orders, NEW m \in Materials, NEW qty \in Quantities,
                 MoveStock(m, qty, S)
          PROVE  by' = by
      BY <3>2 DEF MoveStock
    <3>3. ASSUME NEW S \in SUBSET Orders, Refresh(S) PROVE by' = by
      BY <3>3 DEF Refresh
    <3>4. ASSUME NEW o \in Orders, BeginProduction(o) PROVE by' = by
      BY <3>4 DEF BeginProduction
    <3>5. QED
      BY <1>7, <3>1, <3>2, <3>3, <3>4 DEF Commands
  <2>3. QED
    BY <1>1, <2>1, <2>2
<1>8. QED
  BY NextKinds, <1>2, <1>3, <1>4, <1>5, <1>6, <1>7

(***************************************************************************)
(* approvals/service.py and orchestration/recommendations.py implement what *)
(* ProposalContract promises: a settled proposal stays settled, and nothing *)
(* is put in force that was not approved.                                   *)
(***************************************************************************)
THEOREM ImplementsProposalContract == Spec => KeepsProposalContract
<1>1. Init => Contract!Init
  <2>1. Init => Fate = [r \in Recs |-> "unborn"]
    BY DEF Init, Fate
  <2>2. QED
    BY <2>1 DEF Init, Contract!Init
<1>2. IInv => TypeOK
  BY DEF IInv
<1>3. QED
  BY <1>1, <1>2, IInvHolds, StepRefines, PTL DEF Spec, KeepsProposalContract
=============================================================================
