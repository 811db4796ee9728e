----------------------------- MODULE MCServices -----------------------------
(* The services, one at a time: they share nothing, so focus is the service  *)
(* that runs, and the others stay in their initial state.  The ledger runs   *)
(* twice: rivals is the one whose transactions overlap.                      *)
EXTENDS Services

CONSTANTS o1, o2, fabric, trim, l1, l2, q1, q2, q3, q4, c1, c2

VARIABLE focus

LotUse == (l1 :> fabric) @@ (l2 :> trim)

BomOf == (o1 :> {fabric}) @@ (o2 :> {fabric, trim})

NeedOf == (o1 :> (fabric :> 2 @@ trim :> 0)) @@ (o2 :> (fabric :> 1 @@ trim :> 1))

DueRankOf == (o1 :> 1) @@ (o2 :> 2)

ExpectedOf == (fabric :> 1) @@ (trim :> 0)

ShippingPolicy == [sample |-> 2, defective |-> 1, critical |-> 0, required |-> {"FINAL"}]

\* A sample that is too small, one at the limit, one with a critical defect, and
\* a report that is refused.
Sample(inspected, defective, critical) ==
  [inspected |-> inspected, defective |-> defective, critical |-> critical]

Samples == {Sample(1, 0, 1), Sample(2, 1, 0), Sample(2, 0, 1), Sample(1, 2, 0)}

\* Three deliveries of one command and one of another with the same key.
PayloadOf == [q \in {q1, q2, q3, q4} |-> IF q = q4 THEN "other" ELSE "same"]

\* Order 1 is in planning, order 2 in production.
BalancesOf == <<{1, 2}, {2}>>

SlotsOf == <<{1, 2}, {1, 2}>>

Line(ref, due, parses) == [ref |-> ref, due |-> due, parses |-> parses]

\* Two files share a reference; the third repeats one after a bad row.
RowsOf == [f \in {"f1", "f2", "f3"} |->
  CASE f = "f1" -> <<Line("x", 0, TRUE), Line("y", 1, TRUE)>>
    [] f = "f2" -> <<Line("y", 1, TRUE)>>
    [] f = "f3" -> <<Line("z", 1, FALSE), Line("z", 1, TRUE)>>]

\* One apply and one other command.
RouteOf == (c1 :> "own") @@ (c2 :> "shared")

FocusInit ==
  /\ focus \in {"ledger", "rivals", "shipping", "documents", "keys", "locks", "imports",
                "accounts", "limits", "pipeline"}
  /\ ServicesInit
  /\ focus # "keys" => ~isApply
  /\ focus # "rivals" => cutoff = 2

\* Bounds of the ledger: a transaction goes on at once when it has selected its
\* orders, and no refresh job is given up.
AtOnce ==
  /\ \A p \in Callers : selected[p] # Idle => selected'[p] = Idle
  /\ overlooked' = {}

\* Bounds of rivals: one material moves, in one accepted lot of one piece,
\* without reservations; one refresh job waits, and no order is in production.
OneMaterial ==
  /\ active' = active /\ lot'[l1] # "QUARANTINE" /\ net'[l1] <= 1 /\ lot'[l2] = "ABSENT"
  /\ \A p \in Callers : trim \in selected'[p].materials => selected'[p].job
  /\ Cardinality(refresh') <= 1
  /\ \A o \in Orders : state'[o] # "IN_PRODUCTION"

\* Bound of documents: two job slots, for whichever versions.
TwoSlots == Cardinality({x \in Versions \X Workers : work'[x[1]][x[2]] # "idle"}) <= 2

FocusNext ==
  /\ \/ focus = "ledger" /\ LedgerStep /\ AtOnce
     \/ focus = "rivals" /\ LedgerStep /\ OneMaterial
     \/ focus = "shipping" /\ ShippingStep
     \/ focus = "documents" /\ DocumentStep /\ TwoSlots
     \/ focus = "keys" /\ KeyStep
     \/ focus = "locks" /\ LockStep
     \/ focus = "imports" /\ ImportStep
     \/ focus = "accounts" /\ AccountStep
     \/ focus = "limits" /\ LimiterStep
     \/ focus = "pipeline" /\ PipelineStep
  /\ UNCHANGED focus

FocusSpec == FocusInit /\ [][FocusNext]_<<focus, ServicesVars>>

\* Uploads are alike, and so are those who act: workers, users and transactions
\* are the same two values, of which every service sees one kind.
Symmetry == Permutations(Versions) \cup Permutations(Workers)
=============================================================================
