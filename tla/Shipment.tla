------------------------------ MODULE Shipment ------------------------------
(***************************************************************************)
(* One order from planning to dispatch: app/domain/orders/service.py and    *)
(* lifecycle.py, domain/quality/service.py and calc.py.                     *)
(*                                                                          *)
(* Several people work from screens they loaded earlier.  Every command     *)
(* locks the order; transitions, progress and releases compare the version  *)
(* the screen was loaded with, inspections and holds do not.  Inspections,  *)
(* holds and releases are kept in one log, in the order of their commits:   *)
(* a release ends all holds, so a hold is active if no release follows it.  *)
(*                                                                          *)
(* The quality agent (agents/quality/agent.py) reports on a snapshot of the *)
(* same facts; its report is shown as stale once the order has changed.     *)
(***************************************************************************)
EXTENDS Integers, FiniteSets, Sequences

CONSTANTS Users,
          Quantity,    \* orders.quantity
          Policy,      \* QualityPolicyRules: sample, defective, critical, required
          Counts,      \* what inspectors report: inspected, defective, critical
          MaxLog,      \* bound on the log
          Outdated     \* the order has changed since the screen was loaded

Types == {"INLINE", "FINAL"}

VARIABLES
  state, produced, packed,  \* orders
  quality,                  \* orders.quality_state, as stored
  log,                      \* inspections, holds and releases
  view,                     \* per user: the verdict on the screen, if it shows
                            \* the order's current version, or Outdated
  snapshot,                 \* of the running analysis, or Outdated
  report                    \* the newest report; Outdated if none or stale

vars == <<state, produced, packed, quality, log, view, snapshot, report>>

Init ==
  /\ state = "PLANNED"
  /\ produced = 0
  /\ packed = 0
  /\ quality = "NOT_INSPECTED"
  /\ log = <<>>
  /\ view = [u \in Users |-> Outdated]
  /\ snapshot = Outdated
  /\ report = Outdated

------------------------------------------------------------------------------
(* Facts *)

Inspections(l) == {i \in DOMAIN l : l[i].kind = "inspection"}

\* _latest_inspections_by_type: the index of the latest one, 0 for none.
Latest(l, type) ==
  LET those == {i \in Inspections(l) : l[i].type = type}
  IN  IF those = {} THEN 0 ELSE CHOOSE i \in those : \A j \in those : j <= i

Passed(l) == {t \in Types : Latest(l, t) > 0 /\ l[Latest(l, t)].result = "PASS"}

\* QualityPolicyRules.from_json refuses any other policy.
RulesAreValid ==
  /\ {Policy.sample, Policy.defective, Policy.critical} \subseteq Nat
  /\ Policy.required # {}

\* evaluate_inspection: a broken limit is seen only in a sufficient sample.
Evaluate(counts) ==
  CASE counts.inspected < Policy.sample -> "INSUFFICIENT_SAMPLE"
    [] /\ counts.inspected >= Policy.sample
       /\ \/ counts.defective > Policy.defective
          \/ counts.critical > Policy.critical -> "FAIL"
    [] OTHER -> "PASS"

\* A manual hold, or the automatic one of a failed inspection.
Holding(l) ==
  {i \in DOMAIN l : l[i].kind = "hold" \/ (l[i].kind = "inspection" /\ l[i].result = "FAIL")}

Releases(l) == {i \in DOMAIN l : l[i].kind = "release"}

ActiveHolds(l) == {i \in Holding(l) : \A j \in Releases(l) : j < i}

HasActiveHold(l) == ActiveHolds(l) # {}

\* _has_valid_release: it names the latest FINAL inspection.
HasValidRelease(l) ==
  /\ Latest(l, "FINAL") > 0
  /\ \E i \in Releases(l) : l[i].of = Latest(l, "FINAL")

\* calc.quality_state
QualityState(l) ==
  CASE Inspections(l) = {} -> "NOT_INSPECTED"
    [] Inspections(l) # {} /\ HasActiveHold(l) -> "HOLD"
    [] Inspections(l) # {} /\ ~HasActiveHold(l) /\ HasValidRelease(l) -> "RELEASED"
    [] OTHER -> "PENDING"

\* calc.shipment_eligibility, without its reasons.
Eligible ==
  /\ state = "PRODUCTION_COMPLETE"
  /\ packed >= Quantity
  /\ Policy.required \subseteq Passed(log)
  /\ ~HasActiveHold(log)
  /\ HasValidRelease(log)

\* list_orders derives the facts of its page in another way: newest first, the
\* first inspection seen of a type is kept, and the pairs of the releases are
\* looked up (_load_shipment_inputs).
SetDefault(seen, type, i) ==
  [t \in DOMAIN seen \cup {type} |-> IF t \in DOMAIN seen THEN seen[t] ELSE i]

LatestByType(l) ==
  LET seen[i \in 1..Len(l) + 1] ==   \* once row i and the newer ones were read
        IF i > Len(l) THEN [t \in {} |-> 0]
        ELSE IF i \in Inspections(l) THEN SetDefault(seen[i + 1], l[i].type, i)
        ELSE seen[i + 1]
  IN  seen[1]

\* _evaluate_shipment
ListedEligible ==
  LET latest == LatestByType(log) IN
  /\ state = "PRODUCTION_COMPLETE"
  /\ packed >= Quantity
  /\ \A t \in Policy.required : t \in DOMAIN latest /\ log[latest[t]].result = "PASS"
  /\ \A i \in Holding(log) : i \notin ActiveHolds(log)
  /\ "FINAL" \in DOMAIN latest
  /\ latest["FINAL"] \in {log[i].of : i \in Releases(log)}

\* What the quality agent finds: the latest FINAL inspection alone decides
\* whether inspection failed, every active hold is suggested for review, and
\* the verdict is the calculated one.  A policy always exists.
InspectionFindings(l) ==
  IF Inspections(l) = {} THEN {"NOT_INSPECTED"}
  ELSE IF Latest(l, "FINAL") > 0 /\ l[Latest(l, "FINAL")].result = "FAIL" THEN {"INSPECTION_FAILED"}
  ELSE {}

HoldFindings(l) == IF HasActiveHold(l) THEN {"ACTIVE_HOLD"} ELSE {}

Verdict(eligible) == IF eligible THEN "SHIPMENT_ELIGIBLE" ELSE "SHIPMENT_INELIGIBLE"

QualityReport ==
  [findings |-> InspectionFindings(log) \cup HoldFindings(log),
   toReview |-> ActiveHolds(log),
   verdict  |-> Verdict(Eligible)]

------------------------------------------------------------------------------
(* Tables: the rows their constraints admit *)

\* orders
OrderRow ==
  /\ state \in {"PLANNED", "IN_PRODUCTION", "PRODUCTION_COMPLETE", "DISPATCHED", "CANCELLED"}
  /\ quality \in {"NOT_INSPECTED", "PENDING", "HOLD", "RELEASED"}
  /\ produced \in Nat
  /\ packed \in Nat

\* inspections
InspectionRows ==
  [kind : {"inspection"}, type : Types, by : Users,
   counts : {c \in Counts : c.defective <= c.inspected},
   result : {"PASS", "FAIL", "INSUFFICIENT_SAMPLE"}]

\* quality_holds: what ended one is told by the log.
HoldRows == [kind : {"hold"}]

\* quality_releases: each references an inspection.
ReleaseRows == [kind : {"release"}, of : Inspections(log), by : Users]

TypeOK ==
  /\ OrderRow
  /\ log \in Seq(InspectionRows \cup HoldRows \cup ReleaseRows)
  /\ view \in [Users -> {Verdict(TRUE), Verdict(FALSE), Outdated}]

------------------------------------------------------------------------------
(* Commands *)

NotCounted == snapshot' = Outdated /\ report' = Outdated /\ UNCHANGED view

\* A command that changes the order counts its version: expected_version of
\* every screen loaded before, and of every snapshot, is another one from now on.
Counted ==
  /\ view' = [u \in Users |-> Outdated]
  /\ snapshot' = Outdated
  /\ report' = Outdated

Fresh(u) == view[u] # Outdated

\* latest_order_report: its snapshot has the order's current version.
ReportIsCurrent == report # Outdated

Show(u, eligible) ==
  /\ view' = [view EXCEPT ![u] = Verdict(eligible)]
  /\ UNCHANGED <<state, produced, packed, quality, log, snapshot, report>>

\* order_detail
OpenOrder(u) == Show(u, Eligible)

\* list_orders
ListOrders(u) == Show(u, ListedEligible)

\* start_run reads the facts; the report is appended when the run ends.  Of a
\* snapshot that is outdated by then only the staleness is shown.  (While the
\* report is current, another analysis would say the same.)
Analyze ==
  /\ state # "CANCELLED"
  /\ ~ReportIsCurrent
  /\ snapshot' = QualityReport
  /\ UNCHANGED <<state, produced, packed, quality, log, view, report>>

Publish ==
  /\ snapshot # Outdated
  /\ report' = snapshot
  /\ snapshot' = Outdated
  /\ UNCHANGED <<state, produced, packed, quality, log, view>>

Record(fact) ==
  /\ Len(log) < MaxLog
  /\ log' = Append(log, fact)
  /\ quality' = QualityState(log')

\* record_inspection: a FAIL places a hold.  No version is expected and any
\* state is accepted; critical defects are not compared with defective units.
Inspect(u, type, counts) ==
  /\ Counted
  /\ counts.defective <= counts.inspected
  /\ RulesAreValid
  /\ Record([kind |-> "inspection", type |-> type, counts |-> counts,
             result |-> Evaluate(counts), by |-> u])
  /\ UNCHANGED <<state, produced, packed>>

\* place_hold
PlaceHold ==
  /\ Counted
  /\ Record([kind |-> "hold"])
  /\ UNCHANGED <<state, produced, packed>>

\* release_order: against the latest FINAL inspection, by someone else.
ReleaseOrder(u, i) ==
  /\ Counted
  /\ Fresh(u)
  /\ i \in Inspections(log)
  /\ log[i].type = "FINAL"
  /\ log[i].result = "PASS"
  /\ i = Latest(log, "FINAL")
  /\ log[i].by # u
  /\ Record([kind |-> "release", of |-> i, by |-> u])
  /\ UNCHANGED <<state, produced, packed>>

\* progress_order: units only grow, up to the quantity; packed units are not
\* compared with produced ones.
Progress(u, made, boxed) ==
  /\ Counted
  /\ state \in {"IN_PRODUCTION", "PRODUCTION_COMPLETE"}
  /\ Fresh(u)
  /\ produced <= made
  /\ made <= Quantity
  /\ packed <= boxed
  /\ boxed <= Quantity
  /\ produced' = made
  /\ packed' = boxed
  /\ UNCHANGED <<state, quality, log>>

\* TRANSITIONS, with the precondition of each.
MayBecome(target) ==
  CASE target = "IN_PRODUCTION" -> state = "PLANNED"
    [] target = "PRODUCTION_COMPLETE" -> state = "IN_PRODUCTION" /\ produced >= Quantity
    [] target = "DISPATCHED" -> Eligible
    [] target = "CANCELLED" -> state = "PLANNED"

\* transition_order
Transition(u, target) ==
  /\ Counted
  /\ Fresh(u)
  /\ MayBecome(target)
  /\ state' = target
  /\ UNCHANGED <<produced, packed, quality, log>>

Next ==
  \E u \in Users :
    \/ OpenOrder(u) \/ ListOrders(u)
    \/ \E type \in Types, counts \in Counts : Inspect(u, type, counts)
    \/ PlaceHold \/ Analyze \/ Publish
    \/ \E i \in DOMAIN log : ReleaseOrder(u, i)
    \/ \E made, boxed \in 0..Quantity : Progress(u, made, boxed)
    \/ \E target \in {"IN_PRODUCTION", "PRODUCTION_COMPLETE", "DISPATCHED", "CANCELLED"} :
         Transition(u, target)

Spec == Init /\ [][Next]_vars

------------------------------------------------------------------------------
(* Properties *)

\* An order is dispatched only with all its units produced and packed, its
\* latest FINAL inspection within the policy and released by someone who did
\* not inspect it, a release after every failure and hold, and the verdict on
\* the screen of whoever dispatched it, a list or the order itself
\* (orders/service.py, transition_order).  The quality
\* agent's report, unless it is shown as stale, says nothing against it.
DispatchBacked ==
  [][state' = "DISPATCHED" /\ state # "DISPATCHED" =>
       LET f == Latest(log, "FINAL") IN
       /\ produced = Quantity /\ packed = Quantity
       /\ f > 0
       /\ log[f].counts.inspected >= Policy.sample
       /\ log[f].counts.defective <= Policy.defective
       /\ log[f].counts.critical <= Policy.critical
       /\ \E i \in Releases(log) : i > f /\ log[i].of = f /\ log[i].by # log[f].by
       /\ \A i \in Holding(log) : \E j \in Releases(log) : j > i
       /\ \E u \in Users : view[u] = "SHIPMENT_ELIGIBLE"
       /\ \A u \in Users : view[u] # "SHIPMENT_INELIGIBLE"
       /\ ReportIsCurrent => report.findings = {} /\ report.verdict = "SHIPMENT_ELIGIBLE"]_vars
=============================================================================
