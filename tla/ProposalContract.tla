-------------------------- MODULE ProposalContract --------------------------
(* What an analysis promises about its proposal: it is offered once, it may *)
(* be approved and then put in force, at most one proposal of an order is   *)
(* in force, and a proposal that was settled is settled for ever.           *)
CONSTANTS Recs,      \* proposals
          Orders,
          OrderOf,   \* [Recs -> Orders]
          NoRec      \* nothing in force

VARIABLES fate,      \* of each proposal
          inForce    \* the proposal an order is planned by, or NoRec

vars == <<fate, inForce>>

Init ==
  /\ fate = [r \in Recs |-> "unborn"]
  /\ inForce = [o \in Orders |-> NoRec]

Open == {"proposed", "approved"}

\* A new proposal ends whatever was open for the order.
Offer(r) ==
  /\ fate[r] = "unborn"
  /\ fate' = [x \in Recs |->
       IF x = r THEN "proposed"
       ELSE IF OrderOf[x] = OrderOf[r] /\ fate[x] \in Open THEN "dropped" ELSE fate[x]]
  /\ UNCHANGED inForce

Approve(r) ==
  /\ fate[r] = "proposed"
  /\ fate' = [fate EXCEPT ![r] = "approved"]
  /\ UNCHANGED inForce

\* Rejected, expired, cancelled with its run or found stale.
Drop(S) ==
  /\ \A r \in S : fate[r] \in Open
  /\ fate' = [r \in Recs |-> IF r \in S THEN "dropped" ELSE fate[r]]
  /\ UNCHANGED inForce

\* Only an approved proposal comes into force, and replaces the one before.
Enforce(r) ==
  /\ fate[r] = "approved"
  /\ fate' = [fate EXCEPT ![r] = "applied"]
  /\ inForce' = [inForce EXCEPT ![OrderOf[r]] = r]

\* The order is cancelled.
Revoke(o) ==
  /\ inForce' = [inForce EXCEPT ![o] = NoRec]
  /\ UNCHANGED fate

Next ==
  \/ \E r \in Recs : Offer(r) \/ Approve(r) \/ Enforce(r)
  \/ \E S \in SUBSET Recs : Drop(S)
  \/ \E o \in Orders : Revoke(o)

Spec == Init /\ [][Next]_vars
=============================================================================
