---------------------------- MODULE MCApprovals ----------------------------
(* Two analyses of one order and one of another that shares slot and stock. *)
EXTENDS Approvals

CONSTANTS a1, a2, b1, a, b, s, m

RunsOf == [r \in {a1, a2, b1} |-> IF r = b1 THEN b ELSE a]

TwoMinutes == [x \in {s} |-> 2]

TwoPieces == [x \in {m} |-> 2]
=============================================================================
