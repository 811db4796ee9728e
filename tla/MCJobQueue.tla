----------------------------- MODULE MCJobQueue -----------------------------
(* An instance of JobQueue for TLC. *)
EXTENDS JobQueue

CONSTANTS w1, w2, j1, j2

Slots == {w1, w2}
=============================================================================
