---------------------------- MODULE MCLockOrder ----------------------------
(* Order 1 is in planning, order 2 in production; only order 2 uses the     *)
(* second balance.                                                          *)
EXTENDS LockOrder

BomOf == [o \in Orders |-> IF o = 1 THEN {1} ELSE {1, 2}]

SlotsOf == [o \in Orders |-> Slots]
=============================================================================
