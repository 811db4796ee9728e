----------------------------- MODULE LockOrder -----------------------------
(***************************************************************************)
(* The row locks that commands take and the order they take them in:         *)
(* inventory/service.py (whose docstring states the order), readiness.py,    *)
(* capacity/service.py, approvals/service.py, orders/service.py, the         *)
(* orchestrator's finalisation and cancel_run.                               *)
(*                                                                          *)
(* A command is the sequence of its lock requests.  A lock is held to the    *)
(* end of the transaction; a row of a foreign key is locked in share mode    *)
(* when a row that references it is inserted.  Only the requests for row     *)
(* locks are modelled, not the wait of an INSERT at a unique index (see      *)
(* OrderImport); ids are numbers, so that "ascending id" means something.    *)
(***************************************************************************)
EXTENDS Integers, Sequences, FiniteSets

CONSTANTS Procs,
          Orders, Slots, Balances,  \* sets of ids
          Planned,      \* orders up to PLANNED, which are recomputed
          Bom,          \* [Orders -> SUBSET Balances], the materials by balance
          PlansOn,      \* [Orders -> SUBSET Slots], slots of proposal and order
          Commands      \* the kinds of command that run

VARIABLES command,   \* of each process: its kind and the lock requests left
          held       \* locks of each process: sets of [row, mode]

vars == <<command, held>>

Idle == [kind |-> "none", wants |-> <<>>]

Init ==
  /\ command = [p \in Procs |-> Idle]
  /\ held = [p \in Procs |-> {}]

Update(table, id) == [row |-> <<table, id>>, mode |-> "update"]
Share(table, id) == [row |-> <<table, id>>, mode |-> "share"]

\* SELECT ... ORDER BY id FOR UPDATE.
InOrder(ids) ==
  CHOOSE s \in [1..Cardinality(ids) -> ids] : \A i, j \in DOMAIN s : i < j => s[i] < s[j]

Ascending(table, ids) ==
  LET sorted == InOrder(ids) IN [i \in DOMAIN sorted |-> Update(table, sorted[i])]

\* Orders a recompute covers: those that use one of the balances.
Using(bs) == {o \in Planned : Bom[o] \cap bs # {}}

BalancesFirst(bs, extra) ==
  Ascending("balance", bs) \o Ascending("order", Using(bs) \cup extra)
    \o Ascending("lot", bs)

\* lock_orders_using_materials, then the balance and what hangs on it.
Storekeeper(bs, extra) ==
  Ascending("order", Using(bs) \cup extra) \o Ascending("balance", bs)
    \o Ascending("lot", bs)

\* _lock_inputs: slots, then balances.
Inputs(o) == Ascending("slot", PlansOn[o]) \o Ascending("balance", Bom[o])

Rec(o) == <<Update("recommendation", o)>>

\* Lock requests of a command on order o and balance b.
Requests(kind, o, b) ==
  CASE kind = "apply" -> Ascending("order", {o}) \o Rec(o) \o Inputs(o)
    [] kind = "decide" -> Ascending("order", {o}) \o Rec(o)
    [] kind = "cancel_order" -> Ascending("order", {o}) \o Inputs(o)
    [] kind = "receipt" -> Storekeeper({b}, {})
    [] kind = "issue" -> Storekeeper({b}, {o})
    [] kind = "reserve" -> Storekeeper({b}, {o})
    [] kind = "refresh" -> Ascending("order", Using(Bom[o]))
    [] kind = "finalize" -> <<Update("run", o), Share("order", o)>> \o Rec(o)
    [] kind = "cancel_run" -> <<Update("run", o)>> \o Rec(o)
    \* record_correction inserts a movement that names the order of the
    \* movement it corrects, which is past planning when it was issued to
    \* production and then not among the locked ones.
    [] kind = "correction" -> Storekeeper({b}, {}) \o <<Share("order", o)>>

\* Plans are applied to and orders cancelled in planning only.
Start(p, kind, o, b) ==
  /\ command[p] = Idle
  /\ kind \in {"apply", "cancel_order"} => o \in Planned
  /\ command' = [command EXCEPT ![p] = [kind |-> kind, wants |-> Requests(kind, o, b)]]
  /\ UNCHANGED held

Compatible(l, k) == l.row # k.row \/ (l.mode = "share" /\ k.mode = "share")

Grantable(p) ==
  /\ command[p].wants # <<>>
  /\ \A q \in Procs \ {p} : \A l \in held[q] : Compatible(l, Head(command[p].wants))

Acquire(p) ==
  /\ Grantable(p)
  /\ held' = [held EXCEPT ![p] = @ \cup {Head(command[p].wants)}]
  /\ command' = [command EXCEPT ![p].wants = Tail(@)]

\* COMMIT or ROLLBACK, after the last lock or before.
End(p) ==
  /\ command[p] # Idle
  /\ command[p].wants = <<>>
  /\ command' = [command EXCEPT ![p] = Idle]
  /\ held' = [held EXCEPT ![p] = {}]

Next ==
  \E p \in Procs :
    \/ \E kind \in Commands, o \in Orders, b \in Balances : Start(p, kind, o, b)
    \/ Acquire(p)
    \/ End(p)

Spec == Init /\ [][Next]_vars

------------------------------------------------------------------------------
(* Properties *)

Waiting == {p \in Procs : command[p].wants # <<>> /\ ~Grantable(p)}

\* No commands wait for each other (inventory/service.py, "Lock order"): of
\* those that wait, one waits only for commands that do not.
NoLockCycle ==
  \A S \in SUBSET Waiting : S # {} =>
    \E p \in S : \A q \in S \ {p} : \A l \in held[q] :
      Compatible(l, Head(command[p].wants))

\* A correction that has all its locks but that of the order it names.
AsksForItsOrder(p) ==
  /\ command[p].kind = "correction"
  /\ \E o \in Orders : command[p].wants = <<Share("order", o)>>

\* What can go wrong goes wrong in one place: commands that wait for each other
\* include a correction whose movement is about to name its order
\* (record_correction).  All other requests for row locks are in one order.
OnlyCorrectionsDeadlock ==
  \A S \in SUBSET Waiting : S # {} =>
    \/ \E p \in S : AsksForItsOrder(p)
    \/ \E p \in S : \A q \in S \ {p} : \A l \in held[q] :
         Compatible(l, Head(command[p].wants))
=============================================================================
