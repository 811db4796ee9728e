SPECIFICATION Spec
CONSTANTS
  Procs = {p1, p2}
  Orders = {1, 2}
  Slots = {1, 2}
  Balances = {1, 2}
  Planned = {1}
  Bom <- BomOf
  PlansOn <- SlotsOf
  Commands = {"apply", "decide", "cancel_order", "receipt", "issue", "reserve",
              "refresh", "finalize", "cancel_run", "correction"}
INVARIANT NoLockCycle
CHECK_DEADLOCK FALSE
