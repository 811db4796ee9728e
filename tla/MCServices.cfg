SPECIFICATION FocusSpec
CONSTANTS
  o1 = o1
  o2 = o2
  fabric = fabric
  trim = trim
  l1 = l1
  l2 = l2
  Orders = {o1, o2}
  Materials = {fabric, trim}
  Lots = {l1, l2}
  LotOf <- LotUse
  Bom <- BomOf
  Need <- NeedOf
  Expected <- ExpectedOf
  Amounts = {1, 2}
  MaxLot = 2
  DueRank <- DueRankOf
  Cutoffs = {1, 2}
  Callers = {a1, a2}
  NoOrder = NoOrder
  Users = {a1, a2}
  Quantity = 1
  Policy <- ShippingPolicy
  Counts <- Samples
  MaxLog = 3
  Outdated = outdated
  Versions = {v1, v2}
  Workers = {a1, a2}
  MaxAttempts = 2
  NoWorker = NoWorker
  q1 = q1
  q2 = q2
  q3 = q3
  q4 = q4
  Deliveries = {q1, q2, q3, q4}
  Payload <- PayloadOf
  MaxTries = 2
  NoRequest = NoRequest
  Procs = {p1, p2, p3}
  OrderIds = {1, 2}
  SlotIds = {1, 2}
  BalanceIds = {1, 2}
  Planned = {1}
  Uses <- BalancesOf
  PlansOn <- SlotsOf
  CommandKinds = {"apply", "decide", "cancel_order", "receipt", "issue", "refresh", "finalize", "cancel_run", "correction"}
  Batches = {b1, b2, b3}
  Files = {"f1", "f2", "f3"}
  Rows <- RowsOf
  Refs = {"x", "y", "z"}
  LastDay = 1
  NoFile = NoFile
  ByHand = ByHand
  Members = {m1, m2}
  Scopes = {"org"}
  Browsers = {"b1"}
  AdminRequests = {r1, r2}
  Founders = {m1, m2}
  Identities = {"a", "b"}
  Limit = 2
  Window = 3
  MaxEntries = 1
  LastTick = 6
  c1 = c1
  c2 = c2
  Calls = {c1, c2}
  Routes <- RouteOf
  PoolSize = 3
INVARIANTS
  StockAgrees
  OnlyMissedAreStale
  ServedIsStored
  OneEffectPerKey
  OnlyCorrectionsDeadlock
  ImportedOnceAndWhole
  RateIsBounded
  AuditAgrees
PROPERTIES
  DispatchBacked
  ServedStaysServed
  ReplayIsOriginal
  LostToOvertakenCommand
SYMMETRY Symmetry
CHECK_DEADLOCK FALSE
