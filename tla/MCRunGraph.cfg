SPECIFICATION Spec
CONSTANTS
  a1 = a1
  a2 = a2
  Advancers <- Slots
  NoOne = NoOne
  Outcomes <- Branching
  Units <- AnyUnits
  Requests = 2
  MaxFaults = 0
  Deadline = TRUE
  HooksMayFail = FALSE
SYMMETRY SlotSymmetry
INVARIANTS
  DependencyOrder
  OutcomesAgree
  NoLostWakeup
  ClosedRunIsComplete
CHECK_DEADLOCK FALSE
