SPECIFICATION Spec
CONSTANTS
  a1 = a1
  a2 = a2
  Advancers <- Slots
  NoOne = NoOne
  Outcomes <- NoFailures
  Units <- Shortage
  Requests = 1
  MaxFaults = 1
  Deadline = FALSE
  HooksMayFail = TRUE
SYMMETRY SlotSymmetry
INVARIANT DecisionsAgree
PROPERTY ClosedStaysClosed
CHECK_DEADLOCK FALSE
