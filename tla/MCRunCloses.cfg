SPECIFICATION FairSpec
CONSTANTS
  a1 = a1
  a2 = a2
  Advancers <- OneSlot
  NoOne = NoOne
  Outcomes <- NoFailures
  Units <- Covered
  Requests = 1
  MaxFaults = 1
  Deadline = TRUE
  HooksMayFail = TRUE
PROPERTIES
  GraphCloses
  DeadlineCloses
CHECK_DEADLOCK FALSE
