SPECIFICATION FairSpec
CONSTANTS
  a1 = a1
  a2 = a2
  Advancers <- OneSlot
  NoOne = NoOne
  Outcomes <- NoFailures
  Units <- Shortage
  Requests = 1
  MaxFaults = 1
  Deadline = FALSE
  HooksMayFail = TRUE
PROPERTY ExhaustedTaskSettles
CHECK_DEADLOCK FALSE
