\* Two workers, a task with three attempts as in the code.
CONSTANTS
  w1 = w1
  w2 = w2
  Workers <- Slots
  MaxAttempts = 3
SPECIFICATION FairSpec
INVARIANTS
  TypeOK
  ResultIsFenced
PROPERTIES
  KeepsTaskContract
  TaskSettles
CHECK_DEADLOCK FALSE
