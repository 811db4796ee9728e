SPECIFICATION Spec
CONSTANTS
  v1 = v1
  v2 = v2
  w1 = w1
  w2 = w2
  Versions = {v1, v2}
  Workers = {w1, w2}
  MaxAttempts = 2
  NoWorker = NoWorker
INVARIANT AtMostOneActive
CHECK_DEADLOCK FALSE
