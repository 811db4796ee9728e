\* Two slots compete for two jobs, one of an unknown type; crashes without bound.
CONSTANTS
  w1 = w1
  w2 = w2
  j1 = j1
  j2 = j2
  Workers <- Slots
  Jobs = {j1, j2}
  Unregistered = {j2}
  MaxAttempts = 2
  NoJob = NoJob
SPECIFICATION FairSpec
INVARIANTS
  TypeOK
  EffectsAreFenced
  HookRunsOnce
PROPERTIES
  LiveLeaseRespected
  KeepsContract
  EveryJobSettles
