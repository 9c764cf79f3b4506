SPECIFICATION ResilienceSpec
CONSTANTS
  c1 = c1
  c2 = c2
  p1 = p1
  p2 = p2
  None = None
  Callbacks <- TwoCallbacks
  Promises <- TwoPromises
  Skew = 1
  MaxLag = 1
  Cutoff = 2
  MaxDelay = 3
  MaxClock = 5
  MaxRetries = 2
INVARIANTS
  CalledBackKnowsExpired
  AttemptsAreSequential
PROPERTIES
  VerdictIsFinal
  NeverEarly
  EveryoneHears
  LossEndsRun
  RunSettles
CHECK_DEADLOCK FALSE
