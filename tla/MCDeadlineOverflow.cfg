SPECIFICATION FairSpec
CONSTANTS
  c1 = c1
  c2 = c2
  p1 = p1
  p2 = p2
  None = None
  Callbacks <- TwoCallbacks
  Promises <- OnePromise
  Skew = 1
  MaxLag = 1
  Cutoff = 4
  MaxDelay = 2
  MaxClock = 5
PROPERTY NeverEarly
