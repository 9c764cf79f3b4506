SPECIFICATION FairSpec
CONSTANTS
  c1 = c1
  c2 = c2
  Callers <- TwoCallers
  MaxBindings = 1
  SelfUnbinds = FALSE
PROPERTY StopReturns
CHECK_DEADLOCK FALSE
