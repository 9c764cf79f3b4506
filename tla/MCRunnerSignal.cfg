SPECIFICATION FairSpec
CONSTANTS
  b1 = b1
  b2 = b2
  b3 = b3
  Bindables <- TwoBindables
PROPERTY SignalStops
CHECK_DEADLOCK FALSE
