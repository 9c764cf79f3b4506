SPECIFICATION FairSpec
CONSTANTS
  m1 = m1
  m2 = m2
  i1 = i1
  i2 = i2
  Modules <- TwoModules
  Ids <- TwoIds
  Sites <- OneOrTwoSites
  MaxCalls = 2
  MaxRounds = 2
INVARIANTS
  OneCallPerSite
PROPERTIES
  AllOrNothing
  FailureRestores
CHECK_DEADLOCK FALSE
