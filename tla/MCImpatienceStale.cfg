SPECIFICATION ImpatienceSpec
CONSTANTS
  s0 = s0
  Races <- TwoRaces
  RaceSignals <- OneAbortSignal
  Timeouts = {1, 9}
  Distant = 9
  MaxTime = 1
INVARIANT TellsTheOvertaken
CHECK_DEADLOCK FALSE
