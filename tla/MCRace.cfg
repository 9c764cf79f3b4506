SPECIFICATION RacesSpec
CONSTANTS
  s1 = s1
  s2 = s2
  cb1 = cb1
  cb2 = cb2
  s0 = s0
  Signals <- TwoSignals
  Callbacks <- TwoCallbacks
  CallerTurns <- TaskTurns
  Races <- ThreeRaces
  RaceSignals <- OneAbortSignal
  Timeouts = {1, 9}
  Distant = 9
  MaxTime = 1
INVARIANTS
  NothingLeftBehind
  LateIffTooLate
PROPERTIES
  KeepsContract
  RaceIsHeard
  NestedRacesEnd
CHECK_DEADLOCK FALSE
