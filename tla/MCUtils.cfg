SPECIFICATION UtilsSpec
CONSTANTS
  c1 = c1
  c2 = c2
  Callers <- TwoCallers
  MaxBindings = 3
  SelfUnbinds = FALSE
  MaxEvents = 3
  Ops = {"r", "s", "x", "y"}
  Programs <- SomePrograms
  Catching = {"s"}
  MapKeys = {"k", "l"}
  Values = {"v", "w"}
  Iterables <- ShortIterables
  Counts <- SmallCounts
  MaxSteps = 4
  MaxCount = 4
  Names = {"a", "b"}
INVARIANTS
  BindsKnowingly
  BreathsAreHeard
  CollectionsHold
  FrozenStays
PROPERTIES
  KeepsContract
  EndIsHeard
  IterationsAreFaithful
CHECK_DEADLOCK FALSE
