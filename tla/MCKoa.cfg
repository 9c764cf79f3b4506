SPECIFICATION Spec
CONSTANTS
  r1 = r1
  r2 = r2
  AppCallers = {c1, c2}
  Requests <- TwoRequests
  Rates <- SomeRates
  Costs = {1, 2}
  MaxCalls = 4
  MaxSeconds = 4
  Errs = {1, 2, 3, 4}
  ErrorCodes = {"ERR_A", "ERR_COERCED"}
  TaggedCodes = {"ERR_A"}
  GraphqlErrs = {1, 2}
  UsedStatuses = {"INTERNAL", "NOT_FOUND"}
  Mappings <- SomeMappings
  Cyclic = FALSE
  MaxFrames = 5
  FieldNames = {"a", "b"}
  TypeNames = {"T", "U"}
  CheckKeys <- ThreeKeys
  Latenesses = {10000}
  InTest = FALSE
  MaxPolls = 2
INVARIANTS
  CountedOnce
  SpansTellAnswer
  ThrottleHolds
  TellsFirstMatch
  TellsAllChecks
  AppEndIsHeard
PROPERTY Answered
CHECK_DEADLOCK FALSE
