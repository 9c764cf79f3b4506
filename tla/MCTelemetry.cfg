SPECIFICATION TelemetrySpec
CONSTANTS
  g1 = g1
  g2 = g2
  g3 = g3
  Generators <- ThreeGenerators
  MaxSpans = 3
  Waiters = {w1, w2}
  MaxResets = 1
  Libraries <- SomeLibraries
  MaxMetrics = 4
  MaxLoads = 2
  MaxValues = 2
  MaxRuns = 2
  Libs = {"ab", "b"}
  Globs <- SomeGlobs
  Specs <- SomeSpecs
  FallbackLevel = 50
  LogLevels = {20, 50}
  Contexts <- SomeContexts
  MaxLoggers = 3
  MaxMessages = 1
INVARIANTS
  EndsOnceAndLast
  HandedOverOnce
  LoggedInItsOperation
PROPERTIES
  EndsWithItsParts
  ShowsAnyFailure
  WaitsForOpenSpans
CHECK_DEADLOCK FALSE
