SPECIFICATION BootstrapSpec
CONSTANTS
  b1 = b1
  b2 = b2
  b3 = b3
  Bindables <- ThreeBindables
  Envs = {"env1", "env2"}
  Plain <- PlainKeys
  Nested <- NestedKeys
  Required = {"a", "c"}
  Sensitive = {"a"}
  Group = "g"
  Absent = TRUE
  MaxCalls = 3
INVARIANTS
  ShutdownComesLast
  NoneRunsOn
  TellsOfEnv
PROPERTY RunEnds
CHECK_DEADLOCK FALSE
