SPECIFICATION SettingsSpec
CONSTANTS
  Envs = {"env1", "env2"}
  Plain <- PlainKeys
  Nested <- NestedKeys
  Required = {"a", "c"}
  Sensitive = {"b"}
  Group = "g"
  Absent = TRUE
  MaxCalls = 3
INVARIANT ReturnsOfItsEnv
