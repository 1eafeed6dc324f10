SPECIFICATION Spec
CONSTANTS
  NULL = NULL
  s1 = s1
  s2 = s2
  m1 = m1
  m2 = m2
  Handlers = {h1}
  Configs <- MCConfigs
  Patches <- MCPatches
  Overrides <- MCOverrides
  MaxOps = 3
  MaxRuns = 2
INVARIANTS
  SettledAtRest
  RunToolsBounded
PROPERTIES
  DeferredApplied
CHECK_DEADLOCK FALSE
