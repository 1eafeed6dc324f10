SPECIFICATION Spec
CONSTANTS
  NULL = NULL
  Sessions = {a, b}
  Stored = {a}
  Keys = {k1, k2}
  Requests = {r1, r2}
  MaxLive = 1
  LiveTtl = 3
  IdemMax = 1
  IdemTtl = 0
  MaxOps = 3
INVARIANTS
  RunsInLiveCopy
  DivergenceIsStray
  KeyRemembered
CHECK_DEADLOCK FALSE
