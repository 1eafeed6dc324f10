SPECIFICATION Spec
CONSTANTS
  NULL = NULL
  Names = {x, y}
  Calls = {p, q}
  MaxDepth = 2
  MaxAgents = 2
  MaxSessions = 4
  MaxOps = 3
  MaxFaults = 1
SYMMETRY AgentSymmetry
INVARIANTS
  LimitHeld
  CloseComplete
  NoLostWakeup
CHECK_DEADLOCK FALSE
