SPECIFICATION Spec
CONSTANTS
  NULL = NULL
  Clients = {c1}
  RingSizes = {0, 2}
  Capacity = 1
  Faults = {"restart", "iofail", "resize"}
  MaxFaults = 1
  MaxId = 5
  MaxShared = 3
INVARIANTS
  DurableBeforeVisible
  LossOnlyInWindow
  NoSilentGap
  SnapshotIsOutput
CHECK_DEADLOCK FALSE
