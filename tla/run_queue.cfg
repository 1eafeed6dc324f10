SPECIFICATION Spec
CONSTANTS
  NULL = NULL
  MaxRuns = 3
  Environments <- MCEnvironments
INVARIANTS
  NoRunForgotten
  StatusTruthful
  ShutdownLeavesNoRun
PROPERTIES
  EndIsFinal
  EveryRunEnds
CHECK_DEADLOCK FALSE
