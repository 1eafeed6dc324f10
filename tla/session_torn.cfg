SPECIFICATION KeptSpec
CONSTANTS
  b1 = b1
  b2 = b2
  NULL = NULL
  Body <- MCBody
  InitialMessages <- MCInitialMessages
  Preambles <- MCPreambles
  CheckpointEvery = 3
  Recordable <- MCWithHidden
  Operations = {"message", "outcome", "goal", "edit", "regenerate", "settings"}
  MaxSeq = 4
  Faults = {"crash", "torn", "drop"}
INVARIANTS
  IdsAligned
PROPERTIES
  TornTailTolerated
