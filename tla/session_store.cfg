SPECIFICATION KeptSpec
CONSTANTS
  b1 = b1
  b2 = b2
  NULL = NULL
  Body <- MCBody
  InitialMessages <- MCInitialMessages
  Preambles <- MCPreambles
  CheckpointEvery = 2
  Recordable <- MCRecordable
  Operations = {"message", "edit", "regenerate", "settings", "compact"}
  MaxSeq = 5
  Faults = {"crash", "iofail", "legacy"}
INVARIANTS
  RecoveryExact
  CheckpointFresh
  PagesShowTranscript
PROPERTIES
  ImplementsTranscript
