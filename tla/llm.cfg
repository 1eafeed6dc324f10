SPECIFICATION Spec
CONSTANTS
    Exchanges <- MCExchanges
INVARIANTS
    StreamIsWhole
    NextSaysAll
    ReasoningSupplied
CHECK_DEADLOCK FALSE
