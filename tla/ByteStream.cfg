CONSTANTS
    ReadSize = 2
    SndCap = 2
    MaxSent = 5
    MaxDrains = 2
SPECIFICATION Spec
INVARIANTS
    TypeOK
    InboundFaithful
    OutboundFaithful
    KeptOpen
    CompletionTrue
PROPERTIES
    Echoed
    Flushed
CHECK_DEADLOCK FALSE
