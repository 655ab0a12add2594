CONSTANTS
    Derating = 90
    UintMax = 100
    Caps <- SomeCaps
    OccBounds <- TwoBounds
    Faults <- FaultKinds
    MaxSignals = 2
SPECIFICATION FairSpec
INVARIANTS
    TypeOK
    CapIsEnforced
PROPERTIES
    SentIsAccepted
    RangeRestored
