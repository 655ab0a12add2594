CONSTANTS
    DefaultMode = "EFF"
    DefaultIps <- OutOfOrder
    IpsWrites <- SomeWrites
    MaxSignals = 2
    Faults <- ManyFaults
SPECIFICATION Spec
INVARIANTS
    TypeOK
    ModeIsShown
    IpsIsShown
    OccHasMode
    OccHasIps
PROPERTIES
    LockHolds
