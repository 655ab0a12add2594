CONSTANTS
    DefaultMode = "STATIC"
    DefaultIps <- OutOfOrder
    IpsWrites <- NoWrites
    MaxSignals = 0
    Faults <- NoFaults
SPECIFICATION Spec
PROPERTIES
    OnlyOwnFileClosed
