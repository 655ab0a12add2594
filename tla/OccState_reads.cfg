CONSTANTS
    IsMaster = TRUE
    Directories <- OneFile
    Faults <- ReadFaults
SPECIFICATION Spec
INVARIANTS
    UnreadIsDisabled
