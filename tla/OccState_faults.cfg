CONSTANTS
    IsMaster = TRUE
    Directories <- SomeDirectories
    Faults <- AllFaults
SPECIFICATION FairSpec
INVARIANTS
    TypeOK
    MissingIsDisabled
    SafeIsTimed
    NothingStale
    WorstIsShown
PROPERTIES
    SafeIsReset
