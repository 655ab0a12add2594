CONSTANTS
    N = 2
    Masters <- OneMaster
    Faults <- AllFaults
SPECIFICATION Spec
INVARIANTS
    TypeOK
    PollNeedsActive
    PolledWhileActive
    CountBound
    ResetStopsPolling
    MasterValidated
    WatchesFollowBinding
    WaitingHasTimer
    QueueDrained
    NestingBounded
CONSTRAINT
    HresetOfMaster
