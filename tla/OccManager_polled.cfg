CONSTANTS
    N = 2
    Masters <- OneMaster
    Faults <- NoFaults
SPECIFICATION Spec
INVARIANTS
    ActiveIsPolled
