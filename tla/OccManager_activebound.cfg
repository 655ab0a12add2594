CONSTANTS
    N = 2
    Masters <- OneMaster
    Faults <- StateFaults
SPECIFICATION Spec
INVARIANTS
    ActiveIsBound
