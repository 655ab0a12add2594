CONSTANTS
    N = 2
    Faults <- SendFaults
SPECIFICATION FairSpec
INVARIANTS
    TypeOK
    OpenIsTimed
    ResponseMatchesRequest
    IdIsReturned
PROPERTIES
    ImplementsChannel
    QueryEnds
