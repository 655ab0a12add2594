CONSTANTS
    N = 1
    Masters <- OneMaster
    ManagerFaults <- RecoveryFaults
    PldmFaults <- ReceiveFault
SPECIFICATION FairSpec
PROPERTIES
    ImplementsManager
    ResetServed
    ResetIsRetried
    SensorsComeIn
