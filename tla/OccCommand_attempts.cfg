CONSTANTS
    POLL = POLL
    SET_MODE = SET_MODE
    Commands <- AllCommands
    Dumped <- DumpedCommands
    MaxSignals = 2
SPECIFICATION FairSpec
INVARIANTS
    AcceptedIsAnswered
    FlagFollows
PROPERTIES
    CallsReturn
