SPECIFICATION Spec
CHECK_DEADLOCK FALSE
CONSTANTS
    Formats <- MCFormats
    NrChunks = 3
    PrebufferChunks <- MCPrebufferChunks
    Continue = {TRUE, FALSE}
    Repeat = {TRUE, FALSE}
    Commands <- AllCommands
INVARIANTS
    PlayerIsConsistent
    AudioIsCurrent
    NoTailLost
    NoLostWakeup
    CleanExit
