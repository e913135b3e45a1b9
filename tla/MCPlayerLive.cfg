SPECIFICATION FairSpec
CHECK_DEADLOCK FALSE
CONSTANTS
    Formats <- MCFormats
    NrChunks = 2
    PrebufferChunks <- MCPrebufferChunks
    Continue = {TRUE, FALSE}
    Repeat = {FALSE}
    Commands <- MCNoSpeed
INVARIANT
    StatusShown
PROPERTIES
    OnlyEofBlocks
    EofIsReached
