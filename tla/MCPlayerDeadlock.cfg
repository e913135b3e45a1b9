SPECIFICATION FairSpec
CHECK_DEADLOCK FALSE
CONSTANTS
    Formats <- MCFormats
    NrChunks = 2
    PrebufferChunks <- MCPrebufferChunks
    Continue = {TRUE}
    Repeat = {FALSE}
    Commands = {"play", "stop"}
PROPERTY
    CommandsComplete
