SPECIFICATION Spec
CONSTANTS
    MaxChunks = 3
    ChunkSize = 3
    MinRoom = 2
    MaxBytes = 12
INVARIANTS
    TypeOK
    AccountsAgree
    ExclusiveChunk
    NoMissedWakeup
PROPERTY
    ImplementsStream
