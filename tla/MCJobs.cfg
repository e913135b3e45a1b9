SPECIFICATION Spec
CONSTANTS
    NoJob = NoJob
    NoList = NoList
    Library = Library
    Queue = Queue
    MaxLists = 2
    MaxJobs = 2
    MaxTracks = 2
    MaxTaken = 0
    TI_CAP = 2
INVARIANTS
    CancelIsForTheRunningJob
    NoSleepOverWork
    ListsAreSafe
    TracksArrive
    NothingIsLeftBehind
