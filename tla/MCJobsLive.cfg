SPECIFICATION FairSpec
CONSTANTS
    NoJob = NoJob
    NoList = NoList
    Library = Library
    Queue = Queue
    MaxLists = 2
    MaxJobs = 1
    MaxTracks = 2
    MaxTaken = 1
    TI_CAP = 1
INVARIANT PlayingTrackIsKept
PROPERTIES
    RemovalReturns
    TracksAreShown
    WorkEnds
