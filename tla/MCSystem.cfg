\* Parts of the main thread, each by itself.
SPECIFICATION MCSpec
CONSTANTS
    f1 = f1
    f2 = f2
    Filename = {f1, f2}
    MaxTracks = 3
    MaxCopies = 2
    none = none
    p1 = p1
    p2 = p2
    la = la
    Space = Space
    Slash = Slash
INVARIANTS CacheIsSound InputIsSound TextsAreRead TreeIsSound OutputIsSound SourcesAreSound
PROPERTY EveryChangeIsTold
CHECK_DEADLOCK FALSE
