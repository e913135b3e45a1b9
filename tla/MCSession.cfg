\* A session: starts, use, exits, one of them killed or with a write that fails.
SPECIFICATION Spec
CONSTANTS
    p1 = p1
    p2 = p2
    Playlist = {p1, p2}
    MaxContent = 1
    MaxStarts = 2
    MaxFaults = 1
INVARIANTS FilesSurvive 
CHECK_DEADLOCK FALSE
