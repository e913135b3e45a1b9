\* Every list is on the disk after an exit as the program had it.
SPECIFICATION Spec
CONSTANTS
    p1 = p1
    p2 = p2
    Playlist = {p1, p2}
    MaxContent = 1
    MaxStarts = 2
    MaxFaults = 0
INVARIANT ExitKeepsLists
CHECK_DEADLOCK FALSE
