\* The buffer of the command line has room for the final NUL.
SPECIFICATION MCSpec
CONSTANTS
    f1 = f1
    f2 = f2
    Filename = {f1, f2}
    MaxTracks = 3
    MaxCopies = 2
    none = none
    p1 = p1
    p2 = p2
    la = la
    Space = Space
    Slash = Slash
INVARIANT LineFits
CHECK_DEADLOCK FALSE
