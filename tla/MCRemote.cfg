SPECIFICATION MCSpec
CONSTANTS
    a = a
    b = b
    c = c
    none = none
    Thread = {a, b, c}
    NoThread = none
    NL = NL
    Password = Password
    Quit = Quit
INVARIANTS
    WaitersAreSafe
    LinesAreServed
PROPERTIES
    ImplementsFifoLock
    EverybodyIsServed
CHECK_DEADLOCK FALSE
