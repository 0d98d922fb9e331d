SPECIFICATION Spec
CONSTANTS
    Processes = {1, 2}
    Starts = 2
    Rotations = 1
    Guests = 1
    Signals = 1
    Sockets = {TRUE}
INVARIANTS
    IdentityKept
    CloseComplete
PROPERTY
    ProcessEnds
CHECK_DEADLOCK FALSE
