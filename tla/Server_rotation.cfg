SPECIFICATION Spec
CONSTANTS
    Processes = {1}
    Starts = 2
    Rotations = 1
    Guests = 1
    Signals = 1
    Sockets = {TRUE}
INVARIANT
    KeysInUse
CHECK_DEADLOCK FALSE
