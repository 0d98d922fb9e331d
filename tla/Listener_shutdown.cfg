SPECIFICATION FairSpec
CONSTANTS
    MaxServe = 2
    MaxConn = 4
INVARIANTS
    TypeOK
    AcceptNotNil
    OneAccepts
PROPERTIES
    CancelReturns
    CloseReturnsServe
    ConnectionsTaken
CHECK_DEADLOCK FALSE
