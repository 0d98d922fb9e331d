CONSTANTS
    alf = alf
    bre = bre
    carl = carl
    alf1 = alf1
    alf2 = alf2
    bre1 = bre1
    carl1 = carl1
    rpc = rpc
    tunnel = tunnel
    roomConnect = roomConnect
    NoEndpoint = NoEndpoint
    Free = Free
    Peer = {alf, bre}
    Session = {alf1, alf2, bre1}
    Enumerators = {alf, bre}
    Thread <- MCThreadA
    Hook <- MCHook
    Owner <- MCOwner
    SessionOf <- MCSessionOf
    Requests <- Reconnect

SPECIFICATION Spec

INVARIANTS
    ObserversFollowEvents
    ObserversSeeRoom

PROPERTIES
    AttendantsFeed
