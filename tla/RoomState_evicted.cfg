CONSTANTS
    alf = alf
    bre = bre
    carl = carl
    alf1 = alf1
    alf2 = alf2
    bre1 = bre1
    carl1 = carl1
    rpc = rpc
    tunnel = tunnel
    roomConnect = roomConnect
    NoEndpoint = NoEndpoint
    Free = Free
    Peer = {alf}
    Session = {alf1, alf2}
    Enumerators = {alf}
    Thread <- MCThread
    Hook <- MCHook
    Owner <- MCOwner
    SessionOf <- MCSessionOf
    Requests <- OnlyAnnounce

SPECIFICATION Spec

INVARIANTS
    AnnouncedStays
