SPECIFICATION Spec
CONSTANTS
    Sessions = {"s1", "s2", "s3"}
    Peer <- MCPeer
    Calls = {1}
    Self = "room"
    NoSession = "none"
INVARIANTS
    RightPeers
PROPERTY
    TunnelsEnd
CHECK_DEADLOCK FALSE
