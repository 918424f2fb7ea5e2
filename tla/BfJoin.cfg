SPECIFICATION BfSpec
CONSTANTS
    a = a
    b = b
    r = r
    Endpoints = {a, b, r}
    SelfAddress <- MCSelfAddress
    PeerAddress <- MCPeerAddress
    SleepBetweenAttempts = 2
    Timeout = 3
    NoFd = NoFd
    MaxFaults = 1
CHECK_DEADLOCK FALSE
INVARIANTS
    JoinedOrDropped
PROPERTY BfTerminates
