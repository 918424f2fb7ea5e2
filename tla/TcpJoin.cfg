SPECIFICATION TcpSpec
CONSTANTS
    a = a
    b = b
    r = r
    s = s
    c = c
    Endpoints = {a, b, r, s, c}
    MyAddress <- MCMyAddress
    OtherAddress <- MCOtherAddress
    Role <- MCRole
    SleepBetweenAttempts = 2
    Timeout = 3
    NoPeer = NoPeer
    MaxFaults = 1
CHECK_DEADLOCK FALSE
INVARIANTS
    JoinedUnlessRestarted
PROPERTY
    ClientTerminates
