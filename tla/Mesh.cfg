SPECIFICATION Spec
CONSTANTS
    N = 3
    Ips <- OneHost
    Ports <- SpacedPorts
    SleepBetweenAttempts = 2
    Timeout = 3
    NoPeer = NoPeer
    MaxFaults = 2
    MaxCrashes = 1
CHECK_DEADLOCK FALSE
INVARIANTS
    ChannelsMatch
    UndisturbedJoins
    ReturnedComplete
PROPERTY
    EveryoneReturns
