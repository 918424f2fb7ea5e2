SPECIFICATION UdpSpec
CHECK_DEADLOCK FALSE
CONSTANTS
    Peers = {1, 2}
    Script <- SomeScript
    Timeouts = 2
    Readers = {2}
    MaxCalls = 2
INVARIANTS
    JoinTakesOneSync
PROPERTIES
    CallsReturn
    FlushesGoOn
