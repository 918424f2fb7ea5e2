SPECIFICATION KcpSpec
CONSTANTS
    Workload <- SomeWork
    Mss = 2
    Overhead = 1
    SndWnd = 2
    RcvWnd = 3
    ThreshMin = 2
    RecvLens = {2, 5}
    MaxFaults = 1
INVARIANTS
    AckedIsHeld
    WindowsHold
PROPERTIES
    KcpImplementsFifo
    KcpDelivers
