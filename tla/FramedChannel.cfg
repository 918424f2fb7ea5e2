SPECIFICATION FramedSpec
CONSTANTS
    Base = 2
    HeaderLen = 3
    Messages <- SomeMessages
    MaxSent = 2
CHECK_DEADLOCK FALSE
PROPERTIES
    ImplementsFifo
    EverythingArrives
