CONSTANTS
    k1 = k1
    k2 = k2
    NoPod = NoPod
    Pods <- TwoPods
    Last = 1
    MaxSize = 1
    Budget <- AllFaults
    MaxFaults = 2
SPECIFICATION FairSpec
PROPERTIES
    ShutdownEnds
    ProcessingIsRecovered
    EventsAreCommitted
CHECK_DEADLOCK FALSE
