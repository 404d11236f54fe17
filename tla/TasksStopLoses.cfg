CONSTANTS
    k1 = k1
    k2 = k2
    NoPod = NoPod
    Pods <- OnePod
    Last = 2
    MaxSize = 1
    Budget <- OneStop
    MaxFaults = 1
SPECIFICATION Spec
INVARIANT
    GracefulStopKeepsWork
CHECK_DEADLOCK FALSE
