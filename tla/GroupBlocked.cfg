CONSTANTS
    k1 = k1
    k2 = k2
    p1 = p1
    e1 = e1
    e2 = e2
    NoPod = NoPod
    NoMessage = NoMessage
    Pods <- OnePod
    Partitions <- OnePartition
    EventIds <- TwoEvents
    Log <- ScalarLog
    MaxRetries = 0
    Budget <- NoFaults
SPECIFICATION FairSpec
PROPERTY
    AlwaysAdvances
CHECK_DEADLOCK FALSE
