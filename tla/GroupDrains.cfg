CONSTANTS
    k1 = k1
    k2 = k2
    p1 = p1
    e1 = e1
    e2 = e2
    NoPod = NoPod
    NoMessage = NoMessage
    Pods <- TwoPods
    Partitions <- OnePartition
    EventIds <- TwoEvents
    Log <- DrainLog
    MaxRetries = 1
    Budget <- LivenessBudget
SPECIFICATION FairSpec
INVARIANTS
    TypeOK
    NoSkippedOffset
    LossBounded
PROPERTIES
    ImplementsDelivery
    EventuallyDrained
    EventuallyCommitted
CHECK_DEADLOCK FALSE
