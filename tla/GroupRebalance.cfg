CONSTANTS
    k1 = k1
    k2 = k2
    p1 = p1
    e1 = e1
    e2 = e2
    NoPod = NoPod
    NoMessage = NoMessage
    Pods <- TwoPods
    Partitions <- OnePartition
    EventIds <- TwoEvents
    Log <- MixedLog
    MaxRetries = 0
    Budget <- RebalanceBudget
SPECIFICATION Spec
INVARIANTS
    HandlerOncePerClaim
    NoConcurrentHandling
    SpuriousDeadLettersBounded
SYMMETRY PodSymmetry
CHECK_DEADLOCK FALSE
