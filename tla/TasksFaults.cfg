CONSTANTS
    k1 = k1
    k2 = k2
    NoPod = NoPod
    Pods <- TwoPods
    Last = 2
    MaxSize = 1
    Budget <- NoSignal
    MaxFaults = 2
SPECIFICATION Spec
INVARIANTS
    TypeOK
    LossNeedsFault
    NoConcurrentWork
    WorkBounded
    DeadLettersBounded
PROPERTY
    ImplementsJobs
SYMMETRY PodSymmetry
CHECK_DEADLOCK FALSE
