CONSTANTS
    Callers = {c1, c2, c3}
    MaxSize = 2
    DbAttempts = 2
    Budget <- AllFaults
SPECIFICATION FairSpec
INVARIANTS
    TypeOK
    PoolIsWhole
    LeavesNothingBehind
    TasksEndBeforeClients
    HandlersAreServed
PROPERTIES
    ShutdownCompletes
    CallsEnd
CHECK_DEADLOCK FALSE
