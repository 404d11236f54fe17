CONSTANTS
    Interval = 2
    MaxAge = 12
    Period = 3
    InitialDelay = 4
    Threshold = 3
    Grace = 12
    Budget <- AllFaults
    MaxFaults = 3
SPECIFICATION FairSpec
INVARIANTS
    TypeOK
    BlockedIsKilledInTime
PROPERTIES
    HealthyIsSpared
    DeadWriterIsNoticed
