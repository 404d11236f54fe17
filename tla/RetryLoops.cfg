CONSTANTS
    MaxRetries = 3
    DbAttempts = 3
    RetryBase = 4
    RetryCap = 240
    DbBase = 2
    Command = 120
    Connect = 240
    Forever = 6000
    MaxTime = 5838
SPECIFICATION FairSpec
INVARIANTS
    TypeOK
    SuccessIsStored
    DeadLetterIsEarned
    HandledInTime
PROPERTY
    HandlingEnds
CHECK_DEADLOCK FALSE
