CONSTANTS
    Last = 4
    MaxRetries = 2
    MaxErrors = 2
SPECIFICATION FairSpec
INVARIANTS
    TypeOK
    LinesAreAttributed
    MetricsAgree
PROPERTY
    PendingReturnsToZero
CHECK_DEADLOCK FALSE
