CONSTANTS
    MaxLength = 6
    MaxColumns = 2
    MaxRows = 3
SPECIFICATION Spec
INVARIANTS
    ScanIsRight
    BatchBindsItsValues
CHECK_DEADLOCK FALSE
