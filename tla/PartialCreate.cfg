SPECIFICATION Spec
CONSTANTS
    A = A
    B = B
    NoRow = NoRow
    NoLocation = NoLocation
    Null = Null
    Columns <- MCColumns
    Values <- MCValues
    Creations <- OneCreation
    Changes <- NoChanges
    MaxRequests = 1
    MaxFaults = 3
    MaxCrashes = 0
INVARIANTS
    DroppedLeavesNothing
CHECK_DEADLOCK FALSE
