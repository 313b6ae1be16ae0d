SPECIFICATION Spec
CONSTANTS
    A = A
    B = B
    NoRow = NoRow
    NoLocation = NoLocation
    Null = Null
    Columns <- MCColumns
    Values <- MCValues
    Creations <- TwoCreations
    Changes <- AllChanges
    MaxRequests = 3
    MaxFaults = 0
    MaxCrashes = 0
INVARIANTS
    StoredUpdateHolds
    EveryStoredMessageIsLogged
PROPERTIES
    EventuallyStored
CHECK_DEADLOCK FALSE
