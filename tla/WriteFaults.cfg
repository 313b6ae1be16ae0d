SPECIFICATION Spec
CONSTANTS
    A = A
    B = B
    NoRow = NoRow
    NoLocation = NoLocation
    Null = Null
    Columns <- MCColumns
    Values <- MCValues
    Creations <- OneCreation
    Changes <- SomeChanges
    MaxRequests = 2
    MaxFaults = 4
    MaxCrashes = 1
ACTION_CONSTRAINT Bounded
INVARIANTS
    TypeOK
    StoredIsComplete
    NoOrphans
    SecondLocationNeedsFault
    IdleHoldsNoTransaction
    AttemptsAreBounded
    DropNeedsFaults
    RestartKeepsUpdates
    WritePathInvariant
PROPERTIES
    EventuallyResolved
    MessagesAreDeliveredInOrder
CHECK_DEADLOCK FALSE
