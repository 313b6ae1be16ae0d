SPECIFICATION Spec
CONSTANTS
    A = A
    B = B
    NoRow = NoRow
    NoLocation = NoLocation
    Null = Null
    Columns <- MCColumns
    Values <- MCValues
    Creations <- TwoCreations
    Changes <- TwoCampaignChanges
    MaxRequests = 4
    MaxFaults = 0
    MaxCrashes = 0
PROPERTIES
    OnlyChangedFields
CHECK_DEADLOCK FALSE
