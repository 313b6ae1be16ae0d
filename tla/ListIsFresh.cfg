SPECIFICATION Spec
CONSTANTS
    C1 = C1
    None = None
    Ids = {C1}
    Existing = {C1}
    Fields = {"name"}
    Changes <- MCChanges
    Filters = {"first"}
    Hides <- MCHides
    KeyTexts = {"x"}
    KeyText <- MCKeyText
    Skipped = {}
    Queries <- MCQueries
    MaxGets = 1
    MaxWrites = 1
    MaxFaults = 0
INVARIANTS
    ListIsFresh
CHECK_DEADLOCK FALSE
