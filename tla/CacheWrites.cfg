SPECIFICATION MCSpec
CONSTANTS
    C1 = C1
    None = None
    Ids = {C1, C2}
    Existing = {C1, C2}
    Fields = {"name", "price"}
    Changes <- MCChanges
    Filters = {}
    Hides <- MCHides
    KeyTexts = {}
    KeyText <- MCKeyText
    Skipped = {}
    Queries <- MCQueries
    MaxGets = 1
    MaxWrites = 2
    MaxFaults = 1
INVARIANTS
    CopiesAreFresh
PROPERTIES
    StaleKeysExpire
CHECK_DEADLOCK FALSE
