SPECIFICATION MCSpec
CONSTANTS
    C1 = C1
    None = None
    Ids = {C1, C2}
    Existing = {C1}
    Fields = {"name"}
    Changes <- MCChanges
    Filters <- MCFilters
    Hides <- MCHides
    KeyTexts = {"x", "y"}
    KeyText <- MCKeyText
    Skipped = {}
    Queries <- MCLists
    MaxGets = 2
    MaxWrites = 1
    MaxFaults = 1
INVARIANTS
    CacheInvariant
    FilterIsRespected
    FilteredAnswersAreFresh
    CachedCampaignsExist
CHECK_DEADLOCK FALSE
