SPECIFICATION Spec
CONSTANTS
    C1 = C1
    None = None
    Ids = {C1, C2}
    Existing = {C1, C2}
    Fields = {"name"}
    Changes <- MCChanges
    Filters = {"first"}
    Hides <- MCHides
    KeyTexts = {"x"}
    KeyText <- MCKeyText
    Skipped = {}
    Queries <- MCQueries
    MaxGets = 2
    MaxWrites = 1
    MaxFaults = 0
INVARIANTS
    AnswersAreSpecific
CHECK_DEADLOCK FALSE
