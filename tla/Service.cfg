SPECIFICATION Spec
CONSTANTS
    r1 = r1
    r2 = r2
    en = en
    Requests <- MCRequests
    Languages <- MCLanguages
    Default = en
    NoRequest = NoRequest
    MaxFailures = 1
INVARIANTS
    ServiceInvariant
    ServingIsConnected
    AloneIsTranslated
    OwnHeaderDecides
    DeathHasACause
PROPERTIES
    EveryRequestEnds
CHECK_DEADLOCK FALSE
