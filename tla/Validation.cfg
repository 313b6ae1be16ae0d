SPECIFICATION Spec
CONSTANTS
    Requests <- MCRequests
    Now <- MCNow
    DatabaseMayFail = TRUE
    Nil = Nil
INVARIANTS
    AcceptedIsValid
    RejectionIsJustified
    MissingCampaignIsRefused
    CrashNeedsMissingName
    NoSenderIsStuck
    RequestInvariant
PROPERTIES
    EveryRequestIsAnswered
    GoroutinesReturn
CHECK_DEADLOCK FALSE
