SPECIFICATION HelpersSpec
CONSTANTS
    Users <- MCUsers
    Uuids <- MCUuids
    UuidLike <- MCUuidLike
    IndexLike <- MCIndexLike
    Queries <- MCQueries
    WithComma = {"a,b"}
    Callable <- MCCallable
    Nothing = Nothing
    BatchSize = 1
    MaxCalls = 3
    MaxFaults = 1
    Calls <- MCCalls
    ClientTimeout = 2
INVARIANTS
    AnswersFitTheQuery
    IndexExpires
    InvalidationIsExact
    ActiveListIsComplete
    ReturnsByDeadline
    OutcomeIsJustified
CHECK_DEADLOCK FALSE
