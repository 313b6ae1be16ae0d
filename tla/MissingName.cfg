SPECIFICATION Spec
CONSTANTS
    Requests <- MCUpdates
    Now <- MCNow
    DatabaseMayFail = FALSE
    Nil = Nil
INVARIANTS
    MissingNameIsSafe
CHECK_DEADLOCK FALSE
