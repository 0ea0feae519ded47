CONSTANTS
    Caller = {c1, c2}
    NoCaller = NoCaller
    CancelAtBegin = TRUE
SPECIFICATION Spec
INVARIANTS BeginIsNeverRefused
CHECK_DEADLOCK FALSE
