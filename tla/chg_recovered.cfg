CONSTANTS
    c1 = c1
    c2 = c2
    Change <- MCChange
    Creates <- MCCreates
    Capacity = 2
    CacheMax = 1
    MaxIncidents = 0
    HardErrors = FALSE
SPECIFICATION Spec
INVARIANTS RecoveredIsSafe
CHECK_DEADLOCK FALSE
