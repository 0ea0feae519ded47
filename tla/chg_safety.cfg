CONSTANTS
    c1 = c1
    c2 = c2
    Change <- MCChange
    Creates <- MCCreates
    Capacity = 2
    CacheMax = 1
    MaxIncidents = 2
    HardErrors = TRUE
SPECIFICATION Spec
INVARIANTS ConsentCoversWrite WrittenAtMostOnce RecordsAreTrue
CHECK_DEADLOCK FALSE
