SPECIFICATION PartSpec
CONSTANTS
    MaxSeq = 3
    Operational = {1, 2}
    Limit = 2
    QueueMax = 2
    BundleSize = 2
    Caller = {c1, c2, c3}
    NoCaller = NoCaller
    CancelAtBegin = TRUE
    Entry = {e1, e2}
    RequestId = {e1, e2}
    IdOf <- OwnIds
    Capacity = 1
    NoEntry = NoEntry
INVARIANTS NewsOnly NoGap
PROPERTIES CatchesUp NobodyWaitsForever
CHECK_DEADLOCK FALSE
