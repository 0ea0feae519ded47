CONSTANTS
    e1 = e1  e2 = e2  e3 = e3
    Entry = {e1, e2, e3}
    RequestId = {"own", "shared"}
    IdOf <- SharedIds
    Capacity = 2
    NoEntry = NoEntry
SPECIFICATION Spec
INVARIANTS InTurnAndOnce ReportAgreesWithScene AdapterOutlivesOperation
SYMMETRY SameId
CHECK_DEADLOCK FALSE
