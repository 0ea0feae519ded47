SPECIFICATION UpgradeSpec
CONSTANTS
    Record = {1, 2}
    MaxCrashes = 0
INVARIANTS KeepsRecords
CHECK_DEADLOCK FALSE
