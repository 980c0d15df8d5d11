SPECIFICATION IndexerSpec
CONSTANTS
    BatchSize = 3
    StartLedger = 0
    Kinds = {"activity", "skipped"}
    PerLedger = 2
    MaxLedger = 3
    Faults = {"rpc", "insert", "save", "crash"}
    MaxFaults = 3
INVARIANTS
    IndexerTypeOK
    LiveInOrder
    NoLedgerSkipped
PROPERTIES
    EventuallyReached
CHECK_DEADLOCK FALSE
