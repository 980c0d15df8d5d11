SPECIFICATION IndexerSpec
CONSTANTS
    BatchSize = 1
    StartLedger = 0
    Kinds = {"activity", "skipped"}
    PerLedger = 1
    MaxLedger = 2
    Faults = {}
    MaxFaults = 0
PROPERTIES
    EventuallyIndexed
CHECK_DEADLOCK FALSE
