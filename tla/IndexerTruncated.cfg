SPECIFICATION IndexerSafety
CONSTANTS
    BatchSize = 2
    StartLedger = 0
    Kinds = {"activity"}
    PerLedger = 2
    MaxLedger = 2
    Faults = {}
    MaxFaults = 0
INVARIANTS
    NothingMissed
CHECK_DEADLOCK FALSE
