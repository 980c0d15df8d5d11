SPECIFICATION PagesSpec
CONSTANTS
    Families = {"payment", "escrow"}
    MaxIds = 1
    MaxReads = 1
    MaxRuns = 0
INVARIANTS
    ShownWasAnswered
CHECK_DEADLOCK FALSE
