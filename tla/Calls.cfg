SPECIFICATION CallsSpec
CONSTANTS
    Families = {"payment", "escrow"}
    OtherFaults = {5}
    Cards = {1}
    Decimals = 2
    Wholes = {0}
    Digits = {5}
    MaxIds = 2
    MaxRuns = 2
INVARIANTS
    CallsTypeOK
    OutcomeIsTrue
    ScreenFollowsRuns
PROPERTIES
    CallsEnd
    ImplementsService
CHECK_DEADLOCK FALSE
