SPECIFICATION MCTabSpec
CONSTANTS
    Families = {"payment", "escrow"}
    MaxIds = 1
    MaxReads = 2
    MaxRuns = 1
    ReplaySize = 2
    RecentSize = 2
    FeedSize = 3
    MaxEvents = 3
    MaxFaults = 2
    Accounts = {"GALICE", "GBOB"}
    Networks = {"TESTNET", "FUTURENET", "PUBLIC"}
    AppNetwork = "TESTNET"
    MaxAttempts = 3
    MaxWrites = 1
INVARIANTS
    PagesTypeOK
    ListIsOneAnswer
    LoadingIsHonest
    FeedTypeOK
    NoGap
    SessionTypeOK
    ActsAsShown
    NoGhostConnect
PROPERTIES
    Reconnects
    ToastsGo
CHECK_DEADLOCK FALSE
