SPECIFICATION DeploySpec
CONSTANTS
    Accounts = {"alice", "bob"}
    Runs = {1, 2}
    ByHand = TRUE
INVARIANTS
    DeployTypeOK
    EnvWorks
CHECK_DEADLOCK FALSE
