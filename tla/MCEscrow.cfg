SPECIFICATION EscrowSpec
CONSTANTS
    alice = alice
    bob = bob
    vault = vault
    usdc = usdc
    Nobody = Nobody
    Users <- MCUsers
    Contracts <- MCContracts
    Assets <- MCAssets
    Admins <- MCAdmins
    Funding <- MCFunding
    Amounts <- MCAmounts
    Gifts = {1}
    Payees <- MCPayees
    Timeouts = {2}
    MaxTime = 2
    MaxId = 2
INVARIANTS
    EscrowTypeOK
    Solvency
    Settleable
    CreationOrder
    AuditTrail
PROPERTIES
    OwnFundsOnly
    SettledByRight
    ImplementsCustody
CHECK_DEADLOCK FALSE
