SPECIFICATION SystemSpec
CONSTANTS
    alice = alice
    bob = bob
    v1 = v1
    v2 = v2
    usdc = usdc
    Nobody = Nobody
    RegistryAt = RegistryAt
    EscrowKey = EscrowKey
    Users <- MCUsers
    Foreign = {}
    Contracts <- MCTwo
    Assets = {usdc}
    Admins = {bob}
    Funding <- MCFunding
    Keys = {EscrowKey}
    Amounts = {1}
    Gifts = {}
    Payees = {bob}
    Timeouts = {1}
    MaxTime = 1
    MaxId = 1
    MaxPayments = 1
INVARIANTS
    AdminOverwrites
CHECK_DEADLOCK FALSE
