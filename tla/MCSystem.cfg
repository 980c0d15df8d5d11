SPECIFICATION MCSystemSpec
CONSTANTS
    alice = alice
    bob = bob
    v1 = v1
    v2 = v2
    usdc = usdc
    Nobody = Nobody
    RegistryAt = RegistryAt
    EscrowKey = EscrowKey
    Users <- MCUsers
    Foreign = {alice}
    Contracts <- MCTwo
    Assets = {usdc}
    Admins = {bob}
    Funding <- MCFunding
    Keys = {EscrowKey}
    Amounts = {0, 1}
    Gifts = {}
    Payees = {bob}
    Timeouts = {1}
    MaxTime = 1
    MaxId = 1
    MaxPayments = 2
INVARIANTS
    PaymentTypeOK
    ExecutedBacked
    OneEscrowEach
    PaymentTrail
PROPERTIES
    NoTakeover
SYMMETRY MCSymmetry
CHECK_DEADLOCK FALSE
