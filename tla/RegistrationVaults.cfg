CONSTANTS
    e1 = e1
    e2 = e2
    e3 = e3
    u1 = u1
    u2 = u2
    a1 = a1
    a2 = a2
    Precompile = Precompile
    None = None
    Members <- ThreeMembers
    ExecutiveSets <- TwoPairs
    Users = {u1}
    MigrationTxs = {t1}
    MaxRound = 1
    MembershipHook = FALSE
    PubKeys = {1, 2, 3, 4}
    RefundAddresses = {a1}
    Ratios = {100}
    PreSubmissions = {}
    MaxPreSubmissions = {1}
SPECIFICATION FairSpec

    
PROPERTIES
    RequestedVaultGenerated
