CONSTANTS
    e1 = e1
    e2 = e2
    e3 = e3
    u1 = u1
    u2 = u2
    a1 = a1
    a2 = a2
    Precompile = Precompile
    None = None
    Members <- TwoMembers
    ExecutiveSets <- Both
    Users = {u1}
    MigrationTxs = {t1}
    MaxRound = 2
    MembershipHook = TRUE
    PubKeys = {1, 2}
    RefundAddresses <- PlainAndVault
    Ratios = {50, 100}
    PreSubmissions <- SingleKeys
    MaxPreSubmissions = {1}
SPECIFICATION Spec
INVARIANTS
    VaultNotRefund
CONSTRAINTS
    MigrationAlone
    RatioRestored
PROPERTIES
    ImplementsPoolManager
