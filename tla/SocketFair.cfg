CONSTANTS
    a1 = a1
    a2 = a2
    u1 = u1
    m1 = m1
    m2 = m2
    d1 = d1
    x1 = x1
    x2 = x2
    c1 = c1
    pay = pay
    payMore = payMore
    payElse = payElse
    payBoth = payBoth
    payLess = payLess
    give = give
    giveMore = giveMore
    giveOther = giveOther
    move = move
    moveMore = moveMore
    comp11 = comp11
    comp12 = comp12
    comp21 = comp21
    comp22 = comp22
    Accounts = {a1, a2}
    Members = {a1, a2}
    ExecutiveSets <- TwoExecutives
    Users = {u1}
    MaxRound = 1
    MembershipHook = TRUE
    UtxoIds = {x1}
    Messages = {m1}
    Rates = {1}
    ToleranceThreshold = 0
    MaxUnconfirmed = 1
    Activations = {TRUE, FALSE}
    None = None
    Composed = {comp11}
    Deposits = {}
    UserOf <- OneUser
    Dust = {}
    MessageBytes <- OneByte
    FeeRateLimits = {1, 2}
    MessageLimits = {0, 1}
    Contracts = {c1}
    KeyHolders = {a1, a2}
    SigningThreshold = 2
    Psbts = {comp11}
    MigrationTxs = {comp11}
    Inputs <- MCInputs
    Outs <- MCOuts
    Fee <- MCFee
SPECIFICATION FairSpec
CONSTRAINT RelayersStay FixedAuthority NoMigration
ACTION_CONSTRAINT VaultsStay SetUpFirst
PROPERTIES
    RequestsExecuted
