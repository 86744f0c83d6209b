CONSTANTS
    a1 = a1
    a2 = a2
    u1 = u1
    m1 = m1
    m2 = m2
    d1 = d1
    x1 = x1
    x2 = x2
    c1 = c1
    pay = pay
    payMore = payMore
    payElse = payElse
    payBoth = payBoth
    payLess = payLess
    give = give
    giveMore = giveMore
    giveOther = giveOther
    move = move
    moveMore = moveMore
    comp11 = comp11
    comp12 = comp12
    comp21 = comp21
    comp22 = comp22
    Accounts = {a1, a2}
    Members = {a1, a2}
    ExecutiveSets <- OneExecutive
    Users = {u1}
    MaxRound = 1
    MembershipHook = TRUE
    UtxoIds = {x1, x2}
    Messages = {m1, m2}
    Rates = {1}
    ToleranceThreshold = 1
    MaxUnconfirmed = 1
    Activations = {TRUE}
    None = None
    Composed = {comp11, comp12, comp21, comp22}
    Deposits = {}
    UserOf <- OneUser
    Dust = {}
    MessageBytes <- OneByte
    FeeRateLimits = {2}
    MessageLimits = {1}
    Contracts = {c1}
    KeyHolders = {a1, a2}
    SigningThreshold = 1
    Psbts = {comp11, comp12, comp21, comp22}
    MigrationTxs = {comp11, comp12, comp21, comp22}
    Inputs <- MCInputs
    Outs <- MCOuts
    Fee <- MCFee
SPECIFICATION Spec
CONSTRAINT FixedRelayers FixedAuthority NoMigration
ACTION_CONSTRAINT VaultsStay BlazeStaysOn SetUpFirst
INVARIANTS
    
    UnconfirmedCountExact
    MessagePaidOnce
