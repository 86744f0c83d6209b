CONSTANTS
    None = None
    Amounts = {3, 6, 9, 14}
    Sizes = {1, 2}
    MaxCoins = 3
    MessageAmounts = {1, 4, 6}
    MaxRequests = 2
    Coins <- MCCoins
    Outbounds <- MCOutbounds
    FeeRates <- MCFeeRates
    TryLimits = {4, 100}
    OutputSize <- MCOutputSize
    MAX_WEIGHT = 4
    DUST_LIMIT = 1
    CHANGE_SIZE = 1
    OVERHEAD = 1
    U64MAX = 1000
SPECIFICATION Spec
CHECK_DEADLOCK FALSE
INVARIANTS
    FeeInRange
    SelectionOptimal
