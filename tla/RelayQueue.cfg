SPECIFICATION FairSpec
CONSTANTS
    r1 = r1  r2 = r2  r3 = r3
    m1 = m1  m2 = m2  t1 = t1  t2 = t2  a1 = a1  i1 = i1  i2 = i2  s1 = s1
    None = None
    Accounts = {r1, r2}
    Messages = {m1, m2}
    TxIds = {t1, t2}
    Assets = {a1}
    Indexes = {i1}
    Requests = {m1, m2}
    Sockets = {s1}
    Outbound = {m1}
    ReqOf <- MCReqOf
    IndexOf <- MCOneIndex
    Amount <- MCAmount
    Caps = {1, 3}
    MAX_PENDING_TRANSFERS_PER_RELAYER = 1
    MAX_ON_FLIGHT_CAP = 3
    MAX_ASSET_INDEXES_PER_CALL = 2

INVARIANTS TypeOK OneStage NoSlotLeak CapAccounting CapRespected
CONSTRAINTS SecondHasOneTx AssetBeforeFirst
PROPERTIES OnlyForward OutboundFinalizes
