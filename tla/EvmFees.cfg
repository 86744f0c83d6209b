CONSTANTS
  None = None
  u0 = u0
  u1 = u1
  u2 = u2
  usdc = usdc
  wbtc = wbtc
  manager = manager
  aggregator = aggregator
  idBfc = idBfc
  idUsdc = idUsdc
  Users = {u1, u2}
  Author = Author
  Treasury = Treasury
  Collector = Collector
  Accounts = {u0, u1, u2, Author, Treasury}
  Assets = {usdc, wbtc}
  Chains = {bfc}
  NativeChainId = bfc
  OracleIds = {idBfc, idUsdc}
  ZeroId = ZeroId
  Contracts = {manager, aggregator}
  ORACLE_DECIMALS = 2
  U256SIZE = 1048576
  U64SIZE = 64
  BlockSeconds = 3
  FeeTokenUpdateCooldown = 1
  QuietTokens = {usdc}
  SilentTokens = {wbtc}
  BaseFee = 7
  Tips = {0, 2}
  GasLimits = {1, 3}
  Stops = {{}, {usdc}, {wbtc}}
  GenesisBlocked = {u0}
  Configs <- SomeConfigs
  Amounts = {3}
  Prices = {0, 200}
  Decimals = {3, 1}
  GenesisNative <- NativeStart
  GenesisTokens <- TokensStart
  GenesisConfigs <- ConfigsStart
  GenesisOracles <- OraclesStart
  GenesisAggregators <- AggregatorsStart
  GenesisManager = manager
  GenesisFeed <- FeedStart
  Calls = {"setUserFeeToken", "clearUserFeeToken", "other", "fee_token", "set_user_fee_token", "withdraw_collected_fees", "registry", "utility", "publish", "spend"}
  MaxBlocks = 2
  MaxTxs = 2
  MaxCalls = 1
SPECIFICATION Spec
CHECK_DEADLOCK FALSE
 
 
PROPERTY PricedFairly
PROPERTY CollectorKeepsBase
