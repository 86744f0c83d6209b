CONSTANTS
  None = None
  Controllers = {1, 2, 3}
  Relayers = {11, 12, 13}
  Stashes = {21, 22}
  Nominators = {31}
  Genesis <- Two
  GenesisNominations <- OneNomination
  GenesisStorage <- ThreeBlockRounds
  Accuracy = 100
  BlocksPerYear = 6
  MinFullCandidateStk = 500
  MinBasicCandidateStk = 250
  MinFullValidatorStk = 500
  MinBasicValidatorStk = 250
  LeaveCandidatesDelay = 1
  MinBlocksPerRound = 2
  MaxBlocksPerRound = 4
  SessionPeriod = 1
  MaxBlocks = 8
  MaxCalls = 2
  Calls = {"commission", "set_controller", "reward_dst", "revoke", "expectations", "inflation", "max_selected", "default_commission", "max_commission", "blocks_per_round", "lifetime", "set_keys"}
  Bonds = {1000}
  Commissions = {5, 50}
  RoundLengths = {4}
  SelectionSizes = {1, 2}
  Lifetimes = {1}
  Fractions = {}
  Schedules <- SomeSchedules
SPECIFICATION Spec
CHECK_DEADLOCK FALSE
INVARIANT IssuanceRespected
INVARIANT EstimateIsPayout
PROPERTY ClosedWhenPaid
 
