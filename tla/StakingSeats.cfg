CONSTANTS
  None = None
  Controllers = {1, 2, 3}
  Relayers = {11, 12, 13}
  Stashes = {21, 22, 23}
  Nominators = {31}
  Genesis <- Two
  GenesisNominations <- OneNomination
  GenesisStorage <- Quiet
  Accuracy = 100
  BlocksPerYear = 6
  MinFullCandidateStk = 500
  MinBasicCandidateStk = 250
  MinFullValidatorStk = 500
  MinBasicValidatorStk = 250
  LeaveCandidatesDelay = 2
  MinBlocksPerRound = 2
  MaxBlocksPerRound = 4
  SessionPeriod = 1
  MaxBlocks = 6
  MaxCalls = 2
  Calls = {"join_candidates", "set_controller", "set_validator_tier", "go_offline", "go_online", "set_relayer", "leave"}
  Bonds = {1000}
  Commissions = {20}
  RoundLengths = {}
  SelectionSizes = {}
  Lifetimes = {}
  Fractions = {}
  Schedules = {}
SPECIFICATION Spec
CHECK_DEADLOCK FALSE
INVARIANT AnswersAgree
PROPERTY CacheHistory
PROPERTY ImplementsRelayerSet
