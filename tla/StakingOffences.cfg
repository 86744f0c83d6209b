CONSTANTS
  None = None
  Controllers = {1, 2, 3}
  Relayers = {11, 12, 13}
  Stashes = {21, 22}
  Nominators = {31}
  Genesis <- Two
  GenesisNominations <- OneNomination
  GenesisStorage <- Storage
  Accuracy = 100
  BlocksPerYear = 6
  MinFullCandidateStk = 500
  MinBasicCandidateStk = 250
  MinFullValidatorStk = 500
  MinBasicValidatorStk = 250
  LeaveCandidatesDelay = 1
  MinBlocksPerRound = 2
  MaxBlocksPerRound = 4
  SessionPeriod = 1
  MaxBlocks = 4
  MaxCalls = 2
  Calls = {"heartbeat", "report", "go_online", "offence_limits", "heartbeat_offence"}
  Bonds = {1000}
  Commissions = {20}
  RoundLengths = {}
  SelectionSizes = {}
  Lifetimes = {}
  Fractions = {40}
  Schedules = {}
SPECIFICATION Spec
CHECK_DEADLOCK FALSE
PROPERTY OffencesInForce
PROPERTY TotalExact
