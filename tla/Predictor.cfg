SPECIFICATION Spec
CONSTANTS
  D = 2
  Hash <- MCHash
  Mix <- MCMix
  PMAX = 15
  ChkSize = 4
  MAX_LEN = 3
  NearBits = 1
  Steps = {2, 3}
  Experts <- MCExperts
  StateExperts <- MCStateExperts
  PpmSlots <- MCPpmSlots
  STATE_MAX = 3
  STATE_RATE = 1
  COUNT_MAX = 4
  Tiers <- MCTiers
  Inherit = "inherit"
  REP = 2
  CONF_MAX = 2047
  Alphabet = {4, 6, 9}
  Lower <- MCLower
  Letters = {4, 5}
  Newline = 9
  WORD_MAX = 3
  Stem <- MCStem
  Class <- MCClass
  MaxLen = 7
INVARIANTS RealMatch NoMissedMatch NoForeignHistory FreshBucket HistoriesTrue
PROPERTY SeededByParent
CHECK_DEADLOCK FALSE
