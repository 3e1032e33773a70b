SPECIFICATION Spec
CONSTANTS
  Radix = 3
  PROB_SCALE = 8
  Probs = {0, 1, 3, 7, 8}
  MaxBits = 4
INVARIANTS CodableInterval Lockstep WholeStreamRead
PROPERTY ChannelSpec
CHECK_DEADLOCK FALSE
