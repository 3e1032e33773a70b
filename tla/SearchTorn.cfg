SPECIFICATION Spec
CONSTANTS
  Tunes = {0, 1, 2, 3}
  Logged = {0}
  Guided = FALSE
  Levels = 2
  Axes <- BothAxes
  Moves <- SomeMoves
  Rounds = 4
  Patience = 3
  Start = 1
  Plans <- SomePlans
  Cost <- SweepCost
  Shards <- SomeShards
  Jobs = 1
  MaxRuns = 2
  Faults = {"full"}
  Here = Here
  Elsewhere = Elsewhere
  Missing = Missing
  Garbled = Garbled
INVARIANT MemoryHonest
CHECK_DEADLOCK FALSE
