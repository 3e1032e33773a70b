SPECIFICATION FairSpec
CONSTANTS
  Tunes = {0, 1, 2, 3}
  Logged = {0, 1}
  Guided = TRUE
  Levels = 2
  Axes <- BothAxes
  Moves <- SomeMoves
  Rounds = 4
  Patience = 3
  Start = 1
  Plans <- SomePlans
  Cost <- SweepCost
  Shards <- SomeShards
  Jobs = 3
  MaxRuns = 2
  Faults = {"kill", "gap", "full", "unread"}
  Here = Here
  Elsewhere = Elsewhere
  Missing = Missing
  Garbled = Garbled
INVARIANTS
  PaidOnce HonestUnlessTorn NothingForgotten LogIsSerial BestReported
  WalkReproducible
PROPERTY Completes
CHECK_DEADLOCK FALSE
