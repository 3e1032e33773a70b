SPECIFICATION FairSpec
CONSTANTS
  r1 = r1
  r2 = r2
  j = j
  Runs = {r1, r2, j}
  Judged = {j}
  Overridden = {r2}
  Proj <- Peaks
  Chunks = 2
  Total = 8
  Reserve = 3
  Floor = 2
  MaxBudget = 6
  Patience = 2
  Levels = {2, 4, 8}
  Unreadable = TRUE
  Malformed = TRUE
  None = None
INVARIANTS NeverSwaps KeepsReserve
PROPERTIES AbortJustified EveryRunEnds
CHECK_DEADLOCK FALSE
