SPECIFICATION Spec
CONSTANTS
  PageIds <- MCPageIds
  MAX_ID = 99
  Methods <- MCMethods
  Parent = "sse3"
  W = 2
  MAX_OUTPUT = 18
  Files <- MCFiles
  Sizes = {2, 5}
  Stubs <- MCStubs
INVARIANTS FileRestored EveryPageOnce LastArchiveWins
CHECK_DEADLOCK FALSE
