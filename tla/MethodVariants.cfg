SPECIFICATION Spec
CONSTANTS
  Sessions <- ResearchSessions
  Decoders = {}
  Tunes <- MCTunes
  Lengths <- MCLengths
INVARIANTS VariantsComparable
CHECK_DEADLOCK FALSE
