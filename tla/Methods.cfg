SPECIFICATION Spec
CONSTANTS
  Sessions <- MCSessions
  Decoders <- MCDecoders
  Tunes <- MCTunes
  Lengths <- MCLengths
INVARIANTS ModelsAgree LayersUndone GuardAgrees GeometryBounded AcceptedIsWorst ArmsComparable
CHECK_DEADLOCK FALSE
