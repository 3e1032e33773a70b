SPECIFICATION Spec
CONSTANTS
  N = 10
  Letters = {4, 5, 7, 8}
  Space = 6
  SUFFIXES <- MCSuffixes
  Forms = {"list"}
  Texts <- LongTexts
  Vocabs = {}
  Streams = {}
  DICT <- MCDict
  Del = 9
  Capital <- MCCapital
  Shuffle <- MCShuffle
  LayerTexts <- MCLayerTexts
  LayerStreams <- MCLayerStreams
  GrammarTexts <- MCGrammarTexts
  MaxRules = 3
  MinCount = 2
  Window = 6
  MaxRun = 3
INVARIANT TextRestored
CHECK_DEADLOCK FALSE
