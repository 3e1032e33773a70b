SPECIFICATION MCSpec
CONSTANTS
  N = 10
  Letters = {4, 5, 7, 8}
  Space = 6
  SUFFIXES <- MCSuffixes
  Forms <- MCForms
  Texts <- MCTexts
  Vocabs <- MCVocabs
  Streams <- MCStreams
  DICT <- MCDict
  Del = 9
  Capital <- MCCapital
  Shuffle <- MCShuffle
  LayerTexts <- MCLayerTexts
  LayerStreams <- MCLayerStreams
  GrammarTexts <- MCGrammarTexts
  MaxRules = 3
  MinCount = 2
  Window = 6
  MaxRun = 3
INVARIANTS TextRestored Lockstep ListsInverse GrammarOfText
PROPERTY Total
CHECK_DEADLOCK FALSE
