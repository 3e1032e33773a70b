------------------------------- MODULE Methods -------------------------------
(***************************************************************************)
(* The methods of src/src/archive.rs and what each of them switches on.  A *)
(* method is named by an id in the archive's header; what it means depends *)
(* on the features b the program was built with, so that an archive is     *)
(* read correctly only by a build that gives its method the same meaning.  *)
(***************************************************************************)
EXTENDS Integers, Sequences

\* Method k is the one with id k - 1.
Ids ==
  << "RawCm", "RawCmNoWord", "StructHoist", "AlphabetPerm", "AlphabetRandom",
     "InfoInherit", "InfoUnrelated", "AlphabetPermInfo", "Column", "ColumnShuffled",
     "ColumnNoLine", "Case", "CaseMark", "ColumnCase", "ColumnCaseMark",
     "WordToken", "WordTokenReverse", "ColumnWordToken", "ColumnWordTokenReverse",
     "WordToken2", "ColumnWordToken2", "LongMatch6", "LongMatch8", "LongMatch12",
     "LongMatch16", "LongMatch24", "SparseMatch4g1", "SparseMatch6g1",
     "SparseMatch6g2", "RepState1", "RepState2", "RepState3", "RepState4",
     "MatchByte", "MatchByteConst", "Phase4", "DistMatch", "Stem", "WordClass",
     "WordClassConst", "ColumnWordTokenPhrase", "ColumnWordTokenPhraseFreq",
     "ColumnWordTokenFront", "ColumnWordTokenAffix", "Grammar", "GrammarMtf",
     "GrammarMr", "GrammarRrank", "GrammarFirstUse", "GrammarOneShot", "Lzbe",
     "StateMap", "StateMapCtl", "StateMapRep", "Sse3", "Sse3Ctl", "Sparse4g1",
     "Sparse4g1Ctl", "Sparse4g1Rep", "Icm", "IcmCtl", "IndirectChain",
     "IndirectDeep", "Collision", "CollisionCtl", "Ppm", "PpmCtl", "StemModel",
     "StemModelCtl", "Isse", "IsseCtl", "Phase6", "Spine", "ReorderId",
     "ReorderTitle", "ReorderSize", "ReorderStruct", "ReorderMinHash",
     "ReorderGreedy", "ReorderTemplate", "ReorderShuffle", "ReorderCategory",
     "ReorderTemplateKey", "ReorderCategorySet", "ReorderFull",
     "ReorderFullResidual", "Residual", "ResidualCtl", "ResidualMtf",
     "ResidualMoveToSecond", "ResidualPriced", "ResidualPriceFilter",
     "ResidualAffix", "ResidualFirstUse", "ResidualSubword" >>

MethodNames == {Ids[k] : k \in DOMAIN Ids}
IdOf(m) == (CHOOSE k \in DOMAIN Ids : Ids[k] = m) - 1

\* A byte that is no id names no method.
MethodFromId(id) == IF id + 1 \in DOMAIN Ids THEN Ids[id + 1] ELSE "none"

ACCEPTED_METHOD == "Residual"
ACCEPTED_TUNE   == 51

-----------------------------------------------------------------------------
(* Families. *)

ReorderFamily ==
  {"ReorderId", "ReorderTitle", "ReorderSize", "ReorderStruct", "ReorderMinHash",
   "ReorderGreedy", "ReorderTemplate", "ReorderShuffle", "ReorderCategory",
   "ReorderTemplateKey", "ReorderCategorySet", "ReorderFull", "ReorderFullResidual"}

\* The accepted composite with another vocabulary or other ids.
Variants ==
  {"ResidualMtf", "ResidualMoveToSecond", "ResidualPriced", "ResidualPriceFilter",
   "ResidualAffix", "ResidualFirstUse", "ResidualSubword"}

Phase6Screens ==
  {"Collision", "CollisionCtl", "Ppm", "PpmCtl", "StemModel", "StemModelCtl", "Isse", "IsseCtl"}

OnPhase4Parent ==
  {"Phase4", "StateMap", "StateMapCtl", "StateMapRep", "Sse3", "Sse3Ctl",
   "Sparse4g1", "Sparse4g1Ctl", "Sparse4g1Rep", "Icm", "IcmCtl", "IndirectChain",
   "IndirectDeep", "Phase6", "Spine", "Residual", "ResidualCtl"}
    \cup Phase6Screens \cup ReorderFamily \cup Variants

Base6 ==
  {"Phase6", "Spine", "Residual", "ResidualCtl"} \cup Phase6Screens \cup ReorderFamily

Phase4Singles ==
  {"LongMatch6", "LongMatch8", "LongMatch12", "LongMatch16", "LongMatch24",
   "SparseMatch4g1", "SparseMatch6g1", "SparseMatch6g2", "RepState1", "RepState2",
   "RepState3", "RepState4", "MatchByte", "MatchByteConst", "DistMatch",
   "WordClass", "WordClassConst"}

\* The methods, outside the composite, with the previous-line expert.
ColumnFamily ==
  {"Column", "ColumnCase", "ColumnCaseMark", "ColumnWordToken",
   "ColumnWordTokenReverse", "ColumnWordToken2", "ColumnWordTokenPhrase",
   "ColumnWordTokenPhraseFreq", "ColumnWordTokenFront", "ColumnWordTokenAffix"}
    \cup Phase4Singles

-----------------------------------------------------------------------------
(* The layers a method puts on the text. *)

Hoists(m, b) ==
  /\ "struct-hoist" \in b
  /\ m \in OnPhase4Parent \cup ColumnFamily
         \cup {"StructHoist", "AlphabetPerm", "AlphabetRandom", "InfoInherit",
               "InfoUnrelated", "AlphabetPermInfo", "ColumnShuffled", "ColumnNoLine"}

PermOf(m, b) ==
  IF "alphabet-perm" \notin b THEN "none"
  ELSE IF m \in {"AlphabetPerm", "AlphabetPermInfo"} THEN "freq"
  ELSE IF m = "AlphabetRandom" THEN "random"
  ELSE "none"

CaseKind(m, b) ==
  IF "case-model" \notin b THEN "none"
  ELSE IF m \in {"Case", "ColumnCase"} THEN "merge"
  ELSE IF m \in {"CaseMark", "ColumnCaseMark"} THEN "mark"
  ELSE "none"

PricedVocab(m, b) == "vocab-price" \in b /\ m \in {"ResidualPriced", "ResidualPriceFilter"}

\* The variants of the composite, each with a feature of its own.
VariantKind(m, b) ==
  CASE m = "ResidualMtf" /\ "id-order" \in b          -> "mtf"
    [] m = "ResidualMoveToSecond" /\ "id-order" \in b -> "second"
    [] PricedVocab(m, b)                              -> "reverse"
    [] m = "ResidualAffix" /\ "affix-token" \in b     -> "affix"
    [] m = "ResidualFirstUse" /\ "first-use" \in b    -> "firstuse"
    [] m = "ResidualSubword" /\ "subword" \in b       -> "subword"
    [] OTHER                                          -> "none"

\* Whatever is on the composite, and the single mechanisms before it.
CompositeKind(m) ==
  IF m \in {"WordToken", "ColumnWordToken"} THEN "words"
  ELSE IF m \in OnPhase4Parent \cup Phase4Singles
                  \cup {"WordTokenReverse", "ColumnWordTokenReverse"} THEN "reverse"
  ELSE "none"

\* The vocabularies that do not need the feature word-token.
OtherKind(m, b) ==
  CASE m \in {"WordToken2", "ColumnWordToken2"} /\ "word-token2" \in b -> "v2"
    [] m = "ColumnWordTokenPhrase" /\ "phrase" \in b                   -> "phrase"
    [] m = "ColumnWordTokenPhraseFreq" /\ "phrase" \in b               -> "phrasefreq"
    [] m = "ColumnWordTokenFront" /\ "dict-front" \in b                -> "front"
    [] m = "ColumnWordTokenAffix" /\ "affix-token" \in b               -> "affix"
    [] OTHER                                                           -> "none"

\* Mutant: the composite is looked for before its variants.
TokenKindPinned(m, b) ==
  LET word == "word-token" \in b
  IN  IF word /\ CompositeKind(m) # "none" THEN CompositeKind(m)
      ELSE IF word /\ VariantKind(m, b) # "none" THEN VariantKind(m, b)
      ELSE OtherKind(m, b)

\* A variant has to be recognised before the composite it stands on.
TokenKind(m, b) ==
  LET word == "word-token" \in b
  IN  IF word /\ VariantKind(m, b) # "none" THEN VariantKind(m, b)
      ELSE IF word /\ CompositeKind(m) # "none" THEN CompositeKind(m)
      ELSE OtherKind(m, b)

Stems(m, b) == "stem" \in b /\ m = "Stem"
Lzbe(m, b)  == "grammar" \in b /\ m = "Lzbe"

GrammarMode(m, b) ==
  IF "grammar" \notin b THEN "none"
  ELSE CASE m = "Grammar"         -> "verbatim"
         [] m = "GrammarMtf"      -> "mtf"
         [] m = "GrammarMr"       -> "mr"
         [] m = "GrammarRrank"    -> "rrank"
         [] m = "GrammarFirstUse" -> "firstuse"
         [] m = "GrammarOneShot"  -> "oneshot"
         [] OTHER                 -> "none"

-----------------------------------------------------------------------------
(* The order of the pages. *)

ReorderKind(m, b) ==
  IF "reorder" \notin b THEN "none"
  ELSE CASE m = "ReorderId"           -> "identity"
         [] m = "ReorderTitle"        -> "title"
         [] m = "ReorderSize"         -> "size"
         [] m = "ReorderStruct"       -> "struct"
         [] m = "ReorderMinHash"      -> "minhash"
         [] m = "ReorderGreedy"       -> "greedy"
         [] m = "ReorderTemplate"     -> "template"
         [] m = "ReorderShuffle"      -> "shuffle"
         [] m = "ReorderCategory"     -> "category"
         [] m = "ReorderTemplateKey"  -> "templatekey"
         [] m = "ReorderCategorySet"  -> "categoryset"
         [] m = "ReorderFullResidual" -> "fullresidual"
         [] m \in {"ReorderFull", "Residual", "ResidualCtl"} \cup Variants -> "full"
         [] OTHER                     -> "none"

Reorders(m, b) == ReorderKind(m, b) # "none"
ReorderParent  == "Sse3"

-----------------------------------------------------------------------------
(* The parts of the model. *)

Info(m, b) ==
  IF "info-inherit" \notin b THEN "none"
  ELSE IF m \in {"InfoInherit", "AlphabetPermInfo"} THEN "inherit"
  ELSE IF m = "InfoUnrelated" THEN "unrelated"
  ELSE "none"

\* The shortest match of the long-distance tier, 0 without one.
Match2Min(m, b) ==
  IF "long-match" \notin b THEN 0
  ELSE CASE m \in OnPhase4Parent \cup {"LongMatch8"} -> 8
         [] m = "LongMatch6"  -> 6
         [] m = "LongMatch12" -> 12
         [] m = "LongMatch16" -> 16
         [] m = "LongMatch24" -> 24
         [] OTHER             -> 0

\* The sparse tiers, as shortest match and gap.
SparseTiers(m, b) ==
  IF "sparse-match" \notin b THEN {}
  ELSE CASE m \in OnPhase4Parent \cup {"SparseMatch4g1"} -> {<<4, 1>>}
         [] m = "SparseMatch6g1" -> {<<6, 1>>}
         [] m = "SparseMatch6g2" -> {<<6, 2>>}
         [] OTHER                -> {}

RepOffsets(m, b) ==
  IF "rep-state" \notin b THEN 0
  ELSE CASE m = "RepState1" -> 1
         [] m = "RepState2" -> 2
         [] m = "RepState3" -> 3
         [] m = "RepState4" -> 4
         [] OTHER           -> 0

\* A mechanism or its control.
MatchByteKind(m, b) ==
  IF "match-byte" \notin b THEN "none"
  ELSE IF m \in OnPhase4Parent \cup {"MatchByte"} THEN "real"
  ELSE IF m = "MatchByteConst" THEN "control"
  ELSE "none"

DistMatch(m, b) == "dist-match" \in b /\ m = "DistMatch"

WordClassKind(m, b) ==
  IF "word-class" \notin b THEN "none"
  ELSE IF m = "WordClass" THEN "real"
  ELSE IF m = "WordClassConst" THEN "control"
  ELSE "none"

StateMapKind(m, b) ==
  IF "state-map" \notin b THEN "none"
  ELSE IF m = "StateMap" THEN "real"
  ELSE IF m = "StateMapCtl" THEN "control"
  ELSE "none"

StateMapRep(m, b) == "state-map" \in b /\ m = "StateMapRep"

Sse3Kind(m, b) ==
  IF "sse-3" \notin b THEN "none"
  ELSE IF m = "Sse3" THEN "real"
  ELSE IF m = "Sse3Ctl" THEN "control"
  ELSE "none"
=============================================================================
