---------------------------- MODULE CodecSession ----------------------------
(***************************************************************************)
(* One file through encode_tuned() of one build of the program and the     *)
(* memory guard and decode() of another, in src/src/archive.rs.  What the  *)
(* two agree on beforehand is the method's id, the tune byte, the length   *)
(* and the stored permutation; the layers on the text and the model each   *)
(* side works out for itself from these and from its own features.  The    *)
(* decoder also gets archives nobody encoded.                              *)
(***************************************************************************)
EXTENDS ModelConfig

CONSTANTS
  Sessions,    \* [enc, dec, methods]: two builds and what is encoded between them
  Decoders,    \* the builds that get foreign archives
  Tunes,       \* tune bytes
  Lengths      \* lengths of the stream that is coded

MAX_OUTPUT == 2000000000

\* What the accepted configuration is built with.
AcceptedFeatures ==
  {"struct-hoist", "word-token", "long-match", "sparse-match", "match-byte", "sse-3",
   "reorder", "tune-table"}

\* Two different builds, and the scored build, are asked for the accepted
\* method only; the calibration rates are not an axis then.
Accepting(b) == AcceptedFeatures \subseteq b /\ "apm-tune" \notin b

\* What the features of Cargo.toml bring with them.
Closed(b) ==
  /\ b \cap {"id-order", "first-use", "subword", "vocab-price"} # {} => "word-token" \in b
  /\ "isse" \in b => "sse-3" \in b

ASSUME SessionsAssumption ==
  \A s \in Sessions :
    /\ s.methods \subseteq MethodNames /\ Closed(s.enc) /\ Closed(s.dec)
    /\ s.enc # s.dec \/ "submission" \in s.enc =>
         s.methods = {ACCEPTED_METHOD} /\ Accepting(s.enc) /\ Accepting(s.dec)
ASSUME TunesAssumption   == Tunes \subseteq 0 .. 255
ASSUME LengthsAssumption == Lengths \subseteq Nat

VARIABLES
  stage,
  enc, dec,   \* the features of the two builds
  asked,      \* the method the encoder was asked for
  method,     \* the method in force on the side that runs
  layers,     \* the formats the text is wrapped in, the outermost last
  at,         \* the layer that is next
  archive,    \* [id, tune, n, perm]
  written,    \* the encoder's model
  approved,   \* what the guard made of the header
  built       \* the decoder's model

vars == <<stage, enc, dec, asked, method, layers, at, archive, written, approved, built>>

None == <<>>
Refused == [ok |-> FALSE, units |-> 0]

-----------------------------------------------------------------------------
(* The layers and their formats; None where there is no layer. *)

Layers == <<"lzbe", "grammar", "stem", "hoist", "case", "token", "perm">>

\* Mutant: hoisting is undone before the case marks are.
PeelOrderSwapped == <<"perm", "token", "hoist", "case", "stem", "grammar", "lzbe">>

PeelOrder == Reverse(Layers)

LzbeFormat(m, b)  == IF Lzbe(m, b) THEN <<"lzbe">> ELSE None
StemFormat(m, b)  == IF Stems(m, b) THEN <<"stem">> ELSE None
HoistFormat(m, b) == IF Hoists(m, b) THEN <<"hoist">> ELSE None

GrammarWriter(m, b) ==
  CASE GrammarMode(m, b) = "none"     -> None
    [] GrammarMode(m, b) = "firstuse" -> <<"grammar", "inline">>
    [] OTHER                          -> <<"grammar", "table">>

GrammarReader(m, b) ==
  IF GrammarMode(m, b) = "firstuse" THEN <<"grammar", "inline">>
  ELSE IF GrammarMode(m, b) # "none" THEN <<"grammar", "table">> ELSE None

CaseFormat(m, b) == IF CaseKind(m, b) = "none" THEN None ELSE <<"case", CaseKind(m, b)>>

Tokenizes(b) == b \cap {"word-token", "word-token2"} # {}

\* A vocabulary chosen by price is written as a list with fixed ids.
TokenWriter(m, b) ==
  IF ~Tokenizes(b) THEN None
  ELSE IF PricedVocab(m, b) THEN <<"token", "list", "Static">>
  ELSE CASE TokenKind(m, b) = "none" -> None
         [] TokenKind(m, b) \in {"words", "reverse", "phrase", "phrasefreq"} ->
              <<"token", "list", "Static">>
         [] TokenKind(m, b) = "mtf"    -> <<"token", "list", "Mtf">>
         [] TokenKind(m, b) = "second" -> <<"token", "list", "MoveToSecond">>
         [] OTHER                      -> <<"token", TokenKind(m, b)>>

TokenReader(m, b) ==
  IF ~Tokenizes(b) THEN None
  ELSE CASE TokenKind(m, b) = "none" -> None
         [] TokenKind(m, b) \in {"v2", "front", "affix", "firstuse", "subword"} ->
              <<"token", TokenKind(m, b)>>
         [] TokenKind(m, b) = "mtf"    -> <<"token", "list", "Mtf">>
         [] TokenKind(m, b) = "second" -> <<"token", "list", "MoveToSecond">>
         [] OTHER                      -> <<"token", "list", "Static">>

PermWriter(m, b) == IF PermOf(m, b) = "none" THEN None ELSE <<"perm", PermOf(m, b)>>
PermReader(m, b) ==
  IF PermOf(m, b) = "none" \/ archive.perm = "none" THEN None ELSE <<"perm", archive.perm>>

Writer(layer, m, b) ==
  CASE layer = "lzbe"    -> LzbeFormat(m, b)
    [] layer = "grammar" -> GrammarWriter(m, b)
    [] layer = "stem"    -> StemFormat(m, b)
    [] layer = "hoist"   -> HoistFormat(m, b)
    [] layer = "case"    -> CaseFormat(m, b)
    [] layer = "token"   -> TokenWriter(m, b)
    [] layer = "perm"    -> PermWriter(m, b)

\* The permutation is the one the archive holds, if the method has one.
Reader(layer, m, b) ==
  CASE layer = "lzbe"    -> LzbeFormat(m, b)
    [] layer = "grammar" -> GrammarReader(m, b)
    [] layer = "stem"    -> StemFormat(m, b)
    [] layer = "hoist"   -> HoistFormat(m, b)
    [] layer = "case"    -> CaseFormat(m, b)
    [] layer = "token"   -> TokenReader(m, b)
    [] layer = "perm"    -> PermReader(m, b)

\* Reading a format that is not the outermost one leaves nothing to recover.
Garbage == << <<"garbage">> >>

Unwrap(format) ==
  IF format = None THEN layers
  ELSE IF layers # <<>> /\ layers[Len(layers)] = format THEN SubSeq(layers, 1, Len(layers) - 1)
  ELSE Garbage

-----------------------------------------------------------------------------
(* encode_tuned. *)

\* The pages in another order, or the parent in place of the method.
PrepareReorder ==
  /\ stage = "reorder"
  /\ \/ /\ Reorders(asked, enc)
        /\ method' = asked /\ layers' = << <<"pages">> >>
     \/ /\ Reorders(asked, enc)
        /\ method' = ReorderParent /\ layers' = <<>>
     \/ /\ ~Reorders(asked, enc)
        /\ method' = asked /\ layers' = <<>>
  /\ stage' = "wrap" /\ at' = 1
  /\ UNCHANGED <<enc, dec, asked, archive, written, approved, built>>

Wrap ==
  /\ stage = "wrap" /\ at <= Len(Layers)
  /\ LET format == Writer(Layers[at], method, enc)
     IN  layers' = IF format = None THEN layers ELSE Append(layers, format)
  /\ at' = at + 1
  /\ UNCHANGED <<stage, enc, dec, asked, method, archive, written, approved, built>>

\* Mutant: the header names the method that was asked for.
WriteArchiveAsked ==
  /\ stage = "wrap" /\ at > Len(Layers)
  /\ \E n \in Lengths :
       /\ archive' = [archive EXCEPT !.id = IdOf(asked), !.n = n, !.perm = PermOf(method, enc)]
       /\ written' = ModelFor(method, archive.tune, n, enc)
  /\ stage' = "guard"
  /\ UNCHANGED <<enc, dec, asked, method, layers, at, approved, built>>

\* The header has the method in force and the length of what is coded; the
\* length is not compared with MAX_OUTPUT.
WriteArchive ==
  /\ stage = "wrap" /\ at > Len(Layers)
  /\ \E n \in Lengths :
       /\ archive' = [archive EXCEPT !.id = IdOf(method), !.n = n, !.perm = PermOf(method, enc)]
       /\ written' = ModelFor(method, archive.tune, n, enc)
  /\ stage' = "guard"
  /\ UNCHANGED <<enc, dec, asked, method, layers, at, approved, built>>

-----------------------------------------------------------------------------
(* The guard and decode. *)

Known == MethodFromId(archive.id) # "none"

\* Mutant: the guard projects the accepted tune.
GuardAccepted ==
  /\ stage = "guard"
  /\ approved' =
       IF ~Known \/ archive.n > MAX_OUTPUT THEN Refused
       ELSE [ok |-> TRUE,
             units |-> MemoryUnits(ModelFor(MethodFromId(archive.id), 0, archive.n, dec), dec)]
  /\ stage' = "header"
  /\ UNCHANGED <<enc, dec, asked, method, layers, at, archive, written, built>>

\* guard_decode() projects the model of the header it peeks at.
Guard ==
  /\ stage = "guard"
  /\ approved' =
       IF ~Known \/ archive.n > MAX_OUTPUT THEN Refused
       ELSE [ok |-> TRUE,
             units |-> MemoryUnits(
               ModelFor(MethodFromId(archive.id), archive.tune, archive.n, dec), dec)]
  /\ stage' = "header"
  /\ UNCHANGED <<enc, dec, asked, method, layers, at, archive, written, built>>

\* A header nobody can decode, or without the permutation it needs.
Refuse ==
  /\ stage = "header"
  /\ \/ ~Known
     \/ archive.n > MAX_OUTPUT
     \/ Known /\ PermOf(MethodFromId(archive.id), dec) # "none" /\ archive.perm = "none"
  /\ stage' = "refused"
  /\ UNCHANGED <<enc, dec, asked, method, layers, at, archive, written, approved, built>>

Decode ==
  /\ stage = "header" /\ Known /\ archive.n <= MAX_OUTPUT
  /\ PermOf(MethodFromId(archive.id), dec) = "none" \/ archive.perm # "none"
  /\ method' = MethodFromId(archive.id)
  /\ built' = ModelFor(method', archive.tune, archive.n, dec)
  /\ stage' = "peel" /\ at' = 1
  /\ UNCHANGED <<enc, dec, asked, layers, archive, written, approved>>

Peel ==
  /\ stage = "peel" /\ at <= Len(PeelOrder)
  /\ layers' = Unwrap(Reader(PeelOrder[at], method, dec))
  /\ at' = at + 1
  /\ UNCHANGED <<stage, enc, dec, asked, method, archive, written, approved, built>>

\* The pages are sorted last.
Unreorder ==
  /\ stage = "peel" /\ at > Len(PeelOrder)
  /\ layers' = Unwrap(IF Reorders(method, dec) THEN <<"pages">> ELSE None)
  /\ stage' = "done"
  /\ UNCHANGED <<enc, dec, asked, method, at, archive, written, approved, built>>

-----------------------------------------------------------------------------
NoModel == [specs |-> <<>>]

Blank == method = "none" /\ layers = <<>> /\ at = 1
          /\ written = NoModel /\ approved = Refused /\ built = NoModel

EncodeInit ==
  /\ stage = "reorder"
  /\ \E s \in Sessions : enc = s.enc /\ dec = s.dec /\ asked \in s.methods
  /\ \E t \in Tunes : archive = [id |-> 0, tune |-> t, n |-> 0, perm |-> "none"]
  /\ Blank

\* Any header that starts with the magic.
ForeignInit ==
  /\ stage = "guard"
  /\ dec \in Decoders /\ enc = {} /\ asked = "none"
  /\ archive \in [id : 0 .. 255, tune : Tunes, n : Lengths, perm : {"none", "freq"}]
  /\ Blank

Init == EncodeInit \/ ForeignInit

Next ==
  \/ PrepareReorder \/ Wrap \/ WriteArchive
  \/ Guard \/ Refuse \/ Decode \/ Peel \/ Unreorder

Spec == Init /\ [][Next]_vars

-----------------------------------------------------------------------------
(* Properties. *)

FromEncoder == asked # "none"

\* The decoder predicts with the very model the encoder coded with, roster,
\* table sizes, rates and all, though a downgraded method was asked for under
\* another name, and though one side may be the scored build with its own
\* chain ("the stub's archive must be byte-identical to the research
\* driver's").
ModelsAgree == FromEncoder /\ stage \in {"peel", "done"} => built = written

\* Every layer an encoder puts on is taken off by its own inverse, in the
\* right order, whatever the features of the build make of the method, and
\* the text is bare at the end.
LayersUndone == FromEncoder /\ stage = "done" => layers = <<>>

\* The guard has judged the very model that is then built, and turns away no
\* header that is decoded; what an encoder wrote is refused only for being
\* too long.
GuardAgrees ==
  /\ stage \in {"peel", "done"} => approved = [ok |-> TRUE, units |-> MemoryUnits(built, dec)]
  /\ stage = "refused" /\ FromEncoder => archive.n > MAX_OUTPUT /\ ~approved.ok

\* No table of a model has more than 2 ^ bits slots.
Bounded(c, bits) ==
  /\ \A k \in DOMAIN c.specs : c.specs[k].bits <= bits
  /\ \A k \in DOMAIN c.matches : c.matches[k].bits <= bits

\* Whatever a header says, no table of the decoder's model has more than
\* eight times the slots its length calls for ("the geometry of any archive
\* is bounded").
GeometryBounded ==
  stage \in {"peel", "done"} => Bounded(built, TableBits(archive.n) + MAX_TABLE_SCALE)

\* "The accepted configuration is also the worst case the memory guard has to
\* cover" (context/mod.rs:1619-1620, 1695-1697): in the scored build no method
\* or tune byte a header may name makes a larger model than the accepted ones
\* do for the same length, which is what projected_decode() allows for.  In a
\* research build it is not so: its screens add tables of their own.
AcceptedIsWorst ==
  stage \in {"peel", "done"} /\ "submission" \in dec =>
    MemoryUnits(built, dec)
      <= MemoryUnits(ModelFor(ACCEPTED_METHOD, ACCEPTED_TUNE, archive.n, dec), dec)

-----------------------------------------------------------------------------
(* Experiments: a mechanism and its control. *)

\* The features of the mechanisms that are measured.
MechanismFeatures ==
  AcceptedFeatures \cup
  {"alphabet-perm", "info-inherit", "case-model", "word-token2", "id-order", "first-use",
   "subword", "vocab-price", "rep-state", "dist-match", "stem", "word-class", "phrase",
   "dict-front", "affix-token", "grammar", "state-map", "isse", "collision", "ppm"}

\* All that a method decides.
Parts(m, tune, n, b) ==
  LET c == ModelFor(m, tune, n, b)
  IN  [order |-> ReorderKind(m, b), lzbe |-> Lzbe(m, b), grammar |-> GrammarMode(m, b),
       stem |-> Stems(m, b), hoist |-> Hoists(m, b), case |-> CaseKind(m, b),
       token |-> TokenKind(m, b),
       price |-> IF PricedVocab(m, b) THEN m ELSE "none", perm |-> PermOf(m, b),
       specs |-> c.specs, matches |-> c.matches, rep |-> c.rep, dist |-> c.dist,
       apm3 |-> c.apm3, collision |-> c.collision, ppm |-> c.ppm,
       residual |-> c.residual, info |-> c.info]

\* Two methods differ in one part, and not in the width of their mixers.
DifferInOne(m, c, tune, n, b) ==
  LET p == Parts(m, tune, n, b)
      q == Parts(c, tune, n, b)
  IN  /\ Cardinality({x \in DOMAIN p : p[x] # q[x]}) = 1
      /\ MixerWidth(ModelFor(m, tune, n, b)) = MixerWidth(ModelFor(c, tune, n, b))

\* What the comments on the methods say is compared with what.
Controls ==
  {<<"AlphabetRandom", "AlphabetPerm">>, <<"InfoUnrelated", "InfoInherit">>,
   <<"ColumnShuffled", "Column">>, <<"ColumnNoLine", "Column">>, <<"CaseMark", "Case">>,
   <<"ColumnCaseMark", "ColumnCase">>, <<"WordTokenReverse", "WordToken">>,
   <<"ColumnWordTokenReverse", "ColumnWordToken">>, <<"LongMatch6", "LongMatch8">>,
   <<"MatchByteConst", "MatchByte">>, <<"WordClassConst", "WordClass">>,
   <<"ColumnWordTokenPhraseFreq", "ColumnWordTokenPhrase">>, <<"GrammarMtf", "Grammar">>,
   <<"GrammarMr", "Grammar">>, <<"GrammarFirstUse", "Grammar">>, <<"StateMapCtl", "StateMap">>,
   <<"StateMapRep", "Phase4">>, <<"Sse3Ctl", "Sse3">>, <<"Sparse4g1Ctl", "Sparse4g1">>,
   <<"Sparse4g1Rep", "Phase4">>, <<"IcmCtl", "Icm">>, <<"IndirectChain", "Icm">>,
   <<"CollisionCtl", "Collision">>, <<"PpmCtl", "Ppm">>, <<"StemModelCtl", "StemModel">>,
   <<"IsseCtl", "Isse">>, <<"ReorderId", "Phase6">>, <<"ReorderShuffle", "ReorderFull">>,
   <<"ResidualCtl", "Residual">>, <<"Residual", "ReorderFull">>,
   <<"ResidualMoveToSecond", "ResidualMtf">>, <<"ResidualPriceFilter", "ResidualPriced">>}

\* The archive of an arm differs from the one its control makes of the same
\* text in exactly the mechanism that is measured, in a build that has them
\* all: same layers or same model, and a mixer of the same width.
ArmsComparable ==
  FromEncoder /\ stage = "guard" /\ MechanismFeatures \subseteq enc =>
    \A p \in Controls :
      p[1] = asked /\ method = asked => DifferInOne(asked, p[2], archive.tune, archive.n, enc)

\* Likewise the variants of the accepted composite ("the accepted composite
\* plus a different token id assignment").
VariantsComparable ==
  /\ FromEncoder /\ stage = "guard"
  /\ MechanismFeatures \subseteq enc /\ asked \in Variants /\ method = asked
  => DifferInOne(asked, ACCEPTED_METHOD, archive.tune, archive.n, enc)
=============================================================================
