------------------------- MODULE CodecSessionProofs -------------------------
(***************************************************************************)
(* What an encoder and a decoder work out for themselves agrees, for every *)
(* set of builds, tune byte and length; and no header makes a decoder      *)
(* build tables beyond a bound that depends on the length alone.           *)
(***************************************************************************)
EXTENDS CodecSession, SequenceTheorems, FiniteSetTheorems, TLAPS

-----------------------------------------------------------------------------
(* Methods and their ids.                                                  *)

LEMMA IdFacts ==
  ASSUME NEW m \in MethodNames
  PROVE  /\ IdOf(m) \in Int
         /\ MethodFromId(IdOf(m)) = m
PROOF
  <1>1. PICK ids : ids = Ids
    OBVIOUS
  <1>2. PICK n \in Nat : DOMAIN ids = 1 .. n
    BY <1>1 DEF Ids
  <1>3. PICK k \in DOMAIN ids : ids[k] = m
    BY <1>1 DEF MethodNames
  <1>4. PICK c : c = CHOOSE x \in DOMAIN ids : ids[x] = m
    OBVIOUS
  <1>5. c \in DOMAIN ids /\ ids[c] = m
    BY <1>3, <1>4
  <1>6. c \in Int /\ IdOf(m) = c - 1
    BY <1>1, <1>2, <1>4, <1>5 DEF IdOf
  <1>7. (c - 1) + 1 = c
    BY <1>6
  <1> QED
    BY <1>1, <1>5, <1>6, <1>7 DEF MethodFromId

LEMMA ParentIsMethod == ReorderParent \in MethodNames /\ ReorderParent # "none"
  BY DEF ReorderParent, MethodNames, Ids

LEMMA NoneIsNoMethod == "none" \notin MethodNames
  BY DEF MethodNames, Ids

-----------------------------------------------------------------------------
(* What the two sides work out of the method.                              *)

(* The builds are one, or both make the accepted composite and are asked   *)
(* for it or for its parent.                                               *)
Paired(m, e, d) ==
  /\ Closed(e)
  /\ \/ e = d
     \/ Accepting(e) /\ Accepting(d) /\ m \in {"Residual", "Sse3"}

LayerNames == {"lzbe", "grammar", "stem", "hoist", "case", "token", "perm"}

LEMMA TokenFormat ==
  ASSUME NEW m, NEW b, Closed(b)
  PROVE  TokenWriter(m, b) = TokenReader(m, b)
PROOF
  <1>1. CASE ~Tokenizes(b)
    BY <1>1 DEF TokenWriter, TokenReader
  <1>2. CASE Tokenizes(b) /\ PricedVocab(m, b)
    <2>1. "word-token" \in b /\ m \in {"ResidualPriced", "ResidualPriceFilter"}
      BY <1>2 DEF Closed, PricedVocab
    <2>2. TokenKind(m, b) = "reverse"
      BY <1>2, <2>1 DEF TokenKind, VariantKind
    <2> QED
      BY <1>2, <2>2 DEF TokenWriter, TokenReader
  <1>3. CASE Tokenizes(b) /\ ~PricedVocab(m, b)
    <2>1. TokenKind(m, b) \in {"none", "words", "reverse", "phrase", "phrasefreq", "mtf",
                               "second", "v2", "front", "affix", "firstuse", "subword"}
      <3>1. VariantKind(m, b) \in {"none", "mtf", "second", "reverse", "affix", "firstuse", "subword"}
        BY DEF VariantKind
      <3>2. CompositeKind(m) \in {"none", "words", "reverse"}
        BY DEF CompositeKind
      <3>3. OtherKind(m, b) \in {"none", "v2", "phrase", "phrasefreq", "front", "affix"}
        BY DEF OtherKind
      <3> QED
        BY <3>1, <3>2, <3>3 DEF TokenKind
    <2> QED
      BY <1>3, <2>1 DEF TokenWriter, TokenReader
  <1> QED
    BY <1>1, <1>2, <1>3

LEMMA AcceptedFormats ==
  ASSUME NEW m \in {"Residual", "Sse3"}, NEW b, Accepting(b)
  PROVE  /\ ~Lzbe(m, b) /\ GrammarMode(m, b) = "none" /\ ~Stems(m, b)
         /\ Hoists(m, b) /\ CaseKind(m, b) = "none" /\ PermOf(m, b) = "none"
         /\ Tokenizes(b) /\ ~PricedVocab(m, b) /\ TokenKind(m, b) = "reverse"
         /\ Reorders(m, b) <=> m = "Residual"
PROOF
  <1>1. {"struct-hoist", "word-token", "reorder"} \subseteq b
    BY DEF Accepting, AcceptedFeatures
  <1>2. m \in OnPhase4Parent /\ m \notin Variants
    BY DEF OnPhase4Parent, Variants, ReorderFamily
  <1>3. /\ ~Lzbe(m, b) /\ GrammarMode(m, b) = "none" /\ ~Stems(m, b)
        /\ CaseKind(m, b) = "none" /\ PermOf(m, b) = "none" /\ ~PricedVocab(m, b)
    BY DEF Lzbe, GrammarMode, Stems, CaseKind, PermOf, PricedVocab
  <1>4. Hoists(m, b) /\ Tokenizes(b)
    BY <1>1, <1>2 DEF Hoists, Tokenizes
  <1>5. TokenKind(m, b) = "reverse"
    <2>1. VariantKind(m, b) = "none"
      BY <1>3 DEF VariantKind
    <2>2. CompositeKind(m) = "reverse"
      BY <1>2 DEF CompositeKind
    <2> QED
      BY <1>1, <2>1, <2>2 DEF TokenKind
  <1>6. Reorders(m, b) <=> m = "Residual"
    <2>1. CASE m = "Residual"
      BY <1>1, <2>1 DEF Reorders, ReorderKind
    <2>2. CASE m = "Sse3"
      BY <1>1, <1>2, <2>2 DEF Reorders, ReorderKind
    <2> QED
      BY <2>1, <2>2
  <1> QED
    BY <1>3, <1>4, <1>5, <1>6

(* The reader of every layer expects the format its writer makes.          *)
LEMMA SameFormat ==
  ASSUME NEW m, NEW e, NEW d, Paired(m, e, d), archive.perm = PermOf(m, e), NEW l \in LayerNames
  PROVE  Reader(l, m, d) = Writer(l, m, e)
PROOF
  <1>1. CASE e = d
    <2>1. TokenReader(m, d) = TokenWriter(m, e)
      BY <1>1, TokenFormat DEF Paired
    <2>2. PermReader(m, d) = PermWriter(m, e)
      BY <1>1 DEF PermReader, PermWriter
    <2>3. GrammarReader(m, d) = GrammarWriter(m, e)
      BY <1>1 DEF GrammarReader, GrammarWriter
    <2> QED
      BY <1>1, <2>1, <2>2, <2>3 DEF LayerNames, Reader, Writer
  <1>2. CASE Accepting(e) /\ Accepting(d) /\ m \in {"Residual", "Sse3"}
    <2>1. LzbeFormat(m, d) = LzbeFormat(m, e) /\ StemFormat(m, d) = StemFormat(m, e)
          /\ HoistFormat(m, d) = HoistFormat(m, e) /\ CaseFormat(m, d) = CaseFormat(m, e)
      BY <1>2, AcceptedFormats DEF LzbeFormat, StemFormat, HoistFormat, CaseFormat
    <2>2. GrammarReader(m, d) = GrammarWriter(m, e)
      BY <1>2, AcceptedFormats DEF GrammarReader, GrammarWriter
    <2>3. TokenReader(m, d) = TokenWriter(m, e)
      BY <1>2, AcceptedFormats DEF TokenReader, TokenWriter
    <2>4. PermReader(m, d) = PermWriter(m, e)
      BY <1>2, AcceptedFormats DEF PermReader, PermWriter
    <2> QED
      BY <2>1, <2>2, <2>3, <2>4 DEF LayerNames, Reader, Writer
  <1> QED
    BY <1>1, <1>2 DEF Paired

LEMMA SameOrder ==
  ASSUME NEW m, NEW e, NEW d, Paired(m, e, d)
  PROVE  Reorders(m, d) <=> Reorders(m, e)
  BY AcceptedFormats DEF Paired

-----------------------------------------------------------------------------
(* The model the accepted composite, or its parent, is coded with.         *)
AcceptedConfig(m, n) ==
  LET byte == WithMatchByte(WithRepOffsets(WithMatchTier(WithMatch2(
                WithColumn(ForSize(n), FALSE), 8), 4, 1), 0), FALSE)
  IN  WithInfo(WithRates(IF m = "Sse3" THEN WithSse3(byte)
                         ELSE WithResidual(WithSse3(byte), FALSE)), "none")

LEMMA AcceptedMatches ==
  ASSUME NEW m \in {"Residual", "Sse3"}, NEW b, Accepting(b), NEW c
  PROVE  Matched(c, m, b) =
           WithMatchByte(WithRepOffsets(WithMatchTier(WithMatch2(c, 8), 4, 1), 0), FALSE)
PROOF
  <1>1. {"long-match", "sparse-match", "match-byte"} \subseteq b /\ m \in OnPhase4Parent
    BY DEF Accepting, AcceptedFeatures, OnPhase4Parent
  <1>2. Match2Min(m, b) = 8
    BY <1>1 DEF Match2Min
  <1>3. SparseTiers(m, b) = {<<4, 1>>}
    BY <1>1 DEF SparseTiers
  <1>4. RepOffsets(m, b) = 0
    BY DEF RepOffsets
  <1>5. MatchByteKind(m, b) = "real"
    BY <1>1 DEF MatchByteKind
  <1>6. Match2d(c, m, b) = WithMatch2(c, 8)
    BY <1>2 DEF Match2d
  <1>7. \A d : Sparsed(d, m, b) = WithMatchTier(d, 4, 1)
    <2>1. PICK t : t = CHOOSE u \in SparseTiers(m, b) : TRUE
      OBVIOUS
    <2>2. t = <<4, 1>>
      BY <1>3, <2>1
    <2>3. t[1] = 4 /\ t[2] = 1
      BY <2>2
    <2> QED
      BY <1>3, <2>1, <2>3 DEF Sparsed
  <1>8. \A d : MatchByted(d, m, b) = WithMatchByte(d, FALSE)
    BY <1>5 DEF MatchByted
  <1> QED
    BY <1>4, <1>6, <1>7, <1>8 DEF Matched

LEMMA AcceptedModel ==
  ASSUME NEW m \in {"Residual", "Sse3"}, NEW b, Accepting(b), NEW n
  PROVE  /\ ScoredConfig(m, n, b) = AcceptedConfig(m, n)
         /\ Config(m, n, b) = AcceptedConfig(m, n)
PROOF
  <1>1. ScoredConfig(m, n, b) = AcceptedConfig(m, n)
    BY AcceptedMatches DEF ScoredConfig, AcceptedConfig
  <1>2. "sse-3" \in b
    BY DEF Accepting, AcceptedFeatures
  <1>3. Sized(m, n) = ForSize(n)
    BY DEF Sized
  <1>4. \A c : Columned(c, m) = WithColumn(c, FALSE)
    BY DEF Columned, OnPhase4Parent
  <1>5. \A c : Distanced(c, m, b) = c
    BY DEF Distanced, DistMatch
  <1>6. \A c : Classed(c, m, b) = c
    BY DEF Classed, WordClassKind
  <1>7. \A c : Stated(c, m, b) = c
    <2>1. StateMapKind(m, b) = "none" /\ ~StateMapRep(m, b)
      BY DEF StateMapKind, StateMapRep
    <2> QED
      BY <2>1 DEF Stated
  <1>8. \A c : Calibrated(c, m, b) = WithSse3(c)
    <2>1. m # "Isse" /\ m # "IsseCtl"
      OBVIOUS
    <2>2. Sse3Kind(m, b) = "real" \/ m \in Base6 \ {"Isse", "IsseCtl"}
      BY <1>2, <2>1 DEF Sse3Kind, Base6
    <2>3. Sse3Kind(m, b) # "control"
      BY DEF Sse3Kind
    <2> QED
      BY <2>1, <2>2, <2>3 DEF Calibrated
  <1>9. \A c : Screened(c, m) = IF m = "Sse3" THEN c ELSE WithResidual(c, FALSE)
    <2>1. "Sse3" \notin {"Residual"} \cup Variants
      BY DEF Variants
    <2>2. CASE m = "Residual"
      BY <2>2 DEF Screened
    <2>3. CASE m = "Sse3"
      BY <2>1, <2>3 DEF Screened
    <2> QED
      BY <2>2, <2>3
  <1>10. Info(m, b) = "none"
    BY DEF Info
  <1>11. Config(m, n, b) = AcceptedConfig(m, n)
    <2>1. PICK c : c = Matched(WithColumn(ForSize(n), FALSE), m, b)
      OBVIOUS
    <2>2. Config(m, n, b) = WithInfo(WithRates(Screened(WithSse3(c), m)), "none")
      BY <1>3, <1>4, <1>5, <1>6, <1>7, <1>8, <1>10, <2>1, Zenon DEF Config
    <2>3. c = WithMatchByte(WithRepOffsets(WithMatchTier(WithMatch2(
                WithColumn(ForSize(n), FALSE), 8), 4, 1), 0), FALSE)
      BY <2>1, AcceptedMatches
    <2> QED
      BY <1>9, <2>2, <2>3 DEF AcceptedConfig
  <1> QED
    BY <1>1, <1>11

LEMMA SameModel ==
  ASSUME NEW m, NEW e, NEW d, Paired(m, e, d), NEW t, NEW n
  PROVE  ModelFor(m, t, n, d) = ModelFor(m, t, n, e)
PROOF
  <1>1. CASE e = d
    BY <1>1
  <1>2. CASE Accepting(e) /\ Accepting(d) /\ m \in {"Residual", "Sse3"}
    <2>1. ModelFor(m, t, n, d) = WithTune(AcceptedConfig(m, n), t, d)
      BY <1>2, AcceptedModel DEF ModelFor
    <2>2. ModelFor(m, t, n, e) = WithTune(AcceptedConfig(m, n), t, e)
      BY <1>2, AcceptedModel DEF ModelFor
    <2>3. /\ "apm-tune" \notin d /\ "apm-tune" \notin e
          /\ "tune-table" \in d /\ "tune-table" \in e
      BY <1>2 DEF Accepting, AcceptedFeatures
    <2>4. WithTune(AcceptedConfig(m, n), t, d) = WithTune(AcceptedConfig(m, n), t, e)
      BY <2>3, Zenon DEF WithTune
    <2> QED
      BY <2>1, <2>2, <2>4
  <1> QED
    BY <1>1, <1>2 DEF Paired

-----------------------------------------------------------------------------
(* The session.                                                            *)

Formats(m, b) == {<<"pages">>} \cup {Writer(Layers[k], m, b) : k \in 1 .. 7}

Put(s, format) == IF format = None THEN s ELSE Append(s, format)

(* h[k] is the stack of formats when n >= k layers have been put on.       *)
Stacks(h, n) ==
  /\ h \in [0 .. 7 -> Seq(Formats(method, enc))]
  /\ h[0] = IF Reorders(method, enc) THEN << <<"pages">> >> ELSE <<>>
  /\ \A k \in 1 .. n : h[k] = Put(h[k - 1], Writer(Layers[k], method, enc))

Wrapped(n, k) == \E h : Stacks(h, n) /\ layers = h[k]

Announced ==
  /\ archive.id = IdOf(method)
  /\ archive.perm = PermOf(method, enc)
  /\ written = ModelFor(method, archive.tune, archive.n, enc)

Asked == \E s \in Sessions : enc = s.enc /\ dec = s.dec /\ asked \in s.methods

Agreed == method \in MethodNames /\ Paired(method, enc, dec)

TypeOK ==
  /\ stage \in {"reorder", "wrap", "guard", "header", "refused", "peel", "done"}
  /\ stage \in {"reorder", "wrap"} => FromEncoder
  /\ at \in 1 .. 8
  /\ archive \in [id : Int, tune : 0 .. 255, n : Nat, perm : {"none", "freq", "random"}]

(* What the two sides know at each stage.                                  *)
SessionInv ==
  /\ stage = "reorder" => Asked /\ at = 1 /\ layers = <<>>
  /\ stage # "reorder" => Agreed
  /\ stage = "wrap" => Wrapped(at - 1, at - 1)
  /\ stage \in {"guard", "header"} => Wrapped(7, 7) /\ Announced
  /\ stage = "peel" =>
       /\ Wrapped(7, 8 - at) /\ Announced
       /\ built = ModelFor(method, archive.tune, archive.n, dec)
  /\ stage = "done" => layers = <<>> /\ built = written

(* What the guard has made of the header.                                  *)
GuardInv ==
  /\ stage = "header" =>
       approved = IF ~Known \/ archive.n > MAX_OUTPUT THEN Refused
                  ELSE [ok |-> TRUE,
                        units |-> MemoryUnits(
                          ModelFor(MethodFromId(archive.id), archive.tune, archive.n, dec), dec)]
  /\ GuardAgrees

IInv == TypeOK /\ (FromEncoder => SessionInv) /\ GuardInv

LEMMA SessionPaired ==
  ASSUME Asked, NEW m \in {asked, ReorderParent}
  PROVE  m \in MethodNames /\ Paired(m, enc, dec)
PROOF
  <1>1. PICK s \in Sessions : enc = s.enc /\ dec = s.dec /\ asked \in s.methods
    BY DEF Asked
  <1>2. asked \in MethodNames /\ Closed(enc)
    BY <1>1, SessionsAssumption
  <1>3. CASE enc = dec
    BY <1>2, <1>3, ParentIsMethod DEF Paired
  <1>4. CASE enc # dec
    <2>1. asked = ACCEPTED_METHOD /\ Accepting(enc) /\ Accepting(dec)
      BY <1>1, <1>4, SessionsAssumption
    <2> QED
      BY <1>2, <2>1, ParentIsMethod DEF Paired, ACCEPTED_METHOD, ReorderParent
  <1> QED
    BY <1>3, <1>4

LEMMA LayerFacts ==
  ASSUME NEW k \in 1 .. 7
  PROVE  /\ Layers[k] \in LayerNames
         /\ PeelOrder[k] = Layers[8 - k]
PROOF
  <1>1. Len(Layers) = 7 /\ Layers[k] \in LayerNames
    BY DEF Layers, LayerNames
  <1>2. PeelOrder[k] = Layers[(Len(Layers) - k) + 1]
    BY <1>1 DEF PeelOrder, Reverse
  <1>3. (7 - k) + 1 = 8 - k
    OBVIOUS
  <1> QED
    BY <1>1, <1>2, <1>3

LEMMA Lengths7 == Len(Layers) = 7 /\ Len(PeelOrder) = 7
  BY DEF Layers, PeelOrder, Reverse

(* What is put on last comes off.                                          *)
LEMMA UnwrapPut ==
  ASSUME NEW S, NEW s \in Seq(S), NEW f \in S, layers = Put(s, f)
  PROVE  Unwrap(f) = s
PROOF
  <1>1. CASE f = None
    BY <1>1 DEF Unwrap, Put
  <1>2. CASE f # None
    <2>1. layers = Append(s, f)
      BY <1>2 DEF Put
    <2>2. layers # <<>> /\ Len(layers) = Len(s) + 1 /\ layers[Len(layers)] = f
      BY <2>1
    <2>3. SubSeq(layers, 1, Len(layers) - 1) = s
      BY <2>1
    <2> QED
      BY <1>2, <2>2, <2>3 DEF Unwrap
  <1> QED
    BY <1>1, <1>2

LEMMA PermFacts ==
  ASSUME NEW m, NEW b
  PROVE  PermOf(m, b) \in {"none", "freq", "random"}
  BY DEF PermOf

LEMMA InitInv == Init => IInv
PROOF
  <1>1. 1 \in 1 .. 8 /\ 0 \in Int /\ 0 \in Nat
    OBVIOUS
  <1>2. ASSUME EncodeInit PROVE IInv
    <2>1. stage = "reorder" /\ at = 1 /\ layers = <<>>
      BY <1>2 DEF EncodeInit, Blank
    <2>2. Asked
      BY <1>2 DEF EncodeInit, Asked
    <2>3. TypeOK
      <3>1. PICK t \in Tunes : archive = [id |-> 0, tune |-> t, n |-> 0, perm |-> "none"]
        BY <1>2 DEF EncodeInit
      <3>2. t \in 0 .. 255
        BY TunesAssumption
      <3>3. FromEncoder
        BY <2>2, SessionsAssumption, NoneIsNoMethod DEF Asked, FromEncoder
      <3> QED
        BY <1>1, <2>1, <3>1, <3>2, <3>3 DEF TypeOK
    <2> QED
      BY <2>1, <2>2, <2>3 DEF IInv, SessionInv, GuardInv, GuardAgrees
  <1>3. ASSUME ForeignInit PROVE IInv
    <2>1. stage = "guard" /\ at = 1 /\ ~FromEncoder
      BY <1>3 DEF ForeignInit, Blank, FromEncoder
    <2>2. TypeOK
      <3>1. archive \in [id : 0 .. 255, tune : Tunes, n : Lengths, perm : {"none", "freq"}]
        BY <1>3 DEF ForeignInit
      <3>2. archive \in [id : Int, tune : 0 .. 255, n : Nat, perm : {"none", "freq", "random"}]
        <4>1. PICK i \in 0 .. 255, t \in Tunes, n \in Lengths, p \in {"none", "freq"} :
                archive = [id |-> i, tune |-> t, n |-> n, perm |-> p]
          BY <3>1
        <4>2. i \in Int /\ t \in 0 .. 255 /\ n \in Nat /\ p \in {"none", "freq", "random"}
          BY TunesAssumption, LengthsAssumption
        <4> QED
          BY <4>1, <4>2
      <3> QED
        BY <1>1, <2>1, <3>2 DEF TypeOK
    <2> QED
      BY <2>1, <2>2 DEF IInv, GuardInv, GuardAgrees
  <1> QED
    BY <1>2, <1>3 DEF Init

LEMMA ReorderStep ==
  ASSUME IInv, PrepareReorder
  PROVE  IInv'
PROOF
  <1>1. stage = "reorder" /\ stage' = "wrap" /\ at' = 1
        /\ UNCHANGED <<enc, dec, asked, archive, written, approved, built>>
    BY DEF PrepareReorder
  <1>2. TypeOK'
    BY <1>1 DEF IInv, TypeOK, FromEncoder
  <1>3. GuardInv'
    BY <1>1 DEF GuardInv, GuardAgrees
  <1>4. ASSUME FromEncoder PROVE SessionInv'
    <2>1. Asked
      BY <1>1, <1>4 DEF IInv, SessionInv
    <2>2. method' \in {asked, ReorderParent}
      BY DEF PrepareReorder
    <2>3. Agreed'
      BY <1>1, <2>1, <2>2, SessionPaired DEF Agreed
    <2>4. layers' = IF Reorders(method', enc) THEN << <<"pages">> >> ELSE <<>>
      <3>1. ~Reorders(ReorderParent, enc)
        BY DEF Reorders, ReorderKind, ReorderParent, Variants
      <3> QED
        BY <3>1 DEF PrepareReorder
    <2>5. PICK h : h = [k \in 0 .. 7 |-> layers']
      OBVIOUS
    <2>6. layers' \in Seq(Formats(method', enc'))
      <3>1. PICK S : S = Formats(method', enc')
        OBVIOUS
      <3>2. <<"pages">> \in S
        BY <3>1 DEF Formats
      <3>3. << <<"pages">> >> \in Seq(S) /\ <<>> \in Seq(S)
        BY <3>2
      <3> QED
        BY <2>4, <3>1, <3>3
    <2>7. h \in [0 .. 7 -> Seq(Formats(method', enc'))] /\ h[0] = layers'
      BY <2>5, <2>6
    <2>8. Stacks(h, 0)'
      BY <1>1, <2>4, <2>7 DEF Stacks
    <2>9. Wrapped(0, 0)'
      BY <2>7, <2>8 DEF Wrapped
    <2> QED
      BY <1>1, <2>3, <2>9 DEF SessionInv
  <1>5. FromEncoder' => FromEncoder
    BY <1>1 DEF FromEncoder
  <1> QED
    BY <1>2, <1>3, <1>4, <1>5 DEF IInv

LEMMA WrapStep ==
  ASSUME IInv, Wrap
  PROVE  IInv'
PROOF
  <1>1. /\ stage = "wrap" /\ stage' = "wrap" /\ at <= 7 /\ at' = at + 1
        /\ UNCHANGED <<enc, dec, asked, method, archive, written, approved, built>>
    BY Lengths7 DEF Wrap
  <1>2. at \in 1 .. 7
    BY <1>1 DEF IInv, TypeOK, FromEncoder
  <1>3. TypeOK'
    BY <1>1, <1>2 DEF IInv, TypeOK, FromEncoder
  <1>4. GuardInv'
    BY <1>1 DEF GuardInv, GuardAgrees
  <1>5. ASSUME FromEncoder PROVE SessionInv'
    <2>1. PICK f : f = Writer(Layers[at], method, enc)
      OBVIOUS
    <2>2. layers' = Put(layers, f)
      BY <2>1 DEF Wrap, Put
    <2>3. PICK h : Stacks(h, at - 1) /\ layers = h[at - 1]
      BY <1>1, <1>5 DEF IInv, SessionInv, Wrapped
    <2>4. PICK S : S = Formats(method, enc)
      OBVIOUS
    <2>5. f \in S
      BY <1>2, <2>1, <2>4 DEF Formats
    <2>6. h \in [0 .. 7 -> Seq(S)] /\ h[at - 1] \in Seq(S)
      BY <1>2, <2>3, <2>4 DEF Stacks
    <2>7. layers' \in Seq(S)
      BY <2>2, <2>3, <2>5, <2>6 DEF Put
    <2>8. PICK g : g = [h EXCEPT ![at] = layers']
      OBVIOUS
    <2>9. g \in [0 .. 7 -> Seq(S)] /\ g[at] = layers'
          /\ \A k \in 0 .. 7 \ {at} : g[k] = h[k]
      BY <1>2, <2>6, <2>7, <2>8
    <2>10. ASSUME NEW k \in 1 .. at PROVE g[k] = Put(g[k - 1], Writer(Layers[k], method, enc))
      <3>1. k - 1 \in 0 .. 7 \ {at} /\ g[k - 1] = h[k - 1]
        BY <1>2, <2>9
      <3>2. CASE k = at
        BY <2>1, <2>2, <2>3, <2>9, <3>1, <3>2
      <3>3. CASE k \in 1 .. at - 1
        <4>1. g[k] = h[k]
          BY <1>2, <2>9, <3>3
        <4>2. h[k] = Put(h[k - 1], Writer(Layers[k], method, enc))
          BY <2>3, <3>3 DEF Stacks
        <4> QED
          BY <3>1, <4>1, <4>2
      <3> QED
        BY <1>2, <3>2, <3>3
    <2>11. g[0] = h[0]
      BY <1>2, <2>9
    <2>12. PICK n : n = at
      OBVIOUS
    <2>13. Stacks(g, n)'
      BY <1>1, <2>3, <2>4, <2>9, <2>10, <2>11, <2>12 DEF Stacks
    <2>14. Wrapped(n, n)'
      BY <2>9, <2>12, <2>13 DEF Wrapped
    <2>15. at' - 1 = n
      BY <1>1, <1>2, <2>12
    <2>16. Agreed
      BY <1>1, <1>5 DEF IInv, SessionInv
    <2> QED
      BY <1>1, <2>14, <2>15, <2>16 DEF SessionInv, Agreed
  <1>6. FromEncoder' => FromEncoder
    BY <1>1 DEF FromEncoder
  <1> QED
    BY <1>3, <1>4, <1>5, <1>6 DEF IInv

LEMMA WriteStep ==
  ASSUME IInv, WriteArchive
  PROVE  IInv'
PROOF
  <1>1. /\ stage = "wrap" /\ stage' = "guard" /\ at > 7
        /\ UNCHANGED <<enc, dec, asked, method, layers, at, approved, built>>
    BY Lengths7 DEF WriteArchive
  <1>2. at = 8
    BY <1>1 DEF IInv, TypeOK, FromEncoder
  <1>3. PICK n \in Lengths :
          /\ archive' = [archive EXCEPT !.id = IdOf(method), !.n = n, !.perm = PermOf(method, enc)]
          /\ written' = ModelFor(method, archive.tune, n, enc)
    BY DEF WriteArchive
  <1>4. GuardInv'
    BY <1>1 DEF GuardInv, GuardAgrees
  <1>5. archive \in [id : Int, tune : 0 .. 255, n : Nat, perm : {"none", "freq", "random"}]
    BY DEF IInv, TypeOK
  <1>6. /\ archive'.id = IdOf(method) /\ archive'.n = n /\ archive'.perm = PermOf(method, enc)
        /\ archive'.tune = archive.tune
    BY <1>3, <1>5
  <1>7. ASSUME FromEncoder PROVE SessionInv' /\ method \in MethodNames
    <2>1. Agreed /\ Wrapped(7, 7)
      BY <1>1, <1>2, <1>7 DEF IInv, SessionInv
    <2>2. Announced'
      BY <1>1, <1>3, <1>6 DEF Announced
    <2>3. Agreed' /\ Wrapped(7, 7)'
      BY <1>1, <2>1 DEF Agreed, Wrapped, Stacks
    <2> QED
      BY <1>1, <2>1, <2>2, <2>3 DEF SessionInv, Agreed
  <1>8. TypeOK'
    <2>1. n \in Nat /\ PermOf(method, enc) \in {"none", "freq", "random"}
      BY LengthsAssumption, PermFacts
    <2>2. IdOf(method) \in Int
      BY <1>1, <1>7, IdFacts DEF IInv, TypeOK
    <2>3. archive' \in [id : Int, tune : 0 .. 255, n : Nat, perm : {"none", "freq", "random"}]
      BY <1>3, <1>5, <2>1, <2>2
    <2> QED
      BY <1>1, <2>3 DEF IInv, TypeOK
  <1>9. FromEncoder' => FromEncoder
    BY <1>1 DEF FromEncoder
  <1> QED
    BY <1>4, <1>7, <1>8, <1>9 DEF IInv

LEMMA GuardStep ==
  ASSUME IInv, Guard
  PROVE  IInv'
PROOF
  <1>1. /\ stage = "guard" /\ stage' = "header"
        /\ UNCHANGED <<enc, dec, asked, method, layers, at, archive, written, built>>
    BY DEF Guard
  <1>2. TypeOK'
    BY <1>1 DEF IInv, TypeOK, FromEncoder
  <1>3. FromEncoder' => SessionInv'
    BY <1>1 DEF IInv, SessionInv, FromEncoder, Agreed, Announced, Wrapped, Stacks
  <1>4. GuardAgrees'
    BY <1>1 DEF GuardAgrees
  <1>5. GuardInv'
    BY <1>1, <1>4 DEF GuardInv, Guard, Known
  <1> QED
    BY <1>2, <1>3, <1>5 DEF IInv

(* An encoder's header names its method and has the permutation it needs.  *)
LEMMA HeaderFacts ==
  ASSUME Agreed, Announced
  PROVE  /\ Known /\ MethodFromId(archive.id) = method
         /\ PermOf(method, dec) = "none" \/ archive.perm # "none"
PROOF
  <1>1. MethodFromId(archive.id) = method
    BY IdFacts DEF Agreed, Announced
  <1>2. method # "none"
    BY NoneIsNoMethod DEF Agreed
  <1>3. PermOf(method, dec) = "none" \/ archive.perm # "none"
    <2>1. CASE enc = dec
      BY <2>1 DEF Announced
    <2>2. CASE enc # dec
      BY <2>2, AcceptedFormats DEF Agreed, Paired
    <2> QED
      BY <2>1, <2>2
  <1> QED
    BY <1>1, <1>2, <1>3 DEF Known

LEMMA RefuseStep ==
  ASSUME IInv, Refuse
  PROVE  IInv'
PROOF
  <1>1. /\ stage = "header" /\ stage' = "refused"
        /\ UNCHANGED <<enc, dec, asked, method, layers, at, archive, written, approved, built>>
    BY DEF Refuse
  <1>2. TypeOK'
    BY <1>1 DEF IInv, TypeOK, FromEncoder
  <1>3. FromEncoder' => SessionInv'
    BY <1>1 DEF IInv, SessionInv, FromEncoder, Agreed
  <1>4. ASSUME FromEncoder PROVE archive.n > MAX_OUTPUT /\ ~approved.ok
    <2>1. Known /\ MethodFromId(archive.id) = method
          /\ (PermOf(method, dec) = "none" \/ archive.perm # "none")
      BY <1>1, <1>4, HeaderFacts DEF IInv, SessionInv
    <2>2. archive.n > MAX_OUTPUT
      BY <2>1 DEF Refuse
    <2>3. approved = Refused
      BY <1>1, <2>2 DEF IInv, GuardInv
    <2> QED
      BY <2>2, <2>3 DEF Refused
  <1>5. GuardInv'
    BY <1>1, <1>4 DEF GuardInv, GuardAgrees, FromEncoder
  <1> QED
    BY <1>2, <1>3, <1>5 DEF IInv

LEMMA DecodeStep ==
  ASSUME IInv, Decode
  PROVE  IInv'
PROOF
  <1>1. /\ stage = "header" /\ stage' = "peel" /\ at' = 1
        /\ Known /\ archive.n <= MAX_OUTPUT
        /\ method' = MethodFromId(archive.id)
        /\ built' = ModelFor(method', archive.tune, archive.n, dec)
        /\ UNCHANGED <<enc, dec, asked, layers, archive, written, approved>>
    BY DEF Decode
  <1>2. TypeOK'
    BY <1>1 DEF IInv, TypeOK, FromEncoder
  <1>3. ASSUME FromEncoder PROVE SessionInv'
    <2>1. Agreed /\ Announced /\ Wrapped(7, 7)
      BY <1>1, <1>3 DEF IInv, SessionInv
    <2>2. method' = method
      BY <1>1, <2>1, HeaderFacts
    <2>3. Agreed' /\ Announced' /\ Wrapped(7, 7)'
      BY <1>1, <2>1, <2>2 DEF Agreed, Announced, Wrapped, Stacks
    <2>4. 8 - at' = 7
      BY <1>1
    <2>5. Wrapped(7, 8 - at)'
      BY <2>3, <2>4
    <2> QED
      BY <1>1, <2>3, <2>5 DEF SessionInv
  <1>4. approved = [ok |-> TRUE,
                    units |-> MemoryUnits(
                      ModelFor(MethodFromId(archive.id), archive.tune, archive.n, dec), dec)]
    <2>1. ~(archive.n > MAX_OUTPUT)
      BY <1>1 DEF IInv, TypeOK, MAX_OUTPUT
    <2> QED
      BY <1>1, <2>1 DEF IInv, GuardInv
  <1>5. approved' = [ok |-> TRUE, units |-> MemoryUnits(built', dec')]
    BY <1>1, <1>4
  <1>6. GuardInv'
    BY <1>1, <1>5 DEF GuardInv, GuardAgrees
  <1>7. FromEncoder' => FromEncoder
    BY <1>1 DEF FromEncoder
  <1> QED
    BY <1>2, <1>3, <1>6, <1>7 DEF IInv

LEMMA PeelStep ==
  ASSUME IInv, Peel
  PROVE  IInv'
PROOF
  <1>1. /\ stage = "peel" /\ stage' = "peel" /\ at <= 7 /\ at' = at + 1
        /\ layers' = Unwrap(Reader(PeelOrder[at], method, dec))
        /\ UNCHANGED <<enc, dec, asked, method, archive, written, approved, built>>
    BY Lengths7 DEF Peel
  <1>2. at \in 1 .. 7
    BY <1>1 DEF IInv, TypeOK, FromEncoder
  <1>3. TypeOK'
    BY <1>1, <1>2 DEF IInv, TypeOK, FromEncoder
  <1>4. GuardInv'
    BY <1>1 DEF IInv, GuardInv, GuardAgrees
  <1>5. ASSUME FromEncoder PROVE SessionInv'
    <2>1. Agreed /\ Announced /\ built = ModelFor(method, archive.tune, archive.n, dec)
      BY <1>1, <1>5 DEF IInv, SessionInv
    <2>2. PICK h : Stacks(h, 7) /\ layers = h[8 - at]
      BY <1>1, <1>5 DEF IInv, SessionInv, Wrapped
    <2>3. PICK n : n = 8 - at
      OBVIOUS
    <2>4. n \in 1 .. 7 /\ PeelOrder[at] = Layers[n] /\ Layers[n] \in LayerNames
      BY <1>2, <2>3, LayerFacts
    <2>5. PICK S : S = Formats(method, enc)
      OBVIOUS
    <2>6. PICK f : f = Writer(Layers[n], method, enc)
      OBVIOUS
    <2>7. f \in S
      BY <2>4, <2>5, <2>6 DEF Formats
    <2>8. Reader(PeelOrder[at], method, dec) = f
      BY <2>1, <2>4, <2>6, SameFormat DEF Agreed, Announced
    <2>9. h[n - 1] \in Seq(S) /\ layers = Put(h[n - 1], f)
      <3>1. n \in 1 .. 7 /\ n - 1 \in 0 .. 7
        BY <2>4
      <3>2. h[n - 1] \in Seq(S)
        BY <2>2, <2>5, <3>1 DEF Stacks
      <3>3. h[n] = Put(h[n - 1], Writer(Layers[n], method, enc))
        BY <2>2, <3>1 DEF Stacks
      <3> QED
        BY <2>2, <2>3, <2>6, <3>2, <3>3
    <2>10. layers' = h[n - 1]
      BY <1>1, <2>7, <2>8, <2>9, UnwrapPut
    <2>11. 8 - at' = n - 1
      BY <1>1, <1>2, <2>3
    <2>12. PICK k : k = n - 1
      OBVIOUS
    <2>13. Wrapped(7, k)'
      BY <1>1, <2>2, <2>10, <2>12 DEF Wrapped, Stacks
    <2>14. Agreed' /\ Announced'
      BY <1>1, <2>1 DEF Agreed, Announced
    <2> QED
      BY <1>1, <2>1, <2>11, <2>12, <2>13, <2>14 DEF SessionInv
  <1>6. FromEncoder' => FromEncoder
    BY <1>1 DEF FromEncoder
  <1> QED
    BY <1>3, <1>4, <1>5, <1>6 DEF IInv

LEMMA UnreorderStep ==
  ASSUME IInv, Unreorder
  PROVE  IInv'
PROOF
  <1>1. /\ stage = "peel" /\ stage' = "done" /\ at > 7
        /\ layers' = Unwrap(IF Reorders(method, dec) THEN <<"pages">> ELSE None)
        /\ UNCHANGED <<enc, dec, asked, method, at, archive, written, approved, built>>
    BY Lengths7 DEF Unreorder
  <1>2. at = 8
    BY <1>1 DEF IInv, TypeOK, FromEncoder
  <1>3. TypeOK'
    BY <1>1 DEF IInv, TypeOK, FromEncoder
  <1>4. GuardInv'
    BY <1>1 DEF IInv, GuardInv, GuardAgrees
  <1>5. ASSUME FromEncoder PROVE SessionInv'
    <2>1. Agreed /\ Announced /\ built = ModelFor(method, archive.tune, archive.n, dec)
      BY <1>1, <1>5 DEF IInv, SessionInv
    <2>2. PICK h : Stacks(h, 7) /\ layers = h[8 - at]
      BY <1>1, <1>5 DEF IInv, SessionInv, Wrapped
    <2>3. layers = IF Reorders(method, dec) THEN << <<"pages">> >> ELSE <<>>
      BY <1>2, <2>1, <2>2, SameOrder DEF Agreed, Stacks
    <2>4. layers' = <<>>
      <3>1. CASE Reorders(method, dec)
        BY <1>1, <2>3, <3>1 DEF Unwrap, None
      <3>2. CASE ~Reorders(method, dec)
        BY <1>1, <2>3, <3>2 DEF Unwrap
      <3> QED
        BY <3>1, <3>2
    <2>5. built = written
      BY <2>1, SameModel DEF Agreed, Announced
    <2> QED
      BY <1>1, <2>1, <2>4, <2>5 DEF SessionInv, Agreed
  <1>6. FromEncoder' => FromEncoder
    BY <1>1 DEF FromEncoder
  <1> QED
    BY <1>3, <1>4, <1>5, <1>6 DEF IInv

LEMMA StutterStep ==
  ASSUME IInv, UNCHANGED vars
  PROVE  IInv'
PROOF
  <1>1. /\ UNCHANGED <<stage, enc, dec, asked, method>>
        /\ UNCHANGED <<layers, at, archive, written, approved, built>>
    BY DEF vars
  <1>2. TypeOK'
    BY <1>1 DEF IInv, TypeOK, FromEncoder
  <1>3. FromEncoder' => SessionInv'
    BY <1>1 DEF IInv, SessionInv, FromEncoder, Asked, Agreed, Announced, Wrapped, Stacks
  <1>4. GuardInv'
    BY <1>1 DEF IInv, GuardInv, GuardAgrees, FromEncoder, Known
  <1> QED
    BY <1>2, <1>3, <1>4 DEF IInv

(* What both sides know of the session holds for every build, method, tune *)
(* byte and length.                                                        *)
THEOREM SessionInvariant == Spec => []IInv
PROOF
  <1>1. IInv /\ [Next]_vars => IInv'
    BY ReorderStep, WrapStep, WriteStep, GuardStep, RefuseStep, DecodeStep, PeelStep,
       UnreorderStep, StutterStep DEF Next
  <1> QED
    BY InitInv, <1>1, PTL DEF Spec

(* The decoder of one build makes the model the encoder of another coded   *)
(* with, for every pair of builds that both make the accepted composite    *)
(* and for every method within a build.                                    *)
THEOREM ModelsAgreeAlways == Spec => []ModelsAgree
PROOF
  <1>1. IInv => ModelsAgree
    BY SameModel DEF IInv, SessionInv, ModelsAgree, Agreed, Announced
  <1> QED
    BY SessionInvariant, <1>1, PTL

(* Every layer is taken off by its own inverse and in the right order.     *)
THEOREM LayersUndoneAlways == Spec => []LayersUndone
PROOF
  <1>1. IInv => LayersUndone
    BY DEF IInv, SessionInv, LayersUndone
  <1> QED
    BY SessionInvariant, <1>1, PTL

(* The guard judges the model that is built, whatever the header says.     *)
THEOREM GuardAgreesAlways == Spec => []GuardAgrees
PROOF
  <1>1. IInv => GuardAgrees
    BY DEF IInv, GuardInv
  <1> QED
    BY SessionInvariant, <1>1, PTL

-----------------------------------------------------------------------------
(* How large a model can get.                                              *)

KindNames ==
  {"Order", "Word", "WordBigram", "Column", "ColumnShuffled", "ColumnNoLine", "MatchByte",
   "MatchByteConst", "WordClass", "WordClassConst", "StateOrder", "Sparse", "Indirect",
   "IndirectCtl", "Stem", "StemCtl"}

Kinds ==
  {<<k>> : k \in KindNames} \cup (KindNames \X Nat) \cup (KindNames \X Nat \X Nat)
    \cup (KindNames \X Nat \X Nat \X BOOLEAN)

(* Experts and match tiers with at most 2 ^ t slots.                       *)
Experts(t) == [kind : Kinds, bits : 0 .. t, rate : Nat]
Tiers(t)   == [bits : 0 .. t, min_len : Nat, gap : Nat]

Configs(t) ==
  [specs : Seq(Experts(t)), matches : Seq(Tiers(t)), rep : Nat, dist : BOOLEAN,
   apm3 : {"off", "order2", "distant", "indirect", "const"}, collision : Nat, ppm : Nat,
   residual : {"off", "net", "permuted"}, mixer_lr : Nat, apm_rates : Nat \X Nat \X Nat,
   info : {"none", "inherit", "unrelated"}]

(* A configuration that others are built from has a first expert and a     *)
(* first tier.                                                             *)
Filled(c) == Len(c.specs) >= 1 /\ Len(c.matches) >= 1

Sound(c, t) == c \in Configs(t) /\ Filled(c)

-----------------------------------------------------------------------------
LEMMA KindFacts ==
  /\ \A k \in KindNames : <<k>> \in Kinds
  /\ \A k \in KindNames, o \in Nat : <<k, o>> \in Kinds
  /\ \A k \in KindNames, o, g \in Nat : <<k, o, g>> \in Kinds
  /\ \A k \in KindNames, o, g \in Nat, x \in BOOLEAN : <<k, o, g, x>> \in Kinds
  BY DEF Kinds

LEMMA ConfigFacts ==
  ASSUME NEW t \in Nat, NEW c \in Configs(t)
  PROVE  c.specs \in Seq(Experts(t)) /\ c.matches \in Seq(Tiers(t))
  BY DEF Configs

(* A bound is one for any larger number as well.                           *)
LEMMA Loosened ==
  ASSUME NEW t \in Nat, NEW u \in Nat, t <= u
  PROVE  Experts(t) \subseteq Experts(u) /\ Tiers(t) \subseteq Tiers(u)
PROOF
  <1>1. 0 .. t \subseteq 0 .. u
    OBVIOUS
  <1> QED
    BY <1>1 DEF Experts, Tiers

LEMMA Widened ==
  ASSUME NEW S, NEW T, S \subseteq T, NEW s \in Seq(S)
  PROVE  s \in Seq(T)
PROOF
  <1>1. s \in [1 .. Len(s) -> T] /\ Len(s) \in Nat
    OBVIOUS
  <1> QED
    BY <1>1

LEMMA SpecsChanged ==
  ASSUME NEW t \in Nat, NEW u \in Nat, t <= u, NEW c \in Configs(t), NEW x \in Seq(Experts(u))
  PROVE  /\ [c EXCEPT !.specs = x] \in Configs(u)
         /\ Filled(c) /\ Len(x) >= 1 => Filled([c EXCEPT !.specs = x])
PROOF
  <1>1. c.matches \in Seq(Tiers(u))
    BY ConfigFacts, Loosened, Widened
  <1> QED
    BY <1>1 DEF Configs, Filled

LEMMA MatchesChanged ==
  ASSUME NEW t \in Nat, NEW c \in Configs(t), NEW x \in Seq(Tiers(t))
  PROVE  /\ [c EXCEPT !.matches = x] \in Configs(t)
         /\ Filled(c) /\ Len(x) >= 1 => Filled([c EXCEPT !.matches = x])
  BY DEF Configs, Filled

LEMMA Appended1 ==
  ASSUME NEW S, NEW s \in Seq(S), NEW x \in S
  PROVE  Append(s, x) \in Seq(S) /\ Len(Append(s, x)) = Len(s) + 1
  OBVIOUS

LEMMA FirstOf ==
  ASSUME NEW S, NEW s \in Seq(S), Len(s) >= 1
  PROVE  s[1] \in S
  OBVIOUS

LEMMA FirstBits ==
  ASSUME NEW t \in Nat, NEW c, Sound(c, t)
  PROVE  c.specs[1].bits \in 0 .. t /\ c.matches[1].bits \in 0 .. t
PROOF
  <1>1. c.specs[1] \in Experts(t) /\ c.matches[1] \in Tiers(t)
    BY ConfigFacts, FirstOf DEF Sound, Filled
  <1> QED
    BY <1>1 DEF Experts, Tiers

LEMMA ExpertAdded ==
  ASSUME NEW t \in Nat, NEW c, Sound(c, t), NEW kind \in Kinds, NEW cap \in Nat
  PROVE  Sound(WithExpert(c, kind, cap), t)
PROOF
  <1>1. PICK n : n = AtMost(c.specs[1].bits, cap)
    OBVIOUS
  <1>2. n \in 0 .. t
    BY <1>1, FirstBits DEF AtMost
  <1>3. Expert(kind, n, 5) \in Experts(t)
    BY <1>2 DEF Expert, Experts
  <1>4. PICK a : a = Append(c.specs, Expert(kind, n, 5))
    OBVIOUS
  <1>5. c.specs \in Seq(Experts(t)) /\ Len(c.specs) >= 1 /\ c \in Configs(t) /\ Filled(c)
    BY ConfigFacts DEF Sound, Filled
  <1>6. a \in Seq(Experts(t)) /\ Len(a) >= 1
    BY <1>3, <1>4, <1>5, Appended1
  <1>7. WithExpert(c, kind, cap) = [c EXCEPT !.specs = a]
    BY <1>1, <1>4 DEF WithExpert
  <1> QED
    BY <1>5, <1>6, <1>7, SpecsChanged DEF Sound

LEMMA TierAdded ==
  ASSUME NEW t \in Nat, NEW c, Sound(c, t), NEW min_len \in Nat, NEW gap \in Nat
  PROVE  Sound(WithMatchTier(c, min_len, gap), t)
PROOF
  <1>1. PICK e : e = [bits |-> c.matches[1].bits, min_len |-> min_len, gap |-> gap]
    OBVIOUS
  <1>2. e \in Tiers(t)
    BY <1>1, FirstBits DEF Tiers
  <1>3. PICK a : a = Append(c.matches, e)
    OBVIOUS
  <1>4. c.matches \in Seq(Tiers(t)) /\ Len(c.matches) >= 1 /\ c \in Configs(t) /\ Filled(c)
    BY ConfigFacts DEF Sound, Filled
  <1>5. a \in Seq(Tiers(t)) /\ Len(a) >= 1
    BY <1>2, <1>3, <1>4, Appended1
  <1>6. WithMatchTier(c, min_len, gap) = [c EXCEPT !.matches = a]
    BY <1>1, <1>3 DEF WithMatchTier
  <1> QED
    BY <1>4, <1>5, <1>6, MatchesChanged DEF Sound

LEMMA Joined ==
  ASSUME NEW S, NEW s \in Seq(S), NEW x \in Seq(S)
  PROVE  s \o x \in Seq(S) /\ Len(s \o x) = Len(s) + Len(x)
  OBVIOUS

LEMMA AsSequence ==
  ASSUME NEW S, NEW n \in Nat, NEW f \in [1 .. n -> S]
  PROVE  f \in Seq(S) /\ Len(f) = n
  OBVIOUS

LEMMA EachAdded ==
  ASSUME NEW t \in Nat, NEW c, Sound(c, t), NEW kind \in KindNames, NEW orders \in Seq(Nat)
  PROVE  Sound(WithEach(c, kind, orders), t)
PROOF
  <1>1. PICK n : n = c.specs[1].bits
    OBVIOUS
  <1>2. n \in 0 .. t
    BY <1>1, FirstBits
  <1>3. PICK x : x = [k \in DOMAIN orders |-> Expert(<<kind, orders[k]>>, n, 5)]
    OBVIOUS
  <1>4. ASSUME NEW k \in 1 .. Len(orders)
        PROVE  Expert(<<kind, orders[k]>>, n, 5) \in Experts(t)
    <2>1. orders[k] \in Nat
      OBVIOUS
    <2>2. <<kind, orders[k]>> \in Kinds
      BY <2>1, KindFacts
    <2> QED
      BY <1>2, <2>2 DEF Expert, Experts
  <1>5. x \in [1 .. Len(orders) -> Experts(t)]
    <2>1. DOMAIN orders = 1 .. Len(orders)
      OBVIOUS
    <2> QED
      BY <1>3, <1>4, <2>1
  <1>6. x \in Seq(Experts(t))
    BY <1>5
  <1>7. PICK a : a = c.specs \o x
    OBVIOUS
  <1>8. c.specs \in Seq(Experts(t)) /\ Len(c.specs) >= 1 /\ c \in Configs(t) /\ Filled(c)
    BY ConfigFacts DEF Sound, Filled
  <1>9. a \in Seq(Experts(t)) /\ Len(a) = Len(c.specs) + Len(x)
    BY <1>6, <1>7, <1>8, Joined
  <1>10. Len(a) >= 1
    <2>1. Len(x) \in Nat /\ Len(c.specs) \in Nat
      BY <1>6, <1>8
    <2> QED
      BY <1>8, <1>9, <2>1
  <1>11. WithEach(c, kind, orders) = [c EXCEPT !.specs = a]
    BY <1>1, <1>3, <1>7 DEF WithEach
  <1> QED
    BY <1>8, <1>9, <1>10, <1>11, SpecsChanged DEF Sound

LEMMA KindsReplaced ==
  ASSUME NEW t \in Nat, NEW c, Sound(c, t), NEW kinds, \A o \in DOMAIN kinds : kinds[o] \in Kinds
  PROVE  Sound(WithReplaced(c, kinds), t)
PROOF
  <1>1. PICK s : s = c.specs
    OBVIOUS
  <1>2. s \in Seq(Experts(t)) /\ Len(s) >= 1 /\ c \in Configs(t) /\ Filled(c)
    BY <1>1, ConfigFacts DEF Sound, Filled
  <1>3. PICK x : x = [k \in DOMAIN s |-> Replaced(s[k], kinds)]
    OBVIOUS
  <1>4. ASSUME NEW k \in 1 .. Len(s) PROVE x[k] \in Experts(t)
    <2>1. PICK e : e = s[k]
      OBVIOUS
    <2>2. e \in Experts(t) /\ k \in DOMAIN s
      BY <1>2, <2>1
    <2>3. x[k] = Replaced(e, kinds)
      BY <1>3, <2>1, <2>2
    <2>4. CASE IsOrder(e) /\ e.kind[2] \in DOMAIN kinds
      <3>1. PICK w : w = kinds[e.kind[2]]
        OBVIOUS
      <3>2. Replaced(e, kinds) = [e EXCEPT !.kind = w] /\ w \in Kinds
        BY <2>4, <3>1 DEF Replaced
      <3> QED
        BY <2>2, <2>3, <3>2 DEF Experts
    <2>5. CASE ~(IsOrder(e) /\ e.kind[2] \in DOMAIN kinds)
      BY <2>2, <2>3, <2>5 DEF Replaced
    <2> QED
      BY <2>4, <2>5
  <1>5. x \in [1 .. Len(s) -> Experts(t)]
    <2>1. DOMAIN s = 1 .. Len(s)
      BY <1>2
    <2> QED
      BY <1>3, <1>4, <2>1
  <1>6. x \in Seq(Experts(t)) /\ Len(x) = Len(s)
    BY <1>2, <1>5
  <1>7. WithReplaced(c, kinds) = [c EXCEPT !.specs = x]
    BY <1>1, <1>3 DEF WithReplaced
  <1> QED
    BY <1>2, <1>6, <1>7, SpecsChanged DEF Sound

(* The specs of c rewritten one by one.                                    *)
LEMMA EachInPlace ==
  ASSUME NEW t \in Nat, NEW s \in Seq(Experts(t)), NEW x, DOMAIN x = DOMAIN s,
         x = [k \in DOMAIN s |-> x[k]],
         NEW u \in Nat, \A k \in 1 .. Len(s) : x[k] \in Experts(u)
  PROVE  x \in Seq(Experts(u)) /\ Len(x) = Len(s)
PROOF
  <1>1. DOMAIN s = 1 .. Len(s) /\ Len(s) \in Nat
    OBVIOUS
  <1>2. x \in [1 .. Len(s) -> Experts(u)]
    BY <1>1
  <1> QED
    BY <1>1, <1>2

LEMMA RatesFit ==
  ASSUME NEW t \in Nat, NEW c \in Configs(t)
  PROVE  WithRates(c) \in Configs(t)
PROOF
  <1>1. PICK s : s = c.specs
    OBVIOUS
  <1>2. s \in Seq(Experts(t))
    BY <1>1, ConfigFacts
  <1>3. PICK x : x = [k \in DOMAIN s |-> Rated(s[k], k)]
    OBVIOUS
  <1>4. ASSUME NEW k \in 1 .. Len(s) PROVE x[k] \in Experts(t)
    <2>1. PICK e : e = s[k]
      OBVIOUS
    <2>2. e \in Experts(t) /\ x[k] = Rated(e, k)
      BY <1>2, <1>3, <2>1
    <2>3. CASE k \in DOMAIN ACCEPTED_RATES
      <3>1. PICK r : r = ACCEPTED_RATES[k]
        OBVIOUS
      <3>2. r \in Nat
        BY <2>3, <3>1 DEF ACCEPTED_RATES
      <3>3. x[k] = [e EXCEPT !.rate = r]
        BY <2>2, <2>3, <3>1 DEF Rated
      <3> QED
        BY <2>2, <3>2, <3>3 DEF Experts
    <2>4. CASE k \notin DOMAIN ACCEPTED_RATES
      BY <2>2, <2>4 DEF Rated
    <2> QED
      BY <2>3, <2>4
  <1>5. x \in Seq(Experts(t))
    BY <1>2, <1>3, <1>4, EachInPlace
  <1>6. WithRates(c) = [c EXCEPT !.specs = x]
    BY <1>1, <1>3 DEF WithRates
  <1> QED
    BY <1>5, <1>6, SpecsChanged

LEMMA TuneNumbers ==
  ASSUME NEW tune \in 0 .. 255
  PROVE  /\ MIXER_LRS[(tune % 16) + 1] \in Nat
         /\ APM_RATE_SETS[(tune \div 16) + 1] \in Nat \X Nat \X Nat
         /\ Scale(tune) \in 0 .. 3
PROOF
  <1>1. PICK q, r : q = (tune \div 16) + 1 /\ r = (tune % 16) + 1
    OBVIOUS
  <1>2. q \in 1 .. 16 /\ r \in 1 .. 16
    BY <1>1
  <1>3. MIXER_LRS[r] \in Nat
    BY <1>2 DEF MIXER_LRS
  <1>4. APM_RATE_SETS[q] \in Nat \X Nat \X Nat
    BY <1>2 DEF APM_RATE_SETS
  <1>5. Scale(tune) \in 0 .. 3
    BY <1>1, <1>2 DEF Scale, AtMost, MAX_TABLE_SCALE
  <1> QED
    BY <1>1, <1>3, <1>4, <1>5

LEMMA TuneFits ==
  ASSUME NEW t \in Nat, NEW c \in Configs(t), NEW tune \in 0 .. 255, NEW b
  PROVE  WithTune(c, tune, b) \in Configs(t + 3)
PROOF
  <1>1. PICK s : s = c.specs
    OBVIOUS
  <1>2. s \in Seq(Experts(t)) /\ t + 3 \in Nat /\ t <= t + 3
    BY <1>1, ConfigFacts
  <1>3. PICK y : y = [k \in DOMAIN s |-> Scaled(s[k], tune)]
    OBVIOUS
  <1>4. ASSUME NEW k \in 1 .. Len(s) PROVE y[k] \in Experts(t + 3)
    <2>1. PICK e : e = s[k]
      OBVIOUS
    <2>2. e \in Experts(t) /\ y[k] = Scaled(e, tune)
      BY <1>2, <1>3, <2>1
    <2>3. PICK n, z : z = Scale(tune) /\ n = e.bits + z
      OBVIOUS
    <2>4. n \in 0 .. t + 3 /\ e.bits \in 0 .. t + 3
      <3>1. e.bits \in 0 .. t
        BY <2>2 DEF Experts
      <3>2. z \in 0 .. 3
        BY <2>3, TuneNumbers
      <3> QED
        BY <2>3, <3>1, <3>2
    <2>5. CASE IsOrder(e)
      <3>1. y[k] = [e EXCEPT !.bits = n]
        BY <2>2, <2>3, <2>5 DEF Scaled
      <3> QED
        BY <2>2, <2>4, <3>1 DEF Experts
    <2>6. CASE ~IsOrder(e)
      <3>1. y[k] = e
        BY <2>2, <2>6 DEF Scaled
      <3> QED
        BY <2>2, <2>4, <3>1 DEF Experts
    <2> QED
      BY <2>5, <2>6
  <1>5. y \in Seq(Experts(t + 3))
    <2>1. PICK u \in Nat : u = t + 3
      OBVIOUS
    <2>2. DOMAIN y = DOMAIN s /\ y = [k \in DOMAIN s |-> y[k]]
      BY <1>3
    <2>3. \A k \in 1 .. Len(s) : y[k] \in Experts(u)
      BY <1>4, <2>1
    <2>4. y \in Seq(Experts(u))
      BY <1>2, <2>2, <2>3, EachInPlace
    <2> QED
      BY <2>1, <2>4
  <1>6. PICK x : x = IF "tune-table" \notin b THEN s ELSE y
    OBVIOUS
  <1>7. x \in Seq(Experts(t + 3))
    BY <1>2, <1>5, <1>6, Loosened, Widened
  <1>8. PICK d : d = [c EXCEPT !.specs = x]
    OBVIOUS
  <1>9. d \in Configs(t + 3)
    BY <1>2, <1>7, <1>8, SpecsChanged
  <1>10. PICK lr, rates :
           /\ lr = MIXER_LRS[(tune % 16) + 1]
           /\ rates = IF "apm-tune" \in b THEN APM_RATE_SETS[(tune \div 16) + 1] ELSE c.apm_rates
    OBVIOUS
  <1>11. lr \in Nat /\ rates \in Nat \X Nat \X Nat
    BY <1>10, TuneNumbers DEF Configs
  <1>12. WithTune(c, tune, b) = [c EXCEPT !.mixer_lr = lr, !.apm_rates = rates, !.specs = x]
    BY <1>1, <1>3, <1>6, <1>10 DEF WithTune
  <1>13. WithTune(c, tune, b) = [d EXCEPT !.mixer_lr = lr, !.apm_rates = rates]
    BY <1>8, <1>12 DEF Configs
  <1> QED
    BY <1>9, <1>11, <1>13 DEF Configs

LEMMA RemoveFits ==
  ASSUME NEW S, NEW s \in Seq(S), NEW k \in 1 .. Len(s)
  PROVE  RemoveAt(s, k) \in Seq(S)
PROOF
  <1>1. SubSeq(s, 1, k - 1) \in Seq(S) /\ SubSeq(s, k + 1, Len(s)) \in Seq(S)
    OBVIOUS
  <1> QED
    BY <1>1, Joined DEF RemoveAt

LEMMA WithoutFits ==
  ASSUME NEW t \in Nat, NEW c \in Configs(t), NEW order
  PROVE  WithoutOrder(c, order) \in Configs(t)
PROOF
  <1>1. PICK P : P = {k \in DOMAIN c.specs : c.specs[k].kind = <<"Order", order>>}
    OBVIOUS
  <1>2. CASE P = {}
    BY <1>1, <1>2 DEF WithoutOrder
  <1>3. CASE P # {}
    <2>1. PICK k : k = CHOOSE j \in P : TRUE
      OBVIOUS
    <2>2. k \in 1 .. Len(c.specs) /\ c.specs \in Seq(Experts(t))
      BY <1>1, <1>3, <2>1, ConfigFacts
    <2>3. PICK x : x = RemoveAt(c.specs, k)
      OBVIOUS
    <2>4. x \in Seq(Experts(t))
      BY <2>2, <2>3, RemoveFits
    <2>5. WithoutOrder(c, order) = [c EXCEPT !.specs = x]
      BY <1>1, <1>3, <2>1, <2>3 DEF WithoutOrder
    <2> QED
      BY <2>4, <2>5, SpecsChanged
  <1> QED
    BY <1>2, <1>3

-----------------------------------------------------------------------------
(* The chains.                                                             *)

LEMMA SizeBits == \A n : TableBits(n) \in 18 .. 24
  BY DEF TableBits

LEMMA SizeFits ==
  ASSUME NEW n
  PROVE  /\ ForSize(n) \in Configs(TableBits(n))
         /\ Len(ForSize(n).specs) = 12 /\ Len(ForSize(n).matches) = 1
PROOF
  <1>1. PICK t \in Nat : t = TableBits(n)
    BY SizeBits
  <1>2. PICK S : S = Experts(t)
    OBVIOUS
  <1>3. PICK d : d = [k \in 1 .. 10 |->
                        Expert(<<"Order", Orders[k]>>, IF k = 1 THEN AtMost(t, 20) ELSE t, Rates[k])]
    OBVIOUS
  <1>4. ASSUME NEW k \in 1 .. 10 PROVE d[k] \in S
    <2>1. Orders[k] \in Nat /\ Rates[k] \in Nat
      BY DEF Orders, Rates
    <2>2. <<"Order", Orders[k]>> \in Kinds
      BY <2>1, KindFacts DEF KindNames
    <2>3. PICK n2 : n2 = IF k = 1 THEN AtMost(t, 20) ELSE t
      OBVIOUS
    <2>4. n2 \in 0 .. t
      BY <2>3 DEF AtMost
    <2>5. Expert(<<"Order", Orders[k]>>, n2, Rates[k]) \in Experts(t)
      BY <2>1, <2>2, <2>4 DEF Expert, Experts
    <2> QED
      BY <1>2, <1>3, <2>3, <2>5
  <1>5. d \in [1 .. 10 -> S]
    BY <1>3, <1>4
  <1>6. d \in Seq(S) /\ Len(d) = 10
    <2>1. PICK n3 \in Nat : n3 = 10
      OBVIOUS
    <2> QED
      BY <1>5, <2>1, AsSequence
  <1>7. PICK w, v : w = Expert(<<"Word">>, AtMost(t, 22), 5) /\ v = Expert(<<"WordBigram">>, AtMost(t, 22), 5)
    OBVIOUS
  <1>8. w \in S /\ v \in S
    <2>1. <<"Word">> \in Kinds /\ <<"WordBigram">> \in Kinds
      BY KindFacts DEF KindNames
    <2>2. AtMost(t, 22) \in 0 .. t
      BY DEF AtMost
    <2> QED
      BY <1>2, <1>7, <2>1, <2>2 DEF Expert, Experts
  <1>9. PICK x : x = d \o <<w, v>>
    OBVIOUS
  <1>10. x \in Seq(S) /\ Len(x) = 12
    <2>1. PICK e : e = <<w, v>>
      OBVIOUS
    <2>2. e \in Seq(S) /\ Len(e) = 2
      BY <1>8, <2>1
    <2>3. x \in Seq(S) /\ Len(x) = Len(d) + Len(e)
      BY <1>6, <1>9, <2>1, <2>2, Joined
    <2> QED
      BY <1>6, <2>2, <2>3
  <1>11. PICK y : y = << [bits |-> t, min_len |-> MATCH_MIN, gap |-> 0] >>
    OBVIOUS
  <1>12. y \in Seq(Tiers(t)) /\ Len(y) = 1
    <2>1. [bits |-> t, min_len |-> MATCH_MIN, gap |-> 0] \in Tiers(t)
      BY <1>1 DEF Tiers, MATCH_MIN
    <2> QED
      BY <1>11, <2>1
  <1>13. ForSize(n) = [specs |-> x, matches |-> y, rep |-> 0, dist |-> FALSE, apm3 |-> "off",
                       collision |-> 0, ppm |-> 0, residual |-> "off", mixer_lr |-> 12,
                       apm_rates |-> PlainRates, info |-> "none"]
    BY <1>1, <1>3, <1>7, <1>9, <1>11, Zenon DEF ForSize
  <1>14. PlainRates \in Nat \X Nat \X Nat
    BY DEF PlainRates
  <1> QED
    BY <1>1, <1>2, <1>10, <1>12, <1>13, <1>14 DEF Configs

LEMMA SizedSound ==
  ASSUME NEW m, NEW n
  PROVE  Sound(Sized(m, n), TableBits(n))
PROOF
  <1>1. PICK c, t : c = ForSize(n) /\ t = TableBits(n)
    OBVIOUS
  <1>2. c \in Configs(t) /\ Len(c.specs) = 12 /\ Len(c.matches) = 1 /\ t \in Nat
    BY <1>1, SizeFits, SizeBits
  <1>3. CASE m # "RawCmNoWord"
    <2>1. Sized(m, n) = c
      BY <1>1, <1>3 DEF Sized
    <2>2. Sound(c, t)
      BY <1>2 DEF Sound, Filled
    <2> QED
      BY <1>1, <2>1, <2>2
  <1>4. CASE m = "RawCmNoWord"
    <2>1. PICK x : x = SubSeq(c.specs, 1, 10)
      OBVIOUS
    <2>2. c.specs \in Seq(Experts(t))
      BY <1>2, ConfigFacts
    <2>3. x \in Seq(Experts(t)) /\ Len(x) = 10
      <3>1. PICK E, specs : E = Experts(t) /\ specs = c.specs
        OBVIOUS
      <3>2. specs \in Seq(E)
        BY <2>2, <3>1
      <3>3. Len(specs) = 12
        BY <1>2, <3>1
      <3>4. SubSeq(specs, 1, 10) \in Seq(E) /\ Len(SubSeq(specs, 1, 10)) = 10
        <4>1. PICK lo \in Int, hi \in Int : lo = 1 /\ hi = 10
          OBVIOUS
        <4>2. \A i \in lo .. hi : i \in 1 .. Len(specs)
          BY <3>3, <4>1
        <4>3. \A i \in lo .. hi : specs[i] \in E
          BY <3>2, <4>2, ElementOfSeq
        <4>4. /\ SubSeq(specs, lo, hi) \in Seq(E)
              /\ Len(SubSeq(specs, lo, hi)) = IF lo <= hi THEN hi - lo + 1 ELSE 0
          BY <4>3, SubSeqProperties
        <4> QED
          BY <4>1, <4>4
      <3> QED
        BY <2>1, <3>1, <3>4
    <2>4. Sized(m, n) = [c EXCEPT !.specs = x]
      BY <1>1, <1>4, <2>1 DEF Sized, Ablated
    <2>5. Filled(c)
      BY <1>2 DEF Filled
    <2> QED
      <3>1. Sound([c EXCEPT !.specs = x], t)
        <4>1. t <= t /\ Len(x) >= 1
          BY <1>2, <2>3
        <4> QED
          BY <1>2, <2>3, <2>5, <4>1, SpecsChanged DEF Sound
      <3> QED
        BY <1>1, <2>4, <3>1
  <1> QED
    BY <1>3, <1>4

LEMMA ColumnedSound ==
  ASSUME NEW t \in Nat, NEW c, Sound(c, t), NEW m
  PROVE  Sound(Columned(c, m), t) /\ Sound(WithColumn(c, FALSE), t)
PROOF
  <1>1. \A k \in {"Column", "ColumnShuffled", "ColumnNoLine"} : Sound(WithColumnKind(c, k), t)
    BY KindFacts, ExpertAdded DEF WithColumnKind, KindNames
  <1>2. Sound(WithColumn(c, FALSE), t) /\ Sound(WithColumn(c, TRUE), t)
    BY <1>1 DEF WithColumn
  <1>3. Columned(c, m) \in {WithColumn(c, FALSE), WithColumn(c, TRUE), WithColumnKind(c, "ColumnNoLine"), c}
    BY DEF Columned
  <1> QED
    BY <1>1, <1>2, <1>3

LEMMA TierNumbers ==
  ASSUME NEW m, NEW b
  PROVE  /\ Match2Min(m, b) \in Nat /\ RepOffsets(m, b) \in Nat
         /\ SparseTiers(m, b) = {} \/ SparseTiers(m, b) \in {{<<4, 1>>}, {<<6, 1>>}, {<<6, 2>>}}
PROOF
  <1>1. Match2Min(m, b) \in Nat
    <2>1. Match2Min(m, b) \in {0, 6, 8, 12, 16, 24}
      BY DEF Match2Min
    <2> QED
      BY <2>1
  <1>2. RepOffsets(m, b) \in Nat
    <2>1. RepOffsets(m, b) \in 0 .. 4
      BY DEF RepOffsets
    <2> QED
      BY <2>1
  <1>3. SparseTiers(m, b) \in {{}, {<<4, 1>>}, {<<6, 1>>}, {<<6, 2>>}}
    BY DEF SparseTiers
  <1> QED
    BY <1>1, <1>2, <1>3

LEMMA MatchedSound ==
  ASSUME NEW t \in Nat, NEW c, Sound(c, t), NEW m, NEW b
  PROVE  Sound(Matched(c, m, b), t)
PROOF
  <1>1. Sound(Match2d(c, m, b), t)
    BY TierNumbers, TierAdded DEF Match2d, WithMatch2
  <1>2. PICK d : d = Match2d(c, m, b) /\ Sound(d, t)
    BY <1>1
  <1>3. Sound(Sparsed(d, m, b), t)
    <2>1. CASE SparseTiers(m, b) = {}
      BY <1>2, <2>1 DEF Sparsed
    <2>2. CASE SparseTiers(m, b) # {}
      <3>1. PICK p : p = CHOOSE q \in SparseTiers(m, b) : TRUE
        OBVIOUS
      <3>2. p \in {<<4, 1>>, <<6, 1>>, <<6, 2>>}
        BY <2>2, <3>1, TierNumbers
      <3>3. p[1] \in Nat /\ p[2] \in Nat
        BY <3>2
      <3>4. Sparsed(d, m, b) = WithMatchTier(d, p[1], p[2])
        BY <2>2, <3>1 DEF Sparsed
      <3> QED
        BY <1>2, <3>3, <3>4, TierAdded
    <2> QED
      BY <2>1, <2>2
  <1>4. PICK e : e = Sparsed(d, m, b) /\ Sound(e, t)
    BY <1>3
  <1>5. PICK f : f = WithRepOffsets(e, RepOffsets(m, b))
    OBVIOUS
  <1>6. Sound(f, t)
    <2>1. PICK r \in Nat : r = RepOffsets(m, b)
      BY TierNumbers
    <2> QED
      BY <1>4, <1>5, <2>1 DEF WithRepOffsets, Sound, Configs, Filled
  <1>7. Sound(MatchByted(f, m, b), t)
    <2>1. <<"MatchByte">> \in Kinds /\ <<"MatchByteConst">> \in Kinds
      BY KindFacts DEF KindNames
    <2>2. \A k \in BOOLEAN : Sound(WithMatchByte(f, k), t)
      BY <1>6, <2>1, ExpertAdded DEF WithMatchByte
    <2> QED
      BY <1>6, <2>2 DEF MatchByted
  <1> QED
    BY <1>2, <1>4, <1>5, <1>7 DEF Matched

LEMMA ClassedSound ==
  ASSUME NEW t \in Nat, NEW c, Sound(c, t), NEW m, NEW b
  PROVE  Sound(Distanced(c, m, b), t) /\ Sound(Classed(c, m, b), t)
PROOF
  <1>1. Sound(Distanced(c, m, b), t)
    BY DEF Distanced, WithDistMatch, Sound, Configs, Filled
  <1>2. <<"WordClass">> \in Kinds /\ <<"WordClassConst">> \in Kinds
    BY KindFacts DEF KindNames
  <1>3. \A k \in BOOLEAN : Sound(WithWordClass(c, k), t)
    BY <1>2, ExpertAdded DEF WithWordClass
  <1> QED
    BY <1>1, <1>3 DEF Classed

LEMMA StatedSound ==
  ASSUME NEW t \in Nat, NEW c, Sound(c, t), NEW m, NEW b
  PROVE  Sound(Stated(c, m, b), t)
PROOF
  <1>1. PICK orders : orders = <<2, 4, 6>>
    OBVIOUS
  <1>2. orders \in Seq(Nat)
    BY <1>1
  <1>3. Sound(WithStateOrders(c, orders), t) /\ Sound(WithOrders(c, orders), t)
    BY <1>2, EachAdded DEF WithStateOrders, WithOrders, KindNames
  <1>4. Sound(WithReplacedStateOrders(c, {2, 4, 6}), t)
    <2>1. PICK kinds : kinds = [o \in {2, 4, 6} |-> <<"StateOrder", o>>]
      OBVIOUS
    <2>2. \A o \in DOMAIN kinds : kinds[o] \in Kinds
      <3>1. \A o \in {2, 4, 6} : <<"StateOrder", o>> \in Kinds
        BY KindFacts DEF KindNames
      <3> QED
        BY <2>1, <3>1
    <2>3. Sound(WithReplaced(c, kinds), t)
      BY <2>2, KindsReplaced
    <2> QED
      BY <2>1, <2>3 DEF WithReplacedStateOrders
  <1>5. \/ Stated(c, m, b) = WithStateOrders(c, orders)
        \/ Stated(c, m, b) = WithOrders(c, orders)
        \/ Stated(c, m, b) = WithReplacedStateOrders(c, {2, 4, 6})
        \/ Stated(c, m, b) = c
    BY <1>1 DEF Stated
  <1> QED
    BY <1>3, <1>4, <1>5

LEMMA CalibratedSound ==
  ASSUME NEW t \in Nat, NEW c, Sound(c, t), NEW m, NEW b
  PROVE  Sound(Calibrated(c, m, b), t) /\ Sound(WithSse3(c), t)
PROOF
  <1>1. /\ Sound(WithSse3(c), t) /\ Sound(WithSse3Ctl(c), t)
        /\ Sound(WithIsse(c), t) /\ Sound(WithIsseCtl(c), t)
    BY DEF WithSse3, WithSse3Ctl, WithIsse, WithIsseCtl, Sound, Configs, Filled
  <1>2. \/ Calibrated(c, m, b) = WithIsse(c)
        \/ Calibrated(c, m, b) = WithIsseCtl(c)
        \/ Calibrated(c, m, b) = WithSse3(c)
        \/ Calibrated(c, m, b) = WithSse3Ctl(c)
        \/ Calibrated(c, m, b) = c
    BY DEF Calibrated
  <1> QED
    BY <1>1, <1>2

(* The screens' own experts and switches.                                  *)
LEMMA ScreensFit ==
  ASSUME NEW t \in Nat, NEW c, Sound(c, t)
  PROVE  /\ WithSparse(c, 4, 1) \in Configs(t) /\ WithOrders(c, <<4>>) \in Configs(t)
         /\ WithReplacedSparse(c, 4, 1) \in Configs(t)
         /\ WithIndirect(c, 2, 2, FALSE) \in Configs(t) /\ WithIndirect(c, 2, 2, TRUE) \in Configs(t)
         /\ WithIndirect(c, 5, 2, FALSE) \in Configs(t) /\ WithIndirectCtl(c, 2, 2) \in Configs(t)
         /\ WithCollision(c, 1) \in Configs(t) /\ WithCollision(c, 2) \in Configs(t)
         /\ WithStemModel(c, FALSE) \in Configs(t) /\ WithStemModel(c, TRUE) \in Configs(t)
         /\ WithPpm(c, 4) \in Configs(t) /\ WithPpm(c, 1) \in Configs(t)
         /\ PpmPruned(WithPpm(c, 4)) \in Configs(t)
         /\ WithResidual(c, FALSE) \in Configs(t) /\ WithResidual(c, TRUE) \in Configs(t)
PROOF
  <1>1. /\ <<"Sparse", 4, 1>> \in Kinds
        /\ <<"Indirect", 2, 2, FALSE>> \in Kinds /\ <<"Indirect", 2, 2, TRUE>> \in Kinds
        /\ <<"Indirect", 5, 2, FALSE>> \in Kinds /\ <<"IndirectCtl", 2, 2>> \in Kinds
        /\ <<"Stem">> \in Kinds /\ <<"StemCtl">> \in Kinds
    BY KindFacts DEF KindNames
  <1>2. \A k \in Kinds, cap \in Nat : WithExpert(c, k, cap) \in Configs(t)
    BY ExpertAdded DEF Sound
  <1>3. /\ WithSparse(c, 4, 1) \in Configs(t)
        /\ WithIndirect(c, 2, 2, FALSE) \in Configs(t) /\ WithIndirect(c, 2, 2, TRUE) \in Configs(t)
        /\ WithIndirect(c, 5, 2, FALSE) \in Configs(t) /\ WithIndirectCtl(c, 2, 2) \in Configs(t)
    BY <1>1, <1>2 DEF WithSparse, WithIndirect, WithIndirectCtl
  <1>4. WithStemModel(c, FALSE) \in Configs(t) /\ WithStemModel(c, TRUE) \in Configs(t)
    BY <1>1, <1>2 DEF WithStemModel
  <1>5. WithOrders(c, <<4>>) \in Configs(t)
    <2>1. PICK orders : orders = <<4>>
      OBVIOUS
    <2>2. orders \in Seq(Nat)
      BY <2>1
    <2> QED
      BY <2>1, <2>2, EachAdded DEF WithOrders, KindNames, Sound
  <1>6. WithReplacedSparse(c, 4, 1) \in Configs(t)
    <2>1. PICK kinds : kinds = [o \in {4} |-> <<"Sparse", o, 1>>]
      OBVIOUS
    <2>2. \A o \in DOMAIN kinds : kinds[o] \in Kinds
      BY <1>1, <2>1
    <2>3. Sound(WithReplaced(c, kinds), t)
      BY <2>2, KindsReplaced
    <2> QED
      BY <2>1, <2>3 DEF WithReplacedSparse, Sound
  <1>7. /\ WithCollision(c, 1) \in Configs(t) /\ WithCollision(c, 2) \in Configs(t)
        /\ WithPpm(c, 4) \in Configs(t) /\ WithPpm(c, 1) \in Configs(t)
        /\ WithResidual(c, FALSE) \in Configs(t) /\ WithResidual(c, TRUE) \in Configs(t)
    BY DEF WithCollision, WithPpm, WithResidual, Sound, Configs
  <1>8. PpmPruned(WithPpm(c, 4)) \in Configs(t)
    BY <1>7, WithoutFits DEF PpmPruned
  <1> QED
    BY <1>3, <1>4, <1>5, <1>6, <1>7, <1>8

LEMMA ScreenedFits ==
  ASSUME NEW t \in Nat, NEW c, Sound(c, t), NEW m
  PROVE  Screened(c, m) \in Configs(t)
PROOF
  <1>1. Screened(c, m) \in
          {WithSparse(c, 4, 1), WithOrders(c, <<4>>), WithReplacedSparse(c, 4, 1),
           WithIndirect(c, 2, 2, FALSE), WithIndirect(c, 2, 2, TRUE),
           WithIndirect(c, 5, 2, FALSE), WithIndirectCtl(c, 2, 2),
           WithCollision(c, 1), WithCollision(c, 2),
           WithStemModel(c, FALSE), WithStemModel(c, TRUE),
           WithPpm(c, 4), WithPpm(c, 1), PpmPruned(WithPpm(c, 4)),
           WithResidual(c, FALSE), WithResidual(c, TRUE), c}
    BY DEF Screened
  <1>2. c \in Configs(t)
    BY DEF Sound
  <1> QED
    BY <1>1, <1>2, ScreensFit

LEMMA InfoFits ==
  ASSUME NEW t \in Nat, NEW c \in Configs(t), NEW i \in {"none", "inherit", "unrelated"}
  PROVE  WithInfo(WithRates(c), i) \in Configs(t)
PROOF
  <1>1. PICK d : d = WithRates(c) /\ d \in Configs(t)
    BY RatesFit
  <1> QED
    BY <1>1 DEF WithInfo, Configs

LEMMA ConfigFits ==
  ASSUME NEW m, NEW n, NEW b
  PROVE  Config(m, n, b) \in Configs(TableBits(n))
PROOF
  <1>1. PICK t \in Nat : t = TableBits(n)
    BY SizeBits
  <1>2. PICK c1 : c1 = Columned(Sized(m, n), m) /\ Sound(c1, t)
    BY <1>1, SizedSound, ColumnedSound
  <1>3. PICK c2 : c2 = Matched(c1, m, b) /\ Sound(c2, t)
    BY <1>2, MatchedSound
  <1>4. PICK c3 : c3 = Distanced(c2, m, b) /\ Sound(c3, t)
    BY <1>3, ClassedSound
  <1>5. PICK c4 : c4 = Classed(c3, m, b) /\ Sound(c4, t)
    BY <1>4, ClassedSound
  <1>6. PICK c5 : c5 = Stated(c4, m, b) /\ Sound(c5, t)
    BY <1>5, StatedSound
  <1>7. PICK c6 : c6 = Calibrated(c5, m, b) /\ Sound(c6, t)
    BY <1>6, CalibratedSound
  <1>8. PICK c7 : c7 = Screened(c6, m) /\ c7 \in Configs(t)
    BY <1>7, ScreenedFits
  <1>9. Info(m, b) \in {"none", "inherit", "unrelated"}
    BY DEF Info
  <1>10. Config(m, n, b) = WithInfo(WithRates(c7), Info(m, b))
    BY <1>2, <1>3, <1>4, <1>5, <1>6, <1>7, <1>8, Zenon DEF Config
  <1> QED
    BY <1>1, <1>8, <1>9, <1>10, InfoFits

LEMMA ScoredFits ==
  ASSUME NEW m, NEW n, NEW b
  PROVE  ScoredConfig(m, n, b) \in Configs(TableBits(n))
PROOF
  <1>1. PICK t \in Nat : t = TableBits(n)
    BY SizeBits
  <1>2. Sound(ForSize(n), t)
    <2>1. 12 >= 1 /\ 1 >= 1
      OBVIOUS
    <2> QED
      BY <1>1, <2>1, SizeFits DEF Sound, Filled
  <1>3. PICK c1 : c1 = WithColumn(ForSize(n), FALSE) /\ Sound(c1, t)
    BY <1>2, ColumnedSound
  <1>4. PICK c2 : c2 = Matched(c1, m, b) /\ Sound(c2, t)
    BY <1>3, MatchedSound
  <1>5. PICK c3 : c3 = WithSse3(c2) /\ Sound(c3, t)
    BY <1>4, CalibratedSound
  <1>6. PICK c4 : c4 = (IF m = "Sse3" THEN c3 ELSE WithResidual(c3, FALSE)) /\ c4 \in Configs(t)
    BY <1>5, ScreensFit DEF Sound
  <1>7. ScoredConfig(m, n, b) = WithInfo(WithRates(c4), "none")
    BY <1>3, <1>4, <1>5, <1>6 DEF ScoredConfig
  <1> QED
    BY <1>1, <1>6, <1>7, InfoFits

(* The tables of the model any build makes for a header have at most eight *)
(* times the slots of the header's length.                                 *)
THEOREM ModelBounded ==
  ASSUME NEW m, NEW tune \in 0 .. 255, NEW n, NEW b
  PROVE  Bounded(ModelFor(m, tune, n, b), TableBits(n) + MAX_TABLE_SCALE)
PROOF
  <1>1. PICK t \in Nat : t = TableBits(n)
    BY SizeBits
  <1>2. PICK c : /\ c = IF "submission" \in b THEN ScoredConfig(m, n, b) ELSE Config(m, n, b)
                 /\ c \in Configs(t)
    BY <1>1, ConfigFits, ScoredFits
  <1>3. PICK d : d = ModelFor(m, tune, n, b)
    OBVIOUS
  <1>4. d \in Configs(t + 3)
    BY <1>2, <1>3, TuneFits DEF ModelFor
  <1>5. PICK u \in Nat : u = t + 3
    OBVIOUS
  <1>6. d.specs \in Seq(Experts(u)) /\ d.matches \in Seq(Tiers(u))
    BY <1>4, <1>5, ConfigFacts
  <1>7. ASSUME NEW k \in DOMAIN d.specs PROVE d.specs[k].bits <= u
    <2>1. d.specs[k] \in Experts(u)
      BY <1>6
    <2>2. d.specs[k].bits \in 0 .. u
      BY <2>1 DEF Experts
    <2> QED
      BY <2>2
  <1>8. ASSUME NEW k \in DOMAIN d.matches PROVE d.matches[k].bits <= u
    <2>1. d.matches[k] \in Tiers(u)
      BY <1>6
    <2>2. d.matches[k].bits \in 0 .. u
      BY <2>1 DEF Tiers
    <2> QED
      BY <2>2
  <1>9. Bounded(d, u)
    BY <1>7, <1>8 DEF Bounded
  <1>10. TableBits(n) + MAX_TABLE_SCALE = u
    BY <1>1, <1>5 DEF MAX_TABLE_SCALE
  <1> QED
    BY <1>3, <1>9, <1>10

-----------------------------------------------------------------------------
(* The decoder's model is one of the header it was made for.               *)
BuiltInv ==
  stage \in {"peel", "done"} => \E m : built = ModelFor(m, archive.tune, archive.n, dec)

(* Whatever header a decoder is given, the tables of its model have at     *)
(* most eight times the slots that the header's length calls for.          *)
THEOREM GeometryBoundedAlways == Spec => []GeometryBounded
PROOF
  <1>1. Init => BuiltInv
    BY DEF Init, EncodeInit, ForeignInit, BuiltInv
  <1>2. BuiltInv /\ [Next]_vars => BuiltInv'
    <2> SUFFICES ASSUME BuiltInv, [Next]_vars, stage' \in {"peel", "done"}
                 PROVE  \E m : built' = ModelFor(m, archive'.tune, archive'.n, dec')
      BY DEF BuiltInv
    <2>1. CASE Decode
      BY <2>1 DEF Decode
    <2>2. CASE Peel \/ Unreorder
      BY <2>2 DEF BuiltInv, Peel, Unreorder
    <2>3. CASE PrepareReorder \/ Wrap \/ WriteArchive \/ Guard \/ Refuse
      BY <2>3 DEF PrepareReorder, Wrap, WriteArchive, Guard, Refuse
    <2>4. CASE UNCHANGED vars
      BY <2>4 DEF BuiltInv, vars
    <2> QED
      BY <2>1, <2>2, <2>3, <2>4 DEF Next
  <1>3. IInv /\ BuiltInv => GeometryBounded
    <2>1. IInv => archive.tune \in 0 .. 255
      BY DEF IInv, TypeOK
    <2> QED
      BY <2>1, ModelBounded DEF BuiltInv, GeometryBounded
  <1> QED
    BY <1>1, <1>2, <1>3, SessionInvariant, PTL DEF Spec

-----------------------------------------------------------------------------
(* Experiments: an arm and its control.  Every method is a set of layers   *)
(* and a chain of builders; a mechanism and its control are the same but   *)
(* for one of them.                                                        *)

(* A research build that has every mechanism.                              *)
Full(b) == MechanismFeatures \subseteq b /\ "submission" \notin b

(* What a method decides about the text.                                   *)
LayerParts(m, b) ==
  [order |-> ReorderKind(m, b), lzbe |-> Lzbe(m, b), grammar |-> GrammarMode(m, b),
   stem |-> Stems(m, b), hoist |-> Hoists(m, b), case |-> CaseKind(m, b),
   token |-> TokenKind(m, b),
   price |-> IF PricedVocab(m, b) THEN m ELSE "none", perm |-> PermOf(m, b)]

LayerFields == {"order", "lzbe", "grammar", "stem", "hoist", "case", "token", "price", "perm"}

(* The same layers, or the same but for one.                               *)
SameLayers(m, c, b) == \A y \in LayerFields : LayerParts(m, b)[y] = LayerParts(c, b)[y]
OneLayer(x, m, c, b) ==
  /\ x \in LayerFields /\ LayerParts(m, b)[x] # LayerParts(c, b)[x]
  /\ \A y \in LayerFields \ {x} : LayerParts(m, b)[y] = LayerParts(c, b)[y]

(* The arms and their controls, by what they are built on.                 *)
Untokened ==
  {"AlphabetPerm", "AlphabetRandom", "InfoInherit", "InfoUnrelated", "Column", "ColumnShuffled",
   "ColumnNoLine", "Case", "CaseMark", "ColumnCase", "ColumnCaseMark"}
Grammars == {"Grammar", "GrammarMtf", "GrammarMr", "GrammarFirstUse"}
Tokened ==
  {"WordToken", "WordTokenReverse", "ColumnWordToken", "ColumnWordTokenReverse",
   "ColumnWordTokenPhrase", "ColumnWordTokenPhraseFreq"}
Singles == {"LongMatch6", "LongMatch8", "MatchByte", "MatchByteConst", "WordClass", "WordClassConst"}
Screens ==
  {"Phase4", "StateMap", "StateMapCtl", "StateMapRep", "Sse3", "Sse3Ctl", "Sparse4g1",
   "Sparse4g1Ctl", "Sparse4g1Rep", "Icm", "IcmCtl", "IndirectChain", "Collision", "CollisionCtl",
   "Ppm", "PpmCtl", "StemModel", "StemModelCtl", "Isse", "IsseCtl", "Phase6"}
Orderings == {"ReorderId", "ReorderShuffle", "ReorderFull", "Residual", "ResidualCtl"}
Vocabularies == {"ResidualMtf", "ResidualMoveToSecond", "ResidualPriced", "ResidualPriceFilter"}
Arms == Untokened \cup Grammars \cup Tokened \cup Singles \cup Screens \cup Orderings \cup Vocabularies

LEMMA Features ==
  ASSUME NEW b, Full(b)
  PROVE  /\ "struct-hoist" \in b /\ "word-token" \in b /\ "long-match" \in b /\ "sparse-match" \in b
         /\ "match-byte" \in b /\ "sse-3" \in b /\ "reorder" \in b /\ "alphabet-perm" \in b
         /\ "info-inherit" \in b /\ "case-model" \in b /\ "word-token2" \in b /\ "id-order" \in b
         /\ "first-use" \in b /\ "subword" \in b /\ "vocab-price" \in b /\ "rep-state" \in b
         /\ "dist-match" \in b /\ "stem" \in b /\ "word-class" \in b /\ "phrase" \in b
         /\ "affix-token" \in b /\ "dict-front" \in b /\ "grammar" \in b /\ "state-map" \in b
  BY DEF Full, MechanismFeatures, AcceptedFeatures

(* The layers of the arms, one layer after the other.                      *)
LEMMA NoOldLayers ==
  ASSUME NEW b, NEW m \in Arms
  PROVE  /\ LayerParts(m, b)["lzbe"] = FALSE /\ LayerParts(m, b)["stem"] = FALSE
         /\ m \notin Grammars => GrammarMode(m, b) = "none"
         /\ m \notin {"AlphabetPerm", "AlphabetRandom"} => PermOf(m, b) = "none"
         /\ m \notin {"Case", "CaseMark", "ColumnCase", "ColumnCaseMark"} => CaseKind(m, b) = "none"
         /\ m \notin {"ResidualPriced", "ResidualPriceFilter"} => ~PricedVocab(m, b)
         /\ m \notin Orderings \cup Vocabularies => ReorderKind(m, b) = "none"
<1>1. LayerParts(m, b)["lzbe"] = FALSE /\ LayerParts(m, b)["stem"] = FALSE
  BY DEF LayerParts, Lzbe, Stems, Arms, Untokened, Grammars, Tokened, Singles, Screens, Orderings, Vocabularies
<1>2. m \notin Grammars => GrammarMode(m, b) = "none"
  BY DEF GrammarMode, Arms, Untokened, Grammars, Tokened, Singles, Screens, Orderings, Vocabularies
<1>3. /\ m \notin {"AlphabetPerm", "AlphabetRandom"} => PermOf(m, b) = "none"
      /\ m \notin {"Case", "CaseMark", "ColumnCase", "ColumnCaseMark"} => CaseKind(m, b) = "none"
      /\ m \notin {"ResidualPriced", "ResidualPriceFilter"} => ~PricedVocab(m, b)
  BY DEF PermOf, CaseKind, PricedVocab, Arms, Untokened, Grammars, Tokened, Singles, Screens, Orderings,
         Vocabularies
<1>4. m \notin Orderings \cup Vocabularies => ReorderKind(m, b) = "none"
  BY DEF ReorderKind, Variants, Arms, Untokened, Grammars, Tokened, Singles, Screens, Orderings, Vocabularies
<1> QED
  BY <1>1, <1>2, <1>3, <1>4

LEMMA OwnLayers ==
  ASSUME NEW b, Full(b)
  PROVE  /\ GrammarMode("Grammar", b) = "verbatim" /\ GrammarMode("GrammarMtf", b) = "mtf"
         /\ GrammarMode("GrammarMr", b) = "mr" /\ GrammarMode("GrammarFirstUse", b) = "firstuse"
         /\ PermOf("AlphabetPerm", b) = "freq" /\ PermOf("AlphabetRandom", b) = "random"
         /\ CaseKind("Case", b) = "merge" /\ CaseKind("ColumnCase", b) = "merge"
         /\ CaseKind("CaseMark", b) = "mark" /\ CaseKind("ColumnCaseMark", b) = "mark"
         /\ PricedVocab("ResidualPriced", b) /\ PricedVocab("ResidualPriceFilter", b)
         /\ ReorderKind("ReorderId", b) = "identity" /\ ReorderKind("ReorderShuffle", b) = "shuffle"
         /\ \A m \in {"ReorderFull", "Residual", "ResidualCtl"} \cup Vocabularies : ReorderKind(m, b) = "full"
<1>1. /\ GrammarMode("Grammar", b) = "verbatim" /\ GrammarMode("GrammarMtf", b) = "mtf"
      /\ GrammarMode("GrammarMr", b) = "mr" /\ GrammarMode("GrammarFirstUse", b) = "firstuse"
  BY Features DEF GrammarMode
<1>2. /\ PermOf("AlphabetPerm", b) = "freq" /\ PermOf("AlphabetRandom", b) = "random"
      /\ CaseKind("Case", b) = "merge" /\ CaseKind("ColumnCase", b) = "merge"
      /\ CaseKind("CaseMark", b) = "mark" /\ CaseKind("ColumnCaseMark", b) = "mark"
      /\ PricedVocab("ResidualPriced", b) /\ PricedVocab("ResidualPriceFilter", b)
  BY Features DEF PermOf, CaseKind, PricedVocab
<1>3. /\ ReorderKind("ReorderId", b) = "identity" /\ ReorderKind("ReorderShuffle", b) = "shuffle"
      /\ \A m \in {"ReorderFull", "Residual", "ResidualCtl"} \cup Vocabularies : ReorderKind(m, b) = "full"
  BY Features DEF ReorderKind, Variants, Vocabularies
<1> QED
  BY <1>1, <1>2, <1>3

LEMMA ArmsHoist ==
  ASSUME NEW b, Full(b)
  PROVE  /\ \A m \in {"Case", "CaseMark", "WordToken", "WordTokenReverse"} \cup Grammars : LayerParts(m, b)["hoist"] = FALSE
         /\ \A m \in (Untokened \cup Tokened \cup Singles \cup Screens \cup Orderings \cup Vocabularies)
                       \ {"Case", "CaseMark", "WordToken", "WordTokenReverse"} : LayerParts(m, b)["hoist"] = TRUE
<1>1. \A m \in {"Case", "CaseMark", "WordToken", "WordTokenReverse"} \cup Grammars : LayerParts(m, b)["hoist"] = FALSE
  BY DEF LayerParts, Hoists, ColumnFamily, OnPhase4Parent, Phase4Singles, Phase6Screens, ReorderFamily, Variants, Grammars
<1>2. \A m \in (Untokened \cup Tokened \cup Singles) \ {"Case", "CaseMark", "WordToken", "WordTokenReverse"} :
        LayerParts(m, b)["hoist"] = TRUE
  BY Features DEF LayerParts, Hoists, ColumnFamily, Phase4Singles, Untokened, Tokened, Singles
<1>3. \A m \in Screens \cup Orderings \cup Vocabularies : m \in OnPhase4Parent
  BY DEF OnPhase4Parent, Phase6Screens, ReorderFamily, Variants, Screens, Orderings, Vocabularies
<1>4. \A m \in OnPhase4Parent : LayerParts(m, b)["hoist"] = TRUE
  BY Features DEF LayerParts, Hoists
<1> QED
  BY <1>1, <1>2, <1>3, <1>4

LEMMA ArmsToken ==
  ASSUME NEW b, Full(b)
  PROVE  /\ \A m \in Untokened \cup Grammars : TokenKind(m, b) = "none"
         /\ \A m \in Singles \cup Screens \cup Orderings
                       \cup {"WordTokenReverse", "ColumnWordTokenReverse", "ResidualPriced", "ResidualPriceFilter"} :
              TokenKind(m, b) = "reverse"
         /\ TokenKind("WordToken", b) = "words" /\ TokenKind("ColumnWordToken", b) = "words"
         /\ TokenKind("ColumnWordTokenPhrase", b) = "phrase"
         /\ TokenKind("ColumnWordTokenPhraseFreq", b) = "phrasefreq"
         /\ TokenKind("ResidualMtf", b) = "mtf" /\ TokenKind("ResidualMoveToSecond", b) = "second"
<1>1. \A m \in Untokened \cup Grammars \cup Tokened \cup Singles \cup Screens \cup Orderings :
        VariantKind(m, b) = "none"
  BY DEF VariantKind, PricedVocab, Untokened, Grammars, Tokened, Singles, Screens, Orderings
<1>2. /\ \A m \in Untokened \cup Grammars \cup {"ColumnWordTokenPhrase", "ColumnWordTokenPhraseFreq"} :
           CompositeKind(m) = "none"
      /\ \A m \in Untokened \cup Grammars : OtherKind(m, b) = "none"
  BY DEF CompositeKind, OtherKind, OnPhase4Parent, Phase4Singles, Phase6Screens, ReorderFamily, Variants,
         Untokened, Grammars
<1>3. \A m \in Singles \cup Screens \cup Orderings \cup {"WordTokenReverse", "ColumnWordTokenReverse"} :
        CompositeKind(m) = "reverse"
  BY DEF CompositeKind, OnPhase4Parent, Phase4Singles, Phase6Screens, ReorderFamily, Singles, Screens, Orderings
<1>4. CompositeKind("WordToken") = "words" /\ CompositeKind("ColumnWordToken") = "words"
  BY DEF CompositeKind
<1>5. OtherKind("ColumnWordTokenPhrase", b) = "phrase" /\ OtherKind("ColumnWordTokenPhraseFreq", b) = "phrasefreq"
  BY Features DEF OtherKind
<1>6. /\ VariantKind("ResidualMtf", b) = "mtf" /\ VariantKind("ResidualMoveToSecond", b) = "second"
      /\ VariantKind("ResidualPriced", b) = "reverse" /\ VariantKind("ResidualPriceFilter", b) = "reverse"
  BY Features DEF VariantKind, PricedVocab
<1> QED
  BY <1>1, <1>2, <1>3, <1>4, <1>5, <1>6, Features DEF TokenKind, Tokened

(* The pairs that are measured in a layer, and in which one.               *)
LayerArms ==
  {<<"perm", "AlphabetRandom", "AlphabetPerm">>, <<"case", "CaseMark", "Case">>,
   <<"case", "ColumnCaseMark", "ColumnCase">>, <<"token", "WordTokenReverse", "WordToken">>,
   <<"token", "ColumnWordTokenReverse", "ColumnWordToken">>,
   <<"token", "ColumnWordTokenPhraseFreq", "ColumnWordTokenPhrase">>,
   <<"grammar", "GrammarMtf", "Grammar">>, <<"grammar", "GrammarMr", "Grammar">>,
   <<"grammar", "GrammarFirstUse", "Grammar">>, <<"order", "ReorderId", "Phase6">>,
   <<"order", "ReorderShuffle", "ReorderFull">>, <<"token", "ResidualMoveToSecond", "ResidualMtf">>,
   <<"price", "ResidualPriceFilter", "ResidualPriced">>}

(* The pairs that are measured in the model, and in which part of it.      *)
ModelArms ==
  {<<"info", "InfoUnrelated", "InfoInherit">>, <<"specs", "ColumnShuffled", "Column">>,
   <<"specs", "ColumnNoLine", "Column">>, <<"matches", "LongMatch6", "LongMatch8">>,
   <<"specs", "MatchByteConst", "MatchByte">>, <<"specs", "WordClassConst", "WordClass">>,
   <<"specs", "StateMapCtl", "StateMap">>, <<"specs", "StateMapRep", "Phase4">>,
   <<"apm3", "Sse3Ctl", "Sse3">>, <<"specs", "Sparse4g1Ctl", "Sparse4g1">>,
   <<"specs", "Sparse4g1Rep", "Phase4">>, <<"specs", "IcmCtl", "Icm">>,
   <<"specs", "IndirectChain", "Icm">>, <<"collision", "CollisionCtl", "Collision">>,
   <<"ppm", "PpmCtl", "Ppm">>, <<"specs", "StemModelCtl", "StemModel">>,
   <<"apm3", "IsseCtl", "Isse">>, <<"residual", "ResidualCtl", "Residual">>,
   <<"residual", "Residual", "ReorderFull">>}

LEMMA ControlsAre ==
  ASSUME NEW p \in Controls
  PROVE  \E x : <<x, p[1], p[2]>> \in LayerArms \cup ModelArms
<1>1. \/ <<p[1], p[2]>> \in {<<q[2], q[3]>> : q \in LayerArms}
      \/ <<p[1], p[2]>> \in {<<q[2], q[3]>> : q \in ModelArms}
  BY DEF Controls, LayerArms, ModelArms
<1> QED
  BY <1>1 DEF LayerArms, ModelArms

(* The parts of a method.                                                  *)
Laid(m, b, order, grammar, hoist, case, token, price, perm) ==
  /\ LayerParts(m, b)["order"] = order /\ LayerParts(m, b)["lzbe"] = FALSE
  /\ LayerParts(m, b)["grammar"] = grammar /\ LayerParts(m, b)["stem"] = FALSE
  /\ LayerParts(m, b)["hoist"] = hoist /\ LayerParts(m, b)["case"] = case
  /\ LayerParts(m, b)["token"] = token /\ LayerParts(m, b)["price"] = price
  /\ LayerParts(m, b)["perm"] = perm

LEMMA PartIs ==
  ASSUME NEW m, NEW b
  PROVE  /\ LayerParts(m, b)["order"] = ReorderKind(m, b)
         /\ LayerParts(m, b)["grammar"] = GrammarMode(m, b)
         /\ LayerParts(m, b)["case"] = CaseKind(m, b)
         /\ LayerParts(m, b)["token"] = TokenKind(m, b) /\ LayerParts(m, b)["perm"] = PermOf(m, b)
         /\ LayerParts(m, b)["price"] = IF PricedVocab(m, b) THEN m ELSE "none"
  BY DEF LayerParts

LEMMA RowsOf ==
  ASSUME NEW b, Full(b)
  PROVE  /\ \A m \in (Untokened \cup Singles \cup Screens)
                        \ {"AlphabetPerm", "AlphabetRandom", "Case", "CaseMark", "ColumnCase", "ColumnCaseMark"} :
              Laid(m, b, "none", "none", TRUE, "none", TokenKind(m, b), "none", "none")
         /\ \A m \in {"AlphabetPerm", "AlphabetRandom"} :
              Laid(m, b, "none", "none", TRUE, "none", "none", "none", PermOf(m, b))
         /\ \A m \in {"Case", "CaseMark"} : Laid(m, b, "none", "none", FALSE, CaseKind(m, b), "none", "none", "none")
         /\ \A m \in {"ColumnCase", "ColumnCaseMark"} :
              Laid(m, b, "none", "none", TRUE, CaseKind(m, b), "none", "none", "none")
         /\ \A m \in {"WordToken", "WordTokenReverse"} :
              Laid(m, b, "none", "none", FALSE, "none", TokenKind(m, b), "none", "none")
         /\ \A m \in Tokened \ {"WordToken", "WordTokenReverse"} :
              Laid(m, b, "none", "none", TRUE, "none", TokenKind(m, b), "none", "none")
         /\ \A m \in Grammars : Laid(m, b, "none", GrammarMode(m, b), FALSE, "none", "none", "none", "none")
         /\ \A m \in Orderings \cup {"ResidualMtf", "ResidualMoveToSecond"} :
              Laid(m, b, ReorderKind(m, b), "none", TRUE, "none", TokenKind(m, b), "none", "none")
         /\ \A m \in {"ResidualPriced", "ResidualPriceFilter"} :
              Laid(m, b, "full", "none", TRUE, "none", "reverse", m, "none")
<1>1. ASSUME NEW m \in Arms
      PROVE  Laid(m, b, ReorderKind(m, b), GrammarMode(m, b), LayerParts(m, b)["hoist"], CaseKind(m, b),
                  TokenKind(m, b), IF PricedVocab(m, b) THEN m ELSE "none", PermOf(m, b))
  BY NoOldLayers, PartIs DEF Laid
<1>2. ASSUME NEW m \in (Untokened \cup Singles \cup Screens)
                       \ {"AlphabetPerm", "AlphabetRandom", "Case", "CaseMark", "ColumnCase", "ColumnCaseMark"}
      PROVE  Laid(m, b, "none", "none", TRUE, "none", TokenKind(m, b), "none", "none")
  <2>1. /\ m \in Arms /\ m \notin Grammars /\ m \notin Orderings \cup Vocabularies
        /\ m \notin {"ResidualPriced", "ResidualPriceFilter"}
    BY DEF Arms, Untokened, Singles, Screens, Grammars, Orderings, Vocabularies
  <2>2. LayerParts(m, b)["hoist"] = TRUE
    BY ArmsHoist DEF Untokened, Singles, Screens
  <2> QED
    BY <1>1, <2>1, <2>2, NoOldLayers
<1>3. \A m \in Arms : m \notin Grammars => GrammarMode(m, b) = "none"
  BY NoOldLayers
<1>4. \A m \in {"AlphabetPerm", "AlphabetRandom"} :
        Laid(m, b, "none", "none", TRUE, "none", "none", "none", PermOf(m, b))
  <2> TAKE m \in {"AlphabetPerm", "AlphabetRandom"}
  <2>1. /\ m \in Arms /\ m \notin Grammars /\ m \notin Orderings \cup Vocabularies
        /\ m \notin {"ResidualPriced", "ResidualPriceFilter", "Case", "CaseMark", "ColumnCase", "ColumnCaseMark"}
    BY DEF Arms, Untokened, Grammars, Orderings, Vocabularies
  <2>2. LayerParts(m, b)["hoist"] = TRUE /\ TokenKind(m, b) = "none"
    BY ArmsHoist, ArmsToken DEF Untokened
  <2> QED
    BY <1>1, <2>1, <2>2, NoOldLayers
<1>5. \A m \in {"Case", "CaseMark", "ColumnCase", "ColumnCaseMark"} :
        Laid(m, b, "none", "none", LayerParts(m, b)["hoist"], CaseKind(m, b), "none", "none", "none")
  <2> TAKE m \in {"Case", "CaseMark", "ColumnCase", "ColumnCaseMark"}
  <2>1. /\ m \in Arms /\ m \notin Grammars /\ m \notin Orderings \cup Vocabularies
        /\ m \notin {"ResidualPriced", "ResidualPriceFilter", "AlphabetPerm", "AlphabetRandom"}
    BY DEF Arms, Untokened, Grammars, Orderings, Vocabularies
  <2>2. TokenKind(m, b) = "none"
    BY ArmsToken DEF Untokened
  <2> QED
    BY <1>1, <2>1, <2>2, NoOldLayers
<1>6. \A m \in Tokened :
        Laid(m, b, "none", "none", LayerParts(m, b)["hoist"], "none", TokenKind(m, b), "none", "none")
  <2> TAKE m \in Tokened
  <2>1. /\ m \in Arms /\ m \notin Grammars /\ m \notin Orderings \cup Vocabularies
        /\ m \notin {"ResidualPriced", "ResidualPriceFilter", "AlphabetPerm", "AlphabetRandom"}
        /\ m \notin {"Case", "CaseMark", "ColumnCase", "ColumnCaseMark"}
    BY DEF Arms, Tokened, Grammars, Orderings, Vocabularies
  <2> QED
    BY <1>1, <2>1, NoOldLayers
<1>7. \A m \in Grammars : Laid(m, b, "none", GrammarMode(m, b), FALSE, "none", "none", "none", "none")
  <2> TAKE m \in Grammars
  <2>1. /\ m \in Arms /\ m \notin Orderings \cup Vocabularies
        /\ m \notin {"ResidualPriced", "ResidualPriceFilter", "AlphabetPerm", "AlphabetRandom"}
        /\ m \notin {"Case", "CaseMark", "ColumnCase", "ColumnCaseMark"}
    BY DEF Arms, Grammars, Orderings, Vocabularies
  <2>2. LayerParts(m, b)["hoist"] = FALSE
    BY ArmsHoist
  <2>3. TokenKind(m, b) = "none"
    BY ArmsToken
  <2>4. ReorderKind(m, b) = "none" /\ CaseKind(m, b) = "none" /\ PermOf(m, b) = "none" /\ ~PricedVocab(m, b)
    BY <2>1, NoOldLayers
  <2> QED
    BY <1>1, <2>1, <2>2, <2>3, <2>4
<1>8. \A m \in Orderings \cup Vocabularies :
        Laid(m, b, ReorderKind(m, b), "none", TRUE, "none", TokenKind(m, b),
             IF PricedVocab(m, b) THEN m ELSE "none", "none")
  <2> TAKE m \in Orderings \cup Vocabularies
  <2>1. /\ m \in Arms /\ m \notin Grammars /\ m \notin {"AlphabetPerm", "AlphabetRandom"}
        /\ m \notin {"Case", "CaseMark", "ColumnCase", "ColumnCaseMark", "WordToken", "WordTokenReverse"}
    BY DEF Arms, Grammars, Orderings, Vocabularies
  <2>2. LayerParts(m, b)["hoist"] = TRUE
    BY <2>1, ArmsHoist
  <2> QED
    BY <1>1, <2>1, <2>2, NoOldLayers
<1>9. \A m \in Orderings \cup {"ResidualMtf", "ResidualMoveToSecond"} : m \in Arms /\ ~PricedVocab(m, b)
  <2>1. \A m \in Orderings \cup {"ResidualMtf", "ResidualMoveToSecond"} :
          m \in Arms /\ m \notin {"ResidualPriced", "ResidualPriceFilter"}
    BY DEF Arms, Orderings, Vocabularies
  <2> QED
    BY <2>1, NoOldLayers
<1>10. /\ \A m \in {"Case", "CaseMark", "WordToken", "WordTokenReverse"} : LayerParts(m, b)["hoist"] = FALSE
       /\ \A m \in {"ColumnCase", "ColumnCaseMark"} \cup (Tokened \ {"WordToken", "WordTokenReverse"}) :
            LayerParts(m, b)["hoist"] = TRUE
  BY ArmsHoist DEF Untokened, Tokened
<1>11. \A m \in {"ResidualPriced", "ResidualPriceFilter"} :
         m \in Vocabularies /\ TokenKind(m, b) = "reverse" /\ ReorderKind(m, b) = "full" /\ PricedVocab(m, b)
  BY ArmsToken, OwnLayers DEF Vocabularies
<1>12. "WordToken" \in Tokened /\ "WordTokenReverse" \in Tokened
       /\ "ResidualMtf" \in Vocabularies /\ "ResidualMoveToSecond" \in Vocabularies
  BY DEF Tokened, Vocabularies
<1>13. \A m \in {"Case", "CaseMark"} : Laid(m, b, "none", "none", FALSE, CaseKind(m, b), "none", "none", "none")
  BY <1>5, <1>10
<1>14. \A m \in {"ColumnCase", "ColumnCaseMark"} :
         Laid(m, b, "none", "none", TRUE, CaseKind(m, b), "none", "none", "none")
  BY <1>5, <1>10
<1>15. /\ \A m \in {"WordToken", "WordTokenReverse"} :
            Laid(m, b, "none", "none", FALSE, "none", TokenKind(m, b), "none", "none")
       /\ \A m \in Tokened \ {"WordToken", "WordTokenReverse"} :
            Laid(m, b, "none", "none", TRUE, "none", TokenKind(m, b), "none", "none")
  BY <1>6, <1>10, <1>12
<1>16. \A m \in Orderings \cup {"ResidualMtf", "ResidualMoveToSecond"} :
         Laid(m, b, ReorderKind(m, b), "none", TRUE, "none", TokenKind(m, b), "none", "none")
  BY <1>8, <1>9, <1>12
<1>17. \A m \in {"ResidualPriced", "ResidualPriceFilter"} :
         Laid(m, b, "full", "none", TRUE, "none", "reverse", m, "none")
  BY <1>8, <1>11
<1> QED
  BY <1>2, <1>4, <1>7, <1>13, <1>14, <1>15, <1>16, <1>17

LEMMA LayerArmsDiffer ==
  ASSUME NEW b, Full(b), NEW q \in LayerArms
  PROVE  OneLayer(q[1], q[2], q[3], b)
<1>1. OneLayer("perm", "AlphabetRandom", "AlphabetPerm", b)
  <2>1. Laid("AlphabetRandom", b, "none", "none", TRUE, "none", "none", "none", "random")
    BY RowsOf, OwnLayers
  <2>2. Laid("AlphabetPerm", b, "none", "none", TRUE, "none", "none", "none", "freq")
    BY RowsOf, OwnLayers
  <2> QED
    BY <2>1, <2>2 DEF Laid, OneLayer, LayerFields
<1>2. OneLayer("case", "CaseMark", "Case", b)
  <2>1. Laid("CaseMark", b, "none", "none", FALSE, "mark", "none", "none", "none")
    BY RowsOf, OwnLayers
  <2>2. Laid("Case", b, "none", "none", FALSE, "merge", "none", "none", "none")
    BY RowsOf, OwnLayers
  <2> QED
    BY <2>1, <2>2 DEF Laid, OneLayer, LayerFields
<1>3. OneLayer("case", "ColumnCaseMark", "ColumnCase", b)
  <2>1. Laid("ColumnCaseMark", b, "none", "none", TRUE, "mark", "none", "none", "none")
    BY RowsOf, OwnLayers
  <2>2. Laid("ColumnCase", b, "none", "none", TRUE, "merge", "none", "none", "none")
    BY RowsOf, OwnLayers
  <2> QED
    BY <2>1, <2>2 DEF Laid, OneLayer, LayerFields
<1>4. OneLayer("token", "WordTokenReverse", "WordToken", b)
  <2>1. Laid("WordTokenReverse", b, "none", "none", FALSE, "none", "reverse", "none", "none")
    BY RowsOf, ArmsToken
  <2>2. Laid("WordToken", b, "none", "none", FALSE, "none", "words", "none", "none")
    BY RowsOf, ArmsToken
  <2> QED
    BY <2>1, <2>2 DEF Laid, OneLayer, LayerFields
<1>5. OneLayer("token", "ColumnWordTokenReverse", "ColumnWordToken", b)
  <2>1. Laid("ColumnWordTokenReverse", b, "none", "none", TRUE, "none", "reverse", "none", "none")
    BY RowsOf, ArmsToken DEF Tokened
  <2>2. Laid("ColumnWordToken", b, "none", "none", TRUE, "none", "words", "none", "none")
    BY RowsOf, ArmsToken DEF Tokened
  <2> QED
    BY <2>1, <2>2 DEF Laid, OneLayer, LayerFields
<1>6. OneLayer("token", "ColumnWordTokenPhraseFreq", "ColumnWordTokenPhrase", b)
  <2>1. Laid("ColumnWordTokenPhraseFreq", b, "none", "none", TRUE, "none", "phrasefreq", "none", "none")
    BY RowsOf, ArmsToken DEF Tokened
  <2>2. Laid("ColumnWordTokenPhrase", b, "none", "none", TRUE, "none", "phrase", "none", "none")
    BY RowsOf, ArmsToken DEF Tokened
  <2> QED
    BY <2>1, <2>2 DEF Laid, OneLayer, LayerFields
<1>7. OneLayer("grammar", "GrammarMtf", "Grammar", b)
  <2>1. Laid("GrammarMtf", b, "none", "mtf", FALSE, "none", "none", "none", "none")
    BY RowsOf, OwnLayers DEF Grammars
  <2>2. Laid("Grammar", b, "none", "verbatim", FALSE, "none", "none", "none", "none")
    BY RowsOf, OwnLayers DEF Grammars
  <2> QED
    BY <2>1, <2>2 DEF Laid, OneLayer, LayerFields
<1>8. OneLayer("grammar", "GrammarMr", "Grammar", b)
  <2>1. Laid("GrammarMr", b, "none", "mr", FALSE, "none", "none", "none", "none")
    BY RowsOf, OwnLayers DEF Grammars
  <2>2. Laid("Grammar", b, "none", "verbatim", FALSE, "none", "none", "none", "none")
    BY RowsOf, OwnLayers DEF Grammars
  <2> QED
    BY <2>1, <2>2 DEF Laid, OneLayer, LayerFields
<1>9. OneLayer("grammar", "GrammarFirstUse", "Grammar", b)
  <2>1. Laid("GrammarFirstUse", b, "none", "firstuse", FALSE, "none", "none", "none", "none")
    BY RowsOf, OwnLayers DEF Grammars
  <2>2. Laid("Grammar", b, "none", "verbatim", FALSE, "none", "none", "none", "none")
    BY RowsOf, OwnLayers DEF Grammars
  <2> QED
    BY <2>1, <2>2 DEF Laid, OneLayer, LayerFields
<1>10. OneLayer("order", "ReorderId", "Phase6", b)
  <2>1. Laid("ReorderId", b, "identity", "none", TRUE, "none", "reverse", "none", "none")
    BY RowsOf, OwnLayers, ArmsToken DEF Orderings, Screens
  <2>2. Laid("Phase6", b, "none", "none", TRUE, "none", "reverse", "none", "none")
    BY RowsOf, OwnLayers, ArmsToken DEF Orderings, Screens
  <2> QED
    BY <2>1, <2>2 DEF Laid, OneLayer, LayerFields
<1>11. OneLayer("order", "ReorderShuffle", "ReorderFull", b)
  <2>1. Laid("ReorderShuffle", b, "shuffle", "none", TRUE, "none", "reverse", "none", "none")
    BY RowsOf, OwnLayers, ArmsToken DEF Orderings
  <2>2. Laid("ReorderFull", b, "full", "none", TRUE, "none", "reverse", "none", "none")
    BY RowsOf, OwnLayers, ArmsToken DEF Orderings
  <2> QED
    BY <2>1, <2>2 DEF Laid, OneLayer, LayerFields
<1>12. OneLayer("token", "ResidualMoveToSecond", "ResidualMtf", b)
  <2>1. Laid("ResidualMoveToSecond", b, "full", "none", TRUE, "none", "second", "none", "none")
    BY RowsOf, OwnLayers, ArmsToken DEF Vocabularies
  <2>2. Laid("ResidualMtf", b, "full", "none", TRUE, "none", "mtf", "none", "none")
    BY RowsOf, OwnLayers, ArmsToken DEF Vocabularies
  <2> QED
    BY <2>1, <2>2 DEF Laid, OneLayer, LayerFields
<1>13. OneLayer("price", "ResidualPriceFilter", "ResidualPriced", b)
  <2>1. Laid("ResidualPriceFilter", b, "full", "none", TRUE, "none", "reverse", "ResidualPriceFilter", "none")
    BY RowsOf
  <2>2. Laid("ResidualPriced", b, "full", "none", TRUE, "none", "reverse", "ResidualPriced", "none")
    BY RowsOf
  <2> QED
    BY <2>1, <2>2 DEF Laid, OneLayer, LayerFields
<1> QED
  BY <1>1, <1>2, <1>3, <1>4, <1>5, <1>6, <1>7, <1>8, <1>9, <1>10, <1>11, <1>12, <1>13 DEF LayerArms

(* Two rows that are the same.                                             *)
LEMMA RowsEqual ==
  ASSUME NEW m, NEW c, NEW b, NEW o, NEW g, NEW h, NEW k, NEW t, NEW r, NEW p,
         Laid(m, b, o, g, h, k, t, r, p), Laid(c, b, o, g, h, k, t, r, p)
  PROVE  SameLayers(m, c, b)
  BY DEF Laid, SameLayers, LayerFields

LEMMA ModelArmsAlike ==
  ASSUME NEW b, Full(b), NEW q \in ModelArms
  PROVE  SameLayers(q[2], q[3], b)
<1> DEFINE Early   == {"InfoInherit", "InfoUnrelated", "Column", "ColumnShuffled", "ColumnNoLine"}
           Out     == {"AlphabetPerm", "AlphabetRandom", "Case", "CaseMark", "ColumnCase", "ColumnCaseMark"}
           Ordered == {"Residual", "ResidualCtl", "ReorderFull"}
           Measured == Singles \cup Screens
<1>1. \A m \in Ordered : Laid(m, b, "full", "none", TRUE, "none", "reverse", "none", "none")
  <2>1. \A m \in Ordered : m \in Orderings /\ TokenKind(m, b) = "reverse" /\ ReorderKind(m, b) = "full"
    BY ArmsToken, OwnLayers DEF Orderings
  <2> QED
    BY <2>1, RowsOf
<1>2. /\ Early \subseteq (Untokened \cup Singles \cup Screens) \ Out /\ Early \subseteq Untokened \cup Grammars
      /\ Measured \subseteq (Untokened \cup Singles \cup Screens) \ Out
  BY DEF Untokened, Singles, Screens
<1>3. \A m \in Early : Laid(m, b, "none", "none", TRUE, "none", "none", "none", "none")
  <2> TAKE m \in Early
  <2>1. m \in (Untokened \cup Singles \cup Screens) \ Out /\ m \in Untokened \cup Grammars
    BY <1>2
  <2>2. TokenKind(m, b) = "none"
    BY <2>1, ArmsToken
  <2>3. Laid(m, b, "none", "none", TRUE, "none", TokenKind(m, b), "none", "none")
    BY <2>1, RowsOf
  <2> QED
    BY <2>2, <2>3
<1>4. \A m \in Measured : Laid(m, b, "none", "none", TRUE, "none", "reverse", "none", "none")
  <2> TAKE m \in Measured
  <2>1. m \in (Untokened \cup Singles \cup Screens) \ Out
    BY <1>2
  <2>2. TokenKind(m, b) = "reverse"
    BY ArmsToken
  <2>3. Laid(m, b, "none", "none", TRUE, "none", TokenKind(m, b), "none", "none")
    BY <2>1, RowsOf
  <2> QED
    BY <2>2, <2>3
<1>5. \/ q[2] \in Early /\ q[3] \in Early
      \/ q[2] \in Measured /\ q[3] \in Measured
      \/ q[2] \in Ordered /\ q[3] \in Ordered
  BY DEF ModelArms, Singles, Screens
<1> HIDE DEF Early, Measured, Ordered
<1>6. CASE q[2] \in Early /\ q[3] \in Early
  BY <1>3, <1>6, RowsEqual
<1>7. CASE q[2] \in Measured /\ q[3] \in Measured
  BY <1>4, <1>7, RowsEqual
<1>8. CASE q[2] \in Ordered /\ q[3] \in Ordered
  BY <1>1, <1>8, RowsEqual
<1> QED
  BY <1>5, <1>6, <1>7, <1>8

(* The chain of builders before the rates, from the match family on.       *)
Mixed(c, m, b) ==
  Screened(Calibrated(Stated(Classed(Distanced(c, m, b), m, b), m, b), m, b), m)
Chain(m, n, b) == Mixed(Matched(Columned(Sized(m, n), m), m, b), m, b)
Finished(c, i, tune, b) == WithTune(WithInfo(WithRates(c), i), tune, b)

LEMMA ModelIs ==
  ASSUME NEW m, NEW tune, NEW n, NEW b, "submission" \notin b
  PROVE  ModelFor(m, tune, n, b) = Finished(Chain(m, n, b), Info(m, b), tune, b)
  BY Zenon DEF ModelFor, Config, Finished, Chain, Mixed

(* What is underneath the arms, for a length.                              *)
Columnar(n)  == WithColumn(ForSize(n), FALSE)
Composite(n) ==
  WithMatchByte(WithRepOffsets(WithMatchTier(WithMatch2(Columnar(n), 8), 4, 1), 0), FALSE)
Calibrating(n) == WithSse3(Composite(n))

\* The methods before the composite have no part of the match family ...
Solitary == Untokened \cup Grammars \cup Tokened

LEMMA ArmsColumn ==
  ASSUME NEW n
  PROVE  /\ \A m \in {"AlphabetPerm", "AlphabetRandom", "InfoInherit", "InfoUnrelated", "Case", "CaseMark",
                      "WordToken", "WordTokenReverse"} \cup Grammars : Columned(Sized(m, n), m) = ForSize(n)
         /\ \A m \in {"Column", "ColumnCase", "ColumnCaseMark"} \cup (Tokened \ {"WordToken", "WordTokenReverse"})
                       \cup Singles \cup Screens \cup Orderings \cup Vocabularies :
              Columned(Sized(m, n), m) = Columnar(n)
         /\ Columned(Sized("ColumnShuffled", n), "ColumnShuffled") = WithColumn(ForSize(n), TRUE)
         /\ Columned(Sized("ColumnNoLine", n), "ColumnNoLine") = WithColumnKind(ForSize(n), "ColumnNoLine")
<1>1. \A m \in Arms : Sized(m, n) = ForSize(n)
  BY DEF Sized, Arms, Untokened, Grammars, Tokened, Singles, Screens, Orderings, Vocabularies
<1>2. \A m \in {"AlphabetPerm", "AlphabetRandom", "InfoInherit", "InfoUnrelated", "Case", "CaseMark",
                "WordToken", "WordTokenReverse"} \cup Grammars : Columned(ForSize(n), m) = ForSize(n)
  <2> TAKE m \in {"AlphabetPerm", "AlphabetRandom", "InfoInherit", "InfoUnrelated", "Case", "CaseMark",
                  "WordToken", "WordTokenReverse"} \cup Grammars
  <2>1. m \notin OnPhase4Parent \cup ColumnFamily /\ m # "ColumnShuffled" /\ m # "ColumnNoLine"
    BY DEF ColumnFamily, OnPhase4Parent, Phase4Singles, Phase6Screens, ReorderFamily, Variants, Grammars
  <2> QED
    BY <2>1 DEF Columned
<1>3. \A m \in {"Column", "ColumnCase", "ColumnCaseMark"} \cup (Tokened \ {"WordToken", "WordTokenReverse"})
                 \cup Singles : Columned(ForSize(n), m) = Columnar(n)
  BY DEF Columned, ColumnFamily, Phase4Singles, Tokened, Singles, Columnar
<1>4. \A m \in Screens \cup Orderings \cup Vocabularies : m \in OnPhase4Parent
  BY DEF OnPhase4Parent, Phase6Screens, ReorderFamily, Variants, Screens, Orderings, Vocabularies
<1>5. \A m \in OnPhase4Parent : Columned(ForSize(n), m) = Columnar(n)
  <2> TAKE m \in OnPhase4Parent
  <2>1. m # "ColumnShuffled" /\ m # "ColumnNoLine"
    BY DEF OnPhase4Parent, Phase6Screens, ReorderFamily, Variants
  <2> QED
    BY <2>1 DEF Columned, Columnar
<1>6. /\ Columned(ForSize(n), "ColumnShuffled") = WithColumn(ForSize(n), TRUE)
      /\ Columned(ForSize(n), "ColumnNoLine") = WithColumnKind(ForSize(n), "ColumnNoLine")
  BY DEF Columned, ColumnFamily, OnPhase4Parent, Phase4Singles, Phase6Screens, ReorderFamily, Variants
<1>7. /\ {"AlphabetPerm", "AlphabetRandom", "InfoInherit", "InfoUnrelated", "Case", "CaseMark",
          "WordToken", "WordTokenReverse"} \cup Grammars \subseteq Arms
      /\ {"Column", "ColumnCase", "ColumnCaseMark"} \cup (Tokened \ {"WordToken", "WordTokenReverse"})
           \cup Singles \cup Screens \cup Orderings \cup Vocabularies \subseteq Arms
      /\ "ColumnShuffled" \in Arms /\ "ColumnNoLine" \in Arms
  BY DEF Arms, Untokened, Tokened
<1> QED
  BY <1>1, <1>2, <1>3, <1>4, <1>5, <1>6, <1>7

LEMMA ArmsMatch ==
  ASSUME NEW b, Full(b), NEW c
  PROVE  /\ \A m \in Solitary \cup {"WordClass", "WordClassConst"} : Matched(c, m, b) = WithRepOffsets(c, 0)
         /\ Matched(c, "LongMatch6", b) = WithRepOffsets(WithMatch2(c, 6), 0)
         /\ Matched(c, "LongMatch8", b) = WithRepOffsets(WithMatch2(c, 8), 0)
         /\ Matched(c, "MatchByte", b) = WithMatchByte(WithRepOffsets(c, 0), FALSE)
         /\ Matched(c, "MatchByteConst", b) = WithMatchByte(WithRepOffsets(c, 0), TRUE)
         /\ \A m \in Screens \cup Orderings \cup Vocabularies :
              Matched(c, m, b) = WithMatchByte(WithRepOffsets(WithMatchTier(WithMatch2(c, 8), 4, 1), 0), FALSE)
<1>1. \A m \in Arms : RepOffsets(m, b) = 0
  BY DEF RepOffsets, Arms, Untokened, Grammars, Tokened, Singles, Screens, Orderings, Vocabularies
<1>2. \A m \in Solitary \cup {"WordClass", "WordClassConst", "MatchByte", "MatchByteConst"} :
        Match2Min(m, b) = 0
  BY DEF Match2Min, OnPhase4Parent, Phase6Screens, ReorderFamily, Variants, Solitary, Untokened, Grammars, Tokened
<1>3. \A m \in Solitary \cup Singles : SparseTiers(m, b) = {}
  BY DEF SparseTiers, OnPhase4Parent, Phase6Screens, ReorderFamily, Variants, Solitary, Untokened, Grammars,
         Tokened, Singles
<1>4. \A m \in Solitary \cup {"WordClass", "WordClassConst", "LongMatch6", "LongMatch8"} :
        MatchByteKind(m, b) = "none"
  BY DEF MatchByteKind, OnPhase4Parent, Phase6Screens, ReorderFamily, Variants, Solitary, Untokened, Grammars,
         Tokened
<1>5. /\ Match2Min("LongMatch6", b) = 6 /\ Match2Min("LongMatch8", b) = 8
      /\ MatchByteKind("MatchByte", b) = "real" /\ MatchByteKind("MatchByteConst", b) = "control"
  BY Features DEF Match2Min, MatchByteKind, OnPhase4Parent, Phase6Screens, ReorderFamily, Variants
<1>6. \A m \in Screens \cup Orderings \cup Vocabularies : m \in OnPhase4Parent /\ m \in Arms
  BY DEF OnPhase4Parent, Phase6Screens, ReorderFamily, Variants, Arms, Screens, Orderings, Vocabularies
<1>7. \A m \in OnPhase4Parent :
        Match2Min(m, b) = 8 /\ SparseTiers(m, b) = {<<4, 1>>} /\ MatchByteKind(m, b) = "real"
  <2> TAKE m \in OnPhase4Parent
  <2>1. m \notin {"LongMatch6", "LongMatch12", "LongMatch16", "LongMatch24", "SparseMatch6g1", "SparseMatch6g2"}
    BY DEF OnPhase4Parent, Phase6Screens, ReorderFamily, Variants
  <2> QED
    BY <2>1, Features DEF Match2Min, SparseTiers, MatchByteKind
<1>8. \A m \in Solitary \cup Singles : m \in Arms
  BY DEF Arms, Solitary
<1>9. \A d, m : SparseTiers(m, b) = {} => Sparsed(d, m, b) = d
  BY DEF Sparsed
<1>10. \A d, m : SparseTiers(m, b) = {<<4, 1>>} => Sparsed(d, m, b) = WithMatchTier(d, 4, 1)
  <2> TAKE d, m
  <2>1. PICK t : t = CHOOSE q \in {<<4, 1>>} : TRUE
    OBVIOUS
  <2>2. t = <<4, 1>>
    BY <2>1
  <2>3. t[1] = 4 /\ t[2] = 1
    BY <2>2
  <2> QED
    BY <2>1, <2>3 DEF Sparsed
<1>11. ASSUME NEW m, Match2Min(m, b) = 0 PROVE \A d : Match2d(d, m, b) = d
  BY <1>11 DEF Match2d
<1>12. ASSUME NEW m, Match2Min(m, b) \in {6, 8} PROVE \A d : Match2d(d, m, b) = WithMatch2(d, Match2Min(m, b))
  BY <1>12 DEF Match2d
<1>13. ASSUME NEW m, MatchByteKind(m, b) = "none" PROVE \A d : MatchByted(d, m, b) = d
  BY <1>13 DEF MatchByted
<1>14. ASSUME NEW m, MatchByteKind(m, b) = "real" PROVE \A d : MatchByted(d, m, b) = WithMatchByte(d, FALSE)
  BY <1>14 DEF MatchByted
<1>15. ASSUME NEW m, MatchByteKind(m, b) = "control" PROVE \A d : MatchByted(d, m, b) = WithMatchByte(d, TRUE)
  BY <1>15 DEF MatchByted
<1>16. \A m \in Solitary \cup {"WordClass", "WordClassConst"} : Matched(c, m, b) = WithRepOffsets(c, 0)
  <2> TAKE m \in Solitary \cup {"WordClass", "WordClassConst"}
  <2>1. m \in Solitary \cup Singles
    BY DEF Singles
  <2> QED
    BY <2>1, <1>1, <1>2, <1>3, <1>4, <1>8, <1>9, <1>11, <1>13 DEF Matched
<1>17. \A m \in {"LongMatch6", "LongMatch8", "MatchByte", "MatchByteConst"} : m \in Arms /\ SparseTiers(m, b) = {}
  BY <1>3, <1>8 DEF Singles
<1>18. /\ Matched(c, "LongMatch6", b) = WithRepOffsets(WithMatch2(c, 6), 0)
       /\ Matched(c, "LongMatch8", b) = WithRepOffsets(WithMatch2(c, 8), 0)
  BY <1>1, <1>4, <1>5, <1>9, <1>12, <1>13, <1>17 DEF Matched
<1>19. /\ Matched(c, "MatchByte", b) = WithMatchByte(WithRepOffsets(c, 0), FALSE)
       /\ Matched(c, "MatchByteConst", b) = WithMatchByte(WithRepOffsets(c, 0), TRUE)
  BY <1>1, <1>2, <1>5, <1>9, <1>11, <1>14, <1>15, <1>17 DEF Matched
<1>20. \A m \in Screens \cup Orderings \cup Vocabularies :
         Matched(c, m, b) = WithMatchByte(WithRepOffsets(WithMatchTier(WithMatch2(c, 8), 4, 1), 0), FALSE)
  <2> TAKE m \in Screens \cup Orderings \cup Vocabularies
  <2>1. /\ RepOffsets(m, b) = 0 /\ Match2Min(m, b) = 8 /\ SparseTiers(m, b) = {<<4, 1>>}
        /\ MatchByteKind(m, b) = "real"
    BY <1>1, <1>6, <1>7
  <2>2. Match2d(c, m, b) = WithMatch2(c, 8)
    BY <2>1, <1>12
  <2>3. \A d : Sparsed(d, m, b) = WithMatchTier(d, 4, 1) /\ MatchByted(d, m, b) = WithMatchByte(d, FALSE)
    BY <2>1, <1>10, <1>14
  <2> QED
    BY <2>1, <2>2, <2>3 DEF Matched
<1> QED
  BY <1>16, <1>18, <1>19, <1>20

(* What the later builders leave alone.                                    *)
Calibrations == {"Sse3", "Sse3Ctl", "Isse", "IsseCtl", "Phase6", "Collision", "CollisionCtl", "Ppm", "PpmCtl",
                 "StemModel", "StemModelCtl"} \cup Orderings
StateMaps    == {"StateMap", "StateMapCtl", "StateMapRep"}
Screened6    == {"Sparse4g1", "Sparse4g1Ctl", "Sparse4g1Rep", "Icm", "IcmCtl", "IndirectChain", "Collision",
                 "CollisionCtl", "Ppm", "PpmCtl", "StemModel", "StemModelCtl", "Residual", "ResidualCtl"}
                  \cup Vocabularies

LEMMA LeftAlone ==
  ASSUME NEW b, NEW m \in Arms
  PROVE  /\ \A d : Distanced(d, m, b) = d
         /\ m \notin {"WordClass", "WordClassConst"} => \A d : Classed(d, m, b) = d
         /\ m \notin StateMaps => \A d : Stated(d, m, b) = d
         /\ m \notin Calibrations => \A d : Calibrated(d, m, b) = d
         /\ m \notin Screened6 => \A d : Screened(d, m) = d
<1>1. \A d : Distanced(d, m, b) = d
  <2>1. m # "DistMatch"
    BY DEF Arms, Untokened, Grammars, Tokened, Singles, Screens, Orderings, Vocabularies
  <2> QED
    BY <2>1 DEF Distanced, DistMatch
<1>2. m \notin {"WordClass", "WordClassConst"} => \A d : Classed(d, m, b) = d
  <2> HAVE m \notin {"WordClass", "WordClassConst"}
  <2>1. WordClassKind(m, b) = "none"
    BY DEF WordClassKind
  <2> QED
    BY <2>1 DEF Classed
<1>3. m \notin StateMaps => \A d : Stated(d, m, b) = d
  <2> HAVE m \notin StateMaps
  <2>1. StateMapKind(m, b) = "none" /\ ~StateMapRep(m, b)
    BY DEF StateMapKind, StateMapRep, StateMaps
  <2> QED
    BY <2>1 DEF Stated
<1>4. m \notin Calibrations => \A d : Calibrated(d, m, b) = d
  <2> HAVE m \notin Calibrations
  <2>1. m \notin Base6
    BY DEF Base6, Calibrations, Phase6Screens, ReorderFamily, Arms, Untokened, Grammars, Tokened, Singles,
           Screens, Orderings, Vocabularies
  <2>2. Sse3Kind(m, b) = "none" /\ m # "Isse" /\ m # "IsseCtl"
    BY DEF Sse3Kind, Calibrations
  <2> QED
    BY <2>1, <2>2 DEF Calibrated
<1>5. m \notin Screened6 => \A d : Screened(d, m) = d
  <2> HAVE m \notin Screened6
  <2>1. /\ m \notin {"Sparse4g1", "Sparse4g1Ctl", "Sparse4g1Rep", "Icm", "IcmCtl", "IndirectChain",
                     "Collision", "CollisionCtl", "Ppm", "PpmCtl", "StemModel", "StemModelCtl"}
        /\ m \notin {"IndirectDeep", "Spine", "ResidualCtl"} /\ m \notin {"Residual"} \cup Variants
    BY DEF Screened6, Variants, Arms, Untokened, Grammars, Tokened, Singles, Screens, Orderings, Vocabularies
  <2> QED
    BY <2>1 DEF Screened
<1> QED
  BY <1>1, <1>2, <1>3, <1>4, <1>5

LEMMA OwnBuilders ==
  ASSUME NEW b, Full(b), NEW d
  PROVE  /\ Classed(d, "WordClass", b) = WithWordClass(d, FALSE)
         /\ Classed(d, "WordClassConst", b) = WithWordClass(d, TRUE)
         /\ Stated(d, "StateMap", b) = WithStateOrders(d, <<2, 4, 6>>)
         /\ Stated(d, "StateMapCtl", b) = WithOrders(d, <<2, 4, 6>>)
         /\ Stated(d, "StateMapRep", b) = WithReplacedStateOrders(d, {2, 4, 6})
         /\ Calibrated(d, "Isse", b) = WithIsse(d) /\ Calibrated(d, "IsseCtl", b) = WithIsseCtl(d)
         /\ Calibrated(d, "Sse3Ctl", b) = WithSse3Ctl(d)
         /\ \A m \in Calibrations \ {"Isse", "IsseCtl", "Sse3Ctl"} : Calibrated(d, m, b) = WithSse3(d)
<1>1. /\ WordClassKind("WordClass", b) = "real" /\ WordClassKind("WordClassConst", b) = "control"
      /\ StateMapKind("StateMap", b) = "real" /\ StateMapKind("StateMapCtl", b) = "control"
      /\ StateMapKind("StateMapRep", b) = "none" /\ StateMapRep("StateMapRep", b)
      /\ ~StateMapRep("StateMap", b) /\ ~StateMapRep("StateMapCtl", b)
  BY Features DEF WordClassKind, StateMapKind, StateMapRep
<1>2. /\ Classed(d, "WordClass", b) = WithWordClass(d, FALSE)
      /\ Classed(d, "WordClassConst", b) = WithWordClass(d, TRUE)
  BY <1>1 DEF Classed
<1>3. /\ Stated(d, "StateMap", b) = WithStateOrders(d, <<2, 4, 6>>)
      /\ Stated(d, "StateMapCtl", b) = WithOrders(d, <<2, 4, 6>>)
      /\ Stated(d, "StateMapRep", b) = WithReplacedStateOrders(d, {2, 4, 6})
  BY <1>1 DEF Stated
<1>4. \A m \in {"Isse", "IsseCtl"} : Sse3Kind(m, b) = "none"
  BY DEF Sse3Kind
<1>5. Calibrated(d, "Isse", b) = WithIsse(d) /\ Calibrated(d, "IsseCtl", b) = WithIsseCtl(d)
  BY <1>4 DEF Calibrated
<1>6. Calibrated(d, "Sse3Ctl", b) = WithSse3Ctl(d)
  <2>1. Sse3Kind("Sse3Ctl", b) = "control" /\ "Sse3Ctl" \notin Base6
    BY Features DEF Sse3Kind, Base6, Phase6Screens, ReorderFamily
  <2> QED
    BY <2>1 DEF Calibrated
<1>7. \A m \in Calibrations \ {"Isse", "IsseCtl", "Sse3Ctl"} : Calibrated(d, m, b) = WithSse3(d)
  <2> TAKE m \in Calibrations \ {"Isse", "IsseCtl", "Sse3Ctl"}
  <2>1. m # "Isse" /\ m # "IsseCtl" /\ m # "Sse3Ctl"
    OBVIOUS
  <2>2. Sse3Kind(m, b) = "real" \/ m \in Base6
    BY Features DEF Sse3Kind, Base6, Phase6Screens, ReorderFamily, Calibrations, Orderings
  <2>3. Sse3Kind(m, b) # "control"
    BY <2>1 DEF Sse3Kind
  <2> QED
    BY <2>1, <2>2, <2>3 DEF Calibrated
<1> QED
  BY <1>2, <1>3, <1>5, <1>6, <1>7

LEMMA OwnScreens ==
  ASSUME NEW d
  PROVE  /\ Screened(d, "Sparse4g1") = WithSparse(d, 4, 1) /\ Screened(d, "Sparse4g1Ctl") = WithOrders(d, <<4>>)
         /\ Screened(d, "Sparse4g1Rep") = WithReplacedSparse(d, 4, 1)
         /\ Screened(d, "Icm") = WithIndirect(d, 2, 2, FALSE) /\ Screened(d, "IcmCtl") = WithIndirectCtl(d, 2, 2)
         /\ Screened(d, "IndirectChain") = WithIndirect(d, 2, 2, TRUE)
         /\ Screened(d, "Collision") = WithCollision(d, 1) /\ Screened(d, "CollisionCtl") = WithCollision(d, 2)
         /\ Screened(d, "StemModel") = WithStemModel(d, FALSE) /\ Screened(d, "StemModelCtl") = WithStemModel(d, TRUE)
         /\ Screened(d, "Ppm") = WithPpm(d, 4) /\ Screened(d, "PpmCtl") = WithPpm(d, 1)
         /\ Screened(d, "Residual") = WithResidual(d, FALSE) /\ Screened(d, "ResidualCtl") = WithResidual(d, TRUE)
         /\ \A m \in Vocabularies : Screened(d, m) = WithResidual(d, FALSE)
<1>1. /\ Screened(d, "Sparse4g1") = WithSparse(d, 4, 1) /\ Screened(d, "Sparse4g1Ctl") = WithOrders(d, <<4>>)
      /\ Screened(d, "Sparse4g1Rep") = WithReplacedSparse(d, 4, 1)
      /\ Screened(d, "Icm") = WithIndirect(d, 2, 2, FALSE) /\ Screened(d, "IcmCtl") = WithIndirectCtl(d, 2, 2)
      /\ Screened(d, "IndirectChain") = WithIndirect(d, 2, 2, TRUE)
      /\ Screened(d, "Collision") = WithCollision(d, 1) /\ Screened(d, "CollisionCtl") = WithCollision(d, 2)
  BY DEF Screened, Variants
<1>2. /\ Screened(d, "StemModel") = WithStemModel(d, FALSE) /\ Screened(d, "StemModelCtl") = WithStemModel(d, TRUE)
      /\ Screened(d, "Ppm") = WithPpm(d, 4) /\ Screened(d, "PpmCtl") = WithPpm(d, 1)
      /\ Screened(d, "ResidualCtl") = WithResidual(d, TRUE)
  BY DEF Screened, Variants
<1>3. \A m \in {"Residual"} \cup Vocabularies : Screened(d, m) = WithResidual(d, FALSE)
  <2> TAKE m \in {"Residual"} \cup Vocabularies
  <2>1. m \in {"Residual"} \cup Variants
    BY DEF Vocabularies, Variants
  <2>2. m \notin {"Sparse4g1", "Sparse4g1Ctl", "Sparse4g1Rep", "Icm", "IcmCtl", "IndirectChain", "IndirectDeep",
                  "Collision", "CollisionCtl", "Ppm", "PpmCtl", "StemModel", "StemModelCtl", "Spine", "ResidualCtl"}
    BY DEF Vocabularies
  <2> QED
    BY <2>1, <2>2 DEF Screened
<1> QED
  BY <1>1, <1>2, <1>3

(* The model of every arm before the rates.                                *)
Plain(n) == WithRepOffsets(ForSize(n), 0)
Lined(n) == WithRepOffsets(Columnar(n), 0)

Before  == {"AlphabetPerm", "AlphabetRandom", "InfoInherit", "InfoUnrelated", "Case", "CaseMark",
            "WordToken", "WordTokenReverse"} \cup Grammars
OnLines == {"Column", "ColumnCase", "ColumnCaseMark"} \cup (Tokened \ {"WordToken", "WordTokenReverse"})
Phase4Screens == {"Sparse4g1", "Sparse4g1Ctl", "Sparse4g1Rep", "Icm", "IcmCtl", "IndirectChain"}

LEMMA EarlyChains ==
  ASSUME NEW b, Full(b), NEW n
  PROVE  /\ \A m \in Before : Chain(m, n, b) = Plain(n)
         /\ \A m \in OnLines : Chain(m, n, b) = Lined(n)
         /\ Chain("ColumnShuffled", n, b) = WithRepOffsets(WithColumn(ForSize(n), TRUE), 0)
         /\ Chain("ColumnNoLine", n, b) = WithRepOffsets(WithColumnKind(ForSize(n), "ColumnNoLine"), 0)
         /\ Chain("LongMatch6", n, b) = WithRepOffsets(WithMatch2(Columnar(n), 6), 0)
         /\ Chain("LongMatch8", n, b) = WithRepOffsets(WithMatch2(Columnar(n), 8), 0)
         /\ Chain("MatchByte", n, b) = WithMatchByte(Lined(n), FALSE)
         /\ Chain("MatchByteConst", n, b) = WithMatchByte(Lined(n), TRUE)
         /\ Chain("WordClass", n, b) = WithWordClass(Lined(n), FALSE)
         /\ Chain("WordClassConst", n, b) = WithWordClass(Lined(n), TRUE)
<1> DEFINE S == Before \cup OnLines \cup {"ColumnShuffled", "ColumnNoLine"}
<1>1. /\ S \subseteq Arms /\ Singles \subseteq Arms
      /\ \A m \in S \cup Singles : m \notin StateMaps /\ m \notin Calibrations /\ m \notin Screened6
      /\ \A m \in S : m \in Solitary /\ m \notin {"WordClass", "WordClassConst"}
  BY DEF Before, OnLines, Arms, Untokened, Grammars, Tokened, Singles, Solitary, StateMaps, Calibrations,
         Screened6, Orderings, Vocabularies
<1>2. ASSUME NEW m \in S \cup Singles, m \notin {"WordClass", "WordClassConst"}
      PROVE  \A d : Mixed(d, m, b) = d
  BY <1>1, <1>2, LeftAlone DEF Mixed
<1>3. ASSUME NEW m \in S PROVE Chain(m, n, b) = WithRepOffsets(Columned(Sized(m, n), m), 0)
  <2>1. m \in Solitary /\ m \notin {"WordClass", "WordClassConst"} /\ m \in S \cup Singles
    BY <1>1
  <2>2. \A d : Matched(d, m, b) = WithRepOffsets(d, 0)
    <3> TAKE d
    <3>1. \A w \in Solitary \cup {"WordClass", "WordClassConst"} : Matched(d, w, b) = WithRepOffsets(d, 0)
      BY ArmsMatch, Zenon
    <3> QED
      BY <2>1, <3>1
  <2>3. \A d : Mixed(d, m, b) = d
    BY <1>2, <2>1
  <2> QED
    BY <2>2, <2>3 DEF Chain
<1>4. \A m \in Before : Chain(m, n, b) = Plain(n)
  <2>1. \A m \in Before : Columned(Sized(m, n), m) = ForSize(n)
    BY ArmsColumn DEF Before
  <2> QED
    BY <1>3, <2>1 DEF Plain
<1>5. \A m \in OnLines : Chain(m, n, b) = Lined(n)
  <2>1. \A m \in OnLines : Columned(Sized(m, n), m) = Columnar(n)
    BY ArmsColumn DEF OnLines
  <2> QED
    BY <1>3, <2>1 DEF Lined
<1>6. /\ Chain("ColumnShuffled", n, b) = WithRepOffsets(WithColumn(ForSize(n), TRUE), 0)
      /\ Chain("ColumnNoLine", n, b) = WithRepOffsets(WithColumnKind(ForSize(n), "ColumnNoLine"), 0)
  BY <1>3, ArmsColumn
<1>7. \A m \in Singles : Columned(Sized(m, n), m) = Columnar(n)
  BY ArmsColumn
<1>8. \A m \in {"LongMatch6", "LongMatch8", "MatchByte", "MatchByteConst"} :
        Chain(m, n, b) = Matched(Columnar(n), m, b)
  BY <1>2, <1>7 DEF Chain, Singles
<1>9. /\ Chain("LongMatch6", n, b) = WithRepOffsets(WithMatch2(Columnar(n), 6), 0)
      /\ Chain("LongMatch8", n, b) = WithRepOffsets(WithMatch2(Columnar(n), 8), 0)
      /\ Chain("MatchByte", n, b) = WithMatchByte(Lined(n), FALSE)
      /\ Chain("MatchByteConst", n, b) = WithMatchByte(Lined(n), TRUE)
  BY <1>8, ArmsMatch DEF Lined
<1>10. ASSUME NEW m \in {"WordClass", "WordClassConst"} PROVE \A d : Mixed(d, m, b) = Classed(d, m, b)
  <2>1. m \in Arms /\ m \notin StateMaps /\ m \notin Calibrations /\ m \notin Screened6
    BY <1>1 DEF Singles
  <2> QED
    BY <2>1, LeftAlone DEF Mixed
<1>11. ASSUME NEW m \in {"WordClass", "WordClassConst"} PROVE Chain(m, n, b) = Classed(Lined(n), m, b)
  <2>1. Columned(Sized(m, n), m) = Columnar(n)
    BY <1>7 DEF Singles
  <2>2. \A d : Matched(d, m, b) = WithRepOffsets(d, 0)
    <3> TAKE d
    <3>1. \A w \in Solitary \cup {"WordClass", "WordClassConst"} : Matched(d, w, b) = WithRepOffsets(d, 0)
      BY ArmsMatch, Zenon
    <3> QED
      BY <3>1
  <2>3. Matched(Columnar(n), m, b) = Lined(n)
    BY <2>2 DEF Lined
  <2> QED
    BY <1>10, <2>1, <2>3 DEF Chain
<1>12. /\ Chain("WordClass", n, b) = WithWordClass(Lined(n), FALSE)
       /\ Chain("WordClassConst", n, b) = WithWordClass(Lined(n), TRUE)
  BY <1>11, OwnBuilders
<1> QED
  BY <1>4, <1>5, <1>6, <1>9, <1>12

LEMMA LateChains ==
  ASSUME NEW b, Full(b), NEW n
  PROVE  /\ Chain("Phase4", n, b) = Composite(n)
         /\ Chain("StateMap", n, b) = WithStateOrders(Composite(n), <<2, 4, 6>>)
         /\ Chain("StateMapCtl", n, b) = WithOrders(Composite(n), <<2, 4, 6>>)
         /\ Chain("StateMapRep", n, b) = WithReplacedStateOrders(Composite(n), {2, 4, 6})
         /\ \A m \in Phase4Screens : Chain(m, n, b) = Screened(Composite(n), m)
         /\ \A m \in {"Sse3", "Phase6", "ReorderId", "ReorderShuffle", "ReorderFull"} :
              Chain(m, n, b) = Calibrating(n)
         /\ Chain("Sse3Ctl", n, b) = WithSse3Ctl(Composite(n))
         /\ Chain("Isse", n, b) = WithIsse(Composite(n)) /\ Chain("IsseCtl", n, b) = WithIsseCtl(Composite(n))
         /\ \A m \in {"Collision", "CollisionCtl", "Ppm", "PpmCtl", "StemModel", "StemModelCtl", "Residual",
                      "ResidualCtl"} : Chain(m, n, b) = Screened(Calibrating(n), m)
         /\ \A m \in Vocabularies : Chain(m, n, b) = WithResidual(Composite(n), FALSE)
<1> DEFINE S == Screens \cup Orderings \cup Vocabularies
<1>1. ASSUME NEW m \in S
      PROVE  m \in Arms /\ Chain(m, n, b) = Screened(Calibrated(Stated(Composite(n), m, b), m, b), m)
  <2>1. m \in Arms /\ m \notin {"WordClass", "WordClassConst"}
    BY DEF Arms, Screens, Orderings, Vocabularies
  <2>2. Columned(Sized(m, n), m) = Columnar(n)
    BY ArmsColumn
  <2>3. Matched(Columnar(n), m, b) = Composite(n)
    BY ArmsMatch DEF Composite
  <2>4. \A d : Distanced(d, m, b) = d /\ Classed(d, m, b) = d
    BY <2>1, LeftAlone
  <2> QED
    BY <2>1, <2>2, <2>3, <2>4 DEF Chain, Mixed
<1>2. \A m \in StateMaps : m \in S /\ m \notin Calibrations /\ m \notin Screened6
  BY DEF StateMaps, Screens, Calibrations, Screened6, Orderings, Vocabularies
<1>3. \A m \in StateMaps : Chain(m, n, b) = Stated(Composite(n), m, b)
  <2> TAKE m \in StateMaps
  <2>1. m \in S /\ m \in Arms /\ m \notin Calibrations /\ m \notin Screened6
    BY <1>1, <1>2
  <2>2. \A d : Calibrated(d, m, b) = d /\ Screened(d, m) = d
    BY <2>1, LeftAlone
  <2> QED
    BY <1>1, <2>1, <2>2
<1>4. \A m \in S \ StateMaps : Chain(m, n, b) = Screened(Calibrated(Composite(n), m, b), m)
  <2> TAKE m \in S \ StateMaps
  <2>1. Stated(Composite(n), m, b) = Composite(n)
    BY <1>1, LeftAlone
  <2> QED
    BY <1>1, <2>1
<1>5. /\ "Phase4" \in S \ StateMaps /\ "Phase4" \notin Calibrations /\ "Phase4" \notin Screened6
      /\ \A m \in Phase4Screens \cup Vocabularies : m \in S \ StateMaps /\ m \notin Calibrations
  BY DEF Screens, Phase4Screens, Vocabularies, StateMaps, Calibrations, Screened6, Orderings
<1>6. \A m \in {"Phase4"} \cup Phase4Screens \cup Vocabularies : Chain(m, n, b) = Screened(Composite(n), m)
  <2> TAKE m \in {"Phase4"} \cup Phase4Screens \cup Vocabularies
  <2>1. m \in S \ StateMaps /\ m \notin Calibrations /\ m \in Arms
    BY <1>1, <1>5
  <2>2. Calibrated(Composite(n), m, b) = Composite(n)
    BY <2>1, LeftAlone
  <2> QED
    BY <1>4, <2>1, <2>2
<1>7. Chain("Phase4", n, b) = Composite(n)
  <2>1. Screened(Composite(n), "Phase4") = Composite(n)
    BY <1>1, <1>5, LeftAlone
  <2> QED
    BY <1>6, <2>1
<1>8. \A m \in Calibrations : m \in S \ StateMaps
  BY DEF Calibrations, StateMaps, Screens, Orderings, Vocabularies
<1>9. \A m \in Calibrations : Chain(m, n, b) = Screened(Calibrated(Composite(n), m, b), m)
  BY <1>4, <1>8
<1>10. \A m \in Calibrations \ {"Isse", "IsseCtl", "Sse3Ctl"} : Chain(m, n, b) = Screened(Calibrating(n), m)
  BY <1>9, OwnBuilders DEF Calibrating
<1>11. \A m \in {"Sse3", "Phase6", "ReorderId", "ReorderShuffle", "ReorderFull", "Sse3Ctl", "Isse", "IsseCtl"} :
         m \in Calibrations /\ m \notin Screened6
  BY DEF Calibrations, Screened6, Orderings, Vocabularies
<1>12. \A m \in {"Sse3", "Phase6", "ReorderId", "ReorderShuffle", "ReorderFull", "Sse3Ctl", "Isse", "IsseCtl"} :
         \A d : Screened(d, m) = d
  BY <1>1, <1>8, <1>11, LeftAlone
<1>13. \A m \in {"Sse3", "Phase6", "ReorderId", "ReorderShuffle", "ReorderFull"} : Chain(m, n, b) = Calibrating(n)
  BY <1>10, <1>11, <1>12
<1>14. /\ Chain("Sse3Ctl", n, b) = WithSse3Ctl(Composite(n))
       /\ Chain("Isse", n, b) = WithIsse(Composite(n)) /\ Chain("IsseCtl", n, b) = WithIsseCtl(Composite(n))
  <2>1. \A m \in {"Sse3Ctl", "Isse", "IsseCtl"} : Chain(m, n, b) = Calibrated(Composite(n), m, b)
    BY <1>9, <1>11, <1>12
  <2>2. /\ Calibrated(Composite(n), "Sse3Ctl", b) = WithSse3Ctl(Composite(n))
        /\ Calibrated(Composite(n), "Isse", b) = WithIsse(Composite(n))
        /\ Calibrated(Composite(n), "IsseCtl", b) = WithIsseCtl(Composite(n))
    BY OwnBuilders
  <2> QED
    BY <2>1, <2>2
<1>15. \A m \in {"Collision", "CollisionCtl", "Ppm", "PpmCtl", "StemModel", "StemModelCtl", "Residual",
                 "ResidualCtl"} : m \in Calibrations \ {"Isse", "IsseCtl", "Sse3Ctl"}
  BY DEF Calibrations, Orderings
<1>16. \A m \in {"Collision", "CollisionCtl", "Ppm", "PpmCtl", "StemModel", "StemModelCtl", "Residual",
                 "ResidualCtl"} : Chain(m, n, b) = Screened(Calibrating(n), m)
  BY <1>10, <1>15
<1>17. \A m \in Vocabularies : Chain(m, n, b) = WithResidual(Composite(n), FALSE)
  BY <1>6, OwnScreens
<1>18. /\ Chain("StateMap", n, b) = WithStateOrders(Composite(n), <<2, 4, 6>>)
       /\ Chain("StateMapCtl", n, b) = WithOrders(Composite(n), <<2, 4, 6>>)
       /\ Chain("StateMapRep", n, b) = WithReplacedStateOrders(Composite(n), {2, 4, 6})
  BY <1>3, OwnBuilders DEF StateMaps
<1> QED
  BY <1>6, <1>7, <1>13, <1>14, <1>16, <1>17, <1>18

(* Everything but the experts is the same.                                 *)
Alike(c, d) ==
  /\ c.matches = d.matches /\ c.rep = d.rep /\ c.dist = d.dist /\ c.apm3 = d.apm3
  /\ c.collision = d.collision /\ c.ppm = d.ppm /\ c.residual = d.residual

(* As many experts, and one of another kind in its place.                  *)
KindsApart(s, u) == Len(s) = Len(u) /\ \E k \in 1 .. Len(s) : s[k].kind # u[k].kind
SpecsApart(c, d) == Alike(c, d) /\ KindsApart(c.specs, d.specs)

LEMMA SpecsAlike ==
  ASSUME NEW t \in Nat, NEW c \in Configs(t), NEW x
  PROVE  [c EXCEPT !.specs = x].specs = x /\ Alike([c EXCEPT !.specs = x], c)
  BY DEF Configs, Alike

LEMMA LastAppended ==
  ASSUME NEW S, NEW s \in Seq(S), NEW e \in S
  PROVE  /\ Len(Append(s, e)) = Len(s) + 1 /\ Len(s) + 1 \in 1 .. Len(Append(s, e))
         /\ Append(s, e)[Len(s) + 1] = e
         /\ \A k \in 1 .. Len(s) : Append(s, e)[k] = s[k]
  OBVIOUS

(* An expert goes to the end and leaves the rest as it was.                *)
LEMMA ExpertAtEnd ==
  ASSUME NEW t \in Nat, NEW c, Sound(c, t), NEW kind \in Kinds, NEW cap \in Nat,
         NEW d, d = WithExpert(c, kind, cap)
  PROVE  /\ Alike(d, c) /\ Len(d.specs) = Len(c.specs) + 1 /\ Len(c.specs) + 1 \in 1 .. Len(d.specs)
         /\ d.specs[Len(c.specs) + 1].kind = kind
         /\ \A k \in 1 .. Len(c.specs) : d.specs[k] = c.specs[k]
<1>1. PICK n : n = AtMost(c.specs[1].bits, cap)
  OBVIOUS
<1>2. n \in 0 .. t
  BY <1>1, FirstBits DEF AtMost
<1>3. PICK e : e = Expert(kind, n, 5)
  OBVIOUS
<1>4. e \in Experts(t) /\ e.kind = kind
  BY <1>2, <1>3 DEF Expert, Experts
<1>5. PICK s : s = c.specs
  OBVIOUS
<1>6. s \in Seq(Experts(t)) /\ c \in Configs(t)
  BY <1>5, ConfigFacts DEF Sound
<1>7. d = [c EXCEPT !.specs = Append(s, e)]
  BY <1>1, <1>3, <1>5 DEF WithExpert
<1>8. PICK a : a = Append(s, e)
  OBVIOUS
<1>9. d.specs = a /\ Alike(d, c)
  BY <1>6, <1>7, <1>8, SpecsAlike
<1>10. /\ Len(a) = Len(s) + 1 /\ Len(s) + 1 \in 1 .. Len(a) /\ a[Len(s) + 1] = e
       /\ \A k \in 1 .. Len(s) : a[k] = s[k]
  BY <1>4, <1>6, <1>8, LastAppended
<1> QED
  BY <1>4, <1>5, <1>9, <1>10

LEMMA AlikeBoth ==
  ASSUME NEW c, NEW d, NEW e, Alike(d, c), Alike(e, c)
  PROVE  Alike(d, e)
  BY DEF Alike

LEMMA ExpertArms ==
  ASSUME NEW t \in Nat, NEW c, Sound(c, t), NEW kind \in Kinds, NEW cap \in Nat,
         NEW other \in Kinds, NEW size \in Nat, kind # other
  PROVE  SpecsApart(WithExpert(c, kind, cap), WithExpert(c, other, size))
<1>1. PICK d, e : d = WithExpert(c, kind, cap) /\ e = WithExpert(c, other, size)
  OBVIOUS
<1>2. PICK k : k = Len(c.specs) + 1
  OBVIOUS
<1>3. Alike(d, c) /\ Len(d.specs) = k /\ k \in 1 .. Len(d.specs) /\ d.specs[k].kind = kind
  BY <1>1, <1>2, ExpertAtEnd
<1>4. Alike(e, c) /\ Len(e.specs) = k /\ e.specs[k].kind = other
  BY <1>1, <1>2, ExpertAtEnd
<1>5. Alike(d, e)
  BY <1>3, <1>4, AlikeBoth
<1>6. KindsApart(d.specs, e.specs)
  BY <1>3, <1>4 DEF KindsApart
<1> QED
  BY <1>1, <1>5, <1>6 DEF SpecsApart

LEMMA FirstJoined ==
  ASSUME NEW S, NEW s \in Seq(S), NEW x \in Seq(S), Len(x) >= 1
  PROVE  /\ Len(s \o x) = Len(s) + Len(x) /\ Len(s) + 1 \in 1 .. Len(s \o x)
         /\ (s \o x)[Len(s) + 1] = x[1]
  OBVIOUS

(* Experts for several orders go to the end.                               *)
LEMMA EachAtEnd ==
  ASSUME NEW t \in Nat, NEW c, Sound(c, t), NEW kind \in KindNames, NEW orders \in Seq(Nat), Len(orders) >= 1,
         NEW d, d = WithEach(c, kind, orders)
  PROVE  /\ Alike(d, c) /\ Len(d.specs) = Len(c.specs) + Len(orders) /\ Len(c.specs) + 1 \in 1 .. Len(d.specs)
         /\ d.specs[Len(c.specs) + 1].kind = <<kind, orders[1]>>
<1>1. PICK n : n = c.specs[1].bits
  OBVIOUS
<1>2. n \in 0 .. t
  BY <1>1, FirstBits
<1>3. PICK x : x = [k \in DOMAIN orders |-> Expert(<<kind, orders[k]>>, n, 5)]
  OBVIOUS
<1>4. ASSUME NEW k \in 1 .. Len(orders)
      PROVE  Expert(<<kind, orders[k]>>, n, 5) \in Experts(t)
  <2>1. orders[k] \in Nat
    OBVIOUS
  <2>2. <<kind, orders[k]>> \in Kinds
    BY <2>1, KindFacts
  <2> QED
    BY <1>2, <2>2 DEF Expert, Experts
<1>5. DOMAIN orders = 1 .. Len(orders) /\ Len(orders) \in Nat
  OBVIOUS
<1>6. x \in [1 .. Len(orders) -> Experts(t)]
  BY <1>3, <1>4, <1>5
<1>7. x \in Seq(Experts(t)) /\ Len(x) = Len(orders)
  BY <1>5, <1>6, AsSequence
<1>8. x[1].kind = <<kind, orders[1]>>
  <2>1. 1 \in DOMAIN orders
    BY <1>5
  <2>2. x[1] = Expert(<<kind, orders[1]>>, n, 5)
    BY <1>3, <2>1
  <2> QED
    BY <2>2 DEF Expert
<1>9. PICK s : s = c.specs
  OBVIOUS
<1>10. s \in Seq(Experts(t)) /\ c \in Configs(t)
  BY <1>9, ConfigFacts DEF Sound
<1>11. PICK a : a = s \o x
  OBVIOUS
<1>12. d = [c EXCEPT !.specs = a]
  BY <1>1, <1>3, <1>9, <1>11 DEF WithEach
<1>13. d.specs = a /\ Alike(d, c)
  BY <1>10, <1>12, SpecsAlike
<1>14. Len(a) = Len(s) + Len(x) /\ Len(s) + 1 \in 1 .. Len(a) /\ a[Len(s) + 1] = x[1]
  BY <1>7, <1>10, <1>11, FirstJoined
<1> QED
  BY <1>7, <1>8, <1>9, <1>13, <1>14

(* A direct expert is replaced where it is.                                *)
LEMMA OneInPlace ==
  ASSUME NEW t \in Nat, NEW c, Sound(c, t), NEW kinds, \A o \in DOMAIN kinds : kinds[o] # <<"Order", o>>,
         NEW j \in 1 .. Len(c.specs), NEW order \in DOMAIN kinds, c.specs[j].kind = <<"Order", order>>
  PROVE  SpecsApart(WithReplaced(c, kinds), c)
<1>1. PICK s : s = c.specs
  OBVIOUS
<1>2. s \in Seq(Experts(t)) /\ c \in Configs(t)
  BY <1>1, ConfigFacts DEF Sound
<1>3. DOMAIN s = 1 .. Len(s) /\ Len(s) \in Nat
  BY <1>2
<1>4. PICK x : x = [k \in DOMAIN s |-> Replaced(s[k], kinds)]
  OBVIOUS
<1>5. WithReplaced(c, kinds) = [c EXCEPT !.specs = x]
  BY <1>1, <1>4 DEF WithReplaced
<1>6. PICK d : d = WithReplaced(c, kinds)
  OBVIOUS
<1>7. d.specs = x /\ Alike(d, c)
  BY <1>2, <1>5, <1>6, SpecsAlike
<1>8. PICK y : y = [k \in 1 .. Len(s) |-> x[k]] /\ x = y
  BY <1>3, <1>4
<1>9. Len(x) = Len(s)
  BY <1>3, <1>8
<1>10. PICK e : e = s[j]
  OBVIOUS
<1>11. e.kind = <<"Order", order>> /\ e \in Experts(t)
  BY <1>1, <1>2, <1>10
<1>12. e.kind[1] = "Order" /\ e.kind[2] = order
  BY <1>11
<1>13. Replaced(e, kinds) = [e EXCEPT !.kind = kinds[order]]
  BY <1>12 DEF Replaced, IsOrder
<1>14. Replaced(e, kinds).kind = kinds[order]
  BY <1>11, <1>13 DEF Experts
<1>15. x[j] = Replaced(e, kinds)
  BY <1>1, <1>3, <1>4, <1>10
<1>16. x[j].kind # s[j].kind
  BY <1>10, <1>11, <1>14, <1>15
<1>17. KindsApart(d.specs, c.specs)
  BY <1>1, <1>7, <1>9, <1>16 DEF KindsApart
<1> QED
  BY <1>6, <1>7, <1>17 DEF SpecsApart

(* The rates and the tune byte change no kind and no number of experts.    *)
FinalSpecs(s, tune, b) ==
  LET rated == [k \in DOMAIN s |-> Rated(s[k], k)]
  IN  IF "tune-table" \notin b THEN rated ELSE [k \in DOMAIN rated |-> Scaled(rated[k], tune)]

LEMMA KindsKept ==
  ASSUME NEW t \in Nat, NEW s \in Seq(Experts(t)), NEW tune \in 0 .. 255, NEW b
  PROVE  /\ Len(FinalSpecs(s, tune, b)) = Len(s)
         /\ \A k \in 1 .. Len(s) : FinalSpecs(s, tune, b)[k].kind = s[k].kind
<1>1. DOMAIN s = 1 .. Len(s) /\ Len(s) \in Nat
  OBVIOUS
<1>2. PICK r : r = [k \in DOMAIN s |-> Rated(s[k], k)]
  OBVIOUS
<1>3. \A k \in 1 .. Len(s) : r[k] \in Experts(t) /\ r[k].kind = s[k].kind
  <2> TAKE k \in 1 .. Len(s)
  <2>1. PICK e : e = s[k]
    OBVIOUS
  <2>2. e \in Experts(t) /\ r[k] = Rated(e, k)
    BY <1>1, <1>2, <2>1
  <2>3. CASE k \in DOMAIN ACCEPTED_RATES
    <3>1. PICK a : a = ACCEPTED_RATES[k]
      OBVIOUS
    <3>2. a \in Nat
      BY <2>3, <3>1 DEF ACCEPTED_RATES
    <3>3. r[k] = [e EXCEPT !.rate = a]
      BY <2>2, <2>3, <3>1 DEF Rated
    <3> QED
      BY <2>1, <2>2, <3>2, <3>3 DEF Experts
  <2>4. CASE k \notin DOMAIN ACCEPTED_RATES
    BY <2>1, <2>2, <2>4 DEF Rated
  <2> QED
    BY <2>3, <2>4
<1>4. PICK y : y = [k \in DOMAIN r |-> Scaled(r[k], tune)]
  OBVIOUS
<1>5. DOMAIN r = 1 .. Len(s) /\ DOMAIN y = 1 .. Len(s)
  BY <1>1, <1>2, <1>4
<1>6. Len(r) = Len(s) /\ Len(y) = Len(s)
  <2>1. PICK f, g : f = [k \in 1 .. Len(s) |-> r[k]] /\ g = [k \in 1 .. Len(s) |-> y[k]]
    OBVIOUS
  <2>2. r = f /\ y = g
    BY <1>2, <1>4, <1>5, <2>1
  <2> QED
    BY <1>1, <1>5, <2>2
<1>7. \A k \in 1 .. Len(s) : y[k].kind = s[k].kind
  <2> TAKE k \in 1 .. Len(s)
  <2>1. PICK e : e = r[k]
    OBVIOUS
  <2>2. e \in Experts(t) /\ e.kind = s[k].kind /\ y[k] = Scaled(e, tune)
    BY <1>3, <1>4, <1>5, <2>1
  <2>3. PICK n : n = e.bits + Scale(tune)
    OBVIOUS
  <2>4. y[k] = e \/ y[k] = [e EXCEPT !.bits = n]
    BY <2>2, <2>3 DEF Scaled
  <2> QED
    BY <2>2, <2>4 DEF Experts
<1>8. FinalSpecs(s, tune, b) = r \/ FinalSpecs(s, tune, b) = y
  BY <1>2, <1>4 DEF FinalSpecs
<1> QED
  BY <1>3, <1>6, <1>7, <1>8

LEMMA FinishedIs ==
  ASSUME NEW t \in Nat, NEW c \in Configs(t), NEW i, NEW tune, NEW b, NEW f, f = Finished(c, i, tune, b)
  PROVE  f.specs = FinalSpecs(c.specs, tune, b) /\ Alike(f, c) /\ f.info = i
<1>1. PICK s, r, y : /\ s = c.specs /\ r = [k \in DOMAIN s |-> Rated(s[k], k)]
                     /\ y = [k \in DOMAIN r |-> Scaled(r[k], tune)]
  OBVIOUS
<1>2. PICK d : d = [c EXCEPT !.specs = r]
  OBVIOUS
<1>3. WithRates(c) = d
  BY <1>1, <1>2 DEF WithRates
<1>4. PICK g : g = [d EXCEPT !.info = i]
  OBVIOUS
<1>5. /\ DOMAIN g = DOMAIN c /\ g.specs = r /\ g.info = i /\ Alike(g, c)
      /\ DOMAIN c = {"specs", "matches", "rep", "dist", "apm3", "collision", "ppm", "residual", "mixer_lr",
                     "apm_rates", "info"}
  BY <1>2, <1>4 DEF Configs, Alike
<1>6. PICK lr, rates, x :
        /\ lr = MIXER_LRS[(tune % 16) + 1]
        /\ rates = IF "apm-tune" \in b THEN APM_RATE_SETS[(tune \div 16) + 1] ELSE g.apm_rates
        /\ x = IF "tune-table" \notin b THEN r ELSE y
  OBVIOUS
<1>7. f = [g EXCEPT !.mixer_lr = lr, !.apm_rates = rates, !.specs = x]
  BY <1>1, <1>3, <1>4, <1>5, <1>6 DEF Finished, WithInfo, WithTune
<1>8. x = FinalSpecs(s, tune, b)
  BY <1>1, <1>6 DEF FinalSpecs
<1>9. PICK h : h = [g EXCEPT !.mixer_lr = lr]
  OBVIOUS
<1>10. h.info = i /\ Alike(h, c) /\ DOMAIN h = DOMAIN g
  BY <1>5, <1>9 DEF Alike
<1>11. PICK p : p = [h EXCEPT !.apm_rates = rates]
  OBVIOUS
<1>12. p.info = i /\ Alike(p, c) /\ DOMAIN p = DOMAIN g
  BY <1>5, <1>10, <1>11 DEF Alike
<1>13. f = [p EXCEPT !.specs = x]
  BY <1>5, <1>7, <1>9, <1>11
<1>14. f.specs = x /\ f.info = i /\ Alike(f, c)
  BY <1>5, <1>12, <1>13 DEF Alike
<1> QED
  BY <1>1, <1>8, <1>14

ModelFields == {"specs", "matches", "rep", "dist", "apm3", "collision", "ppm", "residual", "info"}

(* One part of the models differs, and the mixers are equally wide.        *)
OneField(x, p, q) ==
  /\ x \in ModelFields /\ p[x] # q[x] /\ \A y \in ModelFields \ {x} : p[y] = q[y]
  /\ MixerWidth(p) = MixerWidth(q)

LEMMA SpecsDiffer ==
  ASSUME NEW t \in Nat, NEW c, NEW d, Sound(c, t), Sound(d, t), SpecsApart(c, d), NEW i, NEW tune \in 0 .. 255, NEW b
  PROVE  OneField("specs", Finished(c, i, tune, b), Finished(d, i, tune, b))
<1>1. PICK f, g : f = Finished(c, i, tune, b) /\ g = Finished(d, i, tune, b)
  OBVIOUS
<1>2. c \in Configs(t) /\ d \in Configs(t)
  BY DEF Sound
<1>3. PICK s, u : s = c.specs /\ u = d.specs
  OBVIOUS
<1>4. s \in Seq(Experts(t)) /\ u \in Seq(Experts(t))
  BY <1>2, <1>3, ConfigFacts
<1>5. PICK z, w : z = FinalSpecs(s, tune, b) /\ w = FinalSpecs(u, tune, b)
  OBVIOUS
<1>6. f.specs = z /\ Alike(f, c) /\ f.info = i
  BY <1>1, <1>2, <1>3, <1>5, FinishedIs
<1>7. g.specs = w /\ Alike(g, d) /\ g.info = i
  BY <1>1, <1>2, <1>3, <1>5, FinishedIs
<1>8. Len(s) = Len(u)
  BY <1>3 DEF SpecsApart, KindsApart
<1>9. PICK k \in 1 .. Len(s) : s[k].kind # u[k].kind
  BY <1>3 DEF SpecsApart, KindsApart
<1>10. Len(z) = Len(s) /\ z[k].kind = s[k].kind
  BY <1>4, <1>5, KindsKept
<1>11. Len(w) = Len(s) /\ w[k].kind = u[k].kind
  <2>1. Len(w) = Len(u) /\ \A j \in 1 .. Len(u) : w[j].kind = u[j].kind
    BY <1>4, <1>5, KindsKept
  <2> QED
    BY <1>8, <2>1
<1>12. z # w /\ Len(z) = Len(w)
  BY <1>9, <1>10, <1>11
<1>13. Alike(f, g)
  BY <1>6, <1>7 DEF Alike, SpecsApart
<1>14. MixerWidth(f) = MixerWidth(g)
  BY <1>6, <1>7, <1>12, <1>13 DEF MixerWidth, Alike
<1>15. f["specs"] # g["specs"] /\ \A y \in ModelFields \ {"specs"} : f[y] = g[y]
  BY <1>6, <1>7, <1>12, <1>13 DEF ModelFields, Alike
<1> QED
  BY <1>1, <1>14, <1>15 DEF OneField, ModelFields

(* A part that is no number of inputs.                                     *)
LEMMA PartDiffers ==
  ASSUME NEW t \in Nat, NEW c, NEW d, Sound(c, t), Sound(d, t), NEW i, NEW tune, NEW b, c.specs = d.specs,
         NEW x \in {"matches", "apm3", "collision", "ppm", "residual"}, c[x] # d[x],
         \A y \in {"matches", "rep", "dist", "apm3", "collision", "ppm", "residual"} \ {x} : c[y] = d[y],
         Len(c.matches) = Len(d.matches), c.ppm > 0 <=> d.ppm > 0
  PROVE  OneField(x, Finished(c, i, tune, b), Finished(d, i, tune, b))
<1>1. PICK f, g : f = Finished(c, i, tune, b) /\ g = Finished(d, i, tune, b)
  OBVIOUS
<1>2. c \in Configs(t) /\ d \in Configs(t)
  BY DEF Sound
<1>3. f.specs = FinalSpecs(c.specs, tune, b) /\ Alike(f, c) /\ f.info = i
  BY <1>1, <1>2, FinishedIs
<1>4. g.specs = FinalSpecs(d.specs, tune, b) /\ Alike(g, d) /\ g.info = i
  BY <1>1, <1>2, FinishedIs
<1>5. f.specs = g.specs
  BY <1>3, <1>4
<1>6. c.rep = d.rep
  OBVIOUS
<1>7. MixerWidth(f) = MixerWidth(g)
  BY <1>3, <1>4, <1>5, <1>6 DEF MixerWidth, Alike
<1>8. \A y \in {"matches", "rep", "dist", "apm3", "collision", "ppm", "residual"} : f[y] = c[y] /\ g[y] = d[y]
  BY <1>3, <1>4 DEF Alike
<1>9. x \in ModelFields /\ f[x] # g[x]
  BY <1>8 DEF ModelFields
<1>10. \A y \in ModelFields \ {x} : f[y] = g[y]
  <2> TAKE y \in ModelFields \ {x}
  <2>1. CASE y \in {"specs", "info"}
    BY <1>3, <1>4, <1>5, <2>1
  <2>2. CASE y \in {"matches", "rep", "dist", "apm3", "collision", "ppm", "residual"}
    BY <1>8, <2>2
  <2> QED
    BY <2>1, <2>2 DEF ModelFields
<1> QED
  BY <1>1, <1>7, <1>9, <1>10 DEF OneField

LEMMA InfoDiffers ==
  ASSUME NEW t \in Nat, NEW c, Sound(c, t), NEW i, NEW j, i # j, NEW tune, NEW b
  PROVE  OneField("info", Finished(c, i, tune, b), Finished(c, j, tune, b))
<1>1. PICK f, g : f = Finished(c, i, tune, b) /\ g = Finished(c, j, tune, b)
  OBVIOUS
<1>2. f.specs = FinalSpecs(c.specs, tune, b) /\ Alike(f, c) /\ f.info = i
  BY <1>1, FinishedIs DEF Sound
<1>3. g.specs = FinalSpecs(c.specs, tune, b) /\ Alike(g, c) /\ g.info = j
  BY <1>1, FinishedIs DEF Sound
<1>4. MixerWidth(f) = MixerWidth(g)
  BY <1>2, <1>3 DEF MixerWidth, Alike
<1>5. f["info"] # g["info"] /\ \A y \in ModelFields \ {"info"} : f[y] = g[y]
  BY <1>2, <1>3 DEF ModelFields, Alike
<1> QED
  BY <1>1, <1>4, <1>5 DEF OneField, ModelFields

(* Where some of the direct experts are.                                   *)
Starts(c) ==
  /\ Len(c.specs) >= 5 /\ c.residual = "off"
  /\ c.specs[3].kind = <<"Order", 2>> /\ c.specs[5].kind = <<"Order", 4>>

LEMMA KeptJoined ==
  ASSUME NEW S, NEW s \in Seq(S), NEW x \in Seq(S)
  PROVE  \A k \in 1 .. Len(s) : (s \o x)[k] = s[k]
  OBVIOUS

LEMMA FloorStarts == ASSUME NEW n PROVE Sound(ForSize(n), TableBits(n)) /\ Starts(ForSize(n))
<1>1. PICK t \in Nat : t = TableBits(n)
  BY SizeBits
<1>2. PICK c : c = ForSize(n)
  OBVIOUS
<1>3. c \in Configs(t) /\ Len(c.specs) = 12 /\ Len(c.matches) = 1
  BY <1>1, <1>2, SizeFits
<1>4. PICK d : d = [k \in 1 .. 10 |-> Expert(<<"Order", Orders[k]>>, IF k = 1 THEN AtMost(t, 20) ELSE t, Rates[k])]
  OBVIOUS
<1>5. d[3].kind = <<"Order", 2>> /\ d[5].kind = <<"Order", 4>>
  <2>1. Orders[3] = 2 /\ Orders[5] = 4
    BY DEF Orders
  <2>2. \A k \in 1 .. 10 : d[k].kind = <<"Order", Orders[k]>>
    BY <1>4 DEF Expert
  <2> QED
    BY <2>1, <2>2
<1>6. PICK x : x = << Expert(<<"Word">>, AtMost(t, 22), 5), Expert(<<"WordBigram">>, AtMost(t, 22), 5) >>
  OBVIOUS
<1>7. c.specs = d \o x /\ c.residual = "off"
  <2>1. c = [specs |-> d \o x, matches |-> << [bits |-> t, min_len |-> MATCH_MIN, gap |-> 0] >>,
             rep |-> 0, dist |-> FALSE, apm3 |-> "off",
             collision |-> 0, ppm |-> 0, residual |-> "off", mixer_lr |-> 12,
             apm_rates |-> PlainRates, info |-> "none"]
    BY <1>1, <1>2, <1>4, <1>6, Zenon DEF ForSize
  <2> QED
    BY <2>1
<1>8. c.specs[3] = d[3] /\ c.specs[5] = d[5]
  <2>1. PICK S, y : S = {d[k] : k \in 1 .. 10} \cup {x[1], x[2]} /\ y = d \o x
    OBVIOUS
  <2>2. d \in [1 .. 10 -> S]
    BY <1>4, <2>1
  <2>3. d \in Seq(S) /\ Len(d) = 10
    <3>1. PICK j \in Nat : j = 10
      OBVIOUS
    <3> QED
      BY <2>2, <3>1, AsSequence
  <2>4. x \in Seq(S)
    BY <1>6, <2>1
  <2>5. y[3] = d[3] /\ y[5] = d[5]
    <3>1. \A k \in 1 .. Len(d) : (d \o x)[k] = d[k]
      BY <2>3, <2>4, KeptJoined
    <3>2. 3 \in 1 .. Len(d) /\ 5 \in 1 .. Len(d)
      BY <2>3
    <3>3. (d \o x)[3] = d[3] /\ (d \o x)[5] = d[5]
      BY <3>1, <3>2
    <3> QED
      BY <2>1, <3>3, Zenon
  <2> QED
    BY <1>7, <2>1, <2>5
<1>9. 12 >= 1 /\ 1 >= 1 /\ 12 >= 5
  OBVIOUS
<1>10. Sound(c, t) /\ Starts(c)
  BY <1>3, <1>5, <1>7, <1>8, <1>9 DEF Sound, Filled, Starts
<1> QED
  BY <1>1, <1>2, <1>10

LEMMA ExpertStarts ==
  ASSUME NEW t \in Nat, NEW c, Sound(c, t), Starts(c), NEW kind \in Kinds, NEW cap \in Nat
  PROVE  Sound(WithExpert(c, kind, cap), t) /\ Starts(WithExpert(c, kind, cap))
<1>1. PICK d : d = WithExpert(c, kind, cap)
  OBVIOUS
<1>2. /\ Alike(d, c) /\ Len(d.specs) = Len(c.specs) + 1
      /\ \A k \in 1 .. Len(c.specs) : d.specs[k] = c.specs[k]
  BY <1>1, ExpertAtEnd
<1>3. Len(c.specs) \in Nat
  BY ConfigFacts DEF Sound
<1>4. 3 \in 1 .. Len(c.specs) /\ 5 \in 1 .. Len(c.specs) /\ Len(d.specs) >= 5
  BY <1>2, <1>3 DEF Starts
<1>5. Starts(d)
  BY <1>2, <1>4 DEF Starts, Alike
<1> QED
  BY <1>1, <1>5, ExpertAdded

LEMMA TierStarts ==
  ASSUME NEW t \in Nat, NEW c, Sound(c, t), NEW min_len \in Nat, NEW gap \in Nat
  PROVE  /\ Sound(WithMatchTier(c, min_len, gap), t)
         /\ WithMatchTier(c, min_len, gap).specs = c.specs
         /\ Starts(c) => Starts(WithMatchTier(c, min_len, gap))
<1>1. WithMatchTier(c, min_len, gap).specs = c.specs /\ WithMatchTier(c, min_len, gap).residual = c.residual
  BY DEF WithMatchTier, Sound, Configs
<1> QED
  BY <1>1, TierAdded DEF Starts

LEMMA RepStarts ==
  ASSUME NEW t \in Nat, NEW c, Sound(c, t)
  PROVE  /\ Sound(WithRepOffsets(c, 0), t)
         /\ Starts(c) => Starts(WithRepOffsets(c, 0))
  BY DEF WithRepOffsets, Sound, Configs, Filled, Starts

LEMMA Underneath ==
  ASSUME NEW n, NEW t \in Nat, t = TableBits(n)
  PROVE  /\ Sound(ForSize(n), t) /\ Sound(Plain(n), t) /\ Sound(Columnar(n), t) /\ Sound(Lined(n), t)
         /\ Sound(Composite(n), t) /\ Starts(Composite(n))
         /\ Sound(Calibrating(n), t) /\ Starts(Calibrating(n))
<1>1. Sound(ForSize(n), t) /\ Starts(ForSize(n))
  BY FloorStarts
<1>2. <<"Column">> \in Kinds /\ <<"MatchByte">> \in Kinds
  BY KindFacts DEF KindNames
<1>3. PICK c : c = Columnar(n) /\ Sound(c, t) /\ Starts(c)
  BY <1>1, <1>2, ExpertStarts DEF Columnar, WithColumn, WithColumnKind
<1>4. Sound(Plain(n), t) /\ Sound(Lined(n), t)
  BY <1>1, <1>3, RepStarts DEF Plain, Lined
<1>5. PICK d : d = WithMatch2(c, 8) /\ Sound(d, t) /\ Starts(d)
  BY <1>3, TierStarts DEF WithMatch2
<1>6. PICK e : e = WithMatchTier(d, 4, 1) /\ Sound(e, t) /\ Starts(e)
  BY <1>5, TierStarts
<1>7. PICK f : f = WithRepOffsets(e, 0) /\ Sound(f, t) /\ Starts(f)
  BY <1>6, RepStarts
<1>8. PICK g : g = WithMatchByte(f, FALSE) /\ Sound(g, t) /\ Starts(g)
  BY <1>2, <1>7, ExpertStarts DEF WithMatchByte
<1>9. Composite(n) = g
  BY <1>3, <1>5, <1>6, <1>7, <1>8 DEF Composite
<1>10. Sound(WithSse3(g), t) /\ Starts(WithSse3(g))
  BY <1>8 DEF WithSse3, Sound, Configs, Filled, Starts
<1> QED
  BY <1>1, <1>3, <1>4, <1>8, <1>9, <1>10 DEF Calibrating

(* What the arms that are measured in the model are told apart by.         *)
LEMMA ArmInfo ==
  ASSUME NEW b, Full(b)
  PROVE  /\ \A m \in Arms \ {"InfoInherit", "InfoUnrelated"} : Info(m, b) = "none"
         /\ Info("InfoInherit", b) = "inherit" /\ Info("InfoUnrelated", b) = "unrelated"
<1>1. "AlphabetPermInfo" \notin Arms
  BY DEF Arms, Untokened, Grammars, Tokened, Singles, Screens, Orderings, Vocabularies
<1> QED
  BY <1>1, Features DEF Info

LEMMA TiersDiffer ==
  ASSUME NEW t \in Nat, NEW c, Sound(c, t), NEW b, NEW tune
  PROVE  OneField("matches", Finished(WithRepOffsets(WithMatch2(c, 6), 0), "none", tune, b),
                  Finished(WithRepOffsets(WithMatch2(c, 8), 0), "none", tune, b))
<1>1. PICK e, f : /\ e = [bits |-> c.matches[1].bits, min_len |-> 6, gap |-> 0]
                  /\ f = [bits |-> c.matches[1].bits, min_len |-> 8, gap |-> 0]
  OBVIOUS
<1>2. PICK s, p, q : s = c.matches /\ p = Append(s, e) /\ q = Append(s, f)
  OBVIOUS
<1>3. s \in Seq(Tiers(t)) /\ c \in Configs(t)
  BY <1>2, ConfigFacts DEF Sound
<1>4. e \in Tiers(t) /\ f \in Tiers(t) /\ e # f
  BY <1>1, FirstBits DEF Tiers
<1>5. Len(p) = Len(s) + 1 /\ p[Len(s) + 1] = e
  BY <1>2, <1>3, <1>4, LastAppended
<1>6. Len(q) = Len(s) + 1 /\ q[Len(s) + 1] = f
  BY <1>2, <1>3, <1>4, LastAppended
<1>7. PICK c1, c2 : c1 = WithMatch2(c, 6) /\ c2 = WithMatch2(c, 8)
  OBVIOUS
<1>8. c1 = [c EXCEPT !.matches = p] /\ c2 = [c EXCEPT !.matches = q]
  BY <1>1, <1>2, <1>7 DEF WithMatch2, WithMatchTier
<1>9. Sound(c1, t) /\ Sound(c2, t)
  BY <1>7, TierAdded DEF WithMatch2
<1>10. PICK d1, d2 : d1 = WithRepOffsets(c1, 0) /\ d2 = WithRepOffsets(c2, 0)
  OBVIOUS
<1>11. Sound(d1, t) /\ Sound(d2, t)
  BY <1>9, <1>10, RepStarts
<1>12. /\ d1.matches = p /\ d2.matches = q /\ d1.specs = d2.specs /\ d1.rep = d2.rep /\ d1.dist = d2.dist
       /\ d1.apm3 = d2.apm3 /\ d1.collision = d2.collision /\ d1.ppm = d2.ppm /\ d1.residual = d2.residual
  BY <1>3, <1>8, <1>10 DEF WithRepOffsets, Configs
<1>13. p # q /\ Len(p) = Len(q)
  BY <1>4, <1>5, <1>6
<1>14. d1["matches"] # d2["matches"] /\ Len(d1.matches) = Len(d2.matches) /\ (d1.ppm > 0 <=> d2.ppm > 0)
  BY <1>12, <1>13
<1>15. \A y \in {"matches", "rep", "dist", "apm3", "collision", "ppm", "residual"} \ {"matches"} : d1[y] = d2[y]
  BY <1>12
<1> QED
  BY <1>7, <1>10, <1>11, <1>12, <1>14, <1>15, PartDiffers

LEMMA SwitchesDiffer ==
  ASSUME NEW t \in Nat, NEW c, Sound(c, t), NEW b, NEW tune
  PROVE  /\ OneField("apm3", Finished(WithSse3Ctl(c), "none", tune, b), Finished(WithSse3(c), "none", tune, b))
         /\ OneField("apm3", Finished(WithIsseCtl(c), "none", tune, b), Finished(WithIsse(c), "none", tune, b))
         /\ OneField("collision", Finished(WithCollision(c, 2), "none", tune, b),
                     Finished(WithCollision(c, 1), "none", tune, b))
         /\ OneField("ppm", Finished(WithPpm(c, 1), "none", tune, b), Finished(WithPpm(c, 4), "none", tune, b))
         /\ OneField("residual", Finished(WithResidual(c, TRUE), "none", tune, b),
                     Finished(WithResidual(c, FALSE), "none", tune, b))
         /\ c.residual = "off" =>
              OneField("residual", Finished(WithResidual(c, FALSE), "none", tune, b), Finished(c, "none", tune, b))
<1> DEFINE Rest == {"matches", "rep", "dist", "apm3", "collision", "ppm", "residual"}
<1>1. /\ Sound(WithSse3Ctl(c), t) /\ Sound(WithSse3(c), t) /\ Sound(WithIsse(c), t) /\ Sound(WithIsseCtl(c), t)
      /\ Sound(WithCollision(c, 1), t) /\ Sound(WithCollision(c, 2), t)
      /\ Sound(WithPpm(c, 1), t) /\ Sound(WithPpm(c, 4), t)
      /\ Sound(WithResidual(c, FALSE), t) /\ Sound(WithResidual(c, TRUE), t)
  BY DEF WithSse3, WithSse3Ctl, WithIsse, WithIsseCtl, WithCollision, WithPpm, WithResidual, Sound, Configs, Filled
<1>2. ASSUME NEW d, NEW e, Sound(d, t), Sound(e, t), d.specs = e.specs, d.matches = e.matches,
             d.ppm > 0 <=> e.ppm > 0,
             NEW x \in {"apm3", "collision", "ppm", "residual"}, d[x] # e[x],
             \A y \in Rest \ {x} : d[y] = e[y]
      PROVE  OneField(x, Finished(d, "none", tune, b), Finished(e, "none", tune, b))
  BY <1>2, PartDiffers
<1>3. OneField("apm3", Finished(WithSse3Ctl(c), "none", tune, b), Finished(WithSse3(c), "none", tune, b))
  <2>1. PICK d, e : d = WithSse3Ctl(c) /\ e = WithSse3(c)
    OBVIOUS
  <2>2. d.specs = e.specs /\ d.matches = e.matches /\ (d.ppm > 0 <=> e.ppm > 0) /\ d["apm3"] # e["apm3"]
    BY <2>1 DEF WithSse3, WithSse3Ctl, Sound, Configs
  <2>3. \A y \in Rest \ {"apm3"} : d[y] = e[y]
    BY <2>1 DEF WithSse3, WithSse3Ctl, Sound, Configs
  <2> QED
    BY <1>1, <1>2, <2>1, <2>2, <2>3
<1>4. OneField("apm3", Finished(WithIsseCtl(c), "none", tune, b), Finished(WithIsse(c), "none", tune, b))
  <2>1. PICK d, e : d = WithIsseCtl(c) /\ e = WithIsse(c)
    OBVIOUS
  <2>2. d.specs = e.specs /\ d.matches = e.matches /\ (d.ppm > 0 <=> e.ppm > 0) /\ d["apm3"] # e["apm3"]
    BY <2>1 DEF WithIsse, WithIsseCtl, Sound, Configs
  <2>3. \A y \in Rest \ {"apm3"} : d[y] = e[y]
    BY <2>1 DEF WithIsse, WithIsseCtl, Sound, Configs
  <2> QED
    BY <1>1, <1>2, <2>1, <2>2, <2>3
<1>5. OneField("collision", Finished(WithCollision(c, 2), "none", tune, b), Finished(WithCollision(c, 1), "none", tune, b))
  <2>1. PICK d, e : d = WithCollision(c, 2) /\ e = WithCollision(c, 1)
    OBVIOUS
  <2>2. d.specs = e.specs /\ d.matches = e.matches /\ (d.ppm > 0 <=> e.ppm > 0) /\ d["collision"] # e["collision"]
    BY <2>1 DEF WithCollision, Sound, Configs
  <2>3. \A y \in Rest \ {"collision"} : d[y] = e[y]
    BY <2>1 DEF WithCollision, Sound, Configs
  <2> QED
    BY <1>1, <1>2, <2>1, <2>2, <2>3
<1>6. OneField("ppm", Finished(WithPpm(c, 1), "none", tune, b), Finished(WithPpm(c, 4), "none", tune, b))
  <2>1. PICK d, e : d = WithPpm(c, 1) /\ e = WithPpm(c, 4)
    OBVIOUS
  <2>2. d.specs = e.specs /\ d.matches = e.matches /\ (d.ppm > 0 <=> e.ppm > 0) /\ d["ppm"] # e["ppm"]
    BY <2>1 DEF WithPpm, Sound, Configs
  <2>3. \A y \in Rest \ {"ppm"} : d[y] = e[y]
    BY <2>1 DEF WithPpm, Sound, Configs
  <2> QED
    BY <1>1, <1>2, <2>1, <2>2, <2>3
<1>7. OneField("residual", Finished(WithResidual(c, TRUE), "none", tune, b), Finished(WithResidual(c, FALSE), "none", tune, b))
  <2>1. PICK d, e : d = WithResidual(c, TRUE) /\ e = WithResidual(c, FALSE)
    OBVIOUS
  <2>2. d.specs = e.specs /\ d.matches = e.matches /\ (d.ppm > 0 <=> e.ppm > 0) /\ d["residual"] # e["residual"]
    BY <2>1 DEF WithResidual, Sound, Configs
  <2>3. \A y \in Rest \ {"residual"} : d[y] = e[y]
    BY <2>1 DEF WithResidual, Sound, Configs
  <2> QED
    BY <1>1, <1>2, <2>1, <2>2, <2>3
<1>8. ASSUME c.residual = "off"
      PROVE  OneField("residual", Finished(WithResidual(c, FALSE), "none", tune, b), Finished(c, "none", tune, b))
  <2>1. PICK d, e : d = WithResidual(c, FALSE) /\ e = c
    OBVIOUS
  <2>2. d.specs = e.specs /\ d.matches = e.matches /\ (d.ppm > 0 <=> e.ppm > 0) /\ d["residual"] # e["residual"]
    BY <1>8, <2>1 DEF WithResidual, Sound, Configs
  <2>3. \A y \in Rest \ {"residual"} : d[y] = e[y]
    BY <2>1 DEF WithResidual, Sound, Configs
  <2> QED
    BY <1>1, <1>2, <2>1, <2>2, <2>3
<1> QED
  BY <1>3, <1>4, <1>5, <1>6, <1>7, <1>8

(* Two chains with experts of different kinds.                             *)
Exchanged(c, d, t) == Sound(c, t) /\ Sound(d, t) /\ SpecsApart(c, d)

LEMMA ExpertsExchanged ==
  ASSUME NEW t \in Nat, NEW c, Sound(c, t), NEW kind \in Kinds, NEW cap \in Nat,
         NEW other \in Kinds, NEW size \in Nat, kind # other
  PROVE  Exchanged(WithExpert(c, kind, cap), WithExpert(c, other, size), t)
  BY ExpertArms, ExpertAdded DEF Exchanged

LEMMA RepExchanged ==
  ASSUME NEW t \in Nat, NEW c, NEW d, Exchanged(c, d, t)
  PROVE  Exchanged(WithRepOffsets(c, 0), WithRepOffsets(d, 0), t)
<1>1. Sound(c, t) /\ Sound(d, t) /\ Alike(c, d) /\ KindsApart(c.specs, d.specs)
  BY DEF Exchanged, SpecsApart
<1>2. Sound(WithRepOffsets(c, 0), t) /\ Sound(WithRepOffsets(d, 0), t)
  BY <1>1, RepStarts
<1>3. PICK e, f : e = WithRepOffsets(c, 0) /\ f = WithRepOffsets(d, 0)
  OBVIOUS
<1>4. e.specs = c.specs /\ f.specs = d.specs /\ Alike(e, f)
  BY <1>1, <1>3 DEF WithRepOffsets, Sound, Configs, Alike
<1> QED
  BY <1>1, <1>2, <1>3, <1>4 DEF Exchanged, SpecsApart

LEMMA KindsOfArms ==
  /\ {<<"Column">>, <<"ColumnShuffled">>, <<"ColumnNoLine">>, <<"MatchByte">>, <<"MatchByteConst">>, <<"WordClass">>,
      <<"WordClassConst">>, <<"Stem">>, <<"StemCtl">>, <<"Indirect", 2, 2, FALSE>>, <<"Indirect", 2, 2, TRUE>>,
      <<"IndirectCtl", 2, 2>>, <<"Sparse", 4, 1>>, <<"StateOrder", 2>>, <<"StateOrder", 4>>, <<"StateOrder", 6>>}
       \subseteq Kinds
  /\ <<"ColumnShuffled">> # <<"Column">> /\ <<"ColumnNoLine">> # <<"Column">>
  /\ <<"MatchByteConst">> # <<"MatchByte">> /\ <<"WordClassConst">> # <<"WordClass">> /\ <<"StemCtl">> # <<"Stem">>
  /\ <<"Indirect", 2, 2, TRUE>> # <<"Indirect", 2, 2, FALSE>>
  /\ <<"IndirectCtl", 2, 2>> # <<"Indirect", 2, 2, FALSE>>
<1>1. /\ \A k \in {"Column", "ColumnShuffled", "ColumnNoLine", "MatchByte", "MatchByteConst", "WordClass",
                   "WordClassConst", "Stem", "StemCtl"} : <<k>> \in Kinds
      /\ <<"Sparse", 4, 1>> \in Kinds /\ <<"IndirectCtl", 2, 2>> \in Kinds
      /\ <<"StateOrder", 2>> \in Kinds /\ <<"StateOrder", 4>> \in Kinds /\ <<"StateOrder", 6>> \in Kinds
      /\ <<"Indirect", 2, 2, FALSE>> \in Kinds /\ <<"Indirect", 2, 2, TRUE>> \in Kinds
  BY KindFacts DEF KindNames
<1>2. /\ <<"ColumnShuffled">> # <<"Column">> /\ <<"ColumnNoLine">> # <<"Column">>
      /\ <<"MatchByteConst">> # <<"MatchByte">> /\ <<"WordClassConst">> # <<"WordClass">> /\ <<"StemCtl">> # <<"Stem">>
  OBVIOUS
<1>3. <<"Indirect", 2, 2, TRUE>> # <<"Indirect", 2, 2, FALSE>>
  OBVIOUS
<1>4. <<"IndirectCtl", 2, 2>> # <<"Indirect", 2, 2, FALSE>>
  <2>1. <<"IndirectCtl", 2, 2>>[1] = "IndirectCtl" /\ <<"Indirect", 2, 2, FALSE>>[1] = "Indirect"
    OBVIOUS
  <2> QED
    BY <2>1
<1> QED
  BY <1>1, <1>2, <1>3, <1>4

LEMMA EachExchanged ==
  ASSUME NEW t \in Nat, NEW c, Sound(c, t)
  PROVE  /\ Exchanged(WithOrders(c, <<2, 4, 6>>), WithStateOrders(c, <<2, 4, 6>>), t)
         /\ Exchanged(WithOrders(c, <<4>>), WithSparse(c, 4, 1), t)
<1>1. PICK o, p : o = <<2, 4, 6>> /\ p = <<4>>
  OBVIOUS
<1>2. o \in Seq(Nat) /\ Len(o) = 3 /\ o[1] = 2 /\ p \in Seq(Nat) /\ Len(p) = 1 /\ p[1] = 4
  BY <1>1
<1>3. "Order" \in KindNames /\ "StateOrder" \in KindNames
  BY DEF KindNames
<1>4. PICK d, e : d = WithEach(c, "Order", o) /\ e = WithEach(c, "StateOrder", o)
  OBVIOUS
<1>5. PICK k : k = Len(c.specs) + 1
  OBVIOUS
<1>6. Len(o) >= 1 /\ Len(p) >= 1
  BY <1>2
<1>7. /\ Alike(d, c) /\ Len(d.specs) = Len(c.specs) + Len(o) /\ k \in 1 .. Len(d.specs)
      /\ d.specs[k].kind = <<"Order", o[1]>>
  BY <1>2, <1>3, <1>4, <1>5, <1>6, EachAtEnd
<1>8. /\ Alike(e, c) /\ Len(e.specs) = Len(c.specs) + Len(o) /\ e.specs[k].kind = <<"StateOrder", o[1]>>
  BY <1>2, <1>3, <1>4, <1>5, <1>6, EachAtEnd
<1>9. Sound(d, t) /\ Sound(e, t)
  BY <1>2, <1>3, <1>4, EachAdded
<1>10. <<"Order", o[1]>> # <<"StateOrder", o[1]>>
  OBVIOUS
<1>11. KindsApart(d.specs, e.specs)
  BY <1>7, <1>8, <1>10 DEF KindsApart
<1>12. Exchanged(d, e, t)
  BY <1>7, <1>8, <1>9, <1>11, AlikeBoth DEF Exchanged, SpecsApart
<1>13. PICK f, g : f = WithEach(c, "Order", p) /\ g = WithExpert(c, <<"Sparse", 4, 1>>, 24)
  OBVIOUS
<1>14. /\ Alike(f, c) /\ Len(f.specs) = k /\ k \in 1 .. Len(f.specs) /\ f.specs[k].kind = <<"Order", p[1]>>
  <2>1. /\ Alike(f, c) /\ Len(f.specs) = Len(c.specs) + Len(p) /\ k \in 1 .. Len(f.specs)
        /\ f.specs[k].kind = <<"Order", p[1]>>
    BY <1>2, <1>3, <1>5, <1>6, <1>13, EachAtEnd
  <2> QED
    BY <1>2, <1>5, <2>1
<1>15. Alike(g, c) /\ Len(g.specs) = k /\ g.specs[k].kind = <<"Sparse", 4, 1>>
  BY <1>5, <1>13, ExpertAtEnd, KindsOfArms
<1>16. Sound(f, t) /\ Sound(g, t)
  BY <1>2, <1>3, <1>13, EachAdded, ExpertAdded, KindsOfArms
<1>17. <<"Order", p[1]>> # <<"Sparse", 4, 1>>
  <2>1. <<"Order", p[1]>>[1] = "Order" /\ <<"Sparse", 4, 1>>[1] = "Sparse"
    OBVIOUS
  <2> QED
    BY <2>1
<1>18. KindsApart(f.specs, g.specs)
  BY <1>14, <1>15, <1>17 DEF KindsApart
<1>19. Exchanged(f, g, t)
  BY <1>14, <1>15, <1>16, <1>18, AlikeBoth DEF Exchanged, SpecsApart
<1> QED
  BY <1>1, <1>4, <1>12, <1>13, <1>19 DEF WithOrders, WithStateOrders, WithSparse

LEMMA InPlaceExchanged ==
  ASSUME NEW t \in Nat, NEW c, Sound(c, t), Starts(c)
  PROVE  /\ Exchanged(WithReplacedStateOrders(c, {2, 4, 6}), c, t)
         /\ Exchanged(WithReplacedSparse(c, 4, 1), c, t)
<1>1. 3 \in 1 .. Len(c.specs) /\ 5 \in 1 .. Len(c.specs)
  <2>1. Len(c.specs) \in Nat
    BY ConfigFacts DEF Sound
  <2> QED
    BY <2>1 DEF Starts
<1>2. c.specs[3].kind = <<"Order", 2>> /\ c.specs[5].kind = <<"Order", 4>>
  BY DEF Starts
<1>3. PICK f, g : f = [o \in {2, 4, 6} |-> <<"StateOrder", o>>] /\ g = [o \in {4} |-> <<"Sparse", o, 1>>]
  OBVIOUS
<1>4. 2 \in DOMAIN f /\ 4 \in DOMAIN g
  BY <1>3
<1>5. \A o \in DOMAIN f : f[o] # <<"Order", o>>
  <2> TAKE o \in DOMAIN f
  <2>1. f[o] = <<"StateOrder", o>>
    BY <1>3
  <2>2. f[o][1] = "StateOrder" /\ <<"Order", o>>[1] = "Order"
    BY <2>1
  <2> QED
    BY <2>2
<1>6. \A o \in DOMAIN g : g[o] # <<"Order", o>>
  <2> TAKE o \in DOMAIN g
  <2>1. g[o] = <<"Sparse", o, 1>>
    BY <1>3
  <2>2. g[o][1] = "Sparse" /\ <<"Order", o>>[1] = "Order"
    BY <2>1
  <2> QED
    BY <2>2
<1>7. /\ \A o \in DOMAIN f : f[o] \in Kinds
      /\ \A o \in DOMAIN g : g[o] \in Kinds
  <2>1. \A o \in DOMAIN f : f[o] \in Kinds
    BY <1>3, KindsOfArms
  <2>2. \A o \in DOMAIN g : g[o] \in Kinds
    BY <1>3, KindsOfArms
  <2> QED
    BY <2>1, <2>2
<1>8. Sound(WithReplaced(c, f), t) /\ Sound(WithReplaced(c, g), t)
  BY <1>7, KindsReplaced
<1>9. SpecsApart(WithReplaced(c, f), c)
  BY <1>1, <1>2, <1>4, <1>5, OneInPlace
<1>10. SpecsApart(WithReplaced(c, g), c)
  BY <1>1, <1>2, <1>4, <1>6, OneInPlace
<1> QED
  BY <1>3, <1>8, <1>9, <1>10 DEF Exchanged, WithReplacedStateOrders, WithReplacedSparse

(* The chains of the arms that are measured by an expert.                  *)
LEMMA ExpertArmsExchanged ==
  ASSUME NEW b, Full(b), NEW n, NEW t \in Nat, t = TableBits(n), NEW q \in ModelArms, q[1] = "specs"
  PROVE  Exchanged(Chain(q[2], n, b), Chain(q[3], n, b), t)
<1>1. /\ Sound(ForSize(n), t) /\ Sound(Lined(n), t) /\ Sound(Composite(n), t) /\ Starts(Composite(n))
      /\ Sound(Calibrating(n), t)
  BY Underneath
<1>2. \A m \in {"ColumnShuffled", "ColumnNoLine"} : Exchanged(Chain(m, n, b), Chain("Column", n, b), t)
  <2>1. Exchanged(WithColumn(ForSize(n), TRUE), WithColumn(ForSize(n), FALSE), t)
    BY <1>1, ExpertsExchanged, KindsOfArms DEF WithColumn, WithColumnKind
  <2>2. Exchanged(WithColumnKind(ForSize(n), "ColumnNoLine"), WithColumn(ForSize(n), FALSE), t)
    BY <1>1, ExpertsExchanged, KindsOfArms DEF WithColumn, WithColumnKind
  <2>3. Chain("Column", n, b) = WithRepOffsets(WithColumn(ForSize(n), FALSE), 0)
    BY EarlyChains DEF OnLines, Lined, Columnar
  <2>4. /\ Chain("ColumnShuffled", n, b) = WithRepOffsets(WithColumn(ForSize(n), TRUE), 0)
        /\ Chain("ColumnNoLine", n, b) = WithRepOffsets(WithColumnKind(ForSize(n), "ColumnNoLine"), 0)
    BY EarlyChains
  <2> QED
    BY <2>1, <2>2, <2>3, <2>4, RepExchanged
<1>3. Exchanged(Chain("MatchByteConst", n, b), Chain("MatchByte", n, b), t)
  <2>1. Exchanged(WithMatchByte(Lined(n), TRUE), WithMatchByte(Lined(n), FALSE), t)
    BY <1>1, ExpertsExchanged, KindsOfArms DEF WithMatchByte
  <2> QED
    BY <2>1, EarlyChains
<1>4. Exchanged(Chain("WordClassConst", n, b), Chain("WordClass", n, b), t)
  <2>1. Exchanged(WithWordClass(Lined(n), TRUE), WithWordClass(Lined(n), FALSE), t)
    BY <1>1, ExpertsExchanged, KindsOfArms DEF WithWordClass
  <2> QED
    BY <2>1, EarlyChains
<1>5. Exchanged(Chain("StateMapCtl", n, b), Chain("StateMap", n, b), t)
  <2>1. /\ Chain("StateMapCtl", n, b) = WithOrders(Composite(n), <<2, 4, 6>>)
        /\ Chain("StateMap", n, b) = WithStateOrders(Composite(n), <<2, 4, 6>>)
    BY LateChains
  <2>2. Exchanged(WithOrders(Composite(n), <<2, 4, 6>>), WithStateOrders(Composite(n), <<2, 4, 6>>), t)
    BY <1>1, EachExchanged
  <2> QED
    BY <2>1, <2>2, Zenon
<1>6. Exchanged(Chain("StateMapRep", n, b), Chain("Phase4", n, b), t)
  <2>1. /\ Chain("StateMapRep", n, b) = WithReplacedStateOrders(Composite(n), {2, 4, 6})
        /\ Chain("Phase4", n, b) = Composite(n)
    BY LateChains
  <2>2. Exchanged(WithReplacedStateOrders(Composite(n), {2, 4, 6}), Composite(n), t)
    BY <1>1, InPlaceExchanged
  <2> QED
    BY <2>1, <2>2, Zenon
<1>7. \A m \in Phase4Screens : Chain(m, n, b) = Screened(Composite(n), m)
  BY LateChains
<1>8. PICK c : c = Composite(n)
  OBVIOUS
<1>9. /\ Chain("Sparse4g1", n, b) = WithSparse(c, 4, 1) /\ Chain("Sparse4g1Ctl", n, b) = WithOrders(c, <<4>>)
      /\ Chain("Sparse4g1Rep", n, b) = WithReplacedSparse(c, 4, 1)
      /\ Chain("Icm", n, b) = WithIndirect(c, 2, 2, FALSE) /\ Chain("IcmCtl", n, b) = WithIndirectCtl(c, 2, 2)
      /\ Chain("IndirectChain", n, b) = WithIndirect(c, 2, 2, TRUE)
  BY <1>7, <1>8, OwnScreens DEF Phase4Screens
<1>10. Exchanged(Chain("Sparse4g1Ctl", n, b), Chain("Sparse4g1", n, b), t)
  BY <1>1, <1>8, <1>9, EachExchanged
<1>11. Exchanged(Chain("Sparse4g1Rep", n, b), Chain("Phase4", n, b), t)
  <2>1. Chain("Phase4", n, b) = c
    BY <1>8, LateChains
  <2> QED
    BY <1>1, <1>8, <1>9, <2>1, InPlaceExchanged
<1>12. Exchanged(Chain("IcmCtl", n, b), Chain("Icm", n, b), t)
  <2>1. Exchanged(WithIndirectCtl(c, 2, 2), WithIndirect(c, 2, 2, FALSE), t)
    BY <1>1, <1>8, ExpertsExchanged, KindsOfArms DEF WithIndirect, WithIndirectCtl
  <2> QED
    BY <1>9, <2>1
<1>13. Exchanged(Chain("IndirectChain", n, b), Chain("Icm", n, b), t)
  <2>1. Exchanged(WithIndirect(c, 2, 2, TRUE), WithIndirect(c, 2, 2, FALSE), t)
    BY <1>1, <1>8, ExpertsExchanged, KindsOfArms DEF WithIndirect
  <2> QED
    BY <1>9, <2>1
<1>14. Exchanged(Chain("StemModelCtl", n, b), Chain("StemModel", n, b), t)
  <2>1. PICK d : d = Calibrating(n)
    OBVIOUS
  <2>2. Exchanged(WithStemModel(d, TRUE), WithStemModel(d, FALSE), t)
    BY <1>1, <2>1, ExpertsExchanged, KindsOfArms DEF WithStemModel
  <2>3. Chain("StemModelCtl", n, b) = Screened(d, "StemModelCtl") /\ Chain("StemModel", n, b) = Screened(d, "StemModel")
    BY <2>1, LateChains
  <2> QED
    BY <2>2, <2>3, OwnScreens
<1>15. <<q[2], q[3]>> \in
         {<<"ColumnShuffled", "Column">>, <<"ColumnNoLine", "Column">>, <<"MatchByteConst", "MatchByte">>,
          <<"WordClassConst", "WordClass">>, <<"StateMapCtl", "StateMap">>, <<"StateMapRep", "Phase4">>,
          <<"Sparse4g1Ctl", "Sparse4g1">>, <<"Sparse4g1Rep", "Phase4">>, <<"IcmCtl", "Icm">>,
          <<"IndirectChain", "Icm">>, <<"StemModelCtl", "StemModel">>}
  BY DEF ModelArms
<1> QED
  BY <1>2, <1>3, <1>4, <1>5, <1>6, <1>10, <1>11, <1>12, <1>13, <1>14, <1>15

LEMMA ModelArmsDiffer ==
  ASSUME NEW b, Full(b), NEW n, NEW tune \in 0 .. 255, NEW q \in ModelArms
  PROVE  OneField(q[1], ModelFor(q[2], tune, n, b), ModelFor(q[3], tune, n, b))
<1>1. PICK t \in Nat : t = TableBits(n)
  BY SizeBits
<1>2. \A m : ModelFor(m, tune, n, b) = Finished(Chain(m, n, b), Info(m, b), tune, b)
  BY ModelIs DEF Full
<1>3. q[2] \in Arms /\ q[3] \in Arms
  BY DEF ModelArms, Arms, Untokened, Singles, Screens, Orderings
<1>4. ASSUME q[1] # "info"
      PROVE  /\ ModelFor(q[2], tune, n, b) = Finished(Chain(q[2], n, b), "none", tune, b)
             /\ ModelFor(q[3], tune, n, b) = Finished(Chain(q[3], n, b), "none", tune, b)
  <2>1. q[2] \notin {"InfoInherit", "InfoUnrelated"} /\ q[3] \notin {"InfoInherit", "InfoUnrelated"}
    BY <1>4 DEF ModelArms
  <2>2. Info(q[2], b) = "none" /\ Info(q[3], b) = "none"
    BY <1>3, <2>1, ArmInfo
  <2> QED
    BY <1>2, <2>2
<1>5. CASE q[1] = "info"
  <2>1. q[2] = "InfoUnrelated" /\ q[3] = "InfoInherit"
    BY <1>5 DEF ModelArms
  <2>2. Chain(q[2], n, b) = Plain(n) /\ Chain(q[3], n, b) = Plain(n)
    BY <2>1, EarlyChains DEF Before
  <2>3. Info(q[2], b) = "unrelated" /\ Info(q[3], b) = "inherit"
    BY <2>1, ArmInfo
  <2>4. Sound(Plain(n), t)
    BY <1>1, Underneath
  <2> QED
    BY <1>2, <1>5, <2>2, <2>3, <2>4, InfoDiffers
<1>6. CASE q[1] = "specs"
  <2>1. Exchanged(Chain(q[2], n, b), Chain(q[3], n, b), t)
    BY <1>1, <1>6, ExpertArmsExchanged
  <2> QED
    BY <1>4, <1>6, <2>1, SpecsDiffer DEF Exchanged
<1>7. CASE q[1] = "matches"
  <2>1. q[2] = "LongMatch6" /\ q[3] = "LongMatch8"
    BY <1>7 DEF ModelArms
  <2>2. /\ Chain(q[2], n, b) = WithRepOffsets(WithMatch2(Columnar(n), 6), 0)
        /\ Chain(q[3], n, b) = WithRepOffsets(WithMatch2(Columnar(n), 8), 0)
    BY <2>1, EarlyChains
  <2>3. Sound(Columnar(n), t)
    BY <1>1, Underneath
  <2> QED
    BY <1>4, <1>7, <2>2, <2>3, TiersDiffer
<1>8. CASE q[1] \in {"apm3", "collision", "ppm", "residual"}
  <2>1. PICK c, d : c = Composite(n) /\ d = Calibrating(n)
    OBVIOUS
  <2>2. Sound(c, t) /\ Sound(d, t) /\ d.residual = "off" /\ d = WithSse3(c)
    BY <1>1, <2>1, Underneath DEF Starts, Calibrating
  <2>3. /\ Chain("Sse3", n, b) = WithSse3(c) /\ Chain("Sse3Ctl", n, b) = WithSse3Ctl(c)
        /\ Chain("Isse", n, b) = WithIsse(c) /\ Chain("IsseCtl", n, b) = WithIsseCtl(c)
        /\ Chain("ReorderFull", n, b) = d
    BY <2>1, <2>2, LateChains
  <2>4. \A m \in {"Collision", "CollisionCtl", "Ppm", "PpmCtl", "Residual", "ResidualCtl"} :
          Chain(m, n, b) = Screened(d, m)
    <3>1. \A m \in {"Collision", "CollisionCtl", "Ppm", "PpmCtl", "StemModel", "StemModelCtl", "Residual",
                     "ResidualCtl"} : Chain(m, n, b) = Screened(Calibrating(n), m)
      BY LateChains
    <3> QED
      BY <2>1, <3>1
  <2>5. /\ Chain("Collision", n, b) = WithCollision(d, 1) /\ Chain("CollisionCtl", n, b) = WithCollision(d, 2)
        /\ Chain("Ppm", n, b) = WithPpm(d, 4) /\ Chain("PpmCtl", n, b) = WithPpm(d, 1)
        /\ Chain("Residual", n, b) = WithResidual(d, FALSE) /\ Chain("ResidualCtl", n, b) = WithResidual(d, TRUE)
    BY <2>4, OwnScreens
  <2>6. q \in {<<"apm3", "Sse3Ctl", "Sse3">>, <<"apm3", "IsseCtl", "Isse">>, <<"collision", "CollisionCtl", "Collision">>,
               <<"ppm", "PpmCtl", "Ppm">>, <<"residual", "ResidualCtl", "Residual">>,
               <<"residual", "Residual", "ReorderFull">>}
    BY <1>8 DEF ModelArms
  <2>7. OneField(q[1], Finished(Chain(q[2], n, b), "none", tune, b), Finished(Chain(q[3], n, b), "none", tune, b))
    <3>1. CASE q = <<"apm3", "Sse3Ctl", "Sse3">> \/ q = <<"apm3", "IsseCtl", "Isse">>
      <4>1. /\ OneField("apm3", Finished(WithSse3Ctl(c), "none", tune, b), Finished(WithSse3(c), "none", tune, b))
            /\ OneField("apm3", Finished(WithIsseCtl(c), "none", tune, b), Finished(WithIsse(c), "none", tune, b))
        BY <2>2, SwitchesDiffer
      <4> QED
        BY <3>1, <2>3, <4>1
    <3>2. CASE q = <<"collision", "CollisionCtl", "Collision">> \/ q = <<"ppm", "PpmCtl", "Ppm">>
      <4>1. /\ OneField("collision", Finished(WithCollision(d, 2), "none", tune, b),
                        Finished(WithCollision(d, 1), "none", tune, b))
            /\ OneField("ppm", Finished(WithPpm(d, 1), "none", tune, b), Finished(WithPpm(d, 4), "none", tune, b))
        BY <2>2, SwitchesDiffer
      <4> QED
        BY <3>2, <2>5, <4>1
    <3>3. CASE q = <<"residual", "ResidualCtl", "Residual">>
      BY <3>3, <2>2, <2>5, SwitchesDiffer
    <3>4. CASE q = <<"residual", "Residual", "ReorderFull">>
      BY <3>4, <2>2, <2>3, <2>5, SwitchesDiffer
    <3> QED
      BY <2>6, <3>1, <3>2, <3>3, <3>4
  <2> QED
    BY <1>4, <1>8, <2>7
<1> QED
  BY <1>5, <1>6, <1>7, <1>8 DEF ModelArms

LEMMA LayerArmsAlike ==
  ASSUME NEW b, Full(b), NEW n, NEW tune, NEW q \in LayerArms
  PROVE  ModelFor(q[2], tune, n, b) = ModelFor(q[3], tune, n, b)
<1>1. \A m : ModelFor(m, tune, n, b) = Finished(Chain(m, n, b), Info(m, b), tune, b)
  BY ModelIs DEF Full
<1>2. q[2] \in Arms \ {"InfoInherit", "InfoUnrelated"} /\ q[3] \in Arms \ {"InfoInherit", "InfoUnrelated"}
  BY DEF LayerArms, Arms, Untokened, Grammars, Tokened, Screens, Orderings, Vocabularies
<1>3. Info(q[2], b) = "none" /\ Info(q[3], b) = "none"
  BY <1>2, ArmInfo
<1>4. \/ q[2] \in Before /\ q[3] \in Before
      \/ q[2] \in OnLines /\ q[3] \in OnLines
      \/ /\ q[2] \in {"Sse3", "Phase6", "ReorderId", "ReorderShuffle", "ReorderFull"}
         /\ q[3] \in {"Sse3", "Phase6", "ReorderId", "ReorderShuffle", "ReorderFull"}
      \/ q[2] \in Vocabularies /\ q[3] \in Vocabularies
  BY DEF LayerArms, Before, OnLines, Grammars, Tokened, Vocabularies
<1>5. CASE q[2] \in Before /\ q[3] \in Before
  <2>1. \A m \in Before : Chain(m, n, b) = Plain(n)
    BY EarlyChains
  <2> QED
    BY <1>1, <1>3, <1>5, <2>1
<1>6. CASE q[2] \in OnLines /\ q[3] \in OnLines
  <2>1. \A m \in OnLines : Chain(m, n, b) = Lined(n)
    BY EarlyChains
  <2> QED
    BY <1>1, <1>3, <1>6, <2>1
<1>7. CASE /\ q[2] \in {"Sse3", "Phase6", "ReorderId", "ReorderShuffle", "ReorderFull"}
           /\ q[3] \in {"Sse3", "Phase6", "ReorderId", "ReorderShuffle", "ReorderFull"}
  <2>1. \A m \in {"Sse3", "Phase6", "ReorderId", "ReorderShuffle", "ReorderFull"} : Chain(m, n, b) = Calibrating(n)
    BY LateChains
  <2> QED
    BY <1>1, <1>3, <1>7, <2>1
<1>8. CASE q[2] \in Vocabularies /\ q[3] \in Vocabularies
  <2>1. \A m \in Vocabularies : Chain(m, n, b) = WithResidual(Composite(n), FALSE)
    BY LateChains
  <2> QED
    BY <1>1, <1>3, <1>8, <2>1
<1> QED
  BY <1>4, <1>5, <1>6, <1>7, <1>8

(* The parts of a method are its layers and the parts of its model.        *)
LEMMA PartsAre ==
  ASSUME NEW m, NEW tune, NEW n, NEW b, NEW p, p = Parts(m, tune, n, b), NEW c, c = ModelFor(m, tune, n, b)
  PROVE  /\ DOMAIN p = LayerFields \cup ModelFields
         /\ \A y \in LayerFields : p[y] = LayerParts(m, b)[y]
         /\ \A y \in ModelFields : p[y] = c[y]
<1>1. p = [order |-> ReorderKind(m, b), lzbe |-> Lzbe(m, b), grammar |-> GrammarMode(m, b),
           stem |-> Stems(m, b), hoist |-> Hoists(m, b), case |-> CaseKind(m, b),
           token |-> TokenKind(m, b),
           price |-> IF PricedVocab(m, b) THEN m ELSE "none", perm |-> PermOf(m, b),
           specs |-> c.specs, matches |-> c.matches, rep |-> c.rep, dist |-> c.dist,
           apm3 |-> c.apm3, collision |-> c.collision, ppm |-> c.ppm,
           residual |-> c.residual, info |-> c.info]
  BY Zenon DEF Parts
<1>2. DOMAIN p = LayerFields \cup ModelFields
  BY <1>1 DEF LayerFields, ModelFields
<1>3. \A y \in ModelFields : p[y] = c[y]
  BY <1>1 DEF ModelFields
<1>4. PICK lzbe, stem, hoist : lzbe = Lzbe(m, b) /\ stem = Stems(m, b) /\ hoist = Hoists(m, b)
  OBVIOUS
<1>5. PICK l : l = LayerParts(m, b)
  OBVIOUS
<1>6. l = [order |-> ReorderKind(m, b), lzbe |-> lzbe, grammar |-> GrammarMode(m, b),
           stem |-> stem, hoist |-> hoist, case |-> CaseKind(m, b), token |-> TokenKind(m, b),
           price |-> IF PricedVocab(m, b) THEN m ELSE "none", perm |-> PermOf(m, b)]
  BY <1>4, <1>5, Zenon DEF LayerParts
<1>7. /\ p["order"] = l["order"] /\ p["lzbe"] = l["lzbe"] /\ p["grammar"] = l["grammar"] /\ p["stem"] = l["stem"]
      /\ p["hoist"] = l["hoist"] /\ p["case"] = l["case"] /\ p["token"] = l["token"] /\ p["price"] = l["price"]
      /\ p["perm"] = l["perm"]
  <2>1. p = [order |-> ReorderKind(m, b), lzbe |-> lzbe, grammar |-> GrammarMode(m, b),
             stem |-> stem, hoist |-> hoist, case |-> CaseKind(m, b),
             token |-> TokenKind(m, b),
             price |-> IF PricedVocab(m, b) THEN m ELSE "none", perm |-> PermOf(m, b),
             specs |-> c.specs, matches |-> c.matches, rep |-> c.rep, dist |-> c.dist,
             apm3 |-> c.apm3, collision |-> c.collision, ppm |-> c.ppm,
             residual |-> c.residual, info |-> c.info]
    BY <1>1, <1>4, Zenon
  <2> QED
    BY <1>6, <2>1
<1> QED
  BY <1>2, <1>3, <1>5, <1>7 DEF LayerFields

LEMMA OneApart ==
  ASSUME NEW p, NEW q, NEW S, DOMAIN p = S, NEW x \in S, p[x] # q[x], \A y \in S \ {x} : p[y] = q[y]
  PROVE  Cardinality({y \in DOMAIN p : p[y] # q[y]}) = 1
<1>1. {y \in DOMAIN p : p[y] # q[y]} = {x}
  OBVIOUS
<1> QED
  BY <1>1, FS_Singleton

LEMMA ArmsDifferInOne ==
  ASSUME NEW b, Full(b), NEW n, NEW tune \in 0 .. 255, NEW p \in Controls
  PROVE  DifferInOne(p[1], p[2], tune, n, b)
<1>1. PICK x : <<x, p[1], p[2]>> \in LayerArms \cup ModelArms
  BY ControlsAre
<1>2. PICK m, c : m = p[1] /\ c = p[2]
  OBVIOUS
<1>3. PICK r, s : r = Parts(m, tune, n, b) /\ s = Parts(c, tune, n, b)
  OBVIOUS
<1>4. PICK f, g : f = ModelFor(m, tune, n, b) /\ g = ModelFor(c, tune, n, b)
  OBVIOUS
<1>5. /\ DOMAIN r = LayerFields \cup ModelFields /\ \A y \in LayerFields : r[y] = LayerParts(m, b)[y]
      /\ \A y \in ModelFields : r[y] = f[y]
  BY <1>3, <1>4, PartsAre
<1>6. /\ \A y \in LayerFields : s[y] = LayerParts(c, b)[y]
      /\ \A y \in ModelFields : s[y] = g[y]
  BY <1>3, <1>4, PartsAre
<1>7. CASE <<x, m, c>> \in LayerArms
  <2>1. OneLayer(x, m, c, b)
    <3>1. PICK q \in LayerArms : q = <<x, m, c>>
      BY <1>7
    <3> QED
      BY <3>1, LayerArmsDiffer
  <2>2. f = g
    <3>1. PICK q \in LayerArms : q = <<x, m, c>>
      BY <1>7
    <3> QED
      BY <1>4, <3>1, LayerArmsAlike
  <2>3. x \in LayerFields /\ r[x] # s[x] /\ \A y \in LayerFields \ {x} : r[y] = s[y]
    BY <1>5, <1>6, <2>1 DEF OneLayer
  <2>4. \A y \in ModelFields : r[y] = s[y]
    BY <1>5, <1>6, <2>2
  <2>5. x \in LayerFields \cup ModelFields /\ \A y \in (LayerFields \cup ModelFields) \ {x} : r[y] = s[y]
    BY <2>3, <2>4
  <2>6. Cardinality({y \in DOMAIN r : r[y] # s[y]}) = 1
    BY <1>5, <2>3, <2>5, OneApart
  <2> QED
    BY <1>2, <1>3, <1>4, <2>2, <2>6 DEF DifferInOne
<1>8. CASE <<x, m, c>> \in ModelArms
  <2>1. PICK q \in ModelArms : q = <<x, m, c>>
    BY <1>8
  <2>2. OneField(x, f, g)
    BY <1>4, <2>1, ModelArmsDiffer
  <2>3. SameLayers(m, c, b)
    BY <2>1, ModelArmsAlike
  <2>4. x \in ModelFields /\ r[x] # s[x] /\ \A y \in ModelFields \ {x} : r[y] = s[y]
    BY <1>5, <1>6, <2>2 DEF OneField
  <2>5. \A y \in LayerFields : r[y] = s[y]
    BY <1>5, <1>6, <2>3 DEF SameLayers
  <2>6. x \in LayerFields \cup ModelFields /\ \A y \in (LayerFields \cup ModelFields) \ {x} : r[y] = s[y]
    BY <2>4, <2>5
  <2>7. Cardinality({y \in DOMAIN r : r[y] # s[y]}) = 1
    BY <1>5, <2>4, <2>6, OneApart
  <2>8. MixerWidth(f) = MixerWidth(g)
    BY <2>2 DEF OneField
  <2> QED
    BY <1>2, <1>3, <1>4, <2>7, <2>8 DEF DifferInOne
<1> QED
  BY <1>1, <1>2, <1>7, <1>8

(* In a research build that has every mechanism, an arm and its control    *)
(* make archives that differ in exactly what is measured, whatever the     *)
(* tune byte and the length.  The scored build compiles the arms out.      *)
THEOREM ArmsComparableAlways == Spec => []("submission" \notin enc => ArmsComparable)
PROOF
  <1>1. IInv => ("submission" \notin enc => ArmsComparable)
    <2> SUFFICES ASSUME IInv, "submission" \notin enc, FromEncoder, stage = "guard",
                        MechanismFeatures \subseteq enc, NEW p \in Controls, p[1] = asked, method = asked
                 PROVE  DifferInOne(asked, p[2], archive.tune, archive.n, enc)
      BY DEF ArmsComparable
    <2>1. Full(enc)
      BY DEF Full
    <2>2. archive.tune \in 0 .. 255
      BY DEF IInv, TypeOK
    <2>3. DifferInOne(p[1], p[2], archive.tune, archive.n, enc)
      BY <2>1, <2>2, ArmsDifferInOne
    <2> QED
      BY <2>3
  <1> QED
    BY SessionInvariant, <1>1, PTL
=============================================================================
