---------------------------- MODULE MCTransforms ----------------------------
(* Ten byte values: the escape 0, the marks 1 to 3, the letters 4 and 5    *)
(* with their capitals 7 and 8, a space 6, and the byte 9 that is reserved *)
(* and the escape of the grammars.  The entries of a vocabulary stay below *)
(* N bytes, so that their length fits its byte; LongTexts has one that     *)
(* does not.                                                               *)
EXTENDS Grammar

Strings(bytes, n) == UNION {[1 .. l -> bytes] : l \in 0 .. n}

MCSuffixes == << <<4, 5>>, <<5>> >>

-----------------------------------------------------------------------------
(* Word tokens. *)

MCForms == {"list", "firstuse", "subword", "extended", "phrase", "front", "affix"}

MCVocabs ==
  {<< <<4>>, <<4, 5>>, <<5, 4, 5>> >>,
   << <<5>>, <<4, 5, 4, 5>>, <<4>>, <<5, 5>>, <<5, 4>>, <<4, 5>> >>}

Fits(t) == \A w \in Range(BuildPhraseVocab(t)) : Len(w) < N

\* Words and phrases repeated often enough to enter the built vocabularies.
Chunk == {<<4, 5, 6>>, <<4, 5, 4, 5, 6>>, <<5, 4, 4, 5, 0>>, <<4, 5, 0>>}
Chunks == {t \in {FlattenSeq(s) : s \in [1 .. 4 -> Chunk]} : Fits(t)}

\* Ten words of five letters, four times each: more than the two-byte ids.
Many ==
  LET once == <<4,4,4,4,4,1, 4,4,4,4,5,1, 4,4,4,5,4,1, 4,4,5,4,4,1, 4,5,4,4,4,1,
                5,4,4,4,4,1, 5,5,4,4,4,1, 4,4,4,5,5,1, 4,4,5,5,4,1, 4,5,5,4,4,1>>
  IN  {once \o once \o once \o once \o <<5, 4, 5, 0, 4>>}

\* A word that enters the vocabulary, and words that are it and a suffix.
Inflected ==
  LET w == <<4, 5, 4, 5>>
  IN  {w \o <<2>> \o w \o a \o <<0>> \o w \o <<2>> \o w \o b \o <<1>> \o w :
         a, b \in {<<5>>, <<4, 5>>, <<4>>, <<5, 5>>}}

MCTexts == Strings({0, 4, 5, N - 1}, 4) \cup Chunks \cup Many \cup Inflected
MCStreams == Strings({0, 1, 2, N - 1}, 4)

LongTexts ==
  LET w == <<4, 5, 4, 5, 4, 5, 4, 5, 4, 5>> IN {w \o <<6>> \o w \o <<6>> \o w}

-----------------------------------------------------------------------------
(* The other layers. *)

MCDict    == << <<6, 6>>, <<6, 6, 4>>, <<4, 6>> >>
MCCapital == (4 :> 7) @@ (5 :> 8)
MCShuffle == <<3, 0, 9, 1, 8, 2, 7, 4, 6, 5>>

MCLayerTexts ==
  [hoist    |-> Strings({0, 3, 4, 6, 9}, 4),
   case     |-> Strings({0, 3, 4, 7}, 4) \cup Strings({4, 5, 7, 8}, 3),
   markonly |-> Strings({0, 3, 4, 7}, 4),
   stem     |-> Strings({0, 1, 4, 5}, 4) \cup {<<5>> \o w \o <<1>> : w \in [1 .. 3 -> {4, 5, 7}]},
   perm     |-> Strings({0, 4, 9}, 3)]

MCLayerStreams ==
  [f \in {"hoist", "case", "markonly", "stem"} |-> Strings({0, 1, 3, 4, 7}, 3)]

-----------------------------------------------------------------------------
(* Grammars: repeats that overlap and that nest, and the escaped literals. *)

Sparse == {<<7, 8, 9>> \o s : s \in Strings({4, 9}, 4)} \cup {s \o s \o s : s \in [1 .. 3 -> {4, 5}]}
Nested == {<<4, 5, 4, 5, 4, 5, 4, 5>>, <<4, 5, 6, 4, 5, 6, 4, 5, 4, 5, 6>>, <<9, 8, 9, 8, 7, 9, 8, 7>>,
           <<4, 5, 5, 4, 4, 5, 5, 4, 5, 5>>, <<4, 5, 6, 7, 8, 4, 5, 6, 7, 8>>,
           <<8, 7, 6, 5, 4, 8, 7, 6, 5, 4>>}

MCGrammarTexts ==
  [f \in {"verbatim", "mr", "mtf", "rrank", "oneshot", "inline", "lzbe"} |-> Sparse \cup Nested]

\* Streams no encoder wrote: up to two rules of any two symbols, a body of
\* symbols or of ranks, and the definitions of decode_firstuse() in between.  A
\* symbol is a byte, one of the rules, or a rule there is not; so a rule may
\* lead to a later one or to itself.
Escaped(first)  == {<<4>>, <<9, first>>, <<9, first + 1>>, <<9, first + 2>>}
Bodies(symbols) == UNION {[1 .. l -> symbols] : l \in 1 .. 2}
Rules(symbols)  == UNION {[1 .. l -> symbols \X symbols] : l \in 0 .. 2}

TableStreams ==
  {<<Len(r)>> \o FlattenSeq([k \in DOMAIN r |-> r[k][1] \o r[k][2]])
     \o <<flag, Len(b)>> \o FlattenSeq(b) :
     r \in Rules(Escaped(1)), flag \in {0, 1}, b \in Bodies(Escaped(1) \ {<<9, 3>>})}

InlineStreams ==
  {FlattenSeq([k \in DOMAIN r |-> <<8, k - 1>> \o r[k][1] \o r[k][2]]) \o FlattenSeq(b) :
     r \in Rules(Escaped(3)), b \in Bodies(Escaped(3) \ {<<9, 5>>})}

MCGrammarStreams ==
  [verbatim |-> TableStreams, inline |-> InlineStreams \cup Strings({1, 8, 9}, 4),
   lzbe     |-> Strings({0, 1, 2, 4}, 4)]

GrammarStreamInit ==
  /\ stage = "written"
  /\ form \in DOMAIN MCGrammarStreams /\ out \in MCGrammarStreams[form]
  /\ mode = "Static" /\ text = <<>> /\ vocab = <<>> /\ blocked = {}
  /\ list = NewList(0) /\ units = <<>> /\ trail = {}
  /\ Start

\* TransformSpec on these streams as well; where expanding is endless, and its
\* states without number, the run looks no further.
MCInit == TransformInit \/ GrammarStreamInit
MCNext ==
  \/ Next \/ LayerNext
  \/ Round \/ OneShot \/ EndInduction \/ WriteRules \/ WriteSymbol \/ Factor \/ EndWrite \/ Cut
  \/ ReadRuleCount \/ ReadRule \/ ReadFlag \/ ReadRank \/ ReadDefinition \/ ReadSymbol \/ EndBody
  \/ ~Endless /\ Expand
  \/ ReadFactor \/ EndDecode
MCSpec == MCInit /\ [][MCNext]_vars /\ WF_vars(MCNext)
=============================================================================
