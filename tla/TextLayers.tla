----------------------------- MODULE TextLayers -----------------------------
(***************************************************************************)
(* The other layers of src/src/transform/mod.rs on the machine of          *)
(* WordTokens: a text is wrapped piece by piece, and a decoder unwraps the *)
(* stream piece by piece.                                                  *)
(*   hoist     structural strings as one-byte codes (encode, decode)       *)
(*   case      words in lower case behind a mark of their case             *)
(*   markonly  the marks alone, the words as they are                      *)
(*   stem      the words that end in a suffix as its code and the rest     *)
(*   perm      every byte renamed; the table travels with the archive      *)
(***************************************************************************)
EXTENDS WordTokens

CONSTANTS
  DICT,          \* the structural strings
  Del,           \* the other byte that hoisting reserves, 0x7f in the code
  Capital,       \* lower-case letters to their capitals
  Shuffle,       \* the permutation of the control arm
  LayerTexts,    \* form |-> the inputs of its encoder
  LayerStreams   \* form |-> streams no encoder wrote

LayerForms == DOMAIN LayerTexts

Lower == DOMAIN Capital
Upper == Range(Capital)

CASE_TITLE == 1
CASE_UPPER == 2
CASE_MIXED == 3
STEM_MARK  == 1

ASSUME LayerFormsAssumption ==
  /\ LayerForms \subseteq {"hoist", "case", "markonly", "stem", "perm"}
  /\ DOMAIN LayerStreams \subseteq LayerForms \ {"perm"}
  /\ \A f \in LayerForms : LayerTexts[f] \subseteq Seq(0 .. N - 1)
\* No letter is a mark, a dictionary code or another one's capital.
ASSUME CapitalAssumption ==
  /\ IsInjective(Capital)
  /\ Lower \cup Upper = Letters /\ Lower \cap Upper = {}
  /\ \A l \in Letters : l > CASE_MIXED
ASSUME DictAssumption ==
  /\ DICT \in Seq(Seq(0 .. N - 1)) /\ Del \in 0 .. N - 1 /\ Len(DICT) < Del
  /\ \A k \in DOMAIN DICT : DICT[k] # <<>>
\* A permutation is the codes of the bytes 0 .. N - 1.
ASSUME ShuffleAssumption == Shuffle \in [1 .. N -> 0 .. N - 1] /\ IsInjective(Shuffle)

-----------------------------------------------------------------------------
(* What the layers are made of. *)

\* Just past the maximal run of bytes of S from p on.
RunEnd(s, p, S) ==
  CHOOSE q \in p .. Len(s) + 1 :
    /\ \A k \in p .. q - 1 : s[k] \in S
    /\ q = Len(s) + 1 \/ s[q] \notin S

InLower(w)   ==
  [k \in DOMAIN w |-> IF w[k] \in Upper THEN CHOOSE l \in Lower : Capital[l] = w[k] ELSE w[k]]
InCapital(w) == [k \in DOMAIN w |-> Capital[w[k]]]
Titled(w)    == IF w = <<>> THEN w ELSE <<Capital[w[1]]>> \o Tail(w)

\* The mark of a word's case; 0, which is never written, for lower case.
WordClass(w) ==
  CASE Range(w) \subseteq Lower -> 0
    [] w[1] \in Upper /\ Range(Tail(w)) \subseteq Lower -> CASE_TITLE
    [] Len(w) > 1 /\ Range(w) \subseteq Upper -> CASE_UPPER
    [] OTHER -> CASE_MIXED

\* The dictionary strings at p.
Hoistable(p) ==
  {k \in DOMAIN DICT : p + Len(DICT[k]) - 1 <= Len(text)
                       /\ SubSeq(text, p, p + Len(DICT[k]) - 1) = DICT[k]}

\* The longest of them, the first of the table among equals.
Hoisted(S) ==
  CHOOSE k \in S :
    \A l \in S \ {k} :
      Len(DICT[l]) < Len(DICT[k]) \/ (Len(DICT[l]) = Len(DICT[k]) /\ k < l)

\* Mutant: hoisting does not escape its highest code.
ReservedBelow(b) ==
  CASE form = "hoist" -> b < Len(DICT) \/ b = Del
    [] form = "stem"  -> b <= STEM_MARK
    [] form = "perm"  -> FALSE
    [] OTHER          -> b <= CASE_MIXED

\* The bytes that are escaped where they stand for themselves.
Reserved(b) ==
  CASE form = "hoist" -> b <= Len(DICT) \/ b = Del
    [] form = "stem"  -> b <= STEM_MARK
    [] form = "perm"  -> FALSE
    [] OTHER          -> b <= CASE_MIXED

\* The codes of the bytes: the more frequent, the smaller.
FrequencyPerm(s) ==
  LET count(b)      == Cardinality({k \in DOMAIN s : s[k] = b})
      before(a, b)  == count(a) > count(b) \/ (count(a) = count(b) /\ a < b)
  IN  [k \in 1 .. N |-> Cardinality({b \in 0 .. N - 1 : before(b, k - 1)})]

InvertPerm(perm) == [k \in 1 .. N |-> (CHOOSE m \in 1 .. N : perm[m] = k - 1) - 1]

-----------------------------------------------------------------------------
(* The encoders. *)

\* A word and its case or its suffix.
WrappedWord(w) ==
  IF form = "stem"
  THEN IF Endings(w) = {} THEN w ELSE <<STEM_MARK, Ending(w) - 1>> \o Stem(w)
  ELSE IF WordClass(w) = 0 THEN w
  ELSE <<WordClass(w)>>
         \o (IF form = "markonly" \/ WordClass(w) = CASE_MIXED THEN w ELSE InLower(w))

WrapWord ==
  /\ stage = "wrap" /\ form \in {"case", "markonly", "stem"}
  /\ i <= Len(text) /\ text[i] \in Letters
  /\ UNCHANGED <<list, defined>>
  /\ Emit(WrappedWord(Word(text, i)), i + Len(Word(text, i)))

WrapString ==
  /\ stage = "wrap" /\ form = "hoist"
  /\ i <= Len(text) /\ Hoistable(i) # {}
  /\ UNCHANGED <<list, defined>>
  /\ LET k == Hoisted(Hoistable(i)) IN Emit(<<k>>, i + Len(DICT[k]))

WrapByte ==
  /\ stage = "wrap" /\ i <= Len(text)
  /\ form \in {"case", "markonly", "stem"} => text[i] \notin Letters
  /\ form = "hoist" => Hoistable(i) = {}
  /\ UNCHANGED <<list, defined>>
  /\ Emit(CASE form = "perm"     -> <<vocab[1][text[i] + 1]>>
            [] Reserved(text[i]) -> <<ESC, text[i]>>
            [] OTHER             -> <<text[i]>>, i + 1)

\* The permutation, if any, is in the archive's header.
WrapEnd ==
  /\ stage = "wrap" /\ i > Len(text)
  /\ stage' = "unwrap"
  /\ dict' = vocab
  /\ UNCHANGED <<job, enc, units, j, left, dlist, back, trail>>

-----------------------------------------------------------------------------
(* The decoders. *)

Restore(piece, next) ==
  /\ back' = back \o piece
  /\ DecodeTo("unwrap", next)
  /\ UNCHANGED <<units, left, dict, dlist>>

\* An escape at the very end stands for itself.
UnwrapEscaped ==
  /\ stage = "unwrap" /\ form # "perm" /\ j <= Len(out) /\ out[j] = ESC
  /\ IF j < Len(out) THEN Restore(<<out[j + 1]>>, j + 2) ELSE Restore(<<ESC>>, j + 1)

UnwrapString ==
  /\ stage = "unwrap" /\ form = "hoist" /\ j <= Len(out) /\ out[j] \in DOMAIN DICT
  /\ Restore(DICT[out[j]], j + 1)

Marks ==
  CASE form = "stem"                 -> {STEM_MARK}
    [] form \in {"case", "markonly"} -> {CASE_TITLE, CASE_UPPER, CASE_MIXED}
    [] OTHER                         -> {}

\* A mark of case and the letters that follow it.
UnwrapCased ==
  /\ stage = "unwrap" /\ form \in {"case", "markonly"} /\ j <= Len(out) /\ out[j] \in Marks
  /\ LET ends == RunEnd(out, j + 1,
                        IF form = "markonly" \/ out[j] = CASE_MIXED THEN Letters ELSE Lower)
         w    == SubSeq(out, j + 1, ends - 1)
     IN  Restore(IF form = "markonly" \/ out[j] = CASE_MIXED THEN w
                 ELSE IF out[j] = CASE_TITLE THEN Titled(w) ELSE InCapital(w), ends)

\* A suffix that is not in the table is left out; a mark at the very end
\* stands for itself.
UnwrapStem ==
  /\ stage = "unwrap" /\ form = "stem" /\ j <= Len(out) /\ out[j] = STEM_MARK
  /\ IF j = Len(out) THEN Restore(<<STEM_MARK>>, j + 1)
     ELSE LET ends == RunEnd(out, j + 2, Letters)
              code == out[j + 1] + 1
          IN  Restore(SubSeq(out, j + 2, ends - 1)
                        \o (IF code \in DOMAIN SUFFIXES THEN SUFFIXES[code] ELSE <<>>), ends)

UnwrapByte ==
  /\ stage = "unwrap" /\ j <= Len(out)
  /\ IF form = "perm" THEN Restore(<<InvertPerm(dict[1])[out[j] + 1]>>, j + 1)
     ELSE /\ out[j] \notin {ESC} \cup Marks
          /\ form = "hoist" => out[j] \notin DOMAIN DICT
          /\ Restore(<<out[j]>>, j + 1)

UnwrapEnd ==
  /\ stage = "unwrap" /\ j > Len(out)
  /\ DecodeTo("done", j)
  /\ UNCHANGED <<units, left, dict, dlist, back>>

-----------------------------------------------------------------------------
LayerInit ==
  /\ blocked = {} /\ mode = "Static" /\ list = NewList(0) /\ units = <<>>
  /\ \/ /\ stage = "wrap"
        /\ form \in LayerForms /\ text \in LayerTexts[form]
        /\ vocab \in IF form = "perm" THEN {<<FrequencyPerm(text)>>, <<Shuffle>>} ELSE {<<>>}
        /\ out = <<>>
        /\ trail = {[at |-> 0, read |-> 0, order |-> <<>>, defined |-> {}]}
     \/ /\ stage = "unwrap"
        /\ form \in DOMAIN LayerStreams /\ out \in LayerStreams[form]
        /\ text = <<>> /\ vocab = <<>> /\ trail = {}
  /\ Start

LayerNext ==
  \/ WrapWord \/ WrapString \/ WrapByte \/ WrapEnd
  \/ UnwrapEscaped \/ UnwrapString \/ UnwrapCased \/ UnwrapStem \/ UnwrapByte \/ UnwrapEnd
=============================================================================
