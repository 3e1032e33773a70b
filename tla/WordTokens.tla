----------------------------- MODULE WordTokens -----------------------------
(***************************************************************************)
(* The word-token codecs of src/src/transform/mod.rs: an encoder that      *)
(* writes a vocabulary and then the text with its words replaced by ids,   *)
(* and the decoder that reads the vocabulary back, keeps the same list of  *)
(* ids (or the same dictionary of definitions, or the same subword units)  *)
(* and expands them.  One specification for every form of the stream:      *)
(*   list      word_token_encode_mode, _vocab, _vocab_filtered             *)
(*   firstuse  definitions at the first use instead of a header            *)
(*   subword   units for the words outside the vocabulary                  *)
(*   extended  ids of three more bytes after the two-byte ones             *)
(*   phrase    entries of two words;  front  a front-coded header          *)
(*   affix     an entry and a suffix for a word outside the vocabulary     *)
(***************************************************************************)
EXTENDS WordVocabulary

CONSTANTS
  Forms,    \* the forms that occur
  Texts,    \* the inputs of the encoder
  Vocabs,   \* the vocabularies callers bring along
  Streams   \* streams no encoder wrote, for the decoder alone

ASSUME FormsAssumption ==
  Forms \subseteq {"list", "firstuse", "subword", "extended", "phrase", "front", "affix"}
ASSUME TextsAssumption == Texts \subseteq Seq(0 .. N - 1)
\* A caller's vocabulary is a list of words, as many as there are ids.
ASSUME VocabsAssumption ==
  /\ Vocabs \subseteq Seq(Seq(0 .. N - 1))
  /\ \A v \in Vocabs : Len(v) <= MAX_TOKENS

VARIABLES
  stage,    \* "encode", "count", "header", "body" or "done"
  form, mode,
  text, vocab,
  blocked,  \* the entries that are not to be used
  i,        \* encoder: the position in the text
  out,      \* the stream
  list,     \* the encoder's ids
  defined,  \* firstuse: the entries defined so far
  units,    \* subword: the units of the side that runs
  j,        \* decoder: the position in the stream
  left,     \* header entries still to read
  dict, dlist,
  back,     \* what is decoded
  trail     \* history: where the encoder was when it had written this much

job  == <<form, mode, text, vocab, blocked>>
enc  == <<i, out, list, defined>>
vars == <<stage, job, enc, units, j, left, dict, dlist, back, trail>>

ESC == 0

-----------------------------------------------------------------------------
(* The encoder. *)

\* Which vocabularies a text can be encoded with: the callers' own where the
\* codec takes one, else the one it builds, in either order.
VocabChoices ==
  LET built == {BuildWordVocab(text), Reverse(BuildWordVocab(text))}
  IN  CASE form = "list"                  -> built \cup Vocabs
        [] form \in {"firstuse", "subword"} -> {Take(v, RESERVED_MAX) : v \in built \cup Vocabs}
        [] form = "front"                 -> built
        [] form = "affix"                 -> {Take(v, RESERVED_MAX) : v \in built}
        [] form = "extended"              -> {BuildWordVocab2(text)}
        [] form = "phrase"                -> {BuildPhraseVocab(text), Reverse(BuildPhraseVocab(text))}

Shared(u, w) ==
  CHOOSE n \in 0 .. Len(u) :
    /\ n <= Len(w)
    /\ \A k \in 1 .. n : u[k] = w[k]
    /\ n = Len(u) \/ n = Len(w) \/ u[n + 1] # w[n + 1]

\* A header entry: its length in one byte, and its bytes.
Entry(w) == <<Len(w) % N>> \o w

\* Against the entry before it: the length of the shared prefix, and the rest.
FrontEntry(u, w) ==
  <<IF Shared(u, w) < N THEN Shared(u, w) ELSE N - 1>>
    \o Entry(SubSeq(w, Shared(u, w) + 1, Len(w)))

Header ==
  LET n == Len(vocab)
  IN  CASE form = "firstuse" -> <<>>
        [] form = "extended" -> <<n % N, n \div N>> \o FlattenSeq([k \in 1 .. n |-> Entry(vocab[k])])
        [] form = "front"    -> <<n % N>> \o FlattenSeq([k \in 1 .. n |->
                                  FrontEntry(IF k = 1 THEN <<>> ELSE vocab[k - 1], vocab[k])])
        [] OTHER             -> <<n % N>> \o FlattenSeq([k \in 1 .. n |-> Entry(vocab[k])])

Known(w) == w \in Range(vocab) \ blocked
Index(w) == CHOOSE k \in DOMAIN vocab : vocab[k] = w

\* A word of the vocabulary in the form's code.
Token(w) ==
  LET id == Index(w)
  IN  CASE form = "list" -> <<ESC, list.pos[id]>>
        [] form = "firstuse" /\ id \notin defined -> <<ESC, N - 1, id>> \o Entry(w)
        [] form = "extended" /\ id > N - 2 ->
             <<ESC, N - 1, (id - (N - 1)) \div N, (id - (N - 1)) % N>>
        [] OTHER -> <<ESC, id>>

\* Any other word: units, an entry and a suffix, or its letters.
Spelled(w) ==
  IF form = "subword"
  THEN With(Pieces(w, units), LAMBDA pieces :
         FlattenSeq([k \in DOMAIN pieces |->
           IF pieces[k] < N THEN <<pieces[k]>> ELSE <<ESC, N - 1, pieces[k] - N>>]))
  ELSE IF form = "affix" /\ Endings(w) # {} /\ Known(Stem(w))
  THEN <<ESC, N - 1, Index(Stem(w)), Ending(w) - 1>>
  ELSE w

\* The text up to next becomes code; w is the entry that was used, if any.
Emit(code, next) ==
  /\ out' = out \o code
  /\ i' = next
  /\ trail' = trail \cup {[at |-> Len(out'), read |-> next - 1,
                           order |-> list'.order, defined |-> defined']}
  /\ UNCHANGED <<stage, job, units, j, left, dict, dlist, back>>

EncodeWord ==
  /\ stage = "encode" /\ i <= Len(text) /\ text[i] \in Letters
  /\ LET alone  == Word(text, i)
         phrase == form = "phrase" /\ PhraseAt(text, WordEnd(text, i)) /\ Known(Phrase(text, i))
         w      == IF phrase THEN Phrase(text, i) ELSE alone
     IN  /\ list' = IF Known(w) THEN Touch(list, Index(w), mode) ELSE list
         /\ defined' = IF form = "firstuse" /\ Known(w) THEN defined \cup {Index(w)} ELSE defined
         /\ Emit(IF Known(w) THEN Token(w) ELSE Spelled(w), i + Len(w))

EncodeByte ==
  /\ stage = "encode" /\ i <= Len(text) /\ text[i] \notin Letters
  /\ UNCHANGED <<list, defined>>
  /\ Emit(IF text[i] = ESC THEN <<ESC, 0>> ELSE <<text[i]>>, i + 1)

EncodeEnd ==
  /\ stage = "encode" /\ i > Len(text)
  /\ stage' = "count"
  /\ UNCHANGED <<job, enc, units, j, left, dict, dlist, back, trail>>

-----------------------------------------------------------------------------
(* The decoder. *)

\* Of the marked codes only a first-use definition has a length of its own.
Marked ==
  out[j + 1] = N - 1 /\ form \in {"firstuse", "subword", "extended", "affix"}

DecodeTo(st, next) ==
  /\ stage' = st
  /\ j' = next
  /\ UNCHANGED <<job, enc, trail>>

ReadCount ==
  /\ stage = "count"
  /\ LET bytes == IF form = "firstuse" THEN 0 ELSE IF form = "extended" THEN 2 ELSE 1
     IN  /\ DecodeTo(IF Len(out) < bytes THEN "done" ELSE "header", bytes + 1)
         /\ left' = IF Len(out) < bytes \/ bytes = 0 THEN 0
                    ELSE IF bytes = 1 THEN out[1] ELSE out[1] + N * out[2]
  /\ dict' = IF form = "firstuse" THEN [k \in 1 .. RESERVED_MAX |-> <<>>] ELSE <<>>
  /\ UNCHANGED <<units, dlist, back>>

\* A header entry; a truncated one ends the header where it stopped reading.
ReadEntry ==
  /\ stage = "header" /\ left > 0
  /\ LET lead   == IF form = "front" THEN 2 ELSE 1
         prev   == IF dict = <<>> THEN <<>> ELSE dict[Len(dict)]
         next   == j + lead + out[j + lead - 1]
         prefix == IF form = "front" THEN Take(prev, out[j]) ELSE <<>>
     IN  IF j + lead - 1 > Len(out)
         THEN DecodeTo("header", j) /\ left' = 0 /\ UNCHANGED dict
         ELSE IF next - 1 > Len(out)
         THEN DecodeTo("header", j + lead) /\ left' = 0 /\ UNCHANGED dict
         ELSE /\ DecodeTo("header", next)
              /\ left' = left - 1
              /\ dict' = Append(dict, prefix \o SubSeq(out, j + lead, next - 1))
  /\ UNCHANGED <<units, dlist, back>>

EndHeader ==
  /\ stage = "header" /\ left = 0
  /\ DecodeTo("body", j)
  /\ dlist' = NewList(Len(dict))
  /\ units' = IF form = "subword" THEN DeriveMerges(dict) ELSE <<>>
  /\ UNCHANGED <<left, dict, back>>

DecodeByte ==
  /\ stage = "body" /\ j <= Len(out) /\ out[j] # ESC
  /\ back' = Append(back, out[j])
  /\ DecodeTo("body", j + 1)
  /\ UNCHANGED <<units, left, dict, dlist>>

DecodeNul ==
  /\ stage = "body" /\ j < Len(out) /\ out[j] = ESC /\ out[j + 1] = 0
  /\ back' = Append(back, 0)
  /\ DecodeTo("body", j + 2)
  /\ UNCHANGED <<units, left, dict, dlist>>

\* A decoder that leaves its list as it was.
DecodeIdUnpromoted ==
  /\ stage = "body" /\ j < Len(out) /\ out[j] = ESC /\ out[j + 1] # 0 /\ ~Marked
  /\ back' = IF out[j + 1] \in DOMAIN dict THEN back \o dict[dlist.order[out[j + 1]]] ELSE back
  /\ DecodeTo("body", j + 2)
  /\ UNCHANGED <<units, left, dict, dlist>>

\* An id names an entry by its place in the decoder's list; one that names
\* none is dropped.
DecodeId ==
  /\ stage = "body" /\ j < Len(out) /\ out[j] = ESC /\ out[j + 1] # 0 /\ ~Marked
  /\ IF out[j + 1] \in DOMAIN dict
     THEN LET v == dlist.order[out[j + 1]]
          IN  back' = back \o dict[v] /\ dlist' = Touch(dlist, v, mode)
     ELSE UNCHANGED <<back, dlist>>
  /\ DecodeTo("body", j + 2)
  /\ UNCHANGED <<units, left, dict>>

\* A marked code that the stream has in full.
Whole ==
  CASE form = "firstuse" -> /\ j + 3 <= Len(out)
                            /\ j + 3 + out[j + 3] <= Len(out)
                            /\ out[j + 2] \in 1 .. RESERVED_MAX
    [] form = "subword"  -> j + 2 <= Len(out)
    [] OTHER             -> j + 3 <= Len(out)

MarkedCode ==
  stage = "body" /\ j < Len(out) /\ out[j] = ESC /\ Marked /\ Whole

\* A first-use definition is copied into the dictionary and the text.
DecodeDefinition ==
  /\ form = "firstuse" /\ MarkedCode
  /\ LET w == SubSeq(out, j + 4, j + 3 + out[j + 3])
     IN  dict' = [dict EXCEPT ![out[j + 2]] = w] /\ back' = back \o w
  /\ DecodeTo("body", j + 4 + out[j + 3])
  /\ UNCHANGED <<units, left, dlist>>

DecodeUnit ==
  /\ form = "subword" /\ MarkedCode
  /\ back' = IF out[j + 2] < Len(units) THEN back \o Spell(N + out[j + 2], units) ELSE back
  /\ DecodeTo("body", j + 3)
  /\ UNCHANGED <<units, left, dict, dlist>>

DecodeExtended ==
  /\ form = "extended" /\ MarkedCode
  /\ LET id == N - 1 + N * out[j + 2] + out[j + 3]
     IN  back' = IF id <= Len(dict) THEN back \o dict[id] ELSE back
  /\ DecodeTo("body", j + 4)
  /\ UNCHANGED <<units, left, dict, dlist>>

DecodeAffix ==
  /\ form = "affix" /\ MarkedCode
  /\ back' = IF out[j + 2] \notin DOMAIN dict THEN back
             ELSE back \o dict[out[j + 2]]
                       \o (IF out[j + 3] < Len(SUFFIXES) THEN SUFFIXES[out[j + 3] + 1] ELSE <<>>)
  /\ DecodeTo("body", j + 4)
  /\ UNCHANGED <<units, left, dict, dlist>>

\* The end of the stream alone.
TruncatedAtEnd == j > Len(out)

\* The stream is at its end, or ends within a code.
Truncated ==
  \/ j > Len(out)
  \/ j = Len(out) /\ out[j] = ESC
  \/ j < Len(out) /\ out[j] = ESC /\ Marked /\ ~Whole

DecodeEnd ==
  /\ stage = "body" /\ Truncated
  /\ DecodeTo("done", j)
  /\ UNCHANGED <<units, left, dict, dlist, back>>

-----------------------------------------------------------------------------
Start ==
  /\ i = 1 /\ j = 1 /\ left = 0 /\ defined = {}
  /\ dict = <<>> /\ dlist = NewList(0) /\ back = <<>>

\* A text and one of its vocabularies, with at most one entry held back.
EncodeInit ==
  /\ stage = "encode"
  /\ text \in Texts /\ form \in Forms
  /\ mode \in IF form = "list" THEN Modes ELSE {"Static"}
  /\ vocab \in VocabChoices
  /\ blocked \in {{}} \cup (IF form = "list" THEN {{w} : w \in Range(vocab)} ELSE {})
  /\ out = Header
  /\ list = NewList(Len(vocab))
  /\ units = IF form = "subword" THEN DeriveMerges(vocab) ELSE <<>>
  /\ trail = {[at |-> Len(out), read |-> 0, order |-> list.order, defined |-> {}]}
  /\ Start

\* A stream from elsewhere: nothing was encoded.
StreamInit ==
  /\ stage = "count"
  /\ text = <<>> /\ vocab = <<>> /\ blocked = {} /\ form \in Forms
  /\ mode \in IF form = "list" THEN Modes ELSE {"Static"}
  /\ out \in Streams
  /\ list = NewList(0) /\ units = <<>> /\ trail = {}
  /\ Start

Init == EncodeInit \/ StreamInit

Next ==
  \/ EncodeWord \/ EncodeByte \/ EncodeEnd
  \/ ReadCount \/ ReadEntry \/ EndHeader
  \/ DecodeByte \/ DecodeNul \/ DecodeId
  \/ DecodeDefinition \/ DecodeUnit \/ DecodeExtended \/ DecodeAffix
  \/ DecodeEnd

Spec == Init /\ [][Next]_vars
FairSpec == Spec /\ WF_vars(Next)

-----------------------------------------------------------------------------
(* Properties.  An encoder has run when trail is not empty. *)

\* Decoding what an encoder wrote gives its text back, in every form, id
\* mode and vocabulary ("Exact inverse of [`word_token_encode_mode`]").
TextRestored == (stage = "done" /\ trail # {}) => back = text

\* Whenever the decoder has read as much of the stream as the encoder had
\* written at some point, it has the text up to there and the id list, the
\* vocabulary and the definitions the encoder had at that point.
Lockstep ==
  stage \in {"body", "unwrap"} =>
    \A t \in trail :
      t.at = j - 1 =>
        /\ back = SubSeq(text, 1, t.read)
        /\ form = "firstuse" => {k \in DOMAIN dict : dict[k] # <<>>} = t.defined
        /\ form # "firstuse" => dict = vocab /\ dlist.order = t.order

\* Each side can trust its two tables: an entry's position is where the
\* list has it, after any promotions, so no two entries ever share an id.
ListsInverse == Consistent(list) /\ Consistent(dlist)
=============================================================================
