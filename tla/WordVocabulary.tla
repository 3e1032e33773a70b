--------------------------- MODULE WordVocabulary ---------------------------
(***************************************************************************)
(* The vocabularies of src/src/transform/mod.rs: which words (and phrases) *)
(* of a text get a token, in which order, and the subword units derived    *)
(* from them.  Bytes are 0 .. N - 1, where N is 256 in the code; the       *)
(* escape is 0 and the byte N - 1 doubles as the reserved id of some forms.*)
(***************************************************************************)
EXTENDS IdList, SequencesExt

CONSTANTS
  N,        \* the number of byte values
  Letters,  \* the bytes a word is made of
  Space,    \* the byte between the words of a phrase
  SUFFIXES  \* the table of suffixes

ASSUME NAssumption == N \in Nat /\ N >= 4
ASSUME LettersAssumption == Letters \subseteq 1 .. N - 2
ASSUME SpaceAssumption == Space \in (1 .. N - 2) \ Letters
ASSUME SuffixesAssumption == SUFFIXES \in Seq(Seq(Letters)) /\ Len(SUFFIXES) <= N

MAX_TOKENS == N - 1
\* The forms that keep the last id for an escape have one token less.
RESERVED_MAX == N - 2

\* f applied to e, which is evaluated once.
With(e, f(_)) == CHOOSE y \in {f(x) : x \in {e}} : TRUE

Take(s, n) == SubSeq(s, 1, IF n < Len(s) THEN n ELSE Len(s))

-----------------------------------------------------------------------------
(* Words and phrases of a text. *)

\* Just past the maximal run of letters that starts at i.
WordEnd(s, i) ==
  CHOOSE j \in i .. Len(s) + 1 :
    /\ \A k \in i .. j - 1 : s[k] \in Letters
    /\ j = Len(s) + 1 \/ s[j] \notin Letters

\* Where the words of s start.
Starts(s) ==
  {i \in DOMAIN s : s[i] \in Letters /\ (i = 1 \/ s[i - 1] \notin Letters)}

\* A word that ends at j has one space and another word after it.
PhraseAt(s, j) == j + 1 <= Len(s) /\ s[j] = Space /\ s[j + 1] \in Letters

Word(s, i)   == SubSeq(s, i, WordEnd(s, i) - 1)
Phrase(s, i) == SubSeq(s, i, WordEnd(s, WordEnd(s, i) + 1) - 1)

WordCount(s, w) == Cardinality({i \in Starts(s) : Word(s, i) = w})

Pairs(s) == {i \in Starts(s) : PhraseAt(s, WordEnd(s, i))}

\* The words and phrases of s with the times each occurs.
WordCounts(s) == {[word |-> w, count |-> WordCount(s, w)] : w \in {Word(s, i) : i \in Starts(s)}}
PhraseCounts(s) ==
  {[word |-> p, count |-> Cardinality({i \in Pairs(s) : Phrase(s, i) = p})] :
     p \in {Phrase(s, i) : i \in Pairs(s)}}

-----------------------------------------------------------------------------
(* The vocabulary builders. *)

\* Lexicographic order, a prefix first.
Less(u, v) ==
  \E k \in 1 .. Len(v) :
    /\ k <= Len(u) + 1
    /\ \A i \in 1 .. k - 1 : u[i] = v[i]
    /\ k = Len(u) + 1 \/ u[k] < v[k]

Before(a, b) == a.count > b.count \/ (a.count = b.count /\ Less(a.word, b.word))

\* The candidates, the most frequent first and ties by word.
Ranked(S) ==
  [k \in 1 .. Cardinality(S) |->
     CHOOSE a \in S : Cardinality({b \in S : Before(b, a)}) = k - 1]

\* What a token of n bytes saves over the text, less the cost of its entry.
Gain(c, n) == c.count * (Len(c.word) - n) - (Len(c.word) + 1)

Candidates(S) == {c \in S : Len(c.word) >= 3 /\ c.count >= 2}

Vocabulary(S) ==
  LET kept == Take(Ranked({c \in Candidates(S) : Gain(c, 2) > 0}), MAX_TOKENS)
  IN  [k \in DOMAIN kept |-> kept[k].word]

BuildWordVocab(s)   == Vocabulary(WordCounts(s))
BuildPhraseVocab(s) == Vocabulary(WordCounts(s) \cup PhraseCounts(s))

\* The extended vocabulary prices a word by the code its rank would get.
Keep(kept, c) ==
  IF Gain(c, IF Len(kept) < RESERVED_MAX THEN 2 ELSE 3) > 0
  THEN Append(kept, c.word) ELSE kept

BuildWordVocab2(s) ==
  LET ranked == Ranked(Candidates(WordCounts(s)))
      kept[k \in 0 .. Len(ranked)] == IF k = 0 THEN <<>> ELSE With(kept[k - 1], LAMBDA now : Keep(now, ranked[k]))
  IN  Take(kept[Len(ranked)], N * N - 2)

-----------------------------------------------------------------------------
(* Subword units: byte pairs of the vocabulary.  A symbol below N is a     *)
(* byte, and N + k - 1 is the k-th unit.                                   *)

\* s with every pair of a and b, from the left, replaced by new.
Replaced(s, pair, new) ==
  LET hit(k) == k < Len(s) /\ s[k] = pair[1] /\ s[k + 1] = pair[2]
      from[k \in 1 .. Len(s) + 1] ==
        IF k > Len(s) THEN <<>>
        ELSE IF hit(k) THEN <<new>> \o from[k + 2]
        ELSE <<s[k]>> \o from[k + 1]
  IN  from[1]

\* The places of seqs where a pair of neighbours starts.
PairPlaces(seqs) == {p \in (DOMAIN seqs) \X (1 .. 2 * N) : p[2] < Len(seqs[p[1]])}
PairAt(seqs, p)  == <<seqs[p[1]][p[2]], seqs[p[1]][p[2] + 1]>>

\* The pairs that occur at least twice.
Repeated(seqs) ==
  With(PairPlaces(seqs), LAMBDA all :
    {c \in {[word |-> q, count |-> Cardinality({p \in all : PairAt(seqs, p) = q})] :
              q \in {PairAt(seqs, p) : p \in all}} : c.count >= 2})

\* The k-th unit: the most frequent pair, the least of those.
Learn(st, k) ==
  With(Repeated(st.seqs), LAMBDA found :
    IF found = {} THEN st
    ELSE With(Ranked(found)[1].word, LAMBDA best :
           [merges |-> Append(st.merges, best),
            seqs   |-> [v \in DOMAIN st.seqs |-> Replaced(st.seqs[v], best, N + k - 1)]]))

\* The units a vocabulary yields, until no pair occurs twice.
DeriveMerges(vocab) ==
  LET after[k \in 0 .. RESERVED_MAX] ==
        IF k = 0 THEN [merges |-> <<>>, seqs |-> vocab] ELSE With(after[k - 1], LAMBDA st : Learn(st, k))
  IN  after[RESERVED_MAX].merges

\* A word as symbols: the units applied in the order they were learned.
Pieces(word, merges) ==
  LET after[k \in 0 .. Len(merges)] ==
        IF k = 0 THEN word ELSE With(after[k - 1], LAMBDA now : Replaced(now, merges[k], N + k - 1))
  IN  after[Len(merges)]

\* The bytes of a symbol.
Spell(sym, merges) ==
  LET spell[y \in 0 .. N + Len(merges) - 1] ==
        IF y < N THEN <<y>>
        ELSE spell[merges[y - N + 1][1]] \o spell[merges[y - N + 1][2]]
  IN  spell[sym]

-----------------------------------------------------------------------------
(* SUFFIXES. *)

\* Those of the table that leave w a stem of at least two letters.
Endings(w) ==
  {c \in DOMAIN SUFFIXES :
     /\ Len(w) >= Len(SUFFIXES[c]) + 2
     /\ SubSeq(w, Len(w) - Len(SUFFIXES[c]) + 1, Len(w)) = SUFFIXES[c]}

\* The longest, the first of the table among equals.
Ending(w) ==
  CHOOSE c \in Endings(w) :
    \A d \in Endings(w) \ {c} :
      \/ Len(SUFFIXES[d]) < Len(SUFFIXES[c])
      \/ Len(SUFFIXES[d]) = Len(SUFFIXES[c]) /\ c < d

Stem(w) == SubSeq(w, 1, Len(w) - Len(SUFFIXES[Ending(w)]))
=============================================================================
