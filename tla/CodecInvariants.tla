-------------------------- MODULE CodecInvariants ---------------------------
(***************************************************************************)
(* The inductive invariants of the codecs, with which TransformProofs      *)
(* shows that texts come back and that grammars stay grammars of their     *)
(* text. A stream carries no record of its encoder when the decoder runs.  *)
(* So each invariant says that the stream has marks: places where a code   *)
(* ends, each with the text read up to there, and from every mark but the  *)
(* last the code that the decoder will read leads to the next. An encoder  *)
(* adds marks, a decoder is always at one.                                 *)
(***************************************************************************)
EXTENDS Grammar

\* The letters of the stream.
Bytes == 0 .. N - 1

\* A list of n ids, with both tables of that size.
IsList(l, n) ==
  /\ l.order \in [1 .. n -> 1 .. n]
  /\ l.pos \in [1 .. n -> 1 .. n]
  /\ Consistent(l)

\* What a sequence of symbols stands for.
Yield(s, sp) == FlattenSeq([k \in 1 .. Len(s) |-> sp[s[k]]])

-----------------------------------------------------------------------------
(* What a symbol of a grammar stands for, and what an induced grammar is.  *)

\* The symbols when m units are known.
Symbols(m) == 0 .. N + m - 1

\* The k-th unit joins two symbols known before it.
Units(u) ==
  /\ u \in Seq(Seq(Nat))
  /\ \A k \in 1 .. Len(u) : u[k][1] \in 0 .. N + k - 2 /\ u[k][2] \in 0 .. N + k - 2

\* The recursive function in Spell.
Spelling(u) ==
  CHOOSE g : g = [y \in 0 .. N + Len(u) - 1 |->
                    IF y < N THEN <<y>> ELSE g[u[y - N + 1][1]] \o g[u[y - N + 1][2]]]

\* The grammar so far: rules, each of symbols known before it, no more than
\* allowed, and a body that stands for the text.
Grammatical ==
  /\ text \in Seq(Bytes)
  /\ Units(vocab) /\ Len(vocab) <= MaxRules
  /\ units \in Seq(Symbols(Len(vocab)))
  /\ Yield(units, Spelling(vocab)) = text

\* What holds while there is one.
Induced == stage = "induce" /\ form # "lzbe" => Grammatical

-----------------------------------------------------------------------------
(* The word tokens. c is the job: text, vocab, form and mode; a mark also  *)
(* has the encoder's list and definitions.                                 *)

\* What ids a form's vocabulary may take.
Capacity(f) ==
  IF f = "extended" THEN N * N - 2
  ELSE IF f \in {"firstuse", "subword", "affix"} THEN RESERVED_MAX
  ELSE MAX_TOKENS

\* A job whose entries fit their length byte and whose vocabulary fits the
\* ids of its form.
JobOK(c) ==
  /\ c.text \in Seq(Bytes) /\ c.vocab \in Seq(Seq(Bytes))
  /\ c.form \in {"list", "firstuse", "subword", "extended", "phrase", "front", "affix"}
  /\ c.form # "list" => c.mode = "Static"
  /\ Len(c.vocab) <= Capacity(c.form)
  /\ \A k \in 1 .. Len(c.vocab) : Len(c.vocab[k]) < N

\* The text up to n.
Upto(c, n) == SubSeq(c.text, 1, n)

\* A mark of a stream of n bytes.
MarkOK(c, m, n) ==
  /\ m.at \in 0 .. n /\ m.read \in 0 .. Len(c.text)
  /\ c.form # "list" => m.list = NewList(Len(c.vocab))
  /\ m.defined \subseteq 1 .. Len(c.vocab)
  /\ \A k \in m.defined : c.vocab[k] # <<>>

\* n bytes on, and w further in the text.
Reads(c, m, m2, n, w) == m2.at = m.at + n /\ Upto(c, m2.read) = Upto(c, m.read) \o w

\* The code between the marks changes no table.
Same(m, m2) == m2.list = m.list /\ m2.defined = m.defined

\* The code at m starts with ESC.
Escaped(o, m) == o[m.at + 1] = ESC

\* The code at m is a marked one.
MarkedAt(o, m) == Escaped(o, m) /\ o[m.at + 2] = N - 1

\* From m to m2 by a byte that stands for itself ...
LinkByte(c, o, m, m2) == ~Escaped(o, m) /\ Reads(c, m, m2, 1, <<o[m.at + 1]>>) /\ Same(m, m2)

\* ... by an escaped ESC ...
LinkNul(c, o, m, m2) == Escaped(o, m) /\ o[m.at + 2] = 0 /\ Reads(c, m, m2, 2, <<0>>) /\ Same(m, m2)

\* ... by the id of entry v, at place p of the list ...
LinkIdAs(c, o, m, m2, p, v) ==
  /\ Escaped(o, m) /\ o[m.at + 2] = p /\ v = m.list.order[p]
  /\ p = N - 1 => c.form \in {"list", "phrase", "front"}
  /\ Reads(c, m, m2, 2, c.vocab[v])
  /\ m2.list = Touch(m.list, v, c.mode) /\ m2.defined = m.defined
  /\ c.form = "firstuse" => v \in m.defined

\* ... for some entry and its place ...
LinkId(c, o, m, m2) == \E p, v \in 1 .. Len(c.vocab) : LinkIdAs(c, o, m, m2, p, v)

\* ... by the first-use definition of an entry ...
LinkDefAs(c, o, m, m2, id) ==
  /\ c.form = "firstuse" /\ MarkedAt(o, m) /\ o[m.at + 3] = id /\ o[m.at + 4] = Len(c.vocab[id])
  /\ \A x \in 1 .. Len(c.vocab[id]) : o[m.at + 4 + x] = c.vocab[id][x]
  /\ Reads(c, m, m2, 4 + Len(c.vocab[id]), c.vocab[id])
  /\ m2.list = m.list /\ m2.defined = m.defined \cup {id}

\* ... for some entry ...
LinkDef(c, o, m, m2) == \E id \in 1 .. Len(c.vocab) : LinkDefAs(c, o, m, m2, id)

\* ... by a unit of the subword form ...
LinkUnit(c, o, m, m2) ==
  /\ c.form = "subword" /\ MarkedAt(o, m) /\ o[m.at + 3] < Len(DeriveMerges(c.vocab))
  /\ Reads(c, m, m2, 3, Spelling(DeriveMerges(c.vocab))[N + o[m.at + 3]])
  /\ Same(m, m2)

\* ... by an extended id ...
LinkExtAs(c, o, m, m2, id) ==
  /\ c.form = "extended" /\ MarkedAt(o, m)
  /\ id = N - 1 + N * o[m.at + 3] + o[m.at + 4]
  /\ Reads(c, m, m2, 4, c.vocab[id]) /\ Same(m, m2)

\* ... for some entry ...
LinkExt(c, o, m, m2) == \E id \in 1 .. Len(c.vocab) : LinkExtAs(c, o, m, m2, id)

\* ... or by an entry and a suffix.
LinkAffix(c, o, m, m2) ==
  /\ c.form = "affix" /\ MarkedAt(o, m)
  /\ o[m.at + 3] \in 1 .. Len(c.vocab) /\ o[m.at + 4] < Len(SUFFIXES)
  /\ Reads(c, m, m2, 4, c.vocab[o[m.at + 3]] \o SUFFIXES[o[m.at + 4] + 1])
  /\ Same(m, m2)

\* The code the decoder reads at m leads to m2.
Link(c, o, m, m2) ==
  \/ LinkByte(c, o, m, m2) \/ LinkNul(c, o, m, m2) \/ LinkId(c, o, m, m2)
  \/ LinkDef(c, o, m, m2) \/ LinkUnit(c, o, m, m2) \/ LinkExt(c, o, m, m2)
  \/ LinkAffix(c, o, m, m2)

\* Marks of one stream: one per place, and from every one before the end a
\* code leads to another.
Trace(c, o, M) ==
  /\ o \in Seq(Bytes)
  /\ \A m \in M : MarkOK(c, m, Len(o))
  /\ \A m, m2 \in M : m.at = m2.at => m = m2
  /\ \A m \in M : m.at < Len(o) => \E m2 \in M : Link(c, o, m, m2)

\* A mark.
Mark(a, r, l, d) == [at |-> a, read |-> r, list |-> l, defined |-> d]

\* The encoder is at the end of the stream, with these tables.
At(c, o, M, r, l, d) == JobOK(c) /\ Trace(c, o, M) /\ Mark(Len(o), r, l, d) \in M

\* What is being encoded.
Job == [text |-> text, vocab |-> vocab, form |-> form, mode |-> mode]

\* The n bytes of w are next.
NextIs(w) ==
  /\ Len(w) \in Nat \ {0} /\ i - 1 + Len(w) <= Len(text)
  /\ w = SubSeq(text, i, i - 1 + Len(w))

\* The encoder is at i, with what the trace says.
Writing(M) ==
  /\ At(Job, out, M, i - 1, list, defined)
  /\ IsList(list, Len(vocab))
  /\ i \in 1 .. Len(text) + 1
  /\ form = "subword" => units = DeriveMerges(vocab)

\* The bytes of the count of entries.
Lead(c) == IF c.form = "extended" THEN 2 ELSE 1

\* The count of entries in the stream.
CountAt(c, o) == IF c.form = "extended" THEN o[1] + N * o[2] ELSE o[1]

\* The entry before entry k.
Previous(c, k) == IF k = 1 THEN <<>> ELSE c.vocab[k - 1]

\* Entry k behind the first a bytes.
PlainAt(c, o, a, k) ==
  /\ o[a + 1] = Len(c.vocab[k])
  /\ \A x \in 1 .. Len(c.vocab[k]) : o[a + 1 + x] = c.vocab[k][x]

\* Entry k shares s letters with the one before it.
FrontAs(c, o, a, k, s) ==
  /\ s <= Len(Previous(c, k)) /\ s <= Len(c.vocab[k])
  /\ \A x \in 1 .. s : Previous(c, k)[x] = c.vocab[k][x]
  /\ o[a + 1] = s /\ o[a + 2] = Len(c.vocab[k]) - s
  /\ \A x \in 1 .. Len(c.vocab[k]) - s : o[a + 2 + x] = c.vocab[k][s + x]

\* Entry k is between a and b in the form's layout.
EntryAt(c, o, a, b, k) ==
  IF c.form = "front"
  THEN \E s \in Nat : FrontAs(c, o, a, k, s) /\ b = a + 2 + (Len(c.vocab[k]) - s)
  ELSE PlainAt(c, o, a, k) /\ b = a + 1 + Len(c.vocab[k])

\* All the entries: entry k from V[k] to V[k + 1].
EntriesAt(c, o, V) ==
  /\ V \in [1 .. Len(c.vocab) + 1 -> Nat]
  /\ V[1] = Lead(c) /\ Lead(c) <= Len(o) /\ V[Len(c.vocab) + 1] <= Len(o)
  /\ \A k \in 1 .. Len(c.vocab) : V[k + 1] <= V[Len(c.vocab) + 1] /\ EntryAt(c, o, V[k], V[k + 1], k)

\* The mark at the end of the header.
FirstMark(c, a) == Mark(a, 0, NewList(Len(c.vocab)), {})

\* The stream starts with the header of the job, and the trace where it ends.
HeadOK(c, o, M, V) ==
  IF c.form = "firstuse" THEN FirstMark(c, 0) \in M
  ELSE /\ EntriesAt(c, o, V) /\ CountAt(c, o) = Len(c.vocab)
       /\ FirstMark(c, V[Len(c.vocab) + 1]) \in M

\* The parts of q behind g, and their places.
Behind(q, g, P, V) ==
  /\ V \in [1 .. Len(P) + 1 -> Nat] /\ V[1] = Len(g) /\ V[Len(P) + 1] = Len(q)
  /\ \A k \in 1 .. Len(P) : V[k + 1] = V[k] + Len(P[k]) /\ V[k + 1] <= V[Len(P) + 1]
  /\ \A k \in 1 .. Len(P) : \A x \in 1 .. Len(P[k]) : q[V[k] + x] = P[k][x]

\* The parts of the header of the job.
HeaderPart(k) ==
  IF form = "front" THEN FrontEntry(IF k = 1 THEN <<>> ELSE vocab[k - 1], vocab[k]) ELSE Entry(vocab[k])

\* The one thing the code does not see to: an entry's length is written in
\* one byte.
EntriesFit == \A k \in DOMAIN vocab : Len(vocab[k]) < N

\* Every place the history names is a mark.
Followed(M) ==
  \A t \in trail : \E m \in M : t.at = m.at /\ t.read = m.read /\ t.order = m.list.order /\ t.defined = m.defined

\* The mark at the end of the stream has the whole text.
AllRead(M) == \A m \in M : m.at = Len(out) => m.read = Len(text)

\* While encoding, the decoder has not started.
InEncoder(M) == Writing(M) /\ j = 1 /\ back = <<>>

\* Of n entries all but left are read.
InHeader(V) ==
  IF form = "firstuse"
  THEN left = 0 /\ j = 1 /\ dict = [k \in 1 .. RESERVED_MAX |-> <<>>]
  ELSE /\ left \in 0 .. Len(vocab) /\ j = V[Len(vocab) - left + 1] + 1
       /\ dict \in Seq(Seq(Bytes)) /\ Len(dict) = Len(vocab) - left
       /\ \A k \in 1 .. Len(dict) : dict[k] = vocab[k]

\* The decoder is where the encoder was at m.
Synced(m) ==
  /\ j = m.at + 1 /\ back = Upto(Job, m.read)
  /\ form = "subword" => units = DeriveMerges(vocab)
  /\ form = "firstuse" =>
       /\ dlist = NewList(RESERVED_MAX)
       /\ dict = [k \in 1 .. RESERVED_MAX |-> IF k \in m.defined THEN vocab[k] ELSE <<>>]
  /\ form # "firstuse" => dict = vocab /\ dlist = m.list

\* What is known at each stage.
StageOK(M, V) ==
  CASE stage = "encode" -> InEncoder(M)
    [] stage = "count"  -> AllRead(M) /\ j = 1 /\ back = <<>>
    [] stage = "header" -> AllRead(M) /\ back = <<>> /\ InHeader(V)
    [] stage = "body"   -> AllRead(M) /\ \E m \in M : Synced(m)
    [] stage = "done"   -> back = text
    [] OTHER            -> FALSE

\* The stream has a trace and a header, and both sides are on it.
Restoring(M, V) ==
  /\ Trace(Job, out, M) /\ HeadOK(Job, out, M, V) /\ Followed(M) /\ StageOK(M, V)

\* The invariant: so it is for every stream that was encoded from a
\* vocabulary whose entries fit.
Restores ==
  /\ stage = "encode" => trail # {}
  /\ trail # {} /\ EntriesFit => JobOK(Job) /\ \E M, V : Restoring(M, V)

-----------------------------------------------------------------------------
(* The other layers. Here a mark is only a place and the text read up to   *)
(* it, and a word whose case or suffix is marked is a code that ends where *)
(* the text's word does.                                                   *)

\* What a layer works on: its form, the text and, in perm, the permutation.
Layer == [form |-> form, text |-> text, perm |-> vocab]

\* A mark of a layer's stream.
Spot(a, r) == [at |-> a, read |-> r]

\* A byte that the decoder takes for itself.
Ordinary(c, b) ==
  /\ b # ESC
  /\ c.form = "hoist" => b \notin DOMAIN DICT
  /\ c.form = "stem" => b # STEM_MARK
  /\ c.form \in {"case", "markonly"} => b \notin {CASE_TITLE, CASE_UPPER, CASE_MIXED}

\* n bytes of the stream on, and w further in the text.
Gives(c, m, m2, n, w) ==
  m2.at = m.at + n /\ m2.read > m.read /\ SubSeq(c.text, m.read + 1, m2.read) = w

\* No word of the text goes on at m.
WordEnds(c, m) == m.read = Len(c.text) \/ c.text[m.read + 1] \notin Letters

\* w is written at a.
Written(o, a, w) == \A x \in 1 .. Len(w) : o[a + x] = w[x]

\* The letters that may follow a mark of case, and the word they are.
CaseRun(f, b) == IF f = "markonly" \/ b = CASE_MIXED THEN Letters ELSE Lower
CaseWord(f, b, w) ==
  IF f = "markonly" \/ b = CASE_MIXED THEN w ELSE IF b = CASE_TITLE THEN Titled(w) ELSE InCapital(w)

\* From m to m2 by a byte that stands for itself ...
HopByte(c, o, m, m2) ==
  c.form # "perm" /\ Ordinary(c, o[m.at + 1]) /\ Gives(c, m, m2, 1, <<o[m.at + 1]>>)

\* ... by an escaped byte ...
HopEscaped(c, o, m, m2) ==
  c.form # "perm" /\ o[m.at + 1] = ESC /\ Gives(c, m, m2, 2, <<o[m.at + 2]>>)

\* ... by a structural string ...
HopString(c, o, m, m2) ==
  /\ c.form = "hoist" /\ o[m.at + 1] # ESC
  /\ o[m.at + 1] \in DOMAIN DICT /\ Gives(c, m, m2, 1, DICT[o[m.at + 1]])

\* ... by a mark of case and the word w ...
HopCasedAs(c, o, m, m2, w) ==
  /\ c.form \in {"case", "markonly"} /\ o[m.at + 1] \in {CASE_TITLE, CASE_UPPER, CASE_MIXED}
  /\ w \in Seq(CaseRun(c.form, o[m.at + 1])) /\ Written(o, m.at + 1, w)
  /\ Gives(c, m, m2, 1 + Len(w), CaseWord(c.form, o[m.at + 1], w)) /\ WordEnds(c, m2)

HopCased(c, o, m, m2) == \E w \in Seq(Letters) : HopCasedAs(c, o, m, m2, w)

\* ... by a mark, a suffix and the stem w ...
HopStemAs(c, o, m, m2, w) ==
  /\ c.form = "stem" /\ o[m.at + 1] = STEM_MARK /\ o[m.at + 2] + 1 \in DOMAIN SUFFIXES
  /\ Written(o, m.at + 2, w)
  /\ Gives(c, m, m2, 2 + Len(w), w \o SUFFIXES[o[m.at + 2] + 1]) /\ WordEnds(c, m2)

HopStem(c, o, m, m2) == \E w \in Seq(Letters) : HopStemAs(c, o, m, m2, w)

\* ... or by a byte under another name.
HopPerm(c, o, m, m2) ==
  c.form = "perm" /\ Gives(c, m, m2, 1, <<InvertPerm(c.perm[1])[o[m.at + 1] + 1]>>)

\* The code at m leads to m2.
Hop(c, o, m, m2) ==
  \/ HopByte(c, o, m, m2) \/ HopEscaped(c, o, m, m2) \/ HopString(c, o, m, m2)
  \/ HopCased(c, o, m, m2) \/ HopStem(c, o, m, m2) \/ HopPerm(c, o, m, m2)

\* A mark of a stream of n bytes.
SpotOK(c, m, n) == m.at \in 0 .. n /\ m.read \in 0 .. Len(c.text)

\* The marks of a stream: one per place, and from every one before the end a
\* code leads to another.
Course(c, o, M) ==
  /\ o \in Seq(Bytes)
  /\ \A m \in M : SpotOK(c, m, Len(o))
  /\ \A m, m2 \in M : m.at = m2.at => m = m2
  /\ \A m \in M : m.at < Len(o) => \E m2 \in M : Hop(c, o, m, m2)

\* The text is one, and a permutation is one.
LayerOK ==
  /\ text \in Seq(Bytes)
  /\ form = "perm" => vocab[1] \in [1 .. N -> 0 .. N - 1] /\ IsInjective(vocab[1])

\* What the history has is among the marks; the ids are never used.
Noted(M) ==
  \A t \in trail : t.order = NewList(0).order /\ \E m \in M : t.at = m.at /\ t.read = m.read

\* The encoder is at the end of the stream, the decoder at its start.
Wrapping(M) ==
  /\ stage = "wrap" /\ j = 1 /\ back = <<>> /\ i \in 1 .. Len(text) + 1
  /\ Spot(0, 0) \in M /\ Spot(Len(out), i - 1) \in M

\* The decoder has read up to m.
Met(m) == j = m.at + 1 /\ back = SubSeq(text, 1, m.read)

\* The decoder is at a mark of a stream that has all of the text.
Unwrapping(M) ==
  /\ stage = "unwrap" /\ dict = vocab /\ Spot(Len(out), Len(text)) \in M
  /\ \E m \in M : Met(m)

\* A text on its way through a layer.
Underway(M) ==
  /\ LayerOK /\ Course(Layer, out, M) /\ Noted(M)
  /\ list = NewList(0) /\ dlist = NewList(0)
  /\ Wrapping(M) \/ Unwrapping(M) \/ (stage = "done" /\ back = text)

\* Nothing is written without a history, and with one the text is on its way.
Returns ==
  form \in LayerForms =>
    /\ stage \in {"wrap", "unwrap", "done"}
    /\ stage = "wrap" => trail # {}
    /\ trail # {} => \E M : Underway(M)

\* The word tokens among the codecs of one text.
TokensRestore ==
  form \in Forms => stage \in {"encode", "count", "header", "body", "done"} /\ Restores

\* Where a codec gives its text back: a layer everywhere, the word tokens
\* where the entries fit their length byte.
Invertible == form \in LayerForms \/ (form \in Forms /\ EntriesFit)
=============================================================================
