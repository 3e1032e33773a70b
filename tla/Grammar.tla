------------------------------ MODULE Grammar -------------------------------
(***************************************************************************)
(* The grammar codecs of src/src/grammar/mod.rs, on the machine of         *)
(* WordTokens.  A vocabulary entry is a rule of two symbols; a symbol      *)
(* below N is a byte and N + k stands for rule k, counted from 0.  units   *)
(* is the sequence of symbols: the body that is left of the text, then the *)
(* stack of the decoder.                                                   *)
(*   verbatim, mr   encode_ex: pairs, or maximal repeats                   *)
(*   mtf            its body as move-to-front ranks                        *)
(*   rrank          encode_rrank: the rules in the order of their use      *)
(*   oneshot        encode_oneshot: all pairs at once                      *)
(*   inline         encode_firstuse: a rule where it is first used         *)
(*   lzbe           lzbe_encode: copies of runs of earlier factors         *)
(***************************************************************************)
EXTENDS TextLayers

CONSTANTS
  GrammarTexts,   \* form |-> the inputs
  MaxRules,       \* GRAMMAR_MAX_RULES
  MinCount,       \* GRAMMAR_MIN_COUNT
  Window, MaxRun  \* of lzbe_encode

GrammarForms == DOMAIN GrammarTexts

ASSUME GrammarFormsAssumption ==
  /\ \A f \in GrammarForms : GrammarTexts[f] \subseteq Seq(0 .. N - 1)
  /\ GrammarForms \subseteq {"verbatim", "mr", "mtf", "rrank", "oneshot", "inline", "lzbe"}
\* A varint digit is half a byte's range, and three literals are escaped.
ASSUME ByteAssumption == N % 2 = 0 /\ N >= 6
ASSUME BudgetAssumption == MaxRules \in Nat /\ MinCount \in Nat \ {0}

-----------------------------------------------------------------------------
(* Numbers and symbols as bytes. *)

Half == N \div 2
Longest == 5

\* The low digits first, each but the last one raised.
Varint(v) ==
  LET put[x \in Nat] == IF x < Half THEN <<x>> ELSE <<(x % Half) + Half>> \o put[x \div Half]
  IN  put[v]

\* Just past the number at p, which may be cut off or run on.
VarintEnd(p) ==
  CHOOSE q \in p .. Len(out) + 1 :
    /\ \A k \in p .. q - 2 : out[k] >= Half
    /\ q - p <= Longest
    /\ \/ q > p /\ out[q - 1] < Half
       \/ q = Len(out) + 1
       \/ q - p = Longest

VarintAt(p) ==
  LET sum[k \in p .. VarintEnd(p)] ==
        IF k = VarintEnd(p) THEN 0 ELSE (out[k] % Half) + Half * sum[k + 1]
  IN  sum[p]

\* How many literals share the escape with the nonterminals.
Literals == IF form = "inline" THEN 3 ELSE 1

Symbol(s) == IF s < N - Literals THEN <<s>> ELSE <<N - 1>> \o Varint(s - (N - Literals))

SymbolEnd(p) == IF out[p] # N - 1 THEN p + 1 ELSE VarintEnd(p + 1)
SymbolAt(p)  == IF out[p] # N - 1 THEN out[p] ELSE N - Literals + VarintAt(p + 1)

-----------------------------------------------------------------------------
(* Induction. *)

IsPlaceOf(p, s, pat) == p + Len(pat) - 1 <= Len(s) /\ SubSeq(s, p, p + Len(pat) - 1) = pat

\* The pairs of neighbours that occur often enough, overlaps counted.
Repeats(s) ==
  LET pairs == {SubSeq(s, p, p + 1) : p \in 1 .. Len(s) - 1}
        times(q) == Cardinality({p \in DOMAIN s : IsPlaceOf(p, s, q)})
  IN  {c \in {[word |-> q, count |-> times(q)] : q \in pairs} : c.count >= MinCount}

MostFrequent(S) == CHOOSE c \in S : \A d \in S \ {c} : Before(c, d)

\* A pair and what follows it wherever it occurs.
MaximalRepeat(s, pair) ==
  LET places   == {p \in DOMAIN s : IsPlaceOf(p, s, pair)}
      found(l) == {SubSeq(s, p, p + l - 1) : p \in places}
      alike(l) == (\A p \in places : p + l - 1 <= Len(s)) /\ Cardinality(found(l)) = 1
      longest  == CHOOSE l \in 2 .. Len(s) : alike(l) /\ ~alike(l + 1)
  IN  CHOOSE pat \in found(longest) : TRUE

\* Mutant: the budget is compared with the rules there are, not those a
\* repeat will take.
PatternOverBudget(pair) ==
  IF form = "mr" /\ Len(vocab) < MaxRules THEN MaximalRepeat(units, pair) ELSE pair

\* A repeat that takes more rules than are left is cut to its pair.
Pattern(pair) ==
  IF form = "mr" /\ Len(vocab) + Len(MaximalRepeat(units, pair)) - 1 <= MaxRules
  THEN MaximalRepeat(units, pair) ELSE pair

\* The rules of a pattern: a chain that leans to the left.
Chain(pat, base) ==
  [k \in 1 .. Len(pat) - 1 |-> <<IF k = 1 THEN pat[1] ELSE N + base + k - 2, pat[k + 1]>>]

\* The pattern of the domain of new that is at p.
Found(p, s, new) == CHOOSE pat \in DOMAIN new : IsPlaceOf(p, s, pat)

\* s with the patterns of the domain of new, from the left, replaced.
Rewritten(s, new) ==
  LET from[p \in 1 .. Len(s) + 1] ==
        IF p > Len(s) THEN <<>>
        ELSE IF \E pat \in DOMAIN new : IsPlaceOf(p, s, pat)
        THEN <<new[Found(p, s, new)]>> \o from[p + Len(Found(p, s, new))]
        ELSE <<s[p]>> \o from[p + 1]
  IN  from[1]

Induces(rules, body) ==
  /\ vocab' = rules /\ units' = body
  /\ UNCHANGED <<stage, form, mode, text, blocked, enc, j, left, dict, dlist, back, trail>>

Induction(forms) == stage = "induce" /\ form \in forms

\* A round of repair_opts.
Round ==
  /\ Induction({"verbatim", "mr", "mtf", "rrank", "inline"})
  /\ Len(vocab) < MaxRules /\ Repeats(units) # {}
  /\ \E pat \in {Pattern(MostFrequent(Repeats(units)).word)} :
       LET rules == vocab \o Chain(pat, Len(vocab))
       IN  Induces(rules, Rewritten(units, [q \in {pat} |-> N + Len(rules) - 1]))

\* repair_oneshot: the most frequent pairs of the text, replaced in one pass.
OneShot ==
  /\ Induction({"oneshot"}) /\ vocab = <<>> /\ Repeats(units) # {} /\ MaxRules > 0
  /\ LET ranked == Take(Ranked(Repeats(units)), MaxRules)
         rules  == [k \in DOMAIN ranked |-> ranked[k].word]
         new(q) == N + (CHOOSE k \in DOMAIN rules : rules[k] = q) - 1
     IN  Induces(rules, Rewritten(units, [q \in Range(rules) |-> new(q)]))

\* Rules in the order the body first uses them, then the others.
UseOrder ==
  LET used == SelectSeq(units, LAMBDA s : s >= N)
      first(k) == CHOOSE p \in DOMAIN used :
                    used[p] = N + k - 1 /\ \A q \in 1 .. p - 1 : used[q] # used[p]
      place(k) == IF N + k - 1 \in Range(used) THEN first(k) ELSE Len(used) + k
  IN  [p \in DOMAIN vocab |->
         CHOOSE k \in DOMAIN vocab : Cardinality({m \in DOMAIN vocab : place(m) < place(k)}) = p - 1]

\* The induction has ended; rrank renames the rules.
EndInduction ==
  /\ stage = "induce" /\ form # "lzbe"
  /\ \/ Len(vocab) >= MaxRules
     \/ Repeats(units) = {}
     \/ form = "oneshot" /\ vocab # <<>>
  /\ stage' = IF form = "inline" THEN "write" ELSE "rules"
  /\ IF form = "rrank"
     THEN LET place(k) == CHOOSE p \in DOMAIN vocab : UseOrder[p] = k
              new(s) == IF s < N THEN s ELSE N + place(s - N + 1) - 1
          IN  /\ vocab' = [p \in DOMAIN vocab |->
                             <<new(vocab[UseOrder[p]][1]), new(vocab[UseOrder[p]][2])>>]
              /\ units' = [p \in DOMAIN units |-> new(units[p])]
     ELSE UNCHANGED <<vocab, units>>
  /\ UNCHANGED <<form, mode, text, blocked, enc, j, left, dict, dlist, back, trail>>

-----------------------------------------------------------------------------
(* Serialisation. *)

\* The rules, how the body is coded, and its length.
WriteRules ==
  /\ stage = "rules"
  /\ out' = Varint(Len(vocab))
              \o FlattenSeq([k \in DOMAIN vocab |-> Symbol(vocab[k][1]) \o Symbol(vocab[k][2])])
              \o <<IF form = "mtf" THEN 1 ELSE 0>> \o Varint(Len(units))
  /\ list' = NewList(IF form = "mtf" THEN N + Len(vocab) ELSE 0)
  /\ stage' = "write"
  /\ UNCHANGED <<job, i, defined, units, j, left, dict, dlist, back, trail>>

\* The rules that rule k needs, itself the last.
Needs(k) ==
  LET needs[m \in 1 .. k] ==
        LET of(s) == IF s < N THEN <<>> ELSE needs[s - N + 1]
        IN  of(vocab[m][1]) \o of(vocab[m][2]) \o <<m>>
  IN  needs[k]

\* Mutant: a rule is defined after the rule that uses it only.
DefinitionsShallow(s) ==
  IF s < N \/ s - N + 1 \in defined THEN <<>>
  ELSE LET k == s - N + 1 IN <<N - 2>> \o Varint(k - 1) \o Symbol(vocab[k][1]) \o Symbol(vocab[k][2])

\* The definitions s is in want of, those it needs first.
Definitions(s) ==
  IF s < N \/ s - N + 1 \in defined THEN <<>>
  ELSE LET all == Needs(s - N + 1)
           new(p) == all[p] \notin defined /\ \A q \in 1 .. p - 1 : all[q] # all[p]
       IN  FlattenSeq([p \in DOMAIN all |->
             IF new(p) THEN <<N - 2>> \o Varint(all[p] - 1)
                              \o Symbol(vocab[all[p]][1]) \o Symbol(vocab[all[p]][2])
             ELSE <<>>])

\* The next symbol of the body, as itself or as its rank.
WriteSymbol ==
  /\ stage = "write" /\ i <= Len(units)
  /\ LET s == units[i]
     IN  /\ out' = out \o (IF form = "mtf" THEN Varint(list.pos[s + 1] - 1)
                           ELSE IF form = "inline" THEN Definitions(s) \o Symbol(s)
                           ELSE Symbol(s))
         /\ list' = IF form = "mtf" THEN Touch(list, s + 1, "Mtf") ELSE list
         /\ defined' = IF form = "inline" /\ s >= N
                        THEN defined \cup Range(Needs(s - N + 1)) ELSE defined
  /\ i' = i + 1
  /\ UNCHANGED <<stage, job, units, j, left, dict, dlist, back, trail>>

\* The places and lengths a copy may have at i, and what it copies: a run of
\* the last factors.
CopyOf(s, m) == FlattenSeq(SubSeq(vocab, s, s + m - 1))

Copies ==
  {c \in {<<s, m>> : s \in {k \in DOMAIN vocab : k > Len(vocab) - Window}, m \in 1 .. MaxRun} :
     /\ c[1] + c[2] - 1 <= Len(vocab)
     /\ Len(CopyOf(c[1], c[2])) >= 3
     /\ IsPlaceOf(i, text, CopyOf(c[1], c[2]))}

\* The longest, the first among equals.
BestCopy ==
  CHOOSE c \in Copies :
    \A d \in Copies \ {c} :
      LET more == Len(CopyOf(c[1], c[2])) - Len(CopyOf(d[1], d[2]))
      IN  more > 0 \/ (more = 0 /\ c[1] < d[1])

\* A factor of lzbe_encode.
Factor ==
  /\ Induction({"lzbe"}) /\ i <= Len(text)
  /\ LET copied == CopyOf(BestCopy[1], BestCopy[2])
     IN  IF Copies = {}
         THEN /\ vocab' = Append(vocab, <<text[i]>>)
              /\ out' = out \o <<0, text[i]>>
              /\ i' = i + 1
         ELSE /\ vocab' = Append(vocab, copied)
              /\ out' = out \o <<1>> \o Varint(BestCopy[1] - 1) \o Varint(BestCopy[2])
              /\ i' = i + Len(copied)
  /\ UNCHANGED <<stage, form, mode, text, blocked, list, defined, units, j, left, dict, dlist,
                 back, trail>>

\* The stream is complete.
EndWrite ==
  /\ \/ stage = "write" /\ i > Len(units) /\ out' = out
     \/ Induction({"lzbe"}) /\ i > Len(text) /\ out' = Varint(Len(vocab)) \o out
  /\ stage' = "written"
  /\ UNCHANGED <<job, i, list, defined, units, j, left, dict, dlist,
                 back, trail>>

\* A stream that is cut short before it is read.
Cut ==
  /\ stage = "written" /\ trail # {}
  /\ \E n \in 0 .. Len(out) - 1 : out' = SubSeq(out, 1, n)
  /\ trail' = {}
  /\ UNCHANGED <<stage, job, i, list, defined, units, j, left, dict, dlist, back>>

-----------------------------------------------------------------------------
(* The decoders. *)

Decoding(st, next) ==
  /\ stage' = st /\ j' = next
  /\ UNCHANGED <<job, enc, trail>>

\* decode(): the number of rules, the rules, the flag.
ReadRuleCount ==
  /\ stage = "written"
  /\ units' = <<>> /\ dict' = <<>>
  /\ IF form = "inline"
     THEN Decoding("symbols", j) /\ left' = 0
     ELSE Decoding(IF form = "lzbe" THEN "factors" ELSE "table", VarintEnd(j)) /\ left' = VarintAt(j)
  /\ UNCHANGED <<dlist, back>>

ReadRule ==
  /\ stage = "table" /\ left > 0 /\ j <= Len(out)
  /\ LET second == SymbolEnd(j)
     IN  IF second > Len(out)
         THEN Decoding("table", second) /\ left' = 0 /\ UNCHANGED dict
         ELSE /\ Decoding("table", SymbolEnd(second))
              /\ left' = left - 1
              /\ dict' = Append(dict, <<SymbolAt(j), SymbolAt(second)>>)
  /\ UNCHANGED <<units, dlist, back>>

\* Nothing is decoded of a stream that ends before the flag.
ReadFlag ==
  /\ stage = "table" /\ (left = 0 \/ j > Len(out))
  /\ IF j > Len(out)
     THEN Decoding("done", j) /\ left' = 0 /\ UNCHANGED dlist
     ELSE /\ Decoding(IF out[j] # 0 THEN "ranks" ELSE "symbols", VarintEnd(j + 1))
          /\ left' = VarintAt(j + 1)
          /\ dlist' = NewList(IF out[j] # 0 THEN N + Len(dict) ELSE 0)
  /\ UNCHANGED <<units, dict, back>>

\* A rank past the list's end stands for its last symbol.
ReadRank ==
  /\ stage = "ranks" /\ left > 0 /\ j <= Len(out)
  /\ LET n == Len(dlist.order)
         s == dlist.order[IF VarintAt(j) < n THEN VarintAt(j) + 1 ELSE n]
     IN  units' = Append(units, s - 1) /\ dlist' = Touch(dlist, s, "Mtf")
  /\ Decoding("ranks", VarintEnd(j)) /\ left' = left - 1
  /\ UNCHANGED <<dict, back>>

\* dict with the rule k, and empty ones up to it.
WithRule(k, rule) ==
  [m \in 1 .. (IF k < Len(dict) THEN Len(dict) ELSE k + 1) |->
     IF m = k + 1 THEN rule ELSE IF m <= Len(dict) THEN dict[m] ELSE <<0, 0>>]

Defines(p) == form = "inline" /\ out[p] = N - 2

\* decode_firstuse(): a rule between the symbols.
ReadDefinition ==
  /\ stage = "symbols" /\ j <= Len(out) /\ Defines(j)
  /\ LET first  == VarintEnd(j + 1)
         second == IF first > Len(out) THEN first ELSE SymbolEnd(first)
     IN  IF second > Len(out)
         THEN Decoding("expand", second) /\ UNCHANGED dict
         ELSE /\ Decoding("symbols", SymbolEnd(second))
              /\ dict' = WithRule(VarintAt(j + 1), <<SymbolAt(first), SymbolAt(second)>>)
  /\ UNCHANGED <<units, left, dlist, back>>

ReadSymbol ==
  /\ stage = "symbols" /\ j <= Len(out) /\ ~Defines(j)
  /\ form = "inline" \/ left > 0
  /\ units' = Append(units, SymbolAt(j))
  /\ Decoding("symbols", SymbolEnd(j))
  /\ left' = IF form = "inline" THEN 0 ELSE left - 1
  /\ UNCHANGED <<dict, dlist, back>>

EndBody ==
  /\ stage \in {"ranks", "symbols"}
  /\ j > Len(out) \/ (form # "inline" /\ left = 0)
  /\ Decoding("expand", j)
  /\ UNCHANGED <<units, left, dict, dlist, back>>

\* The first symbol: a byte is copied, a rule opened, anything else dropped.
Expand ==
  /\ stage = "expand" /\ units # <<>>
  /\ LET s == units[1]
     IN  /\ back' = IF s < N THEN Append(back, s) ELSE back
         /\ units' = (IF s - N + 1 \in DOMAIN dict THEN dict[s - N + 1] ELSE <<>>) \o Tail(units)
  /\ Decoding("expand", j)
  /\ UNCHANGED <<left, dict, dlist>>

\* lzbe_decode(): a copy may only be of factors there are.
ReadFactor ==
  /\ stage = "factors" /\ left > 0 /\ j <= Len(out)
  /\ LET s == VarintAt(j + 1)
         m == VarintAt(VarintEnd(j + 1))
         ends == IF out[j] = 0 THEN j = Len(out) ELSE s + m > Len(dict)
         f == IF out[j] = 0 THEN <<out[j + 1]>> ELSE FlattenSeq(SubSeq(dict, s + 1, s + m))
     IN  IF ends THEN Decoding("factors", j + 1) /\ left' = 0 /\ UNCHANGED <<dict, back>>
         ELSE /\ dict' = Append(dict, f) /\ back' = back \o f
              /\ Decoding("factors", IF out[j] = 0 THEN j + 2 ELSE VarintEnd(VarintEnd(j + 1)))
              /\ left' = left - 1
  /\ UNCHANGED <<units, dlist>>

EndDecode ==
  /\ \/ stage = "expand" /\ units = <<>>
     \/ stage = "factors" /\ (left = 0 \/ j > Len(out))
  /\ Decoding("done", j)
  /\ UNCHANGED <<units, left, dict, dlist, back>>

-----------------------------------------------------------------------------
GrammarInit ==
  /\ stage = "induce"
  /\ form \in GrammarForms /\ text \in GrammarTexts[form]
  /\ mode = "Static" /\ vocab = <<>> /\ blocked = {}
  /\ out = <<>> /\ list = NewList(0) /\ units = text
  /\ trail = {[at |-> 0, read |-> 0, order |-> <<>>, defined |-> {}]}
  /\ Start

GrammarNext ==
  \/ Round \/ OneShot \/ EndInduction \/ WriteRules \/ WriteSymbol \/ Factor \/ EndWrite \/ Cut
  \/ ReadRuleCount \/ ReadRule \/ ReadFlag \/ ReadRank \/ ReadDefinition \/ ReadSymbol \/ EndBody
  \/ Expand \/ ReadFactor \/ EndDecode

\* The codecs of one text: word tokens, the other layers, grammars.
TransformInit == Init \/ LayerInit \/ GrammarInit
TransformNext == Next \/ LayerNext \/ GrammarNext
TransformSpec == TransformInit /\ [][TransformNext]_vars /\ WF_vars(TransformNext)

-----------------------------------------------------------------------------
\* What a sequence of symbols stands for.
Expansion(syms, rules) ==
  LET bytes[y \in 0 .. N + Len(rules) - 1] ==
        IF y < N THEN <<y>> ELSE bytes[rules[y - N + 1][1]] \o bytes[rules[y - N + 1][2]]
  IN  FlattenSeq([k \in DOMAIN syms |-> bytes[syms[k]]])

\* Every round leaves a grammar of the text: its symbols expand to the text,
\* no rule refers to itself or to a later one, and there are no more than
\* allowed, though a maximal repeat takes several at once.
GrammarOfText ==
  stage = "induce" /\ form # "lzbe" =>
    /\ Len(vocab) <= MaxRules
    /\ \A k \in DOMAIN vocab : vocab[k][1] < N + k - 1 /\ vocab[k][2] < N + k - 1
    /\ Expansion(units, vocab) = text

\* Expanding never ends: a symbol leads to a rule that leads to itself.
Endless ==
  LET rule(x)  == x - N + 1
      nested   == {k \in DOMAIN dict : \E x \in Range(dict[k]) : rule(x) \in DOMAIN dict}
  IN  /\ stage = "expand"
      /\ \E S \in SUBSET nested :
           /\ \E x \in Range(units) : rule(x) \in S
           /\ \A k \in S : \E x \in Range(dict[k]) : rule(x) \in S

\* The decoder ends on every stream, also on one that was cut and on one no
\* encoder wrote, but for a grammar in which a rule leads to itself.  That is
\* less than grammar/mod.rs:235 and :279 say ("Total on malformed input", "Rule
\* k references only symbols < 256 + k"): the rules read from a stream may lead
\* anywhere, and with such a one decode() and decode_firstuse() never return.
Total == <>(stage = "done" \/ Endless)
=============================================================================
