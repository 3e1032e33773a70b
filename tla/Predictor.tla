----------------------------- MODULE Predictor ------------------------------
(***************************************************************************)
(* The byte predictor of src/src/context/mod.rs (Predictor), as the coder  *)
(* and the decoder both drive it: predict(), then update() with the bit    *)
(* that was coded, 2 * D times per byte.  Modelled: the direct experts and *)
(* how a cold slot is seeded, the indirect and the state experts, the PPM, *)
(* the match tiers, the ring of repeated distances and the word state,     *)
(* with everything a byte boundary does to them.  The mixer, the           *)
(* calibration stages and the learned corrector only map what these supply *)
(* to one number.                                                          *)
(***************************************************************************)
EXTENDS ContextModel, CountModels, MatchModel, IndirectState, FiniteSets

CONSTANTS
  Experts,      \* the roster: a sequence of expert specifications
  StateExperts, \* the state experts: a sequence of [order, slots]
  PpmSlots,     \* the slots of the PPM's order 1, order 2 and so on
  Tiers,        \* the match tiers: a sequence of [slots, min_len, gap]
  Inherit,      \* "none", "inherit" or "unrelated"
  REP,          \* the size of the ring of repeated distances
  CONF_MAX,     \* the largest confidence: 2047 in the code
  Alphabet,     \* the bytes that occur in the input
  Lower(_),     \* a byte in lower case
  Letters,      \* the lower-case letters and the apostrophe
  Newline,      \* the byte that ends a line
  WORD_MAX,     \* the letters of a word that are kept: 64 in the code
  Stem(_),      \* stem_bytes(): a word without its ending
  Class(_),     \* word_class(): 0, or the class of a function word
  MaxLen        \* the bound on the length of the input

Byte == 0 .. 2 ^ (2 * D) - 1

ASSUME DAssumption == D \in Nat \ {0}
ASSUME AlphabetAssumption == Alphabet \subseteq Byte
ASSUME MaxLenAssumption == MaxLen \in Nat
ASSUME MaxAssumption == MAX_LEN \in Nat /\ REP \in Nat
ASSUME TiersAssumption ==
  \A k \in DOMAIN Tiers :
    /\ Tiers[k].slots \in Nat \ {0}
    /\ Tiers[k].min_len \in 1 .. MAX_LEN
    /\ Tiers[k].gap \in Nat
\* hash_bytes() returns a word for every string a tier hashes.
ASSUME HashAssumption ==
  \A k \in DOMAIN Tiers :
    \A s \in [1 .. Tiers[k].min_len -> Byte] : Hash(s) \in Nat

VARIABLES
  stage,     \* "predict" or "update": which call comes next
  buf,       \* the bytes coded so far
  c0,        \* a leading 1 and the bits of the current byte
  models,    \* the direct experts
  indirect,  \* the learned states of the indirect experts
  states,    \* the state experts
  smap,      \* the map from their states to probabilities
  ppm,       \* the orders of the PPM
  tiers,     \* the match tiers
  rep,       \* the ring of match distances, the latest first
  rep_conf,  \* and the confidence of each place of the ring
  word,      \* word_cur, word_prev and word_bytes
  line,      \* line_start and prev_line_start
  owners     \* history: who has trained each slot since it was last cold

vars == <<stage, buf, c0, models, indirect, states, smap, ppm, tiers, rep,
          rep_conf, word, line, owners>>

NE == Len(Experts)
NT == Len(Tiers)
NS == Len(StateExperts)
NP == Len(PpmSlots)

ASSUME ExpertsAssumption ==
  /\ NE \in Nat
  /\ \A i \in 1 .. NE :
       /\ Experts[i].nibble \in BOOLEAN /\ Experts[i].slots \in Nat \ {0}
       /\ Experts[i].kind = "indirect" => Experts[i].hist \in Nat \ {0}
ASSUME CountsAssumption ==
  /\ STATE_MAX \in Nat /\ COUNT_MAX \in Nat
  /\ NP \in Nat /\ \A k \in 1 .. NP : PpmSlots[k] \in Nat \ {0}
\* Powers of two, which the provers take for unknown numbers.
ASSUME PowerAssumption ==
  \A n \in 0 .. 2 * D : 2 ^ n \in Nat \ {0} /\ 2 ^ (n + 1) = 2 * 2 ^ n

-----------------------------------------------------------------------------
(* Contexts. *)

LastBytes(b, n) == SubSeq(b, Len(b) - n + 1, Len(b))

\* The last n bytes of b, or all of them.
Order(b, n) == LastBytes(b, IF n < Len(b) THEN n ELSE Len(b))

\* The byte above the next one, in the previous line.  The first control
\* takes its neighbour, the second none.
Above(kind, h) ==
  LET col  == Len(h.buf) - h.line.start
      prev == IF h.line.start > 0 THEN h.line.start - 1 - h.line.prev ELSE 0
      at(c) == h.buf[h.line.prev + c + 1]
  IN  IF kind = "column" /\ col < prev THEN at(col)
      ELSE IF kind = "column_shuffled" /\ prev > 0 THEN at((col + 1) % prev)
      ELSE 0

\* The latest of the tiers that are trusted most.
BestTier(ts) ==
  LET state(k) == MatchState(Tiers[k], ts[k])
  IN  CHOOSE k \in 1 .. NT :
        \A j \in 1 .. NT : state(j) <= state(k) /\ (j > k => state(j) < state(k))

\* The byte a matched literal is expected to be, and how far it is trusted.
\* Without any match it is what the last tier said last.
Matched(ts) ==
  IF NT = 0 THEN [byte |-> 0, state |-> 0]
  ELSE [byte |-> ts[BestTier(ts)].pred_byte,
        state |-> MatchState(Tiers[BestTier(ts)], ts[BestTier(ts)])]

\* What is not a byte tells the contexts of different kinds apart.
Tag(n) == 2 ^ (2 * D) + n

\* The context of a direct expert for the byte after h.buf.
DirectContext(e, h) ==
  LET n == Len(h.buf)
      col == n - h.line.start
  IN  CASE e.kind = "order" -> Hash(Order(h.buf, e.order))
        [] e.kind = "sparse" ->
             IF n >= e.order + e.gap
             THEN Hash(SubSeq(h.buf, n - e.order - e.gap + 1, n - e.gap)) ELSE 0
        [] e.kind = "word" -> Hash(Append(h.word.cur, Tag(0)))
        [] e.kind = "bigram" -> Hash(h.word.prev \o <<Tag(1)>> \o h.word.cur)
        [] e.kind \in {"column", "column_shuffled", "column_noline"} ->
             Hash(<<Above(e.kind, h), IF col > 0 THEN h.buf[n] ELSE 0,
                    IF col < 63 THEN col ELSE 63>>)
        [] e.kind = "match_byte" ->
             Hash(<<Matched(h.tiers).byte, Matched(h.tiers).state>>)
        [] e.kind = "match_byte_const" -> Hash(<<0, Matched(h.tiers).state>>)
        [] e.kind = "word_class" ->
             Hash(<<Class(h.word.prev), Class(h.word.cur),
                    IF h.word.cur = <<>> THEN 0 ELSE 1>>)
        [] e.kind = "word_class_const" -> Hash(<<IF h.word.cur = <<>> THEN 0 ELSE 1>>)
        [] e.kind = "stem" -> Hash(Append(Stem(h.word.bytes), Tag(2)))
        [] e.kind = "stem_ctl" -> Hash(Append(h.word.bytes, Tag(2)))
        [] OTHER -> 0

\* The histories of an indirect expert enter its context as numbers.
Value(h) ==
  LET v[n \in 0 .. Len(h)] == IF n = 0 THEN 0 ELSE v[n - 1] * 2 ^ (2 * D) + h[n]
  IN  v[Len(h)]

IndirectContext(e, st) ==
  LET h == st.table[st.last_key]
  IN  IF e.chained THEN Mix(Mix(Value(h.cur), Value(h.prev)), st.last_key)
                   ELSE Mix(Value(h.cur), st.last_key)

-----------------------------------------------------------------------------
(* Inheritance: compute_parents().  0 stands for no parent. *)

LatestBefore(i, P(_)) ==
  LET js == {j \in 1 .. i - 1 : P(Experts[j])}
  IN  IF js = {} THEN 0 ELSE CHOOSE j \in js : \A k \in js : k <= j

IsOrder(e)    == e.kind = "order"
IsOrderOne(e) == IsOrder(e) /\ e.order = 1
IsOrderNil(e) == IsOrder(e) /\ e.order = 0

LowestOrder(i) ==
  IF LatestBefore(i, IsOrderOne) # 0 THEN LatestBefore(i, IsOrderOne)
  ELSE LatestBefore(i, IsOrderNil)

Parent(i) ==
  IF IsOrderNil(Experts[i]) THEN 0
  ELSE IF Experts[i].kind \in {"order", "sparse"}
       THEN LatestBefore(i, IsOrder)
       ELSE LowestOrder(i)

\* The expert whose probability seeds expert i in the negative control.
Unrelated(i) ==
  LET base == IF Parent(i) = 0 THEN i ELSE Parent(i)
  IN  ((base + NE \div 2) % NE) + 1

\* Mutant: every seed is what the parent said of the bit before.
PredictAllStale(ms, c) ==
  [i \in 1 .. NE |->
     PredictContext(Experts[i], ms[i], c,
       IF Inherit = "none" \/ Parent(i) = 0 THEN HALF ELSE ms[Parent(i)].last_p)]

\* The experts predict in turn, so a parent has answered before its child.
PredictAll(ms, c) ==
  LET said[i \in 1 .. NE] ==
        LET seeder == IF Inherit = "unrelated" THEN Unrelated(i) ELSE Parent(i)
            seed == IF Inherit = "none" \/ seeder = 0 THEN HALF
                    ELSE IF seeder < i THEN said[seeder].last_p
                    ELSE ms[seeder].last_p
        IN  PredictContext(Experts[i], ms[i], c, seed)
  IN  said

-----------------------------------------------------------------------------
(* What a byte boundary does.  b is buf with the new byte. *)

\* word_cur is the run of letters that ends here, in lower case, word_prev
\* the run before, word_bytes the beginning of the former.
WordAfter(w, b) ==
  LET lc == Lower(b[Len(b)])
  IN
  IF lc \in Letters
  THEN [w EXCEPT !.cur = Append(@, lc),
                 !.bytes = IF Len(@) < WORD_MAX THEN Append(@, lc) ELSE @]
  ELSE [cur |-> <<>>, prev |-> IF w.cur = <<>> THEN w.prev ELSE w.cur,
        bytes |-> <<>>]

\* A line starts after the newline.
LineAfter(l, b) ==
  IF b[Len(b)] = Newline THEN [start |-> Len(b), prev |-> l.start] ELSE l

TiersAfter(b) ==
  [k \in 1 .. NT |-> BeginByte(b, ByteBoundary(Tiers[k], b, tiers[k]))]

\* rotate_right(1), then the new distance in the first place.
Push(r, d) ==
  IF r = <<>> \/ r[1] = d THEN r ELSE <<d>> \o SubSeq(r, 1, Len(r) - 1)

\* Every tier that starts a match pushes its distance.
RepAfter(b) ==
  LET ring[k \in 0 .. NT] ==
        IF k = 0 THEN rep
        ELSE IF Starts(Tiers[k], b, tiers[k])
             THEN Push(ring[k - 1], Len(b) - Candidate(Tiers[k], b, tiers[k]))
             ELSE ring[k - 1]
  IN  ring[NT]

\* Does the distance d predict the last byte of b?
RepHits(b, d) == d > 0 /\ Len(b) > d /\ b[Len(b) - d] = b[Len(b)]

\* The ring is scored after it has been rotated.
ConfAfter(b) ==
  [k \in 1 .. REP |->
     IF RepHits(b, RepAfter(b)[k])
     THEN rep_conf[k] + ((CONF_MAX - rep_conf[k]) \div 16)
     ELSE rep_conf[k] - (rep_conf[k] \div 8)]

IndirectAfter(ind, b) ==
  [i \in 1 .. NE |->
     IF Experts[i].kind = "indirect"
     THEN Refresh(Experts[i], ind[i], b, Hash(Order(b, Experts[i].order)))
     ELSE ind[i]]

\* refresh_contexts(): every expert is given its context for the next byte.
ModelsAfter(ms, ind, h) ==
  [i \in 1 .. NE |->
     SetContext(Experts[i], ms[i],
       IF Experts[i].kind = "indirect" THEN IndirectContext(Experts[i], ind[i])
       ELSE DirectContext(Experts[i], h))]

\* The second loop of refresh_contexts(): byte contexts for the states.
StatesAfter(sts, b) ==
  [k \in 1 .. NS |-> [sts[k] EXCEPT !.ctx = Hash(Order(b, StateExperts[k].order))]]

\* set_contexts(): the last k bytes for order k, and 0 before the first byte.
PpmSelected(os, b) ==
  [k \in 1 .. NP |->
     SelectPpm(PpmSlots[k], os[k], IF b = <<>> THEN 0 ELSE Hash(Order(b, k)))]

\* Mutant: the byte is counted in the contexts that follow it.
PpmAfterLate(os, b) ==
  [k \in 1 .. NP |-> UpdatePpm(PpmSelected(os, b)[k], b[Len(b)])]

\* The byte is counted in the contexts that were selected for it.
PpmAfter(os, b) ==
  PpmSelected([k \in 1 .. NP |-> UpdatePpm(os[k], b[Len(b)])], b)

-----------------------------------------------------------------------------
NoWord == [cur |-> <<>>, prev |-> <<>>, bytes |-> <<>>]

Seen == [buf |-> buf, word |-> word, line |-> line, tiers |-> tiers]

\* new() and prime().
Init ==
  /\ stage = "predict"
  /\ buf = <<>>
  /\ c0 = 1
  /\ indirect = IndirectAfter([i \in 1 .. NE |-> NewIndirectState(Experts[i])], <<>>)
  /\ states = StatesAfter([k \in 1 .. NS |-> NewStateModel(StateExperts[k])], <<>>)
  /\ smap = NewStateMap
  /\ ppm = PpmSelected([k \in 1 .. NP |-> NewPpmOrder(PpmSlots[k])], <<>>)
  /\ tiers = [k \in 1 .. NT |-> NewMatchModel(Tiers[k])]
  /\ rep = [k \in 1 .. REP |-> 0]
  /\ rep_conf = [k \in 1 .. REP |-> 0]
  /\ word = NoWord
  /\ line = [start |-> 0, prev |-> 0]
  /\ models = ModelsAfter([i \in 1 .. NE |-> NewContextModel(Experts[i])],
                          indirect, Seen)
  /\ owners = [i \in 1 .. NE |-> [s \in 0 .. Experts[i].slots - 1 |-> {}]]

Predict ==
  /\ stage = "predict"
  /\ Len(buf) < MaxLen
  /\ stage' = "update"
  /\ models' = PredictAll(models, c0)
  /\ owners' =
       [i \in 1 .. NE |->
          LET m == Locate(Experts[i], models[i], c0)
          IN  [owners[i] EXCEPT ![m.idx] =
                 (IF Cold(Experts[i], m, c0) THEN {} ELSE @)
                   \cup {[ctx |-> m.ctx, c0 |-> c0]}]]
  /\ states' = [k \in 1 .. NS |-> BeginState(StateExperts[k], states[k], c0)]
  /\ UNCHANGED <<buf, c0, indirect, smap, ppm, tiers, rep, rep_conf, word, line>>

Trained(bit) == [i \in 1 .. NE |-> UpdateContext(Experts[i], models[i], bit)]

\* Every state expert in turn trains the map with the state it had selected.
MapTrained(bit) ==
  LET after[k \in 0 .. NS] ==
        IF k = 0 THEN smap ELSE UpdateStateMap(after[k - 1], states[k].cur, bit)
  IN  after[NS]

StatesTrained(bit) == [k \in 1 .. NS |-> UpdateState(states[k], bit)]

\* Is c the byte b with a leading 1, cut off after some of its bits?
PartialByte(c, b) == \E n \in 1 .. 2 * D : c * 2 ^ n <= 2 ^ (2 * D) + b
                                           /\ 2 ^ (2 * D) + b < (c + 1) * 2 ^ n

\* update() inside a byte.
UpdateBit ==
  \E bit \in {0, 1}, b \in Alphabet :
    /\ stage = "update"
    /\ PartialByte(2 * c0 + bit, b)
    /\ c0' = 2 * c0 + bit
    /\ models' = Trained(bit)
    /\ states' = StatesTrained(bit) /\ smap' = MapTrained(bit)
    /\ stage' = "predict"
    /\ UNCHANGED <<buf, indirect, ppm, tiers, rep, rep_conf, word, line,
                   owners>>

\* update() with the last bit of a byte: obs_core() and all it calls.
UpdateByte ==
  \E bit \in {0, 1}, b \in Alphabet :
    /\ stage = "update"
    /\ 2 * c0 + bit = 2 ^ (2 * D) + b
    /\ c0' = 1
    /\ buf' = Append(buf, b)
    /\ word' = WordAfter(word, buf')
    /\ line' = LineAfter(line, buf')
    /\ tiers' = TiersAfter(buf')
    /\ rep' = RepAfter(buf')
    /\ rep_conf' = ConfAfter(buf')
    /\ ppm' = PpmAfter(ppm, buf')
    /\ indirect' = IndirectAfter(indirect, buf')
    /\ models' = ModelsAfter(Trained(bit), indirect', Seen')
    /\ states' = StatesAfter(StatesTrained(bit), buf') /\ smap' = MapTrained(bit)
    /\ stage' = "predict"
    /\ UNCHANGED owners

Next == Predict \/ UpdateBit \/ UpdateByte

Spec == Init /\ [][Next]_vars

-----------------------------------------------------------------------------
(* The match tiers. *)

\* What a running match m rests on, in the bytes b: its e latest
\* predictions came true, and before them the whole context that started
\* it had already occurred at the same distance.
MatchedFor(spec, b, m, e) ==
  /\ m.len = (IF spec.min_len + e < MAX_LEN THEN spec.min_len + e ELSE MAX_LEN)
  /\ spec.min_len + spec.gap <= m.ptr - e
  /\ \A j \in 0 .. e - 1 : b[m.ptr - j] = b[Len(b) - j]
  /\ \A j \in 0 .. spec.min_len - 1 :
       b[m.ptr - e - spec.gap - j] = b[Len(b) - e - spec.gap - j]

Real(spec, b, m) ==
  m.len > 0 =>
    /\ m.ptr < Len(b)
    /\ m.off = Len(b) - m.ptr
    /\ m.pred_byte = b[m.ptr + 1]
    /\ \E e \in 0 .. Len(b) : MatchedFor(spec, b, m, e)

\* A tier that claims a match has one: the length it is trusted for is
\* really matched in the bytes coded so far, at the distance the tier
\* reports, and the byte it predicts is the byte that followed.
RealMatch == \A k \in 1 .. NT : Real(Tiers[k], buf, tiers[k])

TierType(spec) ==
  [table : [0 .. spec.slots - 1 -> Nat], ptr : Nat, len : Nat, off : Nat,
   pred_byte : Nat]

\* The invariant behind RealMatch (PredictorProofs).
MatchInv ==
  /\ buf \in Seq(Byte)
  /\ DOMAIN tiers = 1 .. NT
  /\ \A k \in 1 .. NT : tiers[k] \in TierType(Tiers[k])
  /\ RealMatch

\* A tier that claims no match has none to offer: the latest position whose
\* context falls into the slot of the current one had another context.
NoMissedMatch ==
  \A k \in 1 .. NT :
    LET spec == Tiers[k]
        n    == Len(buf)
        same == {p \in spec.min_len + spec.gap .. n - 1 :
                   Slot(spec, buf, p) = Slot(spec, buf, n)}
    IN  (tiers[k].len = 0 /\ n >= spec.min_len + spec.gap /\ same # {}) =>
          LET q == CHOOSE q \in same : \A p \in same : p <= q
          IN  MatchContext(spec, buf, q) # MatchContext(spec, buf, n)

-----------------------------------------------------------------------------
(* The experts. *)

\* Collision control keeps the contexts apart that it can tell apart: all
\* that has trained a slot since it was last cold agrees in the bits just
\* above the index.
NoForeignHistory ==
  \A i \in 1 .. NE :
    (Experts[i].verify = 1 /\ ~Experts[i].nibble) =>
      \A s \in 0 .. Experts[i].slots - 1 :
        \A g, h \in owners[i][s] :
          (Mix(g.ctx, g.c0) \div Experts[i].slots) % ChkSize
            = (Mix(h.ctx, h.c0) \div Experts[i].slots) % ChkSize

\* The nibble prefix of the partial byte c: 0 in the high half, and in the
\* low half 1 + the high half.
NibblePrefix(c) ==
  LET n == CHOOSE n \in 0 .. 2 * D : 2 ^ n <= c /\ c < 2 ^ (n + 1)
  IN  IF n < D THEN 0 ELSE ((c \div 2 ^ (n - D)) % Bucket) + 1

\* Every slot a nibble expert reads or trains lies in the bucket that this
\* context and, in the low half, this byte's own high half call for.
FreshBucket ==
  stage = "update" =>
    \A i \in 1 .. NE :
      Experts[i].nibble =>
        LET c == IF Experts[i].kind = "indirect"
                 THEN IndirectContext(Experts[i], indirect[i])
                 ELSE DirectContext(Experts[i], Seen)
            base == NibbleBase(Experts[i], c, NibblePrefix(c0))
        IN  models[i].idx \in base .. base + Bucket - 1

\* A slot nobody has trained says what its parent says of this same bit,
\* and never what the parent said of an earlier one.
SeededByParent ==
  [][\A i \in 1 .. NE :
       (Predict /\ Inherit = "inherit" /\ Parent(i) # 0
          /\ models[i].table[models'[i].idx] = 0)
       => models'[i].last_p = models'[Parent(i)].last_p]_vars

-----------------------------------------------------------------------------
(* What the learned tables remember. *)

\* The places below n where f is s, and the j-th of them.
Places(f, s, n) == {p \in 0 .. n - 1 : f[p] = s}
Nth(f, s, n, j) == CHOOSE p \in Places(f, s, n) : Cardinality(Places(f, s, p + 1)) = j

\* The source slots of the indirect expert e, place by place in the bytes b,
\* and the bytes that followed slot s, behind an empty history.
SourceSlots(e, b) ==
  [p \in 0 .. Len(b) |-> Key(e, Hash(Order(SubSeq(b, 1, p), e.order)))]
Heard(e, b, s) ==
  LET f == SourceSlots(e, b)
  IN  NoHistory(e) \o [j \in 1 .. Cardinality(Places(f, s, Len(b))) |->
                         b[1 + Nth(f, s, Len(b), j)]]

\* The history in each slot of an indirect expert is what has followed the
\* contexts of that slot, up to the latest of them.
IndirectHistory(e, table) ==
  \A s \in 0 .. e.slots - 1 : table[s].cur = LastBytes(Heard(e, buf, s), e.hist)

\* Every bit coded so far: the bytes before it, the partial byte, the bit.
CodedBits ==
  LET whole(p) == 2 ^ (2 * D) + buf[p + 1]
      bits(p, c) ==
        {[at |-> p, c0 |-> c \div 2 ^ (j + 1), bit |-> (c \div 2 ^ j) % 2] :
           j \in {j \in 0 .. 2 * D : 2 ^ (j + 1) <= c}}
  IN  bits(Len(buf), c0) \cup UNION {bits(p, whole(p)) : p \in 0 .. Len(buf) - 1}

Capped(n, max) == IF n < max THEN n ELSE max

\* The state in each slot of a state expert is how often each bit was coded
\* in the contexts and partial bytes that fall into it.
StateHistory(e, table) ==
  LET slot(x) == Mix(Hash(Order(SubSeq(buf, 1, x.at), e.order)), x.c0) % e.slots
  IN  \A s \in 0 .. e.slots - 1 :
        LET here == {x \in CodedBits : slot(x) = s}
        IN  \A b \in {0, 1} :
              table[s][b + 1] = Capped(Cardinality({x \in here : x.bit = b}), STATE_MAX)

\* A node of order k's tree is the number of bytes that followed the
\* contexts of its slot and begin with the node's bits, and the escape count
\* is the number of different ones.
PpmHistory(k, o) ==
  LET slot(p) == IF p = 0 THEN 0
                 ELSE Hash(Order(SubSeq(buf, 1, p), k)) % PpmSlots[k]
  IN  \A s \in 0 .. PpmSlots[k] - 1 :
        LET here == {p \in 0 .. Len(buf) - 1 : slot(p) = s}
        IN  /\ \A v \in Nodes : o.tree[s][v] =
                 Capped(Cardinality({p \in here : v \in PathTo(buf[p + 1])}), COUNT_MAX)
            /\ o.distinct[s] = Capped(Cardinality({buf[p + 1] : p \in here}), COUNT_MAX)

\* Whatever is learned is learned where it was seen: what each indirect
\* expert, state expert and order of the PPM remembers in a slot is exactly
\* what followed the contexts of that slot, and none of it is what followed
\* the contexts selected before or after.
HistoriesTrue ==
  /\ \A i \in 1 .. NE :
       Experts[i].kind = "indirect" => IndirectHistory(Experts[i], indirect[i].table)
  /\ \A k \in 1 .. NS : StateHistory(StateExperts[k], states[k].table)
  /\ \A k \in 1 .. NP : PpmHistory(k, ppm[k])
=============================================================================
