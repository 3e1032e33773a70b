---------------------------- MODULE ModelConfig -----------------------------
(***************************************************************************)
(* How a method becomes a model: ModelConfig and its builders in           *)
(* src/src/context/mod.rs, and the chain of builders of Method::config()   *)
(* and of the scored build's config_for() in src/src/archive.rs.  Encoder  *)
(* and decoder run the chain each for itself; the archive holds only the   *)
(* method, the tune byte and the length it starts from.                    *)
(***************************************************************************)
EXTENDS Methods, FiniteSets, SequencesExt

AtMost(a, b) == IF a <= b THEN a ELSE b

\* An expert: what its context is, the log2 of its slots and its rate.
Expert(kind, bits, rate) == [kind |-> kind, bits |-> bits, rate |-> rate]
IsOrder(e) == e.kind[1] = "Order"

Orders == <<0, 1, 2, 3, 4, 5, 6, 8, 12, 16>>
Rates  == <<4, 4, 4, 5, 5, 5, 5, 6, 6, 6>>

MATCH_MIN == 6
\* The adaptation shifts of the calibration stages.
PlainRates == <<7, 7, 7>>

TableBits(n) ==
  IF n <= 2000000 THEN 18 ELSE IF n <= 20000000 THEN 20
  ELSE IF n <= 200000000 THEN 22 ELSE 24

\* The floor for n bytes.
ForSize(n) ==
  LET bits   == TableBits(n)
      direct == [k \in 1 .. 10 |->
                   Expert(<<"Order", Orders[k]>>, IF k = 1 THEN AtMost(bits, 20) ELSE bits, Rates[k])]
  IN  [specs     |-> direct \o << Expert(<<"Word">>, AtMost(bits, 22), 5),
                                  Expert(<<"WordBigram">>, AtMost(bits, 22), 5) >>,
       matches   |-> << [bits |-> bits, min_len |-> MATCH_MIN, gap |-> 0] >>,
       rep       |-> 0,
       dist      |-> FALSE,
       apm3      |-> "off",
       collision |-> 0,
       ppm       |-> 0,
       residual  |-> "off",
       mixer_lr  |-> 12,
       apm_rates |-> PlainRates,
       info      |-> "none"]

-----------------------------------------------------------------------------
(* The builders. *)

\* Another expert, its table no larger than the first one's.
WithExpert(c, kind, cap) ==
  [c EXCEPT !.specs = Append(@, Expert(kind, AtMost(c.specs[1].bits, cap), 5))]

\* Experts of one kind for several orders.
WithEach(c, kind, orders) ==
  [c EXCEPT !.specs = @ \o [k \in DOMAIN orders |->
                              Expert(<<kind, orders[k]>>, c.specs[1].bits, 5)]]

WithStateOrders(c, orders) == WithEach(c, "StateOrder", orders)
WithOrders(c, orders)      == WithEach(c, "Order", orders)

\* The direct experts of some orders become others in place.
Replaced(e, kinds) ==
  IF IsOrder(e) /\ e.kind[2] \in DOMAIN kinds THEN [e EXCEPT !.kind = kinds[e.kind[2]]] ELSE e
WithReplaced(c, kinds) == [c EXCEPT !.specs = [k \in DOMAIN @ |-> Replaced(@[k], kinds)]]

WithReplacedStateOrders(c, orders) == WithReplaced(c, [o \in orders |-> <<"StateOrder", o>>])
WithReplacedSparse(c, order, gap)  == WithReplaced(c, [o \in {order} |-> <<"Sparse", o, gap>>])

WithSparse(c, order, gap)       == WithExpert(c, <<"Sparse", order, gap>>, 24)
WithIndirect(c, order, hist, chained) == WithExpert(c, <<"Indirect", order, hist, chained>>, 24)
WithIndirectCtl(c, order, hist) == WithExpert(c, <<"IndirectCtl", order, hist>>, 24)
WithStemModel(c, ctl)   == WithExpert(c, IF ctl THEN <<"StemCtl">> ELSE <<"Stem">>, 22)
WithWordClass(c, ctl)   == WithExpert(c, IF ctl THEN <<"WordClassConst">> ELSE <<"WordClass">>, 20)
WithMatchByte(c, ctl)   == WithExpert(c, IF ctl THEN <<"MatchByteConst">> ELSE <<"MatchByte">>, 20)
WithColumnKind(c, kind) == WithExpert(c, <<kind>>, 20)
WithColumn(c, shuffled) == WithColumnKind(c, IF shuffled THEN "ColumnShuffled" ELSE "Column")

WithMatchTier(c, min_len, gap) ==
  [c EXCEPT !.matches = Append(@, [bits |-> @[1].bits, min_len |-> min_len, gap |-> gap])]
WithMatch2(c, min_len) == WithMatchTier(c, min_len, 0)

\* The direct expert of an order is dropped; a roster has one at most.
WithoutOrder(c, order) ==
  LET places == {k \in DOMAIN c.specs : c.specs[k].kind = <<"Order", order>>}
  IN  IF places = {} THEN c
      ELSE [c EXCEPT !.specs = RemoveAt(@, CHOOSE k \in places : TRUE)]

PpmPruned(c) == WithoutOrder(WithoutOrder(WithoutOrder(WithoutOrder(c, 4), 8), 12), 16)

\* The first experts only.
Ablated(c, count) == [c EXCEPT !.specs = SubSeq(@, 1, count)]

WithSse3(c)          == [c EXCEPT !.apm3 = "order2"]
WithSse3Ctl(c)       == [c EXCEPT !.apm3 = "distant"]
WithIsse(c)          == [c EXCEPT !.apm3 = "indirect"]
WithIsseCtl(c)       == [c EXCEPT !.apm3 = "const"]
WithCollision(c, k)  == [c EXCEPT !.collision = k]
WithPpm(c, order)    == [c EXCEPT !.ppm = order]
WithResidual(c, ctl) == [c EXCEPT !.residual = IF ctl THEN "permuted" ELSE "net"]
WithDistMatch(c)     == [c EXCEPT !.dist = TRUE]
WithRepOffsets(c, n) == [c EXCEPT !.rep = n]
WithInfo(c, info)    == [c EXCEPT !.info = info]

ACCEPTED_RATES == <<2, 2, 1, 2, 2, 2, 2, 3, 3, 3, 2, 3, 4, 5>>

\* The rates go to the experts by position; those beyond keep their own.
Rated(e, k) == IF k \in DOMAIN ACCEPTED_RATES THEN [e EXCEPT !.rate = ACCEPTED_RATES[k]] ELSE e
WithRates(c) == [c EXCEPT !.specs = [k \in DOMAIN @ |-> Rated(@[k], k)]]

MIXER_LRS == <<12, 4, 6, 8, 10, 16, 20, 24, 32, 40, 48, 64, 96, 128, 192, 256>>

APM_RATE_SETS ==
  << <<7, 7, 7>>, <<6, 6, 6>>, <<5, 5, 5>>, <<8, 8, 8>>, <<6, 6, 5>>, <<6, 5, 6>>,
     <<5, 6, 6>>, <<6, 6, 7>>, <<6, 7, 6>>, <<7, 6, 6>>, <<5, 5, 6>>, <<5, 6, 5>>,
     <<6, 5, 5>>, <<4, 5, 5>>, <<5, 4, 5>>, <<5, 5, 4>> >>

MAX_TABLE_SCALE == 3

\* Mutant: the scale the tune byte asks for, whatever it is.
ScaleUnclamped(tune) == tune \div 16

\* The scale of the direct experts' tables that a tune byte asks for.
Scale(tune) == AtMost(tune \div 16, MAX_TABLE_SCALE)

\* Only a direct expert's table is scaled.
Scaled(e, tune) == IF IsOrder(e) THEN [e EXCEPT !.bits = @ + Scale(tune)] ELSE e

\* The low half of the tune byte is the mixer's rate; the high half is the
\* scale of the tables or the rates of the calibration stages.
WithTune(c, tune, b) ==
  [c EXCEPT
     !.mixer_lr  = MIXER_LRS[(tune % 16) + 1],
     !.apm_rates = IF "apm-tune" \in b THEN APM_RATE_SETS[(tune \div 16) + 1] ELSE @,
     !.specs     = IF "tune-table" \notin b THEN @
                   ELSE [k \in DOMAIN @ |-> Scaled(@[k], tune)]]

-----------------------------------------------------------------------------
(* The chains. *)

(* The steps of the chains: what a method adds to a configuration. *)

Columned(c, m) ==
  CASE m \in OnPhase4Parent \cup ColumnFamily -> WithColumn(c, FALSE)
    [] m = "ColumnShuffled" -> WithColumn(c, TRUE)
    [] m = "ColumnNoLine"   -> WithColumnKind(c, "ColumnNoLine")
    [] OTHER                -> c

Match2d(c, m, b) == IF Match2Min(m, b) = 0 THEN c ELSE WithMatch2(c, Match2Min(m, b))

Sparsed(c, m, b) ==
  IF SparseTiers(m, b) = {} THEN c
  ELSE LET t == CHOOSE t \in SparseTiers(m, b) : TRUE IN WithMatchTier(c, t[1], t[2])

MatchByted(c, m, b) ==
  IF MatchByteKind(m, b) = "none" THEN c ELSE WithMatchByte(c, MatchByteKind(m, b) = "control")

Distanced(c, m, b) == IF DistMatch(m, b) THEN WithDistMatch(c) ELSE c

Classed(c, m, b) ==
  IF WordClassKind(m, b) = "none" THEN c ELSE WithWordClass(c, WordClassKind(m, b) = "control")

Stated(c, m, b) ==
  CASE StateMapKind(m, b) = "real"    -> WithStateOrders(c, <<2, 4, 6>>)
    [] StateMapKind(m, b) = "control" -> WithOrders(c, <<2, 4, 6>>)
    [] StateMapRep(m, b)              -> WithReplacedStateOrders(c, {2, 4, 6})
    [] OTHER                          -> c

Calibrated(c, m, b) ==
  CASE m = "Isse"    -> WithIsse(c)
    [] m = "IsseCtl" -> WithIsseCtl(c)
    [] Sse3Kind(m, b) = "real" \/ m \in Base6 \ {"Isse", "IsseCtl"} -> WithSse3(c)
    [] Sse3Kind(m, b) = "control" -> WithSse3Ctl(c)
    [] OTHER         -> c

Screened(c, m) ==
  CASE m = "Sparse4g1"     -> WithSparse(c, 4, 1)
    [] m = "Sparse4g1Ctl"  -> WithOrders(c, <<4>>)
    [] m = "Sparse4g1Rep"  -> WithReplacedSparse(c, 4, 1)
    [] m = "Icm"           -> WithIndirect(c, 2, 2, FALSE)
    [] m = "IcmCtl"        -> WithIndirectCtl(c, 2, 2)
    [] m = "IndirectChain" -> WithIndirect(c, 2, 2, TRUE)
    [] m = "IndirectDeep"  -> WithIndirect(c, 5, 2, FALSE)
    [] m = "Collision"     -> WithCollision(c, 1)
    [] m = "CollisionCtl"  -> WithCollision(c, 2)
    [] m = "StemModel"     -> WithStemModel(c, FALSE)
    [] m = "StemModelCtl"  -> WithStemModel(c, TRUE)
    [] m = "Ppm"           -> WithPpm(c, 4)
    [] m = "PpmCtl"        -> WithPpm(c, 1)
    [] m = "Spine"         -> PpmPruned(WithPpm(c, 4))
    [] m \in {"Residual"} \cup Variants -> WithResidual(c, FALSE)
    [] m = "ResidualCtl"   -> WithResidual(c, TRUE)
    [] OTHER               -> c

Sized(m, n) == IF m = "RawCmNoWord" THEN Ablated(ForSize(n), 10) ELSE ForSize(n)

\* What config() and config_for() have in common.
Matched(c, m, b) ==
  MatchByted(WithRepOffsets(Sparsed(Match2d(c, m, b), m, b), RepOffsets(m, b)), m, b)

\* config(): all methods, every mechanism in its place.
Config(m, n, b) ==
  WithInfo(WithRates(Screened(Calibrated(Stated(Classed(Distanced(
    Matched(Columned(Sized(m, n), m), m, b), m, b), m, b), m, b), m, b), m)), Info(m, b))

\* Mutant: the scored chain without the tiers of the match family.
ScoredConfigNoTiers(m, n, b) ==
  LET byte == MatchByted(WithRepOffsets(WithColumn(ForSize(n), FALSE), RepOffsets(m, b)), m, b)
  IN  WithInfo(WithRates(IF m = "Sse3" THEN WithSse3(byte)
                         ELSE WithResidual(WithSse3(byte), FALSE)), "none")

\* Mutant: a scored chain that keeps the screens of the research build.
ScoredConfigScreened(m, n, b) ==
  LET byte == Matched(WithColumn(ForSize(n), FALSE), m, b)
  IN  WithInfo(WithRates(Screened(WithResidual(WithSse3(byte), FALSE), m)), "none")

\* config_for() of the scored build: the accepted chain and only it.
ScoredConfig(m, n, b) ==
  LET byte == Matched(WithColumn(ForSize(n), FALSE), m, b)
  IN  WithInfo(WithRates(IF m = "Sse3" THEN WithSse3(byte)
                         ELSE WithResidual(WithSse3(byte), FALSE)), "none")

\* The model a build makes for a header.
ModelFor(m, tune, n, b) ==
  WithTune(IF "submission" \in b THEN ScoredConfig(m, n, b) ELSE Config(m, n, b), tune, b)

-----------------------------------------------------------------------------
(* What a configuration costs and how wide it is. *)

\* Bytes of a table of 2 ^ bits slots of a kind, in units of 512 bytes.
Slots(bits) == 2 ^ (bits - 9)

ExpertUnits(e, c) ==
  (IF e.kind[1] = "StateOrder" THEN Slots(e.bits) ELSE 2 * Slots(e.bits))
  + (IF IsOrder(e) /\ c.collision # 0 THEN Slots(e.bits) ELSE 0)
  + (IF e.kind[1] \in {"Indirect", "IndirectCtl"} THEN 8 * Slots(AtMost(e.bits, 18)) ELSE 0)

\* A calibration stage of so many tables of 33 entries of four bytes.
ApmUnits(tables) == (tables \div 512) * 33 * 4

\* The byte model's contexts: 1058 bytes for each of 2 ^ 8, 2 ^ 16 and 2 ^ 15.
PpmUnits(order) ==
  (IF order >= 1 THEN 529 ELSE 0) + (IF order >= 2 THEN 128 * 1058 ELSE 0)
  + (IF order >= 3 THEN (order - 2) * 64 * 1058 ELSE 0)

SumOver(s) == LET sum[k \in 0 .. Len(s)] == IF k = 0 THEN 0 ELSE s[k] + sum[k - 1] IN sum[Len(s)]

MemoryUnits(c, b) ==
  SumOver([k \in DOMAIN c.specs |-> ExpertUnits(c.specs[k], c)])
  + SumOver([k \in DOMAIN c.matches |-> 4 * Slots(c.matches[k].bits)])
  + ApmUnits(4096) + ApmUnits(65536) + (IF c.apm3 = "off" THEN 0 ELSE ApmUnits(65536))
  + (IF "ppm" \in b THEN PpmUnits(c.ppm) ELSE 0)

\* The inputs of the mixer.
MixerWidth(c) == Len(c.specs) + Len(c.matches) + c.rep + (IF c.ppm > 0 THEN 1 ELSE 0)
=============================================================================
