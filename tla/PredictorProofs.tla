-------------------------- MODULE PredictorProofs ---------------------------
(***************************************************************************)
(* What holds of the predictor for every roster of tiers and experts,      *)
(* every byte width and every input.  A match tier never claims a match it *)
(* does not have and never misses the one its table holds; a slot under    *)
(* collision control keeps to one history; an untrained slot is seeded     *)
(* with its parent's answer to the same bit; a nibble expert stays in the  *)
(* buckets its context and the byte itself call for; and what the learned  *)
(* tables remember in a slot is what followed the contexts of the slot.    *)
(***************************************************************************)
EXTENDS Predictor, SequenceTheorems, FiniteSetTheorems, WellFoundedInduction, TLAPS

SpecOK(spec) ==
  /\ spec.slots \in Nat \ {0}
  /\ spec.min_len \in 1 .. MAX_LEN
  /\ spec.gap \in Nat
  /\ \A s \in [1 .. spec.min_len -> Byte] : Hash(s) \in Nat

LEMMA TierSpecs == NT \in Nat /\ \A k \in 1 .. NT : SpecOK(Tiers[k])
  BY TiersAssumption, HashAssumption DEF SpecOK, NT

\* The n bytes of b that end g bytes before position p.
LEMMA Ending ==
  ASSUME NEW b \in Seq(Byte), NEW n \in Nat \ {0}, NEW g \in Nat,
         NEW p \in Nat, n + g <= p, p <= Len(b)
  PROVE  /\ SubSeq(b, p - n - g + 1, p - g) \in [1 .. n -> Byte]
         /\ \A j \in 0 .. n - 1 :
              SubSeq(b, p - n - g + 1, p - g)[n - j] = b[p - g - j]
<1>1. PICK from \in 1 .. Len(b) + 1, to \in 0 .. Len(b) :
        from = p - n - g + 1 /\ to = p - g
  BY Len(b) \in Nat
<1>2. to - from + 1 = n /\ to \in from - 1 .. Len(b)
  BY <1>1
<1>3. /\ SubSeq(b, from, to) \in Seq(Byte)
      /\ Len(SubSeq(b, from, to)) = n
      /\ \A i \in 1 .. n : SubSeq(b, from, to)[i] = b[from + i - 1]
  <2>1. \A i \in from .. to : b[i] \in Byte
    BY <1>1
  <2>2. from \in Int /\ to \in Int /\ from <= to
    BY <1>1, <1>2
  <2>3. QED
    BY <1>2, <2>1, <2>2, SubSeqProperties
<1>4. ASSUME NEW j \in 0 .. n - 1
      PROVE  SubSeq(b, from, to)[n - j] = b[p - g - j]
  <2>1. n - j \in 1 .. n /\ from + (n - j) - 1 = p - g - j
    BY <1>1
  <2>2. QED
    BY <1>3, <2>1
<1>5. SubSeq(b, from, to) \in [1 .. n -> Byte]
  BY <1>3, LenProperties
<1>6. SubSeq(b, from, to) = SubSeq(b, p - n - g + 1, p - g)
  BY <1>1
<1>7. QED
  BY <1>4, <1>5, <1>6

LEMMA ContextBytes ==
  ASSUME NEW spec, SpecOK(spec), NEW b \in Seq(Byte),
         NEW p \in Nat, spec.min_len + spec.gap <= p, p <= Len(b)
  PROVE  /\ MatchContext(spec, b, p) \in [1 .. spec.min_len -> Byte]
         /\ \A j \in 0 .. spec.min_len - 1 :
              MatchContext(spec, b, p)[spec.min_len - j] = b[p - spec.gap - j]
<1>1. spec.min_len \in Nat \ {0} /\ spec.gap \in Nat
  BY MaxAssumption DEF SpecOK
<1>2. PICK n \in Nat \ {0}, g \in Nat : n = spec.min_len /\ g = spec.gap
  BY <1>1
<1>3. /\ SubSeq(b, p - n - g + 1, p - g) \in [1 .. n -> Byte]
      /\ \A j \in 0 .. n - 1 :
           SubSeq(b, p - n - g + 1, p - g)[n - j] = b[p - g - j]
  <2>1. n + g <= p
    BY <1>2
  <2>2. QED
    BY ZenonT(60), <2>1, Ending
<1>4. MatchContext(spec, b, p) = SubSeq(b, p - n - g + 1, p - g)
  BY <1>2 DEF MatchContext
<1>5. QED
  BY <1>2, <1>3, <1>4

\* The slot of a position is a slot of the table.
LEMMA SlotInTable ==
  ASSUME NEW spec, SpecOK(spec), NEW b \in Seq(Byte),
         LongEnough(spec, b), NEW m \in TierType(spec)
  PROVE  /\ Slot(spec, b, Len(b)) \in 0 .. spec.slots - 1
         /\ Candidate(spec, b, m) \in Nat
<1>1. Len(b) \in Nat /\ spec.min_len + spec.gap <= Len(b)
  BY DEF LongEnough, SpecOK
<1>2. MatchContext(spec, b, Len(b)) \in [1 .. spec.min_len -> Byte]
  BY <1>1, ContextBytes
<1>3. Hash(MatchContext(spec, b, Len(b))) \in Nat
  BY <1>2 DEF SpecOK
<1>4. Slot(spec, b, Len(b)) \in 0 .. spec.slots - 1
  BY <1>3 DEF Slot, SpecOK
<1>5. QED
  BY <1>4 DEF Candidate, TierType

-----------------------------------------------------------------------------
(* One byte boundary of one tier. *)

\* What is matched in b is matched in b with one more byte.
LEMMA MatchGrows ==
  ASSUME NEW spec, SpecOK(spec), NEW b \in Seq(Byte), NEW x \in Byte,
         NEW m \in TierType(spec), NEW c \in Seq(Byte), c = Append(b, x),
         m.len > 0, Real(spec, b, m), c[m.ptr + 1] = c[Len(c)],
         NEW n \in TierType(spec), n.ptr = m.ptr + 1, n.off = m.off,
         n.len = (IF m.len < MAX_LEN THEN m.len + 1 ELSE MAX_LEN),
         n.pred_byte = c[n.ptr + 1]
  PROVE  Real(spec, c, n)
<1>1. PICK L \in Nat \ {0}, g \in Nat :
        L = spec.min_len /\ g = spec.gap /\ L <= MAX_LEN
  BY MaxAssumption DEF SpecOK
<1>2. PICK q \in Nat, l \in Nat : q = m.ptr /\ l = m.len
  BY DEF TierType
<1>3. PICK e \in 0 .. Len(b) : MatchedFor(spec, b, m, e)
  BY DEF Real
<1>4. /\ l = (IF L + e < MAX_LEN THEN L + e ELSE MAX_LEN)
      /\ L + g <= q - e
      /\ \A j \in 0 .. e - 1 : b[q - j] = b[Len(b) - j]
      /\ \A j \in 0 .. L - 1 : b[q - e - g - j] = b[Len(b) - e - g - j]
  BY <1>1, <1>2, <1>3 DEF MatchedFor
<1>5. q < Len(b) /\ m.off = Len(b) - q
  BY <1>2 DEF Real
<1>6. Len(b) \in Nat /\ Len(c) = Len(b) + 1 /\ \A i \in 1 .. Len(b) : c[i] = b[i]
  BY AppendProperties
<1>7. \A j \in 0 .. (e + 1) - 1 : c[(q + 1) - j] = c[Len(c) - j]
  <2>1. SUFFICES ASSUME NEW j \in 0 .. (e + 1) - 1
                 PROVE  c[(q + 1) - j] = c[Len(c) - j]
    OBVIOUS
  <2>2. CASE j = 0
    <3>1. (q + 1) - j = q + 1 /\ Len(c) - j = Len(c)
      BY <1>6, <2>2
    <3>2. QED
      BY <1>2, <3>1
  <2>3. CASE j # 0
    <3>1. /\ L + g <= q - e /\ q < Len(b) /\ Len(b) \in Nat
          /\ e \in Nat /\ j \in Nat \ {0} /\ j <= e
      BY <1>4, <1>5, <1>6, <2>3
    <3>2. j - 1 \in 0 .. e - 1 /\ q - (j - 1) \in 1 .. Len(b)
          /\ Len(b) - (j - 1) \in 1 .. Len(b)
      BY <3>1
    <3>3. b[q - (j - 1)] = b[Len(b) - (j - 1)]
      BY <1>4, <3>2
    <3>4. (q + 1) - j = q - (j - 1) /\ Len(c) - j = Len(b) - (j - 1)
      BY <1>6, <3>1
    <3>5. QED
      BY <1>6, <3>2, <3>3, <3>4
  <2>4. QED
    BY <2>2, <2>3
<1>8. \A j \in 0 .. L - 1 :
        c[(q + 1) - (e + 1) - g - j] = c[Len(c) - (e + 1) - g - j]
  <2>1. SUFFICES ASSUME NEW j \in 0 .. L - 1
                 PROVE  c[(q + 1) - (e + 1) - g - j] = c[Len(c) - (e + 1) - g - j]
    OBVIOUS
  <2>2. q - e - g - j \in 1 .. Len(b) /\ Len(b) - e - g - j \in 1 .. Len(b)
    <3>1. L + g <= q - e /\ q < Len(b)
      BY <1>4, <1>5
    <3>2. e \in Nat /\ j \in Nat /\ j < L /\ Len(b) \in Nat
      BY <1>6
    <3>3. QED
      BY <3>1, <3>2
  <2>3. (q + 1) - (e + 1) - g - j = q - e - g - j
        /\ Len(c) - (e + 1) - g - j = Len(b) - e - g - j
    BY <1>6
  <2>4. b[q - e - g - j] = b[Len(b) - e - g - j]
    BY <1>4
  <2>5. QED
    BY <1>6, <2>2, <2>3, <2>4
<1>9. n.len = (IF L + (e + 1) < MAX_LEN THEN L + (e + 1) ELSE MAX_LEN)
  <2>1. MAX_LEN \in Nat /\ e \in Nat
    BY <1>6, MaxAssumption
  <2>2. n.len = (IF l < MAX_LEN THEN l + 1 ELSE MAX_LEN)
    BY <1>2
  <2>3. l = (IF L + e < MAX_LEN THEN L + e ELSE MAX_LEN)
    BY <1>4
  <2>4. CASE L + e < MAX_LEN
    <3>1. n.len = (L + e) + 1 /\ L + (e + 1) = (L + e) + 1
      BY <2>1, <2>2, <2>3, <2>4
    <3>2. L + (e + 1) < MAX_LEN \/ L + (e + 1) = MAX_LEN
      BY <2>1, <2>4
    <3>3. QED
      BY <3>1, <3>2
  <2>5. CASE L + e >= MAX_LEN
    <3>1. n.len = MAX_LEN /\ ~(L + (e + 1) < MAX_LEN)
      BY <2>1, <2>2, <2>3, <2>5
    <3>2. QED
      BY <3>1
  <2>6. QED
    BY <2>1, <2>4, <2>5
<1>10. L + g <= (q + 1) - (e + 1)
  BY <1>4
<1>11. MatchedFor(spec, c, n, e + 1)
  <2>1. n.ptr = q + 1
    BY <1>2
  <2>2. QED
    BY <1>1, <1>7, <1>8, <1>9, <1>10, <2>1 DEF MatchedFor
<1>12. e + 1 \in 0 .. Len(c)
  BY <1>6
<1>13. n.ptr < Len(c) /\ n.off = Len(c) - n.ptr
  BY <1>2, <1>5, <1>6
<1>14. QED
  BY <1>11, <1>12, <1>13 DEF Real

\* A match that starts has the whole context to show.
LEMMA MatchStarts ==
  ASSUME NEW spec, SpecOK(spec), NEW c \in Seq(Byte),
         NEW p \in Nat, spec.min_len + spec.gap <= p, p < Len(c),
         MatchContext(spec, c, p) = MatchContext(spec, c, Len(c)),
         NEW n \in TierType(spec), n.ptr = p, n.len = spec.min_len,
         n.off = Len(c) - p, n.pred_byte = c[p + 1]
  PROVE  Real(spec, c, n)
<1>1. PICK L \in Nat \ {0}, g \in Nat :
        L = spec.min_len /\ g = spec.gap /\ L <= MAX_LEN
  BY MaxAssumption DEF SpecOK
<1>2. Len(c) \in Nat
  OBVIOUS
<1>3. \A j \in 0 .. spec.min_len - 1 :
        c[p - spec.gap - j] = c[Len(c) - spec.gap - j]
  <2>1. spec.min_len + spec.gap <= Len(c)
    BY <1>1, <1>2
  <2>2. \A j \in 0 .. spec.min_len - 1 :
          MatchContext(spec, c, p)[spec.min_len - j] = c[p - spec.gap - j]
    BY <1>2, ContextBytes
  <2>3. \A j \in 0 .. spec.min_len - 1 :
          MatchContext(spec, c, Len(c))[spec.min_len - j] = c[Len(c) - spec.gap - j]
    BY <1>2, <2>1, ContextBytes
  <2>4. QED
    BY <2>2, <2>3
<1>4. \A j \in 0 .. L - 1 : c[p - 0 - g - j] = c[Len(c) - 0 - g - j]
  BY <1>1, <1>2, <1>3
<1>5. L = (IF L + 0 < MAX_LEN THEN L + 0 ELSE MAX_LEN) /\ L + g <= p - 0
  BY <1>1, MaxAssumption
<1>6. MatchedFor(spec, c, n, 0)
  BY <1>1, <1>4, <1>5 DEF MatchedFor
<1>7. QED
  BY <1>2, <1>6 DEF Real

\* A byte boundary keeps a tier truthful.
LEMMA BoundaryKeeps ==
  ASSUME NEW spec, SpecOK(spec), NEW b \in Seq(Byte), NEW x \in Byte,
         NEW m \in TierType(spec), Real(spec, b, m)
  PROVE  LET c == Append(b, x)
             n == BeginByte(c, ByteBoundary(spec, c, m))
         IN  n \in TierType(spec) /\ Real(spec, c, n)
<1> DEFINE c == Append(b, x)
           u == ByteBoundary(spec, c, m)
           n == BeginByte(c, u)
           p == Candidate(spec, c, m)
<1> SUFFICES n \in TierType(spec) /\ Real(spec, c, n)
  OBVIOUS
<1>1. /\ c \in Seq(Byte) /\ Len(c) = Len(b) + 1 /\ Len(b) \in Nat
      /\ \A i \in 1 .. Len(c) : c[i] \in Byte
  BY AppendProperties
<1> HIDE DEF c
<1>2. PICK L \in Nat \ {0}, g \in Nat :
        L = spec.min_len /\ g = spec.gap /\ L <= MAX_LEN
  BY MaxAssumption DEF SpecOK
<1>3. /\ m.ptr \in Nat /\ m.len \in Nat /\ m.off \in Nat
      /\ m.table \in [0 .. spec.slots - 1 -> Nat]
  BY DEF TierType
<1>4. ASSUME u \in TierType(spec), u.len = 0
      PROVE  n \in TierType(spec) /\ Real(spec, c, n)
  <2>1. n = [u EXCEPT !.len = 0]
    BY <1>4 DEF BeginByte
  <2>2. QED
    BY <1>4, <2>1 DEF TierType, Real
<1>5. ASSUME u \in TierType(spec), u.len > 0, u.ptr < Len(c)
      PROVE  /\ n \in TierType(spec) /\ n.ptr = u.ptr /\ n.len = u.len
             /\ n.off = u.off /\ n.pred_byte = c[n.ptr + 1]
  <2>1. n = [u EXCEPT !.pred_byte = c[u.ptr + 1]]
    BY <1>5 DEF BeginByte
  <2>2. c[u.ptr + 1] \in Nat
    BY <1>1, <1>5 DEF TierType, Byte
  <2>3. QED
    BY <1>5, <2>1, <2>2 DEF TierType
<1> HIDE DEF n, u
<1>6. CASE ~LongEnough(spec, c)
  <2>1. u = m
    BY <1>6 DEF ByteBoundary, u
  <2>2. m.len = 0
    <3>1. SUFFICES ASSUME m.len > 0 PROVE FALSE
      BY <1>3
    <3>2. PICK e \in 0 .. Len(b) : MatchedFor(spec, b, m, e)
      BY <3>1 DEF Real
    <3>3. L + g <= m.ptr - e /\ m.ptr < Len(b)
      BY <1>2, <3>1, <3>2 DEF MatchedFor, Real
    <3>4. ~(L + g <= Len(c))
      BY <1>2, <1>6 DEF LongEnough
    <3>5. QED
      BY <1>1, <1>2, <1>3, <3>3, <3>4
  <2>3. QED
    BY <1>4, <2>1, <2>2
<1>7. CASE LongEnough(spec, c)
  <2> DEFINE s == Slot(spec, c, Len(c))
             x0 == Extend(c, m)
             y == [x0 EXCEPT !.table[s] = Len(c)]
  <2>1. s \in 0 .. spec.slots - 1 /\ p \in Nat
    BY <1>1, <1>7, SlotInTable
  <2>2. /\ x0 \in TierType(spec)
        /\ x0.table = m.table /\ x0.off = m.off
        /\ x0.len > 0 =>
             /\ m.len > 0 /\ c[m.ptr + 1] = c[Len(c)]
             /\ x0.ptr = m.ptr + 1
             /\ x0.len = (IF m.len < MAX_LEN THEN m.len + 1 ELSE MAX_LEN)
    <3>1. CASE m.len > 0 /\ m.ptr < Len(c) /\ c[m.ptr + 1] = c[Len(c)]
      <4>1. x0 = [m EXCEPT !.ptr = m.ptr + 1,
                           !.len = IF m.len < MAX_LEN THEN m.len + 1 ELSE MAX_LEN]
        BY <3>1 DEF Extend
      <4>2. m.ptr + 1 \in Nat
            /\ (IF m.len < MAX_LEN THEN m.len + 1 ELSE MAX_LEN) \in Nat
        BY <1>3, MaxAssumption
      <4>3. QED
        BY <3>1, <4>1, <4>2 DEF TierType
    <3>2. CASE ~(m.len > 0 /\ m.ptr < Len(c) /\ c[m.ptr + 1] = c[Len(c)])
      <4>1. x0 = [m EXCEPT !.len = 0]
        BY <3>2 DEF Extend
      <4>2. QED
        BY <4>1 DEF TierType
    <3>3. QED
      BY <3>1, <3>2
  <2> HIDE DEF s, x0
  <2>3. /\ y \in TierType(spec)
        /\ y.ptr = x0.ptr /\ y.len = x0.len /\ y.off = x0.off
    <3>1. x0.table \in [0 .. spec.slots - 1 -> Nat] /\ Len(c) \in Nat
      BY <1>1, <2>2 DEF TierType
    <3>2. [x0.table EXCEPT ![s] = Len(c)] \in [0 .. spec.slots - 1 -> Nat]
      BY <2>1, <3>1
    <3>3. QED
      BY <2>2, <3>2 DEF TierType
  <2> HIDE DEF y
  <2>4. CASE Starts(spec, c, m)
    <3>1. u = [y EXCEPT !.ptr = p, !.len = spec.min_len, !.off = Len(c) - p]
      BY <1>7, <2>4 DEF ByteBoundary, u, y, x0, s
    <3>2. /\ spec.min_len + spec.gap <= p /\ p < Len(c)
          /\ MatchContext(spec, c, p) = MatchContext(spec, c, Len(c))
      BY <1>2, <2>1, <2>4 DEF Starts
    <3>3. /\ u \in TierType(spec) /\ u.ptr = p /\ u.len = spec.min_len
          /\ u.off = Len(c) - p
      <4>1. Len(c) - p \in Nat /\ spec.min_len \in Nat
        BY <1>1, <1>2, <2>1, <3>2
      <4>2. QED
        BY <2>1, <2>3, <3>1, <4>1 DEF TierType
    <3>4. /\ n \in TierType(spec) /\ n.ptr = p /\ n.len = spec.min_len
          /\ n.off = Len(c) - p /\ n.pred_byte = c[p + 1]
      BY <1>2, <1>5, <3>2, <3>3
    <3>5. QED
      BY <1>1, <2>1, <3>2, <3>4, MatchStarts
  <2>5. CASE ~Starts(spec, c, m)
    <3>1. u = y
      BY <1>7, <2>5 DEF ByteBoundary, u, y, x0, s
    <3>2. CASE x0.len = 0
      BY <1>4, <2>3, <3>1, <3>2
    <3>3. CASE x0.len > 0
      <4>1. m.ptr < Len(b)
        BY <2>2, <3>3 DEF Real
      <4>2. u.ptr < Len(c) /\ u.len > 0
        BY <1>1, <1>3, <2>2, <2>3, <3>1, <3>3, <4>1
      <4>3. /\ n \in TierType(spec) /\ n.ptr = u.ptr /\ n.len = u.len
            /\ n.off = u.off /\ n.pred_byte = c[n.ptr + 1]
        BY <1>5, <2>3, <3>1, <4>2
      <4>4. /\ n.ptr = m.ptr + 1 /\ n.off = m.off
            /\ n.len = (IF m.len < MAX_LEN THEN m.len + 1 ELSE MAX_LEN)
        BY <2>2, <2>3, <3>1, <3>3, <4>3
      <4>5. m.len > 0 /\ c[m.ptr + 1] = c[Len(c)]
        BY <2>2, <3>3
      <4>6. c = Append(b, x)
        BY DEF c
      <4>7. Real(spec, c, n)
        BY <1>1, <4>3, <4>4, <4>5, <4>6, MatchGrows
      <4>8. QED
        BY <4>3, <4>7
    <3>4. x0.len \in Nat
      BY <2>2 DEF TierType
    <3>5. QED
      BY <3>2, <3>3, <3>4
  <2>6. QED
    BY <2>4, <2>5
<1>8. QED
  BY <1>6, <1>7

-----------------------------------------------------------------------------
(* The invariant. *)

LEMMA InitMatchInv == Init => MatchInv
<1> SUFFICES ASSUME Init PROVE MatchInv
  OBVIOUS
<1>1. buf \in Seq(Byte) /\ DOMAIN tiers = 1 .. NT
  BY EmptySeq DEF Init
<1>2. ASSUME NEW k \in 1 .. NT
      PROVE  tiers[k] \in TierType(Tiers[k]) /\ Real(Tiers[k], buf, tiers[k])
  <2>1. tiers[k] = NewMatchModel(Tiers[k])
    BY DEF Init
  <2>2. QED
    BY <2>1 DEF NewMatchModel, TierType, Real
<1>3. QED
  BY <1>1, <1>2 DEF MatchInv, RealMatch

LEMMA StepMatchInv == MatchInv /\ [Next]_vars => MatchInv'
<1> SUFFICES ASSUME MatchInv, [Next]_vars PROVE MatchInv'
  OBVIOUS
<1>1. CASE UNCHANGED <<buf, tiers>>
  BY <1>1 DEF MatchInv, RealMatch, Real, MatchedFor
<1>2. CASE UpdateByte
  <2>1. PICK x \in Alphabet : buf' = Append(buf, x) /\ tiers' = TiersAfter(buf')
    BY <1>2 DEF UpdateByte
  <2>2. x \in Byte
    BY AlphabetAssumption
  <2>3. buf' \in Seq(Byte) /\ DOMAIN tiers' = 1 .. NT
    BY <2>1, <2>2, AppendProperties DEF MatchInv, TiersAfter
  <2>4. ASSUME NEW k \in 1 .. NT
        PROVE  /\ tiers'[k] \in TierType(Tiers[k])
               /\ Real(Tiers[k], buf', tiers'[k])
    <3>1. tiers'[k] = BeginByte(buf', ByteBoundary(Tiers[k], buf', tiers[k]))
      BY <2>1 DEF TiersAfter
    <3>2. /\ SpecOK(Tiers[k]) /\ tiers[k] \in TierType(Tiers[k])
          /\ Real(Tiers[k], buf, tiers[k]) /\ buf \in Seq(Byte)
      BY TierSpecs DEF MatchInv, RealMatch
    <3>3. QED
      BY <2>1, <2>2, <3>1, <3>2, BoundaryKeeps
  <2>5. QED
    BY <2>3, <2>4 DEF MatchInv, RealMatch
<1>3. QED
  BY <1>1, <1>2 DEF Next, Predict, UpdateBit, vars

\* Whatever was coded, with whatever tiers: a tier that claims a match has
\* one, of the length and at the distance it reports, and predicts the byte
\* that followed it.
THEOREM MatchesAreReal == Spec => []RealMatch
<1>1. MatchInv => RealMatch
  BY DEF MatchInv
<1>2. QED
  BY <1>1, InitMatchInv, StepMatchInv, PTL DEF Spec

-----------------------------------------------------------------------------
(* No match is missed: the table of a tier holds, for every slot, the       *)
(* latest position whose context falls into it.                             *)

Latest(spec, b, table) ==
  /\ \A s \in 0 .. spec.slots - 1 :
       \/ table[s] = 0
       \/ table[s] \in spec.min_len + spec.gap .. Len(b) /\ Slot(spec, b, table[s]) = s
  /\ \A p \in spec.min_len + spec.gap .. Len(b) : p <= table[Slot(spec, b, p)]

\* The positions before the current one whose context shares its slot.
SameSlot(spec, b) ==
  {p \in spec.min_len + spec.gap .. Len(b) - 1 : Slot(spec, b, p) = Slot(spec, b, Len(b))}

\* NoMissedMatch for one tier.
NoneMissed(spec, b, m) ==
  (m.len = 0 /\ Len(b) >= spec.min_len + spec.gap /\ SameSlot(spec, b) # {}) =>
    LET q == CHOOSE q \in SameSlot(spec, b) : \A p \in SameSlot(spec, b) : p <= q
    IN  MatchContext(spec, b, q) # MatchContext(spec, b, Len(b))

\* A context is the same when there is one more byte behind it.
LEMMA ContextStays ==
  ASSUME NEW spec, SpecOK(spec), NEW b \in Seq(Byte), NEW x \in Byte,
         NEW p \in Nat, spec.min_len + spec.gap <= p, p <= Len(b)
  PROVE  /\ MatchContext(spec, Append(b, x), p) = MatchContext(spec, b, p)
         /\ Slot(spec, Append(b, x), p) = Slot(spec, b, p)
<1>1. PICK c \in Seq(Byte) : c = Append(b, x)
  BY AppendProperties
<1>2. Len(c) = Len(b) + 1 /\ Len(b) \in Nat /\ \A i \in 1 .. Len(b) : c[i] = b[i]
  BY <1>1, AppendProperties
<1>3. PICK L \in Nat \ {0}, g \in Nat : L = spec.min_len /\ g = spec.gap
  BY MaxAssumption DEF SpecOK
<1>4. PICK u, v : u = MatchContext(spec, c, p) /\ v = MatchContext(spec, b, p)
  OBVIOUS
<1> L + g <= p
  BY <1>3
<1>5. u \in [1 .. L -> Byte] /\ \A j \in 0 .. L - 1 : u[L - j] = c[p - g - j]
  <2>1. p <= Len(c)
    BY <1>2
  <2>2. /\ MatchContext(spec, c, p) \in [1 .. spec.min_len -> Byte]
        /\ \A j \in 0 .. spec.min_len - 1 :
             MatchContext(spec, c, p)[spec.min_len - j] = c[p - spec.gap - j]
    BY <2>1, ContextBytes
  <2> QED
    BY <1>3, <1>4, <2>2
<1>6. v \in [1 .. L -> Byte] /\ \A j \in 0 .. L - 1 : v[L - j] = b[p - g - j]
  BY <1>3, <1>4, ContextBytes
<1>7. ASSUME NEW i \in 1 .. L PROVE u[i] = v[i]
  <2>1. PICK j \in 0 .. L - 1 : i = L - j
    <3>1. L - i \in 0 .. L - 1 /\ i = L - (L - i)
      OBVIOUS
    <3> QED
      BY <3>1
  <2>2. p - g - j \in 1 .. Len(b)
    <3>1. j \in Int /\ 0 <= j /\ j <= L - 1
      OBVIOUS
    <3> QED
      BY <1>2, <3>1
  <2> QED
    BY <1>2, <1>5, <1>6, <2>1, <2>2
<1>8. u = v
  BY <1>5, <1>6, <1>7
<1> QED
  BY <1>1, <1>4, <1>8 DEF Slot

LEMMA SlotOf ==
  ASSUME NEW spec, SpecOK(spec), NEW b \in Seq(Byte),
         NEW p \in Nat, spec.min_len + spec.gap <= p, p <= Len(b)
  PROVE  Slot(spec, b, p) \in 0 .. spec.slots - 1
<1>1. MatchContext(spec, b, p) \in [1 .. spec.min_len -> Byte]
  BY ContextBytes
<1>2. Hash(MatchContext(spec, b, p)) \in Nat
  BY <1>1 DEF SpecOK
<1> QED
  BY <1>2 DEF Slot, SpecOK

\* What a byte boundary does to the table.
LEMMA TableAfter ==
  ASSUME NEW spec, NEW c, NEW m \in TierType(spec)
  PROVE  BeginByte(c, ByteBoundary(spec, c, m)).table =
           IF LongEnough(spec, c) THEN [m.table EXCEPT ![Slot(spec, c, Len(c))] = Len(c)]
           ELSE m.table
<1>1. PICK u : u = ByteBoundary(spec, c, m)
  OBVIOUS
<1>2. BeginByte(c, u).table = u.table
  <2>1. CASE ~LongEnough(spec, c)
    BY <1>1, <2>1 DEF BeginByte, ByteBoundary, TierType
  <2>2. CASE LongEnough(spec, c)
    BY <1>1, <2>2 DEF BeginByte, ByteBoundary, TierType, Extend
  <2> QED
    BY <2>1, <2>2
<1>3. u.table = IF LongEnough(spec, c) THEN [m.table EXCEPT ![Slot(spec, c, Len(c))] = Len(c)]
                ELSE m.table
  <2>1. Extend(c, m).table = m.table
    BY DEF Extend, TierType
  <2> QED
    BY <1>1, <2>1 DEF ByteBoundary, Extend, TierType
<1> QED
  BY <1>1, <1>2, <1>3

LEMMA LatestKept ==
  ASSUME NEW spec, SpecOK(spec), NEW b \in Seq(Byte), NEW x \in Byte,
         NEW m \in TierType(spec), Latest(spec, b, m.table)
  PROVE  Latest(spec, Append(b, x), BeginByte(Append(b, x),
                                      ByteBoundary(spec, Append(b, x), m)).table)
<1>1. PICK c \in Seq(Byte) : c = Append(b, x)
  BY AppendProperties
<1>2. Len(c) = Len(b) + 1 /\ Len(b) \in Nat
  BY <1>1, AppendProperties
<1>3. PICK F \in Nat : F = spec.min_len + spec.gap /\ F > 0
  BY MaxAssumption DEF SpecOK
<1>4. PICK t : t = BeginByte(c, ByteBoundary(spec, c, m)).table
  OBVIOUS
<1>5. m.table \in [0 .. spec.slots - 1 -> Nat] /\ spec.slots \in Nat
  BY DEF TierType, SpecOK
<1>6. \A p \in F .. Len(b) : Slot(spec, c, p) = Slot(spec, b, p)
  BY <1>1, <1>2, <1>3, ContextStays
<1>7. \A p \in F .. Len(c) : Slot(spec, c, p) \in 0 .. spec.slots - 1
  BY <1>2, <1>3, SlotOf
<1>8. /\ \A s \in 0 .. spec.slots - 1 :
           m.table[s] = 0 \/ (m.table[s] \in F .. Len(b) /\ Slot(spec, b, m.table[s]) = s)
      /\ \A p \in F .. Len(b) : p <= m.table[Slot(spec, b, p)]
  BY <1>3 DEF Latest
<1>9. CASE ~LongEnough(spec, c)
  <2>1. t = m.table /\ Len(c) < F
    <3>1. t = m.table
      BY <1>4, <1>9, TableAfter
    <3>2. Len(c) < F
      BY <1>2, <1>3, <1>9 DEF LongEnough
    <3> QED
      BY <3>1, <3>2
  <2>2. \A s \in 0 .. spec.slots - 1 : t[s] = 0
    BY <1>2, <1>8, <2>1
  <2>3. F .. Len(c) = {}
    BY <1>2, <2>1
  <2> QED
    BY <1>1, <1>3, <1>4, <2>2, <2>3 DEF Latest
<1>10. CASE LongEnough(spec, c)
  <2>1. PICK z \in 0 .. spec.slots - 1 : z = Slot(spec, c, Len(c))
    BY <1>2, <1>3, <1>7, <1>10 DEF LongEnough
  <2>2. t = [m.table EXCEPT ![z] = Len(c)] /\ F <= Len(c)
    BY <1>2, <1>3, <1>4, <1>10, <2>1, TableAfter DEF LongEnough
  <2>3. ASSUME NEW s \in 0 .. spec.slots - 1
        PROVE  t[s] = 0 \/ (t[s] \in F .. Len(c) /\ Slot(spec, c, t[s]) = s)
    <3>1. CASE s = z
      BY <1>2, <1>5, <2>1, <2>2, <3>1
    <3>2. CASE s # z
      <4>1. t[s] = m.table[s]
        BY <1>5, <2>2, <3>2
      <4> QED
        BY <1>2, <1>6, <1>8, <4>1
    <3> QED
      BY <3>1, <3>2
  <2>4. ASSUME NEW p \in F .. Len(c) PROVE p <= t[Slot(spec, c, p)]
    <3>1. Slot(spec, c, p) \in 0 .. spec.slots - 1
      BY <1>7
    <3>2. CASE Slot(spec, c, p) = z
      BY <1>2, <1>5, <2>2, <3>1, <3>2
    <3>3. CASE Slot(spec, c, p) # z
      <4>1. p \in F .. Len(b)
        BY <1>2, <2>1, <3>3
      <4>2. t[Slot(spec, c, p)] = m.table[Slot(spec, b, p)]
        BY <1>5, <1>6, <2>2, <3>1, <3>3, <4>1
      <4> QED
        BY <1>8, <4>1, <4>2
    <3> QED
      BY <3>2, <3>3
  <2> QED
    BY <1>1, <1>3, <1>4, <2>3, <2>4 DEF Latest
<1> QED
  BY <1>9, <1>10

\* A tier that starts no match, and has none running, has nothing to start.
LEMMA BoundaryMissesNone ==
  ASSUME NEW spec, SpecOK(spec), NEW b \in Seq(Byte), NEW x \in Byte,
         NEW m \in TierType(spec), Real(spec, b, m), Latest(spec, b, m.table)
  PROVE  NoneMissed(spec, Append(b, x), BeginByte(Append(b, x),
                                          ByteBoundary(spec, Append(b, x), m)))
<1>1. PICK c \in Seq(Byte) : c = Append(b, x)
  BY AppendProperties
<1>2. Len(c) = Len(b) + 1 /\ Len(b) \in Nat
  BY <1>1, AppendProperties
<1>3. PICK F \in Nat : F = spec.min_len + spec.gap /\ F > 0
  BY MaxAssumption DEF SpecOK
<1>4. PICK u, n : u = ByteBoundary(spec, c, m) /\ n = BeginByte(c, u)
  OBVIOUS
<1> SUFFICES ASSUME n.len = 0, Len(c) >= F, SameSlot(spec, c) # {}
             PROVE  LET q == CHOOSE q \in SameSlot(spec, c) :
                               \A p \in SameSlot(spec, c) : p <= q
                    IN  MatchContext(spec, c, q) # MatchContext(spec, c, Len(c))
  BY <1>1, <1>3, <1>4 DEF NoneMissed
<1>5. PICK p : p = Candidate(spec, c, m)
  OBVIOUS
<1>6. LongEnough(spec, c)
  BY <1>3 DEF LongEnough
<1>7. PICK z \in 0 .. spec.slots - 1 : z = Slot(spec, c, Len(c))
  BY <1>1, <1>6, SlotInTable
<1>8. p = m.table[z] /\ p \in Nat
  BY <1>5, <1>7 DEF Candidate, TierType
\* The candidate is the latest position that shares the slot.
<1>9. p \in SameSlot(spec, c) /\ \A q \in SameSlot(spec, c) : q <= p
  <2>1. \A q \in SameSlot(spec, c) : q \in F .. Len(b) /\ Slot(spec, b, q) = z
    <3> SUFFICES ASSUME NEW q \in SameSlot(spec, c)
                 PROVE  q \in F .. Len(b) /\ Slot(spec, b, q) = z
      OBVIOUS
    <3>1. q \in F .. Len(b) /\ Slot(spec, c, q) = z
      BY <1>2, <1>3, <1>7 DEF SameSlot
    <3>2. Slot(spec, c, q) = Slot(spec, b, q)
      BY <1>1, <1>2, <1>3, <3>1, ContextStays
    <3> QED
      BY <3>1, <3>2
  <2>2. \A q \in SameSlot(spec, c) : q <= p
    BY <1>3, <1>8, <2>1 DEF Latest
  <2>3. p # 0
    BY <1>2, <1>3, <1>8, <2>1, <2>2
  <2>4. p \in F .. Len(b) /\ Slot(spec, b, p) = z
    BY <1>3, <1>7, <1>8, <2>3 DEF Latest
  <2>5. Slot(spec, c, p) = z
    BY <1>1, <1>2, <1>3, <2>4, ContextStays
  <2> QED
    BY <1>2, <1>3, <1>7, <2>2, <2>4, <2>5 DEF SameSlot
<1>10. p \in F .. Len(b)
  BY <1>2, <1>3, <1>9 DEF SameSlot
\* Nothing is running and nothing was started.
<1>11. Extend(c, m).len = 0
  <2> SUFFICES ASSUME Extend(c, m).len # 0 PROVE FALSE
    OBVIOUS
  <2>1. m.len > 0 /\ m.ptr \in Nat /\ m.len \in Nat
    BY DEF Extend, TierType
  <2>2. m.ptr < Len(b)
    BY <2>1 DEF Real
  <2>3. Extend(c, m) = [m EXCEPT !.ptr = m.ptr + 1,
                                 !.len = IF m.len < MAX_LEN THEN m.len + 1 ELSE MAX_LEN]
    BY DEF Extend, TierType
  <2>4. Extend(c, m).ptr = m.ptr + 1 /\ Extend(c, m).len > 0
    BY <2>1, <2>3, MaxAssumption DEF TierType
  <2>5. ~Starts(spec, c, m)
    BY DEF Starts
  <2>6. u.ptr = m.ptr + 1 /\ u.len > 0
    BY <1>4, <1>6, <2>3, <2>4, <2>5 DEF ByteBoundary, TierType
  <2>7. u.ptr < Len(c)
    BY <1>2, <2>1, <2>2, <2>6
  <2>8. n = [u EXCEPT !.pred_byte = c[u.ptr + 1]]
    BY <1>4, <2>6, <2>7 DEF BeginByte
  <2>9. n.len = u.len
    BY <2>8
  <2> QED
    BY <2>6, <2>9
<1>12. ~Starts(spec, c, m)
  <2> SUFFICES ASSUME Starts(spec, c, m) PROVE FALSE
    OBVIOUS
  <2>1. u.ptr = p /\ u.len = spec.min_len
    BY <1>4, <1>5, <1>6 DEF ByteBoundary, TierType, Extend
  <2>2. u.ptr < Len(c) /\ u.len > 0
    BY <1>2, <1>10, <2>1 DEF SpecOK
  <2>3. n = [u EXCEPT !.pred_byte = c[u.ptr + 1]]
    BY <1>4, <2>2 DEF BeginByte
  <2> QED
    BY <2>2, <2>3
<1>13. MatchContext(spec, c, p) # MatchContext(spec, c, Len(c))
  BY <1>2, <1>3, <1>5, <1>6, <1>10, <1>11, <1>12 DEF Starts
<1>14. PICK q : q = CHOOSE a \in SameSlot(spec, c) : \A r \in SameSlot(spec, c) : r <= a
  OBVIOUS
<1>15. q = p
  <2>1. q \in SameSlot(spec, c) /\ \A r \in SameSlot(spec, c) : r <= q
    BY <1>9, <1>14
  <2>2. q \in Int /\ p \in Int
    BY <1>2, <1>3, <1>9, <2>1 DEF SameSlot
  <2>3. q <= p /\ p <= q
    BY <1>9, <2>1
  <2> QED
    BY <2>2, <2>3
<1> QED
  BY <1>13, <1>14, <1>15

TablesLatest == \A k \in 1 .. NT : Latest(Tiers[k], buf, tiers[k].table)

LEMMA MissedByTier ==
  NoMissedMatch <=> \A k \in 1 .. NT : NoneMissed(Tiers[k], buf, tiers[k])
  BY DEF NoMissedMatch, NoneMissed, SameSlot

LEMMA InitNoneMissed == Init => TablesLatest /\ NoMissedMatch
<1> SUFFICES ASSUME Init, NEW k \in 1 .. NT
             PROVE  Latest(Tiers[k], buf, tiers[k].table) /\ NoneMissed(Tiers[k], buf, tiers[k])
  BY MissedByTier DEF TablesLatest
<1>1. tiers[k].table = [s \in 0 .. Tiers[k].slots - 1 |-> 0] /\ Len(buf) = 0
  BY DEF Init, NewMatchModel
<1>2. Tiers[k].min_len + Tiers[k].gap \in Nat /\ Tiers[k].min_len + Tiers[k].gap > 0
  BY TierSpecs, MaxAssumption DEF SpecOK
<1> QED
  BY <1>1, <1>2 DEF Latest, NoneMissed

LEMMA StepNoneMissed ==
  MatchInv /\ TablesLatest /\ NoMissedMatch /\ [Next]_vars => (TablesLatest /\ NoMissedMatch)'
<1> SUFFICES ASSUME MatchInv, TablesLatest, NoMissedMatch, [Next]_vars
             PROVE  (TablesLatest /\ NoMissedMatch)'
  OBVIOUS
<1>1. CASE UNCHANGED <<buf, tiers>>
  BY <1>1 DEF TablesLatest, NoMissedMatch
<1>2. CASE UpdateByte
  <2>1. PICK x \in Alphabet : buf' = Append(buf, x) /\ tiers' = TiersAfter(buf')
    BY <1>2 DEF UpdateByte
  <2>2. x \in Byte
    BY AlphabetAssumption
  <2>3. ASSUME NEW k \in 1 .. NT
        PROVE  /\ Latest(Tiers[k], buf', tiers'[k].table)
               /\ NoneMissed(Tiers[k], buf', tiers'[k])
    <3>1. tiers'[k] = BeginByte(buf', ByteBoundary(Tiers[k], buf', tiers[k]))
      BY <2>1 DEF TiersAfter
    <3>2. /\ SpecOK(Tiers[k]) /\ tiers[k] \in TierType(Tiers[k])
          /\ Real(Tiers[k], buf, tiers[k]) /\ buf \in Seq(Byte)
          /\ Latest(Tiers[k], buf, tiers[k].table)
      BY TierSpecs DEF MatchInv, RealMatch, TablesLatest
    <3>3. Latest(Tiers[k], buf', tiers'[k].table)
      BY <2>1, <2>2, <3>1, <3>2, LatestKept
    <3>4. NoneMissed(Tiers[k], buf', tiers'[k])
      BY <2>1, <2>2, <3>1, <3>2, BoundaryMissesNone
    <3> QED
      BY <3>3, <3>4
  <2>4. TablesLatest'
    BY <2>3 DEF TablesLatest
  <2>5. NoMissedMatch'
    BY <2>3 DEF NoMissedMatch, NoneMissed, SameSlot
  <2> QED
    BY <2>4, <2>5
<1> QED
  BY <1>1, <1>2 DEF Next, Predict, UpdateBit, vars

\* And whatever was coded, a tier without a match has none to offer: the
\* latest position in the slot of the current context had another context.
THEOREM MatchesAreFound == Spec => []NoMissedMatch
<1> QED
  BY InitMatchInv, StepMatchInv, InitNoneMissed, StepNoneMissed, PTL DEF Spec
-----------------------------------------------------------------------------
(* The experts.                                                            *)

\* The fields of a direct expert.
Shaped(m) ==
  \E t, ch, c, x, p, h, l, r :
    m = [table |-> t, chk |-> ch, ctx |-> c, idx |-> x, last_p |-> p,
         hi_base |-> h, lo_base |-> l, lo_ready |-> r]

\* What locate() makes of m.
Located(spec, m, c, u) ==
  /\ Shaped(u)
  /\ u.table = m.table /\ u.chk = m.chk /\ u.ctx = m.ctx /\ u.hi_base = m.hi_base
  /\ ~spec.nibble => /\ u.idx = Mix(m.ctx, c) % spec.slots
                     /\ u.lo_base = m.lo_base /\ u.lo_ready = m.lo_ready
  /\ spec.nibble /\ c < Bucket => /\ u.idx = m.hi_base + c
                                  /\ u.lo_base = m.lo_base /\ u.lo_ready = m.lo_ready
  /\ spec.nibble /\ ~(c < Bucket) =>
       /\ u.lo_ready = TRUE
       /\ u.lo_base = IF m.lo_ready THEN m.lo_base
                      ELSE NibbleBase(spec, m.ctx, (c % Bucket) + 1)
       /\ u.idx = u.lo_base + ((c \div Bucket) % Bucket)

LEMMA LocateShape ==
  ASSUME NEW spec, NEW m, NEW c, Shaped(m), spec.nibble \in BOOLEAN
  PROVE  Located(spec, m, c, Locate(spec, m, c))
<1> DEFINE u == Locate(spec, m, c)
<1>1. PICK t, ch, cx, x, p, h, l, r :
        m = [table |-> t, chk |-> ch, ctx |-> cx, idx |-> x, last_p |-> p,
             hi_base |-> h, lo_base |-> l, lo_ready |-> r]
  BY DEF Shaped
<1>2. CASE ~spec.nibble
  <2>1. Locate(spec, m, c) = [m EXCEPT !.idx = Mix(m.ctx, c) % spec.slots]
    BY <1>2 DEF Locate
  <2>2. PICK y : y = Mix(m.ctx, c) % spec.slots
    OBVIOUS
  <2>3. Locate(spec, m, c) = [table |-> t, chk |-> ch, ctx |-> cx, idx |-> y, last_p |-> p,
                              hi_base |-> h, lo_base |-> l, lo_ready |-> r]
    BY <1>1, <2>1, <2>2
  <2>5. Shaped(Locate(spec, m, c))
    BY <2>3 DEF Shaped
  <2> HIDE DEF u
  <2>6. u = Locate(spec, m, c)
    BY DEF u
  <2> QED
    BY <1>1, <1>2, <2>2, <2>3, <2>5, <2>6 DEF Located
<1>3. CASE spec.nibble /\ c < Bucket
  <2>1. Locate(spec, m, c) = [m EXCEPT !.idx = m.hi_base + c]
    BY <1>3 DEF Locate
  <2>2. PICK y : y = m.hi_base + c
    OBVIOUS
  <2>3. Locate(spec, m, c) = [table |-> t, chk |-> ch, ctx |-> cx, idx |-> y, last_p |-> p,
                              hi_base |-> h, lo_base |-> l, lo_ready |-> r]
    BY <1>1, <2>1, <2>2
  <2>5. Shaped(Locate(spec, m, c))
    BY <2>3 DEF Shaped
  <2> HIDE DEF u
  <2>6. u = Locate(spec, m, c)
    BY DEF u
  <2> QED
    BY <1>1, <1>3, <2>2, <2>3, <2>5, <2>6 DEF Located
<1>4. CASE spec.nibble /\ ~(c < Bucket)
  <2>1. PICK lo : lo = IF m.lo_ready THEN m.lo_base
                       ELSE NibbleBase(spec, m.ctx, (c % Bucket) + 1)
    OBVIOUS
  <2>2. PICK y : y = lo + ((c \div Bucket) % Bucket)
    OBVIOUS
  <2>3. Locate(spec, m, c) = [m EXCEPT !.lo_base = lo, !.lo_ready = TRUE, !.idx = y]
    BY <1>4, <2>1, <2>2 DEF Locate
  <2>4. Locate(spec, m, c) = [table |-> t, chk |-> ch, ctx |-> cx, idx |-> y, last_p |-> p,
                              hi_base |-> h, lo_base |-> lo, lo_ready |-> TRUE]
    BY <1>1, <2>3
  <2>5. Shaped(Locate(spec, m, c))
    BY <2>4 DEF Shaped
  <2> HIDE DEF u
  <2>6. u = Locate(spec, m, c)
    BY DEF u
  <2> QED
    BY <1>1, <1>4, <2>1, <2>2, <2>4, <2>5, <2>6 DEF Located
<1> QED
  BY <1>2, <1>3, <1>4

\* predict() of one expert: what it says, and what it leaves as it is.
Predicted(spec, m, c, seed, u, v) ==
  /\ Shaped(v)
  /\ v.ctx = m.ctx /\ v.idx = u.idx /\ v.hi_base = m.hi_base
  /\ v.lo_base = u.lo_base /\ v.lo_ready = u.lo_ready
  /\ v.last_p = IF ~Cold(spec, u, c) THEN m.table[u.idx]
                ELSE IF seed = 0 THEN 1 ELSE seed
  /\ v.chk = [m.chk EXCEPT ![u.idx] = IF Rejects(spec, u, c)
                                      THEN Checksum(spec, u, c) ELSE @]

LEMMA PredictShape ==
  ASSUME NEW spec, NEW m, NEW c, NEW seed, Shaped(m), spec.nibble \in BOOLEAN
  PROVE  Predicted(spec, m, c, seed, Locate(spec, m, c), PredictContext(spec, m, c, seed))
<1>1. PICK u : u = Locate(spec, m, c)
  OBVIOUS
<1>2. u.table = m.table /\ u.chk = m.chk /\ u.ctx = m.ctx /\ u.hi_base = m.hi_base /\ Shaped(u)
  <2>1. Located(spec, m, c, Locate(spec, m, c))
    BY LocateShape
  <2>2. Located(spec, m, c, u)
    BY <1>1, <2>1
  <2> QED
    BY <2>2 DEF Located
<1>3. PICK t, ch, cx, x, p, h, l, r :
        u = [table |-> t, chk |-> ch, ctx |-> cx, idx |-> x, last_p |-> p,
             hi_base |-> h, lo_base |-> l, lo_ready |-> r]
  BY <1>2 DEF Shaped
<1>4. PICK says : says = IF ~Cold(spec, u, c) THEN u.table[u.idx]
                         ELSE IF seed = 0 THEN 1 ELSE seed
  OBVIOUS
<1>5. PICK mark : mark = IF Rejects(spec, u, c) THEN Checksum(spec, u, c) ELSE u.chk[u.idx]
  OBVIOUS
<1>6. PredictContext(spec, m, c, seed) =
        [u EXCEPT !.table[u.idx] = says, !.last_p = says, !.chk[u.idx] = mark]
  BY <1>1, <1>4, <1>5 DEF PredictContext
<1>7. PICK a, b : a = [t EXCEPT ![x] = says] /\ b = [ch EXCEPT ![x] = mark]
  OBVIOUS
<1>8. PredictContext(spec, m, c, seed) =
        [table |-> a, chk |-> b, ctx |-> cx, idx |-> x, last_p |-> says,
         hi_base |-> h, lo_base |-> l, lo_ready |-> r]
  <2>1. u.table = t /\ u.chk = ch /\ u.idx = x
    BY <1>3
  <2>2. PredictContext(spec, m, c, seed) =
          [u EXCEPT !.table = a, !.last_p = says, !.chk = b]
    BY <1>6, <1>7, <2>1
  <2> QED
    BY <1>3, <2>2
<1>9. PICK v : v = PredictContext(spec, m, c, seed)
  OBVIOUS
<1>10. Shaped(v)
  BY <1>8, <1>9 DEF Shaped
<1>11. /\ v.ctx = u.ctx /\ v.idx = u.idx /\ v.hi_base = u.hi_base /\ v.lo_base = u.lo_base
       /\ v.lo_ready = u.lo_ready /\ v.last_p = says
       /\ v.chk = [u.chk EXCEPT ![u.idx] = mark]
  BY <1>3, <1>7, <1>8, <1>9
<1> QED
  BY <1>1, <1>2, <1>4, <1>5, <1>9, <1>10, <1>11 DEF Predicted

\* update() of one expert leaves all but its table as it is.
LEMMA UpdateShape ==
  ASSUME NEW spec, NEW m, NEW bit, Shaped(m)
  PROVE  LET v == UpdateContext(spec, m, bit)
         IN  /\ Shaped(v)
             /\ v.chk = m.chk /\ v.ctx = m.ctx /\ v.idx = m.idx /\ v.hi_base = m.hi_base
             /\ v.lo_base = m.lo_base /\ v.lo_ready = m.lo_ready
<1>1. PICK t, ch, cx, x, p, h, l, r :
        m = [table |-> t, chk |-> ch, ctx |-> cx, idx |-> x, last_p |-> p,
             hi_base |-> h, lo_base |-> l, lo_ready |-> r]
  BY DEF Shaped
<1>2. PICK new : UpdateContext(spec, m, bit) = [m EXCEPT !.table[m.idx] = new]
  BY DEF UpdateContext
<1>3. PICK a : a = [t EXCEPT ![x] = new]
  OBVIOUS
<1>4. PICK v : v = UpdateContext(spec, m, bit)
  OBVIOUS
<1>5. v = [table |-> a, chk |-> ch, ctx |-> cx, idx |-> x, last_p |-> p,
           hi_base |-> h, lo_base |-> l, lo_ready |-> r]
  <2>1. m.table = t /\ m.idx = x
    BY <1>1
  <2>2. v = [m EXCEPT !.table = a]
    BY <1>2, <1>3, <1>4, <2>1
  <2> QED
    BY <1>1, <2>2
<1>6. Shaped(v)
  BY <1>5 DEF Shaped
<1> QED
  BY <1>1, <1>4, <1>5, <1>6

\* What set_context() makes of m.
Reset(spec, m, c, v) ==
  /\ Shaped(v) /\ v.chk = m.chk /\ v.ctx = c
  /\ spec.nibble => v.hi_base = NibbleBase(spec, c, 0) /\ v.lo_ready = FALSE

LEMMA SetShape ==
  ASSUME NEW spec, NEW m, NEW c, Shaped(m), spec.nibble \in BOOLEAN
  PROVE  Reset(spec, m, c, SetContext(spec, m, c))
<1>1. PICK t, ch, cx, x, p, h, l, r :
        m = [table |-> t, chk |-> ch, ctx |-> cx, idx |-> x, last_p |-> p,
             hi_base |-> h, lo_base |-> l, lo_ready |-> r]
  BY DEF Shaped
<1>2. PICK v : v = SetContext(spec, m, c)
  OBVIOUS
<1>3. CASE spec.nibble
  <2>1. PICK b : b = NibbleBase(spec, c, 0)
    OBVIOUS
  <2>2. v = [m EXCEPT !.ctx = c, !.hi_base = b, !.lo_ready = FALSE]
    BY <1>2, <1>3, <2>1 DEF SetContext
  <2>3. v = [table |-> t, chk |-> ch, ctx |-> c, idx |-> x, last_p |-> p,
             hi_base |-> b, lo_base |-> l, lo_ready |-> FALSE]
    BY <1>1, <2>2
  <2>4. Shaped(v)
    BY <2>3 DEF Shaped
  <2> QED
    BY <1>1, <1>2, <1>3, <2>1, <2>3, <2>4 DEF Reset
<1>4. CASE ~spec.nibble
  <2>1. v = [m EXCEPT !.ctx = c]
    BY <1>2, <1>4 DEF SetContext
  <2>2. v = [table |-> t, chk |-> ch, ctx |-> c, idx |-> x, last_p |-> p,
             hi_base |-> h, lo_base |-> l, lo_ready |-> r]
    BY <1>1, <2>1
  <2>3. Shaped(v)
    BY <2>2 DEF Shaped
  <2> QED
    BY <1>1, <1>2, <1>4, <2>2, <2>3 DEF Reset
<1> QED
  BY <1>3, <1>4

-----------------------------------------------------------------------------
(* Least numbers, and what holds up to n.                                  *)

LEMMA LeastNumber ==
  ASSUME NEW B, B \subseteq Nat, B # {}
  PROVE  \E n \in B : \A k \in B : n <= k
<1>1. PICK R : R = OpToRel(<, Nat)
  OBVIOUS
<1>2. IsWellFoundedOn(R, Nat)
  BY <1>1, NatLessThanWellFounded
<1>3. PICK n \in B : \A k \in B : <<k, n>> \notin R
  BY <1>2, WFMin
<1>4. \A k \in B : ~(k < n)
  <2> TAKE k \in B
  <2>1. <<k, n>> \notin {p \in Nat \X Nat : p[1] < p[2]}
    BY <1>1, <1>3 DEF OpToRel
  <2>2. <<k, n>> \in Nat \X Nat
    OBVIOUS
  <2>3. ~(<<k, n>>[1] < <<k, n>>[2])
    BY <2>1, <2>2
  <2> QED
    BY <2>3
<1> QED
  BY <1>4

LEMMA UpTo ==
  ASSUME NEW n \in Nat, NEW S, 0 \in S, \A k \in Nat : k < n /\ k \in S => k + 1 \in S
  PROVE  \A k \in 0 .. n : k \in S
<1> DEFINE Bad == {k \in Nat : k <= n /\ k \notin S}
<1> SUFFICES ASSUME Bad # {} PROVE FALSE
  OBVIOUS
<1>1. PICK k \in Bad : \A j \in Bad : k <= j
  <2>1. Bad \subseteq Nat
    OBVIOUS
  <2> HIDE DEF Bad
  <2> QED
    BY <2>1, LeastNumber
<1>2. k \in Nat /\ k <= n /\ k \notin S /\ k # 0
  BY <1>1
<1>3. PICK j \in Nat : k = j + 1
  <2>1. k - 1 \in Nat /\ k = (k - 1) + 1
    BY <1>2
  <2> QED
    BY <2>1
<1>4. j < n /\ j <= n /\ ~(k <= j)
  BY <1>2, <1>3
<1>5. j \in S
  BY <1>1, <1>4
<1> QED
  BY <1>2, <1>3, <1>4, <1>5

-----------------------------------------------------------------------------
(* The experts predict in turn.                                            *)

\* Where the seed of expert i comes from, and what it is when `said` is what
\* the experts before i have answered.
Seeder(i) == IF Inherit = "unrelated" THEN Unrelated(i) ELSE Parent(i)

Seed(said, ms, i) ==
  IF Inherit = "none" \/ Seeder(i) = 0 THEN HALF
  ELSE IF Seeder(i) < i THEN said[Seeder(i)].last_p ELSE ms[Seeder(i)].last_p

Answer(said, ms, c, i) == PredictContext(Experts[i], ms[i], c, Seed(said, ms, i))

LEMMA LatestIsBefore ==
  ASSUME NEW i \in 1 .. NE, NEW js, js \subseteq 1 .. i - 1
  PROVE  (IF js = {} THEN 0 ELSE CHOOSE j \in js : \A k \in js : k <= j) \in 0 .. i - 1
<1> DEFINE Below == {n \in Nat : \A j \in js : j <= n}
<1>1. NE \in Nat /\ i \in Nat
  BY ExpertsAssumption
<1>2. CASE js = {}
  BY <1>1, <1>2
<1>3. CASE js # {}
  <2>1. i - 1 \in Below /\ Below \subseteq Nat
    BY <1>1
  <2>2. PICK n \in Below : \A k \in Below : n <= k
    <3> HIDE DEF Below
    <3> QED
      BY <2>1, LeastNumber
  <2>3. n \in js
    <3> SUFFICES ASSUME n \notin js PROVE FALSE
      OBVIOUS
    <3>1. \A j \in js : j <= n /\ j # n /\ j >= 1
      BY <1>1
    <3>2. n \in Nat /\ n >= 1 /\ js \subseteq Nat
      <4>1. PICK k \in js : k <= n /\ k >= 1
        BY <1>3, <3>1
      <4>2. js \subseteq Nat
        BY <1>1
      <4> QED
        BY <4>1, <4>2
    <3>3. \A j \in js : j <= n - 1
      BY <3>1, <3>2
    <3>4. n - 1 \in Below
      BY <3>2, <3>3
    <3> QED
      BY <2>2, <3>2, <3>4
  <2>4. \E j \in js : \A k \in js : k <= j
    BY <2>2, <2>3
  <2>5. PICK k : k = CHOOSE j \in js : \A h \in js : h <= j
    OBVIOUS
  <2>6. k \in js
    BY <2>4, <2>5
  <2>7. k \in 0 .. i - 1
    BY <1>1, <2>6
  <2> QED
    BY <1>3, <2>5, <2>7
<1> QED
  BY <1>2, <1>3

LEMMA ParentIsBefore ==
  ASSUME NEW i \in 1 .. NE
  PROVE  Parent(i) \in 0 .. i - 1
<1>1. /\ LatestBefore(i, IsOrder) \in 0 .. i - 1
      /\ LatestBefore(i, IsOrderOne) \in 0 .. i - 1
      /\ LatestBefore(i, IsOrderNil) \in 0 .. i - 1
  BY LatestIsBefore DEF LatestBefore
<1>2. 0 \in 0 .. i - 1
  BY ExpertsAssumption
<1> QED
  BY <1>1, <1>2 DEF Parent, LowestOrder

\* Every expert answers, from what those before it have said.
LEMMA AllAnswer ==
  ASSUME NEW ms, NEW c
  PROVE  \E said : /\ PredictAll(ms, c) = said /\ DOMAIN said = 1 .. NE
                  /\ \A i \in 1 .. NE : said[i] = Answer(said, ms, c, i)
<1> DEFINE Says(f, k) == f = [i \in 1 .. k |-> Answer(f, ms, c, i)]
<1> DEFINE S == {k \in Nat : k <= NE => \E f : Says(f, k)}
<1>1. NE \in Nat
  BY ExpertsAssumption
<1>2. 0 \in S
  <2>1. Says(<<>>, 0)
    OBVIOUS
  <2> QED
    BY <2>1
<1>3. ASSUME NEW k \in Nat, k < NE, k \in S PROVE k + 1 \in S
  <2>1. PICK f : Says(f, k)
    BY <1>1, <1>3
  <2>2. PICK g : g = [i \in 1 .. k + 1 |-> IF i = k + 1 THEN Answer(f, ms, c, i) ELSE f[i]]
    OBVIOUS
  <2>3. ASSUME NEW i \in 1 .. k + 1 PROVE g[i] = Answer(g, ms, c, i)
    <3>1. Seeder(i) < i /\ Seeder(i) # 0 => Seeder(i) \in 1 .. k
      <4>1. i \in 1 .. NE
        BY <1>1, <1>3
      <4>2. Parent(i) \in 0 .. i - 1
        BY <4>1, ParentIsBefore
      <4>3. Unrelated(i) \in 1 .. NE
        <5>1. PICK base \in Int : base = IF Parent(i) = 0 THEN i ELSE Parent(i)
          BY <4>1, <4>2
        <5>2. Unrelated(i) = ((base + NE \div 2) % NE) + 1
          BY <5>1 DEF Unrelated
        <5>3. NE > 0 /\ base + NE \div 2 \in Int
          BY <1>1, <4>1
        <5> QED
          BY <1>1, <5>2, <5>3
      <4> QED
        BY <4>1, <4>2, <4>3 DEF Seeder
    <3>2. Seeder(i) < i /\ Seeder(i) # 0 => g[Seeder(i)] = f[Seeder(i)]
      BY <2>2, <3>1
    <3>3. Answer(g, ms, c, i) = Answer(f, ms, c, i)
      BY <3>2 DEF Answer, Seed
    <3>4. g[i] = Answer(f, ms, c, i)
      BY <2>1, <2>2
    <3> QED
      BY <3>3, <3>4
  <2>4. Says(g, k + 1)
    BY <2>2, <2>3
  <2> QED
    BY <1>3, <2>4
<1>4. \E f : Says(f, NE)
  <2>1. \A k \in 0 .. NE : k \in S
    <3> HIDE DEF S
    <3> QED
      BY <1>1, <1>2, <1>3, UpTo
  <2>2. NE \in S
    BY <1>1, <2>1
  <2> HIDE DEF Says
  <2> QED
    BY <1>1, <2>2
<1>5. PredictAll(ms, c) = CHOOSE f : Says(f, NE)
  BY DEF PredictAll, Answer, Seed, Seeder
<1>6. PICK said : said = PredictAll(ms, c)
  OBVIOUS
<1>7. Says(said, NE)
  <2> HIDE DEF Says
  <2> QED
    BY <1>4, <1>5, <1>6
<1>8. DOMAIN said = 1 .. NE /\ \A i \in 1 .. NE : said[i] = Answer(said, ms, c, i)
  BY <1>7
<1> QED
  BY <1>6, <1>8
-----------------------------------------------------------------------------
(* Seeds, and who has trained a slot.                                      *)

\* A slot under collision control carries the checksum of all that trained it.
Marked(spec, m, who) ==
  /\ DOMAIN m.chk = 0 .. spec.slots - 1 /\ DOMAIN who = 0 .. spec.slots - 1
  /\ spec.verify = 1 /\ ~spec.nibble =>
       \A s \in 0 .. spec.slots - 1 : \A g \in who[s] :
         (Mix(g.ctx, g.c0) \div spec.slots) % ChkSize = m.chk[s]

ExpertsInv ==
  /\ DOMAIN models = 1 .. NE /\ DOMAIN owners = 1 .. NE
  /\ \A i \in 1 .. NE : Shaped(models[i]) /\ Marked(Experts[i], models[i], owners[i])

LEMMA ExpertsInit == Init => ExpertsInv
<1> SUFFICES ASSUME Init, NEW i \in 1 .. NE
             PROVE  Shaped(models[i]) /\ Marked(Experts[i], models[i], owners[i])
  BY DEF Init, ExpertsInv, ModelsAfter
<1>1. PICK c, m : /\ m = NewContextModel(Experts[i])
                  /\ models[i] = SetContext(Experts[i], m, c)
  BY DEF Init, ModelsAfter
<1>2. Shaped(m) /\ m.chk = [s \in 0 .. Experts[i].slots - 1 |-> 0]
  BY <1>1 DEF NewContextModel, Shaped
<1>3. Shaped(models[i]) /\ models[i].chk = m.chk
  <2>1. PICK v : v = SetContext(Experts[i], m, c)
    OBVIOUS
  <2>2. Experts[i].nibble \in BOOLEAN
    BY ExpertsAssumption
  <2>3. Shaped(v) /\ v.chk = m.chk
    <3>1. Reset(Experts[i], m, c, SetContext(Experts[i], m, c))
      BY <1>2, <2>2, SetShape
    <3> QED
      BY <2>1, <3>1 DEF Reset
  <2> QED
    BY <1>1, <2>1, <2>3
<1>4. owners[i] = [s \in 0 .. Experts[i].slots - 1 |-> {}]
  BY DEF Init
<1> QED
  BY <1>2, <1>3, <1>4 DEF Marked

\* predict(), expert by expert.
LEMMA ExpertPredicts ==
  ASSUME ExpertsInv, Predict
  PROVE  /\ DOMAIN models' = 1 .. NE
         /\ \A i \in 1 .. NE :
              Predicted(Experts[i], models[i], c0, Seed(models', models, i),
                        Locate(Experts[i], models[i], c0), models'[i])
<1>1. models' = PredictAll(models, c0)
  BY DEF Predict
<1>2. PICK said : /\ PredictAll(models, c0) = said /\ DOMAIN said = 1 .. NE
                  /\ \A i \in 1 .. NE : said[i] = Answer(said, models, c0, i)
  BY AllAnswer
<1>3. models' = said
  BY <1>1, <1>2
<1>4. ASSUME NEW i \in 1 .. NE
      PROVE  Predicted(Experts[i], models[i], c0, Seed(said, models, i),
                       Locate(Experts[i], models[i], c0), said[i])
  <2>1. said[i] = PredictContext(Experts[i], models[i], c0, Seed(said, models, i))
    BY <1>2 DEF Answer
  <2>2. Shaped(models[i]) /\ Experts[i].nibble \in BOOLEAN
    BY ExpertsAssumption DEF ExpertsInv
  <2> QED
    BY <2>1, <2>2, PredictShape
<1> QED
  BY <1>2, <1>3, <1>4

LEMMA MarkedPredict ==
  ASSUME ExpertsInv, Predict, NEW i \in 1 .. NE
  PROVE  Shaped(models'[i]) /\ Marked(Experts[i], models'[i], owners'[i])
<1>1. PICK spec, m, u, v, who, new, seed :
        /\ spec = Experts[i] /\ m = models[i] /\ u = Locate(spec, m, c0) /\ v = models'[i]
        /\ who = owners[i] /\ new = owners'[i] /\ seed = Seed(models', models, i)
  OBVIOUS
<1>2. Predicted(spec, m, c0, seed, u, v)
  BY <1>1, ExpertPredicts
<1>3. Shaped(m) /\ Marked(spec, m, who) /\ spec.nibble \in BOOLEAN
  BY <1>1, ExpertsAssumption DEF ExpertsInv
<1>4. Located(spec, m, c0, u)
  BY <1>1, <1>3, LocateShape
<1>5. u.chk = m.chk /\ u.ctx = m.ctx /\ (~spec.nibble => u.idx = Mix(m.ctx, c0) % spec.slots)
  BY <1>4 DEF Located
<1>6. new = [who EXCEPT ![u.idx] = (IF Cold(spec, u, c0) THEN {} ELSE @)
                                     \cup {[ctx |-> u.ctx, c0 |-> c0]}]
  BY <1>1 DEF Predict
<1>7. Shaped(v) /\ v.chk = [m.chk EXCEPT ![u.idx] = IF Rejects(spec, u, c0)
                                                  THEN Checksum(spec, u, c0) ELSE @]
  BY <1>2 DEF Predicted
<1>8. /\ DOMAIN m.chk = 0 .. spec.slots - 1 /\ DOMAIN who = 0 .. spec.slots - 1
      /\ DOMAIN v.chk = 0 .. spec.slots - 1 /\ DOMAIN new = 0 .. spec.slots - 1
  BY <1>3, <1>6, <1>7 DEF Marked
<1>9. ASSUME spec.verify = 1, ~spec.nibble, NEW s \in 0 .. spec.slots - 1, NEW g \in new[s]
      PROVE  (Mix(g.ctx, g.c0) \div spec.slots) % ChkSize = v.chk[s]
  <2>1. \A h \in who[s] : (Mix(h.ctx, h.c0) \div spec.slots) % ChkSize = m.chk[s]
    BY <1>3, <1>9 DEF Marked
  <2>2. CASE s # u.idx
    BY <1>6, <1>7, <1>8, <1>9, <2>1, <2>2
  <2>3. CASE s = u.idx
    <3>1. Checksum(spec, u, c0) = (Mix(m.ctx, c0) \div spec.slots) % ChkSize
      BY <1>5, <1>9 DEF Checksum
    <3>2. v.chk[s] = Checksum(spec, u, c0)
      <4>1. PICK want : want = Checksum(spec, u, c0)
        OBVIOUS
      <4>2. v.chk[s] = IF Rejects(spec, u, c0) THEN want ELSE m.chk[s]
        BY <1>7, <1>8, <2>3, <4>1
      <4>3. ~Rejects(spec, u, c0) => m.chk[s] = want
        BY <1>5, <1>9, <2>3, <4>1 DEF Rejects
      <4> QED
        BY <4>1, <4>2, <4>3
    <3>3. g \in (IF Cold(spec, u, c0) THEN {} ELSE who[s]) \cup {[ctx |-> u.ctx, c0 |-> c0]}
      BY <1>6, <1>8, <1>9, <2>3
    <3>4. CASE g = [ctx |-> u.ctx, c0 |-> c0]
      <4>1. g.ctx = m.ctx /\ g.c0 = c0
        BY <1>5, <3>4
      <4> QED
        BY <3>1, <3>2, <4>1
    <3>5. CASE ~Cold(spec, u, c0) /\ g \in who[s]
      <4>1. u.chk[u.idx] = Checksum(spec, u, c0)
        BY <1>9, <3>5 DEF Cold, Rejects
      <4> QED
        BY <1>5, <2>1, <2>3, <3>2, <3>5, <4>1
    <3> QED
      BY <3>3, <3>4, <3>5
  <2> QED
    BY <2>2, <2>3
<1>10. Marked(spec, v, new)
  BY <1>8, <1>9 DEF Marked
<1> QED
  BY <1>1, <1>7, <1>10

LEMMA MarkedStep == ExpertsInv /\ [Next]_vars => ExpertsInv'
<1> SUFFICES ASSUME ExpertsInv, [Next]_vars PROVE ExpertsInv'
  OBVIOUS
<1>1. CASE Predict
  <2>1. DOMAIN models' = 1 .. NE /\ DOMAIN owners' = 1 .. NE
    BY <1>1, ExpertPredicts DEF Predict
  <2> QED
    BY <1>1, <2>1, MarkedPredict DEF ExpertsInv
<1>2. CASE UpdateBit \/ UpdateByte
  <2>1. PICK bit \in {0, 1} :
          \/ models' = Trained(bit)
          \/ models' = ModelsAfter(Trained(bit), indirect', Seen')
    BY <1>2 DEF UpdateBit, UpdateByte
  <2>2. DOMAIN models' = 1 .. NE /\ owners' = owners
    BY <1>2, <2>1 DEF UpdateBit, UpdateByte, Trained, ModelsAfter
  <2>3. ASSUME NEW i \in 1 .. NE
        PROVE  Shaped(models'[i]) /\ models'[i].chk = models[i].chk
    <3>1. Shaped(models[i]) /\ Experts[i].nibble \in BOOLEAN
      BY ExpertsAssumption DEF ExpertsInv
    <3>2. PICK u : u = UpdateContext(Experts[i], models[i], bit)
      OBVIOUS
    <3>3. Shaped(u) /\ u.chk = models[i].chk
      BY <3>1, <3>2, UpdateShape
    <3>4. models'[i] = u \/ \E c : models'[i] = SetContext(Experts[i], u, c)
      BY <2>1, <3>2 DEF Trained, ModelsAfter
    <3>5. ASSUME NEW c, models'[i] = SetContext(Experts[i], u, c)
          PROVE  Shaped(models'[i]) /\ models'[i].chk = u.chk
      <4>1. Reset(Experts[i], u, c, SetContext(Experts[i], u, c))
        BY <3>1, <3>3, SetShape
      <4> QED
        BY <3>5, <4>1 DEF Reset
    <3> QED
      BY <3>3, <3>4, <3>5
  <2>4. \A i \in 1 .. NE : Marked(Experts[i], models'[i], owners'[i])
    BY <2>2, <2>3 DEF ExpertsInv, Marked
  <2> QED
    BY <2>2, <2>3, <2>4 DEF ExpertsInv
<1>3. CASE UNCHANGED vars
  BY <1>3 DEF vars, ExpertsInv
<1> QED
  BY <1>1, <1>2, <1>3 DEF Next

\* Whatever expert, context, hash and input: all that has trained a slot under
\* collision control since it was last cold has the same checksum.
THEOREM HistoriesAreOwn == Spec => []NoForeignHistory
<1>1. ExpertsInv => NoForeignHistory
  <2> SUFFICES ASSUME ExpertsInv, NEW i \in 1 .. NE,
                      Experts[i].verify = 1, ~Experts[i].nibble,
                      NEW s \in 0 .. Experts[i].slots - 1,
                      NEW g \in owners[i][s], NEW h \in owners[i][s]
               PROVE  (Mix(g.ctx, g.c0) \div Experts[i].slots) % ChkSize
                        = (Mix(h.ctx, h.c0) \div Experts[i].slots) % ChkSize
    BY DEF NoForeignHistory
  <2>1. Marked(Experts[i], models[i], owners[i])
    BY DEF ExpertsInv
  <2> QED
    BY <2>1 DEF Marked
<1> QED
  BY <1>1, ExpertsInit, MarkedStep, PTL DEF Spec

\* Whatever roster, contexts and input: a slot that nobody has trained says
\* what its expert's parent says of the same bit.
THEOREM SeedsAreFresh == Spec => SeededByParent
<1> DEFINE Act ==
      \A i \in 1 .. NE :
        (Predict /\ Inherit = "inherit" /\ Parent(i) # 0
           /\ models[i].table[models'[i].idx] = 0)
        => models'[i].last_p = models'[Parent(i)].last_p
<1>1. ASSUME ExpertsInv, NEW i \in 1 .. NE, Predict, Inherit = "inherit", Parent(i) # 0,
             models[i].table[models'[i].idx] = 0
      PROVE  models'[i].last_p = models'[Parent(i)].last_p
  <2>1. PICK p \in 1 .. NE : p = Parent(i) /\ p < i
    <3>1. Parent(i) \in 1 .. NE /\ Parent(i) < i
      BY <1>1, ParentIsBefore, ExpertsAssumption
    <3> QED
      BY <3>1
  <2>2. Seed(models', models, i) = models'[p].last_p
    BY <1>1, <2>1 DEF Seed, Seeder
  <2>3. models'[p].last_p # 0
    <3>1. PICK u, v, seed : /\ u = Locate(Experts[p], models[p], c0)
                            /\ v = models'[p]
                            /\ Predicted(Experts[p], models[p], c0, seed, u, v)
      BY <1>1, ExpertPredicts
    <3>2. v.last_p = IF ~Cold(Experts[p], u, c0) THEN models[p].table[u.idx]
                     ELSE IF seed = 0 THEN 1 ELSE seed
      BY <3>1 DEF Predicted
    <3>3. u.table = models[p].table
      <4>1. Located(Experts[p], models[p], c0, u)
        BY <1>1, <3>1, LocateShape, ExpertsAssumption DEF ExpertsInv
      <4> QED
        BY <4>1 DEF Located
    <3> QED
      BY <3>1, <3>2, <3>3 DEF Cold
  <2>4. PICK u, v, seed : /\ u = Locate(Experts[i], models[i], c0)
                          /\ v = models'[i] /\ seed = Seed(models', models, i)
                          /\ Predicted(Experts[i], models[i], c0, seed, u, v)
    BY <1>1, ExpertPredicts
  <2>5. u.table = models[i].table
    <3>1. Located(Experts[i], models[i], c0, u)
      BY <1>1, <2>4, LocateShape, ExpertsAssumption DEF ExpertsInv
    <3> QED
      BY <3>1 DEF Located
  <2>6. Cold(Experts[i], u, c0)
    BY <1>1, <2>4, <2>5 DEF Predicted, Cold
  <2>7. v.last_p = IF seed = 0 THEN 1 ELSE seed
    BY <2>4, <2>6 DEF Predicted
  <2> QED
    BY <2>1, <2>2, <2>3, <2>4, <2>7
<1>2. ExpertsInv /\ [Next]_vars => [Act]_vars
  BY <1>1
<1> QED
  BY <1>2, ExpertsInit, MarkedStep, PTL DEF Spec, SeededByParent
-----------------------------------------------------------------------------
(* Powers of two and the prefix of a partial byte.                         *)

LEMMA PowersGrow ==
  ASSUME NEW a \in 0 .. 2 * D, NEW b \in 0 .. 2 * D + 1, a <= b
  PROVE  2 ^ a <= 2 ^ b
<1>1. D \in Nat /\ 2 * D \in Nat
  BY DAssumption
<1>2. PICK pw : pw = [n \in 0 .. 2 * D + 1 |-> 2 ^ n]
  OBVIOUS
<1>3. \A n \in 0 .. 2 * D : pw[n] \in Nat /\ pw[n + 1] = 2 * pw[n]
  <2> SUFFICES ASSUME NEW n \in 0 .. 2 * D PROVE pw[n] \in Nat /\ pw[n + 1] = 2 * pw[n]
    OBVIOUS
  <2>1. n \in 0 .. 2 * D + 1 /\ n + 1 \in 0 .. 2 * D + 1
    BY <1>1
  <2> QED
    BY <1>2, <2>1, PowerAssumption
<1> DEFINE S == {n \in Nat : a <= n => pw[n] \in Nat /\ pw[a] <= pw[n]}
<1>4. 0 \in S
  <2>1. a <= 0 => a = 0
    BY <1>1
  <2> QED
    BY <1>1, <1>3, <2>1
<1>5. ASSUME NEW n \in Nat, n < 2 * D + 1, n \in S PROVE n + 1 \in S
  <2>1. n \in 0 .. 2 * D /\ pw[n + 1] = 2 * pw[n] /\ pw[n] \in Nat
    BY <1>1, <1>3, <1>5
  <2>2. CASE a <= n
    BY <1>3, <1>5, <2>1, <2>2
  <2>3. CASE a = n + 1
    BY <1>3, <2>1, <2>3
  <2>4. a <= n + 1 => a <= n \/ a = n + 1
    BY <1>1
  <2> QED
    BY <2>2, <2>3, <2>4
<1>6. b \in S
  <2>1. 2 * D + 1 \in Nat
    BY <1>1
  <2> HIDE DEF S
  <2> QED
    BY <1>4, <1>5, <2>1, UpTo
<1>7. pw[a] = 2 ^ a /\ pw[b] = 2 ^ b
  BY <1>1, <1>2
<1> QED
  BY <1>6, <1>7

\* The length of a partial byte.
LEMMA LengthOf ==
  ASSUME NEW c \in Nat, c >= 1, c < 2 ^ (2 * D)
  PROVE  \E n \in 0 .. 2 * D - 1 :
           /\ 2 ^ n <= c /\ c < 2 ^ (n + 1)
           /\ \A k \in 0 .. 2 * D : 2 ^ k <= c /\ c < 2 ^ (k + 1) => k = n
<1>1. D \in Nat \ {0}
  BY DAssumption
<1> DEFINE Over == {n \in Nat : n <= 2 * D /\ c < 2 ^ n}
<1>2. 2 * D \in Over /\ Over \subseteq Nat
  BY <1>1
<1>3. PICK k \in Over : \A j \in Over : k <= j
  <2> HIDE DEF Over
  <2> QED
    BY <1>2, LeastNumber
<1>4. k # 0 /\ k \in Nat /\ k <= 2 * D /\ c < 2 ^ k
  <2>1. k \in Nat /\ k <= 2 * D /\ c < 2 ^ k
    BY <1>3
  <2>2. ASSUME k = 0 PROVE FALSE
    <3>1. c < 2 ^ 0 /\ 2 ^ 0 = 1
      BY <2>1, <2>2
    <3> QED
      BY <3>1
  <2> QED
    BY <2>1, <2>2
<1>5. PICK n \in 0 .. 2 * D - 1 : k = n + 1
  <2>1. k - 1 \in 0 .. 2 * D - 1 /\ k = (k - 1) + 1
    BY <1>1, <1>4
  <2> QED
    BY <2>1
<1>6. n \in 0 .. 2 * D /\ n \in Nat /\ ~(k <= n)
  BY <1>1, <1>5
<1>7. 2 ^ n <= c
  <2>1. n \notin Over
    BY <1>3, <1>6
  <2>2. 2 ^ n \in Nat /\ n <= 2 * D
    BY <1>1, <1>6, PowerAssumption
  <2> QED
    BY <1>6, <2>1, <2>2
<1>8. ASSUME NEW h \in 0 .. 2 * D, 2 ^ h <= c, c < 2 ^ (h + 1) PROVE h = n
  <2>1. 2 ^ h \in Nat /\ 2 ^ n \in Nat /\ 2 ^ (h + 1) \in Nat /\ 2 ^ (n + 1) \in Nat
    BY <1>6, PowerAssumption
  <2>2. ~(h < n)
    <3> SUFFICES ASSUME h < n PROVE FALSE
      OBVIOUS
    <3>1. h + 1 \in 0 .. 2 * D /\ n \in 0 .. 2 * D + 1 /\ h + 1 <= n
      BY <1>1, <1>6
    <3>2. 2 ^ (h + 1) <= 2 ^ n
      BY <3>1, PowersGrow
    <3> QED
      BY <1>7, <1>8, <2>1, <3>2
  <2>3. ~(n < h)
    <3> SUFFICES ASSUME n < h PROVE FALSE
      OBVIOUS
    <3>1. n + 1 \in 0 .. 2 * D /\ h \in 0 .. 2 * D + 1 /\ n + 1 <= h
      BY <1>1, <1>5
    <3>2. 2 ^ (n + 1) <= 2 ^ h
      BY <3>1, PowersGrow
    <3> QED
      BY <1>4, <1>5, <1>8, <2>1, <3>2
  <2> QED
    BY <1>1, <1>6, <2>2, <2>3
<1> QED
  BY <1>4, <1>5, <1>7, <1>8

PrefixAt(c, n) == IF n < D THEN 0 ELSE ((c \div 2 ^ (n - D)) % Bucket) + 1

LEMMA PrefixOf ==
  ASSUME NEW c \in Nat, c >= 1, c < 2 ^ (2 * D)
  PROVE  \E n \in 0 .. 2 * D - 1 : /\ 2 ^ n <= c /\ c < 2 ^ (n + 1)
                                  /\ NibblePrefix(c) = PrefixAt(c, n)
<1>1. PICK n \in 0 .. 2 * D - 1 :
        /\ 2 ^ n <= c /\ c < 2 ^ (n + 1)
        /\ \A k \in 0 .. 2 * D : 2 ^ k <= c /\ c < 2 ^ (k + 1) => k = n
  BY LengthOf
<1>2. n \in 0 .. 2 * D
  BY <1>1, DAssumption
<1>3. n = CHOOSE k \in 0 .. 2 * D : 2 ^ k <= c /\ c < 2 ^ (k + 1)
  BY <1>1, <1>2
<1> QED
  BY <1>1, <1>3 DEF NibblePrefix, PrefixAt

LEMMA BucketFacts == Bucket \in Nat /\ Bucket >= 2 /\ 2 * Bucket <= 2 ^ (2 * D) /\ 1 < 2 ^ (2 * D)
<1>1. D \in Nat /\ D >= 1 /\ D \in 0 .. 2 * D /\ D + 1 \in 0 .. 2 * D /\ 2 * D \in 0 .. 2 * D + 1
      /\ 1 \in 0 .. 2 * D /\ 0 \in 0 .. 2 * D
  BY DAssumption
<1>2. 2 ^ D \in Nat /\ 2 ^ (D + 1) = 2 * 2 ^ D /\ 2 ^ (2 * D) \in Nat
  BY <1>1, PowerAssumption
<1>3. 2 ^ (D + 1) <= 2 ^ (2 * D)
  <2>1. D + 1 <= 2 * D
    BY <1>1
  <2> QED
    BY <1>1, <2>1, PowersGrow
<1>4. 2 ^ 1 <= 2 ^ D
  <2>1. 1 <= D /\ D \in 0 .. 2 * D + 1
    BY <1>1
  <2> QED
    BY <1>1, <2>1, PowersGrow
<1>5. 2 ^ 1 = 2
  OBVIOUS
<1> QED
  BY <1>2, <1>3, <1>4, <1>5 DEF Bucket

\* In the high half of a byte there is no prefix yet.
LEMMA PrefixHigh ==
  ASSUME NEW c \in Nat, c >= 1, c < Bucket
  PROVE  NibblePrefix(c) = 0
<1>1. c < 2 ^ (2 * D) /\ D \in Nat /\ D >= 1
  BY BucketFacts, DAssumption
<1>2. PICK n \in 0 .. 2 * D - 1 : 2 ^ n <= c /\ NibblePrefix(c) = PrefixAt(c, n)
  BY <1>1, PrefixOf
<1>3. n < D
  <2> SUFFICES ASSUME D <= n PROVE FALSE
    BY <1>1
  <2>1. D \in 0 .. 2 * D /\ n \in 0 .. 2 * D + 1 /\ n \in 0 .. 2 * D
    BY <1>1
  <2>2. 2 ^ D <= 2 ^ n /\ 2 ^ n \in Nat
    BY <2>1, PowersGrow, PowerAssumption
  <2> QED
    BY <1>2, <2>2, BucketFacts DEF Bucket
<1> QED
  BY <1>2, <1>3 DEF PrefixAt

\* When the low half begins, the prefix is what is known of the byte.
LEMMA PrefixFirst ==
  ASSUME NEW c \in Nat, Bucket <= c, c < 2 * Bucket
  PROVE  NibblePrefix(c) = (c % Bucket) + 1
<1>1. c >= 1 /\ c < 2 ^ (2 * D) /\ D \in Nat /\ D >= 1
  <2>1. 2 ^ (2 * D) \in Nat
    BY PowerAssumption, DAssumption
  <2> QED
    BY <2>1, BucketFacts, DAssumption
<1>2. PICK n \in 0 .. 2 * D - 1 : /\ 2 ^ n <= c /\ c < 2 ^ (n + 1)
                                 /\ \A k \in 0 .. 2 * D : 2 ^ k <= c /\ c < 2 ^ (k + 1) => k = n
  BY <1>1, LengthOf
<1>3. 2 ^ D = Bucket /\ 2 ^ (D + 1) = 2 * Bucket /\ D \in 0 .. 2 * D
  BY <1>1, PowerAssumption DEF Bucket
<1>4. n = D
  BY <1>2, <1>3
<1>5. NibblePrefix(c) = PrefixAt(c, n)
  <2>1. PICK k \in 0 .. 2 * D - 1 : /\ 2 ^ k <= c /\ c < 2 ^ (k + 1)
                                    /\ NibblePrefix(c) = PrefixAt(c, k)
    BY <1>1, PrefixOf
  <2>2. k \in 0 .. 2 * D
    BY <1>1
  <2> QED
    BY <1>2, <2>1, <2>2
<1>6. PICK z : z = n - D
  OBVIOUS
<1>7. z = 0 /\ ~(n < D)
  BY <1>1, <1>4, <1>6
<1>8. NibblePrefix(c) = ((c \div 2 ^ z) % Bucket) + 1
  BY <1>5, <1>6, <1>7 DEF PrefixAt
<1>9. 2 ^ z = 1 /\ c \div 1 = c
  <2>1. 2 ^ 0 = 1
    OBVIOUS
  <2> QED
    BY <1>7, <2>1
<1> QED
  BY <1>8, <1>9

\* Within the low half the prefix stays.
LEMMA Halves ==
  ASSUME NEW c \in Nat, NEW q \in Nat \ {0}, NEW bit \in {0, 1}
  PROVE  (2 * c + bit) \div (2 * q) = c \div q
<1>1. PICK b \in Nat : b = 2 * c + bit
  OBVIOUS
<1>2. PICK w \in Nat \ {0} : w = 2 * q
  OBVIOUS
<1>3. PICK d \in Int : d = c \div q
  OBVIOUS
<1>4. PICK e \in Int : e = b \div w
  OBVIOUS
<1>5. q * d <= c /\ c < q * d + q
  BY <1>3
<1>6. w * e <= b /\ b < w * e + w
  BY <1>4
<1>7. PICK f \in Int : f = q * e
  OBVIOUS
<1>8. PICK g \in Int : g = q * d
  OBVIOUS
<1>9. w * e = 2 * f
  BY <1>2, <1>7
<1>10. f <= c /\ c < f + q /\ g <= c /\ c < g + q
  BY <1>1, <1>2, <1>5, <1>6, <1>8, <1>9
<1>11. ~(d < e)
  <2> SUFFICES ASSUME d < e PROVE FALSE
    OBVIOUS
  <2>1. q * (d + 1) <= q * e
    OBVIOUS
  <2>2. q * (d + 1) = q * d + q
    OBVIOUS
  <2> QED
    BY <1>7, <1>8, <1>10, <2>1, <2>2
<1>12. ~(e < d)
  <2> SUFFICES ASSUME e < d PROVE FALSE
    OBVIOUS
  <2>1. q * (e + 1) <= q * d
    OBVIOUS
  <2>2. q * (e + 1) = q * e + q
    OBVIOUS
  <2> QED
    BY <1>7, <1>8, <1>10, <2>1, <2>2
<1>13. d = e
  BY <1>11, <1>12
<1> QED
  BY <1>1, <1>2, <1>3, <1>4, <1>13

LEMMA PrefixStays ==
  ASSUME NEW c \in Nat, Bucket <= c, NEW bit \in {0, 1}, 2 * c + bit < 2 ^ (2 * D)
  PROVE  NibblePrefix(2 * c + bit) = NibblePrefix(c)
<1>1. D \in Nat /\ D >= 1 /\ 2 ^ (2 * D) \in Nat
  BY DAssumption, PowerAssumption
<1>2. PICK b \in Nat : b = 2 * c + bit
  OBVIOUS
<1>3. c >= 1 /\ c < 2 ^ (2 * D) /\ b >= 1 /\ b < 2 ^ (2 * D)
  BY <1>1, <1>2, BucketFacts
<1>4. PICK n \in 0 .. 2 * D - 1 : /\ 2 ^ n <= c /\ c < 2 ^ (n + 1)
                                 /\ NibblePrefix(c) = PrefixAt(c, n)
  BY <1>3, PrefixOf
<1>5. PICK k \in 0 .. 2 * D - 1 : /\ 2 ^ k <= b /\ b < 2 ^ (k + 1)
                                 /\ NibblePrefix(b) = PrefixAt(b, k)
                                 /\ \A j \in 0 .. 2 * D : 2 ^ j <= b /\ b < 2 ^ (j + 1) => j = k
  <2>1. PICK k \in 0 .. 2 * D - 1 :
          /\ 2 ^ k <= b /\ b < 2 ^ (k + 1)
          /\ \A j \in 0 .. 2 * D : 2 ^ j <= b /\ b < 2 ^ (j + 1) => j = k
    BY <1>3, LengthOf
  <2>2. PICK h \in 0 .. 2 * D - 1 : /\ 2 ^ h <= b /\ b < 2 ^ (h + 1)
                                    /\ NibblePrefix(b) = PrefixAt(b, h)
    BY <1>3, PrefixOf
  <2>3. h \in 0 .. 2 * D
    BY <1>1
  <2> QED
    BY <2>1, <2>2, <2>3
<1>6. k = n + 1
  <2>1. PICK j : j = n + 1
    OBVIOUS
  <2>2. n \in 0 .. 2 * D /\ j \in 0 .. 2 * D
    BY <1>1, <2>1
  <2>3. /\ 2 ^ n \in Nat /\ 2 ^ (n + 1) = 2 * 2 ^ n
        /\ 2 ^ j \in Nat /\ 2 ^ (j + 1) = 2 * 2 ^ j
    BY <2>2, PowerAssumption
  <2>4. 2 ^ j <= b /\ b < 2 ^ (j + 1)
    BY <1>2, <1>4, <2>1, <2>3
  <2> QED
    BY <1>5, <2>1, <2>2, <2>4
<1>7. D <= n
  <2> SUFFICES ASSUME n < D PROVE FALSE
    BY <1>1
  <2>1. n + 1 \in 0 .. 2 * D /\ D \in 0 .. 2 * D + 1 /\ n + 1 <= D /\ n \in 0 .. 2 * D
    BY <1>1
  <2>2. 2 ^ (n + 1) <= 2 ^ D
    BY <2>1, PowersGrow
  <2>3. 2 ^ (n + 1) \in Nat /\ 2 ^ D \in Nat
    BY <1>1, <2>1, PowerAssumption
  <2> QED
    BY <1>4, <2>2, <2>3 DEF Bucket
<1>8. PICK z \in 0 .. 2 * D - 1 : z = n - D /\ z + 1 = k - D
  <2>1. n - D \in 0 .. 2 * D - 1 /\ (n - D) + 1 = k - D
    BY <1>1, <1>6, <1>7
  <2> QED
    BY <2>1
<1>9. 2 ^ z \in Nat \ {0} /\ 2 ^ (z + 1) = 2 * 2 ^ z
  BY <1>1, PowerAssumption
<1>10. NibblePrefix(c) = ((c \div 2 ^ z) % Bucket) + 1
  BY <1>1, <1>4, <1>7, <1>8 DEF PrefixAt
<1>11. NibblePrefix(b) = ((b \div 2 ^ (z + 1)) % Bucket) + 1
  <2>1. ~(k < D)
    BY <1>1, <1>6, <1>7
  <2> QED
    BY <1>5, <1>8, <2>1 DEF PrefixAt
<1>12. b \div 2 ^ (z + 1) = c \div 2 ^ z
  BY <1>2, <1>9, Halves
<1> QED
  BY <1>2, <1>10, <1>11, <1>12
-----------------------------------------------------------------------------
(* The buckets.                                                            *)

ContextOf(i) ==
  IF Experts[i].kind = "indirect" THEN IndirectContext(Experts[i], indirect[i])
  ELSE DirectContext(Experts[i], Seen)

\* The buckets m has are those its context and the partial byte c call for;
\* once a slot is selected (sel) it lies in the one that c belongs to.
Fits(spec, m, ctx, c, sel) ==
  /\ m.ctx = ctx /\ m.hi_base = NibbleBase(spec, ctx, 0) /\ m.lo_ready \in BOOLEAN
  /\ m.lo_ready => Bucket <= c /\ m.lo_base = NibbleBase(spec, ctx, NibblePrefix(c))
  /\ ~m.lo_ready => c < 2 * Bucket
  /\ sel => /\ Bucket <= c => m.lo_ready
            /\ m.idx = IF c < Bucket THEN m.hi_base + c
                       ELSE m.lo_base + ((c \div Bucket) % Bucket)

BucketsInv ==
  /\ c0 \in Nat /\ 1 <= c0 /\ c0 < 2 ^ (2 * D)
  /\ \A i \in 1 .. NE :
       Experts[i].nibble =>
         Fits(Experts[i], models[i], ContextOf(i), c0, stage = "update")

\* set_context(): the buckets of the byte before are gone.
LEMMA FitsReset ==
  ASSUME NEW spec, NEW m, NEW ctx, Shaped(m), spec.nibble, spec.nibble \in BOOLEAN
  PROVE  Fits(spec, SetContext(spec, m, ctx), ctx, 1, FALSE)
<1>1. PICK v : v = SetContext(spec, m, ctx)
  OBVIOUS
<1>2. v.ctx = ctx /\ v.hi_base = NibbleBase(spec, ctx, 0) /\ v.lo_ready = FALSE
  <2>1. Reset(spec, m, ctx, SetContext(spec, m, ctx))
    BY SetShape
  <2> QED
    BY <1>1, <2>1 DEF Reset
<1>3. 1 < 2 * Bucket
  BY BucketFacts
<1>4. Fits(spec, v, ctx, 1, FALSE)
  BY <1>2, <1>3 DEF Fits
<1> QED
  BY <1>1, <1>4

\* predict(): the slot is selected in the bucket of the partial byte.
LEMMA FitsPredict ==
  ASSUME NEW spec, NEW m, NEW ctx, NEW c \in Nat, NEW seed, NEW u, NEW v, NEW sel,
         spec.nibble, Fits(spec, m, ctx, c, sel),
         Located(spec, m, c, u), Predicted(spec, m, c, seed, u, v)
  PROVE  Fits(spec, v, ctx, c, TRUE)
<1>1. /\ m.ctx = ctx /\ m.hi_base = NibbleBase(spec, ctx, 0) /\ m.lo_ready \in BOOLEAN
      /\ m.lo_ready => Bucket <= c /\ m.lo_base = NibbleBase(spec, ctx, NibblePrefix(c))
      /\ ~m.lo_ready => c < 2 * Bucket
  BY DEF Fits
<1>2. /\ v.ctx = m.ctx /\ v.idx = u.idx /\ v.hi_base = m.hi_base
      /\ v.lo_base = u.lo_base /\ v.lo_ready = u.lo_ready
  BY DEF Predicted
<1>3. CASE c < Bucket
  <2>1. u.idx = m.hi_base + c /\ u.lo_base = m.lo_base /\ u.lo_ready = m.lo_ready
    BY <1>3 DEF Located
  <2>2. ~(Bucket <= c) /\ c < 2 * Bucket
    BY <1>3, BucketFacts
  <2> QED
    BY <1>1, <1>2, <1>3, <2>1, <2>2 DEF Fits
<1>4. CASE ~(c < Bucket)
  <2>1. /\ u.lo_ready = TRUE
        /\ u.lo_base = IF m.lo_ready THEN m.lo_base
                       ELSE NibbleBase(spec, m.ctx, (c % Bucket) + 1)
        /\ u.idx = u.lo_base + ((c \div Bucket) % Bucket)
    BY <1>4 DEF Located
  <2>2. Bucket <= c
    BY <1>4, BucketFacts
  <2>3. u.lo_base = NibbleBase(spec, ctx, NibblePrefix(c))
    <3>1. CASE m.lo_ready
      BY <1>1, <2>1, <3>1
    <3>2. CASE ~m.lo_ready
      <4>1. NibblePrefix(c) = (c % Bucket) + 1
        BY <1>1, <2>2, <3>2, PrefixFirst
      <4> QED
        BY <1>1, <2>1, <3>2, <4>1
    <3> QED
      BY <3>1, <3>2
  <2> QED
    BY <1>1, <1>2, <1>4, <2>1, <2>2, <2>3 DEF Fits
<1> QED
  BY <1>3, <1>4

\* update() inside a byte: the buckets serve the next bit too.
LEMMA FitsBit ==
  ASSUME NEW spec, NEW m, NEW ctx, NEW c \in Nat, NEW bit \in {0, 1},
         Shaped(m), Fits(spec, m, ctx, c, TRUE), 2 * c + bit < 2 ^ (2 * D)
  PROVE  Fits(spec, UpdateContext(spec, m, bit), ctx, 2 * c + bit, FALSE)
<1>1. PICK v : v = UpdateContext(spec, m, bit)
  OBVIOUS
<1>2. /\ v.ctx = m.ctx /\ v.idx = m.idx /\ v.hi_base = m.hi_base
      /\ v.lo_base = m.lo_base /\ v.lo_ready = m.lo_ready
  BY <1>1, UpdateShape
<1>3. /\ m.ctx = ctx /\ m.hi_base = NibbleBase(spec, ctx, 0) /\ m.lo_ready \in BOOLEAN
      /\ m.lo_ready => Bucket <= c /\ m.lo_base = NibbleBase(spec, ctx, NibblePrefix(c))
      /\ Bucket <= c => m.lo_ready
  BY DEF Fits
<1>4. PICK b \in Nat : b = 2 * c + bit
  OBVIOUS
<1>5. ASSUME m.lo_ready
      PROVE  Bucket <= b /\ m.lo_base = NibbleBase(spec, ctx, NibblePrefix(b))
  <2>1. Bucket <= c
    BY <1>3, <1>5
  <2>2. NibblePrefix(b) = NibblePrefix(c)
    BY <1>4, <2>1, PrefixStays
  <2>3. Bucket <= b
    BY <1>4, <2>1, BucketFacts
  <2> QED
    BY <1>3, <1>5, <2>2, <2>3
<1>6. ASSUME ~m.lo_ready PROVE b < 2 * Bucket
  BY <1>3, <1>4, <1>6, BucketFacts
<1>7. Fits(spec, v, ctx, b, FALSE)
  BY <1>2, <1>3, <1>5, <1>6 DEF Fits
<1> QED
  BY <1>1, <1>4, <1>7

LEMMA BucketsInit == Init => BucketsInv
<1> SUFFICES ASSUME Init PROVE BucketsInv
  OBVIOUS
<1>1. c0 = 1 /\ c0 \in Nat /\ 1 <= c0 /\ c0 < 2 ^ (2 * D) /\ (stage = "update") = FALSE
  BY BucketFacts DEF Init
<1>2. ASSUME NEW i \in 1 .. NE, Experts[i].nibble
      PROVE  Fits(Experts[i], models[i], ContextOf(i), 1, FALSE)
  <2>1. PICK m : m = NewContextModel(Experts[i])
    OBVIOUS
  <2>2. models[i] = SetContext(Experts[i], m, ContextOf(i))
    BY <2>1 DEF Init, ModelsAfter, ContextOf
  <2>3. Shaped(m) /\ Experts[i].nibble \in BOOLEAN
    BY <2>1, ExpertsAssumption DEF NewContextModel, Shaped
  <2> QED
    BY <1>2, <2>2, <2>3, FitsReset
<1> QED
  BY <1>1, <1>2 DEF BucketsInv

LEMMA BucketsStep == ExpertsInv /\ BucketsInv /\ [Next]_vars => BucketsInv'
<1> SUFFICES ASSUME ExpertsInv, BucketsInv, [Next]_vars PROVE BucketsInv'
  OBVIOUS
<1>1. \A i \in 1 .. NE : Shaped(models[i]) /\ Experts[i].nibble \in BOOLEAN
  BY ExpertsAssumption DEF ExpertsInv
<1>2. /\ c0 \in Nat /\ 1 <= c0 /\ c0 < 2 ^ (2 * D)
      /\ \A i \in 1 .. NE :
           Experts[i].nibble =>
             Fits(Experts[i], models[i], ContextOf(i), c0, stage = "update")
  BY DEF BucketsInv
<1>3. ASSUME UNCHANGED <<buf, indirect, tiers, word, line>>, NEW i
      PROVE  ContextOf(i)' = ContextOf(i)
  BY <1>3 DEF ContextOf, Seen
<1>4. CASE Predict
  <2>1. c0' = c0 /\ (stage' = "update") = TRUE
    BY <1>4 DEF Predict
  <2>2. ASSUME NEW i \in 1 .. NE, Experts[i].nibble
        PROVE  Fits(Experts[i], models'[i], ContextOf(i)', c0, TRUE)
    <3>1. ContextOf(i)' = ContextOf(i)
      BY <1>3, <1>4 DEF Predict
    <3>2. Located(Experts[i], models[i], c0, Locate(Experts[i], models[i], c0))
      BY <1>1, LocateShape
    <3>3. Predicted(Experts[i], models[i], c0, Seed(models', models, i),
                    Locate(Experts[i], models[i], c0), models'[i])
      BY <1>4, ExpertPredicts
    <3>4. Fits(Experts[i], models[i], ContextOf(i), c0, stage = "update")
      BY <1>2, <2>2
    <3>5. PICK spec, m, ctx, sel, seed, u, v :
            /\ spec = Experts[i] /\ m = models[i] /\ ctx = ContextOf(i)
            /\ sel = (stage = "update") /\ seed = Seed(models', models, i)
            /\ u = Locate(Experts[i], models[i], c0) /\ v = models'[i]
      OBVIOUS
    <3>6. /\ spec.nibble /\ Fits(spec, m, ctx, c0, sel)
          /\ Located(spec, m, c0, u) /\ Predicted(spec, m, c0, seed, u, v)
      BY <2>2, <3>2, <3>3, <3>4, <3>5
    <3>7. Fits(spec, v, ctx, c0, TRUE)
      BY <1>2, <3>6, FitsPredict
    <3> QED
      BY <3>1, <3>5, <3>7
  <2> QED
    BY <1>2, <2>1, <2>2 DEF BucketsInv
<1>5. CASE UpdateBit
  <2>1. PICK bit \in {0, 1}, b \in Alphabet :
          /\ stage = "update" /\ PartialByte(2 * c0 + bit, b) /\ c0' = 2 * c0 + bit
          /\ models' = Trained(bit) /\ stage' = "predict"
          /\ UNCHANGED <<buf, indirect, tiers, word, line>>
    BY <1>5 DEF UpdateBit
  <2>2. PICK c \in Nat : c = 2 * c0 + bit
    BY <1>2
  <2>3. c < 2 ^ (2 * D) /\ 1 <= c
    <3>1. PICK n \in 1 .. 2 * D : c * 2 ^ n <= 2 ^ (2 * D) + b
      BY <2>1, <2>2 DEF PartialByte
    <3>2. D \in Nat /\ 2 * D \in Nat
      BY DAssumption
    <3>3. PICK w \in Nat : w = 2 ^ (2 * D)
      BY <3>2, PowerAssumption
    <3>4. b \in Nat /\ b < w
      BY <3>3, AlphabetAssumption DEF Byte
    <3>5. PICK p \in Nat : p = 2 ^ n /\ p >= 2
      <4>1. n \in 0 .. 2 * D + 1 /\ 1 \in 0 .. 2 * D /\ 1 <= n /\ n \in 0 .. 2 * D
        BY <3>1, <3>2
      <4>2. 2 ^ 1 <= 2 ^ n /\ 2 ^ n \in Nat
        BY <4>1, PowersGrow, PowerAssumption
      <4>3. 2 ^ 1 = 2
        OBVIOUS
      <4> QED
        BY <4>2, <4>3
    <3>6. c * p <= w + b
      BY <3>1, <3>3, <3>5
    <3>7. 2 * c <= c * p
      <4>1. PICK q \in Nat : p = 2 + q
        <5>1. p - 2 \in Nat /\ p = 2 + (p - 2)
          BY <3>5
        <5> QED
          BY <5>1
      <4>2. c * p = 2 * c + c * q /\ c * q \in Nat
        BY <4>1
      <4> QED
        BY <4>2
    <3>8. c * p \in Nat
      OBVIOUS
    <3> QED
      BY <1>2, <2>2, <3>3, <3>4, <3>6, <3>7, <3>8
  <2>4. ASSUME NEW i \in 1 .. NE, Experts[i].nibble
        PROVE  Fits(Experts[i], models'[i], ContextOf(i)', c, FALSE)
    <3>1. ContextOf(i)' = ContextOf(i)
      BY <1>3, <2>1
    <3>2. models'[i] = UpdateContext(Experts[i], models[i], bit)
      BY <2>1 DEF Trained
    <3>3. Fits(Experts[i], models[i], ContextOf(i), c0, TRUE)
      <4>1. (stage = "update") = TRUE
        BY <2>1
      <4> QED
        BY <1>2, <2>4, <4>1
    <3>4. Fits(Experts[i], UpdateContext(Experts[i], models[i], bit), ContextOf(i),
               2 * c0 + bit, FALSE)
      <4>1. 2 * c0 + bit < 2 ^ (2 * D)
        BY <2>2, <2>3
      <4> QED
        BY <1>1, <1>2, <3>3, <4>1, FitsBit
    <3> QED
      BY <2>2, <3>1, <3>2, <3>4
  <2>5. c0' = c /\ (stage' = "update") = FALSE
    BY <2>1, <2>2
  <2> QED
    BY <2>2, <2>3, <2>4, <2>5 DEF BucketsInv
<1>6. CASE UpdateByte
  <2>1. PICK bit \in {0, 1} :
          /\ c0' = 1 /\ stage' = "predict"
          /\ models' = ModelsAfter(Trained(bit), indirect', Seen')
    BY <1>6 DEF UpdateByte
  <2>2. ASSUME NEW i \in 1 .. NE, Experts[i].nibble
        PROVE  Fits(Experts[i], models'[i], ContextOf(i)', 1, FALSE)
    <3>1. PICK m : m = UpdateContext(Experts[i], models[i], bit)
      OBVIOUS
    <3>2. models'[i] = SetContext(Experts[i], m, ContextOf(i)')
      BY <2>1, <3>1 DEF ModelsAfter, Trained, ContextOf
    <3>3. Shaped(m)
      BY <1>1, <3>1, UpdateShape
    <3>4. Fits(Experts[i], SetContext(Experts[i], m, ContextOf(i)'), ContextOf(i)', 1, FALSE)
      BY <1>1, <2>2, <3>3, FitsReset
    <3> QED
      BY <3>2, <3>4
  <2>3. c0' \in Nat /\ 1 <= c0' /\ c0' < 2 ^ (2 * D) /\ (stage' = "update") = FALSE
    BY <2>1, BucketFacts
  <2> QED
    BY <2>1, <2>2, <2>3 DEF BucketsInv
<1>7. CASE UNCHANGED vars
  <2>1. c0' = c0 /\ stage' = stage /\ models' = models
        /\ UNCHANGED <<buf, indirect, tiers, word, line>>
    BY <1>7 DEF vars
  <2>2. \A i : ContextOf(i)' = ContextOf(i)
    BY <1>3, <2>1
  <2> QED
    BY <1>2, <2>1, <2>2 DEF BucketsInv
<1> QED
  BY <1>4, <1>5, <1>6, <1>7 DEF Next

\* Whatever roster, contexts and input, and every Mix that returns a number,
\* as the code's does of any two words: the slot a nibble expert reads and
\* trains lies in the bucket that its context and this byte's own high half
\* call for.
THEOREM BucketsAreFresh ==
  ASSUME \A ctx, k : Mix(ctx, k) \in Nat
  PROVE  Spec => []FreshBucket
<1>1. ASSUME BucketsInv PROVE FreshBucket
  <2> SUFFICES ASSUME stage = "update", NEW i \in 1 .. NE, Experts[i].nibble,
                      NEW base, base = NibbleBase(Experts[i], ContextOf(i), NibblePrefix(c0))
               PROVE  models[i].idx \in base .. base + Bucket - 1
    BY DEF FreshBucket, ContextOf
  <2>1. PICK spec, m, ctx : spec = Experts[i] /\ m = models[i] /\ ctx = ContextOf(i)
    OBVIOUS
  <2>2. c0 \in Nat /\ 1 <= c0 /\ c0 < 2 ^ (2 * D) /\ Fits(spec, m, ctx, c0, stage = "update")
    BY <1>1, <2>1 DEF BucketsInv
  <2>3. base \in Int
    <3>1. PICK s \in Int : s = Mix(ctx, NibblePrefix(c0)) % spec.slots
      <4>1. spec.slots \in Nat \ {0}
        BY <2>1, ExpertsAssumption
      <4>2. PICK w \in Nat : w = Mix(ctx, NibblePrefix(c0))
        OBVIOUS
      <4> QED
        BY <4>1, <4>2
    <3>2. base = s - (s % Bucket)
      BY <2>1, <3>1 DEF NibbleBase
    <3> QED
      BY <3>1, <3>2, BucketFacts
  <2>4. CASE c0 < Bucket
    <3>1. m.hi_base = NibbleBase(spec, ctx, 0) /\ m.idx = m.hi_base + c0
      BY <2>2, <2>4 DEF Fits
    <3>2. NibblePrefix(c0) = 0
      BY <2>2, <2>4, PrefixHigh
    <3> QED
      BY <2>1, <2>2, <2>3, <2>4, <3>1, <3>2, BucketFacts
  <2>5. CASE ~(c0 < Bucket)
    <3>1. Bucket <= c0
      BY <2>2, <2>5, BucketFacts
    <3>2. /\ m.lo_base = NibbleBase(spec, ctx, NibblePrefix(c0))
          /\ m.idx = m.lo_base + ((c0 \div Bucket) % Bucket)
      BY <2>2, <2>5, <3>1 DEF Fits
    <3>3. PICK r \in 0 .. Bucket - 1 : r = (c0 \div Bucket) % Bucket
      <4>1. PICK q \in Int : q = c0 \div Bucket
        BY <2>2, BucketFacts
      <4>2. q % Bucket \in 0 .. Bucket - 1
        BY <4>1, BucketFacts
      <4> QED
        BY <4>1, <4>2
    <3> QED
      BY <2>1, <2>3, <3>2, <3>3, BucketFacts
  <2> QED
    BY <2>4, <2>5
<1>2. ExpertsInv /\ BucketsInv => FreshBucket
  BY <1>1
<1> QED
  BY <1>2, ExpertsInit, MarkedStep, BucketsInit, BucketsStep, PTL DEF Spec
-----------------------------------------------------------------------------
(* The places of a slot, in order.                                         *)

LEMMA PlacesFinite ==
  ASSUME NEW f, NEW s, NEW n \in Nat
  PROVE  IsFiniteSet(Places(f, s, n)) /\ Cardinality(Places(f, s, n)) \in Nat
<1>1. IsFiniteSet(0 .. n - 1)
  BY FS_Interval
<1>2. IsFiniteSet(Places(f, s, n))
  BY <1>1, FS_Subset DEF Places
<1> QED
  BY <1>2, FS_CardinalityType

LEMMA PlacesGrow ==
  ASSUME NEW f, NEW s, NEW n \in Nat
  PROVE  Cardinality(Places(f, s, n + 1)) =
           IF f[n] = s THEN Cardinality(Places(f, s, n)) + 1 ELSE Cardinality(Places(f, s, n))
<1>1. CASE f[n] = s
  <2>1. Places(f, s, n + 1) = Places(f, s, n) \cup {n} /\ n \notin Places(f, s, n)
    BY <1>1 DEF Places
  <2> QED
    BY <1>1, <2>1, PlacesFinite, FS_AddElement
<1>2. CASE f[n] # s
  <2>1. Places(f, s, n + 1) = Places(f, s, n)
    BY <1>2 DEF Places
  <2> QED
    BY <1>2, <2>1
<1> QED
  BY <1>1, <1>2

\* Up to a later place there are more.
LEMMA PlacesDiffer ==
  ASSUME NEW f, NEW s, NEW p \in Nat, NEW q \in Nat, f[q] = s, p < q
  PROVE  Cardinality(Places(f, s, p + 1)) < Cardinality(Places(f, s, q + 1))
<1>1. PICK a \in Nat, b \in Nat, c \in Nat :
        /\ a = Cardinality(Places(f, s, p + 1)) /\ b = Cardinality(Places(f, s, q))
        /\ c = Cardinality(Places(f, s, q + 1))
  BY PlacesFinite
<1>2. c = b + 1
  BY <1>1, PlacesGrow
<1>3. Places(f, s, p + 1) \subseteq Places(f, s, q)
  BY DEF Places
<1>4. a <= b
  BY <1>1, <1>3, PlacesFinite, FS_Subset
<1> QED
  BY <1>1, <1>2, <1>4

LEMMA NthExists ==
  ASSUME NEW f, NEW s, NEW n \in Nat, NEW j \in 1 .. Cardinality(Places(f, s, n))
  PROVE  \E p \in Places(f, s, n) : Cardinality(Places(f, s, p + 1)) = j
<1> DEFINE S == {m \in Nat : \A k \in 1 .. Cardinality(Places(f, s, m)) :
                               \E p \in Places(f, s, m) : Cardinality(Places(f, s, p + 1)) = k}
<1>1. 0 \in S
  <2>1. Places(f, s, 0) = {}
    BY DEF Places
  <2>2. Cardinality(Places(f, s, 0)) = 0
    BY <2>1, FS_EmptySet
  <2> QED
    BY <2>2
<1>2. ASSUME NEW m \in Nat, m \in S PROVE m + 1 \in S
  <2>1. ASSUME NEW k \in 1 .. Cardinality(Places(f, s, m + 1))
        PROVE  \E p \in Places(f, s, m + 1) : Cardinality(Places(f, s, p + 1)) = k
    <3>1. CASE k \in 1 .. Cardinality(Places(f, s, m))
      <4>1. PICK p \in Places(f, s, m) : Cardinality(Places(f, s, p + 1)) = k
        BY <1>2, <3>1
      <4>2. p \in Places(f, s, m + 1)
        BY <1>2, <4>1 DEF Places
      <4> QED
        BY <4>1, <4>2
    <3>2. CASE k \notin 1 .. Cardinality(Places(f, s, m))
      <4>1. f[m] = s /\ k = Cardinality(Places(f, s, m + 1))
        <5>1. PICK a \in Nat : a = Cardinality(Places(f, s, m))
          BY PlacesFinite
        <5>2. PICK b : b = Cardinality(Places(f, s, m + 1))
          OBVIOUS
        <5>3. b = IF f[m] = s THEN a + 1 ELSE a
          BY <5>1, <5>2, PlacesGrow
        <5>4. k \in 1 .. b /\ k \notin 1 .. a
          BY <2>1, <3>2, <5>1, <5>2
        <5> QED
          BY <5>1, <5>2, <5>3, <5>4
      <4>2. m \in Places(f, s, m + 1)
        BY <1>2, <4>1 DEF Places
      <4> QED
        BY <4>1, <4>2
    <3> QED
      BY <3>1, <3>2
  <2> QED
    BY <1>2, <2>1
<1>3. n \in S
  <2> HIDE DEF S
  <2>1. \A k \in 0 .. n : k \in S
    BY <1>1, <1>2, UpTo
  <2> QED
    BY <2>1
<1> QED
  BY <1>3

\* The j-th place is the only one up to which there are j.
LEMMA NthIs ==
  ASSUME NEW f, NEW s, NEW n \in Nat, NEW p \in Places(f, s, n),
         NEW j, j = Cardinality(Places(f, s, p + 1))
  PROVE  Nth(f, s, n, j) = p
<1>1. PICK q : q = Nth(f, s, n, j)
  OBVIOUS
<1>2. q \in Places(f, s, n) /\ Cardinality(Places(f, s, q + 1)) = j
  BY <1>1 DEF Nth
<1>3. p \in Nat /\ q \in Nat /\ f[p] = s /\ f[q] = s
  BY <1>2 DEF Places
<1>4. j \in Nat
  BY <1>3, PlacesFinite
<1>5. ~(p < q) /\ ~(q < p)
  BY <1>2, <1>3, <1>4, PlacesDiffer
<1> QED
  BY <1>1, <1>3, <1>5

\* A place keeps its number when more follow, whatever they are, and a new
\* one is the last.
OneMore(f, g, s, n, m) ==
  /\ Cardinality(Places(g, s, n + 1)) = IF g[n] = s THEN m + 1 ELSE m
  /\ \A j \in 1 .. m : /\ Nth(f, s, n, j) \in 0 .. n - 1
                       /\ Nth(g, s, n + 1, j) = Nth(f, s, n, j)
  /\ g[n] = s => Nth(g, s, n + 1, m + 1) = n

LEMMA NthGrows ==
  ASSUME NEW f, NEW g, NEW s, NEW n \in Nat, \A p \in 0 .. n - 1 : g[p] = f[p],
         NEW m, m = Cardinality(Places(f, s, n))
  PROVE  OneMore(f, g, s, n, m)
<1>1. \A k \in 0 .. n : Places(g, s, k) = Places(f, s, k)
  BY DEF Places
<1>2. Cardinality(Places(g, s, n + 1)) = IF g[n] = s THEN m + 1 ELSE m
  BY <1>1, PlacesGrow
<1>3. ASSUME NEW j \in 1 .. m
      PROVE  Nth(f, s, n, j) \in 0 .. n - 1 /\ Nth(g, s, n + 1, j) = Nth(f, s, n, j)
  <2>1. PICK p \in Places(f, s, n) : Cardinality(Places(f, s, p + 1)) = j
    BY <1>3, NthExists
  <2>2. p \in 0 .. n - 1 /\ f[p] = s
    BY <2>1 DEF Places
  <2>3. p + 1 \in 0 .. n
    BY <2>2
  <2>4. p \in Places(g, s, n + 1) /\ Cardinality(Places(g, s, p + 1)) = j
    <3>1. p \in Places(g, s, n + 1)
      BY <2>2 DEF Places
    <3> QED
      BY <1>1, <2>1, <2>3, <3>1
  <2>5. Nth(f, s, n, j) = p
    BY <2>1, NthIs
  <2>6. Nth(g, s, n + 1, j) = p
    BY <2>4, NthIs
  <2> QED
    BY <2>2, <2>5, <2>6
<1>4. ASSUME g[n] = s PROVE Nth(g, s, n + 1, m + 1) = n
  <2>1. n \in Places(g, s, n + 1)
    BY <1>4 DEF Places
  <2>2. m + 1 = Cardinality(Places(g, s, n + 1))
    BY <1>2, <1>4
  <2> QED
    BY <2>1, <2>2, NthIs
<1> QED
  BY <1>2, <1>3, <1>4 DEF OneMore

-----------------------------------------------------------------------------
(* What an indirect expert has heard.                                      *)

\* The beginning of b is not changed by another byte.
LEMMA Beginning ==
  ASSUME NEW b \in Seq(Byte), NEW x \in Byte
  PROVE  /\ Append(b, x) \in Seq(Byte) /\ Len(Append(b, x)) = Len(b) + 1
         /\ Append(b, x)[Len(b) + 1] = x
         /\ \A k \in 1 .. Len(b) : Append(b, x)[k] = b[k]
         /\ \A p \in 0 .. Len(b) : SubSeq(Append(b, x), 1, p) = SubSeq(b, 1, p)
         /\ SubSeq(b, 1, Len(b)) = b
<1>1. PICK c : c = Append(b, x)
  OBVIOUS
<1>2. /\ c \in Seq(Byte) /\ Len(c) = Len(b) + 1 /\ c[Len(b) + 1] = x
      /\ \A k \in 1 .. Len(b) : c[k] = b[k]
  BY <1>1
<1>3. ASSUME NEW p \in 0 .. Len(b) PROVE SubSeq(c, 1, p) = SubSeq(b, 1, p)
  BY <1>2
<1>4. SubSeq(b, 1, Len(b)) = b
  OBVIOUS
<1> QED
  BY <1>1, <1>2, <1>3, <1>4

LEMMA SourceSlotsGrow ==
  ASSUME NEW e, NEW b \in Seq(Byte), NEW x \in Byte
  PROVE  /\ \A p \in 0 .. Len(b) : SourceSlots(e, Append(b, x))[p] = SourceSlots(e, b)[p]
         /\ SourceSlots(e, b)[Len(b)] = Key(e, Hash(Order(b, e.order)))
<1>1. PICK c : c = Append(b, x)
  OBVIOUS
<1>2. Len(c) = Len(b) + 1 /\ \A p \in 0 .. Len(b) : SubSeq(c, 1, p) = SubSeq(b, 1, p)
  BY <1>1, Beginning
<1>3. ASSUME NEW p \in 0 .. Len(b) PROVE SourceSlots(e, c)[p] = SourceSlots(e, b)[p]
  <2>1. p \in 0 .. Len(c) /\ SubSeq(c, 1, p) = SubSeq(b, 1, p)
    BY <1>2
  <2> QED
    BY <2>1 DEF SourceSlots
<1>4. SourceSlots(e, b)[Len(b)] = Key(e, Hash(Order(SubSeq(b, 1, Len(b)), e.order)))
  <2>1. Len(b) \in 0 .. Len(b)
    OBVIOUS
  <2> QED
    BY <2>1 DEF SourceSlots
<1>5. SubSeq(b, 1, Len(b)) = b
  BY Beginning
<1> QED
  BY <1>1, <1>3, <1>4, <1>5

\* What followed the slot s in the bytes b.
Followers(e, b, s) ==
  [j \in 1 .. Cardinality(Places(SourceSlots(e, b), s, Len(b))) |->
     b[1 + Nth(SourceSlots(e, b), s, Len(b), j)]]

LEMMA FollowersGrow ==
  ASSUME NEW e, NEW b \in Seq(Byte), NEW x \in Byte, NEW s
  PROVE  /\ Followers(e, b, s) \in Seq(Byte)
         /\ Followers(e, Append(b, x), s) =
              IF SourceSlots(e, b)[Len(b)] = s THEN Append(Followers(e, b, s), x)
              ELSE Followers(e, b, s)
<1>0. PICK n \in Nat : n = Len(b)
  OBVIOUS
<1>1. PICK f, g, c, m :
        /\ n = Len(b) /\ f = SourceSlots(e, b) /\ c = Append(b, x) /\ g = SourceSlots(e, c)
        /\ m = Cardinality(Places(f, s, n)) /\ m \in Nat
  BY <1>0, PlacesFinite
<1>2. /\ Len(c) = n + 1 /\ c[n + 1] = x /\ \A k \in 1 .. n : c[k] = b[k]
  BY <1>1, Beginning
<1>3. \A p \in 0 .. n : g[p] = f[p]
  BY <1>1, SourceSlotsGrow
<1>4. /\ Cardinality(Places(g, s, n + 1)) = IF g[n] = s THEN m + 1 ELSE m
      /\ \A j \in 1 .. m : Nth(f, s, n, j) \in 0 .. n - 1 /\ Nth(g, s, n + 1, j) = Nth(f, s, n, j)
      /\ g[n] = s => Nth(g, s, n + 1, m + 1) = n
  <2>1. \A p \in 0 .. n - 1 : g[p] = f[p]
    BY <1>3
  <2>2. OneMore(f, g, s, n, m)
    BY <1>1, <2>1, NthGrows
  <2> QED
    BY <2>2 DEF OneMore
<1>5. PICK t : t = [j \in 1 .. m |-> b[1 + Nth(f, s, n, j)]]
  OBVIOUS
<1>6. t = Followers(e, b, s)
  BY <1>1, <1>5 DEF Followers
<1>7. t \in Seq(Byte) /\ Len(t) = m
  <2>1. \A j \in 1 .. m : b[1 + Nth(f, s, n, j)] \in Byte
    <3> TAKE j \in 1 .. m
    <3>1. PICK p \in 0 .. n - 1 : p = Nth(f, s, n, j)
      BY <1>4
    <3>2. 1 + p \in 1 .. Len(b)
      BY <1>1
    <3> QED
      BY <3>1, <3>2
  <2>2. t \in [1 .. m -> Byte]
    BY <1>5, <2>1
  <2> QED
    BY <1>1, <2>2
<1>8. PICK r, k : /\ k = Cardinality(Places(g, s, n + 1))
                  /\ r = [j \in 1 .. k |-> c[1 + Nth(g, s, n + 1, j)]]
  OBVIOUS
<1>9. r = Followers(e, c, s)
  BY <1>1, <1>2, <1>8 DEF Followers
<1>10. \A j \in 1 .. m : c[1 + Nth(g, s, n + 1, j)] = t[j]
  <2> TAKE j \in 1 .. m
  <2>1. PICK p \in 0 .. n - 1 : p = Nth(f, s, n, j) /\ p = Nth(g, s, n + 1, j)
    BY <1>4
  <2>2. c[1 + p] = b[1 + p]
    BY <1>2
  <2> QED
    BY <1>5, <2>1, <2>2
<1>11. CASE f[n] = s
  <2>1. g[n] = s /\ k = m + 1
    BY <1>3, <1>4, <1>8, <1>11
  <2>2. c[1 + Nth(g, s, n + 1, m + 1)] = x
    BY <1>2, <1>4, <2>1
  <2>3. PICK u : u = Append(t, x)
    OBVIOUS
  <2>4. u \in Seq(Byte) /\ Len(u) = m + 1 /\ u[m + 1] = x /\ \A j \in 1 .. m : u[j] = t[j]
    BY <1>7, <2>3
  <2>5. \A j \in 1 .. m + 1 : r[j] = u[j]
    <3> TAKE j \in 1 .. m + 1
    <3>1. r[j] = c[1 + Nth(g, s, n + 1, j)]
      BY <1>8, <2>1
    <3>2. CASE j = m + 1
      <4>1. r[j] = x
        BY <2>2, <3>1, <3>2
      <4> QED
        BY <2>4, <3>2, <4>1
    <3>3. CASE j # m + 1
      <4>1. j \in 1 .. m
        BY <1>1, <3>3
      <4> QED
        BY <1>10, <2>4, <3>1, <4>1
    <3> QED
      BY <3>2, <3>3
  <2>6. r = u
    <3>1. r = [j \in 1 .. m + 1 |-> r[j]]
      BY <1>8, <2>1
    <3>2. u = [j \in 1 .. m + 1 |-> u[j]]
      BY <2>4
    <3> QED
      BY <2>5, <3>1, <3>2
  <2> QED
    BY <1>1, <1>6, <1>7, <1>9, <1>11, <2>3, <2>6
<1>12. CASE f[n] # s
  <2>1. k = m
    BY <1>3, <1>4, <1>8, <1>12
  <2>2. r = t
    <3>1. r = [j \in 1 .. m |-> c[1 + Nth(g, s, n + 1, j)]]
      BY <1>8, <2>1
    <3>2. t = [j \in 1 .. m |-> t[j]]
      BY <1>5
    <3> QED
      BY <1>10, <3>1, <3>2
  <2> QED
    BY <1>1, <1>6, <1>7, <1>9, <1>12, <2>2
<1> QED
  BY <1>11, <1>12

\* The last k elements of a sequence move up when one is appended.
LEMMA LastMoveUp ==
  ASSUME NEW h \in Seq(Nat), NEW x \in Nat, NEW k \in Nat \ {0}, k <= Len(h)
  PROVE  LastBytes(Append(h, x), k) = Followed(LastBytes(h, k), x)
<1>1. PICK n \in Nat : n = Len(h)
  OBVIOUS
<1>2. PICK c : c = Append(h, x)
  OBVIOUS
<1>3. c \in Seq(Nat) /\ Len(c) = n + 1 /\ c[n + 1] = x /\ \A j \in 1 .. n : c[j] = h[j]
  BY <1>1, <1>2
<1>4. PICK u, v : u = SubSeq(h, n - k + 1, n) /\ v = SubSeq(c, (n + 1) - k + 1, n + 1)
  OBVIOUS
<1>5. u \in Seq(Nat) /\ Len(u) = k /\ \A j \in 1 .. k : u[j] = h[n - k + j]
  BY <1>1, <1>4
<1>6. v \in Seq(Nat) /\ Len(v) = k /\ \A j \in 1 .. k : v[j] = c[n - k + 1 + j]
  <2>1. PICK from \in Nat, to \in Nat : from = (n + 1) - k + 1 /\ to = n + 1
    <3>1. (n + 1) - k + 1 \in Nat /\ n + 1 \in Nat
      BY <1>1
    <3> QED
      BY <3>1
  <2>2. from \in 1 .. to /\ to <= Len(c) /\ to - from + 1 = k /\ from - 1 = n - k + 1
    BY <1>1, <1>3, <2>1
  <2>3. v = SubSeq(c, from, to)
    BY <1>4, <2>1
  <2>4. v \in Seq(Nat) /\ Len(v) = k /\ \A j \in 1 .. k : v[j] = c[from - 1 + j]
    BY <1>3, <2>2, <2>3
  <2> QED
    BY <2>2, <2>4
<1>7. PICK t : t = Tail(u)
  OBVIOUS
<1>8. t \in Seq(Nat) /\ Len(t) = k - 1 /\ \A j \in 1 .. k - 1 : t[j] = u[j + 1]
  BY <1>5, <1>7
<1>9. PICK w : w = Append(t, x)
  OBVIOUS
<1>10. w \in Seq(Nat) /\ Len(w) = k /\ w[k] = x /\ \A j \in 1 .. k - 1 : w[j] = t[j]
  BY <1>8, <1>9
<1>11. \A j \in 1 .. k : v[j] = w[j]
  <2> TAKE j \in 1 .. k
  <2>1. CASE j = k
    BY <1>3, <1>6, <1>10, <2>1
  <2>2. CASE j # k
    <3>1. j \in 1 .. k - 1 /\ j + 1 \in 1 .. k /\ n - k + 1 + j \in 1 .. n
      BY <1>1, <2>2
    <3>2. w[j] = h[n - k + (j + 1)]
      BY <1>5, <1>8, <1>10, <3>1
    <3>3. v[j] = h[n - k + 1 + j]
      BY <1>3, <1>6, <3>1
    <3>4. n - k + (j + 1) = n - k + 1 + j
      BY <1>1
    <3> QED
      BY <3>2, <3>3, <3>4
  <2> QED
    BY <2>1, <2>2
<1>12. v = w
  BY <1>6, <1>10, <1>11
<1> QED
  BY <1>1, <1>2, <1>3, <1>4, <1>7, <1>9, <1>12 DEF LastBytes, Followed

LEMMA Concat ==
  ASSUME NEW z \in Seq(Nat), NEW u \in Seq(Nat)
  PROVE  /\ z \o u \in Seq(Nat) /\ Len(z \o u) = Len(z) + Len(u)
         /\ \A j \in 1 .. Len(z) : (z \o u)[j] = z[j]
         /\ \A j \in 1 .. Len(u) : (z \o u)[Len(z) + j] = u[j]
<1>1. PICK m \in Nat, n \in Nat : m = Len(z) /\ n = Len(u)
  OBVIOUS
<1>2. PICK h : h = z \o u
  OBVIOUS
<1>3. /\ h \in Seq(Nat) /\ Len(h) = m + n /\ \A j \in 1 .. m : h[j] = z[j]
      /\ \A j \in 1 .. n : h[m + j] = u[j]
  BY <1>1, <1>2
<1> QED
  BY <1>1, <1>2, <1>3

LEMMA AppendBehind ==
  ASSUME NEW z \in Seq(Nat), NEW u \in Seq(Nat), NEW x \in Nat
  PROVE  z \o Append(u, x) = Append(z \o u, x)
<1>1. PICK m \in Nat, n \in Nat : m = Len(z) /\ n = Len(u)
  OBVIOUS
<1>2. PICK w : w = Append(u, x)
  OBVIOUS
<1>3. w \in Seq(Nat) /\ Len(w) = n + 1 /\ w[n + 1] = x /\ \A j \in 1 .. n : w[j] = u[j]
  BY <1>1, <1>2
<1>4. PICK a : a = z \o w
  OBVIOUS
<1>5. /\ a \in Seq(Nat) /\ Len(a) = m + (n + 1) /\ \A j \in 1 .. m : a[j] = z[j]
      /\ \A j \in 1 .. n + 1 : a[m + j] = w[j]
  <2>1. PICK k \in Nat : k = n + 1
    OBVIOUS
  <2>2. w \in Seq(Nat) /\ Len(w) = k
    BY <1>3, <2>1
  <2>3. /\ a \in Seq(Nat) /\ Len(a) = m + k /\ \A j \in 1 .. m : a[j] = z[j]
        /\ \A j \in 1 .. k : a[m + j] = w[j]
    BY <1>1, <1>4, <2>2, Concat
  <2> QED
    BY <2>1, <2>3
<1>6. PICK h : h = z \o u
  OBVIOUS
<1>7. /\ h \in Seq(Nat) /\ Len(h) = m + n /\ \A j \in 1 .. m : h[j] = z[j]
      /\ \A j \in 1 .. n : h[m + j] = u[j]
  BY <1>1, <1>6
<1>8. PICK b : b = Append(h, x)
  OBVIOUS
<1>9. b \in Seq(Nat) /\ Len(b) = (m + n) + 1 /\ b[(m + n) + 1] = x
      /\ \A j \in 1 .. m + n : b[j] = h[j]
  BY <1>7, <1>8
<1>10. ASSUME NEW j \in 1 .. m + (n + 1) PROVE a[j] = b[j]
  <2>1. CASE j <= m
    <3>1. j \in 1 .. m /\ j \in 1 .. m + n
      BY <2>1
    <3> QED
      BY <1>5, <1>7, <1>9, <3>1
  <2>2. CASE ~(j <= m)
    <3>1. PICK i \in 1 .. n + 1 : j = m + i
      <4>1. j - m \in 1 .. n + 1 /\ j = m + (j - m)
        BY <2>2
      <4> QED
        BY <4>1
    <3>2. a[j] = w[i]
      BY <1>5, <3>1
    <3>3. CASE i = n + 1
      <4>1. j = (m + n) + 1
        BY <3>1, <3>3
      <4> QED
        BY <1>3, <1>9, <3>2, <3>3, <4>1
    <3>4. CASE i # n + 1
      <4>1. i \in 1 .. n /\ j \in 1 .. m + n
        BY <3>1, <3>4
      <4>2. b[j] = u[i]
        BY <1>7, <1>9, <3>1, <4>1
      <4> QED
        BY <1>3, <3>2, <4>1, <4>2
    <3> QED
      BY <3>3, <3>4
  <2> QED
    BY <2>1, <2>2
<1>11. m + (n + 1) = (m + n) + 1
  OBVIOUS
<1>12. a = b
  BY <1>5, <1>9, <1>10, <1>11
<1> QED
  BY <1>2, <1>4, <1>6, <1>8, <1>12

\* The bytes heard are numbers, and at least as many as a history holds.
LEMMA HeardGrows ==
  ASSUME NEW e, e.hist \in Nat \ {0}, NEW b \in Seq(Byte), NEW x \in Byte, NEW s
  PROVE  LastBytes(Heard(e, Append(b, x), s), e.hist) =
           IF Key(e, Hash(Order(b, e.order))) = s
           THEN Followed(LastBytes(Heard(e, b, s), e.hist), x)
           ELSE LastBytes(Heard(e, b, s), e.hist)
<1>1. PICK k \in Nat \ {0} : k = e.hist
  OBVIOUS
<1>2. PICK z : z = NoHistory(e)
  OBVIOUS
<1>3. z \in Seq(Nat) /\ Len(z) = k
  <2>1. z = [j \in 1 .. k |-> 0]
    BY <1>1, <1>2 DEF NoHistory
  <2> QED
    BY <2>1
<1>4. PICK u, v, c : u = Followers(e, b, s) /\ c = Append(b, x) /\ v = Followers(e, c, s)
  OBVIOUS
<1>5. /\ u \in Seq(Byte)
      /\ v = IF SourceSlots(e, b)[Len(b)] = s THEN Append(u, x) ELSE u
  <2>1. /\ Followers(e, b, s) \in Seq(Byte)
        /\ Followers(e, Append(b, x), s) =
             IF SourceSlots(e, b)[Len(b)] = s THEN Append(Followers(e, b, s), x)
             ELSE Followers(e, b, s)
    BY FollowersGrow
  <2> QED
    BY <1>4, <2>1
<1>6. SourceSlots(e, b)[Len(b)] = Key(e, Hash(Order(b, e.order)))
  BY SourceSlotsGrow
<1>7. Heard(e, b, s) = z \o u /\ Heard(e, c, s) = z \o v
  BY <1>2, <1>4 DEF Heard, Followers
<1>8. Byte \subseteq Nat
  BY DEF Byte
<1>9. u \in Seq(Nat) /\ x \in Nat
  <2>1. Len(u) \in Nat /\ u \in [1 .. Len(u) -> Byte]
    BY <1>5
  <2>2. u \in [1 .. Len(u) -> Nat]
    BY <1>8, <2>1
  <2> QED
    BY <1>8, <2>1, <2>2
<1>10. PICK h : h = z \o u
  OBVIOUS
<1>11. h \in Seq(Nat) /\ k <= Len(h)
  BY <1>3, <1>9, <1>10
<1>12. CASE Key(e, Hash(Order(b, e.order))) = s
  <2>1. Heard(e, c, s) = Append(h, x)
    <3>1. v = Append(u, x)
      BY <1>5, <1>6, <1>12
    <3>2. z \o Append(u, x) = Append(z \o u, x)
      BY <1>3, <1>9, AppendBehind
    <3> QED
      BY <1>7, <1>10, <3>1, <3>2
  <2>2. LastBytes(Append(h, x), k) = Followed(LastBytes(h, k), x)
    BY <1>9, <1>11, LastMoveUp
  <2> QED
    BY <1>1, <1>4, <1>7, <1>10, <1>12, <2>1, <2>2
<1>13. CASE Key(e, Hash(Order(b, e.order))) # s
  <2>1. v = u
    BY <1>5, <1>6, <1>13
  <2> QED
    BY <1>4, <1>7, <1>13, <2>1
<1> QED
  BY <1>12, <1>13

\* An indirect expert that has seen b: each of its slots holds the last bytes
\* that followed it, and the slot of the bytes at the end is selected.
Listens(e, st, b) ==
  /\ \E t, k : /\ st = [table |-> t, last_key |-> k, valid |-> TRUE]
               /\ DOMAIN t = 0 .. e.slots - 1
               /\ \A s \in 0 .. e.slots - 1 : \E cu, pr : t[s] = [cur |-> cu, prev |-> pr]
  /\ st.last_key = Key(e, Hash(Order(b, e.order)))
  /\ \A s \in 0 .. e.slots - 1 : st.table[s].cur = LastBytes(Heard(e, b, s), e.hist)

LEMMA ListensFirst ==
  ASSUME NEW e, e.hist \in Nat \ {0}
  PROVE  Listens(e, Refresh(e, NewIndirectState(e), <<>>, Hash(Order(<<>>, e.order))), <<>>)
<1>1. PICK k \in Nat \ {0} : k = e.hist
  OBVIOUS
<1>2. PICK z : z = NoHistory(e)
  OBVIOUS
<1>3. z = [j \in 1 .. k |-> 0]
  BY <1>1, <1>2 DEF NoHistory
<1>4. z \in Seq(Nat) /\ Len(z) = k
  BY <1>3
<1>5. LastBytes(z, k) = z
  <2>1. SubSeq(z, 1, k) = z /\ k - k + 1 = 1
    BY <1>4
  <2> QED
    BY <1>4, <2>1 DEF LastBytes
<1>6. ASSUME NEW s PROVE Heard(e, <<>>, s) = z
  <2>1. PICK f : f = SourceSlots(e, <<>>)
    OBVIOUS
  <2>2. Places(f, s, 0) = {}
    BY DEF Places
  <2>3. Cardinality(Places(f, s, 0)) = 0
    BY <2>2, FS_EmptySet
  <2>4. PICK u : u = [j \in 1 .. Cardinality(Places(f, s, Len(<<>>))) |->
                        <<>>[1 + Nth(f, s, Len(<<>>), j)]]
    OBVIOUS
  <2>5. Len(<<>>) = 0
    OBVIOUS
  <2>6. Cardinality(Places(f, s, Len(<<>>))) = 0
    BY <2>3, <2>5
  <2>7. u = <<>>
    BY <2>4, <2>6
  <2>8. z \o <<>> = z
    BY <1>4
  <2> QED
    BY <1>2, <2>1, <2>4, <2>7, <2>8 DEF Heard
<1>7. PICK t : t = [s \in 0 .. e.slots - 1 |-> [cur |-> z, prev |-> z]]
  OBVIOUS
<1>8. PICK key : key = Key(e, Hash(Order(<<>>, e.order)))
  OBVIOUS
<1>9. NewIndirectState(e) = [table |-> t, last_key |-> 0, valid |-> FALSE]
  BY <1>2, <1>7 DEF NewIndirectState
<1>10. PICK st : st = Refresh(e, NewIndirectState(e), <<>>, Hash(Order(<<>>, e.order)))
  OBVIOUS
<1>11. st = [table |-> t, last_key |-> key, valid |-> TRUE]
  <2>1. PICK w : w = NewIndirectState(e)
    OBVIOUS
  <2>2. w.valid = FALSE
    BY <1>9, <2>1
  <2>3. st = [w EXCEPT !.last_key = key, !.valid = TRUE]
    BY <1>8, <1>10, <2>1, <2>2 DEF Refresh
  <2>4. w = [table |-> t, last_key |-> 0, valid |-> FALSE]
    BY <1>9, <2>1
  <2> QED
    BY <2>3, <2>4
<1>12. \E a, q : /\ st = [table |-> a, last_key |-> q, valid |-> TRUE]
                 /\ DOMAIN a = 0 .. e.slots - 1
                 /\ \A s \in 0 .. e.slots - 1 : \E cu, pr : a[s] = [cur |-> cu, prev |-> pr]
  <2>1. DOMAIN t = 0 .. e.slots - 1
    BY <1>7
  <2>2. \A s \in 0 .. e.slots - 1 : \E cu, pr : t[s] = [cur |-> cu, prev |-> pr]
    BY <1>7
  <2> QED
    BY <1>11, <2>1, <2>2
<1>13. \A s \in 0 .. e.slots - 1 : st.table[s].cur = LastBytes(Heard(e, <<>>, s), e.hist)
  BY <1>1, <1>5, <1>6, <1>7, <1>11
<1>14. Listens(e, st, <<>>)
  <2>1. st.last_key = key
    BY <1>11
  <2> QED
    BY <1>8, <1>12, <1>13, <2>1 DEF Listens
<1> QED
  BY <1>10, <1>14

LEMMA ListensOn ==
  ASSUME NEW e, e.hist \in Nat \ {0}, NEW b \in Seq(Byte), NEW x \in Byte, NEW st,
         Listens(e, st, b)
  PROVE  Listens(e, Refresh(e, st, Append(b, x), Hash(Order(Append(b, x), e.order))),
                 Append(b, x))
<1>1. PICK t, k : /\ st = [table |-> t, last_key |-> k, valid |-> TRUE]
                  /\ DOMAIN t = 0 .. e.slots - 1
                  /\ \A s \in 0 .. e.slots - 1 : \E cu, pr : t[s] = [cur |-> cu, prev |-> pr]
  BY DEF Listens
<1>2. k = Key(e, Hash(Order(b, e.order)))
  BY <1>1 DEF Listens
<1>3. \A s \in 0 .. e.slots - 1 : t[s].cur = LastBytes(Heard(e, b, s), e.hist)
  BY <1>1 DEF Listens
<1>4. PICK c, key, v : /\ c = Append(b, x) /\ key = Key(e, Hash(Order(c, e.order)))
                       /\ v = Refresh(e, st, c, Hash(Order(c, e.order)))
  OBVIOUS
<1>5. c[Len(c)] = x
  BY <1>4
<1>6. PICK new : new = [cur |-> Followed(t[k].cur, x), prev |-> t[k].cur]
  OBVIOUS
<1>7. PICK a : a = [t EXCEPT ![k] = new]
  OBVIOUS
<1>8. Learn(st, x) = [table |-> a, last_key |-> k, valid |-> TRUE]
  <2>1. Learn(st, x) = [st EXCEPT !.table = a]
    BY <1>1, <1>6, <1>7 DEF Learn
  <2> QED
    BY <1>1, <2>1
<1>9. v = [table |-> a, last_key |-> key, valid |-> TRUE]
  <2>1. st.valid = TRUE
    BY <1>1
  <2>2. PICK w : w = Learn(st, x)
    OBVIOUS
  <2>3. v = [w EXCEPT !.last_key = key, !.valid = TRUE]
    BY <1>4, <1>5, <2>1, <2>2 DEF Refresh
  <2>4. w = [table |-> a, last_key |-> k, valid |-> TRUE]
    BY <1>8, <2>2
  <2> QED
    BY <2>3, <2>4
<1>10. DOMAIN a = 0 .. e.slots - 1
  BY <1>1, <1>7
<1>11. ASSUME NEW s \in 0 .. e.slots - 1
       PROVE  /\ \E cu, pr : a[s] = [cur |-> cu, prev |-> pr]
              /\ a[s].cur = LastBytes(Heard(e, c, s), e.hist)
  <2>1. LastBytes(Heard(e, c, s), e.hist) =
          IF k = s THEN Followed(LastBytes(Heard(e, b, s), e.hist), x)
          ELSE LastBytes(Heard(e, b, s), e.hist)
    BY <1>2, <1>4, HeardGrows
  <2>2. t[s].cur = LastBytes(Heard(e, b, s), e.hist)
    BY <1>3, <1>11
  <2>3. CASE k = s
    <3>1. a[s] = new
      BY <1>1, <1>7, <1>11, <2>3
    <3>2. a[s].cur = Followed(t[s].cur, x)
      BY <1>6, <2>3, <3>1
    <3> QED
      BY <1>6, <2>1, <2>2, <2>3, <3>1, <3>2
  <2>4. CASE k # s
    <3>1. a[s] = t[s]
      BY <1>1, <1>7, <1>11, <2>4
    <3> QED
      BY <1>1, <1>11, <2>1, <2>2, <2>4, <3>1
  <2> QED
    BY <2>3, <2>4
<1>12. \E r, q : /\ v = [table |-> r, last_key |-> q, valid |-> TRUE]
                 /\ DOMAIN r = 0 .. e.slots - 1
                 /\ \A s \in 0 .. e.slots - 1 : \E cu, pr : r[s] = [cur |-> cu, prev |-> pr]
  BY <1>9, <1>10, <1>11
<1>13. v.last_key = key /\ v.table = a
  BY <1>9
<1>14. Listens(e, v, c)
  BY <1>4, <1>11, <1>12, <1>13 DEF Listens
<1> QED
  BY <1>4, <1>14
-----------------------------------------------------------------------------
(* The bits coded so far.                                                  *)

BitAt(p, c, j) == [at |-> p, c0 |-> c \div 2 ^ (j + 1), bit |-> (c \div 2 ^ j) % 2]
BitsOf(p, c)   == {BitAt(p, c, j) : j \in {j \in 0 .. 2 * D : 2 ^ (j + 1) <= c}}
Coded(b, c)    ==
  BitsOf(Len(b), c) \cup UNION {BitsOf(p, 2 ^ (2 * D) + b[p + 1]) : p \in 0 .. Len(b) - 1}

LEMMA CodedBitsAre == CodedBits = Coded(buf, c0)
  BY DEF CodedBits, Coded, BitsOf, BitAt

LEMMA CodedIs ==
  ASSUME NEW b, NEW c, NEW x
  PROVE  x \in Coded(b, c) <=>
           \/ \E p \in 0 .. Len(b) - 1 : x \in BitsOf(p, 2 ^ (2 * D) + b[p + 1])
           \/ x \in BitsOf(Len(b), c)
<1>1. PICK S : S = {BitsOf(p, 2 ^ (2 * D) + b[p + 1]) : p \in 0 .. Len(b) - 1}
  OBVIOUS
<1>2. Coded(b, c) = BitsOf(Len(b), c) \cup UNION S
  BY <1>1 DEF Coded
<1>3. x \in UNION S <=> \E y \in S : x \in y
  OBVIOUS
<1>4. \A p \in 0 .. Len(b) - 1 : BitsOf(p, 2 ^ (2 * D) + b[p + 1]) \in S
  BY <1>1
<1>5. \A y \in S : \E p \in 0 .. Len(b) - 1 : y = BitsOf(p, 2 ^ (2 * D) + b[p + 1])
  BY <1>1
<1>6. (\E y \in S : x \in y) <=>
        \E p \in 0 .. Len(b) - 1 : x \in BitsOf(p, 2 ^ (2 * D) + b[p + 1])
  BY <1>4, <1>5
<1>7. x \in Coded(b, c) <=> x \in UNION S \/ x \in BitsOf(Len(b), c)
  BY <1>2
<1> QED
  BY <1>3, <1>6, <1>7

LEMMA PowerFacts ==
  ASSUME NEW j \in 0 .. 2 * D
  PROVE  /\ 2 ^ j \in Nat \ {0} /\ 2 ^ (j + 1) \in Nat \ {0} /\ 2 ^ (j + 1) = 2 * 2 ^ j
         /\ 2 ^ (j + 1) >= 2
<1>1. PICK a \in Nat \ {0} : a = 2 ^ j
  BY PowerAssumption
<1>2. 2 ^ (j + 1) = 2 * a
  BY <1>1, PowerAssumption
<1> QED
  BY <1>1, <1>2

\* The bit above place j is the bit at j of what there was before the last one.
LEMMA BitMovesUp ==
  ASSUME NEW p, NEW c \in Nat, NEW bit \in {0, 1}, NEW j \in 0 .. 2 * D - 1
  PROVE  /\ BitAt(p, 2 * c + bit, j + 1) = BitAt(p, c, j)
         /\ 2 ^ ((j + 1) + 1) <= 2 * c + bit <=> 2 ^ (j + 1) <= c
<1>1. PICK i \in 0 .. 2 * D : i = j + 1
  <2>1. j + 1 \in 0 .. 2 * D
    BY DAssumption
  <2> QED
    BY <2>1
<1>2. j \in 0 .. 2 * D
  BY DAssumption
<1>3. PICK a \in Nat \ {0} : a = 2 ^ j
  BY <1>2, PowerFacts
<1>4. PICK e \in Nat \ {0} : e = 2 ^ i /\ e = 2 * a
  BY <1>1, <1>2, <1>3, PowerFacts
<1>5. 2 ^ (i + 1) = 2 * e
  BY <1>1, <1>4, PowerFacts
<1>6. (2 * c + bit) \div (2 * e) = c \div e
  BY Halves
<1>7. (2 * c + bit) \div e = c \div a
  BY <1>4, Halves
<1>8. BitAt(p, 2 * c + bit, i) = [at |-> p, c0 |-> c \div e, bit |-> (c \div a) % 2]
  BY <1>4, <1>5, <1>6, <1>7 DEF BitAt
<1>9. BitAt(p, c, j) = [at |-> p, c0 |-> c \div e, bit |-> (c \div a) % 2]
  BY <1>1, <1>3, <1>4 DEF BitAt
<1>10. 2 * e <= 2 * c + bit <=> e <= c
  OBVIOUS
<1> QED
  BY <1>1, <1>4, <1>5, <1>8, <1>9, <1>10

LEMMA LastBit ==
  ASSUME NEW p, NEW c \in Nat, NEW bit \in {0, 1}
  PROVE  BitAt(p, 2 * c + bit, 0) = [at |-> p, c0 |-> c, bit |-> bit]
<1>1. PICK b \in Nat : b = 2 * c + bit
  OBVIOUS
<1>2. b \div 2 = c /\ b % 2 = bit /\ b \div 1 = b
  BY <1>1
<1>3. 2 ^ 0 = 1 /\ 2 ^ (0 + 1) = 2
  <2>1. 0 \in 0 .. 2 * D
    BY DAssumption
  <2>2. 2 ^ 0 = 1
    OBVIOUS
  <2> QED
    BY <2>1, <2>2, PowerFacts
<1> QED
  BY <1>1, <1>2, <1>3 DEF BitAt

\* Another bit of the partial byte.
LEMMA BitsGrow ==
  ASSUME NEW p, NEW c \in Nat, 1 <= c, c < 2 ^ (2 * D), NEW bit \in {0, 1}
  PROVE  BitsOf(p, 2 * c + bit) = BitsOf(p, c) \cup {[at |-> p, c0 |-> c, bit |-> bit]}
<1>0. PICK b \in Nat : b = 2 * c + bit
  OBVIOUS
<1>1. PICK new : b = 2 * c + bit /\ new = [at |-> p, c0 |-> c, bit |-> bit]
  BY <1>0
<1>2. D \in Nat \ {0} /\ 2 * D \in 0 .. 2 * D /\ 0 \in 0 .. 2 * D
  BY DAssumption
<1>3. ASSUME NEW x \in BitsOf(p, b) PROVE x \in BitsOf(p, c) \cup {new}
  <2>1. PICK j \in 0 .. 2 * D : 2 ^ (j + 1) <= b /\ x = BitAt(p, b, j)
    BY <1>3 DEF BitsOf
  <2>2. CASE j = 0
    BY <1>1, <2>1, <2>2, LastBit
  <2>3. CASE j # 0
    <3>1. PICK i \in 0 .. 2 * D - 1 : j = i + 1
      <4>1. j - 1 \in 0 .. 2 * D - 1 /\ j = (j - 1) + 1
        BY <1>2, <2>3
      <4> QED
        BY <4>1
    <3>2. BitAt(p, b, j) = BitAt(p, c, i) /\ 2 ^ (i + 1) <= c
      BY <1>1, <2>1, <3>1, BitMovesUp
    <3>3. i \in 0 .. 2 * D
      BY <1>2
    <3> QED
      BY <2>1, <3>2, <3>3 DEF BitsOf
  <2> QED
    BY <2>2, <2>3
<1>4. ASSUME NEW x \in BitsOf(p, c) PROVE x \in BitsOf(p, b)
  <2>1. PICK j \in 0 .. 2 * D : 2 ^ (j + 1) <= c /\ x = BitAt(p, c, j)
    BY <1>4 DEF BitsOf
  <2>2. j # 2 * D
    <3> SUFFICES ASSUME j = 2 * D PROVE FALSE
      OBVIOUS
    <3>1. PICK a \in Nat : a = 2 ^ j /\ 2 ^ (j + 1) = 2 * a
      BY PowerFacts
    <3>2. 2 * a <= c /\ c < a
      BY <2>1, <3>1
    <3> QED
      BY <3>1, <3>2
  <2>3. j \in 0 .. 2 * D - 1 /\ j + 1 \in 0 .. 2 * D
    BY <1>2, <2>2
  <2>4. BitAt(p, b, j + 1) = x /\ 2 ^ ((j + 1) + 1) <= b
    BY <1>1, <2>1, <2>3, BitMovesUp
  <2> QED
    BY <2>3, <2>4 DEF BitsOf
<1>5. new \in BitsOf(p, b)
  <2>1. 2 ^ (0 + 1) = 2
    BY <1>2, PowerFacts
  <2>2. 2 ^ (0 + 1) <= b
    BY <1>1, <2>1
  <2>3. BitAt(p, b, 0) = new
    BY <1>1, LastBit
  <2> QED
    BY <1>2, <2>2, <2>3 DEF BitsOf
<1>6. BitsOf(p, b) = BitsOf(p, c) \cup {new}
  BY <1>3, <1>4, <1>5
<1> QED
  BY <1>1, <1>6

LEMMA NoBitYet ==
  ASSUME NEW p
  PROVE  BitsOf(p, 1) = {}
<1> SUFFICES ASSUME NEW x \in BitsOf(p, 1) PROVE FALSE
  OBVIOUS
<1>1. PICK j \in 0 .. 2 * D : 2 ^ (j + 1) <= 1
  BY DEF BitsOf
<1>2. PICK w \in Nat : w = 2 ^ (j + 1) /\ w >= 2
  BY PowerFacts
<1> QED
  BY <1>1, <1>2

\* The bits of a partial byte are behind it.
LEMMA BitsBehind ==
  ASSUME NEW p, NEW c \in Nat, 1 <= c, NEW x \in BitsOf(p, c)
  PROVE  x.at = p /\ x.c0 # c
<1>1. PICK j \in 0 .. 2 * D : x = BitAt(p, c, j)
  BY DEF BitsOf
<1>2. PICK w \in Nat \ {0} : w = 2 ^ (j + 1) /\ w >= 2
  BY PowerFacts
<1>3. x.at = p /\ x.c0 = c \div w
  BY <1>1, <1>2 DEF BitAt
<1>4. c \div w # c
  <2> SUFFICES ASSUME c \div w = c PROVE FALSE
    OBVIOUS
  <2>1. w * c <= c
    BY <1>2
  <2>2. PICK q \in Nat : w = 2 + q
    <3>1. w - 2 \in Nat /\ w = 2 + (w - 2)
      BY <1>2
    <3> QED
      BY <3>1
  <2>3. w * c = 2 * c + q * c /\ q * c \in Nat
    BY <2>2
  <2> QED
    BY <2>1, <2>3
<1> QED
  BY <1>3, <1>4

LEMMA CodedGrows ==
  ASSUME NEW b \in Seq(Byte), NEW c \in Nat, 1 <= c, c < 2 ^ (2 * D), NEW bit \in {0, 1},
         NEW new, new = [at |-> Len(b), c0 |-> c, bit |-> bit]
  PROVE  Coded(b, 2 * c + bit) = Coded(b, c) \cup {new} /\ new \notin Coded(b, c)
<1>1. BitsOf(Len(b), 2 * c + bit) = BitsOf(Len(b), c) \cup {new}
  BY BitsGrow
<1>2. new.at = Len(b) /\ new.c0 = c
  OBVIOUS
<1>3. new \notin BitsOf(Len(b), c)
  BY <1>2, BitsBehind
<1>4. ASSUME NEW p \in 0 .. Len(b) - 1, new \in BitsOf(p, 2 ^ (2 * D) + b[p + 1])
      PROVE  FALSE
  <2>1. PICK j \in 0 .. 2 * D : new = BitAt(p, 2 ^ (2 * D) + b[p + 1], j)
    BY <1>4 DEF BitsOf
  <2>2. new.at = p
    BY <2>1 DEF BitAt
  <2> QED
    BY <1>2, <2>2
<1>5. new \notin Coded(b, c)
  BY <1>3, <1>4, CodedIs
<1>6. ASSUME NEW x PROVE x \in Coded(b, 2 * c + bit) <=> x \in Coded(b, c) \/ x = new
  BY <1>1, CodedIs
<1> QED
  BY <1>5, <1>6

LEMMA CodedPlaces ==
  ASSUME NEW b \in Seq(Byte), NEW c, NEW x \in Coded(b, c)
  PROVE  x.at \in 0 .. Len(b)
<1>1. ASSUME NEW p, NEW v, x \in BitsOf(p, v) PROVE x.at = p
  <2>1. PICK j \in 0 .. 2 * D : x = BitAt(p, v, j)
    BY <1>1 DEF BitsOf
  <2> QED
    BY <2>1 DEF BitAt
<1>2. \E p \in 0 .. Len(b) : \E v : x \in BitsOf(p, v)
  <2>1. Len(b) \in 0 .. Len(b) /\ 0 .. Len(b) - 1 \subseteq 0 .. Len(b)
    OBVIOUS
  <2> QED
    BY <2>1, CodedIs
<1> QED
  BY <1>1, <1>2

\* A whole byte is its partial byte when the next one begins.
LEMMA CodedTurns ==
  ASSUME NEW b \in Seq(Byte), NEW x \in Byte
  PROVE  Coded(Append(b, x), 1) = Coded(b, 2 ^ (2 * D) + x)
<1>1. PICK n \in Nat : n = Len(b)
  OBVIOUS
<1>2. PICK c : c = Append(b, x)
  OBVIOUS
<1>3. Len(c) = n + 1 /\ c[n + 1] = x /\ \A k \in 1 .. n : c[k] = b[k]
  BY <1>1, <1>2
<1>4. \A p \in 0 .. n - 1 : c[p + 1] = b[p + 1]
  BY <1>3
<1>5. BitsOf(n + 1, 1) = {}
  BY NoBitYet
<1>6. ASSUME NEW y, NEW p \in 0 .. n - 1
      PROVE  y \in BitsOf(p, 2 ^ (2 * D) + c[p + 1]) <=> y \in BitsOf(p, 2 ^ (2 * D) + b[p + 1])
  BY <1>4
<1>7. ASSUME NEW y PROVE y \in Coded(c, 1) <=> y \in Coded(b, 2 ^ (2 * D) + x)
  <2>1. y \in Coded(c, 1) <=> \E p \in 0 .. n : y \in BitsOf(p, 2 ^ (2 * D) + c[p + 1])
    <3>1. Len(c) - 1 = n /\ y \notin BitsOf(Len(c), 1)
      BY <1>3, <1>5
    <3> QED
      BY <3>1, CodedIs
  <2>2. y \in Coded(b, 2 ^ (2 * D) + x) <=>
          \/ \E p \in 0 .. n - 1 : y \in BitsOf(p, 2 ^ (2 * D) + b[p + 1])
          \/ y \in BitsOf(n, 2 ^ (2 * D) + c[n + 1])
    BY <1>1, <1>3, CodedIs
  <2>3. \A p \in 0 .. n : p = n \/ p \in 0 .. n - 1
    OBVIOUS
  <2>4. n \in 0 .. n /\ \A p \in 0 .. n - 1 : p \in 0 .. n
    OBVIOUS
  <2> QED
    BY <1>6, <2>1, <2>2, <2>3, <2>4
<1> QED
  BY <1>2, <1>7
-----------------------------------------------------------------------------
(* What a state expert has counted.                                        *)

LEMMA CappedMore ==
  ASSUME NEW n \in Nat, NEW max \in Nat
  PROVE  Capped(n + 1, max) = More(Capped(n, max), max)
  BY DEF Capped, More

\* The slot of a coded bit, those of C that fall into s, and how many of
\* them were b.
BitSlot(e, b, x)   == Mix(Hash(Order(SubSeq(b, 1, x.at), e.order)), x.c0) % e.slots
Here(e, b, C, s)   == {x \in C : BitSlot(e, b, x) = s}
Tally(H, bit)      == Capped(Cardinality({x \in H : x.bit = bit}), STATE_MAX)
Tallies(H)         == <<Tally(H, 0), Tally(H, 1)>>

LEMMA TallyGrows ==
  ASSUME NEW H, IsFiniteSet(H), NEW x, x \notin H, NEW bit
  PROVE  Tally(H \cup {x}, bit) = IF x.bit = bit THEN More(Tally(H, bit), STATE_MAX)
                                  ELSE Tally(H, bit)
<1>1. PICK G, K : G = {y \in H : y.bit = bit} /\ K = {y \in H \cup {x} : y.bit = bit}
  OBVIOUS
<1>2. IsFiniteSet(G) /\ x \notin G /\ Cardinality(G) \in Nat
  <2>1. G \in SUBSET H /\ x \notin G
    BY <1>1
  <2>2. IsFiniteSet(G)
    BY <2>1, FS_Subset
  <2> QED
    BY <2>1, <2>2, FS_CardinalityType
<1>3. CASE x.bit = bit
  <2>1. K = G \cup {x}
    BY <1>1, <1>3
  <2>2. Cardinality(K) = Cardinality(G) + 1
    BY <1>2, <2>1, FS_AddElement
  <2>3. STATE_MAX \in Nat
    BY CountsAssumption
  <2>4. Capped(Cardinality(K), STATE_MAX) = More(Capped(Cardinality(G), STATE_MAX), STATE_MAX)
    BY <1>2, <2>2, <2>3, CappedMore
  <2> QED
    BY <1>1, <1>3, <2>4 DEF Tally
<1>4. CASE x.bit # bit
  <2>1. K = G
    BY <1>1, <1>4
  <2> QED
    BY <1>1, <1>4, <2>1 DEF Tally
<1> QED
  BY <1>3, <1>4

LEMMA HereGrows ==
  ASSUME NEW e, NEW b, NEW C, NEW x, NEW s, x \notin C
  PROVE  /\ BitSlot(e, b, x) = s => Here(e, b, C \cup {x}, s) = Here(e, b, C, s) \cup {x}
         /\ BitSlot(e, b, x) # s => Here(e, b, C \cup {x}, s) = Here(e, b, C, s)
         /\ x \notin Here(e, b, C, s)
  BY DEF Here

\* More bytes do not move the bits that are coded.
LEMMA HereStays ==
  ASSUME NEW e, NEW b \in Seq(Byte), NEW x \in Byte, NEW C, \A y \in C : y.at \in 0 .. Len(b),
         NEW s
  PROVE  Here(e, Append(b, x), C, s) = Here(e, b, C, s)
<1>1. \A p \in 0 .. Len(b) : SubSeq(Append(b, x), 1, p) = SubSeq(b, 1, p)
  BY Beginning
<1>2. \A y \in C : BitSlot(e, Append(b, x), y) = BitSlot(e, b, y)
  BY <1>1 DEF BitSlot
<1> QED
  BY <1>2 DEF Here

\* A state expert that has seen the bits C: its slots count them, its context
\* is that of the bytes b, and when a bit is due (sel) the slot of the partial
\* byte c is selected.
Counts(e, m, b, C, c, sel) ==
  /\ \E t, cx, id, cu : /\ m = [table |-> t, ctx |-> cx, idx |-> id, cur |-> cu]
                        /\ DOMAIN t = 0 .. e.slots - 1
  /\ m.ctx = Hash(Order(b, e.order))
  /\ \A s \in 0 .. e.slots - 1 : m.table[s] = Tallies(Here(e, b, C, s))
  /\ sel => m.idx = Mix(m.ctx, c) % e.slots /\ m.cur = m.table[m.idx]

LEMMA CountsBegin ==
  ASSUME NEW e, NEW m, NEW b, NEW C, NEW c, NEW sel, Counts(e, m, b, C, c, sel)
  PROVE  Counts(e, BeginState(e, m, c), b, C, c, TRUE)
<1>1. PICK t, cx, id, cu : /\ m = [table |-> t, ctx |-> cx, idx |-> id, cur |-> cu]
                           /\ DOMAIN t = 0 .. e.slots - 1
  BY DEF Counts
<1>2. PICK i : i = Mix(cx, c) % e.slots
  OBVIOUS
<1>3. PICK k : k = t[i]
  OBVIOUS
<1>4. PICK v : v = BeginState(e, m, c)
  OBVIOUS
<1>5. v = [table |-> t, ctx |-> cx, idx |-> i, cur |-> k]
  <2>1. v = [m EXCEPT !.idx = i, !.cur = k]
    BY <1>1, <1>2, <1>3, <1>4 DEF BeginState
  <2> QED
    BY <1>1, <2>1
<1>6. v.ctx = m.ctx /\ v.table = m.table /\ v.idx = Mix(v.ctx, c) % e.slots
      /\ v.cur = v.table[v.idx]
  BY <1>1, <1>2, <1>3, <1>5
<1>7. \E a, cy, ie, cv : /\ v = [table |-> a, ctx |-> cy, idx |-> ie, cur |-> cv]
                         /\ DOMAIN a = 0 .. e.slots - 1
  BY <1>1, <1>5
<1>8. Counts(e, v, b, C, c, TRUE)
  BY <1>6, <1>7 DEF Counts
<1> QED
  BY <1>4, <1>8

LEMMA CountsBit ==
  ASSUME NEW e, NEW m, NEW b \in Seq(Byte), NEW C, IsFiniteSet(C), NEW c, NEW bit \in {0, 1},
         Counts(e, m, b, C, c, TRUE),
         NEW x, x.at = Len(b), x.c0 = c, x.bit = bit, x \notin C, NEW d
  PROVE  Counts(e, UpdateState(m, bit), b, C \cup {x}, d, FALSE)
<1>1. PICK t, cx, id, cu : /\ m = [table |-> t, ctx |-> cx, idx |-> id, cur |-> cu]
                           /\ DOMAIN t = 0 .. e.slots - 1
  BY DEF Counts
<1>2. /\ cx = Hash(Order(b, e.order)) /\ id = Mix(cx, c) % e.slots /\ cu = t[id]
      /\ \A s \in 0 .. e.slots - 1 : t[s] = Tallies(Here(e, b, C, s))
  BY <1>1 DEF Counts
<1>3. BitSlot(e, b, x) = id
  <2>1. SubSeq(b, 1, Len(b)) = b
    OBVIOUS
  <2>2. x.at = Len(b) /\ x.c0 = c
    OBVIOUS
  <2> QED
    BY <1>2, <2>1, <2>2 DEF BitSlot
<1>4. PICK k : k = [cu EXCEPT ![bit + 1] = More(@, STATE_MAX)]
  OBVIOUS
<1>5. PICK a : a = [t EXCEPT ![id] = k]
  OBVIOUS
<1>6. PICK v : v = UpdateState(m, bit)
  OBVIOUS
<1>7. v = [table |-> a, ctx |-> cx, idx |-> id, cur |-> cu]
  <2>1. m.cur = cu /\ m.idx = id /\ m.table = t
    BY <1>1
  <2>2. v = [m EXCEPT !.table = a]
    BY <1>4, <1>5, <1>6, <2>1 DEF UpdateState
  <2> QED
    BY <1>1, <2>2
<1>8. ASSUME NEW s \in 0 .. e.slots - 1 PROVE a[s] = Tallies(Here(e, b, C \cup {x}, s))
  <2>1. PICK H : H = Here(e, b, C, s)
    OBVIOUS
  <2>2. IsFiniteSet(H)
    <3>1. H \in SUBSET C
      BY <2>1 DEF Here
    <3> QED
      BY <3>1, FS_Subset
  <2>3. /\ id = s => Here(e, b, C \cup {x}, s) = H \cup {x}
        /\ id # s => Here(e, b, C \cup {x}, s) = H
        /\ x \notin H
    <3>1. /\ BitSlot(e, b, x) = s => Here(e, b, C \cup {x}, s) = Here(e, b, C, s) \cup {x}
          /\ BitSlot(e, b, x) # s => Here(e, b, C \cup {x}, s) = Here(e, b, C, s)
          /\ x \notin Here(e, b, C, s)
      BY HereGrows
    <3> QED
      BY <1>3, <2>1, <3>1
  <2>4. t[s] = Tallies(H)
    BY <1>2, <1>8, <2>1
  <2>5. CASE id = s
    <3>1. a[s] = k
      BY <1>1, <1>5, <1>8, <2>5
    <3>2. PICK n0, n1 : n0 = Tally(H, 0) /\ n1 = Tally(H, 1)
      OBVIOUS
    <3>3. cu = <<n0, n1>>
      BY <1>2, <2>4, <2>5, <3>2 DEF Tallies
    <3>4. x.bit = bit
      OBVIOUS
    <3>5. /\ Tally(H \cup {x}, 0) = IF bit = 0 THEN More(n0, STATE_MAX) ELSE n0
          /\ Tally(H \cup {x}, 1) = IF bit = 1 THEN More(n1, STATE_MAX) ELSE n1
      BY <2>2, <2>3, <3>2, <3>4, TallyGrows
    <3>6. PICK m0, m1 : m0 = More(n0, STATE_MAX) /\ m1 = More(n1, STATE_MAX)
      OBVIOUS
    <3>7. k = IF bit = 0 THEN <<m0, n1>> ELSE <<n0, m1>>
      <4>1. CASE bit = 0
        <5>1. k = [<<n0, n1>> EXCEPT ![1] = m0]
          BY <1>4, <3>3, <3>6, <4>1
        <5> QED
          BY <4>1, <5>1
      <4>2. CASE bit = 1
        <5>1. k = [<<n0, n1>> EXCEPT ![2] = m1]
          BY <1>4, <3>3, <3>6, <4>2
        <5> QED
          BY <4>2, <5>1
      <4> QED
        BY <4>1, <4>2
    <3>8. Tallies(H \cup {x}) = IF bit = 0 THEN <<m0, n1>> ELSE <<n0, m1>>
      BY <3>5, <3>6 DEF Tallies
    <3> QED
      BY <2>3, <2>5, <3>1, <3>7, <3>8
  <2>6. CASE id # s
    <3>1. a[s] = t[s]
      BY <1>1, <1>5, <1>8, <2>6
    <3> QED
      BY <2>3, <2>4, <2>6, <3>1
  <2> QED
    BY <2>5, <2>6
<1>9. \E r, cy, ie, cv : /\ v = [table |-> r, ctx |-> cy, idx |-> ie, cur |-> cv]
                         /\ DOMAIN r = 0 .. e.slots - 1
  <2>1. DOMAIN a = 0 .. e.slots - 1
    BY <1>1, <1>5
  <2> QED
    BY <1>7, <2>1
<1>10. v.ctx = Hash(Order(b, e.order)) /\ v.table = a
  BY <1>2, <1>7
<1>11. Counts(e, v, b, C \cup {x}, d, FALSE)
  BY <1>8, <1>9, <1>10 DEF Counts
<1> QED
  BY <1>6, <1>11

\* A new byte only changes the context.
LEMMA CountsByte ==
  ASSUME NEW e, NEW m, NEW b \in Seq(Byte), NEW x \in Byte,
         NEW C, \A y \in C : y.at \in 0 .. Len(b), NEW c, NEW d, Counts(e, m, b, C, c, FALSE)
  PROVE  Counts(e, [m EXCEPT !.ctx = Hash(Order(Append(b, x), e.order))], Append(b, x),
                C, d, FALSE)
<1>1. PICK t, cx, id, cu : /\ m = [table |-> t, ctx |-> cx, idx |-> id, cur |-> cu]
                           /\ DOMAIN t = 0 .. e.slots - 1
  BY DEF Counts
<1>2. \A s \in 0 .. e.slots - 1 : t[s] = Tallies(Here(e, b, C, s))
  BY <1>1 DEF Counts
<1>3. PICK f, h : f = Append(b, x) /\ h = Hash(Order(f, e.order))
  OBVIOUS
<1>4. PICK v : v = [m EXCEPT !.ctx = h]
  OBVIOUS
<1>5. v = [table |-> t, ctx |-> h, idx |-> id, cur |-> cu]
  BY <1>1, <1>4
<1>6. \A s \in 0 .. e.slots - 1 : t[s] = Tallies(Here(e, f, C, s))
  BY <1>2, <1>3, HereStays
<1>7. v.table = t /\ v.ctx = h
  BY <1>5
<1>8. \E r, cy, ie, cv : /\ v = [table |-> r, ctx |-> cy, idx |-> ie, cur |-> cv]
                         /\ DOMAIN r = 0 .. e.slots - 1
  BY <1>1, <1>5
<1>9. Counts(e, v, f, C, d, FALSE)
  BY <1>3, <1>6, <1>7, <1>8 DEF Counts
<1> QED
  BY <1>3, <1>4, <1>9

LEMMA CountsFirst ==
  ASSUME NEW e, NEW d
  PROVE  Counts(e, [NewStateModel(e) EXCEPT !.ctx = Hash(Order(<<>>, e.order))], <<>>, {},
                d, FALSE)
<1>1. PICK t : t = [s \in 0 .. e.slots - 1 |-> <<0, 0>>]
  OBVIOUS
<1>2. PICK h, m : h = Hash(Order(<<>>, e.order)) /\ m = NewStateModel(e)
  OBVIOUS
<1>3. m = [table |-> t, ctx |-> 0, idx |-> 0, cur |-> <<0, 0>>]
  BY <1>1, <1>2 DEF NewStateModel
<1>4. PICK v : v = [m EXCEPT !.ctx = h]
  OBVIOUS
<1>5. v = [table |-> t, ctx |-> h, idx |-> 0, cur |-> <<0, 0>>]
  BY <1>3, <1>4
<1>6. ASSUME NEW s PROVE Tallies(Here(e, <<>>, {}, s)) = <<0, 0>>
  <2>1. \A bit : {x \in Here(e, <<>>, {}, s) : x.bit = bit} = {}
    BY DEF Here
  <2>2. \A bit : Tally(Here(e, <<>>, {}, s), bit) = Capped(0, STATE_MAX)
    BY <2>1, FS_EmptySet DEF Tally
  <2>3. Capped(0, STATE_MAX) = 0
    BY CountsAssumption DEF Capped
  <2> QED
    BY <2>2, <2>3 DEF Tallies
<1>7. v.ctx = h /\ v.table = t /\ DOMAIN t = 0 .. e.slots - 1
  BY <1>1, <1>5
<1>8. \A s \in 0 .. e.slots - 1 : v.table[s] = Tallies(Here(e, <<>>, {}, s))
  BY <1>1, <1>6, <1>7
<1>9. \E r, cy, ie, cv : /\ v = [table |-> r, ctx |-> cy, idx |-> ie, cur |-> cv]
                         /\ DOMAIN r = 0 .. e.slots - 1
  BY <1>5, <1>7
<1>10. Counts(e, v, <<>>, {}, d, FALSE)
  BY <1>2, <1>7, <1>8, <1>9 DEF Counts
<1> QED
  BY <1>2, <1>4, <1>10

LEMMA CountsTrue ==
  ASSUME NEW e, NEW m, NEW c, NEW sel, Counts(e, m, buf, CodedBits, c, sel)
  PROVE  StateHistory(e, m.table)
<1> SUFFICES ASSUME NEW s \in 0 .. e.slots - 1, NEW H, H = Here(e, buf, CodedBits, s),
                    NEW bit \in {0, 1}
             PROVE  m.table[s][bit + 1] = Capped(Cardinality({x \in H : x.bit = bit}), STATE_MAX)
  BY DEF StateHistory, Here, BitSlot
<1>1. m.table[s] = <<Tally(H, 0), Tally(H, 1)>>
  BY DEF Counts, Tallies
<1>2. m.table[s][bit + 1] = Tally(H, bit)
  BY <1>1
<1> QED
  BY <1>2 DEF Tally
-----------------------------------------------------------------------------
(* What an order of the PPM has counted.                                   *)

\* The slot of the place p, the places of the slot s, the places of H that
\* are followed by a byte below the node v, and the bytes that follow H.
PpmSlot(k, b, p) ==
  IF p = 0 THEN 0 ELSE Hash(Order(SubSeq(b, 1, p), k)) % PpmSlots[k]
PpmHere(k, b, s) == {p \in 0 .. Len(b) - 1 : PpmSlot(k, b, p) = s}
Below(b, H, v)   == {p \in H : v \in PathTo(b[p + 1])}
Symbols(b, H)    == {b[p + 1] : p \in H}

LEMMA PpmHereGrows ==
  ASSUME NEW k, NEW b \in Seq(Byte), NEW x \in Byte, NEW s
  PROVE  PpmHere(k, Append(b, x), s) =
           IF PpmSlot(k, b, Len(b)) = s THEN PpmHere(k, b, s) \cup {Len(b)}
           ELSE PpmHere(k, b, s)
<1>1. PICK n \in Nat : n = Len(b)
  OBVIOUS
<1>2. PICK c : c = Append(b, x)
  OBVIOUS
<1>3. Len(c) = n + 1 /\ \A p \in 0 .. n : SubSeq(c, 1, p) = SubSeq(b, 1, p)
  BY <1>1, <1>2, Beginning
<1>4. \A p \in 0 .. n : PpmSlot(k, c, p) = PpmSlot(k, b, p)
  BY <1>3 DEF PpmSlot
<1>5. PICK S, T : S = PpmHere(k, b, s) /\ T = PpmHere(k, c, s)
  OBVIOUS
<1>6. S = {p \in 0 .. n - 1 : PpmSlot(k, b, p) = s}
  BY <1>1, <1>5 DEF PpmHere
<1>7. T = {p \in 0 .. n : PpmSlot(k, b, p) = s}
  <2>1. Len(c) - 1 = n
    BY <1>3
  <2>2. T = {p \in 0 .. n : PpmSlot(k, c, p) = s}
    BY <1>5, <2>1 DEF PpmHere
  <2> QED
    BY <1>4, <2>2
<1>8. T = IF PpmSlot(k, b, n) = s THEN S \cup {n} ELSE S
  BY <1>6, <1>7
<1> QED
  BY <1>1, <1>2, <1>5, <1>8

LEMMA HereBelow ==
  ASSUME NEW k, NEW b \in Seq(Byte), NEW s
  PROVE  /\ IsFiniteSet(PpmHere(k, b, s)) /\ Len(b) \notin PpmHere(k, b, s)
         /\ \A p \in PpmHere(k, b, s) : p + 1 \in 1 .. Len(b)
<1>1. PICK n \in Nat : n = Len(b)
  OBVIOUS
<1>2. PpmHere(k, b, s) \in SUBSET (0 .. n - 1)
  BY <1>1 DEF PpmHere
<1>3. IsFiniteSet(0 .. n - 1)
  BY FS_Interval
<1>4. IsFiniteSet(PpmHere(k, b, s))
  BY <1>2, <1>3, FS_Subset
<1> QED
  BY <1>1, <1>2, <1>4

\* One more place adds its byte to the nodes above it and to the symbols.
OneMoreBelow(b, c, H, n, x, v) ==
  /\ Symbols(c, H) = Symbols(b, H)
  /\ Symbols(c, H \cup {n}) = Symbols(b, H) \cup {x}
  /\ Below(c, H, v) = Below(b, H, v)
  /\ Capped(Cardinality(Below(c, H \cup {n}, v)), COUNT_MAX) =
       IF v \in PathTo(x)
       THEN More(Capped(Cardinality(Below(b, H, v)), COUNT_MAX), COUNT_MAX)
       ELSE Capped(Cardinality(Below(b, H, v)), COUNT_MAX)

LEMMA BelowGrows ==
  ASSUME NEW b, NEW c, NEW H, NEW n, IsFiniteSet(H), n \notin H,
         \A p \in H : c[p + 1] = b[p + 1], NEW x, c[n + 1] = x, NEW v
  PROVE  OneMoreBelow(b, c, H, n, x, v)
<1>1. Symbols(c, H) = Symbols(b, H)
  BY DEF Symbols
<1>2. Symbols(c, H \cup {n}) = Symbols(b, H) \cup {x}
  BY DEF Symbols
<1>3. Below(c, H, v) = Below(b, H, v)
  BY DEF Below
<1>4. PICK G, K : G = Below(b, H, v) /\ K = Below(c, H \cup {n}, v)
  OBVIOUS
<1>5. IsFiniteSet(G) /\ n \notin G /\ Cardinality(G) \in Nat
  <2>1. G \in SUBSET H /\ n \notin G
    BY <1>4 DEF Below
  <2>2. IsFiniteSet(G)
    BY <2>1, FS_Subset
  <2> QED
    BY <2>1, <2>2, FS_CardinalityType
<1>6. K = IF v \in PathTo(x) THEN G \cup {n} ELSE G
  BY <1>4 DEF Below
<1>7. CASE v \in PathTo(x)
  <2>1. Cardinality(K) = Cardinality(G) + 1
    BY <1>5, <1>6, <1>7, FS_AddElement
  <2>2. COUNT_MAX \in Nat
    BY CountsAssumption
  <2>3. Capped(Cardinality(K), COUNT_MAX) = More(Capped(Cardinality(G), COUNT_MAX), COUNT_MAX)
    BY <1>5, <2>1, <2>2, CappedMore
  <2> QED
    BY <1>1, <1>2, <1>3, <1>4, <1>7, <2>3 DEF OneMoreBelow
<1>8. CASE v \notin PathTo(x)
  BY <1>1, <1>2, <1>3, <1>4, <1>6, <1>8 DEF OneMoreBelow
<1> QED
  BY <1>7, <1>8

\* An order of the PPM that has seen b: the tree, the escape count and the
\* symbols of each slot are those of the places of the slot.
SlotTrue(o, b, s, H) ==
  /\ o.tree[s] = [v \in Nodes |-> Capped(Cardinality(Below(b, H, v)), COUNT_MAX)]
  /\ o.distinct[s] = Capped(Cardinality(Symbols(b, H)), COUNT_MAX)
  /\ o.seen[s] = Symbols(b, H) /\ IsFiniteSet(o.seen[s])

Kept(k, o, b) ==
  /\ \E tr, di, se, id :
       /\ o = [tree |-> tr, distinct |-> di, seen |-> se, idx |-> id]
       /\ DOMAIN tr = 0 .. PpmSlots[k] - 1 /\ DOMAIN di = 0 .. PpmSlots[k] - 1
       /\ DOMAIN se = 0 .. PpmSlots[k] - 1
  /\ \A s \in 0 .. PpmSlots[k] - 1 : SlotTrue(o, b, s, PpmHere(k, b, s))

\* And the slot of the bytes at the end is selected.
Heeds(k, o, b) == Kept(k, o, b) /\ o.idx = PpmSlot(k, b, Len(b))

LEMMA PpmFirst ==
  ASSUME NEW k
  PROVE  Kept(k, NewPpmOrder(PpmSlots[k]), <<>>)
<1>1. PICK tr, di, se :
        /\ tr = [s \in 0 .. PpmSlots[k] - 1 |-> [v \in Nodes |-> 0]]
        /\ di = [s \in 0 .. PpmSlots[k] - 1 |-> 0]
        /\ se = [s \in 0 .. PpmSlots[k] - 1 |-> {}]
  OBVIOUS
<1>2. PICK o : o = NewPpmOrder(PpmSlots[k])
  OBVIOUS
<1>3. o = [tree |-> tr, distinct |-> di, seen |-> se, idx |-> 0]
  BY <1>1, <1>2 DEF NewPpmOrder
<1>4. DOMAIN tr = 0 .. PpmSlots[k] - 1 /\ DOMAIN di = 0 .. PpmSlots[k] - 1
      /\ DOMAIN se = 0 .. PpmSlots[k] - 1
  BY <1>1
<1>5. Capped(0, COUNT_MAX) = 0
  BY CountsAssumption DEF Capped
<1>6. ASSUME NEW s \in 0 .. PpmSlots[k] - 1 PROVE SlotTrue(o, <<>>, s, PpmHere(k, <<>>, s))
  <2>1. PICK H : H = PpmHere(k, <<>>, s)
    OBVIOUS
  <2>2. H = {}
    BY <2>1 DEF PpmHere
  <2>3. Symbols(<<>>, H) = {} /\ \A v : Below(<<>>, H, v) = {}
    BY <2>2 DEF Symbols, Below
  <2>4. Cardinality({}) = 0 /\ IsFiniteSet({})
    BY FS_EmptySet
  <2>5. o.tree[s] = [v \in Nodes |-> 0] /\ o.distinct[s] = 0 /\ o.seen[s] = {}
    BY <1>1, <1>3, <1>6
  <2>6. \A v : Capped(Cardinality(Below(<<>>, H, v)), COUNT_MAX) = 0
    BY <1>5, <2>3, <2>4
  <2>7. o.tree[s] = [v \in Nodes |-> Capped(Cardinality(Below(<<>>, H, v)), COUNT_MAX)]
    BY <2>5, <2>6
  <2>8. o.distinct[s] = Capped(Cardinality(Symbols(<<>>, H)), COUNT_MAX)
    BY <1>5, <2>3, <2>4, <2>5
  <2>9. SlotTrue(o, <<>>, s, H)
    BY <2>3, <2>4, <2>5, <2>7, <2>8 DEF SlotTrue
  <2> QED
    BY <2>1, <2>9
<1>7. Kept(k, o, <<>>)
  BY <1>3, <1>4, <1>6 DEF Kept
<1> QED
  BY <1>2, <1>7

LEMMA PpmSelects ==
  ASSUME NEW k \in 1 .. NP, NEW b \in Seq(Byte), NEW o, Kept(k, o, b)
  PROVE  Heeds(k, SelectPpm(PpmSlots[k], o, IF b = <<>> THEN 0 ELSE Hash(Order(b, k))), b)
<1>1. PICK tr, di, se, id :
        /\ o = [tree |-> tr, distinct |-> di, seen |-> se, idx |-> id]
        /\ DOMAIN tr = 0 .. PpmSlots[k] - 1 /\ DOMAIN di = 0 .. PpmSlots[k] - 1
        /\ DOMAIN se = 0 .. PpmSlots[k] - 1
  BY DEF Kept
<1>2. \A s \in 0 .. PpmSlots[k] - 1 : SlotTrue(o, b, s, PpmHere(k, b, s))
  BY DEF Kept
<1>3. PICK i : i = (IF b = <<>> THEN 0 ELSE Hash(Order(b, k))) % PpmSlots[k]
  OBVIOUS
<1>4. i = PpmSlot(k, b, Len(b))
  <2>1. CASE b = <<>>
    <3>1. PpmSlots[k] \in Nat \ {0}
      BY CountsAssumption
    <3>2. i = 0 % PpmSlots[k] /\ Len(b) = 0
      BY <1>3, <2>1
    <3>3. i = 0
      BY <3>1, <3>2
    <3> QED
      BY <3>2, <3>3 DEF PpmSlot
  <2>2. CASE b # <<>>
    <3>1. Len(b) # 0 /\ SubSeq(b, 1, Len(b)) = b
      BY <2>2
    <3> QED
      BY <1>3, <2>2, <3>1 DEF PpmSlot
  <2> QED
    BY <2>1, <2>2
<1>5. PICK v : v = SelectPpm(PpmSlots[k], o, IF b = <<>> THEN 0 ELSE Hash(Order(b, k)))
  OBVIOUS
<1>6. v = [tree |-> tr, distinct |-> di, seen |-> se, idx |-> i]
  <2>1. v = [o EXCEPT !.idx = i]
    BY <1>3, <1>5 DEF SelectPpm
  <2> QED
    BY <1>1, <2>1
<1>7. v.tree = o.tree /\ v.distinct = o.distinct /\ v.seen = o.seen /\ v.idx = i
  BY <1>1, <1>6
<1>8. \A s \in 0 .. PpmSlots[k] - 1 : SlotTrue(v, b, s, PpmHere(k, b, s))
  BY <1>2, <1>7 DEF SlotTrue
<1>9. Kept(k, v, b)
  <2>1. \E a, d, e, j : /\ v = [tree |-> a, distinct |-> d, seen |-> e, idx |-> j]
                        /\ DOMAIN a = 0 .. PpmSlots[k] - 1 /\ DOMAIN d = 0 .. PpmSlots[k] - 1
                        /\ DOMAIN e = 0 .. PpmSlots[k] - 1
    BY <1>1, <1>6
  <2> QED
    BY <1>8, <2>1 DEF Kept
<1>10. Heeds(k, v, b)
  BY <1>4, <1>7, <1>9 DEF Heeds
<1> QED
  BY <1>5, <1>10

LEMMA PpmLearns ==
  ASSUME NEW k, NEW b \in Seq(Byte), NEW x \in Byte, NEW o, Heeds(k, o, b)
  PROVE  Kept(k, UpdatePpm(o, x), Append(b, x))
<1>1. PICK tr, di, se, id :
        /\ o = [tree |-> tr, distinct |-> di, seen |-> se, idx |-> id]
        /\ DOMAIN tr = 0 .. PpmSlots[k] - 1 /\ DOMAIN di = 0 .. PpmSlots[k] - 1
        /\ DOMAIN se = 0 .. PpmSlots[k] - 1
  BY DEF Heeds, Kept
<1>2. \A s \in 0 .. PpmSlots[k] - 1 : SlotTrue(o, b, s, PpmHere(k, b, s))
  BY DEF Heeds, Kept
<1>3. id = PpmSlot(k, b, Len(b)) /\ o.tree = tr /\ o.distinct = di /\ o.seen = se
  BY <1>1 DEF Heeds
<1>4. PICK st, ds, ts :
        /\ st = se[id] \cup {x}
        /\ ds = IF x \in se[id] THEN di[id] ELSE More(di[id], COUNT_MAX)
        /\ ts = [v \in Nodes |-> IF v \in PathTo(x) THEN More(tr[id][v], COUNT_MAX)
                                 ELSE tr[id][v]]
  OBVIOUS
<1>5. PICK ta, da, sa : /\ ta = [tr EXCEPT ![id] = ts] /\ da = [di EXCEPT ![id] = ds]
                        /\ sa = [se EXCEPT ![id] = st]
  OBVIOUS
<1>6. PICK w, c : w = UpdatePpm(o, x) /\ c = Append(b, x)
  OBVIOUS
<1>7. w = [tree |-> ta, distinct |-> da, seen |-> sa, idx |-> id]
  <2>1. o.idx = id
    BY <1>1
  <2>2. w = [o EXCEPT !.seen = sa, !.distinct = da, !.tree = ta]
    <3>1. sa = [o.seen EXCEPT ![o.idx] = o.seen[o.idx] \cup {x}]
      BY <1>3, <1>4, <1>5, <2>1
    <3>2. da = [o.distinct EXCEPT ![o.idx] =
                  IF x \in o.seen[o.idx] THEN o.distinct[o.idx]
                  ELSE More(o.distinct[o.idx], COUNT_MAX)]
      BY <1>3, <1>4, <1>5, <2>1
    <3>3. ta = [o.tree EXCEPT ![o.idx] =
                  [v \in Nodes |-> IF v \in PathTo(x) THEN More(o.tree[o.idx][v], COUNT_MAX)
                                   ELSE o.tree[o.idx][v]]]
      BY <1>3, <1>4, <1>5, <2>1
    <3> QED
      BY <1>6, <3>1, <3>2, <3>3 DEF UpdatePpm
  <2> QED
    BY <1>1, <2>2
<1>8. DOMAIN ta = 0 .. PpmSlots[k] - 1 /\ DOMAIN da = 0 .. PpmSlots[k] - 1
      /\ DOMAIN sa = 0 .. PpmSlots[k] - 1
  BY <1>1, <1>5
<1>9. ASSUME NEW s \in 0 .. PpmSlots[k] - 1 PROVE SlotTrue(w, c, s, PpmHere(k, c, s))
  <2>1. PICK H, n : H = PpmHere(k, b, s) /\ n = Len(b)
    OBVIOUS
  <2>2. /\ tr[s] = [v \in Nodes |-> Capped(Cardinality(Below(b, H, v)), COUNT_MAX)]
        /\ di[s] = Capped(Cardinality(Symbols(b, H)), COUNT_MAX)
        /\ se[s] = Symbols(b, H) /\ IsFiniteSet(se[s])
    <3>1. SlotTrue(o, b, s, H)
      BY <1>2, <1>9, <2>1
    <3> QED
      BY <1>3, <3>1 DEF SlotTrue
  <2>3. PpmHere(k, c, s) = IF id = s THEN H \cup {n} ELSE H
    <3>1. PpmHere(k, Append(b, x), s) =
            IF PpmSlot(k, b, Len(b)) = s THEN PpmHere(k, b, s) \cup {Len(b)}
            ELSE PpmHere(k, b, s)
      BY PpmHereGrows
    <3> QED
      BY <1>3, <1>6, <2>1, <3>1
  <2>4. IsFiniteSet(H) /\ n \notin H /\ \A p \in H : c[p + 1] = b[p + 1]
    <3>1. IsFiniteSet(H) /\ n \notin H /\ \A p \in H : p + 1 \in 1 .. Len(b)
      BY <2>1, HereBelow
    <3>2. \A j \in 1 .. Len(b) : c[j] = b[j]
      BY <1>6, Beginning
    <3> QED
      BY <3>1, <3>2
  <2>5. c[n + 1] = x
    BY <1>6, <2>1, Beginning
  <2>6. ASSUME NEW v
        PROVE  /\ Symbols(c, H) = Symbols(b, H)
               /\ Symbols(c, H \cup {n}) = Symbols(b, H) \cup {x}
               /\ Below(c, H, v) = Below(b, H, v)
               /\ Capped(Cardinality(Below(c, H \cup {n}, v)), COUNT_MAX) =
                    IF v \in PathTo(x)
                    THEN More(Capped(Cardinality(Below(b, H, v)), COUNT_MAX), COUNT_MAX)
                    ELSE Capped(Cardinality(Below(b, H, v)), COUNT_MAX)
    <3>1. OneMoreBelow(b, c, H, n, x, v)
      BY <2>4, <2>5, BelowGrows
    <3> QED
      BY <3>1 DEF OneMoreBelow
  <2>7. CASE id # s
    <3>1. w.tree[s] = tr[s] /\ w.distinct[s] = di[s] /\ w.seen[s] = se[s]
      BY <1>1, <1>5, <1>7, <1>9, <2>7
    <3>2. [v \in Nodes |-> Capped(Cardinality(Below(c, H, v)), COUNT_MAX)]
            = [v \in Nodes |-> Capped(Cardinality(Below(b, H, v)), COUNT_MAX)]
      BY <2>6
    <3>3. SlotTrue(w, c, s, H)
      BY <2>2, <2>6, <3>1, <3>2 DEF SlotTrue
    <3> QED
      BY <2>3, <2>7, <3>3
  <2>8. CASE id = s
    <3>1. w.tree[s] = ts /\ w.distinct[s] = ds /\ w.seen[s] = st
      BY <1>1, <1>5, <1>7, <1>9, <2>8
    <3>2. PICK K, Q, R : K = H \cup {n} /\ Q = Symbols(b, H) /\ R = Symbols(c, K)
      OBVIOUS
    <3>3. R = Q \cup {x} /\ st = R
      BY <1>4, <2>2, <2>6, <2>8, <3>2
    <3>4. IsFiniteSet(Q) /\ Cardinality(Q) \in Nat
      BY <2>2, <3>2, FS_CardinalityType
    <3>5. IsFiniteSet(R) /\ Cardinality(R) = IF x \in Q THEN Cardinality(Q)
                                             ELSE Cardinality(Q) + 1
      BY <3>3, <3>4, FS_AddElement
    <3>6. ds = Capped(Cardinality(R), COUNT_MAX)
      <4>1. COUNT_MAX \in Nat
        BY CountsAssumption
      <4>2. Capped(Cardinality(Q) + 1, COUNT_MAX) = More(Capped(Cardinality(Q), COUNT_MAX), COUNT_MAX)
        BY <3>4, <4>1, CappedMore
      <4>3. ds = IF x \in Q THEN Capped(Cardinality(Q), COUNT_MAX)
                 ELSE More(Capped(Cardinality(Q), COUNT_MAX), COUNT_MAX)
        BY <1>4, <2>2, <2>8, <3>2
      <4> QED
        BY <3>5, <4>2, <4>3
    <3>7. ts = [v \in Nodes |-> Capped(Cardinality(Below(c, K, v)), COUNT_MAX)]
      <4>1. ASSUME NEW v \in Nodes
            PROVE  (IF v \in PathTo(x) THEN More(tr[id][v], COUNT_MAX) ELSE tr[id][v])
                     = Capped(Cardinality(Below(c, K, v)), COUNT_MAX)
        <5>1. PICK a : a = Capped(Cardinality(Below(b, H, v)), COUNT_MAX)
          OBVIOUS
        <5>2. tr[id][v] = a
          BY <2>2, <2>8, <4>1, <5>1
        <5>3. Capped(Cardinality(Below(c, K, v)), COUNT_MAX) =
                IF v \in PathTo(x) THEN More(a, COUNT_MAX) ELSE a
          BY <2>6, <3>2, <5>1
        <5> QED
          BY <5>2, <5>3
      <4> QED
        BY <1>4, <4>1
    <3>8. SlotTrue(w, c, s, K)
      BY <3>1, <3>2, <3>3, <3>5, <3>6, <3>7 DEF SlotTrue
    <3> QED
      BY <2>3, <2>8, <3>2, <3>8
  <2> QED
    BY <2>7, <2>8
<1>10. Kept(k, w, c)
  BY <1>7, <1>8, <1>9 DEF Kept
<1> QED
  BY <1>6, <1>10

LEMMA HeedsTrue ==
  ASSUME NEW k, NEW o, Heeds(k, o, buf)
  PROVE  PpmHistory(k, o)
<1> SUFFICES ASSUME NEW s \in 0 .. PpmSlots[k] - 1, NEW H, H = PpmHere(k, buf, s)
             PROVE  /\ \A v \in Nodes : o.tree[s][v] =
                         Capped(Cardinality({p \in H : v \in PathTo(buf[p + 1])}), COUNT_MAX)
                    /\ o.distinct[s] = Capped(Cardinality({buf[p + 1] : p \in H}), COUNT_MAX)
  BY DEF PpmHistory, PpmHere, PpmSlot
<1>1. SlotTrue(o, buf, s, H)
  BY DEF Heeds, Kept
<1>2. o.tree[s] = [v \in Nodes |-> Capped(Cardinality(Below(buf, H, v)), COUNT_MAX)]
      /\ o.distinct[s] = Capped(Cardinality(Symbols(buf, H)), COUNT_MAX)
  BY <1>1 DEF SlotTrue
<1>3. \A v \in Nodes : o.tree[s][v] = Capped(Cardinality(Below(buf, H, v)), COUNT_MAX)
  BY <1>2
<1> QED
  BY <1>2, <1>3 DEF Below, Symbols
-----------------------------------------------------------------------------
(* All histories.                                                          *)

HistoriesInv ==
  /\ IsFiniteSet(Coded(buf, c0))
  /\ \A i \in 1 .. NE :
       Experts[i].kind = "indirect" => Listens(Experts[i], indirect[i], buf)
  /\ \A k \in 1 .. NS :
       Counts(StateExperts[k], states[k], buf, Coded(buf, c0), c0, stage = "update")
  /\ \A k \in 1 .. NP : Heeds(k, ppm[k], buf)

LEMMA IndirectHist ==
  ASSUME NEW i \in 1 .. NE, Experts[i].kind = "indirect"
  PROVE  Experts[i].hist \in Nat \ {0}
  BY ExpertsAssumption

LEMMA HistoriesInit == Init => HistoriesInv
<1> SUFFICES ASSUME Init PROVE HistoriesInv
  OBVIOUS
<1>1. buf = <<>> /\ c0 = 1 /\ (stage = "update") = FALSE
  BY DEF Init
<1>2. Coded(<<>>, 1) = {}
  <2>1. Len(<<>>) = 0 /\ BitsOf(Len(<<>>), 1) = {}
    BY NoBitYet
  <2>2. ASSUME NEW x, x \in Coded(<<>>, 1) PROVE FALSE
    <3>1. \/ \E p \in 0 .. Len(<<>>) - 1 : x \in BitsOf(p, 2 ^ (2 * D) + <<>>[p + 1])
          \/ x \in BitsOf(Len(<<>>), 1)
      BY <2>2, CodedIs
    <3> QED
      BY <2>1, <3>1
  <2> QED
    BY <2>2
<1>3. IsFiniteSet({})
  BY FS_EmptySet
<1>4. ASSUME NEW i \in 1 .. NE, Experts[i].kind = "indirect"
      PROVE  Listens(Experts[i], indirect[i], <<>>)
  <2>1. indirect[i] = Refresh(Experts[i], NewIndirectState(Experts[i]), <<>>,
                              Hash(Order(<<>>, Experts[i].order)))
    BY <1>4 DEF Init, IndirectAfter
  <2>2. Listens(Experts[i], Refresh(Experts[i], NewIndirectState(Experts[i]), <<>>,
                                    Hash(Order(<<>>, Experts[i].order))), <<>>)
    BY <1>4, IndirectHist, ListensFirst
  <2> QED
    BY <2>1, <2>2
<1>5. ASSUME NEW k \in 1 .. NS
      PROVE  Counts(StateExperts[k], states[k], <<>>, {}, 1, FALSE)
  <2>1. PICK e : e = StateExperts[k]
    OBVIOUS
  <2>2. states[k] = [NewStateModel(e) EXCEPT !.ctx = Hash(Order(<<>>, e.order))]
    BY <2>1 DEF Init, StatesAfter
  <2>3. Counts(e, [NewStateModel(e) EXCEPT !.ctx = Hash(Order(<<>>, e.order))], <<>>, {}, 1,
               FALSE)
    BY CountsFirst
  <2> QED
    BY <2>1, <2>2, <2>3
<1>6. ASSUME NEW k \in 1 .. NP PROVE Heeds(k, ppm[k], <<>>)
  <2>1. PICK o : o = NewPpmOrder(PpmSlots[k])
    OBVIOUS
  <2>2. PICK e : e = <<>> /\ e \in Seq(Byte)
    BY EmptySeq
  <2>3. ppm[k] = SelectPpm(PpmSlots[k], o, IF e = <<>> THEN 0 ELSE Hash(Order(e, k)))
    BY <2>1, <2>2 DEF Init, PpmSelected
  <2>4. Kept(k, o, e)
    BY <2>1, <2>2, PpmFirst
  <2>5. Heeds(k, SelectPpm(PpmSlots[k], o, IF e = <<>> THEN 0 ELSE Hash(Order(e, k))), e)
    BY <2>2, <2>4, PpmSelects
  <2> QED
    BY <2>2, <2>3, <2>5
<1> QED
  BY <1>1, <1>2, <1>3, <1>4, <1>5, <1>6 DEF HistoriesInv

\* A bit that is coded is one more bit, and counted in every state expert.
LEMMA BitCounted ==
  ASSUME MatchInv, BucketsInv, HistoriesInv, stage = "update", NEW bit \in {0, 1}, NEW d
  PROVE  /\ IsFiniteSet(Coded(buf, 2 * c0 + bit))
         /\ \A k \in 1 .. NS : Counts(StateExperts[k], UpdateState(states[k], bit), buf,
                                      Coded(buf, 2 * c0 + bit), d, FALSE)
<1>1. buf \in Seq(Byte) /\ c0 \in Nat /\ 1 <= c0 /\ c0 < 2 ^ (2 * D)
  BY DEF MatchInv, BucketsInv
<1>2. PICK C, n, new : /\ C = Coded(buf, c0) /\ n = Coded(buf, 2 * c0 + bit)
                       /\ new = [at |-> Len(buf), c0 |-> c0, bit |-> bit]
  OBVIOUS
<1>3. n = C \cup {new} /\ new \notin C
  BY <1>1, <1>2, CodedGrows
<1>4. IsFiniteSet(C)
  BY <1>2 DEF HistoriesInv
<1>5. IsFiniteSet(n)
  BY <1>3, <1>4, FS_AddElement
<1>6. new.at = Len(buf) /\ new.c0 = c0 /\ new.bit = bit
  BY <1>2
<1>7. ASSUME NEW k \in 1 .. NS
      PROVE  Counts(StateExperts[k], UpdateState(states[k], bit), buf, n, d, FALSE)
  <2>1. PICK e, m : e = StateExperts[k] /\ m = states[k]
    OBVIOUS
  <2>2. (stage = "update") = TRUE
    OBVIOUS
  <2>3. Counts(e, m, buf, C, c0, TRUE)
    BY <1>2, <2>1, <2>2 DEF HistoriesInv
  <2>4. Counts(e, UpdateState(m, bit), buf, C \cup {new}, d, FALSE)
    BY <1>1, <1>3, <1>4, <1>6, <2>3, CountsBit
  <2> QED
    BY <1>3, <2>1, <2>4
<1> QED
  BY <1>2, <1>5, <1>7

LEMMA HistoriesStep ==
  MatchInv /\ BucketsInv /\ HistoriesInv /\ [Next]_vars => HistoriesInv'
<1> SUFFICES ASSUME MatchInv, BucketsInv, HistoriesInv, [Next]_vars PROVE HistoriesInv'
  OBVIOUS
<1>1. buf \in Seq(Byte) /\ c0 \in Nat
  BY DEF MatchInv, BucketsInv
<1>2. CASE Predict
  <2>1. /\ buf' = buf /\ c0' = c0 /\ indirect' = indirect /\ ppm' = ppm
        /\ states' = [k \in 1 .. NS |-> BeginState(StateExperts[k], states[k], c0)]
        /\ (stage' = "update") = TRUE
    BY <1>2 DEF Predict
  <2>2. ASSUME NEW k \in 1 .. NS
        PROVE  Counts(StateExperts[k], states'[k], buf, Coded(buf, c0), c0, TRUE)
    <3>1. PICK e, m, C, sel : /\ e = StateExperts[k] /\ m = states[k]
                              /\ C = Coded(buf, c0) /\ sel = (stage = "update")
      OBVIOUS
    <3>2. Counts(e, m, buf, C, c0, sel)
      BY <3>1 DEF HistoriesInv
    <3>3. Counts(e, BeginState(e, m, c0), buf, C, c0, TRUE)
      BY <3>2, CountsBegin
    <3>4. states'[k] = BeginState(e, m, c0)
      BY <2>1, <3>1
    <3> QED
      BY <3>1, <3>3, <3>4
  <2> QED
    BY <2>1, <2>2 DEF HistoriesInv
<1>3. CASE UpdateBit
  <2>1. PICK bit \in {0, 1} :
          /\ stage = "update" /\ c0' = 2 * c0 + bit /\ states' = StatesTrained(bit)
          /\ stage' = "predict" /\ buf' = buf /\ indirect' = indirect /\ ppm' = ppm
    BY <1>3 DEF UpdateBit
  <2>2. PICK d : d = 2 * c0 + bit
    OBVIOUS
  <2>3. /\ IsFiniteSet(Coded(buf, 2 * c0 + bit))
        /\ \A k \in 1 .. NS : Counts(StateExperts[k], UpdateState(states[k], bit), buf,
                                     Coded(buf, 2 * c0 + bit), d, FALSE)
    BY <2>1, BitCounted
  <2>4. \A k \in 1 .. NS : Counts(StateExperts[k], states'[k], buf, Coded(buf, d), d, FALSE)
    BY <2>1, <2>2, <2>3 DEF StatesTrained
  <2>5. (stage' = "update") = FALSE /\ c0' = d /\ IsFiniteSet(Coded(buf, d))
    BY <2>1, <2>2, <2>3
  <2> QED
    BY <2>1, <2>4, <2>5 DEF HistoriesInv
<1>4. CASE UpdateByte
  <2>1. PICK bit \in {0, 1}, x \in Alphabet :
          /\ stage = "update" /\ 2 * c0 + bit = 2 ^ (2 * D) + x /\ c0' = 1
          /\ buf' = Append(buf, x) /\ ppm' = PpmAfter(ppm, buf')
          /\ indirect' = IndirectAfter(indirect, buf')
          /\ states' = StatesAfter(StatesTrained(bit), buf') /\ stage' = "predict"
    BY <1>4 DEF UpdateByte
  <2>2. x \in Byte
    BY AlphabetAssumption
  <2>3. PICK b, C : b = Append(buf, x) /\ C = Coded(buf, 2 * c0 + bit)
    OBVIOUS
  <2>4. b \in Seq(Byte) /\ b[Len(b)] = x
    BY <1>1, <2>2, <2>3
  <2>5. Coded(b, 1) = C
    <3>1. Coded(Append(buf, x), 1) = Coded(buf, 2 ^ (2 * D) + x)
      BY <1>1, <2>2, CodedTurns
    <3> QED
      BY <2>1, <2>3, <3>1
  <2>6. /\ IsFiniteSet(C)
        /\ \A k \in 1 .. NS :
             Counts(StateExperts[k], UpdateState(states[k], bit), buf, C, 1, FALSE)
    BY <2>1, <2>3, BitCounted
  <2>7. \A y \in C : y.at \in 0 .. Len(buf)
    BY <1>1, <2>3, CodedPlaces
  <2>8. ASSUME NEW k \in 1 .. NS
        PROVE  Counts(StateExperts[k], states'[k], b, C, 1, FALSE)
    <3>1. PICK e, m : e = StateExperts[k] /\ m = UpdateState(states[k], bit)
      OBVIOUS
    <3>2. Counts(e, m, buf, C, 1, FALSE)
      BY <2>6, <3>1
    <3>3. Counts(e, [m EXCEPT !.ctx = Hash(Order(Append(buf, x), e.order))], Append(buf, x),
                 C, 1, FALSE)
      BY <1>1, <2>2, <2>7, <3>2, CountsByte
    <3>4. states'[k] = [m EXCEPT !.ctx = Hash(Order(b, e.order))]
      BY <2>1, <2>3, <3>1 DEF StatesAfter, StatesTrained
    <3> QED
      BY <2>3, <3>1, <3>3, <3>4
  <2>9. ASSUME NEW i \in 1 .. NE, Experts[i].kind = "indirect"
        PROVE  Listens(Experts[i], indirect'[i], b)
    <3>1. PICK e, st : e = Experts[i] /\ st = indirect[i]
      OBVIOUS
    <3>2. e.hist \in Nat \ {0} /\ Listens(e, st, buf)
      BY <2>9, <3>1, IndirectHist DEF HistoriesInv
    <3>3. Listens(e, Refresh(e, st, Append(buf, x), Hash(Order(Append(buf, x), e.order))),
                  Append(buf, x))
      BY <1>1, <2>2, <3>2, ListensOn
    <3>4. indirect'[i] = Refresh(e, st, b, Hash(Order(b, e.order)))
      BY <2>1, <2>3, <2>9, <3>1 DEF IndirectAfter
    <3> QED
      BY <2>3, <3>1, <3>3, <3>4
  <2>10. ASSUME NEW k \in 1 .. NP PROVE Heeds(k, ppm'[k], b)
    <3>1. PICK o, w : o = ppm[k] /\ w = UpdatePpm(o, x)
      OBVIOUS
    <3>2. Heeds(k, o, buf)
      BY <3>1 DEF HistoriesInv
    <3>3. Kept(k, w, b)
      BY <1>1, <2>2, <2>3, <3>1, <3>2, PpmLearns
    <3>4. Heeds(k, SelectPpm(PpmSlots[k], w, IF b = <<>> THEN 0 ELSE Hash(Order(b, k))), b)
      BY <2>4, <3>3, PpmSelects
    <3>5. ppm'[k] = SelectPpm(PpmSlots[k], w, IF b = <<>> THEN 0 ELSE Hash(Order(b, k)))
      BY <2>1, <2>3, <2>4, <3>1 DEF PpmAfter, PpmSelected
    <3> QED
      BY <3>4, <3>5
  <2>11. buf' = b /\ c0' = 1 /\ (stage' = "update") = FALSE
    BY <2>1, <2>3
  <2> QED
    BY <2>5, <2>6, <2>8, <2>9, <2>10, <2>11 DEF HistoriesInv
<1>5. CASE UNCHANGED vars
  <2>1. UNCHANGED <<buf, c0, indirect, states, ppm, stage>>
    BY <1>5 DEF vars
  <2> QED
    BY <2>1 DEF HistoriesInv
<1> QED
  BY <1>2, <1>3, <1>4, <1>5 DEF Next

\* Whatever roster, contexts and input: what the indirect experts, the state
\* experts and the orders of the PPM remember in a slot is exactly what
\* followed the contexts of the slot.
THEOREM HistoriesAreTrue == Spec => []HistoriesTrue
<1>1. ASSUME HistoriesInv PROVE HistoriesTrue
  <2>1. ASSUME NEW i \in 1 .. NE, Experts[i].kind = "indirect"
        PROVE  IndirectHistory(Experts[i], indirect[i].table)
    <3>1. Listens(Experts[i], indirect[i], buf)
      BY <1>1, <2>1 DEF HistoriesInv
    <3> QED
      BY <3>1 DEF Listens, IndirectHistory
  <2>2. ASSUME NEW k \in 1 .. NS PROVE StateHistory(StateExperts[k], states[k].table)
    <3>1. PICK sel : sel = (stage = "update")
      OBVIOUS
    <3>2. Counts(StateExperts[k], states[k], buf, CodedBits, c0, sel)
      BY <1>1, <3>1, CodedBitsAre DEF HistoriesInv
    <3> QED
      BY <3>2, CountsTrue
  <2>3. ASSUME NEW k \in 1 .. NP PROVE PpmHistory(k, ppm[k])
    <3>1. Heeds(k, ppm[k], buf)
      BY <1>1 DEF HistoriesInv
    <3> QED
      BY <3>1, HeedsTrue
  <2> QED
    BY <2>1, <2>2, <2>3 DEF HistoriesTrue
<1>2. HistoriesInv => HistoriesTrue
  BY <1>1
<1> QED
  BY <1>2, InitMatchInv, StepMatchInv, ExpertsInit, MarkedStep, BucketsInit, BucketsStep,
     HistoriesInit, HistoriesStep, PTL DEF Spec
=============================================================================
