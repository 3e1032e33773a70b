-------------------------- MODULE RangeCoderProofs --------------------------
(***************************************************************************)
(* Proofs about RangeCoder, for every radix, scale and set of              *)
(* probabilities.                                                          *)
(***************************************************************************)
EXTENDS RangeCoder, SequenceTheorems, TLAPS

-----------------------------------------------------------------------------
(* Arithmetic. *)

LEMMA MulMono ==
  ASSUME NEW a \in Nat, NEW b \in Nat, NEW m \in Nat, a <= b
  PROVE  a * m <= b * m
  OBVIOUS

LEMMA DivMod ==
  ASSUME NEW a \in Nat, NEW m \in Nat \ {0}
  PROVE  /\ a \div m \in Nat
         /\ a % m \in 0 .. m - 1
         /\ a = (a \div m) * m + (a % m)
  OBVIOUS

LEMMA DivModUnique ==
  ASSUME NEW m \in Nat \ {0}, NEW q \in Nat, NEW r \in 0 .. m - 1
  PROVE  /\ (q * m + r) \div m = q
         /\ (q * m + r) % m = r
  OBVIOUS

LEMMA NarrowOrder ==
  ASSUME NEW x1 \in Nat, NEW x2 \in Nat, x1 < x2, NEW p \in Nat
  PROVE  /\ Split(x1, x2, p) \in Nat
         /\ x1 <= Split(x1, x2, p)
         /\ Split(x1, x2, p) < x2
<1> DEFINE range == x2 - x1
           q == range \div PROB_SCALE
           c == Clamp(p)
<1>1. c \in 1 .. PROB_SCALE - 1
  BY ScaleAssumption DEF Clamp
<1>2. q \in Nat /\ range \in Nat /\ q * PROB_SCALE <= range
  <2>1. range \in Nat /\ PROB_SCALE \in Nat \ {0}
    BY ScaleAssumption
  <2>2. /\ q \in Nat
        /\ range % PROB_SCALE \in 0 .. PROB_SCALE - 1
        /\ range = q * PROB_SCALE + (range % PROB_SCALE)
    BY <2>1, DivMod
  <2>3. q * PROB_SCALE \in Nat
    BY <2>1, <2>2
  <2>4. QED
    BY <2>1, <2>2, <2>3
<1> HIDE DEF q, c, range
<1>3. q * c <= q * (PROB_SCALE - 1)
  BY <1>1, <1>2, ScaleAssumption
<1>4. q * (PROB_SCALE - 1) = q * PROB_SCALE - q
  BY <1>2, ScaleAssumption
<1>5. q * c \in Nat /\ q * PROB_SCALE \in Nat
  BY <1>1, <1>2, ScaleAssumption
<1>6. q * c <= range - q
  BY <1>2, <1>3, <1>4, <1>5
<1>7. range >= 1 /\ (q = 0 => q * c = 0)
  BY <1>1 DEF range
<1>8. q * c < range
  BY <1>2, <1>5, <1>6, <1>7
<1>9. QED
  BY <1>5, <1>8 DEF Split, q, c, range

LEMMA Constants ==
  /\ Radix \in Nat /\ Radix >= 2
  /\ TOP \in Nat \ {0} /\ WORD \in Nat \ {0}
  /\ WORD = TOP * Radix
  /\ TOP >= 2 /\ WORD >= 2
<1>1. Radix * Radix \in Nat /\ Radix * Radix >= 2
  BY RadixAssumption, MulMono
<1>2. TOP \in Nat /\ TOP >= 2
  <2>1. (Radix * Radix) * Radix >= 2
    BY <1>1, RadixAssumption
  <2>2. QED BY <2>1, <1>1, RadixAssumption DEF TOP
<1>3. WORD \in Nat /\ WORD >= 2
  BY <1>2, RadixAssumption DEF WORD
<1>4. QED
  BY <1>2, <1>3, RadixAssumption DEF WORD

\* A word shifted left by one byte loses its top byte and nothing else.
LEMMA ShiftWord ==
  ASSUME NEW x \in Word
  PROVE  /\ TopByte(x) \in Byte
         /\ x % TOP \in 0 .. TOP - 1
         /\ x = TopByte(x) * TOP + (x % TOP)
         /\ ShiftLow(x) = (x % TOP) * Radix
         /\ ShiftHigh(x) = (x % TOP) * Radix + (Radix - 1)
         /\ ShiftLow(x) \in Word
         /\ ShiftHigh(x) \in Word
<1> DEFINE d == x \div TOP
           r == x % TOP
<1>1. x \in Nat /\ x < TOP * Radix
  BY Constants DEF Word
<1>2. d \in Nat /\ r \in 0 .. TOP - 1 /\ x = d * TOP + r
  BY <1>1, Constants, DivMod
<1> HIDE DEF d, r
<1>3. d < Radix
  <2>1. SUFFICES ASSUME d >= Radix PROVE FALSE
    BY <1>2, Constants
  <2>2. d * TOP >= Radix * TOP
    BY <2>1, <1>2, Constants, MulMono
  <2>3. QED
    BY <1>1, <1>2, <2>2, Constants
<1>4. r * Radix \in 0 .. WORD - Radix
  <2>1. r * Radix <= (TOP - 1) * Radix
    BY <1>2, Constants, MulMono
  <2>2. (TOP - 1) * Radix = WORD - Radix
    BY Constants
  <2>3. r * Radix \in Nat
    BY <1>2, Constants
  <2>4. QED
    BY <2>1, <2>2, <2>3, Constants
<1>5. x * Radix = d * WORD + r * Radix
  BY <1>2, Constants
<1>6. (x * Radix) % WORD = r * Radix
  <2>1. r * Radix \in 0 .. WORD - 1
    BY <1>4, Constants
  <2>2. \A y \in 0 .. WORD - 1 : (d * WORD + y) % WORD = y
    BY <1>2, Constants, DivModUnique
  <2>3. (d * WORD + r * Radix) % WORD = r * Radix
    BY <2>1, <2>2
  <2>4. QED
    BY <1>5, <2>3
<1>7. ShiftLow(x) = r * Radix /\ ShiftHigh(x) = r * Radix + (Radix - 1)
  BY <1>6 DEF ShiftLow, ShiftHigh
<1>8. QED
  BY <1>2, <1>3, <1>4, <1>7, Constants DEF TopByte, Byte, Word, d, r

-----------------------------------------------------------------------------
(* The renormalisation loop keeps intervals and ends within four turns. *)

Interval(r) == r.x1 \in Word /\ r.x2 \in Word /\ r.x1 <= r.x2

LEMMA ShiftOutType ==
  ASSUME NEW e \in Encoder, e.x1 <= e.x2
  PROVE  /\ ShiftOut(e) \in Encoder
         /\ ShiftOut(e).x1 <= ShiftOut(e).x2
         /\ ~TopsEqual(e) => ShiftOut(e) = e
         /\ TopsEqual(e) =>
              /\ ShiftOut(e).out = Append(e.out, TopByte(e.x2))
              /\ ShiftOut(e).x2 - ShiftOut(e).x1 + 1
                   = (e.x2 - e.x1 + 1) * Radix
<1>1. CASE ~TopsEqual(e)
  BY <1>1 DEF ShiftOut
<1>2. CASE TopsEqual(e)
  <2> DEFINE f == ShiftOut(e)
             d == TopByte(e.x2)
             r1 == e.x1 % TOP
             r2 == e.x2 % TOP
  <2>1. e.x1 \in Word /\ e.x2 \in Word /\ e.out \in Seq(Byte)
    BY DEF Encoder
  <2>2. f = [x1 |-> ShiftLow(e.x1), x2 |-> ShiftHigh(e.x2),
             out |-> Append(e.out, d)]
    BY <1>2 DEF ShiftOut
  <2>3. d \in Byte /\ Append(e.out, d) \in Seq(Byte)
    BY <2>1, ShiftWord
  <2>4. f \in Encoder
    BY <2>1, <2>2, <2>3, ShiftWord DEF Encoder
  <2>5. /\ e.x1 = d * TOP + r1 /\ e.x2 = d * TOP + r2
        /\ d \in Nat /\ r1 \in Nat /\ r2 \in Nat
        /\ f.x1 = r1 * Radix /\ f.x2 = r2 * Radix + (Radix - 1)
    <3>1. /\ TopByte(e.x1) \in Byte /\ d \in Byte
          /\ r1 \in 0 .. TOP - 1 /\ r2 \in 0 .. TOP - 1
          /\ e.x1 = TopByte(e.x1) * TOP + r1 /\ e.x2 = d * TOP + r2
          /\ ShiftLow(e.x1) = r1 * Radix
          /\ ShiftHigh(e.x2) = r2 * Radix + (Radix - 1)
      BY <2>1, ShiftWord
    <3>2. TopByte(e.x1) = d
      BY <1>2 DEF TopsEqual
    <3>3. f.x1 = ShiftLow(e.x1) /\ f.x2 = ShiftHigh(e.x2)
      BY <2>2
    <3>4. d \in Nat /\ r1 \in Nat /\ r2 \in Nat
      BY <3>1, Constants DEF Byte
    <3> HIDE DEF d, r1, r2, f
    <3>5. QED
      BY <3>1, <3>2, <3>3, <3>4
  <2> HIDE DEF f, d, r1, r2
  <2>6. r1 <= r2
    BY <2>5, Constants
  <2>7. r1 * Radix <= r2 * Radix /\ r1 * Radix \in Nat /\ r2 * Radix \in Nat
    BY <2>5, <2>6, Constants, MulMono
  <2>8. e.x2 - e.x1 + 1 = (r2 - r1) + 1
    BY <2>5, Constants
  <2>9. ((r2 - r1) + 1) * Radix = r2 * Radix - r1 * Radix + Radix
    BY <2>5, Constants
  <2>10. /\ f.x1 <= f.x2
         /\ f.x2 - f.x1 + 1 = (e.x2 - e.x1 + 1) * Radix
    BY <2>5, <2>7, <2>8, <2>9, Constants
  <2>11. QED
    BY <1>2, <2>2, <2>4, <2>10 DEF f, d
<1>3. QED BY <1>1, <1>2

\* Four turns of the loop always leave two different top bytes.
LEMMA LoopEnds ==
  ASSUME NEW e \in Encoder, e.x1 <= e.x2
  PROVE  LET f == ShiftOut(ShiftOut(ShiftOut(ShiftOut(e))))
         IN  /\ f \in Encoder
             /\ f.x1 <= f.x2
             /\ ~TopsEqual(f)
             /\ Len(e.out) <= Len(f.out)
<1> DEFINE e1 == ShiftOut(e)
           e2 == ShiftOut(e1)
           e3 == ShiftOut(e2)
           e4 == ShiftOut(e3)
           W(r) == r.x2 - r.x1 + 1
<1>1. /\ e1 \in Encoder /\ e1.x1 <= e1.x2
      /\ ~TopsEqual(e) => e1 = e
      /\ TopsEqual(e) => W(e1) = W(e) * Radix
      /\ Len(e.out) <= Len(e1.out)
  BY ShiftOutType DEF Encoder
<1> HIDE DEF e1
<1>2. /\ e2 \in Encoder /\ e2.x1 <= e2.x2
      /\ ~TopsEqual(e1) => e2 = e1
      /\ TopsEqual(e1) => W(e2) = W(e1) * Radix
      /\ Len(e1.out) <= Len(e2.out)
  BY <1>1, ShiftOutType DEF Encoder
<1> HIDE DEF e2
<1>3. /\ e3 \in Encoder /\ e3.x1 <= e3.x2
      /\ ~TopsEqual(e2) => e3 = e2
      /\ TopsEqual(e2) => W(e3) = W(e2) * Radix
      /\ Len(e2.out) <= Len(e3.out)
  BY <1>2, ShiftOutType DEF Encoder
<1> HIDE DEF e3
<1>4. /\ e4 \in Encoder /\ e4.x1 <= e4.x2
      /\ ~TopsEqual(e3) => e4 = e3
      /\ TopsEqual(e3) => W(e4) = W(e3) * Radix
      /\ Len(e3.out) <= Len(e4.out)
  BY <1>3, ShiftOutType DEF Encoder
<1> HIDE DEF e4
<1>5. ~TopsEqual(e4)
  <2>1. SUFFICES ASSUME TopsEqual(e4) PROVE FALSE
    OBVIOUS
  <2>2. TopsEqual(e) /\ TopsEqual(e1) /\ TopsEqual(e2) /\ TopsEqual(e3)
    BY <1>1, <1>2, <1>3, <1>4, <2>1
  <2>3. W(e) \in Nat /\ W(e) >= 1
    BY DEF Encoder, Word
  <2>4. W(e1) \in Nat /\ W(e1) >= Radix
    BY <1>1, <2>2, <2>3, Constants, MulMono
  <2>5. W(e2) \in Nat /\ W(e2) >= Radix * Radix
    BY <1>2, <2>2, <2>4, Constants, MulMono
  <2>6. W(e3) \in Nat /\ W(e3) >= TOP
    BY <1>3, <2>2, <2>5, Constants, MulMono DEF TOP
  <2>7. W(e4) \in Nat /\ W(e4) >= WORD
    BY <1>4, <2>2, <2>6, Constants, MulMono DEF WORD
  <2>8. e4.x1 = 0 /\ e4.x2 = WORD - 1
    BY <1>4, <2>7, Constants DEF Encoder, Word
  <2>9. TopByte(0) = 0 /\ TopByte(WORD - 1) = Radix - 1
    <3>1. 0 = 0 * TOP + 0 /\ WORD - 1 = (Radix - 1) * TOP + (TOP - 1)
      BY Constants
    <3>2. \A q \in Nat, r \in 0 .. TOP - 1 : (q * TOP + r) \div TOP = q
      BY Constants, DivModUnique
    <3>3. (0 * TOP + 0) \div TOP = 0
      BY <3>2, Constants
    <3>4. ((Radix - 1) * TOP + (TOP - 1)) \div TOP = Radix - 1
      BY <3>2, Constants
    <3>5. QED
      BY <3>1, <3>3, <3>4 DEF TopByte
  <2>10. QED
    BY <2>1, <2>8, <2>9, Constants DEF TopsEqual
<1>6. Len(e.out) <= Len(e4.out)
  BY <1>1, <1>2, <1>3, <1>4 DEF Encoder
<1>7. QED
  BY <1>4, <1>5, <1>6 DEF e1, e2, e3, e4

-----------------------------------------------------------------------------
(* One symbol. *)

\* Tops that differ leave room for both bits.
LEMMA DistinctTops ==
  ASSUME NEW r, r.x1 <= r.x2, ~TopsEqual(r), r.x1 \in Word, r.x2 \in Word
  PROVE  r.x1 < r.x2
  BY DEF TopsEqual, Word

\* The two bits share the interval out: each gets a non-empty part of it and
\* the parts meet at the split.
LEMMA NarrowType ==
  ASSUME NEW e \in Encoder, e.x1 <= e.x2, ~TopsEqual(e),
         NEW bit \in {0, 1}, NEW p \in Nat
  PROVE  LET a == Narrow(e, bit, p)
         IN  /\ a \in Encoder
             /\ e.x1 <= a.x1 /\ a.x1 <= a.x2 /\ a.x2 <= e.x2
             /\ a.out = e.out
<1>1. e.x1 \in Word /\ e.x2 \in Word /\ e.out \in Seq(Byte)
  BY DEF Encoder
<1>2. e.x1 < e.x2
  BY <1>1, DistinctTops
<1>3. /\ Split(e.x1, e.x2, p) \in Nat
      /\ e.x1 <= Split(e.x1, e.x2, p)
      /\ Split(e.x1, e.x2, p) < e.x2
  <2>1. e.x1 \in Nat /\ e.x2 \in Nat
    BY <1>1 DEF Word
  <2>2. QED
    BY <2>1, <1>2, NarrowOrder
<1>4. Split(e.x1, e.x2, p) \in Word /\ Split(e.x1, e.x2, p) + 1 \in Word
  BY <1>1, <1>3, Constants DEF Word
<1>5. CASE bit = 1
  <2>1. Narrow(e, bit, p) =
          [x1 |-> e.x1, x2 |-> Split(e.x1, e.x2, p), out |-> e.out]
    BY <1>5 DEF Narrow, Encoder
  <2>2. QED
    BY <2>1, <1>1, <1>3, <1>4 DEF Encoder, Word
<1>6. CASE bit = 0
  <2>1. Narrow(e, bit, p) =
          [x1 |-> Split(e.x1, e.x2, p) + 1, x2 |-> e.x2, out |-> e.out]
    BY <1>6 DEF Narrow, Encoder
  <2>2. QED
    BY <2>1, <1>1, <1>3, <1>4 DEF Encoder, Word
<1>7. QED
  BY <1>5, <1>6

\* encode() keeps the encoder's documented invariant and only adds bytes.
LEMMA EncodeBitType ==
  ASSUME NEW e \in Encoder, e.x1 <= e.x2, ~TopsEqual(e),
         NEW bit \in {0, 1}, NEW p \in Nat
  PROVE  LET f == EncodeBit(e, bit, p)
         IN  /\ f \in Encoder
             /\ f.x1 <= f.x2
             /\ ~TopsEqual(f)
             /\ Len(e.out) <= Len(f.out)
<1> DEFINE a == Narrow(e, bit, p)
<1>1. a \in Encoder /\ a.x1 <= a.x2 /\ a.out = e.out
  BY NarrowType
<1> HIDE DEF a
<1>2. QED
  BY <1>1, LoopEnds DEF EncodeBit, a

-----------------------------------------------------------------------------
(* Four digits and the word they spell. *)

LEMMA DivDiv ==
  ASSUME NEW x \in Nat, NEW m \in Nat \ {0}, NEW n \in Nat \ {0}
  PROVE  x \div (m * n) = (x \div m) \div n
<1> DEFINE a == x \div m
           r == x % m
           b == a \div n
           s == a % n
<1>1. a \in Nat /\ r \in 0 .. m - 1 /\ x = a * m + r
  BY DivMod
<1> HIDE DEF a, r
<1>2. b \in Nat /\ s \in 0 .. n - 1 /\ a = b * n + s
  BY <1>1, DivMod
<1> HIDE DEF b, s
<1>3. x = b * (m * n) + (s * m + r)
  BY <1>1, <1>2
<1>4. m * n \in Nat \ {0} /\ s * m + r \in 0 .. m * n - 1
  <2>1. s * m <= (n - 1) * m /\ s * m \in Nat
    BY <1>2, MulMono
  <2>2. (n - 1) * m = m * n - m
    OBVIOUS
  <2>3. m * n \in Nat
    OBVIOUS
  <2>4. QED
    BY <1>1, <2>1, <2>2, <2>3
<1>5. \A y \in 0 .. m * n - 1 : (b * (m * n) + y) \div (m * n) = b
  BY <1>2, <1>4, DivModUnique
<1>6. (b * (m * n) + (s * m + r)) \div (m * n) = b
  BY <1>4, <1>5
<1>7. QED
  BY <1>3, <1>6 DEF a, b

\* The four bytes finish() writes spell x1.
LEMMA DigitsSpell ==
  ASSUME NEW x \in Word
  PROVE  /\ Digits(x) \in Tail4
         /\ WindowOf(Digits(x)) = x
<1> DEFINE a == x \div Radix
           b == a \div Radix
           c == b \div Radix
<1>1. x \in Nat /\ Radix \in Nat \ {0} /\ Radix * Radix \in Nat \ {0}
  BY Constants, MulMono DEF Word
<1>2. b = x \div (Radix * Radix) /\ c = x \div TOP
  <2>1. b = x \div (Radix * Radix)
    BY <1>1, DivDiv
  <2>2. x \div ((Radix * Radix) * Radix) = (x \div (Radix * Radix)) \div Radix
    BY <1>1, DivDiv
  <2>3. QED
    BY <2>1, <2>2 DEF TOP
<1>3. Digits(x) = <<c, b % Radix, a % Radix, x % Radix>>
  BY <1>2 DEF Digits
<1>4. TopByte(x) \in Byte
  BY ShiftWord
<1>5. a \in Nat /\ x % Radix \in Byte /\ x = a * Radix + (x % Radix)
  BY <1>1, DivMod DEF Byte
<1> HIDE DEF a
<1>6. b \in Nat /\ a % Radix \in Byte /\ a = b * Radix + (a % Radix)
  BY <1>1, <1>5, DivMod DEF Byte
<1> HIDE DEF b
<1>7. c \in Byte /\ b % Radix \in Byte /\ b = c * Radix + (b % Radix)
  BY <1>1, <1>2, <1>4, <1>6, DivMod DEF Byte, TopByte
<1> HIDE DEF c
<1>8. Digits(x) \in Tail4
  BY <1>3, <1>5, <1>6, <1>7 DEF Tail4
<1>9. WindowOf(Digits(x)) = x
  BY <1>3, <1>5, <1>6, <1>7 DEF WindowOf
<1>10. QED
  BY <1>8, <1>9

-----------------------------------------------------------------------------
(* Windows: the four bytes of a stream a decoder looks at. *)

\* Three digits stay below the weight of the first.
LEMMA LowDigits ==
  ASSUME NEW a \in Byte, NEW b \in Byte, NEW c \in Byte
  PROVE  (a * Radix + b) * Radix + c \in 0 .. TOP - 1
<1>1. a \in Nat /\ b \in Nat /\ c \in Nat /\ Radix \in Nat /\ Radix >= 2
      /\ a <= Radix - 1 /\ b <= Radix - 1 /\ c <= Radix - 1
  BY Constants DEF Byte
<1>2. a * Radix <= (Radix - 1) * Radix /\ a * Radix \in Nat
  BY <1>1, MulMono
<1>3. a * Radix + b \in Nat /\ a * Radix + b <= Radix * Radix - 1
  BY <1>1, <1>2
<1>4. Radix * Radix - 1 \in Nat
  BY <1>1, MulMono
<1>5. (a * Radix + b) * Radix <= (Radix * Radix - 1) * Radix
      /\ (a * Radix + b) * Radix \in Nat
  <2> DEFINE y == a * Radix + b
             z == Radix * Radix - 1
  <2>1. y \in Nat /\ z \in Nat /\ y <= z
    BY <1>3, <1>4
  <2> HIDE DEF y, z
  <2>2. y * Radix <= z * Radix /\ y * Radix \in Nat
    BY <2>1, <1>1, MulMono
  <2>3. QED
    BY <2>2 DEF y, z
<1>6. (Radix * Radix - 1) * Radix = TOP - Radix
  BY <1>1 DEF TOP
<1>7. QED
  BY <1>1, <1>5, <1>6, Constants

LEMMA WindowOfSplit ==
  ASSUME NEW a \in Byte, NEW b \in Byte, NEW c \in Byte, NEW d \in Byte
  PROVE  /\ ((a * Radix + b) * Radix + c) * Radix + d
              = a * TOP + ((b * Radix + c) * Radix + d)
         /\ ((a * Radix + b) * Radix + c) * Radix + d \in Word
<1> DEFINE y == (b * Radix + c) * Radix + d
<1>1. y \in 0 .. TOP - 1
  BY LowDigits
<1>2. a \in Nat /\ b \in Nat /\ c \in Nat /\ d \in Nat /\ a <= Radix - 1
  BY Constants DEF Byte
<1>3. ((a * Radix + b) * Radix + c) * Radix + d = a * TOP + y
  BY <1>2, Constants DEF TOP
<1> HIDE DEF y
<1>4. a * TOP <= (Radix - 1) * TOP /\ a * TOP \in Nat
  BY <1>2, Constants, MulMono
<1>5. (Radix - 1) * TOP = WORD - TOP
  BY Constants
<1>6. a * TOP + y \in Word
  BY <1>1, <1>4, <1>5, Constants DEF Word
<1>7. QED
  BY <1>3, <1>6 DEF y

LEMMA NextByteType ==
  ASSUME NEW s \in Seq(Byte), NEW n \in Nat
  PROVE  NextByte(s, n) \in Byte
  BY Constants DEF NextByte, Byte

\* Taking in one byte moves the window one byte along the stream.
LEMMA WindowShift ==
  ASSUME NEW s \in Seq(Byte), NEW n \in Nat
  PROVE  /\ Window(s, n) \in Word
         /\ Window(s, n + 1)
              = ((Window(s, n) * Radix) % WORD) + NextByte(s, n + 4)
<1> DEFINE a == NextByte(s, n)
           b == NextByte(s, n + 1)
           c == NextByte(s, n + 2)
           d == NextByte(s, n + 3)
           f == NextByte(s, n + 4)
           y == (b * Radix + c) * Radix + d
<1>1. a \in Byte /\ b \in Byte /\ c \in Byte /\ d \in Byte /\ f \in Byte
  BY NextByteType
<1>2. Window(s, n) = ((a * Radix + b) * Radix + c) * Radix + d
  BY DEF Window
<1>3. Window(s, n + 1) = ((b * Radix + c) * Radix + d) * Radix + f
  <2>1. /\ (n + 1) + 1 = n + 2 /\ (n + 1) + 2 = n + 3 /\ (n + 1) + 3 = n + 4
    OBVIOUS
  <2>2. QED
    BY <2>1 DEF Window
<1> HIDE DEF a, b, c, d, f
<1>4. Window(s, n) \in Word /\ Window(s, n) = a * TOP + y
  BY <1>1, <1>2, WindowOfSplit
<1>5. y \in 0 .. TOP - 1
  BY <1>1, LowDigits
<1>6. Window(s, n + 1) = y * Radix + f
  BY <1>3
<1> HIDE DEF y
<1>7. y * Radix \in 0 .. WORD - 1
  <2>1. y * Radix <= (TOP - 1) * Radix /\ y * Radix \in Nat
    BY <1>5, Constants, MulMono
  <2>2. (TOP - 1) * Radix = WORD - Radix
    BY Constants
  <2>3. QED
    BY <2>1, <2>2, Constants
<1>8. a \in Nat
  BY <1>1 DEF Byte
<1>9. Window(s, n) * Radix = a * WORD + y * Radix
  BY <1>4, <1>5, <1>8, Constants
<1>10. \A z \in 0 .. WORD - 1 : (a * WORD + z) % WORD = z
  BY <1>8, Constants, DivModUnique
<1>11. (a * WORD + y * Radix) % WORD = y * Radix
  BY <1>7, <1>10
<1>12. QED
  BY <1>4, <1>6, <1>9, <1>11 DEF f

\* A window inside a stream does not change when the stream grows.
LEMMA WindowPrefix ==
  ASSUME NEW s \in Seq(Byte), NEW n \in Nat, n + 4 <= Len(s), NEW b \in Byte
  PROVE  Window(Append(s, b), n) = Window(s, n)
<1>1. \A k \in Nat : k < Len(s) => NextByte(Append(s, b), k) = NextByte(s, k)
  BY DEF NextByte
<1>2. n < Len(s) /\ n + 1 < Len(s) /\ n + 2 < Len(s) /\ n + 3 < Len(s)
  OBVIOUS
<1>3. QED
  BY <1>1, <1>2 DEF Window

\* A four-byte ending: its bytes, and where they stand behind a sequence.
LEMMA TailFacts ==
  ASSUME NEW s \in Seq(Byte), NEW t \in Tail4
  PROVE  /\ t[1] \in Byte /\ t[2] \in Byte /\ t[3] \in Byte /\ t[4] \in Byte
         /\ Len(s) \in Nat
         /\ s \o t \in Seq(Byte)
         /\ Len(s \o t) = Len(s) + 4
         /\ \A i \in 1 .. Len(s) + 4 :
              (s \o t)[i] = IF i <= Len(s) THEN s[i] ELSE t[i - Len(s)]
<1>1. t \in Seq(Byte) /\ Len(t) = 4
  <2>1. PICK a \in Byte, b \in Byte, c \in Byte, d \in Byte :
          t = <<a, b, c, d>>
    BY DEF Tail4
  <2>2. QED
    BY <2>1
<1>2. Len(s) \in Nat
  BY LenProperties
<1>3. \A i \in 1 .. 4 : t[i] \in Byte
  BY <1>1, ElementOfSeq
<1>4. /\ s \o t \in Seq(Byte)
      /\ Len(s \o t) = Len(s) + Len(t)
      /\ \A i \in 1 .. Len(s) + Len(t) :
           (s \o t)[i] = IF i <= Len(s) THEN s[i] ELSE t[i - Len(s)]
  BY <1>1, ConcatProperties
<1>5. QED
  BY <1>1, <1>2, <1>3, <1>4

LEMMA WindowAtEnd ==
  ASSUME NEW s \in Seq(Byte), NEW t \in Tail4
  PROVE  Window(s \o t, Len(s)) = WindowOf(t)
<1>1. /\ Len(s) \in Nat /\ s \o t \in Seq(Byte) /\ Len(s \o t) = Len(s) + 4
      /\ \A i \in 1 .. Len(s) + 4 :
           (s \o t)[i] = IF i <= Len(s) THEN s[i] ELSE t[i - Len(s)]
  BY TailFacts
<1>2. /\ NextByte(s \o t, Len(s)) = t[1]
      /\ NextByte(s \o t, Len(s) + 1) = t[2]
      /\ NextByte(s \o t, Len(s) + 2) = t[3]
      /\ NextByte(s \o t, Len(s) + 3) = t[4]
  BY <1>1 DEF NextByte
<1>3. QED
  BY <1>2 DEF Window, WindowOf

-----------------------------------------------------------------------------
(* What is written after a symbol cannot change what the symbol decodes to. *)

\* One turn of the loop: a tail of the shifted interval, behind the byte just
\* put out, is a tail of the interval before the shift.
LEMMA ShiftTail ==
  ASSUME NEW e \in Encoder, e.x1 <= e.x2, TopsEqual(e),
         NEW t \in Tails(ShiftOut(e))
  PROVE  LET u == <<TopByte(e.x2), t[1], t[2], t[3]>>
         IN  /\ u \in Tails(e)
             /\ t[4] \in Byte
             /\ ShiftOut(e).out \o t = Append(e.out \o u, t[4])
<1> DEFINE f == ShiftOut(e)
           d == TopByte(e.x2)
           u == <<d, t[1], t[2], t[3]>>
           r1 == e.x1 % TOP
           r2 == e.x2 % TOP
           y == (t[1] * Radix + t[2]) * Radix + t[3]
<1>1. e.x1 \in Word /\ e.x2 \in Word /\ e.out \in Seq(Byte)
  BY DEF Encoder
<1>2. f = [x1 |-> ShiftLow(e.x1), x2 |-> ShiftHigh(e.x2),
           out |-> Append(e.out, d)]
  BY DEF ShiftOut
<1>3. /\ t \in Tail4
      /\ f.x1 <= WindowOf(t) /\ WindowOf(t) <= f.x2
  BY DEF Tails
<1>4. t[1] \in Byte /\ t[2] \in Byte /\ t[3] \in Byte /\ t[4] \in Byte
  BY <1>1, <1>3, TailFacts
<1>5. d \in Byte
  BY <1>1, ShiftWord
<1>6. /\ r1 \in 0 .. TOP - 1 /\ r2 \in 0 .. TOP - 1
      /\ e.x1 = TopByte(e.x1) * TOP + r1 /\ e.x2 = d * TOP + r2
      /\ f.x1 = r1 * Radix /\ f.x2 = r2 * Radix + (Radix - 1)
  BY <1>1, <1>2, ShiftWord
<1>7. TopByte(e.x1) = d
  BY DEF TopsEqual
<1>8. WindowOf(t) = y * Radix + t[4]
  BY DEF WindowOf
<1>9. WindowOf(u) = d * TOP + y
  <2>1. WindowOf(u) = ((d * Radix + t[1]) * Radix + t[2]) * Radix + t[3]
    BY DEF WindowOf
  <2>2. QED
    BY <2>1, <1>4, <1>5, WindowOfSplit
<1>10. y \in 0 .. TOP - 1
  BY <1>4, LowDigits
<1>11. u \in Tail4
  BY <1>4, <1>5 DEF Tail4
<1>12. f.out \o t = Append(e.out \o u, t[4])
  <2>1. /\ f.out = Append(e.out, d) /\ f.out \in Seq(Byte)
        /\ Len(f.out) = Len(e.out) + 1
        /\ \A i \in 1 .. Len(e.out) : f.out[i] = e.out[i]
        /\ f.out[Len(e.out) + 1] = d
    BY <1>1, <1>2, <1>5, AppendProperties
  <2>2. /\ f.out \o t \in Seq(Byte)
        /\ Len(f.out \o t) = Len(e.out) + 5
        /\ \A i \in 1 .. Len(e.out) + 5 :
             (f.out \o t)[i] = IF i <= Len(e.out) + 1 THEN f.out[i]
                               ELSE t[i - (Len(e.out) + 1)]
    <3>1. t \in Tail4 /\ Len(e.out) \in Nat
      BY <1>1, <1>3, LenProperties
    <3> HIDE DEF f
    <3>2. QED
      BY <2>1, <3>1, TailFacts
  <2>3. /\ e.out \o u \in Seq(Byte)
        /\ Len(e.out \o u) = Len(e.out) + 4
        /\ \A i \in 1 .. Len(e.out) + 4 :
             (e.out \o u)[i] = IF i <= Len(e.out) THEN e.out[i]
                               ELSE u[i - Len(e.out)]
    BY <1>1, <1>11, TailFacts
  <2>4. /\ Append(e.out \o u, t[4]) \in Seq(Byte)
        /\ Len(Append(e.out \o u, t[4])) = Len(e.out) + 5
        /\ \A i \in 1 .. Len(e.out) + 4 :
             Append(e.out \o u, t[4])[i] = (e.out \o u)[i]
        /\ Append(e.out \o u, t[4])[Len(e.out) + 5] = t[4]
    BY <1>1, <1>4, <2>3, AppendProperties
  <2> DEFINE left == f.out \o t
             right == Append(e.out \o u, t[4])
  <2> HIDE DEF f, left, right
  <2>5. ASSUME NEW i \in 1 .. Len(e.out) + 5
        PROVE  left[i] = right[i]
    <3>0. Len(e.out) \in Nat
      BY <1>1
    <3>1. CASE i <= Len(e.out)
      BY <3>0, <3>1, <2>1, <2>2, <2>3, <2>4 DEF left, right
    <3>2. CASE i = Len(e.out) + 1
      BY <3>0, <3>2, <2>1, <2>2, <2>3, <2>4 DEF left, right
    <3>3. CASE i = Len(e.out) + 2
      BY <3>0, <3>3, <2>1, <2>2, <2>3, <2>4 DEF left, right
    <3>4. CASE i = Len(e.out) + 3
      BY <3>0, <3>4, <2>1, <2>2, <2>3, <2>4 DEF left, right
    <3>5. CASE i = Len(e.out) + 4
      BY <3>0, <3>5, <2>1, <2>2, <2>3, <2>4 DEF left, right
    <3>6. CASE i = Len(e.out) + 5
      BY <3>0, <3>6, <2>1, <2>2, <2>3, <2>4 DEF left, right
    <3>7. QED
      BY <3>0, <3>1, <3>2, <3>3, <3>4, <3>5, <3>6
  <2>6. QED
    BY <2>2, <2>4, <2>5, SeqEqual DEF left, right
<1> HIDE DEF f, d, u, r1, r2, y
<1>13. r1 <= y /\ y <= r2
  <2>1. /\ r1 \in Nat /\ r2 \in Nat /\ y \in Nat /\ t[4] \in Nat
        /\ t[4] <= Radix - 1 /\ Radix \in Nat
    BY <1>4, <1>6, <1>10, Constants DEF Byte
  <2>2. /\ r1 * Radix <= y * Radix + t[4]
        /\ y * Radix + t[4] <= r2 * Radix + (Radix - 1)
    BY <1>3, <1>6, <1>8
  <2>3. ASSUME y + 1 <= r1 PROVE FALSE
    <3>1. (y + 1) * Radix <= r1 * Radix
      BY <2>1, <2>3, MulMono
    <3>2. (y + 1) * Radix = y * Radix + Radix /\ y * Radix \in Nat
          /\ r1 * Radix \in Nat
      BY <2>1
    <3>3. QED
      BY <2>1, <2>2, <3>1, <3>2
  <2>4. ASSUME r2 + 1 <= y PROVE FALSE
    <3>1. (r2 + 1) * Radix <= y * Radix
      BY <2>1, <2>4, MulMono
    <3>2. (r2 + 1) * Radix = r2 * Radix + Radix /\ y * Radix \in Nat
          /\ r2 * Radix \in Nat
      BY <2>1
    <3>3. QED
      BY <2>1, <2>2, <3>1, <3>2
  <2>5. QED
    BY <2>1, <2>3, <2>4
<1>14. e.x1 <= WindowOf(u) /\ WindowOf(u) <= e.x2
  <2>1. d * TOP \in Nat
    BY <1>5, Constants DEF Byte
  <2>2. QED
    BY <2>1, <1>6, <1>7, <1>9, <1>10, <1>13
<1>15. QED
  BY <1>4, <1>11, <1>12, <1>14 DEF Tails, f, u, d

LEMMA ShiftCommits ==
  ASSUME NEW e \in Encoder, e.x1 <= e.x2,
         NEW n \in Nat, NEW lo, NEW hi, Commits(e, n, lo, hi)
  PROVE  Commits(ShiftOut(e), n, lo, hi)
<1>1. CASE ~TopsEqual(e)
  BY <1>1 DEF ShiftOut
<1>2. CASE TopsEqual(e)
  <2>1. e.out \in Seq(Byte) /\ TopByte(e.x2) \in Byte
    BY ShiftWord DEF Encoder
  <2>2. n <= Len(ShiftOut(e).out)
    BY <1>2, <2>1, ShiftOutType, AppendProperties DEF Commits
  <2>3. ASSUME NEW t \in Tails(ShiftOut(e))
        PROVE  /\ lo <= Window(ShiftOut(e).out \o t, n)
               /\ Window(ShiftOut(e).out \o t, n) <= hi
    <3> DEFINE u == <<TopByte(e.x2), t[1], t[2], t[3]>>
    <3>1. /\ u \in Tails(e) /\ t[4] \in Byte
          /\ ShiftOut(e).out \o t = Append(e.out \o u, t[4])
      BY <1>2, ShiftTail
    <3> HIDE DEF u
    <3>2. u \in Tail4
      BY <3>1 DEF Tails
    <3>3. e.out \o u \in Seq(Byte) /\ n + 4 <= Len(e.out \o u)
      BY <2>1, <3>2, TailFacts DEF Commits
    <3>4. Window(Append(e.out \o u, t[4]), n) = Window(e.out \o u, n)
      BY <3>1, <3>3, WindowPrefix
    <3>5. lo <= Window(e.out \o u, n) /\ Window(e.out \o u, n) <= hi
      BY <3>1 DEF Commits
    <3>6. QED
      BY <3>1, <3>4, <3>5
  <2>4. QED
    BY <2>2, <2>3 DEF Commits
<1>3. QED
  BY <1>1, <1>2

-----------------------------------------------------------------------------
(* The same for a whole symbol. *)

LEMMA LoopCommits ==
  ASSUME NEW e \in Encoder, e.x1 <= e.x2,
         NEW n \in Nat, NEW lo, NEW hi, Commits(e, n, lo, hi)
  PROVE  Commits(ShiftOut(ShiftOut(ShiftOut(ShiftOut(e)))), n, lo, hi)
<1> DEFINE e1 == ShiftOut(e)
           e2 == ShiftOut(e1)
           e3 == ShiftOut(e2)
<1>1. e1 \in Encoder /\ e1.x1 <= e1.x2 /\ Commits(e1, n, lo, hi)
  BY ShiftOutType, ShiftCommits
<1> HIDE DEF e1
<1>2. e2 \in Encoder /\ e2.x1 <= e2.x2 /\ Commits(e2, n, lo, hi)
  BY <1>1, ShiftOutType, ShiftCommits
<1> HIDE DEF e2
<1>3. e3 \in Encoder /\ e3.x1 <= e3.x2 /\ Commits(e3, n, lo, hi)
  BY <1>2, ShiftOutType, ShiftCommits
<1> HIDE DEF e3
<1>4. Commits(ShiftOut(e3), n, lo, hi)
  BY <1>3, ShiftCommits
<1>5. QED
  BY <1>4 DEF e1, e2, e3

\* Coding one more bit keeps every earlier commitment.
LEMMA EncodeKeepsCommits ==
  ASSUME NEW e \in Encoder, Codable(e), NEW bit \in {0, 1}, NEW p \in Nat,
         NEW n \in Nat, NEW lo, NEW hi, Commits(e, n, lo, hi)
  PROVE  Commits(EncodeBit(e, bit, p), n, lo, hi)
<1> DEFINE a == Narrow(e, bit, p)
<1>1. /\ a \in Encoder /\ a.x1 <= a.x2 /\ a.out = e.out
      /\ e.x1 <= a.x1 /\ a.x2 <= e.x2
  BY NarrowType DEF Codable
<1> HIDE DEF a
<1>2. Tails(a) \subseteq Tails(e)
  <2>1. SUFFICES ASSUME NEW t \in Tail4,
                        a.x1 <= WindowOf(t), WindowOf(t) <= a.x2
                 PROVE  e.x1 <= WindowOf(t) /\ WindowOf(t) <= e.x2
    BY DEF Tails
  <2>2. WindowOf(t) \in Word
    BY WindowOfSplit DEF Tail4, WindowOf
  <2>3. QED
    BY <1>1, <2>1, <2>2 DEF Encoder, Word
<1>3. Commits(a, n, lo, hi)
  BY <1>1, <1>2 DEF Commits
<1>4. QED
  BY <1>1, <1>3, LoopCommits DEF EncodeBit, a

\* Coding a bit commits the stream to the bit's share of the interval.
LEMMA EncodeCommits ==
  ASSUME NEW e \in Encoder, Codable(e), NEW bit \in {0, 1}, NEW p \in Nat
  PROVE  Commits(EncodeBit(e, bit, p), Len(e.out),
                 Narrow(e, bit, p).x1, Narrow(e, bit, p).x2)
<1> DEFINE a == Narrow(e, bit, p)
<1>1. a \in Encoder /\ a.x1 <= a.x2 /\ a.out = e.out
  BY NarrowType DEF Codable
<1>2. e.out \in Seq(Byte) /\ Len(e.out) \in Nat
  BY LenProperties DEF Encoder
<1> HIDE DEF a
<1>3. ASSUME NEW t \in Tails(a)
      PROVE  a.x1 <= Window(a.out \o t, Len(e.out))
             /\ Window(a.out \o t, Len(e.out)) <= a.x2
  <2>1. t \in Tail4 /\ a.x1 <= WindowOf(t) /\ WindowOf(t) <= a.x2
    BY DEF Tails
  <2>2. Window(a.out \o t, Len(e.out)) = WindowOf(t)
    BY <1>1, <1>2, <2>1, WindowAtEnd
  <2>3. QED
    BY <2>1, <2>2
<1>4. Commits(a, Len(e.out), a.x1, a.x2)
  BY <1>1, <1>2, <1>3 DEF Commits
<1>5. Commits(ShiftOut(ShiftOut(ShiftOut(ShiftOut(a)))), Len(e.out), a.x1, a.x2)
  BY <1>1, <1>2, <1>4, LoopCommits
<1>6. QED
  BY <1>5 DEF EncodeBit, a

-----------------------------------------------------------------------------
(* The decoder repeats the encoder. *)

LEMMA ShiftTracks ==
  ASSUME NEW e \in Encoder, e.x1 <= e.x2, NEW s \in Seq(Byte),
         NEW d, Tracks(e, d, s)
  PROVE  Tracks(ShiftOut(e), ShiftIn(s, d), s)
<1>1. TopsEqual(d) <=> TopsEqual(e)
  BY DEF Tracks, TopsEqual
<1>2. CASE ~TopsEqual(e)
  BY <1>1, <1>2 DEF ShiftOut, ShiftIn
<1>3. CASE TopsEqual(e)
  <2>1. e.out \in Seq(Byte) /\ TopByte(e.x2) \in Byte /\ Len(e.out) \in Nat
    BY ShiftWord, LenProperties DEF Encoder
  <2>2. /\ ShiftOut(e).x1 = ShiftLow(e.x1) /\ ShiftOut(e).x2 = ShiftHigh(e.x2)
        /\ Len(ShiftOut(e).out) = Len(e.out) + 1
    BY <1>3, <2>1, AppendProperties DEF ShiftOut
  <2>3. ShiftIn(s, d) =
          [x1 |-> ShiftLow(d.x1), x2 |-> ShiftHigh(d.x2),
           x |-> ((d.x * Radix) % WORD) + NextByte(s, d.pos),
           pos |-> d.pos + 1]
    BY <1>1, <1>3 DEF ShiftIn
  <2>4. Window(s, Len(e.out) + 1)
          = ((Window(s, Len(e.out)) * Radix) % WORD)
              + NextByte(s, Len(e.out) + 4)
    BY <2>1, WindowShift
  <2>5. (Len(e.out) + 4) + 1 = (Len(e.out) + 1) + 4
    BY <2>1
  <2>6. QED
    BY <2>2, <2>3, <2>4, <2>5 DEF Tracks
<1>4. QED
  BY <1>2, <1>3

\* If the window lies in the share of the bit that was coded, decode() returns
\* that bit and ends where the encoder ended.
LEMMA DecodeTracks ==
  ASSUME NEW e \in Encoder, Codable(e), NEW s \in Seq(Byte),
         NEW d \in Decoder, Tracks(e, d, s),
         NEW bit \in {0, 1}, NEW p \in Nat,
         Narrow(e, bit, p).x1 <= d.x, d.x <= Narrow(e, bit, p).x2
  PROVE  /\ DecodedBit(d, p) = bit
         /\ Tracks(EncodeBit(e, bit, p), DecodeBit(s, d, p), s)
<1> DEFINE a == Narrow(e, bit, p)
           b == Narrow(d, bit, p)
<1>1. /\ e.x1 \in Word /\ e.x2 \in Word /\ e.out \in Seq(Byte)
      /\ e = [x1 |-> e.x1, x2 |-> e.x2, out |-> e.out]
      /\ d.x \in Word
      /\ d = [x1 |-> d.x1, x2 |-> d.x2, x |-> d.x, pos |-> d.pos]
  BY DEF Encoder, Decoder
<1>2. Split(e.x1, e.x2, p) \in Nat
  <2>1. e.x1 \in Nat /\ e.x2 \in Nat /\ e.x1 < e.x2
    BY <1>1, DistinctTops DEF Codable, Word
  <2>2. QED
    BY <2>1, NarrowOrder
<1>3. Split(d.x1, d.x2, p) = Split(e.x1, e.x2, p)
  BY DEF Tracks
<1>4. DecodedBit(d, p) = bit
  <2>1. CASE bit = 1
    <3>1. a.x2 = Split(e.x1, e.x2, p)
      BY <1>1, <2>1 DEF Narrow
    <3>2. QED
      BY <1>3, <2>1, <3>1 DEF DecodedBit
  <2>2. CASE bit = 0
    <3>1. a.x1 = Split(e.x1, e.x2, p) + 1
      BY <1>1, <2>2 DEF Narrow
    <3>2. QED
      BY <1>1, <1>2, <1>3, <2>2, <3>1 DEF DecodedBit, Word
  <2>3. QED
    BY <2>1, <2>2
<1>5. a \in Encoder /\ a.x1 <= a.x2 /\ a.out = e.out
  BY NarrowType DEF Codable
<1>6. Tracks(a, b, s)
  <2>1. a.x1 = b.x1 /\ a.x2 = b.x2 /\ b.x = d.x /\ b.pos = d.pos
    <3>1. CASE bit = 1
      <4>1. a = [x1 |-> e.x1, x2 |-> Split(e.x1, e.x2, p), out |-> e.out]
        BY <1>1, <3>1 DEF Narrow
      <4>2. b = [x1 |-> d.x1, x2 |-> Split(d.x1, d.x2, p),
                 x |-> d.x, pos |-> d.pos]
        BY <1>1, <3>1 DEF Narrow
      <4> HIDE DEF a, b
      <4>3. QED
        BY <1>3, <4>1, <4>2 DEF Tracks
    <3>2. CASE bit = 0
      <4>1. a = [x1 |-> Split(e.x1, e.x2, p) + 1, x2 |-> e.x2, out |-> e.out]
        BY <1>1, <3>2 DEF Narrow
      <4>2. b = [x1 |-> Split(d.x1, d.x2, p) + 1, x2 |-> d.x2,
                 x |-> d.x, pos |-> d.pos]
        BY <1>1, <3>2 DEF Narrow
      <4> HIDE DEF a, b
      <4>3. QED
        BY <1>3, <4>1, <4>2 DEF Tracks
    <3>3. QED
      BY <3>1, <3>2
  <2> HIDE DEF a, b
  <2>2. QED
    BY <1>5, <2>1 DEF Tracks
<1> DEFINE a1 == ShiftOut(a)
           a2 == ShiftOut(a1)
           a3 == ShiftOut(a2)
           b1 == ShiftIn(s, b)
           b2 == ShiftIn(s, b1)
           b3 == ShiftIn(s, b2)
<1> HIDE DEF a, b
<1>7. a1 \in Encoder /\ a1.x1 <= a1.x2 /\ Tracks(a1, b1, s)
  BY <1>5, <1>6, ShiftOutType, ShiftTracks
<1> HIDE DEF a1, b1
<1>8. a2 \in Encoder /\ a2.x1 <= a2.x2 /\ Tracks(a2, b2, s)
  BY <1>7, ShiftOutType, ShiftTracks
<1> HIDE DEF a2, b2
<1>9. a3 \in Encoder /\ a3.x1 <= a3.x2 /\ Tracks(a3, b3, s)
  BY <1>8, ShiftOutType, ShiftTracks
<1> HIDE DEF a3, b3
<1>10. Tracks(ShiftOut(a3), ShiftIn(s, b3), s)
  BY <1>9, ShiftTracks
<1>11. DecodeBit(s, d, p) = ShiftIn(s, b3)
  BY <1>4 DEF DecodeBit, b, b1, b2, b3
<1>12. EncodeBit(e, bit, p) = ShiftOut(a3)
  BY DEF EncodeBit, a, a1, a2, a3
<1>13. QED
  BY <1>4, <1>10, <1>11, <1>12

\* A decoder that stands at an encoder state is well typed.
LEMMA TracksType ==
  ASSUME NEW e \in Encoder, NEW s \in Seq(Byte), NEW d, Tracks(e, d, s),
         d = [x1 |-> d.x1, x2 |-> d.x2, x |-> d.x, pos |-> d.pos]
  PROVE  d \in Decoder
<1>1. e.x1 \in Word /\ e.x2 \in Word /\ Len(e.out) \in Nat
  BY LenProperties DEF Encoder
<1>2. Window(s, Len(e.out)) \in Word
  BY <1>1, WindowShift
<1>3. QED
  BY <1>1, <1>2 DEF Tracks, Decoder

LEMMA DecodeBitRecord ==
  ASSUME NEW s \in Seq(Byte), NEW d \in Decoder, NEW p \in Nat
  PROVE  LET f == DecodeBit(s, d, p)
         IN  f = [x1 |-> f.x1, x2 |-> f.x2, x |-> f.x, pos |-> f.pos]
<1> DEFINE Shaped(f) ==
             f = [x1 |-> f.x1, x2 |-> f.x2, x |-> f.x, pos |-> f.pos]
           b == Narrow(d, DecodedBit(d, p), p)
<1>1. Shaped(b)
  BY DEF Narrow, Decoder
<1>2. ASSUME NEW f, Shaped(f) PROVE Shaped(ShiftIn(s, f))
  BY <1>2 DEF ShiftIn
<1> HIDE DEF b, Shaped
<1>3. Shaped(ShiftIn(s, ShiftIn(s, ShiftIn(s, ShiftIn(s, b)))))
  BY <1>1, <1>2
<1>4. QED
  BY <1>3 DEF DecodeBit, b, Shaped

-----------------------------------------------------------------------------
(* The invariant. *)

LEMMA NewEncoderType ==
  /\ NewEncoder \in Encoder
  /\ Codable(NewEncoder)
  /\ Len(NewEncoder.out) = 0
<1>1. NewEncoder \in Encoder /\ Len(NewEncoder.out) = 0
  BY Constants DEF NewEncoder, Encoder, Word
<1>2. TopByte(0) = 0 /\ TopByte(WORD - 1) = Radix - 1
  <2>1. 0 = 0 * TOP + 0 /\ WORD - 1 = (Radix - 1) * TOP + (TOP - 1)
    BY Constants
  <2>2. \A q \in Nat, r \in 0 .. TOP - 1 : (q * TOP + r) \div TOP = q
    BY Constants, DivModUnique
  <2>3. (0 * TOP + 0) \div TOP = 0
    BY <2>2, Constants
  <2>4. ((Radix - 1) * TOP + (TOP - 1)) \div TOP = Radix - 1
    BY <2>2, Constants
  <2>5. QED
    BY <2>1, <2>3, <2>4 DEF TopByte
<1>3. Codable(NewEncoder)
  BY <1>2, Constants DEF NewEncoder, Codable, TopsEqual
<1>4. QED
  BY <1>1, <1>3

LEMMA NewDecoderType ==
  ASSUME NEW s \in Seq(Byte)
  PROVE  /\ NewDecoder(s) \in Decoder
         /\ Codable(NewDecoder(s))
         /\ Tracks(NewEncoder, NewDecoder(s), s)
<1>1. Window(s, 0) \in Word
  BY WindowShift
<1>2. NewDecoder(s) \in Decoder
  BY <1>1, Constants DEF NewDecoder, Decoder, Word
<1>3. Codable(NewDecoder(s))
  BY NewEncoderType DEF NewEncoder, NewDecoder, Codable, TopsEqual
<1>4. Tracks(NewEncoder, NewDecoder(s), s)
  BY NewEncoderType DEF NewEncoder, NewDecoder, Tracks
<1>5. QED
  BY <1>2, <1>3, <1>4

\* What finish() returns shows x1 in its last window, and in every earlier
\* one a value of the share the bit there chose.
LEMMA FlushCommits ==
  ASSUME NEW e \in Encoder, Codable(e)
  PROVE  /\ Flush(e) \in Seq(Byte)
         /\ Len(Flush(e)) = Len(e.out) + 4
         /\ Window(Flush(e), Len(e.out)) = e.x1
         /\ \A n \in Nat : \A lo, hi : Commits(e, n, lo, hi) =>
              lo <= Window(Flush(e), n) /\ Window(Flush(e), n) <= hi
<1>1. e.x1 \in Word /\ e.x2 \in Word /\ e.out \in Seq(Byte)
  BY DEF Encoder
<1>2. Digits(e.x1) \in Tail4 /\ WindowOf(Digits(e.x1)) = e.x1
  BY <1>1, DigitsSpell
<1>3. Digits(e.x1) \in Tails(e)
  BY <1>1, <1>2 DEF Tails, Codable, Word
<1>4. QED
  BY <1>1, <1>2, <1>3, TailFacts, WindowAtEnd DEF Flush, Commits

LEMMA InitInv == Init => IInv
<1> SUFFICES ASSUME Init PROVE IInv
  OBVIOUS
<1>1. /\ <<>> \in Seq(Byte) /\ <<>> \in Seq(Symbol) /\ <<>> \in Seq({0, 1})
      /\ NewDecoder(<<>>) \in Decoder /\ Codable(NewDecoder(<<>>))
  <2>1. <<>> \in Seq(Byte) /\ <<>> \in Seq(Symbol) /\ <<>> \in Seq({0, 1})
    BY EmptySeq
  <2>2. QED
    BY <2>1, NewDecoderType
<1>2. TypeOK
  <2>1. <<NewEncoder>> \in Seq(Encoder)
    BY NewEncoderType
  <2>2. QED
    BY <1>1, <2>1, NewEncoderType DEF Init, TypeOK
<1>3. TrailOK
  BY NewEncoderType DEF Init, TrailOK
<1>4. EncodeInv
  <2>1. got = <<>> /\ dec = NewDecoder(<<>>) /\ Len(sent) = 0
    BY DEF Init
  <2>2. QED
    BY <1>1, <2>1 DEF EncodeInv
<1>5. QED
  BY <1>2, <1>3, <1>4 DEF Init, IInv

LEMMA EncodeStep == IInv /\ Encode => IInv'
<1> SUFFICES ASSUME IInv, Encode PROVE IInv'
  OBVIOUS
<1>1. PICK bit \in {0, 1}, p \in Probs :
        /\ sent' = Append(sent, [bit |-> bit, p |-> p])
        /\ enc' = EncodeBit(enc, bit, p)
        /\ trail' = Append(trail, EncodeBit(enc, bit, p))
  BY DEF Encode
<1>2. /\ phase = "encode" /\ phase' = "encode" /\ stream' = stream
      /\ dec' = dec /\ got' = got
  BY DEF Encode
<1>3. TypeOK /\ TrailOK /\ EncodeInv
  BY <1>2 DEF IInv
<1>4. p \in Nat /\ enc \in Encoder /\ Codable(enc)
      /\ sent \in Seq(Symbol) /\ trail \in Seq(Encoder)
      /\ Len(sent) \in Nat /\ Len(trail) = Len(sent) + 1
      /\ trail[Len(sent) + 1] = enc
  <2>1. enc \in Encoder /\ sent \in Seq(Symbol) /\ trail \in Seq(Encoder)
        /\ Len(sent) \in Nat
    BY <1>3, LenProperties DEF TypeOK
  <2>2. Codable(enc)
    BY <1>3, <2>1 DEF TrailOK
  <2>3. QED
    BY <1>3, <2>1, <2>2, ProbsAssumption DEF TrailOK
<1> DEFINE f == EncodeBit(enc, bit, p)
           y == [bit |-> bit, p |-> p]
<1>5. f \in Encoder /\ Codable(f) /\ Len(enc.out) <= Len(f.out)
  BY <1>4, EncodeBitType DEF Codable
<1>6. y \in Symbol
  BY DEF Symbol
<1>7. /\ sent' \in Seq(Symbol) /\ Len(sent') = Len(sent) + 1
      /\ \A k \in 1 .. Len(sent) : sent'[k] = sent[k]
      /\ sent'[Len(sent) + 1] = y
  BY <1>1, <1>4, <1>6, AppendProperties
<1>8. /\ trail' \in Seq(Encoder) /\ Len(trail') = Len(sent) + 2
      /\ \A k \in 1 .. Len(sent) + 1 : trail'[k] = trail[k]
      /\ trail'[Len(sent) + 2] = f
  BY <1>1, <1>4, <1>5, AppendProperties
<1>9. y.bit = bit /\ y.p = p /\ enc' = f
  BY <1>1
<1> HIDE DEF f, y
<1>10. TypeOK'
  BY <1>2, <1>3, <1>5, <1>7, <1>8, <1>9 DEF TypeOK
<1>11. \A k \in 1 .. Len(sent) + 1 :
         /\ trail[k] \in Encoder /\ Codable(trail[k])
         /\ Len(trail[k].out) \in Nat
         /\ Len(trail[k].out) <= Len(enc.out)
  <2>1. \A k \in 1 .. Len(sent) + 1 : trail[k] \in Encoder
    BY <1>4, ElementOfSeq
  <2>2. \A r \in Encoder : Len(r.out) \in Nat
    BY LenProperties DEF Encoder
  <2>3. QED
    BY <1>3, <2>1, <2>2 DEF TrailOK
<1>12. TrailOK'
  <2>1. trail'[1] = NewEncoder /\ trail'[Len(sent') + 1] = enc'
    BY <1>3, <1>4, <1>7, <1>8, <1>9 DEF TrailOK
  <2>2. ASSUME NEW k \in 1 .. Len(sent') + 1
        PROVE  Codable(trail'[k]) /\ Len(trail'[k].out) <= Len(enc'.out)
    <3>1. CASE k \in 1 .. Len(sent) + 1
      <4>1. Len(enc.out) \in Nat /\ Len(f.out) \in Nat
        BY <1>4, <1>5, LenProperties DEF Encoder
      <4>2. QED
        BY <3>1, <4>1, <1>5, <1>8, <1>9, <1>11
    <3>2. CASE k = Len(sent) + 2
      <4>1. Len(f.out) \in Nat
        BY <1>5, LenProperties DEF Encoder
      <4>2. QED
        BY <3>2, <4>1, <1>5, <1>8, <1>9
    <3>3. QED
      BY <3>1, <3>2, <1>4, <1>7
  <2>3. ASSUME NEW k \in 1 .. Len(sent')
        PROVE  trail'[k + 1] = EncodeBit(trail'[k], sent'[k].bit, sent'[k].p)
    <3>1. CASE k \in 1 .. Len(sent)
      BY <3>1, <1>3, <1>4, <1>7, <1>8 DEF TrailOK
    <3>2. CASE k = Len(sent) + 1
      BY <3>2, <1>4, <1>7, <1>8, <1>9 DEF f
    <3>3. QED
      BY <3>1, <3>2, <1>4, <1>7
  <2>4. Len(trail') = Len(sent') + 1
    BY <1>4, <1>7, <1>8
  <2>5. QED
    BY <2>1, <2>2, <2>3, <2>4 DEF TrailOK
<1>13. EncodeInv'
  <2>1. ASSUME NEW k \in 1 .. Len(sent')
        PROVE  Commits(enc, Len(trail[k].out), Share(k).x1, Share(k).x2)'
    <3>1. CASE k \in 1 .. Len(sent)
      <4>1. Commits(enc, Len(trail[k].out), Share(k).x1, Share(k).x2)
        BY <1>3, <3>1 DEF EncodeInv
      <4>2. Commits(f, Len(trail[k].out), Share(k).x1, Share(k).x2)
        BY <1>4, <1>11, <3>1, <4>1, EncodeKeepsCommits DEF f
      <4>3. trail'[k] = trail[k] /\ sent'[k] = sent[k]
        BY <1>4, <1>7, <1>8, <3>1
      <4>4. QED
        BY <1>9, <4>2, <4>3 DEF Commits, Tails, Share
    <3>2. CASE k = Len(sent) + 1
      <4>1. trail'[k] = enc /\ sent'[k].bit = bit /\ sent'[k].p = p
        BY <1>4, <1>7, <1>8, <1>9, <3>2
      <4>2. Commits(f, Len(enc.out), Narrow(enc, bit, p).x1,
                    Narrow(enc, bit, p).x2)
        BY <1>4, EncodeCommits DEF f
      <4>3. QED
        BY <1>9, <4>1, <4>2 DEF Commits, Tails, Share
    <3>3. QED
      BY <3>1, <3>2, <1>4, <1>7
  <2>2. QED
    BY <1>2, <1>3, <2>1 DEF EncodeInv, Codable, TopsEqual
<1>14. QED
  BY <1>2, <1>10, <1>12, <1>13 DEF IInv

\* What TypeOK and TrailOK say of the encoder states in the history.
LEMMA TrailFacts ==
  ASSUME TypeOK, TrailOK
  PROVE  /\ Len(sent) \in Nat
         /\ enc \in Encoder /\ Codable(enc)
         /\ \A k \in 1 .. Len(sent) + 1 :
              /\ trail[k] \in Encoder /\ Codable(trail[k])
              /\ Len(trail[k].out) \in Nat
              /\ Len(trail[k].out) <= Len(enc.out)
         /\ \A k \in 1 .. Len(sent) : sent[k].bit \in {0, 1} /\ sent[k].p \in Nat
<1>1. Len(sent) \in Nat /\ sent \in Seq(Symbol) /\ trail \in Seq(Encoder)
      /\ Len(trail) = Len(sent) + 1
  BY LenProperties DEF TypeOK, TrailOK
<1>2. \A k \in 1 .. Len(sent) + 1 : trail[k] \in Encoder
  BY <1>1, ElementOfSeq
<1>3. \A r \in Encoder : Len(r.out) \in Nat
  BY LenProperties DEF Encoder
<1>4. \A k \in 1 .. Len(sent) : sent[k] \in Symbol
  BY <1>1, ElementOfSeq
<1>5. \A y \in Symbol : y.bit \in {0, 1} /\ y.p \in Nat
  BY ProbsAssumption DEF Symbol
<1>6. Len(sent) + 1 \in 1 .. Len(sent) + 1 /\ trail[Len(sent) + 1] = enc
  BY <1>1 DEF TrailOK
<1>7. QED
  BY <1>1, <1>2, <1>3, <1>4, <1>5, <1>6 DEF TrailOK

LEMMA FinishStep == IInv /\ Finish => IInv'
<1> SUFFICES ASSUME IInv, Finish PROVE IInv'
  OBVIOUS
<1>1. /\ phase = "encode" /\ phase' = "decode"
      /\ stream' = Flush(enc) /\ dec' = NewDecoder(Flush(enc))
      /\ sent' = sent /\ enc' = enc /\ trail' = trail /\ got' = got
  BY DEF Finish
<1>2. TypeOK /\ TrailOK /\ EncodeInv
  BY <1>1 DEF IInv
<1>3. enc \in Encoder /\ Codable(enc) /\ Len(sent) \in Nat
  BY <1>2, TrailFacts
<1>4. /\ Flush(enc) \in Seq(Byte)
      /\ Len(Flush(enc)) = Len(enc.out) + 4
      /\ Window(Flush(enc), Len(enc.out)) = enc.x1
      /\ \A n \in Nat : \A lo, hi : Commits(enc, n, lo, hi) =>
           lo <= Window(Flush(enc), n) /\ Window(Flush(enc), n) <= hi
  BY <1>3, FlushCommits
<1>5. TypeOK'
  BY <1>1, <1>2, <1>4, NewDecoderType DEF TypeOK
<1>6. TrailOK'
  BY <1>1, <1>2 DEF TrailOK
<1>7. \A k \in 1 .. Len(sent) :
        LET w == Window(Flush(enc), Len(trail[k].out))
        IN  Share(k).x1 <= w /\ w <= Share(k).x2
  <2>1. \A k \in 1 .. Len(sent) : Len(trail[k].out) \in Nat
    BY <1>2, <1>3, TrailFacts
  <2>2. \A k \in 1 .. Len(sent) :
          Commits(enc, Len(trail[k].out), Share(k).x1, Share(k).x2)
    BY <1>2 DEF EncodeInv
  <2>3. QED
    BY <1>4, <2>1, <2>2
<1>8. got = <<>> /\ Len(got) = 0
  BY <1>2 DEF EncodeInv
<1>9. Tracks(NewEncoder, NewDecoder(Flush(enc)), Flush(enc))
  BY <1>4, NewDecoderType
<1>10. trail[Len(got) + 1] = NewEncoder
  BY <1>2, <1>8 DEF TrailOK
<1>11. DecodeInv'
  BY <1>1, <1>3, <1>4, <1>7, <1>8, <1>9, <1>10
  DEF DecodeInv, Tracks, Share
<1>12. QED
  BY <1>1, <1>5, <1>6, <1>11 DEF IInv

\* Before each call the window lies in the share of the next bit, so the call
\* returns it.
LEMMA NextBit ==
  ASSUME IInv, phase = "decode", Len(got) < Len(sent)
  PROVE  LET k == Len(got) + 1
             p == sent[k].p
         IN  /\ k \in 1 .. Len(sent)
             /\ DecodedBit(dec, p) = sent[k].bit
             /\ Tracks(trail[k + 1], DecodeBit(stream, dec, p), stream)
             /\ DecodeBit(stream, dec, p) \in Decoder
<1> DEFINE k == Len(got) + 1
           p == sent[k].p
           bit == sent[k].bit
<1>1. TypeOK /\ TrailOK /\ DecodeInv
  BY DEF IInv
<1>2. k \in 1 .. Len(sent) /\ k + 1 \in 1 .. Len(sent) + 1
  BY <1>1, TrailFacts, LenProperties DEF TypeOK
<1>3. /\ trail[k] \in Encoder /\ Codable(trail[k])
      /\ trail[k + 1] \in Encoder
      /\ bit \in {0, 1} /\ p \in Nat
      /\ stream \in Seq(Byte) /\ dec \in Decoder
  BY <1>1, <1>2, TrailFacts DEF TypeOK
<1>4. Tracks(trail[k], dec, stream)
  BY <1>1 DEF DecodeInv
<1>5. Share(k).x1 <= dec.x /\ dec.x <= Share(k).x2
  BY <1>1, <1>2, <1>4 DEF DecodeInv, Tracks
<1>6. Share(k) = Narrow(trail[k], bit, p)
  BY DEF Share
<1>7. trail[k + 1] = EncodeBit(trail[k], bit, p)
  BY <1>1, <1>2 DEF TrailOK
<1> HIDE DEF k, p, bit
<1>8. /\ DecodedBit(dec, p) = bit
      /\ Tracks(trail[k + 1], DecodeBit(stream, dec, p), stream)
  BY <1>3, <1>4, <1>5, <1>6, <1>7, DecodeTracks
<1>9. DecodeBit(stream, dec, p) \in Decoder
  BY <1>3, <1>8, DecodeBitRecord, TracksType
<1>10. QED
  BY <1>2, <1>8, <1>9 DEF k, p, bit

LEMMA DecodeStep == IInv /\ Decode => IInv'
<1> SUFFICES ASSUME IInv, Decode PROVE IInv'
  OBVIOUS
<1> DEFINE k == Len(got) + 1
           p == sent[k].p
<1>1. /\ phase = "decode" /\ phase' = "decode" /\ Len(got) < Len(sent)
      /\ got' = Append(got, DecodedBit(dec, p))
      /\ dec' = DecodeBit(stream, dec, p)
      /\ sent' = sent /\ enc' = enc /\ trail' = trail /\ stream' = stream
  BY DEF Decode
<1>2. TypeOK /\ TrailOK /\ DecodeInv
  BY <1>1 DEF IInv
<1>3. /\ k \in 1 .. Len(sent)
      /\ DecodedBit(dec, p) = sent[k].bit
      /\ Tracks(trail[k + 1], DecodeBit(stream, dec, p), stream)
      /\ DecodeBit(stream, dec, p) \in Decoder
  BY <1>1, NextBit
<1>4. sent[k].bit \in {0, 1} /\ Len(got) \in Nat /\ got \in Seq({0, 1})
  BY <1>2, <1>3, TrailFacts, LenProperties DEF TypeOK
<1> HIDE DEF k, p
<1>5. /\ got' \in Seq({0, 1}) /\ Len(got') = Len(got) + 1
      /\ \A i \in 1 .. Len(got) : got'[i] = got[i]
      /\ got'[Len(got) + 1] = sent[k].bit
  BY <1>1, <1>3, <1>4, AppendProperties
<1>6. TypeOK'
  BY <1>1, <1>2, <1>3, <1>5 DEF TypeOK
<1>7. TrailOK'
  BY <1>1, <1>2 DEF TrailOK
<1>8. \A i \in 1 .. Len(got') : got'[i] = sent[i].bit
  BY <1>2, <1>4, <1>5 DEF DecodeInv, k
<1>9. Len(got') + 1 = k + 1 /\ Len(got') <= Len(sent)
  BY <1>3, <1>4, <1>5 DEF k
<1>10. DecodeInv'
  BY <1>1, <1>2, <1>3, <1>8, <1>9 DEF DecodeInv, Tracks, Share
<1>11. QED
  BY <1>1, <1>6, <1>7, <1>10 DEF IInv

LEMMA NextInv == IInv /\ [Next]_vars => IInv'
<1> SUFFICES ASSUME IInv, [Next]_vars PROVE IInv'
  OBVIOUS
<1>1. CASE Encode
  BY <1>1, EncodeStep
<1>2. CASE Finish
  BY <1>2, FinishStep
<1>3. CASE Decode
  BY <1>3, DecodeStep
<1>4. CASE UNCHANGED vars
  BY <1>4 DEF vars, IInv, TypeOK, TrailOK, EncodeInv, DecodeInv, Tracks,
              Share, Codable, TopsEqual, Commits, Tails
<1>5. QED
  BY <1>1, <1>2, <1>3, <1>4 DEF Next

\* The inductive invariant holds of every reachable state, whatever the radix,
\* the scale of probabilities, the probabilities and the message
\* (RangeEncoder::encode and finish, RangeDecoder::new and decode).
THEOREM Invariance == Spec => []IInv
<1>1. QED
  BY InitInv, NextInv, PTL DEF Spec

\* No word of the encoder or the decoder ever leaves 0 .. 2^32 - 1 and every
\* byte put out is a byte: the unchecked u32 arithmetic of encode() and
\* decode() cannot wrap.
THEOREM TypeCorrect == Spec => []TypeOK
<1>1. IInv => TypeOK
  BY DEF IInv
<1>2. QED
  BY <1>1, Invariance, PTL

\* The doc comment's invariant, x1 <= x2 with different top bytes before each
\* symbol, for the encoder and for the decoder.
THEOREM AlwaysCodable == Spec => []CodableInterval
<1>1. IInv => CodableInterval
  <2> SUFFICES ASSUME IInv PROVE CodableInterval
    OBVIOUS
  <2>1. TypeOK /\ TrailOK
    BY DEF IInv
  <2>2. Codable(enc)
    BY <2>1, TrailFacts
  <2>3. Codable(dec)
    <3>1. CASE phase = "encode"
      BY <3>1 DEF IInv, EncodeInv
    <3>2. CASE phase = "decode"
      <4>1. DecodeInv
        BY <3>2 DEF IInv
      <4>2. Len(got) + 1 \in 1 .. Len(sent) + 1
        BY <2>1, <4>1, TrailFacts, LenProperties DEF DecodeInv, TypeOK
      <4>3. Codable(trail[Len(got) + 1])
        BY <2>1, <4>2, TrailFacts
      <4>4. QED
        BY <4>1, <4>3 DEF DecodeInv, Tracks, Codable, TopsEqual
    <3>3. QED
      BY <2>1, <3>1, <3>2 DEF TypeOK
  <2>4. QED
    BY <2>2, <2>3 DEF CodableInterval, Codable
<1>2. QED
  BY <1>1, Invariance, PTL

\* decode() returns the bits encode() was given, in order.
THEOREM DecodingIsExact == Spec => []Exact
<1>1. IInv => Exact
  <2> SUFFICES ASSUME IInv PROVE Exact
    OBVIOUS
  <2>1. TypeOK /\ TrailOK
    BY DEF IInv
  <2>2. CASE phase = "encode"
    BY <2>1, <2>2, TrailFacts DEF IInv, EncodeInv, Exact
  <2>3. CASE phase = "decode"
    BY <2>3 DEF IInv, DecodeInv, Exact
  <2>4. QED
    BY <2>1, <2>2, <2>3 DEF TypeOK
<1>2. QED
  BY <1>1, Invariance, PTL

\* The decoder stands, before each bit, where the encoder stood before coding
\* it, with its window inside the interval.
THEOREM DecoderInLockstep == Spec => []Lockstep
<1>1. IInv => Lockstep
  <2> SUFFICES ASSUME IInv, phase = "decode"
               PROVE  LET at == trail[Len(got) + 1]
                      IN  /\ dec.x1 = at.x1 /\ dec.x2 = at.x2
                          /\ dec.pos = Len(at.out) + 4
                          /\ dec.x1 <= dec.x /\ dec.x <= dec.x2
    BY DEF Lockstep
  <2> DEFINE at == trail[Len(got) + 1]
  <2>1. TypeOK /\ TrailOK /\ DecodeInv
    BY DEF IInv
  <2>2. Len(got) \in Nat /\ Len(got) <= Len(sent) /\ Len(sent) \in Nat
    BY <2>1, TrailFacts, LenProperties DEF DecodeInv, TypeOK
  <2>3. at \in Encoder /\ Codable(at)
    BY <2>1, <2>2, TrailFacts
  <2>4. Tracks(at, dec, stream)
    BY <2>1 DEF DecodeInv
  <2>5. at.x1 <= dec.x /\ dec.x <= at.x2
    <3>1. CASE Len(got) < Len(sent)
      <4> DEFINE k == Len(got) + 1
                 a == Narrow(at, sent[k].bit, sent[k].p)
      <4>1. k \in 1 .. Len(sent)
        BY <2>2, <3>1
      <4>2. sent[k].bit \in {0, 1} /\ sent[k].p \in Nat
        BY <2>1, <4>1, TrailFacts
      <4>3. a.x1 <= dec.x /\ dec.x <= a.x2
        BY <2>1, <2>4, <4>1 DEF DecodeInv, Tracks, Share
      <4> HIDE DEF k, at
      <4>4. a \in Encoder /\ at.x1 <= a.x1 /\ a.x2 <= at.x2
        BY <2>3, <4>2, NarrowType DEF Codable
      <4>5. dec.x \in Word
        BY <2>1 DEF TypeOK, Decoder
      <4> HIDE DEF a
      <4>6. QED
        BY <2>3, <4>3, <4>4, <4>5 DEF Encoder, Word
    <3>2. CASE Len(got) = Len(sent)
      <4>1. at = enc
        BY <2>1, <3>2 DEF TrailOK
      <4>2. dec.x = enc.x1
        BY <2>1, <2>4, <4>1 DEF DecodeInv, Tracks
      <4>3. enc.x1 <= enc.x2 /\ enc.x1 \in Word
        BY <2>1, TrailFacts DEF Codable, Encoder
      <4>4. QED
        BY <4>1, <4>2, <4>3 DEF Word
    <3>3. QED
      BY <2>2, <3>1, <3>2
  <2>6. QED
    BY <2>4, <2>5 DEF Tracks
<1>2. QED
  BY <1>1, Invariance, PTL

\* The decoder never reads a byte the encoder did not write, and has read them
\* all when the last bit is out.
THEOREM StreamReadExactly == Spec => []WholeStreamRead
<1>1. IInv => WholeStreamRead
  <2> SUFFICES ASSUME IInv, phase = "decode"
               PROVE  /\ dec.pos <= Len(stream)
                      /\ Len(got) = Len(sent) => dec.pos = Len(stream)
    BY DEF WholeStreamRead
  <2>1. TypeOK /\ TrailOK /\ DecodeInv
    BY DEF IInv
  <2>2. Len(got) + 1 \in 1 .. Len(sent) + 1
    BY <2>1, TrailFacts, LenProperties DEF DecodeInv, TypeOK
  <2>3. /\ Len(trail[Len(got) + 1].out) \in Nat
        /\ Len(trail[Len(got) + 1].out) <= Len(enc.out)
        /\ Len(enc.out) \in Nat
    BY <2>1, <2>2, TrailFacts, LenProperties DEF Encoder
  <2>4. Len(got) = Len(sent) => trail[Len(got) + 1] = enc
    BY <2>1 DEF TrailOK
  <2>5. QED
    BY <2>1, <2>3, <2>4 DEF DecodeInv, Tracks
<1>2. QED
  BY <1>1, Invariance, PTL

-----------------------------------------------------------------------------
(* The range coder implements the bit channel. *)

\* Every behaviour of the coder is one of BitChannel: what is read is what was
\* written, in order, whatever the bytes and intervals in between.
THEOREM CoderImplementsChannel == Spec => ChannelSpec
<1> DEFINE bits == [k \in 1 .. Len(sent) |-> sent[k].bit]
<1>1. Init => Channel!Init
  BY DEF Init, Channel!Init
<1>2. IInv /\ [Next]_vars => [Channel!Next]_(Channel!chanVars)
  <2> SUFFICES ASSUME IInv, [Next]_vars
               PROVE  [Channel!Next]_(Channel!chanVars)
    OBVIOUS
  <2>1. TypeOK /\ TrailOK
    BY DEF IInv
  <2>2. Len(sent) \in Nat /\ sent \in Seq(Symbol)
        /\ \A k \in 1 .. Len(sent) : sent[k].bit \in {0, 1}
    BY <2>1, TrailFacts DEF TypeOK
  <2>3. bits \in Seq({0, 1}) /\ Len(bits) = Len(sent)
    BY <2>2
  <2>4. CASE Encode
    <3>1. PICK bit \in {0, 1}, p \in Probs :
            sent' = Append(sent, [bit |-> bit, p |-> p])
      BY <2>4 DEF Encode
    <3>2. bits' = Append(bits, bit)
      <4> DEFINE y == [bit |-> bit, p |-> p]
      <4>1. y \in Symbol /\ y.bit = bit
        BY DEF Symbol
      <4> HIDE DEF y
      <4>2. /\ sent' \in Seq(Symbol) /\ Len(sent') = Len(sent) + 1
            /\ \A k \in 1 .. Len(sent) : sent'[k] = sent[k]
            /\ sent'[Len(sent) + 1] = y
        BY <2>2, <3>1, <4>1, AppendProperties DEF y
      <4>3. /\ Append(bits, bit) \in Seq({0, 1})
            /\ Len(Append(bits, bit)) = Len(sent) + 1
            /\ \A k \in 1 .. Len(sent) : Append(bits, bit)[k] = bits[k]
            /\ Append(bits, bit)[Len(sent) + 1] = bit
        BY <2>3, AppendProperties
      <4>4. bits' \in Seq({0, 1}) /\ Len(bits') = Len(sent) + 1
        BY <2>2, <4>1, <4>2
      <4>5. ASSUME NEW k \in 1 .. Len(sent) + 1
            PROVE  bits'[k] = Append(bits, bit)[k]
        BY <2>2, <4>1, <4>2, <4>3, <4>5
      <4>6. QED
        BY <4>3, <4>4, <4>5, SeqEqual
    <3>3. QED
      BY <2>4, <3>2 DEF Encode, Channel!Next, Channel!Write
  <2>5. CASE Finish
    BY <2>5 DEF Finish, Channel!Next, Channel!Close
  <2>6. CASE Decode
    <3>1. phase = "decode" /\ Len(got) < Len(sent)
          /\ got' = Append(got, DecodedBit(dec, sent[Len(got) + 1].p))
          /\ UNCHANGED <<phase, sent>>
      BY <2>6 DEF Decode
    <3>2. /\ Len(got) + 1 \in 1 .. Len(sent)
          /\ DecodedBit(dec, sent[Len(got) + 1].p) = sent[Len(got) + 1].bit
      BY <3>1, NextBit
    <3>3. got' = Append(got, bits[Len(got) + 1])
      BY <3>1, <3>2
    <3>4. QED
      BY <2>3, <3>1, <3>3 DEF Channel!Next, Channel!Read
  <2>7. CASE UNCHANGED vars
    BY <2>7 DEF vars, Channel!chanVars
  <2>8. QED
    BY <2>4, <2>5, <2>6, <2>7 DEF Next
<1>3. QED
  BY <1>1, <1>2, Invariance, PTL DEF Spec, ChannelSpec, Channel!Spec
=============================================================================
