-------------------------- MODULE TransformProofs ---------------------------
(***************************************************************************)
(* The codecs of a text.  The word tokens of src/transform/mod.rs, for     *)
(* every alphabet, vocabulary, text, form and mode: the two tables of an   *)
(* id list never come apart (IdsStayInverse), the decoder is at all times  *)
(* where the encoder was (DecoderKeepsUp), and the text comes back         *)
(* (TextComesBack).  The same of the layers, for every text and table      *)
(* (EveryTextComesBack, EveryDecoderKeepsUp).  The grammars of             *)
(* src/grammar/mod.rs: every round leaves a grammar of the text            *)
(* (GrammarKept).                                                          *)
(*                                                                         *)
(* The invariants are in CodecInvariants.  A library of sequences comes    *)
(* first: recursion, flattening, and what a sequence of symbols spells.    *)
(* For the word tokens then what building a vocabulary makes (ranked       *)
(* candidates, merged units, pieces that spell their word), what every     *)
(* code and every header adds to the stream's trace of marks, and one      *)
(* lemma per action for Restores.  For the grammars the pattern a round    *)
(* takes, what its rules stand for and what replacing them keeps.  For the *)
(* layers what each code adds to the course of marks and where a marked    *)
(* word ends.                                                              *)
(***************************************************************************)
EXTENDS CodecInvariants, SequenceTheorems, FiniteSetTheorems, WellFoundedInduction, TLAPS

\* A new list is one.
LEMMA NewListOK ==
  ASSUME NEW n \in Nat
  PROVE  IsList(NewList(n), n)
  BY DEF IsList, NewList, Consistent

\* An entry is promoted to its own place or one before it.
LEMMA TargetBefore ==
  ASSUME NEW n \in Nat, NEW p \in 1 .. n, NEW m
  PROVE  Target(p, m) \in 1 .. p
  BY DEF Target

(* Promoting an entry keeps the two tables inverse: the entry takes place  *)
(* t, and the entries of t .. p - 1 move back by one in both.              *)
LEMMA TouchKeeps ==
  ASSUME NEW n \in Nat, NEW l, IsList(l, n), NEW v \in 1 .. n, NEW m
  PROVE  IsList(Touch(l, v, m), n)
PROOF
  <1> DEFINE p == l.pos[v]
             t == Target(p, m)
             order == [k \in 1 .. n |->
                         IF k = t THEN v
                         ELSE IF k \in t + 1 .. p THEN l.order[k - 1]
                         ELSE l.order[k]]
             pos   == [u \in 1 .. n |->
                         IF u = v THEN t
                         ELSE IF l.pos[u] \in t .. p - 1 THEN l.pos[u] + 1
                         ELSE l.pos[u]]
  <1>1. p \in 1 .. n /\ t \in 1 .. p
    BY TargetBefore DEF IsList
  <1>2. DOMAIN l.order = 1 .. n /\ DOMAIN l.pos = 1 .. n
    BY DEF IsList
  <1>3. \A k \in 1 .. n : l.order[k] \in 1 .. n /\ l.pos[l.order[k]] = k
    BY <1>2 DEF IsList, Consistent
  <1>4. \A u \in 1 .. n : l.pos[u] \in 1 .. n /\ l.order[l.pos[u]] = u
    BY <1>2 DEF IsList, Consistent
  <1>5. ASSUME p # t PROVE IsList([order |-> order, pos |-> pos], n)
    <2> HIDE DEF t
    <2>1. order \in [1 .. n -> 1 .. n]
      BY <1>1, <1>3
    <2>2. pos \in [1 .. n -> 1 .. n]
      BY <1>1, <1>4
    <2>3. ASSUME NEW k \in 1 .. n PROVE pos[order[k]] = k
      <3>1. k = t => pos[order[k]] = k
        BY <1>1
      <3>2. k \in t + 1 .. p => pos[order[k]] = k
        <4>1. SUFFICES ASSUME k \in t + 1 .. p PROVE pos[order[k]] = k
          OBVIOUS
        <4>2. order[k] = l.order[k - 1] /\ k - 1 \in 1 .. n /\ k - 1 \in t .. p - 1
          BY <4>1, <1>1
        <4>3. l.pos[l.order[k - 1]] = k - 1 /\ l.order[k - 1] \in 1 .. n
          BY <4>2, <1>3
        <4>4. l.order[k - 1] # v
          BY <4>2, <4>3
        <4> QED
          BY <4>2, <4>3, <4>4
      <3>3. k # t /\ k \notin t + 1 .. p => pos[order[k]] = k
        <4>1. SUFFICES ASSUME k # t, k \notin t + 1 .. p PROVE pos[order[k]] = k
          OBVIOUS
        <4>2. order[k] = l.order[k] /\ k \notin t .. p
          BY <4>1, <1>1
        <4>3. l.pos[l.order[k]] = k /\ l.order[k] \in 1 .. n
          BY <1>3
        <4>4. l.order[k] # v
          BY <4>2, <4>3, <1>1
        <4> QED
          BY <4>2, <4>3, <4>4, <1>1
      <3> QED
        BY <3>1, <3>2, <3>3
    <2>4. ASSUME NEW u \in 1 .. n PROVE order[pos[u]] = u
      <3>1. u = v => order[pos[u]] = u
        BY <1>1
      <3>2. u # v /\ l.pos[u] \in t .. p - 1 => order[pos[u]] = u
        <4>1. SUFFICES ASSUME u # v, l.pos[u] \in t .. p - 1 PROVE order[pos[u]] = u
          OBVIOUS
        <4> DEFINE k == l.pos[u] + 1
        <4>2. pos[u] = k
          BY <4>1
        <4>3. k \in 1 .. n /\ k # t /\ k \in t + 1 .. p /\ k - 1 = l.pos[u]
          BY <4>1, <1>1, <1>4
        <4>4. order[k] = l.order[k - 1]
          BY <4>3
        <4> QED
          BY <4>2, <4>3, <4>4, <1>4
      <3>3. u # v /\ l.pos[u] \notin t .. p - 1 => order[pos[u]] = u
        <4>1. SUFFICES ASSUME u # v, l.pos[u] \notin t .. p - 1 PROVE order[pos[u]] = u
          OBVIOUS
        <4>2. l.pos[u] # p
          BY <4>1, <1>4
        <4> QED
          BY <4>1, <4>2, <1>1, <1>4
      <3> QED
        BY <3>1, <3>2, <3>3
    <2> HIDE DEF order, pos
    <2> QED
      BY <2>1, <2>2, <2>3, <2>4 DEF IsList, Consistent
  <1>6. Touch(l, v, m) = IF p = t THEN l ELSE [order |-> order, pos |-> pos]
    BY <1>2 DEF Touch
  <1> HIDE DEF order, pos, t, p
  <1> QED
    BY <1>5, <1>6

-----------------------------------------------------------------------------
(* Least numbers, what holds up to n, and functions defined from one       *)
(* number to the next.                                                     *)

\* A number below n is its own rest.
LEMMA SmallRest ==
  ASSUME NEW n \in Nat, NEW k \in Nat, k < n
  PROVE  k % n = k
  OBVIOUS

\* A set of numbers that is not empty has a least one.
LEMMA LeastNumber ==
  ASSUME NEW B, B \subseteq Nat, B # {}
  PROVE  \E n \in B : \A k \in B : n <= k
<1>1. PICK R : R = OpToRel(<, Nat)
  OBVIOUS
<1>2. IsWellFoundedOn(R, Nat)
  BY <1>1, NatLessThanWellFounded
<1>3. PICK n \in B : \A k \in B : <<k, n>> \notin R
  BY <1>2, WFMin
<1>4. \A k \in B : ~(k < n)
  <2> TAKE k \in B
  <2>1. <<k, n>> \notin {p \in Nat \X Nat : p[1] < p[2]}
    BY <1>1, <1>3 DEF OpToRel
  <2>2. <<k, n>> \in Nat \X Nat
    OBVIOUS
  <2>3. ~(<<k, n>>[1] < <<k, n>>[2])
    BY <2>1, <2>2
  <2> QED
    BY <2>3
<1> QED
  BY <1>4

\* What holds of 0, and of k + 1 when it holds of k < n, holds up to n.
LEMMA UpTo ==
  ASSUME NEW n \in Nat, NEW S, 0 \in S, \A k \in Nat : k < n /\ k \in S => k + 1 \in S
  PROVE  \A k \in 0 .. n : k \in S
<1> DEFINE Bad == {k \in Nat : k <= n /\ k \notin S}
<1> SUFFICES ASSUME Bad # {} PROVE FALSE
  OBVIOUS
<1>1. PICK k \in Bad : \A y \in Bad : k <= y
  <2>1. Bad \subseteq Nat
    OBVIOUS
  <2> HIDE DEF Bad
  <2> QED
    BY <2>1, LeastNumber
<1>2. k \in Nat /\ k <= n /\ k \notin S /\ k # 0
  BY <1>1
<1>3. PICK y \in Nat : k = y + 1
  <2>1. k - 1 \in Nat /\ k = (k - 1) + 1
    BY <1>2
  <2> QED
    BY <2>1
<1>4. y < n /\ y <= n /\ ~(k <= y)
  BY <1>2, <1>3
<1>5. y \in S
  BY <1>1, <1>4
<1> QED
  BY <1>2, <1>3, <1>4, <1>5

\* g starts at base and goes on with st.
Recurs(g, n, base, st) ==
  g = [x \in 0 .. n |-> IF x = 0 THEN base ELSE st[<<x, g[x - 1]>>]]

\* There is such a function, for every n.
LEMMA Recursion ==
  ASSUME NEW n \in Nat, NEW V, NEW base \in V, NEW st \in [(1 .. n) \X V -> V]
  PROVE  \E g \in [0 .. n -> V] : Recurs(g, n, base, st)
<1> DEFINE Defined(g, m) == /\ g \in [0 .. m -> V]
                            /\ g = [x \in 0 .. m |-> IF x = 0 THEN base ELSE st[<<x, g[x - 1]>>]]
           S == {m \in Nat : m <= n => \E g : Defined(g, m)}
<1>1. 0 \in S
  <2>1. PICK g : g = [x \in 0 .. 0 |-> base]
    OBVIOUS
  <2>2. g \in [0 .. 0 -> V]
    BY <2>1
  <2>3. g = [x \in 0 .. 0 |-> IF x = 0 THEN base ELSE st[<<x, g[x - 1]>>]]
    BY <2>1
  <2> QED
    BY <2>2, <2>3
<1>2. ASSUME NEW m \in Nat, m < n, m \in S PROVE m + 1 \in S
  <2>1. PICK g : Defined(g, m)
    BY <1>2
  <2>2. PICK h : h = [x \in 0 .. m + 1 |-> IF x = m + 1 THEN st[<<x, g[m]>>] ELSE g[x]]
    OBVIOUS
  <2>3. h[m + 1] = st[<<m + 1, g[m]>>] /\ \A x \in 0 .. m : h[x] = g[x]
    BY <1>2, <2>2
  <2>4. g[m] \in V /\ m + 1 \in 1 .. n
    BY <1>2, <2>1
  <2>5. h \in [0 .. m + 1 -> V]
    <3>1. st[<<m + 1, g[m]>>] \in V
      BY <2>4
    <3>2. \A x \in 0 .. m : g[x] \in V
      BY <2>1
    <3>3. \A x \in 0 .. m + 1 : x = m + 1 \/ x \in 0 .. m
      BY <1>2
    <3> QED
      BY <2>2, <3>1, <3>2, <3>3
  <2>6. ASSUME NEW x \in 0 .. m + 1
        PROVE  h[x] = IF x = 0 THEN base ELSE st[<<x, h[x - 1]>>]
    <3>1. CASE x = m + 1
      <4>1. x # 0 /\ x - 1 = m /\ m \in 0 .. m
        BY <1>2, <3>1
      <4> QED
        BY <2>3, <3>1, <4>1
    <3>2. CASE x # m + 1
      <4>1. x \in 0 .. m
        BY <1>2, <3>2
      <4>2. g[x] = IF x = 0 THEN base ELSE st[<<x, g[x - 1]>>]
        BY <2>1, <4>1
      <4>3. CASE x = 0
        BY <2>3, <4>1, <4>2, <4>3
      <4>4. CASE x # 0
        <5>1. x - 1 \in 0 .. m
          BY <4>1, <4>4
        <5> QED
          BY <2>3, <4>1, <4>2, <4>4, <5>1
      <4> QED
        BY <4>3, <4>4
    <3> QED
      BY <3>1, <3>2
  <2>7. h = [x \in 0 .. m + 1 |-> IF x = 0 THEN base ELSE st[<<x, h[x - 1]>>]]
    BY <2>2, <2>6
  <2>8. Defined(h, m + 1)
    BY <2>5, <2>7
  <2> HIDE DEF Defined
  <2> QED
    BY <2>8
<1>3. n \in S
  <2> HIDE DEF S
  <2>1. \A k \in 0 .. n : k \in S
    BY <1>1, <1>2, UpTo
  <2> QED
    BY <2>1
<1>4. PICK g : Defined(g, n)
  BY <1>3
<1> QED
  BY <1>4 DEF Recurs

\* s is the first m pages, one behind the other.
FlatAt(s, P, m, o) ==
  /\ o \in [1 .. m + 1 -> Nat] /\ o[1] = 0 /\ Len(s) = o[m + 1]
  /\ \A k \in 1 .. m : o[k + 1] = o[k] + Len(P[k]) /\ o[k + 1] <= o[m + 1]
  /\ \A k \in 1 .. m : \A y \in 1 .. Len(P[k]) : s[o[k] + y] = P[k][y]

\* Some offsets lay s out as the first m pages.
Flat(s, P, m) == \E o : FlatAt(s, P, m, o)

-----------------------------------------------------------------------------
(* Sequences that are parts of one another.                                *)

\* The length and the elements of a concatenation.
LEMMA Chained ==
  ASSUME NEW X, NEW a \in Seq(X), NEW b \in Seq(X)
  PROVE  /\ a \o b \in Seq(X) /\ Len(a \o b) = Len(a) + Len(b)
         /\ \A x \in 1 .. Len(a) : (a \o b)[x] = a[x]
         /\ \A x \in 1 .. Len(b) : (a \o b)[Len(a) + x] = b[x]
<1>1. PICK m \in Nat, n \in Nat : m = Len(a) /\ n = Len(b)
  OBVIOUS
<1>2. PICK h : h = a \o b
  OBVIOUS
<1>3. /\ h \in Seq(X) /\ Len(h) = m + n /\ \A x \in 1 .. m : h[x] = a[x]
      /\ \A x \in 1 .. n : h[m + x] = b[x]
  BY <1>1, <1>2
<1> QED
  BY <1>1, <1>2, <1>3

\* One more page behind the others.
LEMMA FlatGrows ==
  ASSUME NEW X, NEW P, NEW m \in Nat, NEW s \in Seq(X), P[m + 1] \in Seq(X), Flat(s, P, m)
  PROVE  Flat(s \o P[m + 1], P, m + 1)
<1>1. PICK o : /\ o \in [1 .. m + 1 -> Nat] /\ o[1] = 0 /\ Len(s) = o[m + 1]
               /\ \A k \in 1 .. m : o[k + 1] = o[k] + Len(P[k]) /\ o[k + 1] <= o[m + 1]
               /\ \A k \in 1 .. m : \A y \in 1 .. Len(P[k]) : s[o[k] + y] = P[k][y]
  BY DEF Flat, FlatAt
<1>2. PICK b \in Seq(X) : b = P[m + 1]
  OBVIOUS
<1>3. PICK l \in Nat, e \in Nat : l = Len(b) /\ e = o[m + 1]
  <2>1. Len(b) \in Nat /\ o[m + 1] \in Nat
    BY <1>1
  <2> QED
    BY <2>1
<1>4. PICK r : r = s \o b
  OBVIOUS
<1>5. /\ Len(r) = e + l /\ \A x \in 1 .. e : r[x] = s[x]
      /\ \A x \in 1 .. l : r[e + x] = b[x]
  <2>1. /\ Len(r) = Len(s) + Len(b) /\ \A x \in 1 .. Len(s) : r[x] = s[x]
        /\ \A x \in 1 .. Len(b) : r[Len(s) + x] = b[x]
    BY <1>4, Chained
  <2>2. Len(s) = e /\ Len(b) = l
    BY <1>1, <1>3
  <2> QED
    BY <2>1, <2>2
<1>6. PICK n \in Nat : n = m + 1
  OBVIOUS
<1>7. PICK u : u = [k \in 1 .. n + 1 |-> IF k = n + 1 THEN e + l ELSE o[k]]
  OBVIOUS
<1>8. u[n + 1] = e + l /\ u[n] = e /\ \A k \in 1 .. n : u[k] = o[k]
  BY <1>1, <1>3, <1>6, <1>7
<1>9. u \in [1 .. n + 1 -> Nat]
  <2>1. \A k \in 1 .. n + 1 : k = n + 1 \/ k \in 1 .. m + 1
    BY <1>6
  <2>2. \A k \in 1 .. m + 1 : o[k] \in Nat
    BY <1>1
  <2>3. e + l \in Nat
    OBVIOUS
  <2>4. \A k \in 1 .. n + 1 : (IF k = n + 1 THEN e + l ELSE o[k]) \in Nat
    BY <2>1, <2>2, <2>3
  <2> QED
    BY <1>7, <2>4
<1>10. u[1] = 0
  BY <1>1, <1>6, <1>8
<1>11. ASSUME NEW k \in 1 .. n
       PROVE  u[k + 1] = u[k] + Len(P[k]) /\ u[k + 1] <= u[n + 1]
  <2>1. CASE k = n
    BY <1>2, <1>3, <1>6, <1>8, <2>1
  <2>2. CASE k # n
    <3>1. k \in 1 .. m /\ k + 1 \in 1 .. n
      BY <1>6, <2>2
    <3>2. o[k + 1] = o[k] + Len(P[k]) /\ o[k + 1] <= e /\ u[k] = o[k] /\ u[k + 1] = o[k + 1]
      BY <1>1, <1>3, <1>8, <3>1
    <3>3. o[k + 1] \in Nat
      BY <1>1, <1>6, <3>1
    <3> QED
      BY <1>8, <3>2, <3>3
  <2> QED
    BY <2>1, <2>2
<1>12. ASSUME NEW k \in 1 .. n, NEW y \in 1 .. Len(P[k]) PROVE r[u[k] + y] = P[k][y]
  <2>1. CASE k = n
    <3>1. y \in 1 .. l /\ u[k] = e /\ P[k] = b
      BY <1>2, <1>3, <1>6, <1>8, <1>12, <2>1
    <3> QED
      BY <1>5, <3>1
  <2>2. CASE k # n
    <3>1. k \in 1 .. m /\ u[k] = o[k] /\ k \in 1 .. m + 1
      BY <1>6, <1>8, <2>2
    <3>2. o[k] \in Nat /\ o[k + 1] = o[k] + Len(P[k]) /\ o[k + 1] <= e
      BY <1>1, <1>3, <3>1
    <3>3. k + 1 \in 1 .. m + 1
      BY <3>1
    <3>4. PICK q \in Nat : q = o[k + 1]
      BY <1>1, <3>3
    <3>5. PICK x \in Nat : x = o[k] + y
      BY <3>2
    <3>6. PICK z : z = Len(P[k])
      OBVIOUS
    <3>7. y <= z /\ q = o[k] + z
      BY <3>2, <3>4, <3>6
    <3>8. z \in Int
      BY <1>12, <3>6, <3>2, <3>4, <3>7
    <3>9. x \in 1 .. e
      <4>1. PICK c \in Nat : c = o[k]
        BY <3>2
      <4>2. PICK d \in 1 .. z : d = y
        BY <3>6
      <4>3. x = c + d
        BY <3>5, <4>1, <4>2, Zenon
      <4>4. q = c + z
        BY <3>7, <4>1, Zenon
      <4>5. q <= e
        BY <3>2, <3>4, Zenon
      <4> QED
        BY <3>8, <4>3, <4>4, <4>5
    <3> QED
      BY <1>1, <1>5, <3>1, <3>5, <3>9
  <2> QED
    BY <2>1, <2>2
<1>13. Len(r) = u[n + 1]
  BY <1>5, <1>8
<1>14. Flat(r, P, n)
  <2>1. \A k \in 1 .. n : u[k + 1] = u[k] + Len(P[k]) /\ u[k + 1] <= u[n + 1]
    BY <1>11
  <2>2. \A k \in 1 .. n : \A y \in 1 .. Len(P[k]) : r[u[k] + y] = P[k][y]
    BY <1>12
  <2>3. FlatAt(r, P, n, u)
    BY <1>9, <1>10, <1>13, <2>1, <2>2 DEF FlatAt
  <2> QED
    BY <2>3 DEF Flat
<1> QED
  BY <1>2, <1>4, <1>6, <1>14

\* FlattenSeq lays its parts out one behind the other.
LEMMA Flattened ==
  ASSUME NEW X, NEW P \in Seq(Seq(X)), P # <<>>
  PROVE  FlattenSeq(P) \in Seq(X) /\ Flat(FlattenSeq(P), P, Len(P))
<1>1. PICK n \in Nat \ {0} : n = Len(P)
  <2>1. Len(P) \in Nat \ {0}
    OBVIOUS
  <2> QED
    BY <2>1
<1>2. \A x \in 1 .. n : P[x] \in Seq(X)
  BY <1>1
<1>3. PICK V, none : V = Seq(X) /\ none = <<>> /\ none \in V
  <2>1. <<>> \in Seq(X)
    OBVIOUS
  <2> QED
    BY <2>1
<1>4. PICK st : st = [x \in (1 .. n) \X V |-> x[2] \o P[x[1]]]
  OBVIOUS
<1>5. st \in [(1 .. n) \X V -> V]
  <2>1. \A x \in 1 .. n, q \in V : q \o P[x] \in V
    BY <1>2, <1>3
  <2> QED
    BY <1>4, <2>1
<1>6. PICK g \in [0 .. n -> V] : Recurs(g, n, none, st)
  BY <1>3, <1>5, Recursion
<1> DEFINE Out(h) == h = [x \in 1 .. n |-> IF x = 1 THEN P[x] ELSE h[x - 1] \o P[x]]
<1>7. \E h : Out(h)
  <2>1. PICK r : r = [x \in 1 .. n |-> g[x]]
    OBVIOUS
  <2>2. ASSUME NEW x \in 1 .. n PROVE g[x] = IF x = 1 THEN P[x] ELSE r[x - 1] \o P[x]
    <3>1. x \in 0 .. n /\ x # 0 /\ x - 1 \in 0 .. n
      OBVIOUS
    <3>2. g[x] = st[<<x, g[x - 1]>>]
      BY <1>6, <3>1 DEF Recurs
    <3>3. g[x - 1] \in V
      BY <3>1
    <3>4. g[x] = g[x - 1] \o P[x]
      BY <1>4, <3>2, <3>3
    <3>5. CASE x = 1
      <4>1. g[0] = none
        BY <1>6 DEF Recurs
      <4>2. g[x] = <<>> \o P[1]
        <5>1. x - 1 = 0
          BY <3>5
        <5>2. g[x] = g[0] \o P[x]
          BY <3>4, <5>1
        <5> QED
          BY <1>3, <3>5, <4>1, <5>2
      <4>3. P[1] \in Seq(X)
        BY <1>2, <3>5
      <4>4. <<>> \o P[1] = P[1]
        BY <4>3
      <4> QED
        BY <3>5, <4>2, <4>4
    <3>6. CASE x # 1
      <4>1. x - 1 \in 1 .. n
        BY <3>6
      <4> QED
        BY <2>1, <3>4, <3>6, <4>1
    <3> QED
      BY <3>5, <3>6
  <2>3. Out(r)
    BY <2>1, <2>2
  <2> HIDE DEF Out
  <2> QED
    BY <2>3
<1>8. PICK h : Out(h) /\ FlattenSeq(P) = h[n]
  <2>1. FlattenSeq(P) = (CHOOSE h : Out(h))[n]
    BY <1>1 DEF FlattenSeq
  <2>2. Out(CHOOSE h : Out(h))
    <3> HIDE DEF Out
    <3> QED
      BY <1>7
  <2> HIDE DEF Out
  <2> QED
    BY <2>1, <2>2
<1> DEFINE S == {x \in Nat : x + 1 <= n => h[x + 1] \in Seq(X) /\ Flat(h[x + 1], P, x + 1)}
<1>9. 0 \in S
  <2>1. h[1] = P[1] /\ P[1] \in Seq(X) /\ 0 + 1 = 1
    BY <1>2, <1>8
  <2>2. PICK e \in Seq(X) : e = <<>>
    <3>1. <<>> \in Seq(X)
      OBVIOUS
    <3> QED
      BY <3>1
  <2>3. Flat(e, P, 0)
    <3>1. PICK o : o = [k \in 1 .. 0 + 1 |-> 0]
      OBVIOUS
    <3>2. o \in [1 .. 0 + 1 -> Nat] /\ o[1] = 0 /\ o[0 + 1] = 0
      BY <3>1
    <3>3. Len(e) = 0
      BY <2>2
    <3> QED
      BY <3>2, <3>3 DEF Flat, FlatAt
  <2>4. Flat(e \o P[0 + 1], P, 0 + 1)
    BY <2>1, <2>3, FlatGrows
  <2>5. e \o P[1] = P[1]
    BY <2>1, <2>2
  <2> QED
    BY <2>1, <2>4, <2>5
<1>10. ASSUME NEW x \in Nat, x < n, x \in S PROVE x + 1 \in S
  <2> SUFFICES ASSUME NEW y \in Nat, y = x + 1, y + 1 <= n
               PROVE  h[y + 1] \in Seq(X) /\ Flat(h[y + 1], P, y + 1)
    OBVIOUS
  <2>1. h[y] \in Seq(X) /\ Flat(h[y], P, y)
    BY <1>10
  <2>2. P[y + 1] \in Seq(X)
    BY <1>2
  <2>3. h[y + 1] = h[y] \o P[y + 1]
    <3>1. y + 1 \in 1 .. n /\ y + 1 # 1 /\ (y + 1) - 1 = y
      OBVIOUS
    <3> QED
      BY <1>8, <3>1
  <2>4. Flat(h[y] \o P[y + 1], P, y + 1)
    BY <2>1, <2>2, FlatGrows
  <2>5. h[y] \o P[y + 1] \in Seq(X)
    BY <2>1, <2>2, Chained
  <2> QED
    BY <2>3, <2>4, <2>5
<1>11. \A k \in 0 .. n : k \in S
  <2> HIDE DEF S
  <2> QED
    BY <1>9, <1>10, UpTo
<1>12. PICK m \in 0 .. n : n = m + 1
  <2>1. n - 1 \in 0 .. n /\ n = (n - 1) + 1
    OBVIOUS
  <2> QED
    BY <2>1
<1>13. h[n] \in Seq(X) /\ Flat(h[n], P, n)
  <2>1. m \in S
    BY <1>11
  <2> QED
    BY <1>12, <2>1
<1> QED
  BY <1>1, <1>8, <1>13

-----------------------------------------------------------------------------
(* A function on 0 .. n whose value at y may use every value below y.      *)

\* What st makes of a function at y depends on what is below y.
Causal(st, n, V) ==
  \A y \in 0 .. n : \A f, g \in [0 .. n -> V] :
    (\A x \in 0 .. y - 1 : f[x] = g[x]) => st[<<y, f>>] = st[<<y, g>>]

\* f is at every y what st makes of it.
Follows(f, st, n) == \A y \in 0 .. n : f[y] = st[<<y, f>>]

\* There is such a function, by induction over the numbers up to n.
LEMMA CourseOfValues ==
  ASSUME NEW n \in Nat, NEW V, NEW e \in V,
         NEW st \in [(0 .. n) \X [0 .. n -> V] -> V], Causal(st, n, V)
  PROVE  \E f \in [0 .. n -> V] : Follows(f, st, n)
<1> DEFINE F == [0 .. n -> V]
           Until(f, m) == \A y \in 0 .. n : y < m => f[y] = st[<<y, f>>]
           S == {m \in Nat : m <= n + 1 => \E f \in F : Until(f, m)}
<1>1. 0 \in S
  <2>1. [y \in 0 .. n |-> e] \in F
    OBVIOUS
  <2>2. \A f : Until(f, 0)
    OBVIOUS
  <2> HIDE DEF F, Until
  <2> QED
    BY <2>1, <2>2
<1>2. ASSUME NEW m \in Nat, m < n + 1, m \in S PROVE m + 1 \in S
  <2>1. PICK f \in F : Until(f, m)
    <3>1. m <= n + 1
      BY <1>2
    <3> HIDE DEF F, Until
    <3> QED
      BY <1>2, <3>1
  <2>2. m \in 0 .. n
    BY <1>2
  <2>3. st[<<m, f>>] \in V
    BY <2>1, <2>2
  <2>4. PICK g : g = [y \in 0 .. n |-> IF y = m THEN st[<<m, f>>] ELSE f[y]]
    OBVIOUS
  <2>5. g \in F
    BY <2>1, <2>3, <2>4
  <2>6. g[m] = st[<<m, f>>] /\ \A y \in 0 .. n : y # m => g[y] = f[y]
    BY <2>2, <2>4
  <2>7. ASSUME NEW y \in 0 .. n, y < m + 1 PROVE g[y] = st[<<y, g>>]
    <3>1. \A x \in 0 .. y - 1 : g[x] = f[x]
      <4> TAKE x \in 0 .. y - 1
      <4>1. x \in 0 .. n /\ x # m
        BY <1>2, <2>2, <2>7
      <4> QED
        BY <2>6, <4>1
    <3>2. st[<<y, f>>] = st[<<y, g>>]
      <4>1. \A x \in 0 .. y - 1 : f[x] = g[x]
        BY <3>1
      <4> QED
        BY <2>1, <2>5, <4>1 DEF Causal
    <3>3. CASE y = m
      BY <2>6, <3>2, <3>3
    <3>4. CASE y # m
      <4>1. y < m
        BY <1>2, <2>7, <3>4
      <4>2. f[y] = st[<<y, f>>] /\ g[y] = f[y]
        BY <2>1, <2>6, <3>4, <4>1
      <4> QED
        BY <3>2, <4>2
    <3> QED
      BY <3>3, <3>4
  <2>8. Until(g, m + 1)
    BY <2>7
  <2> HIDE DEF F, Until
  <2> QED
    BY <2>5, <2>8
<1>3. n + 1 \in S
  <2> HIDE DEF S
  <2>1. n + 1 \in Nat
    OBVIOUS
  <2>2. \A k \in 0 .. n + 1 : k \in S
    BY <1>1, <1>2, <2>1, UpTo
  <2> QED
    BY <2>2
<1>4. PICK f \in F : Until(f, n + 1)
  <2> HIDE DEF F, Until
  <2> QED
    BY <1>3
<1>5. \A y \in 0 .. n : f[y] = st[<<y, f>>]
  BY <1>4
<1> QED
  BY <1>4, <1>5 DEF Follows

-----------------------------------------------------------------------------
(* What FlattenSeq does.                                                   *)

\* h[k] is the first k parts, one behind the other.
Joins(h, P) ==
  /\ h[0] = <<>>
  /\ \A k \in 1 .. Len(P) : h[k] = h[k - 1] \o P[k]

\* FlattenSeq is the last of the prefixes Joins describes.
LEMMA Flattens ==
  ASSUME NEW X, NEW P \in Seq(Seq(X))
  PROVE  \E h \in [0 .. Len(P) -> Seq(X)] : Joins(h, P) /\ FlattenSeq(P) = h[Len(P)]
<1>1. PICK n \in Nat : n = Len(P)
  OBVIOUS
<1>2. \A k \in 1 .. n : P[k] \in Seq(X)
  BY <1>1
<1>3. PICK st : st = [q \in (1 .. n) \X Seq(X) |-> q[2] \o P[q[1]]]
  OBVIOUS
<1>4. st \in [(1 .. n) \X Seq(X) -> Seq(X)]
  <2>1. \A q \in (1 .. n) \X Seq(X) : q[2] \o P[q[1]] \in Seq(X)
    <3> TAKE q \in (1 .. n) \X Seq(X)
    <3>1. q[2] \in Seq(X) /\ P[q[1]] \in Seq(X)
      BY <1>2
    <3> QED
      BY <3>1, ConcatProperties
  <2> QED
    BY <1>3, <2>1
<1>5. <<>> \in Seq(X)
  OBVIOUS
<1>6. PICK h \in [0 .. n -> Seq(X)] : Recurs(h, n, <<>>, st)
  BY <1>4, <1>5, Recursion
<1>7. h[0] = <<>> /\ \A k \in 1 .. n : h[k] = h[k - 1] \o P[k]
  <2>1. h[0] = <<>>
    BY <1>6 DEF Recurs
  <2>2. ASSUME NEW k \in 1 .. n PROVE h[k] = h[k - 1] \o P[k]
    <3>1. k \in 0 .. n /\ k # 0 /\ k - 1 \in 0 .. n
      OBVIOUS
    <3>2. h[k] = st[<<k, h[k - 1]>>]
      BY <1>6, <3>1 DEF Recurs
    <3>3. h[k - 1] \in Seq(X)
      BY <1>6, <3>1
    <3> QED
      BY <1>3, <3>2, <3>3
  <2> QED
    BY <2>1, <2>2
<1>8. Joins(h, P)
  BY <1>1, <1>7 DEF Joins
<1>9. FlattenSeq(P) = h[n]
  <2>1. CASE n = 0
    <3>1. P = <<>>
      BY <1>1, <2>1, EmptySeq
    <3>2. FlattenSeq(P) = P
      BY <1>1, <2>1 DEF FlattenSeq
    <3> QED
      BY <1>7, <2>1, <3>1, <3>2
  <2>2. CASE n # 0
    <3> DEFINE Good(f) == f = [k \in 1 .. Len(P) |-> IF k = 1 THEN P[k] ELSE f[k - 1] \o P[k]]
    <3>1. FlattenSeq(P) = (CHOOSE f : Good(f))[Len(P)]
      BY <1>1, <2>2 DEF FlattenSeq
    <3>2. PICK g : g = [k \in 1 .. n |-> h[k]]
      OBVIOUS
    <3>3. ASSUME NEW k \in 1 .. n PROVE g[k] = IF k = 1 THEN P[k] ELSE g[k - 1] \o P[k]
      <4>1. CASE k = 1
        <5>1. h[1] = h[0] \o P[1] /\ P[1] \in Seq(X)
          <6>1. 1 \in 1 .. n /\ 1 - 1 = 0
            BY <4>1
          <6>2. h[1] = h[1 - 1] \o P[1]
            BY <1>7, <6>1
          <6> QED
            BY <1>2, <6>1, <6>2
        <5>2. <<>> \o P[1] = P[1]
          BY <5>1, ConcatEmptySeq
        <5> QED
          BY <1>7, <3>2, <4>1, <5>1, <5>2
      <4>2. CASE k # 1
        <5>1. k - 1 \in 1 .. n
          BY <4>2
        <5> QED
          BY <1>7, <3>2, <4>2, <5>1
      <4> QED
        BY <4>1, <4>2
    <3>4. Good(g)
      BY <1>1, <3>2, <3>3
    <3>5. PICK f : Good(f) /\ FlattenSeq(P) = f[n]
      <4>1. Good(CHOOSE f : Good(f))
        <5> HIDE DEF Good
        <5> QED
          BY <3>4
      <4> HIDE DEF Good
      <4> QED
        BY <1>1, <3>1, <4>1
    <3>6. \A k \in 0 .. n : k # 0 => f[k] = h[k]
      <4> DEFINE S == {k \in Nat : k # 0 => f[k] = h[k]}
      <4>1. 0 \in S
        OBVIOUS
      <4>2. ASSUME NEW k \in Nat, k < n, k \in S PROVE k + 1 \in S
        <5>1. k + 1 \in 1 .. n /\ (k + 1) - 1 = k
          BY <4>2
        <5>2. f[k + 1] = IF k + 1 = 1 THEN P[k + 1] ELSE f[k] \o P[k + 1]
          <6>1. \A x \in 1 .. n : f[x] = IF x = 1 THEN P[x] ELSE f[x - 1] \o P[x]
            BY <1>1, <3>5
          <6> QED
            BY <5>1, <6>1
        <5>3. g[k + 1] = IF k + 1 = 1 THEN P[k + 1] ELSE g[k] \o P[k + 1]
          BY <3>3, <5>1
        <5>4. k = 0 => f[k + 1] = h[k + 1]
          <6>1. k = 0 => f[k + 1] = P[k + 1] /\ g[k + 1] = P[k + 1]
            BY <5>2, <5>3
          <6>2. g[k + 1] = h[k + 1]
            BY <3>2, <5>1
          <6> QED
            BY <6>1, <6>2
        <5>5. k # 0 => f[k + 1] = h[k + 1]
          <6>1. SUFFICES ASSUME k # 0 PROVE f[k + 1] = h[k + 1]
            OBVIOUS
          <6>2. k \in 1 .. n /\ f[k] = h[k]
            BY <4>2, <6>1
          <6>3. g[k] = h[k] /\ g[k + 1] = h[k + 1] /\ k + 1 # 1
            BY <3>2, <5>1, <6>1, <6>2
          <6> QED
            BY <5>2, <5>3, <6>2, <6>3
        <5>6. f[k + 1] = h[k + 1]
          BY <5>4, <5>5
        <5>7. k + 1 \in Nat
          OBVIOUS
        <5> HIDE DEF Good
        <5> QED
          BY <5>6, <5>7
      <4> HIDE DEF S
      <4>3. \A k \in 0 .. n : k \in S
        BY <4>1, <4>2, UpTo
      <4> QED
        BY <4>3 DEF S
    <3>7. n \in 0 .. n
      OBVIOUS
    <3>8. f[n] = h[n]
      BY <2>2, <3>6, <3>7
    <3> QED
      BY <3>5, <3>8
  <2> QED
    BY <2>1, <2>2
<1> QED
  BY <1>1, <1>6, <1>8, <1>9

-----------------------------------------------------------------------------
(* FlattenSeq of a joined sequence and of a single part.                   *)

\* Concatenation is associative, under a name a proof can pass on.
Regroups(a, b, c) == (a \o b) \o c = a \o (b \o c)

\* It holds of all sequences.
LEMMA Regrouped ==
  ASSUME NEW X, NEW a \in Seq(X), NEW b \in Seq(X), NEW c \in Seq(X)
  PROVE  Regroups(a, b, c)
  BY ConcatAssociative, Z3 DEF Regroups

\* The parts of two sequences are flattened one behind the other.
LEMMA FlatJoin ==
  ASSUME NEW X, NEW P \in Seq(Seq(X)), NEW Q \in Seq(Seq(X))
  PROVE  /\ FlattenSeq(P) \in Seq(X) /\ FlattenSeq(Q) \in Seq(X)
         /\ FlattenSeq(P \o Q) = FlattenSeq(P) \o FlattenSeq(Q)
<1>1. PICK m \in Nat, n \in Nat : m = Len(P) /\ n = Len(Q)
  OBVIOUS
<1>2. PICK R \in Seq(Seq(X)) : R = P \o Q
  BY ConcatProperties
<1>3. /\ Len(R) = m + n
      /\ \A k \in 1 .. m : R[k] = P[k]
      /\ \A k \in 1 .. n : R[m + k] = Q[k]
  <2>1. /\ Len(R) = Len(P) + Len(Q)
        /\ \A k \in 1 .. Len(P) : R[k] = P[k]
        /\ \A k \in 1 .. Len(Q) : R[Len(P) + k] = Q[k]
    BY <1>2, Chained
  <2> QED
    BY <1>1, <2>1
<1>4. PICK p \in [0 .. m -> Seq(X)] : Joins(p, P) /\ FlattenSeq(P) = p[m]
  BY <1>1, Flattens
<1>5. PICK q \in [0 .. n -> Seq(X)] : Joins(q, Q) /\ FlattenSeq(Q) = q[n]
  BY <1>1, Flattens
<1>6. PICK r \in [0 .. m + n -> Seq(X)] : Joins(r, R) /\ FlattenSeq(R) = r[m + n]
  <2>1. PICK r \in [0 .. Len(R) -> Seq(X)] : Joins(r, R) /\ FlattenSeq(R) = r[Len(R)]
    BY Flattens
  <2> QED
    BY <1>3, <2>1
<1>7. \A k \in 0 .. m : r[k] = p[k]
  <2> DEFINE S == {k \in Nat : r[k] = p[k]}
  <2>1. 0 \in S
    BY <1>4, <1>6 DEF Joins
  <2>2. ASSUME NEW k \in Nat, k < m, k \in S PROVE k + 1 \in S
    <3>1. k + 1 \in 1 .. m /\ k + 1 \in 1 .. m + n /\ (k + 1) - 1 = k
      BY <2>2
    <3>2. r[k + 1] = r[k] \o R[k + 1]
      BY <1>3, <1>6, <3>1 DEF Joins
    <3>3. p[k + 1] = p[k] \o P[k + 1]
      BY <1>1, <1>4, <3>1 DEF Joins
    <3>4. r[k + 1] = p[k + 1]
      BY <1>3, <2>2, <3>1, <3>2, <3>3
    <3> QED
      BY <3>4
  <2> HIDE DEF S
  <2>3. \A k \in 0 .. m : k \in S
    BY <2>1, <2>2, UpTo
  <2> QED
    BY <2>3 DEF S
<1>8. PICK pm \in Seq(X) : pm = p[m]
  OBVIOUS
<1>9. \A k \in 0 .. n : r[m + k] = pm \o q[k]
  <2> DEFINE S == {k \in Nat : r[m + k] = pm \o q[k]}
  <2>1. 0 \in S
    <3>1. q[0] = <<>>
      BY <1>5 DEF Joins
    <3>2. r[m] = pm /\ pm \o <<>> = pm
      BY <1>7, <1>8, ConcatEmptySeq
    <3>3. m + 0 = m
      OBVIOUS
    <3>4. r[m + 0] = pm \o q[0]
      BY <3>1, <3>2, <3>3
    <3> QED
      BY <3>4
  <2>2. ASSUME NEW k \in Nat, k < n, k \in S PROVE k + 1 \in S
    <3>1. k + 1 \in 1 .. n /\ m + (k + 1) \in 1 .. m + n /\ (m + (k + 1)) - 1 = m + k /\ (k + 1) - 1 = k
      BY <2>2
    <3>2. r[m + (k + 1)] = r[m + k] \o R[m + (k + 1)]
      BY <1>3, <1>6, <3>1 DEF Joins
    <3>3. q[k + 1] = q[k] \o Q[k + 1]
      BY <1>1, <1>5, <3>1 DEF Joins
    <3>4. R[m + (k + 1)] = Q[k + 1] /\ r[m + k] = pm \o q[k]
      BY <1>3, <2>2, <3>1
    <3>5. PICK a \in Seq(X), b \in Seq(X) : a = q[k] /\ b = Q[k + 1]
      <4>1. k \in 0 .. n
        BY <2>2
      <4>2. q[k] \in Seq(X)
        BY <4>1
      <4>3. Q[k + 1] \in Seq(X)
        BY <1>1, <3>1
      <4> QED
        BY <4>2, <4>3
    <3>6. (pm \o a) \o b = pm \o (a \o b)
      <4>1. pm \in Seq(X) /\ a \in Seq(X) /\ b \in Seq(X)
        BY <1>8, <3>5
      <4>2. Regroups(pm, a, b)
        BY <4>1, Regrouped
      <4> QED
        BY <4>2 DEF Regroups
    <3>7. r[m + (k + 1)] = pm \o q[k + 1]
      BY <3>2, <3>3, <3>4, <3>5, <3>6
    <3>8. k + 1 \in Nat
      OBVIOUS
    <3> QED
      BY <3>7, <3>8
  <2> HIDE DEF S
  <2>3. \A k \in 0 .. n : k \in S
    BY <2>1, <2>2, UpTo
  <2> QED
    BY <2>3 DEF S
<1>10. r[m + n] = pm \o q[n]
  <2>1. n \in 0 .. n
    OBVIOUS
  <2> QED
    BY <1>9, <2>1
<1>11. p[m] \in Seq(X) /\ q[n] \in Seq(X)
  OBVIOUS
<1> QED
  BY <1>2, <1>4, <1>5, <1>6, <1>8, <1>10, <1>11

\* A single part is its own flattening.
LEMMA FlatOne ==
  ASSUME NEW X, NEW p \in Seq(X)
  PROVE  FlattenSeq(<<p>>) = p
<1>1. <<p>> \in Seq(Seq(X)) /\ Len(<<p>>) = 1 /\ <<p>>[1] = p
  OBVIOUS
<1>2. PICK h \in [0 .. 1 -> Seq(X)] : Joins(h, <<p>>) /\ FlattenSeq(<<p>>) = h[1]
  BY <1>1, Flattens
<1>3. 1 \in 1 .. 1 /\ 1 - 1 = 0
  OBVIOUS
<1>4. h[1] = h[0] \o p /\ h[0] = <<>>
  BY <1>1, <1>2, <1>3 DEF Joins
<1>5. <<>> \o p = p
  BY ConcatEmptySeq
<1> QED
  BY <1>2, <1>4, <1>5

-----------------------------------------------------------------------------
(* What a sequence of symbols stands for, given what each symbol does.     *)

\* sp says what each symbol of D stands for.
Spells(sp, D, X) == sp \in [D -> Seq(X)]

\* A function on 1 .. n is a sequence.
LEMMA Listed ==
  ASSUME NEW V, NEW n \in Nat, NEW q \in [1 .. n -> V]
  PROVE  q \in Seq(V) /\ Len(q) = n
  OBVIOUS

\* The parts Yield flattens are sequences.
LEMMA YieldParts ==
  ASSUME NEW X, NEW D, NEW sp, Spells(sp, D, X), NEW s \in Seq(D)
  PROVE  /\ [k \in 1 .. Len(s) |-> sp[s[k]]] \in Seq(Seq(X))
         /\ Len([k \in 1 .. Len(s) |-> sp[s[k]]]) = Len(s)
<1>1. \A k \in 1 .. Len(s) : sp[s[k]] \in Seq(X)
  BY DEF Spells
<1>2. Len(s) \in Nat
  OBVIOUS
<1>3. PICK Y : Y = Seq(X)
  OBVIOUS
<1>4. PICK q : q = [k \in 1 .. Len(s) |-> sp[s[k]]]
  OBVIOUS
<1>5. q \in [1 .. Len(s) -> Y]
  BY <1>1, <1>3, <1>4
<1>6. q \in Seq(Y) /\ Len(q) = Len(s)
  BY <1>2, <1>5, Listed
<1> QED
  BY <1>3, <1>4, <1>6

\* Joined symbols yield the joined texts.
LEMMA YieldJoin ==
  ASSUME NEW X, NEW D, NEW sp, Spells(sp, D, X), NEW s \in Seq(D), NEW u \in Seq(D)
  PROVE  /\ Yield(s, sp) \in Seq(X) /\ Yield(u, sp) \in Seq(X)
         /\ Yield(s \o u, sp) = Yield(s, sp) \o Yield(u, sp)
<1>1. PICK w \in Seq(D) : w = s \o u
  BY ConcatProperties
<1>2. PICK m \in Nat, n \in Nat : m = Len(s) /\ n = Len(u)
  OBVIOUS
<1>3. Len(w) = m + n /\ (\A k \in 1 .. m : w[k] = s[k]) /\ (\A k \in 1 .. n : w[m + k] = u[k])
  <2>1. /\ Len(w) = Len(s) + Len(u)
        /\ \A k \in 1 .. Len(s) : w[k] = s[k]
        /\ \A k \in 1 .. Len(u) : w[Len(s) + k] = u[k]
    BY <1>1, Chained
  <2> QED
    BY <1>2, <2>1
<1>4. PICK P \in Seq(Seq(X)) : P = [k \in 1 .. Len(s) |-> sp[s[k]]] /\ Len(P) = m
  <2>1. PICK P : P = [k \in 1 .. Len(s) |-> sp[s[k]]]
    OBVIOUS
  <2>2. P \in Seq(Seq(X)) /\ Len(P) = Len(s)
    BY <2>1, YieldParts
  <2> QED
    BY <1>2, <2>1, <2>2
<1>5. PICK Q \in Seq(Seq(X)) : Q = [k \in 1 .. Len(u) |-> sp[u[k]]] /\ Len(Q) = n
  <2>1. PICK Q : Q = [k \in 1 .. Len(u) |-> sp[u[k]]]
    OBVIOUS
  <2>2. Q \in Seq(Seq(X)) /\ Len(Q) = Len(u)
    BY <2>1, YieldParts
  <2> QED
    BY <1>2, <2>1, <2>2
<1>6. PICK R \in Seq(Seq(X)) : R = [k \in 1 .. Len(w) |-> sp[w[k]]] /\ Len(R) = m + n
  <2>1. PICK R : R = [k \in 1 .. Len(w) |-> sp[w[k]]]
    OBVIOUS
  <2>2. R \in Seq(Seq(X)) /\ Len(R) = Len(w)
    BY <2>1, YieldParts
  <2> QED
    BY <1>3, <2>1, <2>2
<1>7. PICK Y : Y = Seq(X)
  OBVIOUS
<1>16. P \in Seq(Y) /\ Q \in Seq(Y)
  BY <1>7
<1>8. PICK T \in Seq(Y) : T = P \o Q
  BY <1>16, ConcatProperties
<1>9. /\ Len(T) = m + n
      /\ \A k \in 1 .. m : T[k] = P[k]
      /\ \A k \in 1 .. n : T[m + k] = Q[k]
  <2>1. /\ Len(T) = Len(P) + Len(Q)
        /\ \A k \in 1 .. Len(P) : T[k] = P[k]
        /\ \A k \in 1 .. Len(Q) : T[Len(P) + k] = Q[k]
    BY <1>16, <1>8, Chained
  <2> QED
    BY <1>4, <1>5, <2>1
<1>10. ASSUME NEW k \in 1 .. m + n PROVE R[k] = T[k]
  <2>1. CASE k \in 1 .. m
    BY <1>2, <1>3, <1>4, <1>6, <1>9, <1>10, <2>1
  <2>2. CASE k \notin 1 .. m
    <3>1. PICK x \in 1 .. n : k = m + x
      <4>1. k - m \in 1 .. n /\ k = m + (k - m)
        BY <1>10, <2>2
      <4> QED
        BY <4>1
    <3>2. R[m + x] = sp[u[x]]
      BY <1>3, <1>6, <1>10, <3>1
    <3>3. T[m + x] = sp[u[x]]
      BY <1>2, <1>5, <1>9, <3>1
    <3> QED
      BY <3>1, <3>2, <3>3
  <2> QED
    BY <2>1, <2>2
<1>11. R = T
  <2>1. R \in Seq(Y) /\ Len(R) = Len(T) /\ \A k \in 1 .. Len(R) : R[k] = T[k]
    BY <1>6, <1>7, <1>9, <1>10
  <2> QED
    BY <2>1, SeqEqual
<1>12. FlattenSeq(R) = FlattenSeq(P) \o FlattenSeq(Q)
  BY <1>8, <1>11, FlatJoin
<1>13. FlattenSeq(P) \in Seq(X) /\ FlattenSeq(Q) \in Seq(X)
  BY FlatJoin
<1>14. Yield(w, sp) = FlattenSeq(R)
  BY <1>3, <1>6 DEF Yield
<1>15. Yield(s, sp) = FlattenSeq(P) /\ Yield(u, sp) = FlattenSeq(Q)
  BY <1>2, <1>4, <1>5 DEF Yield
<1> QED
  BY <1>1, <1>12, <1>13, <1>14, <1>15

\* No symbols yield nothing.
LEMMA YieldEmpty ==
  ASSUME NEW sp
  PROVE  Yield(<<>>, sp) = <<>>
<1>1. [k \in 1 .. Len(<<>>) |-> sp[<<>>[k]]] = <<>>
  OBVIOUS
<1>2. FlattenSeq(<<>>) = <<>>
  BY DEF FlattenSeq
<1> QED
  BY <1>1, <1>2 DEF Yield

\* A single symbol yields what it stands for.
LEMMA YieldOne ==
  ASSUME NEW X, NEW D, NEW sp, Spells(sp, D, X), NEW a \in D
  PROVE  Yield(<<a>>, sp) = sp[a]
<1>1. [k \in 1 .. Len(<<a>>) |-> sp[<<a>>[k]]] = <<sp[a]>>
  OBVIOUS
<1>2. sp[a] \in Seq(X)
  BY DEF Spells
<1>3. FlattenSeq(<<sp[a]>>) = sp[a]
  BY <1>2, FlatOne
<1> QED
  BY <1>1, <1>3 DEF Yield

\* A word of symbols that stand for themselves.
LEMMA YieldSelf ==
  ASSUME NEW X, NEW D, NEW sp, Spells(sp, D, X), NEW B, B \subseteq D, B \subseteq X,
         \A b \in B : sp[b] = <<b>>,
         NEW w \in Seq(B)
  PROVE  Yield(w, sp) = w
<1>1. PICK n \in Nat : n = Len(w)
  OBVIOUS
<1>2. PICK v : v = [k \in 0 .. n |-> SubSeq(w, 1, k)]
  OBVIOUS
<1> DEFINE S == {k \in Nat : k <= n => Yield(v[k], sp) = v[k]}
<1>3. \A k \in 0 .. n : v[k] \in Seq(B) /\ Len(v[k]) = k /\ \A x \in 1 .. k : v[k][x] = w[x]
  <2> TAKE k \in 0 .. n
  <2>1. \A x \in 1 .. k : w[x] \in B
    BY <1>1
  <2>2. /\ SubSeq(w, 1, k) \in Seq(B) /\ Len(SubSeq(w, 1, k)) = (IF 1 <= k THEN k - 1 + 1 ELSE 0)
        /\ \A x \in 1 .. k - 1 + 1 : SubSeq(w, 1, k)[x] = w[1 + x - 1]
    BY <2>1, SubSeqProperties
  <2>3. v[k] = SubSeq(w, 1, k) /\ k - 1 + 1 = k /\ (IF 1 <= k THEN k - 1 + 1 ELSE 0) = k
    BY <1>2
  <2>4. \A x \in 1 .. k : 1 + x - 1 = x
    OBVIOUS
  <2> QED
    BY <2>2, <2>3, <2>4
<1>4. 0 \in S
  <2>1. v[0] = <<>>
    BY <1>3, EmptySeq
  <2> QED
    BY <2>1, YieldEmpty
<1>5. ASSUME NEW k \in Nat, k < n, k \in S PROVE k + 1 \in S
  <2>1. k \in 0 .. n /\ k + 1 \in 0 .. n /\ k + 1 \in 1 .. n
    BY <1>5
  <2>2. PICK a \in Seq(B) : a = v[k]
    BY <1>3, <2>1
  <2>3. PICK b \in B : b = w[k + 1]
    BY <1>1, <2>1
  <2>4. <<b>> \in Seq(B)
    OBVIOUS
  <2>5. PICK c \in Seq(B) : c = v[k + 1]
    BY <1>3, <2>1
  <2>6. Len(a) = k /\ Len(c) = k + 1 /\ (\A x \in 1 .. k : a[x] = w[x]) /\ \A x \in 1 .. k + 1 : c[x] = w[x]
    BY <1>3, <2>1, <2>2, <2>5
  <2>7. c = a \o <<b>>
    <3>1. PICK d \in Seq(B) : d = a \o <<b>>
      BY <2>4, ConcatProperties
    <3>2. Len(d) = k + 1 /\ (\A x \in 1 .. k : d[x] = a[x]) /\ d[k + 1] = b
      <4>1. /\ Len(d) = Len(a) + Len(<<b>>)
            /\ \A x \in 1 .. Len(a) : d[x] = a[x]
            /\ \A x \in 1 .. Len(<<b>>) : d[Len(a) + x] = <<b>>[x]
        BY <2>4, <3>1, Chained
      <4>2. Len(<<b>>) = 1 /\ <<b>>[1] = b
        OBVIOUS
      <4>3. 1 \in 1 .. Len(<<b>>)
        BY <4>2
      <4> QED
        BY <2>6, <4>1, <4>2, <4>3
    <3>3. \A x \in 1 .. Len(c) : c[x] = d[x]
      <4> TAKE x \in 1 .. Len(c)
      <4>1. x = k + 1 \/ x \in 1 .. k
        BY <2>6
      <4> QED
        BY <2>3, <2>6, <3>2, <4>1
    <3> QED
      BY <2>6, <3>1, <3>2, <3>3, SeqEqual
  <2>8. Yield(c, sp) = Yield(a, sp) \o Yield(<<b>>, sp)
    <3>1. a \in Seq(D) /\ <<b>> \in Seq(D)
      OBVIOUS
    <3>2. \A z, u \in Seq(D) : Yield(z \o u, sp) = Yield(z, sp) \o Yield(u, sp)
      BY YieldJoin
    <3>3. Yield(a \o <<b>>, sp) = Yield(a, sp) \o Yield(<<b>>, sp)
      BY <3>1, <3>2, Zenon
    <3> QED
      BY <2>7, <3>3
  <2>9. Yield(<<b>>, sp) = <<b>>
    <3>1. b \in D /\ sp[b] = <<b>>
      OBVIOUS
    <3>2. Yield(<<b>>, sp) = sp[b]
      BY <3>1, YieldOne
    <3> QED
      BY <3>1, <3>2
  <2>10. Yield(a, sp) = a
    BY <1>5, <2>1, <2>2
  <2>11. Yield(v[k + 1], sp) = v[k + 1]
    BY <2>5, <2>7, <2>8, <2>9, <2>10
  <2> QED
    BY <2>11
<1>6. n \in S
  <2> HIDE DEF S
  <2>1. \A k \in 0 .. n : k \in S
    BY <1>4, <1>5, UpTo
  <2> QED
    BY <2>1
<1>7. Yield(v[n], sp) = v[n]
  BY <1>6
<1>8. v[n] = w
  <2>1. v[n] \in Seq(B) /\ Len(v[n]) = Len(w) /\ \A x \in 1 .. Len(w) : v[n][x] = w[x]
    BY <1>1, <1>3
  <2> QED
    BY <2>1, SeqEqual
<1> QED
  BY <1>7, <1>8

-----------------------------------------------------------------------------
(* The ranking of the candidates: their order is a strict total one, so    *)
(* that every rank from 1 to their number is somebody's.                   *)

\* No word is below itself.
LEMMA LessIrreflexive ==
  ASSUME NEW u \in Seq(Nat)
  PROVE  ~Less(u, u)
<1>1. PICK n \in Nat : n = Len(u)
  OBVIOUS
<1>2. ASSUME NEW k \in 1 .. n, k = n + 1 \/ u[k] < u[k] PROVE FALSE
  <2>1. u[k] \in Nat
    BY <1>1
  <2> QED
    BY <1>2, <2>1
<1> QED
  BY <1>1, <1>2 DEF Less

\* Where u and v first differ, and u is the smaller there.
Splits(u, v, k) ==
  /\ k <= Len(u) + 1
  /\ \A x \in 1 .. k - 1 : u[x] = v[x]
  /\ k = Len(u) + 1 \/ u[k] < v[k]

\* The order of words is transitive.
LEMMA LessTransitive ==
  ASSUME NEW u \in Seq(Nat), NEW v \in Seq(Nat), NEW w \in Seq(Nat), Less(u, v), Less(v, w)
  PROVE  Less(u, w)
<1>1. PICK a \in Nat, b \in Nat, c \in Nat : a = Len(u) /\ b = Len(v) /\ c = Len(w)
  OBVIOUS
<1>2. PICK k \in 1 .. b : Splits(u, v, k)
  BY <1>1 DEF Less, Splits
<1>3. PICK m \in 1 .. c : Splits(v, w, m)
  BY <1>1 DEF Less, Splits
<1>4. k <= a + 1 /\ (\A x \in 1 .. k - 1 : u[x] = v[x]) /\ (k = a + 1 \/ u[k] < v[k])
  BY <1>1, <1>2 DEF Splits
<1>5. m <= b + 1 /\ (\A x \in 1 .. m - 1 : v[x] = w[x]) /\ (m = b + 1 \/ v[m] < w[m])
  BY <1>1, <1>3 DEF Splits
<1>6. \A x \in 1 .. a : u[x] \in Nat
  BY <1>1
<1>7. \A x \in 1 .. b : v[x] \in Nat
  BY <1>1
<1>8. \A x \in 1 .. c : w[x] \in Nat
  BY <1>1
<1>9. \E p \in 1 .. c : Splits(u, w, p)
  <2>1. CASE k <= m
    <3>1. k \in 1 .. c /\ \A x \in 1 .. k - 1 : u[x] = w[x]
      <4>1. \A x \in 1 .. k - 1 : x \in 1 .. m - 1
        BY <2>1
      <4>2. k \in 1 .. c
        BY <2>1
      <4> QED
        BY <1>4, <1>5, <4>1, <4>2
    <3>2. k = a + 1 \/ u[k] < w[k]
      <4>1. SUFFICES ASSUME k # a + 1 PROVE u[k] < w[k]
        OBVIOUS
      <4>2. k \in 1 .. a /\ k \in 1 .. b /\ k \in 1 .. c
        BY <1>4, <3>1, <4>1
      <4>3. u[k] \in Nat /\ v[k] \in Nat /\ w[k] \in Nat /\ u[k] < v[k]
        BY <1>4, <1>6, <1>7, <1>8, <4>1, <4>2
      <4>4. k # m => v[k] = w[k]
        BY <1>5, <2>1
      <4>5. k = m => v[k] < w[k]
        BY <1>5, <4>2
      <4> QED
        BY <4>3, <4>4, <4>5
    <3> QED
      BY <1>1, <1>4, <3>1, <3>2 DEF Splits
  <2>2. CASE m < k
    <3>1. m <= a + 1 /\ \A x \in 1 .. m - 1 : u[x] = w[x]
      <4>1. \A x \in 1 .. m - 1 : x \in 1 .. k - 1
        BY <2>2
      <4>2. m <= a + 1
        BY <1>4, <2>2
      <4> QED
        BY <1>4, <1>5, <4>1, <4>2
    <3>2. u[m] < w[m]
      <4>1. m # b + 1 /\ m \in 1 .. k - 1
        BY <2>2
      <4> QED
        BY <1>4, <1>5, <4>1
    <3> QED
      BY <1>1, <3>1, <3>2 DEF Splits
  <2> QED
    BY <2>1, <2>2
<1> QED
  BY <1>1, <1>9 DEF Less, Splits

\* Of two words one is below the other.
LEMMA LessTotal ==
  ASSUME NEW u \in Seq(Nat), NEW v \in Seq(Nat), u # v
  PROVE  Less(u, v) \/ Less(v, u)
<1>1. PICK a \in Nat, b \in Nat : a = Len(u) /\ b = Len(v)
  OBVIOUS
<1> DEFINE D == {k \in Nat : /\ 1 <= k /\ k <= a + 1 /\ k <= b + 1
                             /\ k = a + 1 \/ k = b + 1 \/ u[k] # v[k]}
<1>2. D # {}
  <2>1. a <= b => a + 1 \in D
    OBVIOUS
  <2>2. b <= a => b + 1 \in D
    OBVIOUS
  <2> HIDE DEF D
  <2> QED
    BY <2>1, <2>2
<1>3. PICK k \in D : \A x \in D : k <= x
  <2>1. D \subseteq Nat
    OBVIOUS
  <2> HIDE DEF D
  <2> QED
    BY <1>2, <2>1, LeastNumber
<1>4. /\ k \in Nat /\ 1 <= k /\ k <= a + 1 /\ k <= b + 1
      /\ k = a + 1 \/ k = b + 1 \/ u[k] # v[k]
  BY <1>3
<1>5. \A x \in 1 .. k - 1 : u[x] = v[x]
  <2> TAKE x \in 1 .. k - 1
  <2>1. x \notin D
    <3>1. ~(k <= x)
      BY <1>4
    <3> HIDE DEF D
    <3> QED
      BY <1>3, <3>1
  <2>2. x \in Nat /\ 1 <= x /\ x <= a + 1 /\ x <= b + 1
    BY <1>4
  <2> QED
    BY <2>1, <2>2
<1> HIDE DEF D
<1>6. ~(k = a + 1 /\ k = b + 1)
  <2>1. SUFFICES ASSUME k = a + 1, k = b + 1 PROVE FALSE
    OBVIOUS
  <2>2. a = b /\ \A x \in 1 .. a : u[x] = v[x]
    BY <1>5, <2>1
  <2>3. u = v
    BY <1>1, <2>2, SeqEqual
  <2> QED
    BY <2>3
<1>7. CASE k = a + 1
  <2>1. k \in 1 .. b
    BY <1>4, <1>6, <1>7
  <2> QED
    BY <1>1, <1>5, <1>7, <2>1 DEF Less
<1>8. CASE k = b + 1
  <2>1. k \in 1 .. a
    BY <1>4, <1>6, <1>8
  <2> QED
    BY <1>1, <1>5, <1>8, <2>1 DEF Less
<1>9. CASE k # a + 1 /\ k # b + 1
  <2>1. k \in 1 .. a /\ k \in 1 .. b
    BY <1>4, <1>9
  <2>2. u[k] \in Nat /\ v[k] \in Nat
    BY <1>1, <2>1
  <2>3. u[k] # v[k]
    BY <1>4, <1>9
  <2>4. u[k] < v[k] \/ v[k] < u[k]
    BY <2>2, <2>3
  <2>5. u[k] < v[k] => Less(u, v)
    <3>1. SUFFICES ASSUME u[k] < v[k] PROVE Splits(u, v, k)
      BY <1>1, <2>1 DEF Less, Splits
    <3> QED
      BY <1>1, <1>4, <1>5, <3>1 DEF Splits
  <2>6. v[k] < u[k] => Less(v, u)
    <3>1. SUFFICES ASSUME v[k] < u[k] PROVE Splits(v, u, k)
      BY <1>1, <2>1 DEF Less, Splits
    <3>2. \A x \in 1 .. k - 1 : v[x] = u[x]
      BY <1>5
    <3> QED
      BY <1>1, <1>4, <3>1, <3>2 DEF Splits
  <2> QED
    BY <2>4, <2>5, <2>6
<1> QED
  BY <1>7, <1>8, <1>9

\* Candidates: finitely many, each with a count, no word twice.
Counted(S) ==
  /\ IsFiniteSet(S)
  /\ \A a \in S : a.word \in Seq(Nat) /\ a.count \in Nat
  /\ \A a, b \in S : a.word = b.word => a = b

\* So is the order of candidates: by count, then by word.
LEMMA BeforeOrders ==
  ASSUME NEW S, Counted(S), NEW a \in S, NEW b \in S
  PROVE  /\ ~Before(a, a)
         /\ a # b => Before(a, b) \/ Before(b, a)
         /\ \A c \in S : Before(a, b) /\ Before(b, c) => Before(a, c)
<1>1. PICK u \in Seq(Nat), m \in Nat : u = a.word /\ m = a.count
  BY DEF Counted
<1>2. PICK v \in Seq(Nat), n \in Nat : v = b.word /\ n = b.count
  BY DEF Counted
<1>3. ~Before(a, a)
  <2>1. ~(m > m) /\ ~Less(u, u)
    BY LessIrreflexive
  <2> QED
    BY <1>1, <2>1 DEF Before
<1>4. ASSUME a # b PROVE Before(a, b) \/ Before(b, a)
  <2>1. u # v
    BY <1>1, <1>2, <1>4 DEF Counted
  <2>2. Less(u, v) \/ Less(v, u)
    BY <2>1, LessTotal
  <2>3. m > n \/ m = n \/ n > m
    OBVIOUS
  <2> QED
    BY <1>1, <1>2, <2>2, <2>3 DEF Before
<1>5. ASSUME NEW c \in S, Before(a, b), Before(b, c) PROVE Before(a, c)
  <2>1. PICK w \in Seq(Nat), p \in Nat : w = c.word /\ p = c.count
    BY DEF Counted
  <2>2. m > n \/ (m = n /\ Less(u, v))
    BY <1>1, <1>2, <1>5 DEF Before
  <2>3. n > p \/ (n = p /\ Less(v, w))
    BY <1>2, <1>5, <2>1 DEF Before
  <2>4. Less(u, v) /\ Less(v, w) => Less(u, w)
    BY LessTransitive
  <2>5. m > p \/ (m = p /\ Less(u, w))
    BY <2>2, <2>3, <2>4
  <2> QED
    BY <1>1, <2>1, <2>5 DEF Before
<1> QED
  BY <1>3, <1>4, <1>5

\* The number of candidates before a.
Rank(S, a) == Cardinality({b \in S : Before(b, a)})

\* Every rank is taken.
LEMMA RanksTaken ==
  ASSUME NEW S, Counted(S)
  PROVE  \A k \in 1 .. Cardinality(S) : \E a \in S : Rank(S, a) = k - 1
<1>1. IsFiniteSet(S)
  BY DEF Counted
<1>2. PICK n \in Nat : n = Cardinality(S)
  BY <1>1, FS_CardinalityType
<1>3. ASSUME NEW a \in S PROVE Rank(S, a) \in 0 .. n - 1
  <2>1. PICK P : P = {b \in S : Before(b, a)}
    OBVIOUS
  <2>2. P \subseteq S /\ a \notin P
    BY <2>1, BeforeOrders
  <2>3. IsFiniteSet(P) /\ Cardinality(P) <= n /\ (n = Cardinality(P) => S = P)
    BY <1>1, <1>2, <2>2, FS_Subset
  <2>4. Cardinality(P) \in Nat
    BY <2>3, FS_CardinalityType
  <2>5. Cardinality(P) # n
    BY <2>2, <2>3
  <2>6. Rank(S, a) = Cardinality(P)
    BY <2>1 DEF Rank
  <2> QED
    BY <2>3, <2>4, <2>5, <2>6
<1>4. ASSUME NEW a \in S, NEW b \in S, Before(a, b) PROVE Rank(S, a) < Rank(S, b)
  <2>1. PICK P : P = {c \in S : Before(c, a)}
    OBVIOUS
  <2>2. PICK Q : Q = {c \in S : Before(c, b)}
    OBVIOUS
  <2>3. P \subseteq Q
    <3>1. ASSUME NEW c \in S, Before(c, a) PROVE Before(c, b)
      BY <1>4, <3>1, BeforeOrders
    <3> QED
      BY <2>1, <2>2, <3>1
  <2>4. a \in Q /\ a \notin P
    BY <1>4, <2>1, <2>2, BeforeOrders
  <2>5. IsFiniteSet(Q)
    <3>1. Q \subseteq S
      BY <2>2
    <3> QED
      BY <1>1, <3>1, FS_Subset
  <2>6. IsFiniteSet(P) /\ Cardinality(P) <= Cardinality(Q) /\ (Cardinality(Q) = Cardinality(P) => Q = P)
    BY <2>3, <2>5, FS_Subset
  <2>7. Cardinality(P) \in Nat /\ Cardinality(Q) \in Nat
    BY <2>5, <2>6, FS_CardinalityType
  <2>8. Rank(S, a) = Cardinality(P) /\ Rank(S, b) = Cardinality(Q)
    BY <2>1, <2>2 DEF Rank
  <2> QED
    BY <2>4, <2>6, <2>7, <2>8
<1>5. PICK f : f = [a \in S |-> Rank(S, a)]
  OBVIOUS
<1>6. PICK T : T = 0 .. n - 1
  OBVIOUS
<1>7. f \in [S -> T] /\ \A a \in S : f[a] = Rank(S, a)
  BY <1>3, <1>5, <1>6
<1>8. \A a, b \in S : f[a] = f[b] => a = b
  <2> TAKE a \in S, b \in S
  <2>1. a # b => Rank(S, a) # Rank(S, b)
    <3>1. a # b => Before(a, b) \/ Before(b, a)
      BY BeforeOrders
    <3>2. Rank(S, a) \in Nat /\ Rank(S, b) \in Nat
      BY <1>3
    <3> QED
      BY <1>4, <3>1, <3>2
  <2> QED
    BY <1>7, <2>1
<1>9. f \in Injection(S, T)
  <2>1. IsInjective(f)
    BY <1>5, <1>8 DEF IsInjective
  <2> QED
    BY <1>7, <2>1 DEF Injection
<1>10. IsFiniteSet(T) /\ Cardinality(T) = n
  <2>1. IsFiniteSet(T) /\ Cardinality(T) = IF 0 > n - 1 THEN 0 ELSE (n - 1) - 0 + 1
    BY <1>6, FS_Interval
  <2> QED
    BY <2>1
<1>11. f \in Surjection(S, T)
  BY <1>2, <1>9, <1>10, FS_Injection
<1>12. \A y \in T : \E a \in S : f[a] = y
  BY <1>11 DEF Surjection
<1> TAKE k \in 1 .. Cardinality(S)
<1>13. k - 1 \in T
  BY <1>2, <1>6
<1> QED
  BY <1>7, <1>12, <1>13

\* Ranked lists the candidates: its CHOOSE has something to choose.
LEMMA RankedListed ==
  ASSUME NEW S, Counted(S)
  PROVE  /\ Cardinality(S) \in Nat
         /\ Ranked(S) \in Seq(S) /\ Len(Ranked(S)) = Cardinality(S)
<1>1. PICK n \in Nat : n = Cardinality(S)
  BY FS_CardinalityType DEF Counted
<1>2. PICK r : r = Ranked(S)
  OBVIOUS
<1>3. r = [k \in 1 .. n |-> CHOOSE a \in S : Rank(S, a) = k - 1]
  BY <1>1, <1>2 DEF Ranked, Rank
<1>4. ASSUME NEW k \in 1 .. n PROVE (CHOOSE a \in S : Rank(S, a) = k - 1) \in S
  <2>1. \E a \in S : Rank(S, a) = k - 1
    BY <1>1, RanksTaken
  <2> QED
    BY <2>1
<1>5. r \in [1 .. n -> S]
  BY <1>3, <1>4
<1> QED
  BY <1>1, <1>2, <1>5, Listed

-----------------------------------------------------------------------------
(* Replacing a pair by the unit that stands for it.                        *)

\* The pair is at k.
Hit(s, pair, k) == k < Len(s) /\ s[k] = pair[1] /\ s[k + 1] = pair[2]

\* f[k] is what becomes of s from k on.
Rewrites(f, s, pair, new) ==
  \A k \in 1 .. Len(s) + 1 :
    f[k] = IF k > Len(s) THEN <<>>
           ELSE IF Hit(s, pair, k) THEN <<new>> \o f[k + 2]
           ELSE <<s[k]>> \o f[k + 1]

\* The recursive function in Replaced.
Rewriting(s, pair, new) ==
  CHOOSE f : f = [k \in 1 .. Len(s) + 1 |->
                    IF k > Len(s) THEN <<>>
                    ELSE IF Hit(s, pair, k) THEN <<new>> \o f[k + 2]
                    ELSE <<s[k]>> \o f[k + 1]]

\* Replaced is its first value.
LEMMA ReplacedIs ==
  ASSUME NEW s, NEW pair, NEW new
  PROVE  Replaced(s, pair, new) = Rewriting(s, pair, new)[1]
  BY DEF Replaced, Rewriting, Hit

\* A symbol before a sequence.
LEMMA Extended ==
  ASSUME NEW D, NEW a \in D, NEW s \in Seq(D)
  PROVE  <<a>> \o s \in Seq(D)
<1>1. <<a>> \in Seq(D)
  OBVIOUS
<1> QED
  BY <1>1, ConcatProperties

\* The first symbol yields first.
FirstYields(a, q, sp) == Yield(<<a>> \o q, sp) = sp[a] \o Yield(q, sp)

\* It does.
LEMMA YieldFirst ==
  ASSUME NEW X, NEW D, NEW sp, Spells(sp, D, X), NEW a \in D, NEW q \in Seq(D)
  PROVE  /\ Yield(<<a>>, sp) = sp[a]
         /\ Yield(q, sp) \in Seq(X)
         /\ FirstYields(a, q, sp)
<1>1. PICK u \in Seq(D) : u = <<a>>
  <2>1. <<a>> \in Seq(D)
    OBVIOUS
  <2> QED
    BY <2>1
<1>2. Yield(q, sp) \in Seq(X) /\ Yield(u \o q, sp) = Yield(u, sp) \o Yield(q, sp)
  BY YieldJoin
<1>3. Yield(<<a>>, sp) = sp[a]
  BY YieldOne
<1> QED
  BY <1>1, <1>2, <1>3 DEF FirstYields

\* The function in Replaced exists: its CHOOSE has something to choose.
LEMMA RewritingExists ==
  ASSUME NEW D, NEW s \in Seq(D), NEW new \in D, NEW pair
  PROVE  Rewrites(Rewriting(s, pair, new), s, pair, new)
<1>1. PICK n \in Nat : n = Len(s)
  OBVIOUS
<1>2. PICK V : V = Seq(D)
  OBVIOUS
<1>3. <<>> \in V
  BY <1>2
<1>4. \A a \in D : \A q \in V : <<a>> \o q \in V
  BY <1>2, Extended
<1>5. \A k \in 1 .. n : s[k] \in D
  BY <1>1
<1>6. PICK st : st = [q \in (0 .. n) \X [0 .. n -> V] |->
                        IF q[1] = 0 THEN <<>>
                        ELSE IF Hit(s, pair, n + 1 - q[1]) THEN <<new>> \o q[2][q[1] - 2]
                        ELSE <<s[n + 1 - q[1]]>> \o q[2][q[1] - 1]]
  OBVIOUS
<1>7. \A k \in 1 .. n : Hit(s, pair, k) => k < n
  BY <1>1 DEF Hit
<1>8. ASSUME NEW y \in 0 .. n, NEW f \in [0 .. n -> V]
      PROVE  st[<<y, f>>] = IF y = 0 THEN <<>>
                            ELSE IF Hit(s, pair, n + 1 - y) THEN <<new>> \o f[y - 2]
                            ELSE <<s[n + 1 - y]>> \o f[y - 1]
  BY <1>6
<1>9. ASSUME NEW y \in 0 .. n, NEW f \in [0 .. n -> V]
      PROVE  st[<<y, f>>] \in V
  <2>1. CASE y = 0
    BY <1>3, <1>8, <2>1
  <2>2. CASE y # 0
    <3>1. n + 1 - y \in 1 .. n /\ y - 1 \in 0 .. n
      BY <2>2
    <3>2. f[y - 1] \in V /\ s[n + 1 - y] \in D
      BY <1>5, <3>1
    <3>3. Hit(s, pair, n + 1 - y) => f[y - 2] \in V
      <4>1. Hit(s, pair, n + 1 - y) => y - 2 \in 0 .. n
        BY <1>7, <3>1
      <4> QED
        BY <4>1
    <3>4. CASE Hit(s, pair, n + 1 - y)
      BY <1>4, <1>8, <2>2, <3>3, <3>4
    <3>5. CASE ~Hit(s, pair, n + 1 - y)
      BY <1>4, <1>8, <2>2, <3>2, <3>5
    <3> QED
      BY <3>4, <3>5
  <2> QED
    BY <2>1, <2>2
<1>10. st \in [(0 .. n) \X [0 .. n -> V] -> V]
  <2>1. \A q \in (0 .. n) \X [0 .. n -> V] : st[q] \in V
    <3> TAKE q \in (0 .. n) \X [0 .. n -> V]
    <3>1. PICK y \in 0 .. n, f \in [0 .. n -> V] : q = <<y, f>>
      OBVIOUS
    <3> QED
      BY <1>9, <3>1
  <2> QED
    BY <1>6, <2>1
<1>11. Causal(st, n, V)
  <2>1. ASSUME NEW y \in 0 .. n, NEW f \in [0 .. n -> V], NEW g \in [0 .. n -> V],
               \A x \in 0 .. y - 1 : f[x] = g[x]
        PROVE  st[<<y, f>>] = st[<<y, g>>]
    <3>1. CASE y = 0
      BY <1>8, <3>1
    <3>2. CASE y # 0
      <4>1. f[y - 1] = g[y - 1]
        <5>1. y - 1 \in 0 .. y - 1
          BY <3>2
        <5> QED
          BY <2>1, <5>1
      <4>2. Hit(s, pair, n + 1 - y) => f[y - 2] = g[y - 2]
        <5>1. Hit(s, pair, n + 1 - y) => y - 2 \in 0 .. y - 1
          <6>1. n + 1 - y \in 1 .. n
            BY <3>2
          <6> QED
            BY <1>7, <6>1
        <5> QED
          BY <2>1, <5>1
      <4>3. CASE Hit(s, pair, n + 1 - y)
        BY <1>8, <3>2, <4>2, <4>3
      <4>4. CASE ~Hit(s, pair, n + 1 - y)
        BY <1>8, <3>2, <4>1, <4>4
      <4> QED
        BY <4>3, <4>4
    <3> QED
      BY <3>1, <3>2
  <2> QED
    BY <2>1 DEF Causal
<1>12. PICK f \in [0 .. n -> V] : Follows(f, st, n)
  BY <1>3, <1>10, <1>11, CourseOfValues
<1>13. PICK g : g = [k \in 1 .. n + 1 |-> f[n + 1 - k]]
  OBVIOUS
<1>14. ASSUME NEW k \in 1 .. n + 1
       PROVE  g[k] = IF k > n THEN <<>>
                     ELSE IF Hit(s, pair, k) THEN <<new>> \o g[k + 2]
                     ELSE <<s[k]>> \o g[k + 1]
  <2>1. n + 1 - k \in 0 .. n /\ n + 1 - (n + 1 - k) = k /\ (n + 1 - k = 0 <=> k > n)
    OBVIOUS
  <2>2. g[k] = st[<<n + 1 - k, f>>]
    BY <1>12, <1>13, <2>1 DEF Follows
  <2>3. g[k] = IF k > n THEN <<>>
               ELSE IF Hit(s, pair, k) THEN <<new>> \o f[(n + 1 - k) - 2]
               ELSE <<s[k]>> \o f[(n + 1 - k) - 1]
    BY <1>8, <2>1, <2>2
  <2>4. k <= n => f[(n + 1 - k) - 1] = g[k + 1]
    <3>1. k <= n => k + 1 \in 1 .. n + 1 /\ n + 1 - (k + 1) = (n + 1 - k) - 1
      OBVIOUS
    <3> QED
      BY <1>13, <3>1
  <2>5. k <= n /\ Hit(s, pair, k) => f[(n + 1 - k) - 2] = g[k + 2]
    <3>1. k <= n /\ Hit(s, pair, k) => k + 2 \in 1 .. n + 1 /\ n + 1 - (k + 2) = (n + 1 - k) - 2
      BY <1>7
    <3> QED
      BY <1>13, <3>1
  <2> QED
    BY <2>3, <2>4, <2>5
<1> DEFINE Good(h) == h = [k \in 1 .. Len(s) + 1 |->
                             IF k > Len(s) THEN <<>>
                             ELSE IF Hit(s, pair, k) THEN <<new>> \o h[k + 2]
                             ELSE <<s[k]>> \o h[k + 1]]
<1>15. Good(g)
  BY <1>1, <1>13, <1>14
<1>16. Rewriting(s, pair, new) = CHOOSE h : Good(h)
  BY DEF Rewriting
<1>17. Good(Rewriting(s, pair, new))
  <2> HIDE DEF Good
  <2> QED
    BY <1>15, <1>16
<1>18. \A h : Good(h) => Rewrites(h, s, pair, new)
  BY <1>1 DEF Rewrites
<1> HIDE DEF Good
<1> QED
  BY <1>17, <1>18

\* A rewritten sequence stands for the same text, when the new symbol stands
\* for what the pair stood for.
KeepsYield(s, pair, new, D) ==
  \A X, sp :
    /\ Spells(sp, D, X)
    /\ pair[1] \in D /\ pair[2] \in D
    /\ sp[new] = sp[pair[1]] \o sp[pair[2]]
    => Yield(Replaced(s, pair, new), sp) = Yield(s, sp)

\* The symbols of a rewritten sequence, and what it still stands for.
LEMMA ReplacedKeeps ==
  ASSUME NEW D, NEW s \in Seq(D), NEW new \in D, NEW pair
  PROVE  /\ Replaced(s, pair, new) \in Seq(D)
         /\ KeepsYield(s, pair, new, D)
<1>1. PICK n \in Nat : n = Len(s)
  OBVIOUS
<1>2. PICK f : f = Rewriting(s, pair, new)
  OBVIOUS
<1>3. ASSUME NEW k \in 1 .. n + 1
      PROVE  f[k] = IF k > n THEN <<>>
                    ELSE IF Hit(s, pair, k) THEN <<new>> \o f[k + 2]
                    ELSE <<s[k]>> \o f[k + 1]
  BY <1>1, <1>2, RewritingExists DEF Rewrites
<1>12. f[n + 1] = <<>>
  <2>1. n + 1 \in 1 .. n + 1 /\ n + 1 > n
    OBVIOUS
  <2>2. \A k \in 1 .. n + 1 : k > n => f[k] = <<>>
    BY <1>3
  <2> QED
    BY <2>1, <2>2
<1>13. \A k \in 1 .. n :
         f[k] = IF Hit(s, pair, k) THEN <<new>> \o f[k + 2] ELSE <<s[k]>> \o f[k + 1]
  <2> TAKE k \in 1 .. n
  <2>1. k \in 1 .. n + 1 /\ ~(k > n)
    OBVIOUS
  <2> QED
    BY <1>3, <2>1
<1>4. \A k \in 1 .. n : Hit(s, pair, k) => k < n /\ s[k] = pair[1] /\ s[k + 1] = pair[2]
  BY <1>1 DEF Hit
<1>5. \A k \in 1 .. n : s[k] \in D
  BY <1>1
<1>6. \A y \in 0 .. n : f[n + 1 - y] \in Seq(D)
  <2> DEFINE S == {y \in Nat : \A x \in 0 .. y : x <= n => f[n + 1 - x] \in Seq(D)}
  <2>1. 0 \in S
    <3>1. \A x \in 0 .. 0 : f[n + 1 - x] = f[n + 1]
      OBVIOUS
    <3>2. \A x \in 0 .. 0 : f[n + 1 - x] \in Seq(D)
      BY <1>12, <3>1, EmptySeq
    <3> QED
      BY <3>2
  <2>2. ASSUME NEW y \in Nat, y < n, y \in S PROVE y + 1 \in S
    <3>1. f[n + 1 - (y + 1)] \in Seq(D)
      <4>1. PICK k \in 1 .. n : k = n + 1 - (y + 1) /\ k + 1 = n + 1 - y /\ k + 2 = n + 1 - (y - 1)
        <5>1. n + 1 - (y + 1) \in 1 .. n
          BY <2>2
        <5> QED
          BY <5>1
      <4>2. f[k + 1] \in Seq(D)
        BY <2>2, <4>1
      <4>3. Hit(s, pair, k) => f[k + 2] \in Seq(D)
        <5>1. Hit(s, pair, k) => y - 1 \in 0 .. y /\ y - 1 <= n
          BY <1>4, <2>2, <4>1
        <5> QED
          BY <2>2, <4>1, <5>1
      <4>4. f[k] = IF Hit(s, pair, k) THEN <<new>> \o f[k + 2] ELSE <<s[k]>> \o f[k + 1]
        BY <1>13
      <4>5. CASE Hit(s, pair, k)
        BY <4>1, <4>3, <4>4, <4>5, Extended
      <4>6. CASE ~Hit(s, pair, k)
        <5>1. s[k] \in D
          BY <1>5
        <5> QED
          BY <4>1, <4>2, <4>4, <4>6, <5>1, Extended
      <4> QED
        BY <4>5, <4>6
    <3>2. \A x \in 0 .. y + 1 : x \in 0 .. y \/ x = y + 1
      OBVIOUS
    <3>3. \A x \in 0 .. y + 1 : x <= n => f[n + 1 - x] \in Seq(D)
      BY <2>2, <3>1, <3>2
    <3>4. y + 1 \in Nat
      OBVIOUS
    <3> QED
      BY <3>3, <3>4
  <2>3. \A y \in Nat : y \in S => (y <= n => f[n + 1 - y] \in Seq(D))
    OBVIOUS
  <2> HIDE DEF S
  <2>4. \A y \in 0 .. n : y \in S
    BY <2>1, <2>2, UpTo
  <2> QED
    BY <2>3, <2>4
<1>7. \A k \in 1 .. n + 1 : f[k] \in Seq(D)
  <2> TAKE k \in 1 .. n + 1
  <2>1. n + 1 - k \in 0 .. n /\ n + 1 - (n + 1 - k) = k
    OBVIOUS
  <2> QED
    BY <1>6, <2>1
<1>8. Replaced(s, pair, new) = f[1]
  BY <1>2, ReplacedIs
<1>9. ASSUME NEW X, NEW sp, Spells(sp, D, X), pair[1] \in D, pair[2] \in D,
             sp[new] = sp[pair[1]] \o sp[pair[2]]
      PROVE  Yield(f[1], sp) = Yield(s, sp)
  <2>1. PICK r : r = [k \in 1 .. n + 1 |-> SubSeq(s, k, n)]
    OBVIOUS
  <2>2. \A k \in 1 .. n + 1 : r[k] \in Seq(D)
    <3> TAKE k \in 1 .. n + 1
    <3>1. \A x \in k .. n : s[x] \in D
      BY <1>5
    <3>2. SubSeq(s, k, n) \in Seq(D)
      BY <3>1, SubSeqProperties
    <3> QED
      BY <2>1, <3>2
  <2>3. r[n + 1] = <<>> /\ r[1] = s
    <3>1. SubSeq(s, n + 1, n) = <<>>
      BY SubSeqEmpty
    <3>2. SubSeq(s, 1, n) = s
      BY <1>1, SubSeqFull
    <3> QED
      BY <2>1, <3>1, <3>2
  <2>4. \A k \in 1 .. n : r[k] = <<s[k]>> \o r[k + 1]
    <3> TAKE k \in 1 .. n
    <3>1. k \in 1 .. Len(s) /\ n \in k .. Len(s)
      BY <1>1
    <3>2. SubSeq(s, k, n) = <<s[k]>> \o SubSeq(s, k + 1, n)
      BY <3>1, SubSeqRecursiveFirst
    <3>3. k \in 1 .. n + 1 /\ k + 1 \in 1 .. n + 1
      OBVIOUS
    <3> QED
      BY <2>1, <3>2, <3>3
  <2>5. ASSUME NEW a \in D, NEW q \in Seq(D)
        PROVE  Yield(q, sp) \in Seq(X) /\ Yield(<<a>> \o q, sp) = sp[a] \o Yield(q, sp)
    <3>1. Yield(q, sp) \in Seq(X)
      BY <1>9, YieldFirst, Zenon
    <3>2. Yield(<<a>> \o q, sp) = sp[a] \o Yield(q, sp)
      <4>1. FirstYields(a, q, sp)
        BY <1>9, YieldFirst, Zenon
      <4> QED
        BY <4>1 DEF FirstYields
    <3> QED
      BY <3>1, <3>2
  <2>6. \A a \in D : sp[a] \in Seq(X)
    BY <1>9 DEF Spells
  <2>7. \A y \in 0 .. n : Yield(f[n + 1 - y], sp) = Yield(r[n + 1 - y], sp)
    <3> DEFINE S == {y \in Nat : \A x \in 0 .. y : x <= n => Yield(f[n + 1 - x], sp) = Yield(r[n + 1 - x], sp)}
    <3>1. 0 \in S
      <4>1. \A x \in 0 .. 0 : f[n + 1 - x] = f[n + 1] /\ r[n + 1 - x] = r[n + 1]
        OBVIOUS
      <4>2. \A x \in 0 .. 0 : Yield(f[n + 1 - x], sp) = Yield(r[n + 1 - x], sp)
        BY <1>12, <2>3, <4>1, Zenon
      <4> QED
        BY <4>2
    <3>2. ASSUME NEW y \in Nat, y < n, y \in S PROVE y + 1 \in S
      <4>1. Yield(f[n + 1 - (y + 1)], sp) = Yield(r[n + 1 - (y + 1)], sp)
        <5>1. PICK k \in 1 .. n : k = n + 1 - (y + 1) /\ k + 1 = n + 1 - y /\ k + 2 = n + 1 - (y - 1)
          <6>1. n + 1 - (y + 1) \in 1 .. n
            BY <3>2
          <6> QED
            BY <6>1
        <5>2. Yield(f[k + 1], sp) = Yield(r[k + 1], sp)
          <6>1. y \in 0 .. y /\ y <= n
            BY <3>2
          <6> QED
            BY <3>2, <5>1, <6>1
        <5>3. k \in 1 .. n + 1 /\ k + 1 \in 1 .. n + 1
          OBVIOUS
        <5>4. f[k] = IF Hit(s, pair, k) THEN <<new>> \o f[k + 2] ELSE <<s[k]>> \o f[k + 1]
          BY <1>13
        <5>5. CASE Hit(s, pair, k)
          <6>1. k + 1 \in 1 .. n /\ k + 2 \in 1 .. n + 1 /\ s[k] = pair[1] /\ s[k + 1] = pair[2]
            BY <1>4, <5>5
          <6>2. Yield(f[k + 2], sp) = Yield(r[k + 2], sp)
            <7>1. y - 1 \in 0 .. y /\ y - 1 <= n
              BY <3>2, <5>1, <6>1
            <7> QED
              BY <3>2, <5>1, <7>1
          <6>3. Yield(f[k], sp) = sp[new] \o Yield(r[k + 2], sp)
            <7>1. f[k] = <<new>> \o f[k + 2] /\ f[k + 2] \in Seq(D)
              BY <1>7, <5>4, <5>5, <6>1
            <7> QED
              BY <2>5, <6>2, <7>1
          <6>4. Yield(r[k], sp) = sp[pair[1]] \o (sp[pair[2]] \o Yield(r[k + 2], sp))
            <7>1. r[k] = <<pair[1]>> \o r[k + 1] /\ r[k + 1] \in Seq(D)
              BY <2>2, <2>4, <5>3, <6>1
            <7>2. r[k + 1] = <<pair[2]>> \o r[k + 2] /\ r[k + 2] \in Seq(D)
              <8>1. (k + 1) + 1 = k + 2
                OBVIOUS
              <8>2. r[k + 1] = <<s[k + 1]>> \o r[(k + 1) + 1]
                BY <2>4, <6>1
              <8> QED
                BY <2>2, <6>1, <8>1, <8>2
            <7>3. Yield(r[k], sp) = sp[pair[1]] \o Yield(r[k + 1], sp)
              BY <1>9, <2>5, <7>1
            <7>4. Yield(r[k + 1], sp) = sp[pair[2]] \o Yield(r[k + 2], sp)
              BY <1>9, <2>5, <7>2
            <7> QED
              BY <7>3, <7>4
          <6>5. Regroups(sp[pair[1]], sp[pair[2]], Yield(r[k + 2], sp))
            <7>1. PICK a \in Seq(X), b \in Seq(X), c \in Seq(X) :
                    a = sp[pair[1]] /\ b = sp[pair[2]] /\ c = Yield(r[k + 2], sp)
              <8>1. sp[pair[1]] \in Seq(X) /\ sp[pair[2]] \in Seq(X)
                BY <1>9, <2>6
              <8>2. Yield(r[k + 2], sp) \in Seq(X)
                <9>1. r[k + 2] \in Seq(D)
                  BY <2>2, <6>1
                <9> QED
                  BY <1>9, <2>5, <9>1
              <8> QED
                BY <8>1, <8>2
            <7>2. Regroups(a, b, c)
              BY Regrouped
            <7> QED
              BY <7>1, <7>2
          <6>6. (sp[pair[1]] \o sp[pair[2]]) \o Yield(r[k + 2], sp)
                  = sp[pair[1]] \o (sp[pair[2]] \o Yield(r[k + 2], sp))
            BY <6>5 DEF Regroups
          <6>7. Yield(f[k], sp) = Yield(r[k], sp)
            BY <1>9, <6>3, <6>4, <6>6
          <6> QED
            BY <5>1, <6>7
        <5>6. CASE ~Hit(s, pair, k)
          <6>1. s[k] \in D /\ f[k + 1] \in Seq(D) /\ r[k + 1] \in Seq(D)
            BY <1>5, <1>7, <2>2, <5>3
          <6>2. f[k] = <<s[k]>> \o f[k + 1] /\ r[k] = <<s[k]>> \o r[k + 1]
            BY <2>4, <5>4, <5>6
          <6>3. Yield(<<s[k]>> \o f[k + 1], sp) = sp[s[k]] \o Yield(f[k + 1], sp)
            BY <2>5, <6>1
          <6>4. Yield(<<s[k]>> \o r[k + 1], sp) = sp[s[k]] \o Yield(r[k + 1], sp)
            BY <2>5, <6>1
          <6>5. Yield(f[k], sp) = Yield(r[k], sp)
            BY <5>2, <6>2, <6>3, <6>4
          <6> QED
            BY <5>1, <6>5
        <5> QED
          BY <5>5, <5>6
      <4>2. \A x \in 0 .. y + 1 : x \in 0 .. y \/ x = y + 1
        OBVIOUS
      <4>3. \A x \in 0 .. y + 1 : x <= n => Yield(f[n + 1 - x], sp) = Yield(r[n + 1 - x], sp)
        BY <3>2, <4>1, <4>2
      <4>4. y + 1 \in Nat
        OBVIOUS
      <4> QED
        BY <4>3, <4>4
    <3>3. ASSUME NEW y \in Nat, y \in S PROVE y <= n => Yield(f[n + 1 - y], sp) = Yield(r[n + 1 - y], sp)
      <4>1. y \in 0 .. y
        OBVIOUS
      <4> QED
        BY <3>3, <4>1
    <3> HIDE DEF S
    <3>4. \A y \in 0 .. n : y \in S
      BY <3>1, <3>2, UpTo
    <3> QED
      BY <3>3, <3>4
  <2>8. n \in 0 .. n /\ n + 1 - n = 1
    OBVIOUS
  <2>9. Yield(f[1], sp) = Yield(r[1], sp)
    BY <2>7, <2>8
  <2> QED
    BY <2>3, <2>9
<1>10. f[1] \in Seq(D)
  <2>1. 1 \in 1 .. n + 1
    OBVIOUS
  <2> QED
    BY <1>7, <2>1
<1>11. \A X, sp :
         /\ Spells(sp, D, X)
         /\ pair[1] \in D /\ pair[2] \in D
         /\ sp[new] = sp[pair[1]] \o sp[pair[2]]
         => Yield(f[1], sp) = Yield(s, sp)
  BY <1>9
<1> QED
  BY <1>8, <1>10, <1>11 DEF KeepsYield

-----------------------------------------------------------------------------
(* What the units stand for.                                               *)

\* A byte spells itself, a unit the two symbols it joins.
SpelledOut(sp, u) ==
  /\ \A y \in Bytes : sp[y] = <<y>>
  /\ \A k \in 1 .. Len(u) : sp[N + k - 1] = sp[u[k][1]] \o sp[u[k][2]]

\* Spell is its value.
LEMMA SpellIs ==
  ASSUME NEW y, NEW u
  PROVE  Spell(y, u) = Spelling(u)[y]
  BY DEF Spell, Spelling

\* Concatenation stays among the sequences.
LEMMA JoinTyped ==
  ASSUME NEW X, NEW Y, Y = Seq(X)
  PROVE  \A a, b \in Y : a \o b \in Y
  BY ConcatProperties

\* The function in Spell exists and spells every symbol out in bytes.
LEMMA SpellingOK ==
  ASSUME NEW u, Units(u)
  PROVE  Spells(Spelling(u), Symbols(Len(u)), Bytes) /\ SpelledOut(Spelling(u), u)
<1>1. PICK m \in Nat : m = Len(u)
  <2>1. u \in Seq(Seq(Nat))
    BY DEF Units
  <2>2. Len(u) \in Nat
    BY <2>1, LenProperties
  <2> QED
    BY <2>2
<1>2. N \in Nat /\ N >= 4
  BY NAssumption
<1>3. PICK n \in Nat : n = N + m - 1
  <2>1. N + m - 1 \in Nat
    BY <1>2
  <2> QED
    BY <2>1
<1>4. PICK V : V = Seq(Bytes)
  OBVIOUS
<1>5. \A a, b \in V : a \o b \in V
  BY <1>4, JoinTyped
<1>6. \A y \in 0 .. n : y < N => <<y>> \in V
  <2> TAKE y \in 0 .. n
  <2>1. y < N => y \in Bytes
    BY <1>2 DEF Bytes
  <2> QED
    BY <1>4, <2>1
<1>7. PICK p : p = [y \in 0 .. n |-> u[y - N + 1][1]]
  OBVIOUS
<1>8. PICK q : q = [y \in 0 .. n |-> u[y - N + 1][2]]
  OBVIOUS
<1>9. \A y \in 0 .. n : ~(y < N) => /\ p[y] \in 0 .. y - 1 /\ q[y] \in 0 .. y - 1
                                   /\ p[y] \in 0 .. n /\ q[y] \in 0 .. n
  <2> TAKE y \in 0 .. n
  <2>1. SUFFICES ASSUME ~(y < N) PROVE p[y] \in 0 .. y - 1 /\ q[y] \in 0 .. y - 1
    <3>1. \A x \in 0 .. y - 1 : x \in 0 .. n
      OBVIOUS
    <3> QED
      BY <3>1
  <2>2. PICK k \in 1 .. m : k = y - N + 1 /\ N + k - 2 = y - 1
    <3>1. y - N + 1 \in 1 .. m /\ N + (y - N + 1) - 2 = y - 1
      BY <1>2, <1>3, <2>1
    <3> QED
      BY <3>1
  <2>3. u[k][1] \in 0 .. N + k - 2 /\ u[k][2] \in 0 .. N + k - 2
    BY <1>1 DEF Units
  <2>4. p[y] = u[k][1] /\ q[y] = u[k][2]
    BY <1>7, <1>8, <2>2
  <2> QED
    BY <2>2, <2>3, <2>4
<1>10. PICK st : st = [z \in (0 .. n) \X [0 .. n -> V] |->
                         IF z[1] < N THEN <<z[1]>> ELSE z[2][p[z[1]]] \o z[2][q[z[1]]]]
  OBVIOUS
<1>11. ASSUME NEW y \in 0 .. n, NEW f \in [0 .. n -> V]
       PROVE  /\ st[<<y, f>>] = IF y < N THEN <<y>> ELSE f[p[y]] \o f[q[y]]
              /\ st[<<y, f>>] \in V
  <2>1. st[<<y, f>>] = IF y < N THEN <<y>> ELSE f[p[y]] \o f[q[y]]
    BY <1>10
  <2>2. ~(y < N) => f[p[y]] \in V /\ f[q[y]] \in V
    BY <1>9
  <2> QED
    BY <1>5, <1>6, <2>1, <2>2
<1>12. st \in [(0 .. n) \X [0 .. n -> V] -> V]
  <2>1. \A z \in (0 .. n) \X [0 .. n -> V] : st[z] \in V
    <3> TAKE z \in (0 .. n) \X [0 .. n -> V]
    <3>1. PICK y \in 0 .. n, f \in [0 .. n -> V] : z = <<y, f>>
      OBVIOUS
    <3> QED
      BY <1>11, <3>1
  <2> QED
    BY <1>10, <2>1
<1>13. Causal(st, n, V)
  <2>1. ASSUME NEW y \in 0 .. n, NEW f \in [0 .. n -> V], NEW g \in [0 .. n -> V],
               \A x \in 0 .. y - 1 : f[x] = g[x]
        PROVE  st[<<y, f>>] = st[<<y, g>>]
    <3>1. ~(y < N) => f[p[y]] = g[p[y]] /\ f[q[y]] = g[q[y]]
      BY <1>9, <2>1
    <3> QED
      BY <1>11, <3>1
  <2> QED
    BY <2>1 DEF Causal
<1>14. <<>> \in V
  BY <1>4
<1>15. PICK f \in [0 .. n -> V] : Follows(f, st, n)
  BY <1>12, <1>13, <1>14, CourseOfValues
<1>16. \A y \in 0 .. n : f[y] = IF y < N THEN <<y>> ELSE f[p[y]] \o f[q[y]]
  BY <1>11, <1>15 DEF Follows
<1> DEFINE Good(g) == g = [y \in 0 .. N + Len(u) - 1 |->
                             IF y < N THEN <<y>> ELSE g[u[y - N + 1][1]] \o g[u[y - N + 1][2]]]
<1>17. Good(f)
  <2>1. \A y \in 0 .. n : f[y] = IF y < N THEN <<y>> ELSE f[u[y - N + 1][1]] \o f[u[y - N + 1][2]]
    BY <1>7, <1>8, <1>16
  <2> QED
    BY <1>1, <1>3, <2>1
<1>18. PICK g : g = Spelling(u)
  OBVIOUS
<1>19. Good(g)
  <2>1. g = CHOOSE h : Good(h)
    BY <1>18 DEF Spelling
  <2> HIDE DEF Good
  <2> QED
    BY <1>17, <2>1
<1>20. g = [y \in 0 .. n |-> IF y < N THEN <<y>> ELSE g[p[y]] \o g[q[y]]]
  <2>1. g = [y \in 0 .. n |-> IF y < N THEN <<y>> ELSE g[u[y - N + 1][1]] \o g[u[y - N + 1][2]]]
    BY <1>1, <1>3, <1>19
  <2> HIDE DEF Good
  <2> QED
    BY <1>7, <1>8, <2>1
<1> HIDE DEF Good
<1>21. \A y \in 0 .. n : g[y] = IF y < N THEN <<y>> ELSE g[p[y]] \o g[q[y]]
  BY <1>20
<1>22. \A y \in 0 .. n : g[y] \in V
  <2> DEFINE S == {y \in Nat : \A x \in 0 .. y : x <= n => g[x] \in V}
  <2>1. 0 \in S
    <3>1. 0 \in 0 .. n /\ 0 < N
      BY <1>2
    <3>2. g[0] \in V
      BY <1>6, <1>21, <3>1
    <3>3. \A x \in 0 .. 0 : x = 0
      OBVIOUS
    <3> QED
      BY <3>2, <3>3
  <2>2. ASSUME NEW y \in Nat, y < n, y \in S PROVE y + 1 \in S
    <3>1. y + 1 \in 0 .. n /\ \A x \in 0 .. y : x <= n
      BY <2>2
    <3>2. g[y + 1] \in V
      <4>1. CASE y + 1 < N
        BY <1>6, <1>21, <3>1, <4>1
      <4>2. CASE ~(y + 1 < N)
        <5>1. p[y + 1] \in 0 .. (y + 1) - 1 /\ q[y + 1] \in 0 .. (y + 1) - 1
          BY <1>9, <3>1, <4>2
        <5>2. (y + 1) - 1 = y
          OBVIOUS
        <5>3. g[p[y + 1]] \in V /\ g[q[y + 1]] \in V
          BY <2>2, <3>1, <5>1, <5>2
        <5> QED
          BY <1>5, <1>21, <3>1, <4>2, <5>3
      <4> QED
        BY <4>1, <4>2
    <3>3. \A x \in 0 .. y + 1 : x \in 0 .. y \/ x = y + 1
      OBVIOUS
    <3>4. \A x \in 0 .. y + 1 : x <= n => g[x] \in V
      BY <2>2, <3>2, <3>3
    <3>5. y + 1 \in Nat
      OBVIOUS
    <3> QED
      BY <3>4, <3>5
  <2>3. \A y \in Nat : y \in S => (y <= n => g[y] \in V)
    OBVIOUS
  <2> HIDE DEF S
  <2>4. \A y \in 0 .. n : y \in S
    BY <2>1, <2>2, UpTo
  <2> QED
    BY <2>3, <2>4
<1>23. Spells(g, Symbols(Len(u)), Bytes)
  <2>1. g \in [0 .. n -> V]
    BY <1>20, <1>22
  <2> QED
    BY <1>1, <1>3, <1>4, <2>1 DEF Spells, Symbols
<1>24. \A y \in Bytes : g[y] = <<y>>
  <2> TAKE y \in Bytes
  <2>1. y \in 0 .. n /\ y < N
    BY <1>2, <1>3 DEF Bytes
  <2> QED
    BY <1>21, <2>1
<1>25. \A k \in 1 .. Len(u) : g[N + k - 1] = g[u[k][1]] \o g[u[k][2]]
  <2> TAKE k \in 1 .. Len(u)
  <2>1. PICK y \in 0 .. n : y = N + k - 1 /\ ~(y < N) /\ y - N + 1 = k
    <3>1. k \in 1 .. m
      BY <1>1
    <3>2. N + k - 1 \in 0 .. n /\ ~(N + k - 1 < N) /\ (N + k - 1) - N + 1 = k
      BY <1>2, <1>3, <3>1
    <3> QED
      BY <3>2
  <2>2. g[y] = g[p[y]] \o g[q[y]]
    BY <1>21, <2>1
  <2>3. p[y] = u[k][1] /\ q[y] = u[k][2]
    BY <1>7, <1>8, <2>1
  <2> QED
    BY <2>1, <2>2, <2>3
<1> QED
  BY <1>18, <1>23, <1>24, <1>25 DEF SpelledOut

-----------------------------------------------------------------------------
(* A word outside the vocabulary in the units of the subword form.         *)

\* A word after the first k units.
Stages(w, u) ==
  CHOOSE h : h = [k \in 0 .. Len(u) |->
                    IF k = 0 THEN w ELSE With(h[k - 1], LAMBDA now : Replaced(now, u[k], N + k - 1))]

\* Pieces is the last of the stages.
LEMMA PiecesIs ==
  ASSUME NEW w, NEW u
  PROVE  Pieces(w, u) = Stages(w, u)[Len(u)]
  BY DEF Pieces, Stages

\* Each stage rewrites the one before it by one unit.
LEMMA StagesStep ==
  ASSUME NEW D, NEW w \in Seq(D), NEW u, Units(u),
         \A k \in 1 .. Len(u) : N + k - 1 \in D
  PROVE  /\ Stages(w, u)[0] = w
         /\ \A k \in 1 .. Len(u) : Stages(w, u)[k] = Replaced(Stages(w, u)[k - 1], u[k], N + k - 1)
<1>1. PICK m \in Nat : m = Len(u)
  <2>1. u \in Seq(Seq(Nat))
    BY DEF Units
  <2>2. Len(u) \in Nat
    BY <2>1, LenProperties
  <2> QED
    BY <2>2
<1>2. PICK V : V = Seq(D)
  OBVIOUS
<1>3. PICK st : st = [q \in (1 .. m) \X V |-> Replaced(q[2], u[q[1]], N + q[1] - 1)]
  OBVIOUS
<1>4. ASSUME NEW k \in 1 .. m, NEW s \in V
      PROVE  st[<<k, s>>] = Replaced(s, u[k], N + k - 1) /\ st[<<k, s>>] \in V
  <2>1. st[<<k, s>>] = Replaced(s, u[k], N + k - 1)
    BY <1>3
  <2>2. s \in Seq(D) /\ N + k - 1 \in D
    BY <1>1, <1>2
  <2>3. Replaced(s, u[k], N + k - 1) \in Seq(D)
    BY <2>2, ReplacedKeeps
  <2> QED
    BY <1>2, <2>1, <2>3
<1>5. st \in [(1 .. m) \X V -> V]
  <2>1. \A q \in (1 .. m) \X V : st[q] \in V
    <3> TAKE q \in (1 .. m) \X V
    <3>1. PICK k \in 1 .. m, s \in V : q = <<k, s>>
      OBVIOUS
    <3> QED
      BY <1>4, <3>1
  <2> QED
    BY <1>3, <2>1
<1>6. PICK g \in [0 .. m -> V] : Recurs(g, m, w, st)
  BY <1>2, <1>5, Recursion
<1>7. \A k \in 0 .. m : g[k] = IF k = 0 THEN w ELSE Replaced(g[k - 1], u[k], N + k - 1)
  <2> TAKE k \in 0 .. m
  <2>1. g[k] = IF k = 0 THEN w ELSE st[<<k, g[k - 1]>>]
    BY <1>6 DEF Recurs
  <2>2. k # 0 => st[<<k, g[k - 1]>>] = Replaced(g[k - 1], u[k], N + k - 1)
    <3>1. k # 0 => k \in 1 .. m /\ k - 1 \in 0 .. m
      OBVIOUS
    <3> QED
      BY <1>4, <3>1
  <2> QED
    BY <2>1, <2>2
<1> DEFINE Good(h) == h = [k \in 0 .. Len(u) |->
                     IF k = 0 THEN w ELSE With(h[k - 1], LAMBDA now : Replaced(now, u[k], N + k - 1))]
<1>8. \A h : Good(h) <=> h = [k \in 0 .. m |-> IF k = 0 THEN w ELSE Replaced(h[k - 1], u[k], N + k - 1)]
  <2> TAKE h
  <2>1. \A k : With(h[k - 1], LAMBDA now : Replaced(now, u[k], N + k - 1)) = Replaced(h[k - 1], u[k], N + k - 1)
    BY DEF With
  <2> QED
    BY <1>1, <2>1
<1>9. Good(g)
  <2>1. g = [k \in 0 .. m |-> IF k = 0 THEN w ELSE Replaced(g[k - 1], u[k], N + k - 1)]
    BY <1>7
  <2> HIDE DEF Good
  <2> QED
    BY <1>8, <2>1
<1>10. PICK h : h = Stages(w, u)
  OBVIOUS
<1>11. Good(h)
  <2>1. h = CHOOSE f : Good(f)
    BY <1>10 DEF Stages
  <2> HIDE DEF Good
  <2> QED
    BY <1>9, <2>1
<1>12. h = [k \in 0 .. m |-> IF k = 0 THEN w ELSE Replaced(h[k - 1], u[k], N + k - 1)]
  <2> HIDE DEF Good
  <2> QED
    BY <1>8, <1>11
<1> HIDE DEF Good
<1>13. h[0] = w
  BY <1>12
<1>14. \A k \in 1 .. m : h[k] = Replaced(h[k - 1], u[k], N + k - 1)
  BY <1>12
<1> QED
  BY <1>1, <1>10, <1>13, <1>14

\* A word in pieces: its own bytes and units, and the word is what they spell.
LEMMA PiecesOK ==
  ASSUME NEW u, Units(u), NEW B, B \subseteq Bytes, NEW w \in Seq(B)
  PROVE  /\ Pieces(w, u) \in Seq(B \cup (N .. N + Len(u) - 1))
         /\ Yield(Pieces(w, u), Spelling(u)) = w
<1>1. PICK m \in Nat : m = Len(u)
  <2>1. u \in Seq(Seq(Nat))
    BY DEF Units
  <2>2. Len(u) \in Nat
    BY <2>1, LenProperties
  <2> QED
    BY <2>2
<1>2. N \in Nat /\ N >= 4
  BY NAssumption
<1>3. PICK D : D = B \cup (N .. N + m - 1)
  OBVIOUS
<1>4. PICK E : E = Symbols(m)
  OBVIOUS
<1>5. D \subseteq E /\ B \subseteq D /\ B \subseteq E
  BY <1>2, <1>3, <1>4 DEF Symbols, Bytes
<1>6. \A k \in 1 .. m : N + k - 1 \in D /\ N + k - 1 \in E
  <2> TAKE k \in 1 .. m
  <2>1. N + k - 1 \in N .. N + m - 1
    BY <1>2
  <2> QED
    BY <1>3, <1>5, <2>1
<1>7. w \in Seq(D) /\ w \in Seq(E)
  BY <1>5, SeqMonotonic
<1>8. PICK h : h = Stages(w, u)
  OBVIOUS
<1>9. h[0] = w /\ \A k \in 1 .. m : h[k] = Replaced(h[k - 1], u[k], N + k - 1)
  BY <1>1, <1>6, <1>7, <1>8, StagesStep
<1>10. PICK sp : sp = Spelling(u)
  OBVIOUS
<1>11. Spells(sp, E, Bytes) /\ SpelledOut(sp, u)
  BY <1>1, <1>4, <1>10, SpellingOK
<1>12. \A k \in 1 .. m : /\ u[k][1] \in E /\ u[k][2] \in E
                         /\ sp[N + k - 1] = sp[u[k][1]] \o sp[u[k][2]]
  <2> TAKE k \in 1 .. m
  <2>1. u[k][1] \in 0 .. N + k - 2 /\ u[k][2] \in 0 .. N + k - 2
    BY <1>1 DEF Units
  <2>2. \A x \in 0 .. N + k - 2 : x \in E
    BY <1>2, <1>4 DEF Symbols
  <2>3. sp[N + k - 1] = sp[u[k][1]] \o sp[u[k][2]]
    BY <1>1, <1>11 DEF SpelledOut
  <2> QED
    BY <2>1, <2>2, <2>3
<1>13. \A k \in 0 .. m : h[k] \in Seq(D) /\ Yield(h[k], sp) = w
  <2> DEFINE S == {k \in Nat : h[k] \in Seq(D) /\ Yield(h[k], sp) = w}
  <2>1. 0 \in S
    <3>1. \A b \in B : sp[b] = <<b>>
      BY <1>11 DEF SpelledOut
    <3>2. Yield(w, sp) = w
      BY <1>5, <1>11, <3>1, YieldSelf
    <3> QED
      BY <1>7, <1>9, <3>2
  <2>2. ASSUME NEW k \in Nat, k < m, k \in S PROVE k + 1 \in S
    <3>1. PICK y \in 1 .. m : y = k + 1 /\ y - 1 = k
      <4>1. k + 1 \in 1 .. m /\ (k + 1) - 1 = k
        BY <2>2
      <4> QED
        BY <4>1
    <3>2. PICK s \in Seq(D) : s = h[k] /\ Yield(s, sp) = w
      BY <2>2
    <3>3. h[k + 1] = Replaced(s, u[y], N + y - 1)
      BY <1>9, <3>1, <3>2
    <3>4. N + y - 1 \in D /\ N + y - 1 \in E
      BY <1>6
    <3>5. Replaced(s, u[y], N + y - 1) \in Seq(D)
      BY <3>4, ReplacedKeeps
    <3>6. s \in Seq(E)
      BY <1>5, SeqMonotonic
    <3>7. Yield(Replaced(s, u[y], N + y - 1), sp) = Yield(s, sp)
      <4>1. u[y][1] \in E /\ u[y][2] \in E /\ sp[N + y - 1] = sp[u[y][1]] \o sp[u[y][2]]
        BY <1>12
      <4>2. KeepsYield(s, u[y], N + y - 1, E)
        BY <3>4, <3>6, ReplacedKeeps
      <4> QED
        BY <1>11, <4>1, <4>2 DEF KeepsYield
    <3>8. h[k + 1] \in Seq(D) /\ Yield(h[k + 1], sp) = w
      BY <3>2, <3>3, <3>5, <3>7
    <3>9. k + 1 \in Nat
      OBVIOUS
    <3> QED
      BY <3>8, <3>9
  <2> HIDE DEF S
  <2>3. \A k \in 0 .. m : k \in S
    BY <2>1, <2>2, UpTo
  <2> QED
    BY <2>3 DEF S
<1>14. m \in 0 .. m
  OBVIOUS
<1>15. Pieces(w, u) = h[m]
  BY <1>1, <1>8, PiecesIs
<1> QED
  BY <1>1, <1>3, <1>10, <1>13, <1>14, <1>15

-----------------------------------------------------------------------------
(* The units a vocabulary yields are units: each joins two known symbols.  *)

\* The image of a finite set is finite.
LEMMA ImageFinite ==
  ASSUME NEW S, IsFiniteSet(S), NEW f
  PROVE  IsFiniteSet({f[x] : x \in S})
<1>1. PICK g : g = [x \in S |-> f[x]]
  OBVIOUS
<1>2. PICK T : T = {f[x] : x \in S}
  OBVIOUS
<1>3. g \in Surjection(S, T)
  <2>1. g \in [S -> T]
    BY <1>1, <1>2
  <2>2. \A t \in T : \E s \in S : g[s] = t
    BY <1>1, <1>2
  <2> QED
    BY <2>1, <2>2 DEF Surjection
<1> QED
  BY <1>2, <1>3, FS_Surjection

\* A candidate is a pair of symbols.
Pair(c, D) == c.word \in Seq(D) /\ c.word[1] \in D /\ c.word[2] \in D

\* The pairs worth a unit are finitely many candidates.
LEMMA RepeatedOK ==
  ASSUME NEW D, D \subseteq Nat, NEW seqs \in Seq(Seq(D))
  PROVE  Counted(Repeated(seqs)) /\ \A c \in Repeated(seqs) : Pair(c, D)
<1>1. PICK m \in Nat : m = Len(seqs) /\ DOMAIN seqs = 1 .. m
  OBVIOUS
<1>2. 2 * N \in Nat
  BY NAssumption
<1>3. PICK A : A = PairPlaces(seqs)
  OBVIOUS
<1>4. IsFiniteSet(A)
  <2>1. IsFiniteSet(1 .. m) /\ IsFiniteSet(1 .. 2 * N)
    BY <1>2, FS_Interval
  <2>2. IsFiniteSet((1 .. m) \X (1 .. 2 * N))
    BY <2>1, FS_Product
  <2>3. A \subseteq (1 .. m) \X (1 .. 2 * N)
    BY <1>1, <1>3 DEF PairPlaces
  <2> QED
    BY <2>2, <2>3, FS_Subset
<1>5. PICK at : at = [p \in A |-> PairAt(seqs, p)]
  OBVIOUS
<1>6. \A p \in A : /\ at[p] = PairAt(seqs, p)
                   /\ at[p] \in Seq(D) /\ at[p][1] \in D /\ at[p][2] \in D
  <2> TAKE p \in A
  <2>1. p[1] \in 1 .. m /\ p[2] \in 1 .. 2 * N /\ p[2] < Len(seqs[p[1]])
    BY <1>1, <1>3 DEF PairPlaces
  <2>2. PICK s \in Seq(D) : s = seqs[p[1]]
    BY <1>1, <2>1
  <2>3. PICK n \in Nat : n = Len(s)
    OBVIOUS
  <2>4. PICK x \in Nat : x = p[2] /\ 1 <= x /\ x < n
    BY <2>1, <2>2, <2>3
  <2>5. s[x] \in D /\ s[x + 1] \in D
    BY <2>3, <2>4
  <2>6. at[p] = <<s[x], s[x + 1]>>
    BY <1>5, <2>2, <2>4 DEF PairAt
  <2>7. at[p] = PairAt(seqs, p)
    BY <1>5
  <2>8. PICK b \in D, c \in D : b = s[x] /\ c = s[x + 1]
    BY <2>5
  <2>9. <<b, c>> \in Seq(D) /\ <<b, c>>[1] = b /\ <<b, c>>[2] = c
    OBVIOUS
  <2> QED
    BY <2>6, <2>7, <2>8, <2>9
<1>7. PICK Q : Q = {at[p] : p \in A}
  OBVIOUS
<1>8. Q = {PairAt(seqs, p) : p \in A}
  BY <1>6, <1>7
<1>9. IsFiniteSet(Q)
  BY <1>4, <1>7, ImageFinite
<1>10. PICK tell : tell = [q \in Q |-> [word |-> q, count |-> Cardinality({p \in A : PairAt(seqs, p) = q})]]
  OBVIOUS
<1>11. PICK C : C = {tell[q] : q \in Q}
  OBVIOUS
<1>12. IsFiniteSet(C)
  BY <1>9, <1>11, ImageFinite
<1>13. Repeated(seqs) = {c \in C : c.count >= 2}
  <2>1. C = {[word |-> q, count |-> Cardinality({p \in A : PairAt(seqs, p) = q})] : q \in Q}
    BY <1>10, <1>11
  <2>2. PICK R : R = {[word |-> q, count |-> Cardinality({p \in A : PairAt(seqs, p) = q})] : q \in {PairAt(seqs, p) : p \in A}}
    OBVIOUS
  <2>3. R = C
    BY <1>8, <2>1, <2>2
  <2>4. Repeated(seqs) = {c \in R : c.count >= 2}
    BY <1>3, <2>2 DEF Repeated, With
  <2> QED
    BY <2>3, <2>4
<1>14. \A c \in C : c.word \in Q /\ c.count \in Nat /\ c = tell[c.word]
  <2> TAKE c \in C
  <2>1. PICK q \in Q : c = tell[q]
    BY <1>11
  <2>2. c.word = q /\ c.count = Cardinality({p \in A : PairAt(seqs, p) = q})
    BY <1>10, <2>1
  <2>3. IsFiniteSet({p \in A : PairAt(seqs, p) = q})
    <3>1. {p \in A : PairAt(seqs, p) = q} \subseteq A
      OBVIOUS
    <3> QED
      BY <1>4, <3>1, FS_Subset
  <2>4. c.count \in Nat
    BY <2>2, <2>3, FS_CardinalityType
  <2> QED
    BY <2>1, <2>2, <2>4
<1>15. \A q \in Q : q \in Seq(D) /\ q[1] \in D /\ q[2] \in D
  BY <1>6, <1>7
<1>16. \A c \in C : Pair(c, D)
  BY <1>14, <1>15 DEF Pair
<1>17. \A q \in Seq(D) : q \in Seq(Nat)
  BY SeqMonotonic
<1>18. \A c \in C : c.word \in Seq(Nat)
  BY <1>14, <1>15, <1>17
<1>19. IsFiniteSet(Repeated(seqs))
  BY <1>12, <1>13, FS_Subset
<1>20. Counted(Repeated(seqs))
  BY <1>13, <1>14, <1>18, <1>19 DEF Counted
<1> QED
  BY <1>13, <1>16, <1>20

\* The pair a step of learning takes.
Best(st) == Ranked(Repeated(st.seqs))[1].word

\* What a step of learning makes of the units and the sequences.
Learned(st, k) ==
  IF Repeated(st.seqs) = {} THEN st
  ELSE [merges |-> Append(st.merges, Best(st)),
        seqs   |-> [v \in DOMAIN st.seqs |-> Replaced(st.seqs[v], Best(st), N + k - 1)]]

\* Learn is that step.
LEMMA LearnIs ==
  ASSUME NEW st, NEW k
  PROVE  Learn(st, k) = Learned(st, k)
  BY DEF Learn, Learned, Best, With

\* The pair joins two known symbols.
LEMMA BestOK ==
  ASSUME NEW D, D \subseteq Nat, NEW st, st.seqs \in Seq(Seq(D)), Repeated(st.seqs) # {}
  PROVE  Best(st) \in Seq(D) /\ Best(st)[1] \in D /\ Best(st)[2] \in D
<1>1. PICK S : S = Repeated(st.seqs)
  OBVIOUS
<1>2. Counted(S) /\ (\A c \in S : Pair(c, D)) /\ S # {}
  BY <1>1, RepeatedOK
<1>3. Cardinality(S) \in Nat /\ Ranked(S) \in Seq(S) /\ Len(Ranked(S)) = Cardinality(S)
  BY <1>2, RankedListed
<1>4. Cardinality(S) # 0
  BY <1>2, FS_EmptySet DEF Counted
<1>5. Ranked(S)[1] \in S
  BY <1>3, <1>4
<1> QED
  BY <1>1, <1>2, <1>5 DEF Best, Pair

\* Rewriting every sequence leaves sequences.
LEMMA RewrittenAll ==
  ASSUME NEW D, NEW seqs \in Seq(Seq(D)), NEW new \in D, NEW pair
  PROVE  [v \in DOMAIN seqs |-> Replaced(seqs[v], pair, new)] \in Seq(Seq(D))
<1>1. PICK m \in Nat : m = Len(seqs) /\ DOMAIN seqs = 1 .. m
  OBVIOUS
<1>2. PICK V : V = Seq(D)
  OBVIOUS
<1>3. \A v \in 1 .. m : Replaced(seqs[v], pair, new) \in V
  <2> TAKE v \in 1 .. m
  <2>1. seqs[v] \in Seq(D)
    BY <1>1
  <2> QED
    BY <1>2, <2>1, ReplacedKeeps
<1>4. PICK q : q = [v \in DOMAIN seqs |-> Replaced(seqs[v], pair, new)]
  OBVIOUS
<1>5. q \in [1 .. m -> V]
  BY <1>1, <1>3, <1>4
<1>6. q \in Seq(V)
  BY <1>5, Listed
<1> QED
  BY <1>2, <1>4, <1>6

\* What learning works on.
Learning == [merges : Seq(Seq(Nat)), seqs : Seq(Seq(Nat))]

\* A step of learning stays there.
LEMMA LearnedTyped ==
  ASSUME NEW st \in Learning, NEW k \in Nat \ {0}
  PROVE  Learned(st, k) \in Learning
<1>1. CASE Repeated(st.seqs) = {}
  BY <1>1 DEF Learned
<1>2. CASE Repeated(st.seqs) # {}
  <2>1. st.merges \in Seq(Seq(Nat)) /\ st.seqs \in Seq(Seq(Nat))
    BY DEF Learning
  <2>2. Best(st) \in Seq(Nat)
    <3>1. Nat \subseteq Nat
      OBVIOUS
    <3> QED
      BY <1>2, <2>1, <3>1, BestOK
  <2>3. Append(st.merges, Best(st)) \in Seq(Seq(Nat))
    BY <2>1, <2>2, AppendProperties
  <2>4. N + k - 1 \in Nat
    BY NAssumption
  <2>5. [v \in DOMAIN st.seqs |-> Replaced(st.seqs[v], Best(st), N + k - 1)] \in Seq(Seq(Nat))
    BY <2>1, <2>4, RewrittenAll
  <2> QED
    BY <1>2, <2>3, <2>5 DEF Learned, Learning
<1> QED
  BY <1>1, <1>2

\* The sequences after k steps.
Studies(voc) ==
  CHOOSE h : h = [k \in 0 .. RESERVED_MAX |->
                    IF k = 0 THEN [merges |-> <<>>, seqs |-> voc]
                    ELSE With(h[k - 1], LAMBDA st : Learn(st, k))]

\* DeriveMerges is what is learned in RESERVED_MAX steps.
LEMMA DeriveIs ==
  ASSUME NEW voc
  PROVE  DeriveMerges(voc) = Studies(voc)[RESERVED_MAX].merges
  BY DEF DeriveMerges, Studies

\* Each of its stages learns from the one before it.
LEMMA StudiesStep ==
  ASSUME NEW voc \in Seq(Seq(Nat))
  PROVE  /\ Studies(voc)[0] = [merges |-> <<>>, seqs |-> voc]
         /\ \A k \in 1 .. RESERVED_MAX : Studies(voc)[k] = Learned(Studies(voc)[k - 1], k)
<1>1. PICK m \in Nat : m = RESERVED_MAX
  BY NAssumption DEF RESERVED_MAX
<1>2. PICK V : V = Learning
  OBVIOUS
<1>3. PICK base : base = [merges |-> <<>>, seqs |-> voc]
  OBVIOUS
<1>4. base \in V
  <2>1. <<>> \in Seq(Seq(Nat))
    OBVIOUS
  <2> QED
    BY <1>2, <1>3, <2>1 DEF Learning
<1>5. PICK lr : lr = [q \in (1 .. m) \X V |-> Learned(q[2], q[1])]
  OBVIOUS
<1>6. ASSUME NEW k \in 1 .. m, NEW s \in V
      PROVE  lr[<<k, s>>] = Learned(s, k) /\ lr[<<k, s>>] \in V
  <2>1. lr[<<k, s>>] = Learned(s, k)
    BY <1>5
  <2>2. Learned(s, k) \in Learning
    BY <1>2, LearnedTyped
  <2> QED
    BY <1>2, <2>1, <2>2
<1>7. lr \in [(1 .. m) \X V -> V]
  <2>1. \A q \in (1 .. m) \X V : lr[q] \in V
    <3> TAKE q \in (1 .. m) \X V
    <3>1. PICK k \in 1 .. m, s \in V : q = <<k, s>>
      OBVIOUS
    <3> QED
      BY <1>6, <3>1
  <2> QED
    BY <1>5, <2>1
<1>8. PICK g \in [0 .. m -> V] : Recurs(g, m, base, lr)
  BY <1>4, <1>7, Recursion
<1>9. \A k \in 0 .. m : g[k] = IF k = 0 THEN base ELSE Learned(g[k - 1], k)
  <2> TAKE k \in 0 .. m
  <2>1. g[k] = IF k = 0 THEN base ELSE lr[<<k, g[k - 1]>>]
    BY <1>8 DEF Recurs
  <2>2. k # 0 => lr[<<k, g[k - 1]>>] = Learned(g[k - 1], k)
    <3>1. k # 0 => k \in 1 .. m /\ k - 1 \in 0 .. m
      OBVIOUS
    <3> QED
      BY <1>6, <3>1
  <2> QED
    BY <2>1, <2>2
<1> DEFINE Good(h) == h = [k \in 0 .. RESERVED_MAX |->
                             IF k = 0 THEN [merges |-> <<>>, seqs |-> voc]
                             ELSE With(h[k - 1], LAMBDA st : Learn(st, k))]
<1>10. \A h : Good(h) <=> h = [k \in 0 .. m |-> IF k = 0 THEN base ELSE Learned(h[k - 1], k)]
  <2> TAKE h
  <2>1. \A k : With(h[k - 1], LAMBDA st : Learn(st, k)) = Learn(h[k - 1], k)
    BY DEF With
  <2>2. \A k : With(h[k - 1], LAMBDA st : Learn(st, k)) = Learned(h[k - 1], k)
    BY <2>1, LearnIs
  <2> QED
    BY <1>1, <1>3, <2>2
<1>11. Good(g)
  <2>1. g = [k \in 0 .. m |-> IF k = 0 THEN base ELSE Learned(g[k - 1], k)]
    BY <1>9
  <2> HIDE DEF Good
  <2> QED
    BY <1>10, <2>1
<1>12. PICK h : h = Studies(voc)
  OBVIOUS
<1>13. Good(h)
  <2>1. h = CHOOSE f : Good(f)
    BY <1>12 DEF Studies
  <2> HIDE DEF Good
  <2> QED
    BY <1>11, <2>1
<1>14. h = [k \in 0 .. m |-> IF k = 0 THEN base ELSE Learned(h[k - 1], k)]
  <2> HIDE DEF Good
  <2> QED
    BY <1>10, <1>13
<1> HIDE DEF Good
<1>15. h[0] = base
  BY <1>14
<1>16. \A k \in 1 .. m : h[k] = Learned(h[k - 1], k)
  BY <1>14
<1> QED
  BY <1>1, <1>3, <1>12, <1>15, <1>16

\* After k steps: k units, or fewer and no pair left to learn.
Studied(st, k) ==
  /\ Units(st.merges)
  /\ st.seqs \in Seq(Seq(Symbols(Len(st.merges))))
  /\ Len(st.merges) <= k
  /\ Len(st.merges) = k \/ Repeated(st.seqs) = {}

\* A step of learning adds a unit, or there is none left to learn.
LEMMA LearnedStudied ==
  ASSUME NEW st, NEW k \in Nat, Studied(st, k)
  PROVE  Studied(Learned(st, k + 1), k + 1)
<1>1. PICK u \in Seq(Seq(Nat)) : u = st.merges /\ Units(u)
  BY DEF Studied, Units
<1>2. PICK m \in Nat : m = Len(u)
  OBVIOUS
<1>3. CASE Repeated(st.seqs) = {}
  <2>1. Learned(st, k + 1) = st
    BY <1>3 DEF Learned
  <2>2. m <= k + 1
    BY <1>1, <1>2 DEF Studied
  <2> QED
    BY <1>1, <1>2, <1>3, <2>1, <2>2 DEF Studied
<1>4. CASE Repeated(st.seqs) # {}
  <2>1. m = k
    BY <1>1, <1>2, <1>4 DEF Studied
  <2>2. PICK D : D = Symbols(m)
    OBVIOUS
  <2>3. PICK E : E = Symbols(m + 1)
    OBVIOUS
  <2>4. N \in Nat /\ N >= 4
    BY NAssumption
  <2>5. D \subseteq Nat /\ D \subseteq E /\ N + (k + 1) - 1 \in E /\ D = 0 .. N + m - 1
    BY <2>1, <2>2, <2>3, <2>4 DEF Symbols
  <2>6. st.seqs \in Seq(Seq(D))
    BY <1>1, <1>2, <2>2 DEF Studied
  <2>7. PICK best : best = Best(st)
    OBVIOUS
  <2>8. best \in Seq(D) /\ best[1] \in D /\ best[2] \in D
    BY <1>4, <2>5, <2>6, <2>7, BestOK
  <2>9. best \in Seq(Nat)
    BY <2>5, <2>8, SeqMonotonic
  <2>10. PICK v \in Seq(Seq(Nat)) : v = Append(u, best)
    BY <2>9, AppendProperties
  <2>11. Len(v) = m + 1 /\ (\A x \in 1 .. m : v[x] = u[x]) /\ v[m + 1] = best
    BY <1>2, <2>9, <2>10, AppendProperties
  <2>12. Units(v)
    <3>1. ASSUME NEW x \in 1 .. Len(v) PROVE v[x][1] \in 0 .. N + x - 2 /\ v[x][2] \in 0 .. N + x - 2
      <4>1. CASE x \in 1 .. m
        <5>1. u[x][1] \in 0 .. N + x - 2 /\ u[x][2] \in 0 .. N + x - 2
          BY <1>1, <1>2, <4>1 DEF Units
        <5> QED
          BY <2>11, <4>1, <5>1
      <4>2. CASE x = m + 1
        <5>1. N + x - 2 = N + m - 1
          BY <2>4, <4>2
        <5> QED
          BY <2>5, <2>8, <2>11, <4>2, <5>1
      <4> QED
        BY <2>11, <4>1, <4>2
    <3> QED
      BY <3>1 DEF Units
  <2>13. PICK q : q = [x \in DOMAIN st.seqs |-> Replaced(st.seqs[x], best, N + (k + 1) - 1)]
    OBVIOUS
  <2>14. q \in Seq(Seq(E))
    <3>1. Seq(D) \subseteq Seq(E)
      BY <2>5, SeqMonotonic
    <3>2. st.seqs \in Seq(Seq(E))
      BY <2>6, <3>1, SeqMonotonic
    <3> QED
      BY <2>5, <2>13, <3>2, RewrittenAll
  <2>15. Learned(st, k + 1) = [merges |-> v, seqs |-> q]
    BY <1>1, <1>4, <2>7, <2>10, <2>13 DEF Learned
  <2>16. Learned(st, k + 1).merges = v /\ Learned(st, k + 1).seqs = q
    BY <2>15
  <2> QED
    BY <2>1, <2>3, <2>11, <2>12, <2>14, <2>16 DEF Studied
<1> QED
  BY <1>3, <1>4

\* The units a vocabulary yields are units, and each has a code.
LEMMA DeriveOK ==
  ASSUME NEW voc \in Seq(Seq(Bytes))
  PROVE  /\ Units(DeriveMerges(voc))
         /\ Len(DeriveMerges(voc)) \in Nat /\ Len(DeriveMerges(voc)) <= RESERVED_MAX
<1>1. PICK m \in Nat : m = RESERVED_MAX
  BY NAssumption DEF RESERVED_MAX
<1>2. Bytes \subseteq Nat
  BY NAssumption DEF Bytes
<1>3. voc \in Seq(Seq(Nat))
  <2>1. Seq(Bytes) \subseteq Seq(Nat)
    BY <1>2, SeqMonotonic
  <2> QED
    BY <2>1, SeqMonotonic
<1>4. PICK h : h = Studies(voc)
  OBVIOUS
<1>5. h[0] = [merges |-> <<>>, seqs |-> voc] /\ \A k \in 1 .. m : h[k] = Learned(h[k - 1], k)
  BY <1>1, <1>3, <1>4, StudiesStep
<1>6. \A k \in 0 .. m : Studied(h[k], k)
  <2> DEFINE S == {k \in Nat : Studied(h[k], k)}
  <2>1. 0 \in S
    <3>1. h[0].merges = <<>> /\ h[0].seqs = voc
      BY <1>5
    <3>2. Units(<<>>)
      BY DEF Units
    <3>3. Len(<<>>) = 0 /\ Symbols(0) = Bytes
      BY NAssumption DEF Symbols, Bytes
    <3>4. Studied(h[0], 0)
      BY <3>1, <3>2, <3>3 DEF Studied
    <3> QED
      BY <3>4
  <2>2. ASSUME NEW k \in Nat, k < m, k \in S PROVE k + 1 \in S
    <3>1. k + 1 \in 1 .. m /\ (k + 1) - 1 = k
      BY <2>2
    <3>2. h[k + 1] = Learned(h[k], k + 1)
      BY <1>5, <3>1
    <3>3. Studied(h[k + 1], k + 1)
      BY <2>2, <3>2, LearnedStudied
    <3>4. k + 1 \in Nat
      OBVIOUS
    <3> QED
      BY <3>3, <3>4
  <2> HIDE DEF S
  <2>3. \A k \in 0 .. m : k \in S
    BY <2>1, <2>2, UpTo
  <2> QED
    BY <2>3 DEF S
<1>7. Studied(h[m], m)
  <2>1. m \in 0 .. m
    OBVIOUS
  <2> QED
    BY <1>6, <2>1
<1>8. DeriveMerges(voc) = h[m].merges
  BY <1>1, <1>4, DeriveIs
<1>9. DeriveMerges(voc) \in Seq(Seq(Nat))
  BY <1>7, <1>8 DEF Studied, Units
<1> QED
  BY <1>1, <1>7, <1>8, <1>9, LenProperties DEF Studied

-----------------------------------------------------------------------------
(* Words and phrases of a text.                                            *)

\* A letter is a byte, and none of the marks of a code.
LEMMA LettersAre ==
  /\ N \in Nat /\ N >= 4
  /\ Letters \subseteq Bytes /\ Space \in Bytes /\ Space \notin Letters
  /\ \A a \in Letters : a # ESC /\ a # 0 /\ a # N - 1
  BY NAssumption, LettersAssumption, SpaceAssumption DEF Bytes, ESC

\* WordEnd is the first place from p on that is no letter.
LEMMA WordEndOK ==
  ASSUME NEW X, NEW s \in Seq(X), NEW p \in 1 .. Len(s) + 1
  PROVE  /\ WordEnd(s, p) \in p .. Len(s) + 1
         /\ \A k \in p .. WordEnd(s, p) - 1 : s[k] \in Letters
         /\ WordEnd(s, p) = Len(s) + 1 \/ s[WordEnd(s, p)] \notin Letters
<1>1. PICK n \in Nat : n = Len(s)
  OBVIOUS
<1> DEFINE D == {k \in Nat : p <= k /\ k <= n + 1 /\ (k = n + 1 \/ s[k] \notin Letters)}
           End(e) == /\ \A k \in p .. e - 1 : s[k] \in Letters
                     /\ e = Len(s) + 1 \/ s[e] \notin Letters
<1>2. n + 1 \in D
  BY <1>1
<1>3. PICK e \in D : \A k \in D : e <= k
  <2>1. D \subseteq Nat
    OBVIOUS
  <2> HIDE DEF D
  <2> QED
    BY <1>2, <2>1, LeastNumber
<1>4. e \in p .. Len(s) + 1 /\ (e = n + 1 \/ s[e] \notin Letters)
  BY <1>1, <1>3
<1>5. \A k \in p .. e - 1 : s[k] \in Letters
  <2> TAKE k \in p .. e - 1
  <2>1. k \notin D
    <3>1. ~(e <= k)
      BY <1>4
    <3> HIDE DEF D
    <3> QED
      BY <1>3, <3>1
  <2>2. k \in Nat /\ p <= k /\ k <= n + 1
    BY <1>1, <1>4
  <2> QED
    BY <2>1, <2>2
<1>6. End(e)
  BY <1>1, <1>4, <1>5
<1>7. WordEnd(s, p) = CHOOSE x \in p .. Len(s) + 1 : End(x)
  BY DEF WordEnd
<1> HIDE DEF D, End
<1>8. WordEnd(s, p) \in p .. Len(s) + 1 /\ End(WordEnd(s, p))
  BY <1>4, <1>6, <1>7
<1> QED
  BY <1>8 DEF End

\* A part of a sequence, its length and its elements.
LEMMA Part ==
  ASSUME NEW X, NEW B, NEW s \in Seq(X), NEW p \in 1 .. Len(s) + 1, NEW q \in p - 1 .. Len(s),
         \A k \in p .. q : s[k] \in B
  PROVE  /\ SubSeq(s, p, q) \in Seq(B) /\ Len(SubSeq(s, p, q)) = q - p + 1
         /\ \A k \in 1 .. q - p + 1 : SubSeq(s, p, q)[k] = s[p + k - 1]
<1>1. p \in Int /\ q \in Int
  OBVIOUS
<1>2. /\ SubSeq(s, p, q) \in Seq(B)
      /\ Len(SubSeq(s, p, q)) = IF p <= q THEN q - p + 1 ELSE 0
      /\ \A k \in 1 .. q - p + 1 : SubSeq(s, p, q)[k] = s[p + k - 1]
  BY <1>1, SubSeqProperties
<1>3. (IF p <= q THEN q - p + 1 ELSE 0) = q - p + 1
  BY <1>1
<1> QED
  BY <1>2, <1>3

\* The word that starts at p.
LEMMA WordOK ==
  ASSUME NEW s \in Seq(Bytes), NEW p \in 1 .. Len(s), s[p] \in Letters
  PROVE  /\ Word(s, p) \in Seq(Letters) /\ Len(Word(s, p)) \in Nat \ {0}
         /\ WordEnd(s, p) = p + Len(Word(s, p)) /\ WordEnd(s, p) <= Len(s) + 1
         /\ Word(s, p) = SubSeq(s, p, p + Len(Word(s, p)) - 1)
<1>1. PICK n \in Nat : n = Len(s)
  OBVIOUS
<1>2. p \in 1 .. Len(s) + 1
  OBVIOUS
<1>3. PICK e \in p .. n + 1 : e = WordEnd(s, p)
  BY <1>1, <1>2, WordEndOK
<1>4. /\ \A k \in p .. e - 1 : s[k] \in Letters
      /\ e = n + 1 \/ s[e] \notin Letters
  BY <1>1, <1>2, <1>3, WordEndOK
<1>5. e # p
  BY <1>1, <1>4
<1>6. e - 1 \in p - 1 .. Len(s)
  BY <1>1, <1>3
<1>7. SubSeq(s, p, e - 1) \in Seq(Letters) /\ Len(SubSeq(s, p, e - 1)) = (e - 1) - p + 1
  BY <1>2, <1>4, <1>6, Part
<1>8. Word(s, p) = SubSeq(s, p, e - 1)
  BY <1>3 DEF Word
<1>9. PICK m \in Nat \ {0} : m = (e - 1) - p + 1 /\ e = p + m /\ e - 1 = p + m - 1
  <2>1. (e - 1) - p + 1 \in Nat \ {0}
    BY <1>3, <1>5
  <2> QED
    BY <2>1
<1>10. Word(s, p) \in Seq(Letters) /\ Len(Word(s, p)) = m
  BY <1>7, <1>8, <1>9
<1>11. Word(s, p) = SubSeq(s, p, p + m - 1)
  BY <1>8, <1>9
<1>12. WordEnd(s, p) = p + m /\ WordEnd(s, p) <= Len(s) + 1
  BY <1>1, <1>3, <1>9
<1> QED
  BY <1>10, <1>11, <1>12

\* Two words and the space between them.
LEMMA PhraseOK ==
  ASSUME NEW s \in Seq(Bytes), NEW p \in 1 .. Len(s), s[p] \in Letters, PhraseAt(s, WordEnd(s, p))
  PROVE  /\ Phrase(s, p) \in Seq(Bytes) /\ Len(Phrase(s, p)) \in Nat \ {0}
         /\ p + Len(Phrase(s, p)) <= Len(s) + 1
         /\ Phrase(s, p) = SubSeq(s, p, p + Len(Phrase(s, p)) - 1)
         /\ \E k \in 1 .. Len(Phrase(s, p)) : Phrase(s, p)[k] = Space
<1>1. PICK n \in Nat : n = Len(s)
  OBVIOUS
<1>2. p \in 1 .. Len(s) + 1
  OBVIOUS
<1>3. PICK e \in p .. n + 1 : e = WordEnd(s, p)
  BY <1>1, <1>2, WordEndOK
<1>4. e + 1 <= n /\ s[e] = Space
  BY <1>1, <1>3 DEF PhraseAt
<1>5. e + 1 \in 1 .. Len(s) + 1
  BY <1>1, <1>4
<1>6. PICK f \in e + 1 .. n + 1 : f = WordEnd(s, e + 1)
  BY <1>1, <1>5, WordEndOK
<1>7. f - 1 \in p - 1 .. Len(s) /\ \A k \in p .. f - 1 : s[k] \in Bytes
  BY <1>1, <1>3, <1>6
<1>8. /\ SubSeq(s, p, f - 1) \in Seq(Bytes) /\ Len(SubSeq(s, p, f - 1)) = (f - 1) - p + 1
      /\ \A k \in 1 .. (f - 1) - p + 1 : SubSeq(s, p, f - 1)[k] = s[p + k - 1]
  BY <1>2, <1>7, Part
<1>9. Phrase(s, p) = SubSeq(s, p, f - 1)
  BY <1>3, <1>6 DEF Phrase
<1>10. PICK m \in Nat \ {0} : m = (f - 1) - p + 1 /\ f = p + m /\ f - 1 = p + m - 1
  <2>1. (f - 1) - p + 1 \in Nat \ {0}
    BY <1>3, <1>6
  <2> QED
    BY <2>1
<1>11. \E k \in 1 .. m : SubSeq(s, p, f - 1)[k] = Space
  <2>1. PICK k \in 1 .. m : p + k - 1 = e
    <3>2. e \in Nat /\ f \in Nat /\ p <= e /\ e + 1 <= f
      BY <1>3, <1>6
    <3>1. e - p + 1 \in 1 .. m /\ p + (e - p + 1) - 1 = e
      BY <1>10, <3>2
    <3> QED
      BY <3>1
  <2> QED
    BY <1>4, <1>8, <1>10, <2>1
<1>12. Phrase(s, p) \in Seq(Bytes) /\ Len(Phrase(s, p)) = m
  BY <1>8, <1>9, <1>10
<1>13. Phrase(s, p) = SubSeq(s, p, p + m - 1)
  BY <1>9, <1>10
<1>14. p + m <= Len(s) + 1
  BY <1>1, <1>6, <1>10
<1>15. \E k \in 1 .. m : Phrase(s, p)[k] = Space
  BY <1>9, <1>11
<1> QED
  BY <1>12, <1>13, <1>14, <1>15

\* The places where words and phrases start.
LEMMA StartsOK ==
  ASSUME NEW s \in Seq(Bytes)
  PROVE  /\ IsFiniteSet(Starts(s)) /\ IsFiniteSet(Pairs(s)) /\ Pairs(s) \subseteq Starts(s)
         /\ \A p \in Starts(s) : p \in 1 .. Len(s) /\ s[p] \in Letters
         /\ \A p \in Pairs(s) : PhraseAt(s, WordEnd(s, p))
<1>1. Len(s) \in Nat /\ DOMAIN s = 1 .. Len(s)
  OBVIOUS
<1>2. IsFiniteSet(1 .. Len(s))
  BY <1>1, FS_Interval
<1>3. Starts(s) \subseteq 1 .. Len(s)
  BY <1>1 DEF Starts
<1>4. Pairs(s) \subseteq Starts(s)
  BY DEF Pairs
<1>5. IsFiniteSet(Starts(s))
  BY <1>2, <1>3, FS_Subset
<1>6. IsFiniteSet(Pairs(s))
  BY <1>4, <1>5, FS_Subset
<1>7. \A p \in Starts(s) : s[p] \in Letters
  BY DEF Starts
<1>8. \A p \in Pairs(s) : PhraseAt(s, WordEnd(s, p))
  BY DEF Pairs
<1> QED
  BY <1>3, <1>4, <1>5, <1>6, <1>7, <1>8

-----------------------------------------------------------------------------
(* The vocabularies built from a text.                                     *)

\* Candidates whose words are words of the alphabet B.
Listing(S, B) == Counted(S) /\ \A a \in S : a.word \in Seq(B)

\* S counts the words at the places of A.
Tallies(S, A, at) ==
  S = {[word |-> w, count |-> Cardinality({p \in A : at[p] = w})] : w \in {at[p] : p \in A}}

\* Every word of S is at one of the places.
Placed(S, A, at) == \A c \in S : \E p \in A : c.word = at[p]

\* Each word of W once, with the number of places where it is.
LEMMA Tallied ==
  ASSUME NEW B, B \subseteq Nat, NEW A, IsFiniteSet(A), NEW at, NEW S,
         \A p \in A : at[p] \in Seq(B),
         Tallies(S, A, at)
  PROVE  Listing(S, B) /\ Placed(S, A, at)
<1>1. PICK W : W = {at[p] : p \in A}
  OBVIOUS
<1>2. IsFiniteSet(W)
  BY <1>1, ImageFinite
<1>3. PICK tell : tell = [w \in W |-> [word |-> w, count |-> Cardinality({p \in A : at[p] = w})]]
  OBVIOUS
<1>4. S = {tell[w] : w \in W}
  BY <1>1, <1>3 DEF Tallies
<1>5. IsFiniteSet(S)
  <2>1. IsFiniteSet({tell[w] : w \in W})
    BY <1>2, ImageFinite
  <2> QED
    BY <1>4, <2>1
<1>6. \A c \in S : c.word \in W /\ c.count \in Nat /\ c = tell[c.word]
  <2> TAKE c \in S
  <2>1. PICK w \in W : c = tell[w]
    BY <1>4
  <2>2. c.word = w /\ c.count = Cardinality({p \in A : at[p] = w})
    BY <1>3, <2>1
  <2>3. IsFiniteSet({p \in A : at[p] = w})
    <3>1. {p \in A : at[p] = w} \subseteq A
      OBVIOUS
    <3> QED
      BY <3>1, FS_Subset
  <2>4. c.count \in Nat
    BY <2>2, <2>3, FS_CardinalityType
  <2> QED
    BY <2>1, <2>2, <2>4
<1>7. \A w \in W : w \in Seq(B)
  BY <1>1
<1>8. \A w \in Seq(B) : w \in Seq(Nat)
  BY SeqMonotonic
<1>9. \A c \in S : c.word \in Seq(B) /\ c.word \in Seq(Nat)
  BY <1>6, <1>7, <1>8
<1>10. \A c \in S : \E p \in A : c.word = at[p]
  BY <1>1, <1>6
<1> QED
  BY <1>5, <1>6, <1>9, <1>10 DEF Listing, Counted, Placed

\* The words of a text are candidates.
LEMMA WordCountsOK ==
  ASSUME NEW s \in Seq(Bytes)
  PROVE  Listing(WordCounts(s), Letters)
<1>1. PICK A : A = Starts(s)
  OBVIOUS
<1>2. PICK at : at = [p \in A |-> Word(s, p)]
  OBVIOUS
<1>3. \A p \in A : at[p] = Word(s, p) /\ at[p] \in Seq(Letters)
  <2> TAKE p \in A
  <2>1. p \in 1 .. Len(s) /\ s[p] \in Letters
    BY <1>1, StartsOK
  <2> QED
    BY <1>2, <2>1, WordOK
<1>4. \A w : {p \in A : at[p] = w} = {p \in Starts(s) : Word(s, p) = w}
  BY <1>1, <1>3
<1>5. {at[p] : p \in A} = {Word(s, p) : p \in Starts(s)}
  BY <1>1, <1>3
<1>6. WordCounts(s) = {[word |-> w, count |-> Cardinality({p \in A : at[p] = w})] : w \in {at[p] : p \in A}}
  <2>1. \A w : WordCount(s, w) = Cardinality({p \in A : at[p] = w})
    BY <1>4 DEF WordCount
  <2>2. WordCounts(s) = {[word |-> w, count |-> WordCount(s, w)] : w \in {at[p] : p \in A}}
    BY <1>5 DEF WordCounts
  <2> QED
    BY <2>1, <2>2
<1>7. IsFiniteSet(A) /\ Letters \subseteq Nat
  BY <1>1, StartsOK, LettersAre DEF Bytes
<1>8. Tallies(WordCounts(s), A, at)
  BY <1>6 DEF Tallies
<1> QED
  BY <1>3, <1>7, <1>8, Tallied

\* So are its phrases.
LEMMA PhraseCountsOK ==
  ASSUME NEW s \in Seq(Bytes)
  PROVE  /\ Listing(PhraseCounts(s), Bytes)
         /\ \A c \in PhraseCounts(s) : \E k \in 1 .. Len(c.word) : c.word[k] = Space
<1>1. PICK A : A = Pairs(s)
  OBVIOUS
<1>2. PICK at : at = [p \in A |-> Phrase(s, p)]
  OBVIOUS
<1>3. \A p \in A : /\ at[p] = Phrase(s, p) /\ at[p] \in Seq(Bytes)
                   /\ \E k \in 1 .. Len(at[p]) : at[p][k] = Space
  <2> TAKE p \in A
  <2>1. p \in 1 .. Len(s) /\ s[p] \in Letters /\ PhraseAt(s, WordEnd(s, p))
    BY <1>1, StartsOK
  <2> QED
    BY <1>2, <2>1, PhraseOK
<1>4. \A w : {p \in A : at[p] = w} = {p \in Pairs(s) : Phrase(s, p) = w}
  BY <1>1, <1>3
<1>5. {at[p] : p \in A} = {Phrase(s, p) : p \in Pairs(s)}
  BY <1>1, <1>3
<1>6. PhraseCounts(s) = {[word |-> w, count |-> Cardinality({p \in A : at[p] = w})] : w \in {at[p] : p \in A}}
  <2>1. PhraseCounts(s) = {[word |-> w, count |-> Cardinality({p \in Pairs(s) : Phrase(s, p) = w})] :
                              w \in {at[p] : p \in A}}
    BY <1>5 DEF PhraseCounts
  <2>2. PICK num : num = [w \in {at[p] : p \in A} |-> Cardinality({p \in A : at[p] = w})]
    OBVIOUS
  <2>3. \A w \in {at[p] : p \in A} : Cardinality({p \in Pairs(s) : Phrase(s, p) = w}) = num[w]
    BY <1>4, <2>2
  <2>4. PhraseCounts(s) = {[word |-> w, count |-> num[w]] : w \in {at[p] : p \in A}}
    BY <2>1, <2>3
  <2> QED
    BY <2>2, <2>4
<1>7. IsFiniteSet(A) /\ Bytes \subseteq Nat
  BY <1>1, StartsOK, LettersAre DEF Bytes
<1>8. Listing(PhraseCounts(s), Bytes) /\ \A c \in PhraseCounts(s) : \E p \in A : c.word = at[p]
  <2>1. PICK S : S = PhraseCounts(s)
    OBVIOUS
  <2>2. Tallies(S, A, at)
    BY <1>6, <2>1 DEF Tallies
  <2>3. \A p \in A : at[p] \in Seq(Bytes)
    BY <1>3
  <2>4. Listing(S, Bytes) /\ \A c \in S : \E p \in A : c.word = at[p]
    <3>1. PICK B : B = Bytes
      OBVIOUS
    <3>2. B \subseteq Nat /\ IsFiniteSet(A) /\ \A p \in A : at[p] \in Seq(B)
      BY <1>7, <2>3, <3>1
    <3>3. Listing(S, B)
      BY <2>2, <3>2, Tallied
    <3>4. Placed(S, A, at)
      BY <2>2, <3>2, Tallied
    <3> QED
      BY <3>1, <3>3, <3>4 DEF Placed
  <2> QED
    BY <2>1, <2>4
<1> QED
  BY <1>3, <1>8

\* Some of the candidates are candidates.
LEMMA ListingPart ==
  ASSUME NEW S, NEW B, Listing(S, B), NEW T, T \subseteq S
  PROVE  Listing(T, B)
<1>1. IsFiniteSet(T)
  BY FS_Subset DEF Listing, Counted
<1> QED
  BY <1>1 DEF Listing, Counted

\* Words and phrases together are: a phrase has a space and a word has none.
LEMMA BothListed ==
  ASSUME NEW s \in Seq(Bytes)
  PROVE  Listing(WordCounts(s) \cup PhraseCounts(s), Bytes)
<1>1. PICK S : S = WordCounts(s)
  OBVIOUS
<1>2. PICK T : T = PhraseCounts(s)
  OBVIOUS
<1>3. Listing(S, Letters)
  BY <1>1, WordCountsOK
<1>4. Listing(T, Bytes) /\ \A c \in T : \E k \in 1 .. Len(c.word) : c.word[k] = Space
  BY <1>2, PhraseCountsOK
<1>5. IsFiniteSet(S \cup T)
  BY <1>3, <1>4, FS_Union DEF Listing, Counted
<1>6. \A w \in Seq(Letters) : w \in Seq(Bytes)
  BY LettersAre, SeqMonotonic
<1>7. \A c \in S : c.word \in Seq(Bytes)
  BY <1>3, <1>6 DEF Listing
<1>8. \A a \in S : \A b \in T : a.word # b.word
  <2> TAKE a \in S
  <2> TAKE b \in T
  <2>1. PICK w \in Seq(Letters) : w = a.word
    BY <1>3 DEF Listing
  <2>2. \A k \in 1 .. Len(w) : w[k] # Space
    BY LettersAre
  <2> QED
    BY <1>4, <2>1, <2>2
<1> QED
  BY <1>1, <1>2, <1>3, <1>4, <1>5, <1>7, <1>8 DEF Listing, Counted

-----------------------------------------------------------------------------
(* The vocabulary a form takes fits its ids.                               *)

\* The first n of a sequence.
LEMMA TakeOK ==
  ASSUME NEW V, NEW s \in Seq(V), NEW n \in Nat
  PROVE  /\ Take(s, n) \in Seq(V) /\ Len(Take(s, n)) <= n /\ Len(Take(s, n)) <= Len(s)
         /\ \A k \in 1 .. Len(Take(s, n)) : Take(s, n)[k] = s[k]
         /\ n <= Len(s) => Len(Take(s, n)) = n
         /\ Take(s, n) = SubSeq(s, 1, Len(Take(s, n)))
<1>1. PICK m \in Nat : m = Len(s)
  OBVIOUS
<1>2. PICK q \in Nat : q = (IF n < m THEN n ELSE m)
  OBVIOUS
<1>3. q <= n /\ q <= m /\ (n <= m => q = n)
  BY <1>2
<1>4. \A k \in 1 .. q : s[k] \in V
  BY <1>1, <1>3
<1>5. 1 \in 1 .. Len(s) + 1 /\ q \in 1 - 1 .. Len(s) /\ q - 1 + 1 = q /\ \A k \in 1 .. q : 1 + k - 1 = k
  BY <1>1, <1>3
<1>6. /\ SubSeq(s, 1, q) \in Seq(V) /\ Len(SubSeq(s, 1, q)) = q - 1 + 1
      /\ \A k \in 1 .. q - 1 + 1 : SubSeq(s, 1, q)[k] = s[1 + k - 1]
  BY <1>4, <1>5, Part
<1>7. Take(s, n) = SubSeq(s, 1, q)
  BY <1>1, <1>2 DEF Take
<1>8. Take(s, n) \in Seq(V) /\ Len(Take(s, n)) = q /\ \A k \in 1 .. q : Take(s, n)[k] = s[k]
  BY <1>5, <1>6, <1>7
<1> QED
  BY <1>1, <1>3, <1>7, <1>8

\* Reversing keeps the elements and their number.
LEMMA ReverseOK ==
  ASSUME NEW V, NEW s \in Seq(V)
  PROVE  Reverse(s) \in Seq(V) /\ Len(Reverse(s)) = Len(s)
<1>1. PICK n \in Nat : n = Len(s)
  OBVIOUS
<1>2. PICK q : q = Reverse(s)
  OBVIOUS
<1>3. q \in [1 .. n -> V]
  <2>1. \A k \in 1 .. n : s[n - k + 1] \in V
    <3> TAKE k \in 1 .. n
    <3>1. n - k + 1 \in 1 .. n
      OBVIOUS
    <3> QED
      BY <1>1, <3>1
  <2> QED
    BY <1>1, <1>2, <2>1 DEF Reverse
<1> QED
  BY <1>1, <1>2, <1>3, Listed

\* A vocabulary is a sequence of words that has an id for each.
LEMMA VocabularyOK ==
  ASSUME NEW B, NEW S, Listing(S, B)
  PROVE  Vocabulary(S) \in Seq(Seq(B)) /\ Len(Vocabulary(S)) <= MAX_TOKENS
<1>1. PICK T : T = {c \in Candidates(S) : Gain(c, 2) > 0}
  OBVIOUS
<1>2. T \subseteq S
  BY <1>1 DEF Candidates
<1>3. Listing(T, B)
  BY <1>2, ListingPart
<1>4. Ranked(T) \in Seq(T)
  BY <1>3, RankedListed DEF Listing
<1>5. MAX_TOKENS \in Nat
  BY NAssumption DEF MAX_TOKENS
<1>6. PICK kept \in Seq(T) : kept = Take(Ranked(T), MAX_TOKENS) /\ Len(kept) <= MAX_TOKENS
  BY <1>4, <1>5, TakeOK
<1>7. PICK n \in Nat : n = Len(kept) /\ DOMAIN kept = 1 .. n
  OBVIOUS
<1>8. PICK V : V = Seq(B)
  OBVIOUS
<1>9. \A k \in 1 .. n : kept[k].word \in V
  <2> TAKE k \in 1 .. n
  <2>1. kept[k] \in T
    BY <1>7
  <2> QED
    BY <1>3, <1>8, <2>1 DEF Listing
<1>10. PICK q : q = [k \in DOMAIN kept |-> kept[k].word]
  OBVIOUS
<1>11. q \in [1 .. n -> V]
  BY <1>7, <1>9, <1>10
<1>12. q \in Seq(V) /\ Len(q) = n
  BY <1>11, Listed
<1>13. Vocabulary(S) = q
  BY <1>1, <1>6, <1>10 DEF Vocabulary
<1> QED
  BY <1>6, <1>7, <1>8, <1>12, <1>13

\* The words kept of the first k candidates.
Keeping(ranked) ==
  CHOOSE h : h = [k \in 0 .. Len(ranked) |->
                    IF k = 0 THEN <<>> ELSE With(h[k - 1], LAMBDA now : Keep(now, ranked[k]))]

\* The extended vocabulary keeps words of the ranked candidates.
LEMMA ExtendedIs ==
  ASSUME NEW s
  PROVE  BuildWordVocab2(s) =
           Take(Keeping(Ranked(Candidates(WordCounts(s))))[Len(Ranked(Candidates(WordCounts(s))))], N * N - 2)
  BY DEF BuildWordVocab2, Keeping

\* The words that are kept are words of the candidates.
LEMMA KeepingOK ==
  ASSUME NEW B, NEW S, Listing(S, B), NEW ranked \in Seq(S)
  PROVE  Keeping(ranked)[Len(ranked)] \in Seq(Seq(B))
<1>1. PICK m \in Nat : m = Len(ranked)
  OBVIOUS
<1>2. PICK W : W = Seq(B)
  OBVIOUS
<1>3. PICK V : V = Seq(W)
  OBVIOUS
<1>4. <<>> \in V
  BY <1>3
<1>5. PICK st : st = [q \in (1 .. m) \X V |-> Keep(q[2], ranked[q[1]])]
  OBVIOUS
<1>6. ASSUME NEW k \in 1 .. m, NEW s \in V
      PROVE  st[<<k, s>>] = Keep(s, ranked[k]) /\ st[<<k, s>>] \in V
  <2>1. st[<<k, s>>] = Keep(s, ranked[k])
    BY <1>5
  <2>2. ranked[k] \in S
    BY <1>1
  <2>3. ranked[k].word \in W
    BY <1>2, <2>2 DEF Listing
  <2>4. s \in Seq(W)
    BY <1>3
  <2>5. Append(s, ranked[k].word) \in Seq(W)
    BY <2>3, <2>4, AppendProperties
  <2>6. Keep(s, ranked[k]) = Append(s, ranked[k].word) \/ Keep(s, ranked[k]) = s
    BY DEF Keep
  <2> QED
    BY <1>3, <2>1, <2>5, <2>6
<1>7. st \in [(1 .. m) \X V -> V]
  <2>1. \A q \in (1 .. m) \X V : st[q] \in V
    <3> TAKE q \in (1 .. m) \X V
    <3>1. PICK k \in 1 .. m, s \in V : q = <<k, s>>
      OBVIOUS
    <3> QED
      BY <1>6, <3>1
  <2> QED
    BY <1>5, <2>1
<1>8. PICK g \in [0 .. m -> V] : Recurs(g, m, <<>>, st)
  BY <1>4, <1>7, Recursion
<1>9. \A k \in 0 .. m : g[k] = IF k = 0 THEN <<>> ELSE Keep(g[k - 1], ranked[k])
  <2> TAKE k \in 0 .. m
  <2>1. g[k] = IF k = 0 THEN <<>> ELSE st[<<k, g[k - 1]>>]
    BY <1>8 DEF Recurs
  <2>2. k # 0 => st[<<k, g[k - 1]>>] = Keep(g[k - 1], ranked[k])
    <3>1. k # 0 => k \in 1 .. m /\ k - 1 \in 0 .. m
      OBVIOUS
    <3> QED
      BY <1>6, <3>1
  <2> QED
    BY <2>1, <2>2
<1> DEFINE Good(h) == h = [k \in 0 .. Len(ranked) |->
                     IF k = 0 THEN <<>> ELSE With(h[k - 1], LAMBDA now : Keep(now, ranked[k]))]
<1>10. \A h : Good(h) <=> h = [k \in 0 .. m |-> IF k = 0 THEN <<>> ELSE Keep(h[k - 1], ranked[k])]
  <2> TAKE h
  <2>1. \A k : With(h[k - 1], LAMBDA now : Keep(now, ranked[k])) = Keep(h[k - 1], ranked[k])
    BY DEF With
  <2> QED
    BY <1>1, <2>1
<1>11. Good(g)
  <2>1. g = [k \in 0 .. m |-> IF k = 0 THEN <<>> ELSE Keep(g[k - 1], ranked[k])]
    BY <1>9
  <2> HIDE DEF Good
  <2> QED
    BY <1>10, <2>1
<1>12. PICK h : h = Keeping(ranked)
  OBVIOUS
<1>13. Good(h)
  <2>1. h = CHOOSE f : Good(f)
    BY <1>12 DEF Keeping
  <2> HIDE DEF Good
  <2> QED
    BY <1>11, <2>1
<1>14. h = [k \in 0 .. m |-> IF k = 0 THEN <<>> ELSE Keep(h[k - 1], ranked[k])]
  <2> HIDE DEF Good
  <2> QED
    BY <1>10, <1>13
<1> HIDE DEF Good
<1>15. h[0] = <<>>
  BY <1>14
<1>16. \A k \in 1 .. m : h[k] = Keep(h[k - 1], ranked[k])
  BY <1>14
<1>17. \A k \in 0 .. m : h[k] \in V
  <2> DEFINE K == {k \in Nat : h[k] \in V}
  <2>1. 0 \in K
    BY <1>4, <1>15
  <2>2. ASSUME NEW k \in Nat, k < m, k \in K PROVE k + 1 \in K
    <3>1. k + 1 \in 1 .. m /\ (k + 1) - 1 = k
      BY <2>2
    <3>2. h[k + 1] = Keep(h[k], ranked[k + 1])
      BY <1>16, <3>1
    <3>3. h[k] \in V
      BY <2>2
    <3>4. h[k + 1] \in V
      BY <1>6, <3>1, <3>2, <3>3
    <3>5. k + 1 \in Nat
      OBVIOUS
    <3> QED
      BY <3>4, <3>5
  <2> HIDE DEF K
  <2>3. \A k \in 0 .. m : k \in K
    BY <2>1, <2>2, UpTo
  <2> QED
    BY <2>3 DEF K
<1>18. m \in 0 .. m
  OBVIOUS
<1> QED
  BY <1>1, <1>2, <1>3, <1>12, <1>17, <1>18

\* The vocabularies built from a text, and their sizes.
LEMMA BuiltOK ==
  ASSUME NEW s \in Seq(Bytes)
  PROVE  /\ BuildWordVocab(s) \in Seq(Seq(Bytes)) /\ Len(BuildWordVocab(s)) <= MAX_TOKENS
         /\ BuildPhraseVocab(s) \in Seq(Seq(Bytes)) /\ Len(BuildPhraseVocab(s)) <= MAX_TOKENS
         /\ BuildWordVocab2(s) \in Seq(Seq(Bytes)) /\ Len(BuildWordVocab2(s)) <= N * N - 2
<1>1. Listing(WordCounts(s), Bytes)
  <2>1. Listing(WordCounts(s), Letters)
    BY WordCountsOK
  <2>2. \A w \in Seq(Letters) : w \in Seq(Bytes)
    BY LettersAre, SeqMonotonic
  <2> QED
    BY <2>1, <2>2 DEF Listing
<1>2. BuildWordVocab(s) \in Seq(Seq(Bytes)) /\ Len(BuildWordVocab(s)) <= MAX_TOKENS
  BY <1>1, VocabularyOK DEF BuildWordVocab
<1>3. BuildPhraseVocab(s) \in Seq(Seq(Bytes)) /\ Len(BuildPhraseVocab(s)) <= MAX_TOKENS
  BY BothListed, VocabularyOK DEF BuildPhraseVocab
<1>4. BuildWordVocab2(s) \in Seq(Seq(Bytes)) /\ Len(BuildWordVocab2(s)) <= N * N - 2
  <2>1. PICK S : S = Candidates(WordCounts(s))
    OBVIOUS
  <2>2. S \subseteq WordCounts(s)
    BY <2>1 DEF Candidates
  <2>3. Listing(S, Bytes)
    BY <1>1, <2>2, ListingPart
  <2>4. Ranked(S) \in Seq(S)
    BY <2>3, RankedListed DEF Listing
  <2>5. PICK V : V = Seq(Bytes)
    OBVIOUS
  <2>6. PICK k \in Seq(V) : k = Keeping(Ranked(S))[Len(Ranked(S))]
    BY <2>3, <2>4, <2>5, KeepingOK
  <2>7. N * N - 2 \in Nat
    <3>1. N \in Nat /\ N >= 4
      BY NAssumption
    <3>2. N * N >= 4 * N
      BY <3>1
    <3> QED
      BY <3>1, <3>2
  <2>8. Take(k, N * N - 2) \in Seq(V) /\ Len(Take(k, N * N - 2)) <= N * N - 2
    BY <2>7, TakeOK
  <2>9. BuildWordVocab2(s) = Take(k, N * N - 2)
    BY <2>1, <2>6, ExtendedIs
  <2> QED
    BY <2>5, <2>8, <2>9
<1> QED
  BY <1>2, <1>3, <1>4

\* Every vocabulary the encoder starts with: words of bytes, and no more of
\* them than the form has ids.
LEMMA VocabOK ==
  ASSUME text \in Texts, form \in Forms, vocab \in VocabChoices
  PROVE  vocab \in Seq(Seq(Bytes)) /\ Len(vocab) <= Capacity(form)
<1>1. text \in Seq(Bytes)
  BY TextsAssumption DEF Bytes
<1>2. PICK V : V = Seq(Bytes)
  OBVIOUS
<1>3. PICK a \in Seq(V), b \in Seq(V), c \in Seq(V) :
        /\ a = BuildWordVocab(text) /\ b = BuildPhraseVocab(text) /\ c = BuildWordVocab2(text)
        /\ Len(a) <= MAX_TOKENS /\ Len(b) <= MAX_TOKENS /\ Len(c) <= N * N - 2
  BY <1>1, <1>2, BuiltOK
<1>4. PICK ar \in Seq(V), br \in Seq(V) :
        /\ ar = Reverse(a) /\ br = Reverse(b)
        /\ Len(ar) <= MAX_TOKENS /\ Len(br) <= MAX_TOKENS
  BY <1>3, ReverseOK
<1>5. \A v \in Vocabs : v \in Seq(V) /\ Len(v) <= MAX_TOKENS
  BY <1>2, VocabsAssumption DEF Bytes
<1>6. RESERVED_MAX \in Nat
  BY NAssumption DEF RESERVED_MAX
<1>7. \A v \in Seq(V) : Take(v, RESERVED_MAX) \in Seq(V) /\ Len(Take(v, RESERVED_MAX)) <= RESERVED_MAX
  BY <1>6, TakeOK
<1>8. PICK A : A = {a, ar} \cup Vocabs
  OBVIOUS
<1>9. \A v \in A : v \in Seq(V) /\ Len(v) <= MAX_TOKENS
  BY <1>3, <1>4, <1>5, <1>8
<1>10. CASE form = "list"
  <2>1. VocabChoices = A
    BY <1>3, <1>4, <1>8, <1>10 DEF VocabChoices
  <2> QED
    BY <1>2, <1>9, <1>10, <2>1 DEF Capacity
<1>11. CASE form \in {"firstuse", "subword"}
  <2>1. VocabChoices = {Take(v, RESERVED_MAX) : v \in A}
    BY <1>3, <1>4, <1>8, <1>11 DEF VocabChoices
  <2> QED
    BY <1>2, <1>7, <1>9, <1>11, <2>1 DEF Capacity
<1>12. CASE form = "front"
  <2>1. VocabChoices = {a, ar}
    BY <1>3, <1>4, <1>12 DEF VocabChoices
  <2> QED
    BY <1>2, <1>8, <1>9, <1>12, <2>1 DEF Capacity
<1>13. CASE form = "affix"
  <2>1. VocabChoices = {Take(v, RESERVED_MAX) : v \in {a, ar}}
    BY <1>3, <1>4, <1>13 DEF VocabChoices
  <2> QED
    BY <1>2, <1>3, <1>4, <1>7, <1>13, <2>1 DEF Capacity
<1>14. CASE form = "extended"
  <2>1. VocabChoices = {c}
    BY <1>3, <1>14 DEF VocabChoices
  <2> QED
    BY <1>2, <1>3, <1>14, <2>1 DEF Capacity
<1>15. CASE form = "phrase"
  <2>1. VocabChoices = {b, br}
    BY <1>3, <1>4, <1>15 DEF VocabChoices
  <2> QED
    BY <1>2, <1>3, <1>4, <1>15, <2>1 DEF Capacity
<1> QED
  BY <1>10, <1>11, <1>12, <1>13, <1>14, <1>15, FormsAssumption

-----------------------------------------------------------------------------
(* The tables: both sides have lists of their vocabulary's size, and the   *)
(* decoder's is there before the first id is read.                         *)

\* Sequences, of whatever kind.
IsSequence(s) == \E S : s \in Seq(S)

\* The invariant of the tables.
ListsOK ==
  /\ IsSequence(vocab) /\ IsSequence(dict)
  /\ IsList(list, Len(vocab))
  /\ \E n \in Nat : IsList(dlist, n)
  /\ stage = "body" => IsList(dlist, Len(dict))

\* A sequence has a length and that domain.
LEMMA SequenceFacts ==
  ASSUME NEW s, IsSequence(s)
  PROVE  Len(s) \in Nat /\ DOMAIN s = 1 .. Len(s)
  BY DEF IsSequence

\* Append leaves a sequence.
LEMMA AppendSequence ==
  ASSUME NEW s, IsSequence(s), NEW e
  PROVE  IsSequence(Append(s, e))
PROOF
  <1>1. PICK S : s \in Seq(S)
    BY DEF IsSequence
  <1>2. s \in Seq(S \cup {e})
    BY <1>1
  <1>3. Append(s, e) \in Seq(S \cup {e})
    BY <1>2
  <1> QED
    BY <1>3 DEF IsSequence

\* Filling a slot leaves a sequence of the same size.
LEMMA ExceptSequence ==
  ASSUME NEW s, IsSequence(s), NEW k, NEW e
  PROVE  IsSequence([s EXCEPT ![k] = e]) /\ Len([s EXCEPT ![k] = e]) = Len(s)
PROOF
  <1>1. PICK S : s \in Seq(S)
    BY DEF IsSequence
  <1>2. s \in [1 .. Len(s) -> S] /\ Len(s) \in Nat
    BY <1>1
  <1>3. [s EXCEPT ![k] = e] \in [1 .. Len(s) -> S \cup {e}]
    BY <1>2
  <1>4. [s EXCEPT ![k] = e] \in Seq(S \cup {e})
    BY <1>2, <1>3
  <1> QED
    BY <1>2, <1>3, <1>4 DEF IsSequence

\* The vocabularies are sequences.
LEMMA VocabsAreSequences ==
  ASSUME text \in Texts, form \in Forms, vocab \in VocabChoices
  PROVE  IsSequence(vocab)
  BY VocabOK DEF IsSequence

\* The tables at the start.
LEMMA InitLists == Init => ListsOK
PROOF
  <1>1. IsSequence(<<>>) /\ Len(<<>>) = 0
    <2>1. <<>> \in Seq({})
      OBVIOUS
    <2> QED
      BY <2>1 DEF IsSequence
  <1>2. IsList(NewList(0), 0)
    BY NewListOK
  <1>3. EncodeInit => IsSequence(vocab)
    BY VocabsAreSequences DEF EncodeInit
  <1>4. EncodeInit => ListsOK
    <2>1. SUFFICES ASSUME EncodeInit PROVE ListsOK
      OBVIOUS
    <2>2. list = NewList(Len(vocab)) /\ dict = <<>> /\ dlist = NewList(0) /\ stage = "encode"
      BY <2>1 DEF EncodeInit, Start
    <2> QED
      BY <1>1, <1>2, <1>3, <2>1, <2>2, SequenceFacts, NewListOK DEF ListsOK
  <1>5. StreamInit => ListsOK
    BY <1>1, <1>2 DEF StreamInit, Start, ListsOK
  <1> QED
    BY <1>4, <1>5 DEF Init

(* The encoder promotes an entry of the vocabulary.                        *)
LEMMA EncodeWordKeeps == ListsOK /\ EncodeWord => ListsOK'
PROOF
  <1>1. SUFFICES ASSUME ListsOK, EncodeWord PROVE ListsOK'
    OBVIOUS
  <1>2. UNCHANGED <<stage, vocab, dict, dlist>>
    BY <1>1 DEF EncodeWord, Emit, job
  <1>3. PICK w : list' = IF Known(w) THEN Touch(list, Index(w), mode) ELSE list
    BY <1>1 DEF EncodeWord
  <1>4. Len(vocab) \in Nat /\ DOMAIN vocab = 1 .. Len(vocab)
    BY <1>1, SequenceFacts DEF ListsOK
  <1>5. Known(w) => Index(w) \in 1 .. Len(vocab)
    BY <1>4 DEF Known, Index, Range
  <1>6. IsList(list', Len(vocab))
    BY <1>1, <1>3, <1>4, <1>5, TouchKeeps DEF ListsOK
  <1> QED
    BY <1>1, <1>2, <1>6 DEF ListsOK

(* The decoder makes its list when it knows its dictionary's size.         *)
LEMMA HeaderKeeps == ListsOK /\ (ReadCount \/ ReadEntry \/ EndHeader) => ListsOK'
PROOF
  <1>1. SUFFICES ASSUME ListsOK, ReadCount \/ ReadEntry \/ EndHeader PROVE ListsOK'
    OBVIOUS
  <1>2. UNCHANGED <<vocab, list>>
    BY <1>1 DEF ReadCount, ReadEntry, EndHeader, DecodeTo, job, enc
  <1>3. ReadCount => ListsOK'
    <2>1. SUFFICES ASSUME ReadCount PROVE ListsOK'
      OBVIOUS
    <2>2. dlist' = dlist /\ stage' # "body"
      BY <2>1 DEF ReadCount, DecodeTo
    <2>3. RESERVED_MAX \in Nat
      BY NAssumption DEF RESERVED_MAX
    <2>4. [k \in 1 .. RESERVED_MAX |-> <<>>] \in Seq({<<>>}) /\ <<>> \in Seq({<<>>})
      BY <2>3
    <2>5. dict' \in Seq({<<>>})
      BY <2>1, <2>4 DEF ReadCount
    <2>6. IsSequence(dict')
      BY <2>5 DEF IsSequence
    <2> QED
      BY <1>1, <1>2, <2>2, <2>6 DEF ListsOK
  <1>4. ReadEntry => ListsOK'
    <2>1. SUFFICES ASSUME ReadEntry PROVE ListsOK'
      OBVIOUS
    <2>2. dlist' = dlist /\ stage' = "header"
      BY <2>1 DEF ReadEntry, DecodeTo
    <2>3. dict' = dict \/ \E e : dict' = Append(dict, e)
      BY <2>1 DEF ReadEntry
    <2>4. IsSequence(dict')
      BY <1>1, <2>3, AppendSequence DEF ListsOK
    <2> QED
      BY <1>1, <1>2, <2>2, <2>4 DEF ListsOK
  <1>5. EndHeader => ListsOK'
    <2>1. SUFFICES ASSUME EndHeader PROVE ListsOK'
      OBVIOUS
    <2>2. dlist' = NewList(Len(dict)) /\ dict' = dict
      BY <2>1 DEF EndHeader
    <2>3. IsList(dlist', Len(dict)) /\ Len(dict) \in Nat
      BY <1>1, <2>2, SequenceFacts, NewListOK DEF ListsOK
    <2> QED
      BY <1>1, <1>2, <2>2, <2>3 DEF ListsOK
  <1> QED
    BY <1>1, <1>3, <1>4, <1>5

(* An id in the stream names a place of the decoder's list.                *)
LEMMA DecodeIdKeeps == ListsOK /\ DecodeId => ListsOK'
PROOF
  <1>1. SUFFICES ASSUME ListsOK, DecodeId PROVE ListsOK'
    OBVIOUS
  <1>2. UNCHANGED <<vocab, list, dict>> /\ stage = "body"
    BY <1>1 DEF DecodeId, DecodeTo, job, enc
  <1>3. Len(dict) \in Nat /\ DOMAIN dict = 1 .. Len(dict) /\ IsList(dlist, Len(dict))
    BY <1>1, <1>2, SequenceFacts DEF ListsOK
  <1>4. out[j + 1] \in DOMAIN dict => dlist.order[out[j + 1]] \in 1 .. Len(dict)
    BY <1>3 DEF IsList
  <1>5. \/ dlist' = dlist
        \/ /\ out[j + 1] \in DOMAIN dict
           /\ dlist' = Touch(dlist, dlist.order[out[j + 1]], mode)
    BY <1>1 DEF DecodeId
  <1>6. IsList(dlist', Len(dict))
    BY <1>3, <1>4, <1>5, TouchKeeps
  <1> QED
    BY <1>1, <1>2, <1>3, <1>6 DEF ListsOK

(* A definition fills a slot of the dictionary, whose size stays.          *)
LEMMA DefinitionKeeps == ListsOK /\ DecodeDefinition => ListsOK'
PROOF
  <1>1. SUFFICES ASSUME ListsOK, DecodeDefinition PROVE ListsOK'
    OBVIOUS
  <1>2. UNCHANGED <<vocab, list, dlist>> /\ stage = "body"
    BY <1>1 DEF DecodeDefinition, DecodeTo, MarkedCode, job, enc
  <1>3. PICK e : dict' = [dict EXCEPT ![out[j + 2]] = e]
    BY <1>1 DEF DecodeDefinition
  <1>4. IsSequence(dict') /\ Len(dict') = Len(dict)
    BY <1>1, <1>3, ExceptSequence DEF ListsOK
  <1> QED
    BY <1>1, <1>2, <1>4 DEF ListsOK

\* The other steps leave the tables alone.
LEMMA OthersKeep ==
  ListsOK /\ (\/ EncodeByte \/ EncodeEnd \/ DecodeByte \/ DecodeNul \/ DecodeUnit
              \/ DecodeExtended \/ DecodeAffix \/ DecodeEnd \/ UNCHANGED vars)
    => ListsOK'
PROOF
  <1>1. SUFFICES ASSUME ListsOK,
                        \/ EncodeByte \/ EncodeEnd \/ DecodeByte \/ DecodeNul \/ DecodeUnit
                        \/ DecodeExtended \/ DecodeAffix \/ DecodeEnd \/ UNCHANGED vars
                 PROVE  ListsOK'
    OBVIOUS
  <1>2. UNCHANGED <<vocab, list, dict, dlist>>
    BY <1>1 DEF EncodeByte, EncodeEnd, Emit, DecodeByte, DecodeNul, DecodeUnit,
                DecodeExtended, DecodeAffix, DecodeEnd, DecodeTo, vars, job, enc
  <1>3. stage' = "body" => stage = "body"
    BY <1>1 DEF EncodeByte, EncodeEnd, Emit, DecodeByte, DecodeNul, DecodeUnit, MarkedCode,
                DecodeExtended, DecodeAffix, DecodeEnd, DecodeTo, vars
  <1> QED
    BY <1>1, <1>2, <1>3 DEF ListsOK

\* Every step keeps the invariant of the tables.
LEMMA StepLists == ListsOK /\ [Next]_vars => ListsOK'
  BY EncodeWordKeeps, HeaderKeeps, DecodeIdKeeps, DefinitionKeeps, OthersKeep DEF Next

\* Each side of every codec can trust its two tables: the position an entry
\* is written with is the place the list has it at, after any promotions in
\* any mode, so the two id tables of src/transform/mod.rs never come apart.
THEOREM IdsStayInverse == Spec => []ListsInverse
PROOF
  <1>1. ListsOK => ListsInverse
    BY DEF ListsOK, IsList, ListsInverse
  <1> QED
    BY InitLists, StepLists, <1>1, PTL DEF Spec

-----------------------------------------------------------------------------
(* What an encoder has written, seen from the decoder: what later codes    *)
(* add leaves the links of a trace as they are.                            *)

\* p and q agree on the first n.
Agree(p, q, n) == \A x \in 1 .. n : p[x] = q[x]

\* A link stays one when the stream grows.
LEMMA LinkGrows ==
  ASSUME NEW c, NEW o, NEW q, NEW m, NEW m2, m.at \in Nat, m2.at \in Nat, Agree(o, q, m2.at),
         c.vocab \in Seq(Seq(Bytes)), Link(c, o, m, m2)
  PROVE  Link(c, q, m, m2)
<1>1. PICK a \in Nat : a = m.at
  OBVIOUS
<1>2. ASSUME NEW n \in Nat, NEW w, Reads(c, m, m2, n, w) PROVE \A x \in 1 .. n : o[a + x] = q[a + x]
  <2>1. m2.at = a + n
    BY <1>1, <1>2 DEF Reads
  <2> TAKE x \in 1 .. n
  <2>2. a + x \in 1 .. m2.at
    BY <2>1
  <2> QED
    BY <2>2 DEF Agree
<1>3. CASE LinkByte(c, o, m, m2)
  <2>1. o[a + 1] = q[a + 1]
    BY <1>2, <1>3 DEF LinkByte
  <2> QED
    BY <1>1, <1>3, <2>1 DEF Link, LinkByte, Escaped
<1>4. CASE LinkNul(c, o, m, m2)
  <2>1. o[a + 1] = q[a + 1] /\ o[a + 2] = q[a + 2]
    BY <1>2, <1>4 DEF LinkNul
  <2> QED
    BY <1>1, <1>4, <2>1 DEF Link, LinkNul, Escaped
<1>5. CASE LinkId(c, o, m, m2)
  <2>1. PICK p \in 1 .. Len(c.vocab), v \in 1 .. Len(c.vocab) : LinkIdAs(c, o, m, m2, p, v)
    BY <1>5 DEF LinkId
  <2>2. Reads(c, m, m2, 2, c.vocab[v])
    BY <2>1 DEF LinkIdAs
  <2>3. o[a + 1] = q[a + 1] /\ o[a + 2] = q[a + 2]
    BY <1>2, <2>2
  <2>4. LinkIdAs(c, q, m, m2, p, v)
    BY <1>1, <2>1, <2>3 DEF LinkIdAs, Escaped
  <2> QED
    BY <2>4 DEF Link, LinkId
<1>6. CASE LinkDef(c, o, m, m2)
  <2>1. PICK id \in 1 .. Len(c.vocab) : LinkDefAs(c, o, m, m2, id)
    BY <1>6 DEF LinkDef
  <2>2. PICK n \in Nat : n = Len(c.vocab[id])
    <3>1. c.vocab[id] \in Seq(Bytes)
      BY ElementOfSeq
    <3> QED
      BY <3>1, LenProperties
  <2>3. Reads(c, m, m2, 4 + n, c.vocab[id])
    BY <2>1, <2>2 DEF LinkDefAs
  <2>4. \A x \in 1 .. 4 + n : o[a + x] = q[a + x]
    <3>1. PICK z \in Nat : z = 4 + n
      OBVIOUS
    <3>2. Reads(c, m, m2, z, c.vocab[id])
      BY <2>3, <3>1
    <3>3. \A x \in 1 .. z : o[a + x] = q[a + x]
      BY <1>2, <3>2
    <3> QED
      BY <3>1, <3>3
  <2>5. o[a + 1] = q[a + 1] /\ o[a + 2] = q[a + 2] /\ o[a + 3] = q[a + 3] /\ o[a + 4] = q[a + 4]
    BY <2>4
  <2>6. \A x \in 1 .. n : o[a + 4 + x] = q[a + 4 + x]
    <3> TAKE x \in 1 .. n
    <3>1. 4 + x \in 1 .. 4 + n /\ a + (4 + x) = a + 4 + x
      OBVIOUS
    <3> QED
      BY <2>4, <3>1
  <2>7. LinkDefAs(c, q, m, m2, id)
    BY <1>1, <2>1, <2>2, <2>5, <2>6 DEF LinkDefAs, Escaped, MarkedAt
  <2> QED
    BY <2>7 DEF Link, LinkDef
<1>7. CASE LinkUnit(c, o, m, m2)
  <2>1. o[a + 1] = q[a + 1] /\ o[a + 2] = q[a + 2] /\ o[a + 3] = q[a + 3]
    BY <1>2, <1>7 DEF LinkUnit
  <2> QED
    BY <1>1, <1>7, <2>1 DEF Link, LinkUnit, Escaped, MarkedAt
<1>8. CASE LinkExt(c, o, m, m2)
  <2>1. PICK id \in 1 .. Len(c.vocab) : LinkExtAs(c, o, m, m2, id)
    BY <1>8 DEF LinkExt
  <2>2. Reads(c, m, m2, 4, c.vocab[id])
    BY <2>1 DEF LinkExtAs
  <2>3. o[a + 1] = q[a + 1] /\ o[a + 2] = q[a + 2] /\ o[a + 3] = q[a + 3] /\ o[a + 4] = q[a + 4]
    BY <1>2, <2>2
  <2>4. LinkExtAs(c, q, m, m2, id)
    BY <1>1, <2>1, <2>3 DEF LinkExtAs, Escaped, MarkedAt
  <2> QED
    BY <2>4 DEF Link, LinkExt
<1>9. CASE LinkAffix(c, o, m, m2)
  <2>1. o[a + 1] = q[a + 1] /\ o[a + 2] = q[a + 2] /\ o[a + 3] = q[a + 3] /\ o[a + 4] = q[a + 4]
    <3>1. PICK w : Reads(c, m, m2, 4, w)
      BY <1>9 DEF LinkAffix
    <3>2. PICK z \in Nat : z = 4
      OBVIOUS
    <3>3. Reads(c, m, m2, z, w)
      BY <3>1, <3>2
    <3>4. \A x \in 1 .. z : o[a + x] = q[a + x]
      BY <1>2, <3>3
    <3> QED
      BY <3>2, <3>4
  <2> QED
    BY <1>1, <1>9, <2>1 DEF Link, LinkAffix, Escaped, MarkedAt
<1> QED
  BY <1>3, <1>4, <1>5, <1>6, <1>7, <1>8, <1>9 DEF Link

\* q is o with the code behind it.
Joined(q, o, code) ==
  /\ q = o \o code /\ q \in Seq(Bytes) /\ Len(q) = Len(o) + Len(code)
  /\ Agree(o, q, Len(o))
  /\ \A x \in 1 .. Len(code) : q[Len(o) + x] = code[x]

\* It is, for a concatenation.
LEMMA JoinedOK ==
  ASSUME NEW o \in Seq(Bytes), NEW code \in Seq(Bytes)
  PROVE  Joined(o \o code, o, code)
  BY Chained DEF Joined, Agree

\* A code more, and the mark at its end.
LEMMA TraceGrows ==
  ASSUME NEW c, NEW o, NEW M, Trace(c, o, M), c.vocab \in Seq(Seq(Bytes)),
         NEW code \in Seq(Bytes), code # <<>>,
         NEW e \in M, e.at = Len(o), NEW e2, e2.at = Len(o) + Len(code),
         MarkOK(c, e2, Len(o) + Len(code)), Link(c, o \o code, e, e2)
  PROVE  Trace(c, o \o code, M \cup {e2})
<1>1. o \in Seq(Bytes)
  BY DEF Trace
<1>2. PICK q : q = o \o code
  OBVIOUS
<1>3. Joined(q, o, code)
  BY <1>1, <1>2, JoinedOK
<1>4. PICK a \in Nat, n \in Nat \ {0} : a = Len(o) /\ n = Len(code)
  BY <1>1, EmptySeq
<1>5. q \in Seq(Bytes) /\ Len(q) = a + n /\ Agree(o, q, a)
  BY <1>3, <1>4 DEF Joined
<1>6. \A m \in M : MarkOK(c, m, a) /\ m.at \in 0 .. a
  BY <1>4 DEF Trace, MarkOK
<1>7. \A m \in M \cup {e2} : MarkOK(c, m, Len(q))
  <2>1. \A m \in M : MarkOK(c, m, a + n)
    <3>1. \A x \in 0 .. a : x \in 0 .. a + n
      OBVIOUS
    <3> QED
      BY <1>6, <3>1 DEF MarkOK
  <2> QED
    BY <1>4, <1>5, <2>1
<1>8. \A m, m2 \in M \cup {e2} : m.at = m2.at => m = m2
  <2>1. \A m \in M : m.at # e2.at
    BY <1>4, <1>6
  <2> QED
    BY <2>1 DEF Trace
<1>9. \A m \in M \cup {e2} : m.at < Len(q) => \E m2 \in M \cup {e2} : Link(c, q, m, m2)
  <2> TAKE m \in M \cup {e2}
  <2>1. CASE m = e2
    <3>1. ~(e2.at < Len(q))
      BY <1>4, <1>5
    <3> QED
      BY <2>1, <3>1
  <2>2. CASE m \in M /\ m.at = a
    <3>1. m = e
      BY <1>4, <2>2 DEF Trace
    <3> QED
      BY <1>2, <3>1
  <2>3. CASE m \in M /\ m.at # a
    <3>1. m.at < Len(o) /\ m.at \in Nat
      BY <1>4, <1>6, <2>3
    <3>2. PICK m2 \in M : Link(c, o, m, m2)
      BY <2>3, <3>1 DEF Trace
    <3>3. m2.at \in Nat /\ m2.at <= a
      BY <1>6
    <3>4. Agree(o, q, m2.at)
      BY <1>5, <3>3 DEF Agree
    <3>5. Link(c, q, m, m2)
      BY <3>1, <3>2, <3>3, <3>4, LinkGrows
    <3> QED
      BY <3>5
  <2> QED
    BY <2>1, <2>2, <2>3
<1> QED
  BY <1>2, <1>5, <1>7, <1>8, <1>9 DEF Trace

-----------------------------------------------------------------------------
(* What the encoder writes for a byte, a word of the vocabulary or a word  *)
(* outside it leads from mark to mark.                                     *)

\* The code leads to the mark at its end.
Reaches(c, o, M, code, r, l, d) ==
  /\ code \in Seq(Bytes)
  /\ \E M2 : /\ M \subseteq M2 /\ Trace(c, o \o code, M2)
             /\ Mark(Len(o) + Len(code), r, l, d) \in M2

\* The text goes on from p with w, up to q.
Follow(c, p, w, q) == Upto(c, q) = Upto(c, p) \o w

\* It goes on with its own part.
LEMMA FollowOK ==
  ASSUME NEW c, c.text \in Seq(Bytes), NEW p \in 0 .. Len(c.text), NEW q \in p .. Len(c.text)
  PROVE  Follow(c, p, SubSeq(c.text, p + 1, q), q)
<1>1. PICK t \in Seq(Bytes) : t = c.text
  OBVIOUS
<1>2. 1 \in 1 .. Len(t) + 1 /\ p \in 1 - 1 .. Len(t) /\ q \in p .. Len(t)
  BY <1>1
<1>3. SubSeq(t, 1, p) \o SubSeq(t, p + 1, q) = SubSeq(t, 1, q)
  BY <1>2, ConcatAdjacentSubSeq
<1> QED
  BY <1>1, <1>3 DEF Follow, Upto

\* A part of a text is a text.
LEMMA PartOfText ==
  ASSUME NEW s \in Seq(Bytes), NEW f \in 1 .. Len(s) + 1, NEW e \in f - 1 .. Len(s)
  PROVE  /\ SubSeq(s, f, e) \in Seq(Bytes) /\ Len(SubSeq(s, f, e)) = e - f + 1
         /\ \A k \in 1 .. e - f + 1 : SubSeq(s, f, e)[k] = s[f + k - 1]
<1>1. \A k \in f .. e : s[k] \in Bytes
  OBVIOUS
<1> QED
  BY <1>1, Part

\* Where the text goes on with p and then q, it goes on with p.
LEMMA FollowPart ==
  ASSUME NEW c, c.text \in Seq(Bytes), NEW r \in 0 .. Len(c.text),
         NEW p \in Seq(Bytes), NEW q \in Seq(Bytes), NEW z, z = p \o q,
         r + Len(z) <= Len(c.text), z = SubSeq(c.text, r + 1, r + Len(z))
  PROVE  Follow(c, r, p, r + Len(p)) /\ r + Len(p) \in 0 .. Len(c.text)
<1>1. PICK t \in Seq(Bytes) : t = c.text
  OBVIOUS
<1>2. PICK a \in Nat, b \in Nat, n \in Nat : a = Len(p) /\ b = Len(q) /\ n = Len(t)
  OBVIOUS
<1>3. z \in Seq(Bytes) /\ Len(z) = a + b /\ \A x \in 1 .. a : z[x] = p[x]
  BY <1>2, Chained
<1>4. r \in 0 .. n /\ r + (a + b) <= n
  BY <1>1, <1>2, <1>3
<1>5. r + 1 \in 1 .. Len(t) + 1 /\ r + a \in (r + 1) - 1 .. Len(t) /\ r + (a + b) \in (r + 1) - 1 .. Len(t)
  BY <1>2, <1>4
<1>6. PICK s \in Seq(Bytes) : s = SubSeq(t, r + 1, r + a) /\ Len(s) = (r + a) - (r + 1) + 1
                              /\ \A k \in 1 .. (r + a) - (r + 1) + 1 : s[k] = t[(r + 1) + k - 1]
  <2>1. PICK f \in 1 .. Len(t) + 1 : f = r + 1
    BY <1>5
  <2>2. PICK e \in f - 1 .. Len(t) : e = r + a
    BY <1>5, <2>1
  <2>3. \A k \in 1 .. e - f + 1 : SubSeq(t, f, e)[k] = t[f + k - 1]
    BY PartOfText
  <2>4. SubSeq(t, f, e) \in Seq(Bytes)
    BY PartOfText
  <2>5. Len(SubSeq(t, f, e)) = e - f + 1
    BY PartOfText
  <2> QED
    BY <2>1, <2>2, <2>3, <2>4, <2>5
<1>7. \A k \in 1 .. (r + (a + b)) - (r + 1) + 1 : SubSeq(t, r + 1, r + (a + b))[k] = t[(r + 1) + k - 1]
  <2>1. PICK f \in 1 .. Len(t) + 1 : f = r + 1
    BY <1>5
  <2>2. PICK e \in f - 1 .. Len(t) : e = r + (a + b)
    BY <1>5, <2>1
  <2>3. \A k \in 1 .. e - f + 1 : SubSeq(t, f, e)[k] = t[f + k - 1]
    BY PartOfText
  <2> QED
    BY <2>1, <2>2, <2>3
<1>8. z = SubSeq(t, r + 1, r + (a + b))
  BY <1>1, <1>3
<1>9. s = p
  <2>1. (r + a) - (r + 1) + 1 = a
    BY <1>4
  <2>2. \A k \in 1 .. a : k \in 1 .. (r + (a + b)) - (r + 1) + 1
    BY <1>4
  <2>3. \A k \in 1 .. a : s[k] = z[k]
    BY <1>6, <1>7, <1>8, <2>1, <2>2
  <2>4. Len(s) = Len(p) /\ \A k \in 1 .. Len(s) : s[k] = p[k]
    BY <1>2, <1>3, <1>6, <2>1, <2>3
  <2> QED
    BY <2>4, SeqEqual
<1>10. r + a \in r .. Len(c.text) /\ r + a \in 0 .. Len(c.text)
  BY <1>1, <1>2, <1>4
<1>11. Follow(c, r, SubSeq(c.text, r + 1, r + a), r + a)
  BY <1>10, FollowOK
<1> QED
  BY <1>1, <1>2, <1>6, <1>9, <1>10, <1>11

\* A code that links the last mark to a new one makes a longer trace.
LEMMA EmitOne ==
  ASSUME NEW c, NEW o, NEW M, NEW r, NEW l, NEW d, At(c, o, M, r, l, d),
         NEW code \in Seq(Bytes), code # <<>>, NEW r2, NEW l2, NEW d2,
         MarkOK(c, Mark(Len(o) + Len(code), r2, l2, d2), Len(o) + Len(code)),
         Link(c, o \o code, Mark(Len(o), r, l, d), Mark(Len(o) + Len(code), r2, l2, d2))
  PROVE  Reaches(c, o, M, code, r2, l2, d2)
<1>1. PICK e : e = Mark(Len(o), r, l, d)
  OBVIOUS
<1>2. PICK e2 : e2 = Mark(Len(o) + Len(code), r2, l2, d2)
  OBVIOUS
<1>3. e.at = Len(o) /\ e2.at = Len(o) + Len(code) /\ e \in M
  BY <1>1, <1>2 DEF At, Mark
<1>4. Trace(c, o, M) /\ c.vocab \in Seq(Seq(Bytes))
  BY DEF At, JobOK
<1>5. Trace(c, o \o code, M \cup {e2})
  BY <1>1, <1>2, <1>3, <1>4, TraceGrows
<1> QED
  BY <1>2, <1>5 DEF Reaches

\* What is known where a code is written.
LEMMA AtFacts ==
  ASSUME NEW c, NEW o, NEW M, NEW r, NEW l, NEW d, At(c, o, M, r, l, d)
  PROVE  /\ JobOK(c) /\ c.text \in Seq(Bytes) /\ c.vocab \in Seq(Seq(Bytes)) /\ o \in Seq(Bytes)
         /\ Len(c.text) \in Nat /\ Len(c.vocab) \in Nat /\ Len(o) \in Nat
         /\ r \in 0 .. Len(c.text)
         /\ c.form # "list" => l = NewList(Len(c.vocab))
         /\ d \subseteq 1 .. Len(c.vocab) /\ \A k \in d : c.vocab[k] # <<>>
<1>1. PICK e \in M : e = Mark(Len(o), r, l, d)
  BY DEF At
<1>2. MarkOK(c, e, Len(o))
  BY <1>1 DEF At, Trace
<1>3. e.read = r /\ e.list = l /\ e.defined = d
  BY <1>1 DEF Mark
<1>4. c.text \in Seq(Bytes) /\ c.vocab \in Seq(Seq(Bytes)) /\ o \in Seq(Bytes) /\ JobOK(c)
  BY DEF At, JobOK, Trace
<1>5. Len(c.text) \in Nat /\ Len(c.vocab) \in Nat /\ Len(o) \in Nat
  BY <1>4, LenProperties
<1> QED
  BY <1>2, <1>3, <1>4, <1>5 DEF MarkOK

\* A mark that keeps the lists.
LEMMA MarkKept ==
  ASSUME NEW c, NEW o, NEW M, NEW r, NEW l, NEW d, At(c, o, M, r, l, d),
         NEW n \in Nat, NEW r2 \in 0 .. Len(c.text)
  PROVE  MarkOK(c, Mark(n, r2, l, d), n)
<1>1. PICK e2 : e2 = Mark(n, r2, l, d)
  OBVIOUS
<1>2. e2.at = n /\ e2.read = r2 /\ e2.list = l /\ e2.defined = d
  BY <1>1 DEF Mark
<1>3. n \in 0 .. n
  OBVIOUS
<1> QED
  BY <1>1, <1>2, <1>3, AtFacts DEF MarkOK

\* A code of one byte.
LEMMA ByteCode ==
  ASSUME NEW b \in Bytes
  PROVE  <<b>> \in Seq(Bytes) /\ Len(<<b>>) = 1 /\ <<b>>[1] = b /\ <<b>> # <<>>
  OBVIOUS

\* A code of two bytes.
LEMMA PairCode ==
  ASSUME NEW b \in Bytes, NEW x \in Bytes
  PROVE  /\ <<b, x>> \in Seq(Bytes) /\ Len(<<b, x>>) = 2 /\ <<b, x>> # <<>>
         /\ <<b, x>>[1] = b /\ <<b, x>>[2] = x
  OBVIOUS

\* The bytes that codes are made with.
LEMMA EscapeBytes == ESC \in Bytes /\ 0 \in Bytes /\ N - 1 \in Bytes /\ ESC = 0 /\ N \in Nat /\ N >= 4
  BY NAssumption DEF ESC, Bytes

\* A byte that stands for itself leads to the next mark.
LEMMA EmitPlain ==
  ASSUME NEW c, NEW o, NEW M, NEW r, NEW l, NEW d, At(c, o, M, r, l, d),
         NEW b \in Bytes, b # ESC, NEW r2 \in 0 .. Len(c.text), Follow(c, r, <<b>>, r2)
  PROVE  Reaches(c, o, M, <<b>>, r2, l, d)
<1>1. PICK code \in Seq(Bytes) : code = <<b>> /\ Len(code) = 1 /\ code[1] = b /\ code # <<>>
  BY ByteCode
<1>2. o \in Seq(Bytes) /\ Len(o) \in Nat
  BY AtFacts
<1>3. Joined(o \o code, o, code)
  BY <1>2, JoinedOK
<1>4. (o \o code)[Len(o) + 1] = b
  BY <1>1, <1>3 DEF Joined
<1>5. PICK e : e = Mark(Len(o), r, l, d)
  OBVIOUS
<1>6. PICK e2 : e2 = Mark(Len(o) + 1, r2, l, d)
  OBVIOUS
<1>7. e.at = Len(o) /\ e.read = r /\ e2.at = Len(o) + 1 /\ e2.read = r2 /\ Same(e, e2)
  BY <1>5, <1>6 DEF Mark, Same
<1>8. LinkByte(c, o \o code, e, e2)
  BY <1>4, <1>7 DEF LinkByte, Escaped, Reads, Follow
<1>9. MarkOK(c, e2, Len(o) + 1)
  <2>1. Len(o) + 1 \in Nat
    BY <1>2
  <2> QED
    BY <1>6, <2>1, MarkKept
<1>10. Link(c, o \o code, e, e2)
  BY <1>8 DEF Link
<1> QED
  BY <1>1, <1>5, <1>6, <1>9, <1>10, EmitOne

\* So does an escaped ESC.
LEMMA EmitNul ==
  ASSUME NEW c, NEW o, NEW M, NEW r, NEW l, NEW d, At(c, o, M, r, l, d),
         NEW r2 \in 0 .. Len(c.text), Follow(c, r, << 0 >>, r2)
  PROVE  Reaches(c, o, M, <<ESC, 0>>, r2, l, d)
<1>1. PICK code \in Seq(Bytes) : /\ code = <<ESC, 0>> /\ Len(code) = 2 /\ code # <<>>
                                 /\ code[1] = ESC /\ code[2] = 0
  BY PairCode, EscapeBytes
<1>2. o \in Seq(Bytes) /\ Len(o) \in Nat
  BY AtFacts
<1>3. Joined(o \o code, o, code)
  BY <1>2, JoinedOK
<1>4. (o \o code)[Len(o) + 1] = ESC /\ (o \o code)[Len(o) + 2] = 0
  BY <1>1, <1>3 DEF Joined
<1>5. PICK e : e = Mark(Len(o), r, l, d)
  OBVIOUS
<1>6. PICK e2 : e2 = Mark(Len(o) + 2, r2, l, d)
  OBVIOUS
<1>7. e.at = Len(o) /\ e.read = r /\ e2.at = Len(o) + 2 /\ e2.read = r2 /\ Same(e, e2)
  BY <1>5, <1>6 DEF Mark, Same
<1>8. LinkNul(c, o \o code, e, e2)
  BY <1>4, <1>7 DEF LinkNul, Escaped, Reads, Follow
<1>9. MarkOK(c, e2, Len(o) + 2)
  <2>1. Len(o) + 2 \in Nat
    BY <1>2
  <2> QED
    BY <1>6, <2>1, MarkKept
<1>10. Link(c, o \o code, e, e2)
  BY <1>8 DEF Link
<1> QED
  BY <1>1, <1>5, <1>6, <1>9, <1>10, EmitOne

\* So does a unit.
LEMMA EmitUnit ==
  ASSUME NEW c, NEW o, NEW M, NEW r, NEW l, NEW d, At(c, o, M, r, l, d), c.form = "subword",
         NEW x \in Bytes, x < Len(DeriveMerges(c.vocab)), NEW r2 \in 0 .. Len(c.text),
         Follow(c, r, Spelling(DeriveMerges(c.vocab))[N + x], r2)
  PROVE  Reaches(c, o, M, <<ESC, N - 1, x>>, r2, l, d)
<1>1. PICK code \in Seq(Bytes) : /\ code = <<ESC, N - 1, x>> /\ Len(code) = 3 /\ code # <<>>
                                 /\ code[1] = ESC /\ code[2] = N - 1 /\ code[3] = x
  <2>1. ESC \in Bytes /\ N - 1 \in Bytes
    BY EscapeBytes
  <2>2. PICK y \in Bytes : y = N - 1
    BY <2>1
  <2>3. PICK code : code = <<ESC, y, x>>
    OBVIOUS
  <2>4. code \in Seq(Bytes)
    BY <2>1, <2>3
  <2>5. Len(code) = 3 /\ code # <<>> /\ code[1] = ESC /\ code[2] = y /\ code[3] = x
    BY <2>3
  <2> QED
    BY <2>2, <2>3, <2>4, <2>5
<1>2. o \in Seq(Bytes) /\ Len(o) \in Nat
  BY AtFacts
<1>3. Joined(o \o code, o, code)
  BY <1>2, JoinedOK
<1>4. (o \o code)[Len(o) + 1] = ESC /\ (o \o code)[Len(o) + 2] = N - 1 /\ (o \o code)[Len(o) + 3] = x
  BY <1>1, <1>3 DEF Joined
<1>5. PICK e : e = Mark(Len(o), r, l, d)
  OBVIOUS
<1>6. PICK e2 : e2 = Mark(Len(o) + 3, r2, l, d)
  OBVIOUS
<1>7. e.at = Len(o) /\ e.read = r /\ e2.at = Len(o) + 3 /\ e2.read = r2 /\ Same(e, e2)
  BY <1>5, <1>6 DEF Mark, Same
<1>8. LinkUnit(c, o \o code, e, e2)
  BY <1>4, <1>7 DEF LinkUnit, MarkedAt, Escaped, Reads, Follow
<1>9. MarkOK(c, e2, Len(o) + 3)
  <2>1. Len(o) + 3 \in Nat
    BY <1>2
  <2> QED
    BY <1>6, <2>1, MarkKept
<1>10. Link(c, o \o code, e, e2)
  BY <1>8 DEF Link
<1> QED
  BY <1>1, <1>5, <1>6, <1>9, <1>10, EmitOne

\* No code leads nowhere else.
LEMMA ReachesNone ==
  ASSUME NEW c, NEW o, NEW M, NEW r, NEW l, NEW d, At(c, o, M, r, l, d)
  PROVE  Reaches(c, o, M, <<>>, r, l, d)
<1>1. o \in Seq(Bytes) /\ Trace(c, o, M) /\ Mark(Len(o), r, l, d) \in M
  BY DEF At, Trace
<1>2. o \o <<>> = o
  BY <1>1, ConcatEmptySeq
<1>3. Len(o) + Len(<<>>) = Len(o)
  BY <1>1
<1>4. <<>> \in Seq(Bytes)
  OBVIOUS
<1> QED
  BY <1>1, <1>2, <1>3, <1>4 DEF Reaches

\* Two codes, one behind the other.
LEMMA ReachesOn ==
  ASSUME NEW c, JobOK(c), NEW o \in Seq(Bytes), NEW M, NEW a \in Seq(Bytes), NEW b \in Seq(Bytes),
         NEW r2, NEW l2, NEW d2, Reaches(c, o, M, a, r2, l2, d2), NEW r3, NEW l3, NEW d3,
         \A M2 : At(c, o \o a, M2, r2, l2, d2) => Reaches(c, o \o a, M2, b, r3, l3, d3)
  PROVE  Reaches(c, o, M, a \o b, r3, l3, d3)
<1>1. PICK M2 : /\ M \subseteq M2 /\ Trace(c, o \o a, M2)
                /\ Mark(Len(o) + Len(a), r2, l2, d2) \in M2
  BY DEF Reaches
<1>2. Len(o \o a) = Len(o) + Len(a) /\ o \o a \in Seq(Bytes)
  BY ConcatProperties
<1>3. At(c, o \o a, M2, r2, l2, d2)
  BY <1>1, <1>2 DEF At
<1>4. PICK M3 : /\ M2 \subseteq M3 /\ Trace(c, (o \o a) \o b, M3)
                /\ Mark(Len(o \o a) + Len(b), r3, l3, d3) \in M3
  BY <1>3 DEF Reaches
<1>5. (o \o a) \o b = o \o (a \o b)
  BY Regrouped DEF Regroups
<1>6. Len(o \o a) + Len(b) = Len(o) + Len(a \o b)
  <2>1. PICK x \in Nat, y \in Nat, z \in Nat : x = Len(o) /\ y = Len(a) /\ z = Len(b)
    OBVIOUS
  <2>2. Len(a \o b) = y + z
    BY <2>1, ConcatProperties
  <2> QED
    BY <1>2, <2>1, <2>2
<1>7. M \subseteq M3 /\ a \o b \in Seq(Bytes)
  BY <1>1, <1>4, ConcatProperties
<1>8. Trace(c, o \o (a \o b), M3) /\ Mark(Len(o) + Len(a \o b), r3, l3, d3) \in M3
  BY <1>4, <1>5, <1>6
<1> QED
  BY <1>7, <1>8 DEF Reaches

\* What is written for a symbol leads over what it spells.
WritesByte(y, cs, sp) == \E b \in Bytes \ {ESC} : cs[y] = <<b>> /\ sp[y] = <<b>>

\* A unit is written as its number behind a mark.
WritesUnit(c, y, cs, sp) ==
  /\ c.form = "subword"
  /\ \E x \in Bytes : /\ x < Len(DeriveMerges(c.vocab)) /\ cs[y] = <<ESC, N - 1, x>>
                      /\ sp[y] = Spelling(DeriveMerges(c.vocab))[N + x]

\* What is written for symbol y leads over what it spells.
Writes(c, y, cs, sp) == WritesByte(y, cs, sp) \/ WritesUnit(c, y, cs, sp)

\* The code of a symbol leads to the mark behind what it spells.
LEMMA EmitSymbol ==
  ASSUME NEW c, NEW o, NEW M, NEW r, NEW l, NEW d, At(c, o, M, r, l, d),
         NEW cs, NEW sp, NEW y, Writes(c, y, cs, sp),
         NEW r2 \in 0 .. Len(c.text), Follow(c, r, sp[y], r2)
  PROVE  Reaches(c, o, M, cs[y], r2, l, d)
<1>1. CASE WritesByte(y, cs, sp)
  <2>1. PICK b \in Bytes \ {ESC} : cs[y] = <<b>> /\ sp[y] = <<b>>
    BY <1>1 DEF WritesByte
  <2>2. Reaches(c, o, M, <<b>>, r2, l, d)
    BY <2>1, EmitPlain
  <2> QED
    BY <2>1, <2>2
<1>2. CASE WritesUnit(c, y, cs, sp)
  <2>1. PICK x \in Bytes : /\ x < Len(DeriveMerges(c.vocab)) /\ cs[y] = <<ESC, N - 1, x>>
                           /\ sp[y] = Spelling(DeriveMerges(c.vocab))[N + x]
    BY <1>2 DEF WritesUnit
  <2>2. Reaches(c, o, M, <<ESC, N - 1, x>>, r2, l, d)
    BY <1>2, <2>1, EmitUnit DEF WritesUnit
  <2> QED
    BY <2>1, <2>2
<1> QED
  BY <1>1, <1>2 DEF Writes

\* Joined symbols yield joined texts, under a name.
YieldsJoin(s, u, sp) == Yield(s \o u, sp) = Yield(s, sp) \o Yield(u, sp)

\* They do.
LEMMA YieldsJoined ==
  ASSUME NEW X, NEW D, NEW sp, Spells(sp, D, X), NEW s \in Seq(D), NEW u \in Seq(D)
  PROVE  YieldsJoin(s, u, sp)
  BY YieldJoin DEF YieldsJoin

\* A prefix, its next symbol and the rest.
LEMMA Slice ==
  ASSUME NEW D, NEW s \in Seq(D), NEW k \in Nat, k < Len(s)
  PROVE  /\ SubSeq(s, 1, k) \in Seq(D) /\ SubSeq(s, 1, k + 1) \in Seq(D)
         /\ SubSeq(s, k + 2, Len(s)) \in Seq(D) /\ s[k + 1] \in D
         /\ SubSeq(s, 1, k + 1) = SubSeq(s, 1, k) \o <<s[k + 1]>>
         /\ s = SubSeq(s, 1, k + 1) \o SubSeq(s, k + 2, Len(s))
<1>1. PICK n \in Nat : n = Len(s)
  OBVIOUS
<1>2. s[k + 1] \in D
  BY <1>1
<1>3. SubSeq(s, 1, k) \in Seq(D) /\ SubSeq(s, 1, k + 1) \in Seq(D) /\ SubSeq(s, k + 2, n) \in Seq(D)
  BY <1>1, SubSeqProperties
<1>4. SubSeq(s, 1, k + 1) = SubSeq(s, 1, k) \o <<s[k + 1]>>
  <2>1. PICK p \in 1 .. Len(s) : p = k + 1
    BY <1>1
  <2>2. 1 \in 1 .. Len(s) /\ p \in 1 .. Len(s)
    BY <1>1
  <2>3. SubSeq(s, 1, p) = SubSeq(s, 1, p - 1) \o <<s[p]>>
    BY <2>2, SubSeqRecursiveSecond
  <2>4. p - 1 = k
    BY <2>1
  <2> QED
    BY <2>1, <2>3, <2>4
<1>5. s = SubSeq(s, 1, k + 1) \o SubSeq(s, k + 2, n)
  <2>1. PICK p \in 0 .. Len(s) : p = k + 1
    BY <1>1
  <2>2. SubSeq(s, 1, p) \o SubSeq(s, p + 1, n) = SubSeq(s, 1, n)
    <3>1. 1 \in 1 .. Len(s) + 1 /\ p \in 1 - 1 .. Len(s) /\ n \in p .. Len(s)
      BY <1>1, <2>1
    <3> QED
      BY <3>1, ConcatAdjacentSubSeq
  <2>3. SubSeq(s, 1, n) = s
    BY <1>1, SubSeqFull
  <2>4. p + 1 = k + 2
    BY <2>1
  <2> QED
    BY <2>1, <2>2, <2>3, <2>4
<1> QED
  BY <1>1, <1>2, <1>3, <1>4, <1>5

\* So does the code of a sequence of symbols, by induction over its prefixes.
LEMMA EmitAll ==
  ASSUME NEW c, NEW o, NEW M, NEW r, NEW l, NEW d, At(c, o, M, r, l, d),
         NEW D, NEW cs, NEW sp, Spells(cs, D, Bytes), Spells(sp, D, Bytes),
         \A y \in D : Writes(c, y, cs, sp),
         NEW s \in Seq(D), NEW z, z = Yield(s, sp),
         r + Len(z) <= Len(c.text), z = SubSeq(c.text, r + 1, r + Len(z))
  PROVE  Reaches(c, o, M, Yield(s, cs), r + Len(z), l, d)
<1> DEFINE pre(k) == SubSeq(s, 1, k)
           S == {k \in Nat : k <= Len(s) => Reaches(c, o, M, Yield(pre(k), cs), r + Len(Yield(pre(k), sp)), l, d)}
<1>1. PICK n \in Nat : n = Len(s)
  OBVIOUS
<1>2. /\ JobOK(c) /\ c.text \in Seq(Bytes) /\ o \in Seq(Bytes) /\ Len(c.text) \in Nat
      /\ r \in 0 .. Len(c.text) /\ r \in Nat
  <2>1. JobOK(c) /\ c.text \in Seq(Bytes) /\ o \in Seq(Bytes) /\ Len(c.text) \in Nat /\ r \in 0 .. Len(c.text)
    BY AtFacts
  <2> QED
    BY <2>1
<1>3. \A k \in 0 .. n : /\ pre(k) \in Seq(D) /\ Yield(pre(k), cs) \in Seq(Bytes) /\ Yield(pre(k), sp) \in Seq(Bytes)
                        /\ Follow(c, r, Yield(pre(k), sp), r + Len(Yield(pre(k), sp)))
                        /\ r + Len(Yield(pre(k), sp)) \in 0 .. Len(c.text)
  <2> TAKE k \in 0 .. n
  <2>1. pre(k) \in Seq(D) /\ SubSeq(s, k + 1, n) \in Seq(D)
    BY <1>1, SubSeqProperties
  <2>2. pre(k) \o SubSeq(s, k + 1, n) = s
    <3>1. SubSeq(s, 1, k) \o SubSeq(s, k + 1, n) = SubSeq(s, 1, n)
      <4>1. 1 \in 1 .. Len(s) + 1 /\ k \in 1 - 1 .. Len(s) /\ n \in k .. Len(s)
        BY <1>1
      <4> QED
        BY <4>1, ConcatAdjacentSubSeq
    <3>2. SubSeq(s, 1, n) = s
      BY <1>1, SubSeqFull
    <3> QED
      BY <3>1, <3>2
  <2>3. PICK u \in Seq(D), v \in Seq(D) : u = pre(k) /\ v = SubSeq(s, k + 1, n)
    BY <2>1
  <2>4. PICK p \in Seq(Bytes), q \in Seq(Bytes) : p = Yield(u, sp) /\ q = Yield(v, sp)
    <3>1. Yield(u, sp) \in Seq(Bytes)
      BY YieldJoin
    <3>2. Yield(v, sp) \in Seq(Bytes)
      BY YieldJoin
    <3> QED
      BY <3>1, <3>2
  <2>5. z = p \o q
    <3>1. YieldsJoin(u, v, sp)
      BY YieldsJoined
    <3> QED
      BY <2>2, <2>3, <2>4, <3>1 DEF YieldsJoin
  <2>6. Follow(c, r, p, r + Len(p)) /\ r + Len(p) \in 0 .. Len(c.text)
    BY <1>2, <2>5, FollowPart
  <2>7. Yield(u, cs) \in Seq(Bytes)
    BY YieldJoin
  <2> QED
    BY <2>1, <2>3, <2>4, <2>6, <2>7
<1>4. 0 \in S
  <2>1. pre(0) = <<>>
    BY SubSeqEmpty
  <2>2. Yield(pre(0), cs) = <<>> /\ Yield(pre(0), sp) = <<>>
    BY <2>1, YieldEmpty
  <2>3. r + Len(<<>>) = r
    BY <1>2
  <2>4. Reaches(c, o, M, <<>>, r, l, d)
    BY ReachesNone
  <2> QED
    BY <2>2, <2>3, <2>4
<1>5. \A k \in Nat : k < n /\ k \in S => k + 1 \in S
  <2>1. SUFFICES ASSUME NEW k \in Nat, k < n, k \in S PROVE k + 1 \in S
    OBVIOUS
  <2>2. /\ pre(k) \in Seq(D) /\ s[k + 1] \in D /\ pre(k + 1) = pre(k) \o <<s[k + 1]>>
    BY <1>1, <2>1, Slice
  <2>3. PICK u \in Seq(D), y \in D, e \in Seq(D) : u = pre(k) /\ y = s[k + 1] /\ e = <<y>>
    <3>1. PICK y \in D : y = s[k + 1]
      BY <2>2
    <3>2. <<y>> \in Seq(D)
      OBVIOUS
    <3> QED
      BY <2>2, <3>1, <3>2
  <2>4. Yield(u \o e, cs) = Yield(u, cs) \o Yield(e, cs) /\ Yield(u \o e, sp) = Yield(u, sp) \o Yield(e, sp)
    <3>1. YieldsJoin(u, e, cs)
      BY YieldsJoined
    <3>2. YieldsJoin(u, e, sp)
      BY YieldsJoined
    <3> QED
      BY <3>1, <3>2 DEF YieldsJoin
  <2>5. Yield(e, cs) = cs[y] /\ Yield(e, sp) = sp[y]
    <3>1. Yield(<<y>>, cs) = cs[y]
      BY YieldOne
    <3>2. Yield(<<y>>, sp) = sp[y]
      BY YieldOne
    <3> QED
      BY <2>3, <3>1, <3>2
  <2>6. PICK a \in Seq(Bytes), b \in Seq(Bytes), p \in Seq(Bytes), q \in Seq(Bytes) :
           a = Yield(u, cs) /\ b = cs[y] /\ p = Yield(u, sp) /\ q = sp[y]
    <3>1. cs[y] \in Seq(Bytes) /\ sp[y] \in Seq(Bytes)
      BY DEF Spells
    <3>2. Yield(u, cs) \in Seq(Bytes)
      BY YieldJoin
    <3>3. Yield(u, sp) \in Seq(Bytes)
      BY YieldJoin
    <3> QED
      BY <3>1, <3>2, <3>3
  <2>7. k \in 0 .. n /\ k + 1 \in 0 .. n
    BY <1>1, <2>1
  <2>8. Yield(pre(k + 1), cs) = a \o b /\ Yield(pre(k + 1), sp) = p \o q
    BY <2>2, <2>3, <2>4, <2>5, <2>6
  <2>9. PICK f \in 0 .. Len(c.text), g \in 0 .. Len(c.text) :
           f = r + Len(p) /\ g = r + Len(p \o q) /\ Follow(c, r, p, f) /\ Follow(c, r, p \o q, g)
    BY <1>3, <2>3, <2>6, <2>7, <2>8
  <2>10. Follow(c, f, q, g)
    <3>1. Upto(c, r) \in Seq(Bytes)
      <4>1. 1 \in 1 .. Len(c.text) + 1 /\ r \in 1 - 1 .. Len(c.text)
        BY <1>2
      <4>2. SubSeq(c.text, 1, r) \in Seq(Bytes)
        BY <1>2, <4>1, PartOfText
      <4> QED
        BY <4>2 DEF Upto
    <3>2. PICK h \in Seq(Bytes) : h = Upto(c, r)
      BY <3>1
    <3>3. Regroups(h, p, q)
      BY Regrouped
    <3>4. Upto(c, f) = h \o p /\ Upto(c, g) = h \o (p \o q)
      BY <2>9, <3>2 DEF Follow
    <3> QED
      BY <3>3, <3>4 DEF Follow, Regroups
  <2>11. Reaches(c, o, M, a, f, l, d)
    BY <1>1, <2>1, <2>3, <2>6, <2>9
  <2>12. ASSUME NEW M2, At(c, o \o a, M2, f, l, d) PROVE Reaches(c, o \o a, M2, b, g, l, d)
    <3>1. Writes(c, y, cs, sp)
      OBVIOUS
    <3>2. Follow(c, f, sp[y], g)
      BY <2>6, <2>10
    <3>3. Reaches(c, o \o a, M2, cs[y], g, l, d)
      BY <2>12, <3>1, <3>2, EmitSymbol
    <3> QED
      BY <2>6, <3>3
  <2>13. Reaches(c, o, M, a \o b, g, l, d)
    BY <1>2, <2>11, <2>12, ReachesOn
  <2>14. Reaches(c, o, M, Yield(pre(k + 1), cs), r + Len(Yield(pre(k + 1), sp)), l, d)
    BY <2>8, <2>9, <2>13
  <2> QED
    BY <2>14
<1>6. n \in S
  <2> HIDE DEF S
  <2>1. \A k \in 0 .. n : k \in S
    BY <1>4, <1>5, UpTo
  <2> QED
    BY <2>1
<1>7. pre(n) = s
  BY <1>1, SubSeqFull
<1>8. n <= Len(s) => Reaches(c, o, M, Yield(pre(n), cs), r + Len(Yield(pre(n), sp)), l, d)
  BY <1>6
<1> HIDE DEF pre, S
<1>9. Reaches(c, o, M, Yield(s, cs), r + Len(Yield(s, sp)), l, d)
  <2>1. n <= Len(s)
    BY <1>1
  <2> QED
    BY <1>7, <1>8, <2>1
<1> QED
  BY <1>9

\* A word in letters.
LEMMA EmitLetters ==
  ASSUME NEW c, NEW o, NEW M, NEW r, NEW l, NEW d, At(c, o, M, r, l, d),
         NEW w \in Seq(Letters), r + Len(w) <= Len(c.text), w = SubSeq(c.text, r + 1, r + Len(w))
  PROVE  Reaches(c, o, M, w, r + Len(w), l, d)
<1>1. PICK cs : cs = [b \in Letters |-> <<b>>]
  OBVIOUS
<1>2. \A b \in Letters : b \in Bytes \ {ESC} /\ <<b>> \in Seq(Bytes)
  <2> TAKE b \in Letters
  <2>1. b \in Bytes \ {ESC}
    BY LettersAre
  <2> QED
    BY <2>1
<1>3. Spells(cs, Letters, Bytes)
  BY <1>1, <1>2 DEF Spells
<1>4. \A b \in Letters : cs[b] = <<b>>
  BY <1>1
<1>5. \A y \in Letters : Writes(c, y, cs, cs)
  BY <1>2, <1>4 DEF Writes, WritesByte
<1>6. Yield(w, cs) = w
  BY <1>3, <1>4, LettersAre, YieldSelf
<1>7. PICK z : z = Yield(w, cs)
  OBVIOUS
<1>8. r + Len(z) <= Len(c.text) /\ z = SubSeq(c.text, r + 1, r + Len(z))
  BY <1>6, <1>7
<1>9. Reaches(c, o, M, Yield(w, cs), r + Len(z), l, d)
  BY <1>3, <1>5, <1>7, <1>8, EmitAll
<1> QED
  BY <1>6, <1>7, <1>9

\* A word in units.
UnitCodes(pieces) ==
  FlattenSeq([k \in DOMAIN pieces |-> IF pieces[k] < N THEN <<pieces[k]>> ELSE <<ESC, N - 1, pieces[k] - N>>])

\* A word in pieces.
LEMMA EmitPieces ==
  ASSUME NEW c, NEW o, NEW M, NEW r, NEW l, NEW d, At(c, o, M, r, l, d), c.form = "subword",
         NEW w \in Seq(Letters), r + Len(w) <= Len(c.text), w = SubSeq(c.text, r + 1, r + Len(w))
  PROVE  Reaches(c, o, M, UnitCodes(Pieces(w, DeriveMerges(c.vocab))), r + Len(w), l, d)
<1>1. PICK u : u = DeriveMerges(c.vocab)
  OBVIOUS
<1>2. PICK n \in Nat : n = Len(u) /\ n <= N - 2 /\ Units(u)
  BY <1>1, AtFacts, DeriveOK DEF RESERVED_MAX
<1>3. PICK D : D = Letters \cup (N .. N + Len(u) - 1)
  OBVIOUS
<1>4. PICK s \in Seq(D) : s = Pieces(w, u)
  BY <1>2, <1>3, LettersAre, PiecesOK
<1>5. Yield(s, Spelling(u)) = w
  BY <1>2, <1>4, LettersAre, PiecesOK
<1>6. PICK sp : sp = [y \in D |-> Spelling(u)[y]]
  OBVIOUS
<1>7. PICK cs : cs = [y \in D |-> IF y < N THEN <<y>> ELSE <<ESC, N - 1, y - N>>]
  OBVIOUS
<1>8. Spells(Spelling(u), Symbols(Len(u)), Bytes) /\ SpelledOut(Spelling(u), u)
  BY <1>2, SpellingOK
<1>9. \A y \in D : y \in Symbols(Len(u)) /\ y \in Nat /\ y < N + n
  <2> TAKE y \in D
  <2>1. CASE y \in Letters
    <3>1. y \in 0 .. N - 1 /\ N \in Nat
      BY <2>1, LettersAre DEF Bytes
    <3> QED
      BY <1>2, <3>1 DEF Symbols
  <2>2. CASE y \in N .. N + Len(u) - 1
    BY <1>2, <2>2, LettersAre DEF Symbols
  <2> QED
    BY <1>3, <2>1, <2>2
<1>10. Spells(sp, D, Bytes)
  BY <1>6, <1>8, <1>9 DEF Spells
<1>11. \A y \in D : cs[y] \in Seq(Bytes) /\ Writes(c, y, cs, sp)
  <2> TAKE y \in D
  <2>1. CASE y \in Letters
    <3>1. y \in Bytes \ {ESC} /\ y < N
      BY <2>1, LettersAre DEF Bytes
    <3>2. cs[y] = <<y>> /\ <<y>> \in Seq(Bytes)
      BY <1>7, <3>1
    <3>3. sp[y] = <<y>>
      BY <1>6, <1>8, <3>1 DEF SpelledOut, Bytes
    <3> QED
      BY <3>1, <3>2, <3>3 DEF Writes, WritesByte
  <2>2. CASE y \in N .. N + Len(u) - 1
    <3>1. PICK x \in Bytes : y = N + x /\ x = y - N /\ x < Len(u) /\ ~(y < N)
      BY <1>2, <2>2, LettersAre DEF Bytes
    <3>2. cs[y] = <<ESC, N - 1, x>>
      BY <1>7, <3>1
    <3>3. PICK b \in Bytes, e \in Bytes : b = ESC /\ e = N - 1
      BY EscapeBytes
    <3>4. <<b, e, x>> \in Seq(Bytes)
      OBVIOUS
    <3>5. sp[y] = Spelling(u)[N + x]
      BY <1>6, <3>1
    <3> QED
      BY <1>1, <3>1, <3>2, <3>3, <3>4, <3>5 DEF Writes, WritesUnit
  <2> QED
    BY <1>3, <2>1, <2>2
<1>12. Spells(cs, D, Bytes)
  BY <1>7, <1>11 DEF Spells
<1>13. DOMAIN s = 1 .. Len(s) /\ \A k \in 1 .. Len(s) : s[k] \in D
  OBVIOUS
<1>14. Yield(s, sp) = w
  <2>1. [k \in 1 .. Len(s) |-> sp[s[k]]] = [k \in 1 .. Len(s) |-> Spelling(u)[s[k]]]
    BY <1>6, <1>13
  <2> QED
    BY <1>5, <2>1 DEF Yield
<1>15. UnitCodes(s) = Yield(s, cs)
  <2>1. [k \in 1 .. Len(s) |-> cs[s[k]]]
          = [k \in DOMAIN s |-> IF s[k] < N THEN <<s[k]>> ELSE <<ESC, N - 1, s[k] - N>>]
    BY <1>7, <1>13
  <2> QED
    BY <2>1 DEF Yield, UnitCodes
<1>16. PICK z : z = Yield(s, sp)
  OBVIOUS
<1>17. r + Len(z) <= Len(c.text) /\ z = SubSeq(c.text, r + 1, r + Len(z))
  BY <1>14, <1>16
<1>18. Reaches(c, o, M, Yield(s, cs), r + Len(z), l, d)
  BY <1>10, <1>11, <1>12, <1>16, <1>17, EmitAll
<1> QED
  BY <1>1, <1>4, <1>14, <1>15, <1>16, <1>18

-----------------------------------------------------------------------------
(* The code of a vocabulary entry, form by form.                           *)

\* Without promotions a list stays as it is.
LEMMA StaticTouch ==
  ASSUME NEW l, NEW v
  PROVE  Touch(l, v, "Static") = l
  BY DEF Touch, Target

\* An id of two bytes.
LEMMA EmitId ==
  ASSUME NEW c, NEW o, NEW M, NEW r, NEW l, NEW d, At(c, o, M, r, l, d),
         NEW p \in 1 .. Len(c.vocab), NEW v \in 1 .. Len(c.vocab), p < N, v = l.order[p],
         p = N - 1 => c.form \in {"list", "phrase", "front"},
         c.form = "firstuse" => v \in d,
         NEW r2 \in 0 .. Len(c.text), Follow(c, r, c.vocab[v], r2)
  PROVE  Reaches(c, o, M, <<ESC, p>>, r2, Touch(l, v, c.mode), d)
<1>1. PICK b \in Bytes, x \in Bytes : b = ESC /\ x = p
  BY EscapeBytes, AtFacts DEF Bytes
<1>2. PICK code \in Seq(Bytes) : code = <<b, x>> /\ Len(code) = 2 /\ code # <<>> /\ code[1] = b /\ code[2] = x
  <2>1. PICK code : code = <<b, x>>
    OBVIOUS
  <2>2. code \in Seq(Bytes)
    BY <2>1
  <2>3. Len(code) = 2 /\ code # <<>> /\ code[1] = b /\ code[2] = x
    BY <2>1
  <2> QED
    BY <2>1, <2>2, <2>3
<1>3. o \in Seq(Bytes) /\ Len(o) \in Nat /\ JobOK(c)
  BY AtFacts
<1>4. Joined(o \o code, o, code)
  BY <1>3, JoinedOK
<1>5. (o \o code)[Len(o) + 1] = ESC /\ (o \o code)[Len(o) + 2] = p
  BY <1>1, <1>2, <1>4 DEF Joined
<1>6. PICK l2 : l2 = Touch(l, v, c.mode)
  OBVIOUS
<1>7. PICK e : e = Mark(Len(o), r, l, d)
  OBVIOUS
<1>8. PICK e2 : e2 = Mark(Len(o) + 2, r2, l2, d)
  OBVIOUS
<1>9. /\ e.at = Len(o) /\ e.read = r /\ e.list = l /\ e.defined = d
      /\ e2.at = Len(o) + 2 /\ e2.read = r2 /\ e2.list = l2 /\ e2.defined = d
  BY <1>7, <1>8 DEF Mark
<1>10. LinkIdAs(c, o \o code, e, e2, p, v)
  BY <1>5, <1>6, <1>9 DEF LinkIdAs, Escaped, Reads, Follow
<1>11. Link(c, o \o code, e, e2)
  BY <1>10 DEF Link, LinkId
<1>12. MarkOK(c, e2, Len(o) + 2)
  <2>1. Len(o) + 2 \in 0 .. Len(o) + 2
    BY <1>3
  <2>2. c.form # "list" => l2 = NewList(Len(c.vocab))
    BY <1>3, <1>6, AtFacts, StaticTouch DEF JobOK
  <2>3. d \subseteq 1 .. Len(c.vocab) /\ \A k \in d : c.vocab[k] # <<>>
    BY AtFacts
  <2> QED
    BY <1>9, <2>1, <2>2, <2>3 DEF MarkOK
<1>13. Reaches(c, o, M, code, r2, l2, d)
  BY <1>2, <1>7, <1>8, <1>11, <1>12, EmitOne
<1> QED
  BY <1>1, <1>2, <1>6, <1>13

\* The definition of an entry at its first use.
LEMMA EmitDefinition ==
  ASSUME NEW c, NEW o, NEW M, NEW r, NEW l, NEW d, At(c, o, M, r, l, d), c.form = "firstuse",
         NEW v \in 1 .. Len(c.vocab), c.vocab[v] # <<>>, v < N,
         NEW r2 \in 0 .. Len(c.text), Follow(c, r, c.vocab[v], r2)
  PROVE  Reaches(c, o, M, <<ESC, N - 1, v>> \o Entry(c.vocab[v]), r2, l, d \cup {v})
<1>1. JobOK(c) /\ c.vocab \in Seq(Seq(Bytes)) /\ o \in Seq(Bytes) /\ Len(o) \in Nat /\ Len(c.vocab) \in Nat
  BY AtFacts
<1>2. PICK w \in Seq(Bytes) : w = c.vocab[v]
  <2>1. c.vocab[v] \in Seq(Bytes)
    BY <1>1, ElementOfSeq
  <2> QED
    BY <2>1
<1>3. PICK n \in Bytes : n = Len(w) /\ n < N /\ n \in Nat
  <2>1. PICK n \in Nat : n = Len(w)
    OBVIOUS
  <2>2. n < N
    BY <1>1, <1>2, <2>1 DEF JobOK
  <2>3. n \in Bytes
    BY <2>1, <2>2, NAssumption DEF Bytes
  <2> QED
    BY <2>1, <2>2, <2>3
<1>4. PICK g \in Seq(Bytes) : g = Entry(w) /\ Len(g) = 1 + n /\ g[1] = n /\ \A x \in 1 .. n : g[1 + x] = w[x]
  <2>1. n % N = n
    BY <1>3, NAssumption, SmallRest
  <2>2. Entry(w) = <<n>> \o w
    BY <1>3, <2>1 DEF Entry
  <2>3. PICK h \in Seq(Bytes) : h = <<n>> /\ Len(h) = 1 /\ h[1] = n
    <3>1. <<n>> \in Seq(Bytes)
      OBVIOUS
    <3> QED
      BY <3>1
  <2>4. Joined(h \o w, h, w)
    BY JoinedOK
  <2>5. Entry(w) = h \o w
    BY <2>2, <2>3
  <2>6. PICK g \in Seq(Bytes) : g = h \o w
    BY <2>4 DEF Joined
  <2>7. Len(g) = 1 + n
    BY <1>3, <2>3, <2>4, <2>6 DEF Joined
  <2>8. g[1] = n
    BY <2>3, <2>4, <2>6 DEF Joined, Agree
  <2>9. \A x \in 1 .. n : g[1 + x] = w[x]
    BY <1>3, <2>3, <2>4, <2>6 DEF Joined
  <2> QED
    BY <2>5, <2>6, <2>7, <2>8, <2>9
<1>5. PICK h \in Seq(Bytes) : h = <<ESC, N - 1, v>> /\ Len(h) = 3 /\ h[1] = ESC /\ h[2] = N - 1 /\ h[3] = v
  <2>1. PICK b \in Bytes, e \in Bytes, x \in Bytes : b = ESC /\ e = N - 1 /\ x = v
    BY EscapeBytes DEF Bytes
  <2>2. PICK h : h = <<b, e, x>>
    OBVIOUS
  <2>3. h \in Seq(Bytes)
    BY <2>2
  <2>4. Len(h) = 3 /\ h[1] = b /\ h[2] = e /\ h[3] = x
    BY <2>2
  <2> QED
    BY <2>1, <2>2, <2>3, <2>4
<1>6. PICK code \in Seq(Bytes) :
         /\ code = h \o g /\ Len(code) = 4 + n /\ code # <<>>
         /\ code[1] = ESC /\ code[2] = N - 1 /\ code[3] = v /\ code[4] = n
         /\ \A x \in 1 .. n : code[4 + x] = w[x]
  <2>1. Joined(h \o g, h, g)
    BY JoinedOK
  <2>2. PICK code \in Seq(Bytes) : code = h \o g
    BY <2>1 DEF Joined
  <2>3. Len(code) = 4 + n
    BY <1>3, <1>4, <1>5, <2>1, <2>2 DEF Joined
  <2>4. code[1] = ESC /\ code[2] = N - 1 /\ code[3] = v
    BY <1>5, <2>1, <2>2 DEF Joined, Agree
  <2>5. \A x \in 1 .. 1 + n : code[3 + x] = g[x]
    BY <1>3, <1>4, <1>5, <2>1, <2>2 DEF Joined
  <2>6. code[4] = n
    <3>1. 1 \in 1 .. 1 + n /\ 3 + 1 = 4
      BY <1>3
    <3>2. code[3 + 1] = g[1]
      BY <2>5, <3>1
    <3> QED
      BY <1>4, <3>1, <3>2
  <2>7. \A x \in 1 .. n : code[4 + x] = w[x]
    <3> TAKE x \in 1 .. n
    <3>1. 1 + x \in 1 .. 1 + n /\ 3 + (1 + x) = 4 + x
      BY <1>3
    <3>2. code[3 + (1 + x)] = g[1 + x]
      BY <2>5, <3>1
    <3> QED
      BY <1>4, <3>1, <3>2
  <2>8. code # <<>>
    BY <1>3, <2>3
  <2> QED
    BY <2>2, <2>3, <2>4, <2>6, <2>7, <2>8
<1>7. Joined(o \o code, o, code)
  BY <1>1, JoinedOK
<1>8. PICK q : q = o \o code
  OBVIOUS
<1>9. PICK a \in Nat : a = Len(o)
  BY <1>1
<1>10. \A x \in 1 .. 4 + n : q[a + x] = code[x]
  BY <1>6, <1>7, <1>8, <1>9 DEF Joined
<1>11. q[a + 1] = ESC /\ q[a + 2] = N - 1 /\ q[a + 3] = v /\ q[a + 4] = n
  <2>1. 1 \in 1 .. 4 + n /\ 2 \in 1 .. 4 + n /\ 3 \in 1 .. 4 + n /\ 4 \in 1 .. 4 + n
    BY <1>3
  <2> QED
    BY <1>6, <1>10, <2>1
<1>12. \A x \in 1 .. n : q[a + 4 + x] = w[x]
  <2> TAKE x \in 1 .. n
  <2>1. 4 + x \in 1 .. 4 + n /\ a + (4 + x) = a + 4 + x
    BY <1>3
  <2>2. q[a + (4 + x)] = code[4 + x]
    BY <1>10, <2>1
  <2> QED
    BY <1>6, <2>1, <2>2
<1>13. PICK e : e = Mark(a, r, l, d)
  OBVIOUS
<1>14. PICK e2 : e2 = Mark(a + (4 + n), r2, l, d \cup {v})
  OBVIOUS
<1>15. /\ e.at = a /\ e.read = r /\ e.list = l /\ e.defined = d
       /\ e2.at = a + (4 + n) /\ e2.read = r2 /\ e2.list = l /\ e2.defined = d \cup {v}
  BY <1>13, <1>14 DEF Mark
<1>16. LinkDefAs(c, q, e, e2, v)
  BY <1>2, <1>3, <1>11, <1>12, <1>15 DEF LinkDefAs, MarkedAt, Escaped, Reads, Follow
<1>17. Link(c, q, e, e2)
  BY <1>16 DEF Link, LinkDef
<1>18. MarkOK(c, e2, a + (4 + n))
  <2>1. a + (4 + n) \in 0 .. a + (4 + n)
    BY <1>3
  <2>2. c.form # "list" => l = NewList(Len(c.vocab))
    BY AtFacts
  <2>3. d \cup {v} \subseteq 1 .. Len(c.vocab) /\ \A k \in d \cup {v} : c.vocab[k] # <<>>
    BY AtFacts
  <2> QED
    BY <1>15, <2>1, <2>2, <2>3 DEF MarkOK
<1>19. Reaches(c, o, M, code, r2, l, d \cup {v})
  BY <1>6, <1>8, <1>9, <1>13, <1>14, <1>17, <1>18, EmitOne
<1> QED
  BY <1>2, <1>4, <1>5, <1>6, <1>19

\* Codes of four bytes.
LEMMA EmitFour ==
  ASSUME NEW c, NEW o, NEW M, NEW r, NEW l, NEW d, At(c, o, M, r, l, d),
         NEW x \in Bytes, NEW y \in Bytes, NEW r2 \in 0 .. Len(c.text),
         \A q, e, e2 :
           /\ MarkedAt(q, e) /\ q[e.at + 3] = x /\ q[e.at + 4] = y /\ Same(e, e2)
           /\ e2.at = e.at + 4 /\ e.read = r /\ e2.read = r2
           => Link(c, q, e, e2)
  PROVE  Reaches(c, o, M, <<ESC, N - 1, x, y>>, r2, l, d)
<1>1. PICK code \in Seq(Bytes) : /\ code = <<ESC, N - 1, x, y>> /\ Len(code) = 4 /\ code # <<>>
                                 /\ code[1] = ESC /\ code[2] = N - 1 /\ code[3] = x /\ code[4] = y
  <2>1. PICK b \in Bytes, e \in Bytes : b = ESC /\ e = N - 1
    BY EscapeBytes
  <2>2. PICK code : code = <<b, e, x, y>>
    OBVIOUS
  <2>3. code \in Seq(Bytes)
    BY <2>2
  <2>4. Len(code) = 4 /\ code # <<>> /\ code[1] = b /\ code[2] = e /\ code[3] = x /\ code[4] = y
    BY <2>2
  <2> QED
    BY <2>1, <2>2, <2>3, <2>4
<1>2. o \in Seq(Bytes) /\ Len(o) \in Nat
  BY AtFacts
<1>3. Joined(o \o code, o, code)
  BY <1>2, JoinedOK
<1>4. /\ (o \o code)[Len(o) + 1] = ESC /\ (o \o code)[Len(o) + 2] = N - 1
      /\ (o \o code)[Len(o) + 3] = x /\ (o \o code)[Len(o) + 4] = y
  BY <1>1, <1>3 DEF Joined
<1>5. PICK e : e = Mark(Len(o), r, l, d)
  OBVIOUS
<1>6. PICK e2 : e2 = Mark(Len(o) + 4, r2, l, d)
  OBVIOUS
<1>7. e.at = Len(o) /\ e.read = r /\ e2.at = Len(o) + 4 /\ e2.read = r2 /\ Same(e, e2)
  BY <1>5, <1>6 DEF Mark, Same
<1>8. Link(c, o \o code, e, e2)
  BY <1>4, <1>7 DEF MarkedAt, Escaped
<1>9. MarkOK(c, e2, Len(o) + 4)
  <2>1. Len(o) + 4 \in Nat
    BY <1>2
  <2> QED
    BY <1>6, <2>1, MarkKept
<1> QED
  BY <1>1, <1>5, <1>6, <1>8, <1>9, EmitOne

\* The extended ids.
LEMMA Digits ==
  ASSUME NEW n \in Nat, n < N * N
  PROVE  /\ n \div N \in Bytes /\ n % N \in Bytes /\ n = N * (n \div N) + (n % N)
<1>1. N \in Nat /\ N > 0
  BY NAssumption
<1>2. PICK q \in Int, x \in Int : q = n \div N /\ x = n % N
  BY <1>1
<1>3. n = N * q + x /\ 0 <= x /\ x < N
  BY <1>1, <1>2
<1>4. q >= 0
  BY <1>1, <1>2
<1>5. q < N
  <2>1. SUFFICES ASSUME q >= N PROVE FALSE
    BY <1>1
  <2>2. N * q >= N * N
    BY <1>1, <2>1
  <2> QED
    BY <1>1, <1>3, <2>2
<1> QED
  BY <1>1, <1>2, <1>3, <1>4, <1>5 DEF Bytes

\* An extended id: its two digits name the entry.
LEMMA EmitExtended ==
  ASSUME NEW c, NEW o, NEW M, NEW r, NEW l, NEW d, At(c, o, M, r, l, d), c.form = "extended",
         NEW v \in 1 .. Len(c.vocab), v > N - 2,
         NEW r2 \in 0 .. Len(c.text), Follow(c, r, c.vocab[v], r2)
  PROVE  Reaches(c, o, M, <<ESC, N - 1, (v - (N - 1)) \div N, (v - (N - 1)) % N>>, r2, l, d)
<1>1. N \in Nat /\ N >= 4 /\ N * N \in Nat
  BY NAssumption
<1>2. PICK n \in Nat : n = v - (N - 1) /\ n < N * N
  <2>1. Len(c.vocab) <= N * N - 2 /\ Len(c.vocab) \in Nat
    BY AtFacts DEF JobOK, Capacity
  <2> QED
    BY <1>1, <2>1
<1>3. PICK x \in Bytes, y \in Bytes : x = n \div N /\ y = n % N /\ n = N * x + y
  BY <1>2, Digits
<1>4. v = N - 1 + N * x + y
  <2>1. x \in Int /\ y \in Int
    BY <1>1 DEF Bytes
  <2>2. PICK p \in Int : p = N * x
    BY <1>1, <2>1
  <2>3. PICK u \in Int : u = v
    OBVIOUS
  <2>4. n = p + y /\ n = u - (N - 1)
    BY <1>2, <1>3, <2>2, <2>3
  <2>5. u = N - 1 + p + y
    BY <1>1, <2>1, <2>4
  <2> QED
    BY <2>2, <2>3, <2>5
<1>5. ASSUME NEW q, NEW e, NEW e2,
             MarkedAt(q, e), q[e.at + 3] = x, q[e.at + 4] = y, Same(e, e2),
             e2.at = e.at + 4, e.read = r, e2.read = r2
      PROVE  Link(c, q, e, e2)
  <2>1. LinkExtAs(c, q, e, e2, v)
    BY <1>4, <1>5 DEF LinkExtAs, Reads, Follow
  <2> QED
    BY <2>1 DEF Link, LinkExt
<1>6. Reaches(c, o, M, <<ESC, N - 1, x, y>>, r2, l, d)
  BY <1>5, EmitFour
<1> QED
  BY <1>2, <1>3, <1>6

\* An entry and a suffix.
LEMMA EmitAffix ==
  ASSUME NEW c, NEW o, NEW M, NEW r, NEW l, NEW d, At(c, o, M, r, l, d), c.form = "affix",
         NEW v \in 1 .. Len(c.vocab), v < N, NEW k \in 1 .. Len(SUFFIXES), Len(SUFFIXES) <= N,
         NEW r2 \in 0 .. Len(c.text), Follow(c, r, c.vocab[v] \o SUFFIXES[k], r2)
  PROVE  Reaches(c, o, M, <<ESC, N - 1, v, k - 1>>, r2, l, d)
<1>1. Len(SUFFIXES) \in Nat /\ N \in Nat /\ Len(c.vocab) \in Nat
  BY SuffixesAssumption, NAssumption, AtFacts
<1>2. PICK x \in Bytes, y \in Bytes : x = v /\ y = k - 1 /\ y + 1 = k /\ y < Len(SUFFIXES)
  BY <1>1 DEF Bytes
<1>3. ASSUME NEW q, NEW e, NEW e2,
             MarkedAt(q, e), q[e.at + 3] = x, q[e.at + 4] = y, Same(e, e2),
             e2.at = e.at + 4, e.read = r, e2.read = r2
      PROVE  Link(c, q, e, e2)
  <2>1. LinkAffix(c, q, e, e2)
    BY <1>2, <1>3 DEF LinkAffix, Reads, Follow
  <2> QED
    BY <2>1 DEF Link
<1>4. Reaches(c, o, M, <<ESC, N - 1, x, y>>, r2, l, d)
  BY <1>3, EmitFour
<1> QED
  BY <1>2, <1>4

-----------------------------------------------------------------------------
(* The codes of a word.                                                    *)

\* What the encoder knows of its trace.
LEMMA WritingFacts ==
  ASSUME NEW M, Writing(M)
  PROVE  /\ JobOK(Job) /\ text \in Seq(Bytes) /\ vocab \in Seq(Seq(Bytes)) /\ out \in Seq(Bytes)
         /\ Len(text) \in Nat /\ Len(vocab) \in Nat /\ i \in Nat
         /\ Len(vocab) <= Capacity(form) /\ Len(vocab) <= (IF form = "extended" THEN N * N - 2 ELSE N - 1)
         /\ form \in {"firstuse", "subword", "affix"} => Len(vocab) <= N - 2
         /\ form # "list" => list = NewList(Len(vocab)) /\ mode = "Static"
<1>1. Job.text = text /\ Job.vocab = vocab /\ Job.form = form /\ Job.mode = mode
  BY DEF Job
<1>2. At(Job, out, M, i - 1, list, defined)
  BY DEF Writing
<1>3. /\ JobOK(Job) /\ text \in Seq(Bytes) /\ vocab \in Seq(Seq(Bytes)) /\ out \in Seq(Bytes)
      /\ Len(text) \in Nat /\ Len(vocab) \in Nat
      /\ form # "list" => list = NewList(Len(vocab))
  BY <1>1, <1>2, AtFacts
<1>4. Len(vocab) <= Capacity(form) /\ (form # "list" => mode = "Static")
  BY <1>1, <1>3 DEF JobOK
<1>5. i \in Nat
  BY <1>3 DEF Writing
<1>6. Len(vocab) <= (IF form = "extended" THEN N * N - 2 ELSE N - 1)
  BY <1>3, <1>4, NAssumption DEF Capacity, RESERVED_MAX, MAX_TOKENS
<1>7. form \in {"firstuse", "subword", "affix"} => Len(vocab) <= N - 2
  BY <1>4 DEF Capacity, RESERVED_MAX
<1> QED
  BY <1>3, <1>4, <1>5, <1>6, <1>7

\* Where the text goes on with w.
LEMMA NextFollows ==
  ASSUME NEW M, Writing(M), NEW w, NextIs(w)
  PROVE  i - 1 + Len(w) \in 0 .. Len(Job.text) /\ Follow(Job, i - 1, w, i - 1 + Len(w))
<1>1. Job.text = text
  BY DEF Job
<1>2. text \in Seq(Bytes) /\ Len(text) \in Nat /\ i \in Nat
  BY WritingFacts
<1>3. PICK p \in 0 .. Len(Job.text) : p = i - 1
  BY <1>1, <1>2 DEF Writing
<1>4. PICK q \in p .. Len(Job.text) : q = i - 1 + Len(w)
  <2>1. PICK z \in Nat, n \in Nat : z = Len(w) /\ n = Len(text) /\ i - 1 + z <= n
    BY <1>2 DEF NextIs
  <2>2. p + z \in p .. n /\ p + z = i - 1 + z
    BY <1>2, <1>3, <2>1
  <2> QED
    BY <1>1, <2>1, <2>2
<1>5. Follow(Job, p, SubSeq(Job.text, p + 1, q), q)
  BY <1>1, <1>2, FollowOK
<1>6. SubSeq(Job.text, p + 1, q) = w
  <2>1. p + 1 = i
    BY <1>2, <1>3
  <2> QED
    BY <1>1, <1>4, <2>1 DEF NextIs
<1>7. q \in 0 .. Len(Job.text)
  BY <1>3, <1>4
<1> QED
  BY <1>3, <1>4, <1>5, <1>6, <1>7

\* A known word is the entry at its index.
LEMMA IndexOK ==
  ASSUME NEW w, Known(w), vocab \in Seq(Seq(Bytes))
  PROVE  Index(w) \in 1 .. Len(vocab) /\ vocab[Index(w)] = w
<1>1. DOMAIN vocab = 1 .. Len(vocab)
  OBVIOUS
<1>2. \E k \in DOMAIN vocab : vocab[k] = w
  BY DEF Known, Range
<1> QED
  BY <1>1, <1>2 DEF Index

\* The definitions when the word with this id has been written.
Learns(id) == IF form = "firstuse" THEN defined \cup {id} ELSE defined

\* The token of a known word leads to the mark behind the word.
LEMMA TokenWritten ==
  ASSUME NEW M, Writing(M), NEW w, NextIs(w), Known(w)
  PROVE  Reaches(Job, out, M, Token(w), i - 1 + Len(w), Touch(list, Index(w), mode), Learns(Index(w)))
<1>1. /\ Job.text = text /\ Job.vocab = vocab /\ Job.form = form /\ Job.mode = mode
  BY DEF Job
<1>2. /\ JobOK(Job) /\ vocab \in Seq(Seq(Bytes)) /\ Len(vocab) \in Nat
      /\ Len(vocab) <= (IF form = "extended" THEN N * N - 2 ELSE N - 1)
      /\ form \in {"firstuse", "subword", "affix"} => Len(vocab) <= N - 2
      /\ form # "list" => list = NewList(Len(vocab)) /\ mode = "Static"
  BY WritingFacts
<1>3. PICK v \in 1 .. Len(Job.vocab) : v = Index(w) /\ Job.vocab[v] = w
  BY <1>1, <1>2, IndexOK
<1>4. PICK r2 \in 0 .. Len(Job.text) : r2 = i - 1 + Len(w) /\ Follow(Job, i - 1, Job.vocab[v], r2)
  BY <1>3, NextFollows
<1>5. At(Job, out, M, i - 1, list, defined)
  BY DEF Writing
<1>6. N \in Nat /\ N >= 4
  BY NAssumption
<1>7. Job.form \in {"list", "firstuse", "subword", "extended", "phrase", "front", "affix"}
  BY <1>2 DEF JobOK
<1>8. CASE form = "list"
  <2>1. PICK p \in 1 .. Len(Job.vocab) : p = list.pos[v] /\ v = list.order[p]
    <3>1. IsList(list, Len(vocab))
      BY DEF Writing
    <3> QED
      BY <1>1, <3>1 DEF IsList, Consistent
  <2>2. p < N
    BY <1>1, <1>2, <1>6, <1>8
  <2>3. Reaches(Job, out, M, <<ESC, p>>, r2, Touch(list, v, Job.mode), defined)
    BY <1>1, <1>4, <1>5, <1>8, <2>1, <2>2, EmitId
  <2>4. Token(w) = <<ESC, p>>
    BY <1>3, <1>8, <2>1 DEF Token
  <2>5. Learns(v) = defined
    BY <1>8 DEF Learns
  <2> QED
    BY <1>1, <1>3, <1>4, <2>3, <2>4, <2>5
<1>9. CASE form = "firstuse" /\ v \notin defined
  <2>1. v < N
    BY <1>1, <1>2, <1>6, <1>9
  <2>2. w # <<>>
    BY DEF NextIs
  <2>3. Reaches(Job, out, M, <<ESC, N - 1, v>> \o Entry(Job.vocab[v]), r2, list, defined \cup {v})
    BY <1>1, <1>3, <1>4, <1>5, <1>9, <2>1, <2>2, EmitDefinition
  <2>4. Token(w) = <<ESC, N - 1, v>> \o Entry(Job.vocab[v])
    BY <1>3, <1>9 DEF Token
  <2>5. Learns(v) = defined \cup {v}
    BY <1>9 DEF Learns
  <2>6. Touch(list, v, mode) = list
    BY <1>2, <1>9, StaticTouch
  <2> QED
    BY <1>3, <1>4, <2>3, <2>4, <2>5, <2>6
<1>10. CASE form = "extended" /\ v > N - 2
  <2>1. Reaches(Job, out, M, <<ESC, N - 1, (v - (N - 1)) \div N, (v - (N - 1)) % N>>, r2, list, defined)
    BY <1>1, <1>4, <1>5, <1>10, EmitExtended
  <2>2. Token(w) = <<ESC, N - 1, (v - (N - 1)) \div N, (v - (N - 1)) % N>>
    BY <1>3, <1>10 DEF Token
  <2>3. Learns(v) = defined
    BY <1>10 DEF Learns
  <2>4. Touch(list, v, mode) = list
    BY <1>2, <1>10, StaticTouch
  <2> QED
    BY <1>3, <1>4, <2>1, <2>2, <2>3, <2>4
<1>11. CASE /\ form # "list" /\ ~(form = "firstuse" /\ v \notin defined)
            /\ ~(form = "extended" /\ v > N - 2)
  <2>1. list.order[v] = v
    BY <1>1, <1>2, <1>11 DEF NewList
  <2>2. v < N
    BY <1>1, <1>2, <1>6, <1>11
  <2>3. v = N - 1 => Job.form \in {"list", "phrase", "front"}
    BY <1>1, <1>2, <1>6, <1>7, <1>11
  <2>4. Job.form = "firstuse" => v \in defined
    BY <1>1, <1>11
  <2>5. Reaches(Job, out, M, <<ESC, v>>, r2, Touch(list, v, Job.mode), defined)
    BY <1>4, <1>5, <2>1, <2>2, <2>3, <2>4, EmitId
  <2>6. Token(w) = <<ESC, v>>
    BY <1>3, <1>11 DEF Token
  <2>7. Learns(v) = defined
    BY <1>11 DEF Learns
  <2> QED
    BY <1>1, <1>3, <1>4, <2>5, <2>6, <2>7
<1> QED
  BY <1>8, <1>9, <1>10, <1>11

\* Of the entries of a bounded length the longest, the first among equals.
LEMMA LongestOK ==
  ASSUME NEW S, S \subseteq Nat, S # {}, NEW L, NEW n \in Nat, \A k \in S : L[k] \in Nat /\ L[k] <= n
  PROVE  \E k \in S : \A l \in S \ {k} : L[l] < L[k] \/ (L[l] = L[k] /\ k < l)
<1>1. PICK e \in S : \A k \in S : L[k] <= L[e]
  <2>1. PICK B : B = {n - L[k] : k \in S}
    OBVIOUS
  <2>2. B \subseteq Nat /\ B # {}
    <3>1. \A k \in S : n - L[k] \in Nat
      OBVIOUS
    <3>2. \A b \in B : b \in Nat
      BY <2>1, <3>1
    <3>3. PICK k \in S : TRUE
      OBVIOUS
    <3>4. n - L[k] \in B
      BY <2>1, <3>3
    <3> QED
      BY <3>2, <3>4
  <2>3. PICK m \in B : \A k \in B : m <= k
    BY <2>2, LeastNumber
  <2>4. PICK e \in S : m = n - L[e]
    BY <2>1, <2>3
  <2>5. \A k \in S : n - L[e] <= n - L[k]
    BY <2>1, <2>3, <2>4
  <2> QED
    BY <2>5
<1>2. PICK A : A = {k \in S : L[k] = L[e]}
  OBVIOUS
<1>3. A \subseteq Nat /\ A # {}
  BY <1>1, <1>2
<1>4. PICK a \in A : \A k \in A : a <= k
  BY <1>3, LeastNumber
<1>5. ASSUME NEW l \in S \ {a} PROVE L[l] < L[a] \/ (L[l] = L[a] /\ a < l)
  <2>1. L[l] \in Nat /\ L[a] = L[e] /\ L[e] \in Nat /\ L[l] <= L[e] /\ l \in Nat /\ a \in Nat
    BY <1>1, <1>2, <1>5
  <2>2. L[l] = L[a] => a <= l
    BY <1>2, <1>4, <2>1
  <2> QED
    BY <1>5, <2>1, <2>2
<1> QED
  BY <1>2, <1>5

\* A word with endings has the longest of them.
LEMMA EndingOK ==
  ASSUME NEW w \in Seq(Letters), Endings(w) # {}
  PROVE  Ending(w) \in Endings(w)
<1>1. PICK n \in Nat : n = Len(w)
  OBVIOUS
<1>2. PICK S : S = Endings(w)
  OBVIOUS
<1>3. PICK L : L = [c \in S |-> Len(SUFFIXES[c])]
  OBVIOUS
<1>4. \A c \in S : c \in Nat /\ L[c] = Len(SUFFIXES[c]) /\ L[c] \in Nat /\ L[c] <= n
  <2> TAKE c \in S
  <2>1. c \in 1 .. Len(SUFFIXES) /\ Len(w) >= Len(SUFFIXES[c]) + 2
    BY <1>2, SuffixesAssumption DEF Endings
  <2>2. SUFFIXES[c] \in Seq(Letters)
    BY <2>1, SuffixesAssumption, ElementOfSeq
  <2>3. PICK m \in Nat : m = Len(SUFFIXES[c])
    BY <2>2
  <2> QED
    BY <1>1, <1>3, <2>1, <2>3
<1>5. S \subseteq Nat /\ S # {}
  BY <1>2, <1>4
<1>6. PICK a \in S : \A d \in S \ {a} : L[d] < L[a] \/ (L[d] = L[a] /\ a < d)
  BY <1>4, <1>5, LongestOK
<1>7. \A d \in S \ {a} :
        \/ Len(SUFFIXES[d]) < Len(SUFFIXES[a])
        \/ Len(SUFFIXES[d]) = Len(SUFFIXES[a]) /\ a < d
  BY <1>4, <1>6
<1> QED
  BY <1>2, <1>6, <1>7 DEF Ending

\* A word with an ending is its stem and that suffix.
LEMMA StemOK ==
  ASSUME NEW w \in Seq(Letters), Endings(w) # {}
  PROVE  /\ Ending(w) \in DOMAIN SUFFIXES /\ Stem(w) \in Seq(Letters)
         /\ Stem(w) \o SUFFIXES[Ending(w)] = w
<1>1. PICK k : k = Ending(w) /\ k \in Endings(w)
  BY EndingOK
<1>2. k \in DOMAIN SUFFIXES /\ SUFFIXES[k] \in Seq(Letters)
  <2>1. PICK Y : Y = Seq(Letters)
    OBVIOUS
  <2>2. SUFFIXES \in Seq(Y) /\ k \in DOMAIN SUFFIXES
    BY <1>1, <2>1, SuffixesAssumption DEF Endings
  <2>3. SUFFIXES[k] \in Y
    BY <2>2, ElementOfSeq
  <2> QED
    BY <2>1, <2>2, <2>3
<1>3. PICK m \in Nat, n \in Nat : m = Len(SUFFIXES[k]) /\ n = Len(w)
  BY <1>2
<1>4. n >= m + 2 /\ SubSeq(w, n - m + 1, n) = SUFFIXES[k]
  BY <1>1, <1>3 DEF Endings
<1>5. PICK p \in Nat : p = n - m /\ p <= n
  <2>1. n - m \in Nat /\ n - m <= n
    BY <1>4
  <2> QED
    BY <2>1
<1>6. 1 \in 1 .. Len(w) + 1 /\ p \in 1 - 1 .. Len(w) /\ n \in p .. Len(w)
  BY <1>3, <1>5
<1>7. SubSeq(w, 1, p) \o SubSeq(w, p + 1, n) = SubSeq(w, 1, n)
  BY <1>6, ConcatAdjacentSubSeq
<1>8. SubSeq(w, 1, n) = w
  BY <1>3, SubSeqFull
<1>9. Stem(w) = SubSeq(w, 1, p)
  BY <1>1, <1>3, <1>5 DEF Stem
<1>10. SubSeq(w, 1, p) \in Seq(Letters)
  <2>1. \A x \in 1 .. p : w[x] \in Letters
    BY <1>3, <1>5, ElementOfSeq
  <2> QED
    BY <1>6, <2>1, Part
<1>11. SUFFIXES[k] = SubSeq(w, p + 1, n)
  BY <1>4, <1>5
<1> QED
  BY <1>1, <1>2, <1>7, <1>8, <1>9, <1>10, <1>11

\* What is written for any other word leads behind it.
LEMMA SpelledWritten ==
  ASSUME NEW M, Writing(M), NEW w \in Seq(Letters), NextIs(w)
  PROVE  Reaches(Job, out, M, Spelled(w), i - 1 + Len(w), list, defined)
<1>1. /\ Job.text = text /\ Job.vocab = vocab /\ Job.form = form /\ Job.mode = mode
  BY DEF Job
<1>2. /\ JobOK(Job) /\ vocab \in Seq(Seq(Bytes)) /\ Len(vocab) \in Nat /\ i \in Nat
      /\ Len(vocab) <= (IF form = "extended" THEN N * N - 2 ELSE N - 1)
  BY WritingFacts
<1>3. At(Job, out, M, i - 1, list, defined)
  BY DEF Writing
<1>4. PICK r \in Nat : r = i - 1
  BY <1>2 DEF Writing
<1>5. r + Len(w) <= Len(Job.text) /\ w = SubSeq(Job.text, r + 1, r + Len(w))
  <2>1. r + 1 = i
    BY <1>2, <1>4
  <2> QED
    BY <1>1, <1>4, <2>1 DEF NextIs
<1>6. At(Job, out, M, r, list, defined)
  BY <1>3, <1>4
<1>7. CASE form = "subword"
  <2>1. Reaches(Job, out, M, UnitCodes(Pieces(w, DeriveMerges(Job.vocab))), r + Len(w), list, defined)
    BY <1>1, <1>5, <1>6, <1>7, EmitPieces
  <2>2. Spelled(w) = UnitCodes(Pieces(w, units))
    BY <1>7 DEF Spelled, UnitCodes, With
  <2>3. units = DeriveMerges(Job.vocab)
    BY <1>1, <1>7 DEF Writing
  <2> QED
    BY <1>4, <2>1, <2>2, <2>3
<1>8. CASE form = "affix" /\ Endings(w) # {} /\ Known(Stem(w))
  <2>1. PICK k \in 1 .. Len(SUFFIXES) : k = Ending(w) /\ Ending(w) \in Endings(w)
    <3>1. Ending(w) \in Endings(w)
      BY <1>8, EndingOK
    <3>2. DOMAIN SUFFIXES = 1 .. Len(SUFFIXES)
      BY SuffixesAssumption
    <3> QED
      BY <3>1, <3>2 DEF Endings
  <2>2. PICK v \in 1 .. Len(Job.vocab) : v = Index(Stem(w)) /\ Job.vocab[v] = Stem(w)
    BY <1>1, <1>2, <1>8, IndexOK
  <2>3. Stem(w) \o SUFFIXES[k] = w
    BY <1>8, <2>1, StemOK
  <2>4. PICK r2 \in 0 .. Len(Job.text) : r2 = r + Len(w) /\ Follow(Job, r, Job.vocab[v] \o SUFFIXES[k], r2)
    BY <1>4, <2>2, <2>3, NextFollows
  <2>5. v < N
    BY <1>1, <1>2, <1>8, NAssumption
  <2>6. Reaches(Job, out, M, <<ESC, N - 1, v, k - 1>>, r2, list, defined)
    BY <1>1, <1>6, <1>8, <2>4, <2>5, SuffixesAssumption, EmitAffix
  <2>7. Spelled(w) = <<ESC, N - 1, v, k - 1>>
    BY <1>8, <2>1, <2>2 DEF Spelled
  <2> QED
    BY <1>4, <2>4, <2>6, <2>7
<1>9. CASE form # "subword" /\ ~(form = "affix" /\ Endings(w) # {} /\ Known(Stem(w)))
  <2>1. Spelled(w) = w
    BY <1>9 DEF Spelled
  <2>2. Reaches(Job, out, M, w, r + Len(w), list, defined)
    BY <1>5, <1>6, EmitLetters
  <2> QED
    BY <1>4, <2>1, <2>2
<1> QED
  BY <1>7, <1>8, <1>9

-----------------------------------------------------------------------------
(* The header in the stream.                                               *)

\* FlattenSeq puts its parts behind one another, at offsets.
LEMMA PartsBehind ==
  ASSUME NEW P \in Seq(Seq(Bytes)), NEW g \in Seq(Bytes), NEW q, q = g \o FlattenSeq(P)
  PROVE  q \in Seq(Bytes) /\ Agree(g, q, Len(g)) /\ \E V : Behind(q, g, P, V)
<1>1. PICK n \in Nat, z \in Nat : n = Len(P) /\ z = Len(g)
  OBVIOUS
<1>2. CASE P = <<>>
  <2>1. FlattenSeq(P) = <<>> /\ n = 0
    BY <1>1, <1>2 DEF FlattenSeq
  <2>2. q = g
    BY <2>1, ConcatEmptySeq
  <2>3. PICK V : V = [k \in 1 .. 1 |-> z]
    OBVIOUS
  <2>4. V \in [1 .. n + 1 -> Nat] /\ V[1] = z /\ V[n + 1] = z
    BY <2>1, <2>3
  <2>5. Behind(q, g, P, V)
    BY <1>1, <2>1, <2>2, <2>4 DEF Behind
  <2> QED
    BY <2>2, <2>5 DEF Agree
<1>3. CASE P # <<>>
  <2>1. PICK f \in Seq(Bytes) : f = FlattenSeq(P)
    BY <1>3, Flattened
  <2>2. PICK o : FlatAt(f, P, n, o)
    BY <1>1, <1>3, <2>1, Flattened DEF Flat
  <2>3. Joined(q, g, f)
    BY <2>1, JoinedOK
  <2>4. PICK V : V = [k \in 1 .. n + 1 |-> z + o[k]]
    OBVIOUS
  <2>5. o \in [1 .. n + 1 -> Nat] /\ o[1] = 0 /\ Len(f) = o[n + 1]
    BY <2>2 DEF FlatAt
  <2>6. V \in [1 .. n + 1 -> Nat] /\ \A k \in 1 .. n + 1 : V[k] = z + o[k]
    BY <2>4, <2>5
  <2>7. 1 \in 1 .. n + 1 /\ n + 1 \in 1 .. n + 1
    OBVIOUS
  <2>8. V[1] = z /\ V[n + 1] = Len(q)
    BY <1>1, <2>3, <2>5, <2>6, <2>7 DEF Joined
  <2>9. ASSUME NEW k \in 1 .. n
        PROVE  /\ V[k + 1] = V[k] + Len(P[k]) /\ V[k + 1] <= V[n + 1]
               /\ \A x \in 1 .. Len(P[k]) : q[V[k] + x] = P[k][x]
    <3>1. k \in 1 .. n + 1 /\ k + 1 \in 1 .. n + 1
      OBVIOUS
    <3>2. PICK a \in Nat, b \in Nat, e \in Nat : a = o[k] /\ b = o[k + 1] /\ e = o[n + 1]
      BY <2>5, <2>7, <3>1
    <3>3. PICK m \in Nat : m = Len(P[k])
      <4>1. P[k] \in Seq(Bytes)
        BY <1>1, ElementOfSeq
      <4> QED
        BY <4>1
    <3>4. b = a + m /\ b <= e /\ \A x \in 1 .. m : f[a + x] = P[k][x]
      BY <2>2, <3>2, <3>3 DEF FlatAt
    <3>5. V[k] = z + a /\ V[k + 1] = z + b /\ V[n + 1] = z + e
      BY <2>6, <2>7, <3>1, <3>2
    <3>6. \A x \in 1 .. m : q[z + a + x] = P[k][x]
      <4> TAKE x \in 1 .. m
      <4>1. a + x \in 1 .. Len(f) /\ z + (a + x) = z + a + x
        <5>1. a + x \in 1 .. e /\ z + (a + x) = z + a + x
          BY <3>4
        <5>2. e = Len(f)
          BY <2>5, <3>2
        <5> QED
          BY <5>1, <5>2
      <4>2. q[z + (a + x)] = f[a + x]
        BY <1>1, <2>3, <4>1 DEF Joined
      <4> QED
        BY <3>4, <4>1, <4>2
    <3>7. z + b = z + a + m /\ z + b <= z + e
      BY <3>4
    <3> QED
      BY <3>3, <3>5, <3>6, <3>7
  <2>10. Behind(q, g, P, V)
    BY <1>1, <2>6, <2>8, <2>9 DEF Behind
  <2> QED
    BY <2>3, <2>10 DEF Joined
<1> QED
  BY <1>2, <1>3

\* An entry is its length and its bytes.
LEMMA EntryOK ==
  ASSUME NEW w \in Seq(Bytes), Len(w) < N
  PROVE  /\ Entry(w) \in Seq(Bytes) /\ Len(Entry(w)) = 1 + Len(w) /\ Entry(w)[1] = Len(w)
         /\ \A x \in 1 .. Len(w) : Entry(w)[1 + x] = w[x]
<1>1. PICK n \in Bytes : n = Len(w)
  <2>1. PICK n \in Nat : n = Len(w)
    OBVIOUS
  <2>2. n \in Bytes
    BY <2>1, NAssumption DEF Bytes
  <2> QED
    BY <2>1, <2>2
<1>2. n \in Nat /\ n < N /\ n % N = n
  <2>1. n \in Nat /\ N \in Nat /\ n < N
    BY NAssumption DEF Bytes
  <2> QED
    BY <2>1, SmallRest
<1>3. PICK h \in Seq(Bytes) : h = <<n>> /\ Len(h) = 1 /\ h[1] = n
  <2>1. <<n>> \in Seq(Bytes)
    OBVIOUS
  <2> QED
    BY <2>1
<1>4. Joined(h \o w, h, w)
  BY JoinedOK
<1>5. Entry(w) = h \o w
  BY <1>1, <1>2, <1>3 DEF Entry
<1>6. PICK g \in Seq(Bytes) : g = h \o w
  BY <1>4 DEF Joined
<1>7. Len(g) = 1 + n
  BY <1>1, <1>3, <1>4, <1>6 DEF Joined
<1>8. g[1] = n
  BY <1>3, <1>4, <1>6 DEF Joined, Agree
<1>9. \A x \in 1 .. n : g[1 + x] = w[x]
  BY <1>1, <1>3, <1>4, <1>6 DEF Joined
<1> QED
  BY <1>1, <1>5, <1>6, <1>7, <1>8, <1>9

\* What u and w share.
Shares(u, w, s) == s <= Len(u) /\ s <= Len(w) /\ \A x \in 1 .. s : u[x] = w[x]

\* The shared prefix exists: its CHOOSE has something to choose.
LEMMA SharedOK ==
  ASSUME NEW u \in Seq(Bytes), NEW w \in Seq(Bytes)
  PROVE  Shared(u, w) \in Nat /\ Shares(u, w, Shared(u, w))
<1>1. PICK m \in Nat, n \in Nat : m = Len(u) /\ n = Len(w)
  OBVIOUS
<1>2. PICK S : S = {k \in Nat : k <= m /\ k <= n /\ (k = m \/ k = n \/ u[k + 1] # w[k + 1])}
  OBVIOUS
<1>3. S \subseteq Nat /\ S # {}
  <2>1. (IF m < n THEN m ELSE n) \in S
    BY <1>2
  <2> QED
    BY <1>2, <2>1
<1>4. PICK s \in S : \A k \in S : s <= k
  BY <1>3, LeastNumber
<1>5. s \in 0 .. m /\ s <= n /\ (s = m \/ s = n \/ u[s + 1] # w[s + 1])
  BY <1>2, <1>4
<1>6. \A x \in 1 .. s : u[x] = w[x]
  <2> TAKE x \in 1 .. s
  <2>1. PICK y \in Nat : y = x - 1 /\ x = y + 1 /\ y < s
    BY <1>5
  <2>2. y \notin S
    BY <1>4, <1>5, <2>1
  <2>3. y <= m /\ y <= n /\ y # m /\ y # n
    BY <1>5, <2>1
  <2>4. u[y + 1] = w[y + 1]
    BY <1>2, <2>2, <2>3
  <2> QED
    BY <2>1, <2>4
<1>7. Shared(u, w) \in 0 .. m /\ Shared(u, w) <= n /\ \A k \in 1 .. Shared(u, w) : u[k] = w[k]
  <2>1. \E k \in 0 .. Len(u) : /\ k <= Len(w) /\ (\A x \in 1 .. k : u[x] = w[x])
                              /\ (k = Len(u) \/ k = Len(w) \/ u[k + 1] # w[k + 1])
    BY <1>1, <1>5, <1>6
  <2> QED
    BY <1>1, <2>1 DEF Shared
<1> QED
  BY <1>1, <1>7 DEF Shares

\* A front-coded entry is two lengths and the rest of the word.
LEMMA FrontEntryOK ==
  ASSUME NEW u \in Seq(Bytes), NEW w \in Seq(Bytes), Len(w) < N
  PROVE  \E s \in Nat : /\ Shares(u, w, s) /\ s <= Len(w)
                        /\ FrontEntry(u, w) \in Seq(Bytes)
                        /\ Len(FrontEntry(u, w)) = 2 + (Len(w) - s)
                        /\ FrontEntry(u, w)[1] = s /\ FrontEntry(u, w)[2] = Len(w) - s
                        /\ \A x \in 1 .. Len(w) - s : FrontEntry(u, w)[2 + x] = w[s + x]
<1>1. PICK s \in Nat : s = Shared(u, w) /\ Shares(u, w, s)
  BY SharedOK
<1>2. PICK n \in Nat, m \in Nat : n = Len(w) /\ s <= n /\ m = n - s /\ m < N /\ s < N /\ n < N
  <2>1. PICK n \in Nat : n = Len(w)
    OBVIOUS
  <2>2. s <= n
    BY <1>1, <2>1 DEF Shares
  <2> QED
    BY <2>1, <2>2, NAssumption
<1>3. PICK t \in Seq(Bytes) : t = SubSeq(w, s + 1, n) /\ Len(t) = m /\ \A x \in 1 .. m : t[x] = w[s + x]
  <2>1. PICK p \in 1 .. Len(w) + 1 : p = s + 1
    BY <1>2
  <2>2. n \in p - 1 .. Len(w) /\ \A k \in p .. n : w[k] \in Bytes
    BY <1>2, <2>1
  <2>3. SubSeq(w, p, n) \in Seq(Bytes)
    BY <2>2, Part
  <2>4. Len(SubSeq(w, p, n)) = n - p + 1
    BY <2>2, Part
  <2>5. \A k \in 1 .. n - p + 1 : SubSeq(w, p, n)[k] = w[p + k - 1]
    BY <2>2, Part
  <2>6. n - p + 1 = m /\ \A k \in 1 .. m : p + k - 1 = s + k
    BY <1>2, <2>1
  <2>7. PICK t \in Seq(Bytes) : t = SubSeq(w, p, n)
    BY <2>3
  <2>8. Len(t) = m
    BY <2>4, <2>6, <2>7
  <2>9. \A x \in 1 .. m : t[x] = w[s + x]
    BY <2>5, <2>6, <2>7
  <2>10. t = SubSeq(w, s + 1, n)
    BY <2>1, <2>7
  <2> QED
    BY <2>8, <2>9, <2>10
<1>4. PICK e \in Seq(Bytes) : e = Entry(t) /\ Len(e) = 1 + m /\ e[1] = m /\ \A x \in 1 .. m : e[1 + x] = t[x]
  <2>1. Len(t) < N
    BY <1>2, <1>3
  <2>2. Entry(t) \in Seq(Bytes)
    BY <2>1, EntryOK
  <2>3. Len(Entry(t)) = 1 + Len(t) /\ Entry(t)[1] = Len(t)
    BY <2>1, EntryOK
  <2>4. \A x \in 1 .. Len(t) : Entry(t)[1 + x] = t[x]
    BY <2>1, EntryOK
  <2>5. Len(t) = m
    BY <1>3
  <2> QED
    BY <2>2, <2>3, <2>4, <2>5
<1>5. PICK h \in Seq(Bytes) : h = <<s>> /\ Len(h) = 1 /\ h[1] = s
  <2>1. PICK b \in Bytes : b = s
    BY <1>2, NAssumption DEF Bytes
  <2>2. <<b>> \in Seq(Bytes)
    OBVIOUS
  <2> QED
    BY <2>1, <2>2
<1>6. FrontEntry(u, w) = h \o e
  BY <1>1, <1>2, <1>3, <1>4, <1>5 DEF FrontEntry
<1>7. Joined(h \o e, h, e)
  BY JoinedOK
<1>8. PICK g \in Seq(Bytes) : g = h \o e
  BY <1>7 DEF Joined
<1>9. Len(g) = 2 + m /\ g[1] = s
  BY <1>2, <1>4, <1>5, <1>7, <1>8 DEF Joined, Agree
<1>10. \A x \in 1 .. 1 + m : g[1 + x] = e[x]
  BY <1>2, <1>4, <1>5, <1>7, <1>8 DEF Joined
<1>11. g[2] = m
  <2>1. 1 \in 1 .. 1 + m /\ 1 + 1 = 2
    BY <1>2
  <2>2. g[1 + 1] = e[1]
    BY <1>10, <2>1
  <2> QED
    BY <1>4, <2>1, <2>2
<1>12. \A x \in 1 .. m : g[2 + x] = w[s + x]
  <2> TAKE x \in 1 .. m
  <2>1. 1 + x \in 1 .. 1 + m /\ 1 + (1 + x) = 2 + x
    BY <1>2
  <2>2. g[1 + (1 + x)] = e[1 + x]
    BY <1>10, <2>1
  <2> QED
    BY <1>3, <1>4, <2>1, <2>2
<1> QED
  BY <1>1, <1>2, <1>6, <1>8, <1>9, <1>11, <1>12

\* An entry stays where it is when the stream grows.
LEMMA EntryGrows ==
  ASSUME NEW c, NEW o, NEW q, NEW a \in Nat, NEW b \in Nat, NEW k, c.vocab[k] \in Seq(Bytes),
         Agree(o, q, b), EntryAt(c, o, a, b, k)
  PROVE  EntryAt(c, q, a, b, k)
<1>1. PICK n \in Nat : n = Len(c.vocab[k])
  OBVIOUS
<1>2. CASE c.form = "front"
  <2>1. PICK s \in Nat : FrontAs(c, o, a, k, s) /\ b = a + 2 + (n - s)
    BY <1>1, <1>2 DEF EntryAt
  <2>2. s <= n
    BY <1>1, <2>1 DEF FrontAs
  <2>3. \A x \in 1 .. 2 + (n - s) : o[a + x] = q[a + x]
    <3> TAKE x \in 1 .. 2 + (n - s)
    <3>1. a + x \in 1 .. b
      BY <2>1, <2>2
    <3> QED
      BY <3>1 DEF Agree
  <2>4. o[a + 1] = q[a + 1] /\ o[a + 2] = q[a + 2]
    BY <2>2, <2>3
  <2>5. \A x \in 1 .. n - s : o[a + 2 + x] = q[a + 2 + x]
    <3> TAKE x \in 1 .. n - s
    <3>1. 2 + x \in 1 .. 2 + (n - s) /\ a + (2 + x) = a + 2 + x
      BY <2>2
    <3> QED
      BY <2>3, <3>1
  <2>6. FrontAs(c, q, a, k, s)
    BY <1>1, <2>1, <2>4, <2>5 DEF FrontAs
  <2> QED
    BY <1>1, <1>2, <2>1, <2>6 DEF EntryAt
<1>3. CASE c.form # "front"
  <2>1. PlainAt(c, o, a, k) /\ b = a + 1 + n
    BY <1>1, <1>3 DEF EntryAt
  <2>2. \A x \in 1 .. 1 + n : o[a + x] = q[a + x]
    <3> TAKE x \in 1 .. 1 + n
    <3>1. a + x \in 1 .. b
      BY <2>1
    <3> QED
      BY <3>1 DEF Agree
  <2>3. o[a + 1] = q[a + 1]
    BY <2>2
  <2>4. \A x \in 1 .. n : o[a + 1 + x] = q[a + 1 + x]
    <3> TAKE x \in 1 .. n
    <3>1. 1 + x \in 1 .. 1 + n /\ a + (1 + x) = a + 1 + x
      OBVIOUS
    <3> QED
      BY <2>2, <3>1
  <2>5. PlainAt(c, q, a, k)
    BY <1>1, <2>1, <2>3, <2>4 DEF PlainAt
  <2> QED
    BY <1>1, <1>3, <2>1, <2>5 DEF EntryAt
<1> QED
  BY <1>2, <1>3

\* So does the header.
LEMMA HeadGrows ==
  ASSUME NEW c, c.vocab \in Seq(Seq(Bytes)), NEW o \in Seq(Bytes), NEW code \in Seq(Bytes),
         NEW M, NEW M2, M \subseteq M2, NEW V, HeadOK(c, o, M, V)
  PROVE  HeadOK(c, o \o code, M2, V)
<1>1. CASE c.form = "firstuse"
  BY <1>1 DEF HeadOK
<1>2. CASE c.form # "firstuse"
  <2>1. EntriesAt(c, o, V) /\ CountAt(c, o) = Len(c.vocab) /\ FirstMark(c, V[Len(c.vocab) + 1]) \in M
    BY <1>2 DEF HeadOK
  <2>2. PICK n \in Nat : n = Len(c.vocab)
    OBVIOUS
  <2>3. PICK q \in Seq(Bytes), z \in Nat, y \in Nat :
           q = o \o code /\ z = Len(o) /\ y = Len(q) /\ z <= y /\ Agree(o, q, z)
    <3>1. Joined(o \o code, o, code)
      BY JoinedOK
    <3>2. PICK z \in Nat, e \in Nat : z = Len(o) /\ e = Len(code)
      OBVIOUS
    <3>3. PICK q \in Seq(Bytes) : q = o \o code
      BY <3>1 DEF Joined
    <3>4. Len(q) = z + e /\ Agree(o, q, z)
      BY <3>1, <3>2, <3>3 DEF Joined
    <3>5. PICK y \in Nat : y = z + e /\ z <= y
      OBVIOUS
    <3>6. y = Len(q)
      BY <3>4, <3>5
    <3> QED
      BY <3>2, <3>3, <3>4, <3>5, <3>6
  <2>4. V \in [1 .. n + 1 -> Nat] /\ V[1] = Lead(c) /\ Lead(c) <= z /\ V[n + 1] <= z
    BY <2>1, <2>2, <2>3 DEF EntriesAt
  <2>5. ASSUME NEW k \in 1 .. n PROVE V[k + 1] <= V[n + 1] /\ EntryAt(c, q, V[k], V[k + 1], k)
    <3>1. V[k + 1] <= V[n + 1] /\ EntryAt(c, o, V[k], V[k + 1], k)
      BY <2>1, <2>2 DEF EntriesAt
    <3>2. PICK a \in Nat, b \in Nat, f \in Nat : a = V[k] /\ b = V[k + 1] /\ f = V[n + 1]
      <4>1. k \in 1 .. n + 1 /\ k + 1 \in 1 .. n + 1 /\ n + 1 \in 1 .. n + 1
        BY <2>2
      <4>2. V[k] \in Nat /\ V[k + 1] \in Nat /\ V[n + 1] \in Nat
        BY <2>4, <4>1
      <4> QED
        BY <4>2
    <3>3. b <= z
      BY <2>4, <3>1, <3>2
    <3>4. Agree(o, q, b)
      BY <2>3, <3>3 DEF Agree
    <3>5. c.vocab[k] \in Seq(Bytes)
      BY <2>2, ElementOfSeq
    <3>6. EntryAt(c, q, a, b, k)
      BY <3>1, <3>2, <3>4, <3>5, EntryGrows
    <3> QED
      BY <3>1, <3>2, <3>6
  <2>6. EntriesAt(c, q, V)
    <3>1. Lead(c) <= y /\ V[n + 1] <= y
      <4>1. PICK f \in Nat, g \in Nat : f = Lead(c) /\ g = V[n + 1]
        <5>1. Lead(c) \in Nat
          BY DEF Lead
        <5>2. n + 1 \in 1 .. n + 1
          OBVIOUS
        <5>3. V[n + 1] \in Nat
          BY <2>4, <5>2
        <5> QED
          BY <5>1, <5>3
      <4> QED
        BY <2>3, <2>4, <4>1
    <3> QED
      BY <2>2, <2>3, <2>4, <2>5, <3>1 DEF EntriesAt
  <2>7. CountAt(c, q) = CountAt(c, o)
    <3>1. CASE c.form = "extended"
      <4>1. 1 \in 1 .. z /\ 2 \in 1 .. z
        BY <2>4, <3>1 DEF Lead
      <4> QED
        BY <2>3, <3>1, <4>1 DEF CountAt, Agree
    <3>2. CASE c.form # "extended"
      <4>1. 1 \in 1 .. z
        BY <2>4, <3>2 DEF Lead
      <4> QED
        BY <2>3, <3>2, <4>1 DEF CountAt, Agree
    <3> QED
      BY <3>1, <3>2
  <2> QED
    BY <1>2, <2>1, <2>3, <2>6, <2>7 DEF HeadOK
<1> QED
  BY <1>1, <1>2

-----------------------------------------------------------------------------
(* The header that the encoder writes.                                     *)

\* The parts of the header are bytes.
LEMMA HeaderParts ==
  ASSUME JobOK(Job)
  PROVE  [k \in 1 .. Len(vocab) |-> HeaderPart(k)] \in Seq(Seq(Bytes))
<1>1. PICK n \in Nat : n = Len(vocab) /\ vocab \in Seq(Seq(Bytes)) /\ \A k \in 1 .. n : Len(vocab[k]) < N
  BY DEF JobOK, Job
<1>2. ASSUME NEW k \in 1 .. n PROVE HeaderPart(k) \in Seq(Bytes)
  <2>1. vocab[k] \in Seq(Bytes) /\ Len(vocab[k]) < N
    BY <1>1
  <2>2. CASE form = "front"
    <3>1. (IF k = 1 THEN <<>> ELSE vocab[k - 1]) \in Seq(Bytes)
      BY <1>1
    <3>2. PICK u \in Seq(Bytes) : u = IF k = 1 THEN <<>> ELSE vocab[k - 1]
      BY <3>1
    <3>3. FrontEntry(u, vocab[k]) \in Seq(Bytes)
      BY <2>1, FrontEntryOK
    <3> QED
      BY <2>2, <3>2, <3>3 DEF HeaderPart
  <2>3. CASE form # "front"
    <3>1. Entry(vocab[k]) \in Seq(Bytes)
      BY <2>1, EntryOK
    <3> QED
      BY <2>3, <3>1 DEF HeaderPart
  <2> QED
    BY <2>2, <2>3
<1>3. PICK Y : Y = Seq(Bytes)
  OBVIOUS
<1>4. [k \in 1 .. n |-> HeaderPart(k)] \in [1 .. n -> Y]
  BY <1>2, <1>3
<1>5. [k \in 1 .. n |-> HeaderPart(k)] \in Seq(Y)
  BY <1>4, Listed
<1> QED
  BY <1>1, <1>3, <1>5

\* Before the entries.
HeaderLead == IF form = "extended" THEN <<Len(vocab) % N, Len(vocab) \div N>> ELSE <<Len(vocab) % N>>

\* Header is its lead and its parts.
LEMMA HeaderIs ==
  ASSUME form # "firstuse"
  PROVE  Header = HeaderLead \o FlattenSeq([k \in 1 .. Len(vocab) |-> HeaderPart(k)])
<1>1. CASE form = "extended"
  BY <1>1 DEF Header, HeaderLead, HeaderPart
<1>2. CASE form = "front"
  BY <1>2 DEF Header, HeaderLead, HeaderPart
<1>3. CASE form # "extended" /\ form # "front"
  BY <1>3 DEF Header, HeaderLead, HeaderPart
<1> QED
  BY <1>1, <1>2, <1>3

\* What the encoder starts with is a header, and a trace of one mark.
LEMMA HeaderWritten ==
  ASSUME JobOK(Job)
  PROVE  /\ Header \in Seq(Bytes)
         /\ \E V : HeadOK(Job, Header, {Mark(Len(Header), 0, NewList(Len(vocab)), {})}, V)
<1>1. /\ Job.text = text /\ Job.vocab = vocab /\ Job.form = form /\ Job.mode = mode
  BY DEF Job
<1>2. PICK n \in Nat : /\ n = Len(vocab) /\ vocab \in Seq(Seq(Bytes)) /\ \A k \in 1 .. n : Len(vocab[k]) < N
                       /\ n <= Capacity(form)
  BY <1>1 DEF JobOK
<1>3. CASE form = "firstuse"
  <2>1. Header = <<>>
    BY <1>3 DEF Header
  <2>2. Len(<<>>) = 0 /\ <<>> \in Seq(Bytes)
    OBVIOUS
  <2> QED
    BY <1>1, <1>3, <2>1, <2>2 DEF HeadOK, FirstMark
<1>4. CASE form # "firstuse"
  <2>1. PICK h \in Seq(Bytes) : /\ h = HeaderLead /\ Len(h) = Lead(Job)
                                /\ form = "extended" => h[1] + N * h[2] = n
                                /\ form # "extended" => h[1] = n
    <3>1. CASE form = "extended"
      <4>1. n < N * N
        BY <1>2, <3>1, NAssumption DEF Capacity
      <4>2. PICK x \in Bytes, y \in Bytes : x = n % N /\ y = n \div N /\ n = N * y + x
        BY <4>1, Digits
      <4>3. PICK h : h = <<x, y>>
        OBVIOUS
      <4>4. h \in Seq(Bytes)
        BY <4>3
      <4>5. Len(h) = 2 /\ h[1] = x /\ h[2] = y
        BY <4>3
      <4>6. h = HeaderLead
        BY <1>2, <3>1, <4>2, <4>3 DEF HeaderLead
      <4>7. x + N * y = n
        <5>1. N * y \in Int /\ x \in Int
          BY NAssumption DEF Bytes
        <5> QED
          BY <4>2, <5>1
      <4> QED
        BY <1>1, <3>1, <4>4, <4>5, <4>6, <4>7 DEF Lead
    <3>2. CASE form # "extended"
      <4>1. n % N = n /\ n \in Bytes
        <5>1. n <= N - 1
          BY <1>2, <3>2, NAssumption DEF Capacity, MAX_TOKENS, RESERVED_MAX
        <5> QED
          BY <5>1, NAssumption DEF Bytes
      <4>2. <<n>> \in Seq(Bytes)
        BY <4>1
      <4>3. PICK h \in Seq(Bytes) : h = <<n>> /\ Len(h) = 1 /\ h[1] = n
        BY <4>2
      <4>4. h = HeaderLead
        BY <1>2, <3>2, <4>1, <4>3 DEF HeaderLead
      <4> QED
        BY <1>1, <3>2, <4>3, <4>4 DEF Lead
    <3> QED
      BY <3>1, <3>2
  <2>2. PICK P : P = [k \in 1 .. n |-> HeaderPart(k)]
    OBVIOUS
  <2>3. P \in Seq(Seq(Bytes)) /\ Len(P) = n
    BY <1>2, <2>2, HeaderParts
  <2>4. PICK q : q = h \o FlattenSeq(P) /\ q = Header
    BY <1>2, <1>4, <2>1, <2>2, HeaderIs
  <2>5. q \in Seq(Bytes) /\ Agree(h, q, Len(h)) /\ \E V : Behind(q, h, P, V)
    BY <2>3, <2>4, PartsBehind
  <2>6. PICK V : Behind(q, h, P, V)
    BY <2>5
  <2>7. V \in [1 .. n + 1 -> Nat] /\ V[1] = Len(h) /\ V[n + 1] = Len(q)
    BY <2>3, <2>6 DEF Behind
  <2>8. ASSUME NEW k \in 1 .. n PROVE V[k + 1] <= V[n + 1] /\ EntryAt(Job, q, V[k], V[k + 1], k)
    <3>1. V[k + 1] = V[k] + Len(P[k]) /\ V[k + 1] <= V[n + 1] /\ \A x \in 1 .. Len(P[k]) : q[V[k] + x] = P[k][x]
      BY <2>3, <2>6 DEF Behind
    <3>2. PICK a \in Nat, b \in Nat : a = V[k] /\ b = V[k + 1]
      BY <2>7
    <3>3. PICK w \in Seq(Bytes), z \in Nat : w = vocab[k] /\ z = Len(w) /\ z < N
      <4>1. vocab[k] \in Seq(Bytes)
        BY <1>2, ElementOfSeq
      <4> QED
        BY <1>2, <4>1
    <3>4. CASE form = "front"
      <4>1. PICK u \in Seq(Bytes) : u = IF k = 1 THEN <<>> ELSE vocab[k - 1]
        <5>1. CASE k = 1
          <6>1. <<>> \in Seq(Bytes)
            OBVIOUS
          <6> QED
            BY <5>1, <6>1
        <5>2. CASE k # 1
          <6>1. k - 1 \in 1 .. Len(vocab)
            BY <1>2, <5>2
          <6>2. vocab[k - 1] \in Seq(Bytes)
            BY <1>2, <6>1
          <6> QED
            BY <5>2, <6>2
        <5> QED
          BY <5>1, <5>2
      <4>2. PICK p : p = P[k] /\ p = FrontEntry(u, w)
        BY <2>2, <3>3, <3>4, <4>1 DEF HeaderPart
      <4>3. PICK s \in Nat : /\ Shares(u, w, s) /\ s <= z /\ Len(p) = 2 + (z - s)
                            /\ p[1] = s /\ p[2] = z - s /\ \A x \in 1 .. z - s : p[2 + x] = w[s + x]
        <5>1. Len(w) < N
          BY <3>3
        <5>2. PICK s \in Nat : /\ Shares(u, w, s) /\ s <= Len(w) /\ Len(FrontEntry(u, w)) = 2 + (Len(w) - s)
                              /\ FrontEntry(u, w)[1] = s /\ FrontEntry(u, w)[2] = Len(w) - s
                              /\ \A x \in 1 .. Len(w) - s : FrontEntry(u, w)[2 + x] = w[s + x]
          BY <5>1, FrontEntryOK
        <5> QED
          BY <3>3, <4>2, <5>2
      <4>4. \A x \in 1 .. 2 + (z - s) : q[a + x] = p[x]
        BY <3>1, <3>2, <4>2, <4>3
      <4>5. q[a + 1] = s /\ q[a + 2] = z - s
        BY <4>3, <4>4
      <4>6. \A x \in 1 .. z - s : q[a + 2 + x] = w[s + x]
        <5> TAKE x \in 1 .. z - s
        <5>1. 2 + x \in 1 .. 2 + (z - s) /\ a + (2 + x) = a + 2 + x
          BY <4>3
        <5>2. q[a + (2 + x)] = p[2 + x]
          BY <4>4, <5>1
        <5> QED
          BY <4>3, <5>1, <5>2
      <4>7. FrontAs(Job, q, a, k, s)
        BY <1>1, <3>3, <4>1, <4>3, <4>5, <4>6 DEF FrontAs, Previous, Shares
      <4>8. b = a + 2 + (z - s)
        <5>1. b = a + Len(p)
          BY <3>1, <3>2, <4>2
        <5>2. Len(p) = 2 + (z - s) /\ s \in Nat
          BY <4>3
        <5>3. b = a + (2 + (z - s))
          BY <5>1, <5>2
        <5> QED
          BY <5>2, <5>3
      <4> QED
        BY <1>1, <3>1, <3>2, <3>3, <3>4, <4>7, <4>8 DEF EntryAt
    <3>5. CASE form # "front"
      <4>1. PICK p : p = P[k] /\ p = Entry(w)
        BY <2>2, <3>3, <3>5 DEF HeaderPart
      <4>2. Len(p) = 1 + z /\ p[1] = z /\ \A x \in 1 .. z : p[1 + x] = w[x]
        BY <3>3, <4>1, EntryOK
      <4>3. \A x \in 1 .. 1 + z : q[a + x] = p[x]
        BY <3>1, <3>2, <4>1, <4>2
      <4>4. q[a + 1] = z
        BY <4>2, <4>3
      <4>5. \A x \in 1 .. z : q[a + 1 + x] = w[x]
        <5> TAKE x \in 1 .. z
        <5>1. 1 + x \in 1 .. 1 + z /\ a + (1 + x) = a + 1 + x
          OBVIOUS
        <5>2. q[a + (1 + x)] = p[1 + x]
          BY <4>3, <5>1
        <5> QED
          BY <4>2, <5>1, <5>2
      <4>6. PlainAt(Job, q, a, k)
        BY <1>1, <3>3, <4>4, <4>5 DEF PlainAt
      <4>7. b = a + 1 + z
        <5>1. b = a + Len(p)
          BY <3>1, <3>2, <4>1
        <5>2. Len(p) = 1 + z
          BY <4>2
        <5>3. b = a + (1 + z)
          BY <5>1, <5>2
        <5> QED
          BY <5>3
      <4> QED
        BY <1>1, <3>1, <3>2, <3>3, <3>5, <4>6, <4>7 DEF EntryAt
    <3> QED
      BY <3>4, <3>5
  <2>9. Lead(Job) <= Len(q)
    <3>1. PICK f \in Nat, g \in Nat : f = Lead(Job) /\ g = Len(q) /\ V[1] = f /\ V[n + 1] = g
      <4>1. Len(q) \in Nat /\ Lead(Job) \in Nat
        BY <2>5 DEF Lead
      <4> QED
        BY <2>1, <2>7, <4>1
    <3>2. CASE n = 0
      BY <3>1, <3>2
    <3>3. CASE n # 0
      <4>1. 1 \in 1 .. n
        BY <3>3
      <4>2. PICK b \in Nat, m \in Nat : b = V[2] /\ m = Len(P[1])
        <5>1. P[1] \in Seq(Bytes)
          BY <2>3, <4>1, ElementOfSeq
        <5>2. 2 \in 1 .. n + 1
          BY <4>1
        <5> QED
          BY <2>7, <5>1, <5>2
      <4>3. V[1 + 1] = V[1] + Len(P[1]) /\ V[1 + 1] <= V[n + 1]
        BY <2>3, <2>6, <4>1 DEF Behind
      <4>4. b = f + m /\ b <= g
        BY <3>1, <4>2, <4>3
      <4> QED
        BY <3>1, <4>4
    <3> QED
      BY <3>2, <3>3
  <2>10. V[n + 1] <= Len(q)
    BY <2>5, <2>7
  <2>11. EntriesAt(Job, q, V)
    BY <1>1, <1>2, <2>1, <2>7, <2>8, <2>9, <2>10 DEF EntriesAt
  <2>12. CountAt(Job, q) = n
    <3>1. CASE form = "extended"
      <4>1. Len(h) = 2 /\ 1 \in 1 .. Len(h) /\ 2 \in 1 .. Len(h)
        BY <1>1, <2>1, <3>1 DEF Lead
      <4> QED
        BY <1>1, <2>1, <2>5, <3>1, <4>1 DEF CountAt, Agree
    <3>2. CASE form # "extended"
      <4>1. Len(h) = 1 /\ 1 \in 1 .. Len(h)
        BY <1>1, <2>1, <3>2 DEF Lead
      <4> QED
        BY <1>1, <2>1, <2>5, <3>2, <4>1 DEF CountAt, Agree
    <3> QED
      BY <3>1, <3>2
  <2>13. FirstMark(Job, V[n + 1]) \in {Mark(Len(Header), 0, NewList(Len(vocab)), {})}
    BY <1>1, <2>4, <2>7 DEF FirstMark
  <2>14. HeadOK(Job, q, {Mark(Len(Header), 0, NewList(Len(vocab)), {})}, V)
    BY <1>1, <1>2, <1>4, <2>11, <2>12, <2>13 DEF HeadOK
  <2> QED
    BY <2>4, <2>5, <2>14
<1> QED
  BY <1>3, <1>4

-----------------------------------------------------------------------------
(* The invariant: what is written so far has a trace and, in the decoder's *)
(* stages, the decoder is at one of its marks.                             *)

\* The parts of the job.
LEMMA JobIs ==
  /\ Job.text = text /\ Job.vocab = vocab /\ Job.form = form /\ Job.mode = mode
  BY DEF Job

\* A job's texts, vocabularies and sizes.
LEMMA JobFacts ==
  ASSUME JobOK(Job)
  PROVE  /\ text \in Seq(Bytes) /\ vocab \in Seq(Seq(Bytes)) /\ Len(text) \in Nat /\ Len(vocab) \in Nat
         /\ form \in {"list", "firstuse", "subword", "extended", "phrase", "front", "affix"}
         /\ form # "list" => mode = "Static"
         /\ Len(vocab) <= (IF form = "extended" THEN N * N - 2 ELSE N - 1)
         /\ form \in {"firstuse", "subword", "affix"} => Len(vocab) <= N - 2
<1>1. /\ text \in Seq(Bytes) /\ vocab \in Seq(Seq(Bytes))
      /\ form \in {"list", "firstuse", "subword", "extended", "phrase", "front", "affix"}
      /\ form # "list" => mode = "Static"
      /\ Len(vocab) <= Capacity(form)
  BY JobIs DEF JobOK
<1>2. Len(text) \in Nat /\ Len(vocab) \in Nat
  BY <1>1
<1>3. Len(vocab) <= (IF form = "extended" THEN N * N - 2 ELSE N - 1)
  BY <1>1, <1>2, NAssumption DEF Capacity, RESERVED_MAX, MAX_TOKENS
<1>4. form \in {"firstuse", "subword", "affix"} => Len(vocab) <= N - 2
  BY <1>1 DEF Capacity, RESERVED_MAX
<1> QED
  BY <1>1, <1>2, <1>3, <1>4

-----------------------------------------------------------------------------
(* Where it starts.                                                        *)

\* The invariant at the start.
LEMMA RestoresInit == Init => Restores
<1>1. StreamInit => Restores
  BY DEF StreamInit, Restores
<1>2. SUFFICES ASSUME EncodeInit, EntriesFit PROVE JobOK(Job) /\ \E M, V : Restoring(M, V)
  <2>1. EncodeInit => trail # {}
    BY DEF EncodeInit
  <2> QED
    BY <1>1, <2>1 DEF Init, Restores
<1>3. text \in Seq(Bytes) /\ vocab \in Seq(Seq(Bytes)) /\ Len(vocab) <= Capacity(form) /\ form \in Forms
  <2>1. text \in Texts /\ form \in Forms /\ vocab \in VocabChoices
    BY <1>2 DEF EncodeInit
  <2>2. text \in Seq(Bytes)
    BY <2>1, TextsAssumption DEF Bytes
  <2> QED
    BY <2>1, <2>2, VocabOK
<1>4. JobOK(Job)
  <2>1. form \in {"list", "firstuse", "subword", "extended", "phrase", "front", "affix"}
    BY <1>3, FormsAssumption
  <2>2. form # "list" => mode = "Static"
    BY <1>2 DEF EncodeInit
  <2>3. \A k \in 1 .. Len(vocab) : Len(vocab[k]) < N
    BY <1>2, <1>3 DEF EntriesFit
  <2> QED
    BY <1>3, <2>1, <2>2, <2>3, JobIs DEF JobOK
<1>5. PICK l : l = NewList(Len(vocab))
  OBVIOUS
<1>6. PICK M : M = {Mark(Len(Header), 0, l, {})}
  OBVIOUS
<1>7. PICK V : HeadOK(Job, Header, M, V)
  BY <1>4, <1>5, <1>6, HeaderWritten
<1>8. /\ out = Header /\ list = l /\ defined = {} /\ i = 1 /\ j = 1 /\ back = <<>> /\ stage = "encode"
      /\ trail = {[at |-> Len(out), read |-> 0, order |-> list.order, defined |-> {}]}
      /\ form = "subword" => units = DeriveMerges(vocab)
  BY <1>2, <1>5 DEF EncodeInit, Start
<1>9. out \in Seq(Bytes) /\ Len(out) \in Nat
  BY <1>4, <1>8, HeaderWritten
<1>10. \A m \in M : /\ m.at = Len(out) /\ m.read = 0 /\ m.list = l /\ m.defined = {}
                   /\ m = Mark(Len(out), i - 1, list, defined)
  BY <1>6, <1>8 DEF Mark
<1>11. Trace(Job, out, M)
  <2>1. \A m \in M : MarkOK(Job, m, Len(out))
    <3>1. Len(text) \in Nat
      BY <1>3
    <3>2. 0 \in 0 .. Len(text) /\ Len(out) \in 0 .. Len(out)
      BY <1>9, <3>1
    <3> QED
      BY <1>5, <1>10, <3>2, JobIs DEF MarkOK
  <2>2. \A m, m2 \in M : m = m2
    BY <1>6
  <2>3. \A m \in M : ~(m.at < Len(out))
    BY <1>9, <1>10
  <2> QED
    BY <1>9, <2>1, <2>2, <2>3 DEF Trace
<1>12. Followed(M)
  BY <1>6, <1>8 DEF Followed, Mark
<1>13. Writing(M)
  <2>1. Mark(Len(out), i - 1, list, defined) \in M
    BY <1>6, <1>10
  <2>2. At(Job, out, M, i - 1, list, defined)
    BY <1>4, <1>11, <2>1 DEF At
  <2>3. IsList(list, Len(vocab))
    BY <1>3, <1>5, <1>8, NewListOK
  <2>4. i \in 1 .. Len(text) + 1
    <3>1. Len(text) \in Nat
      BY <1>3
    <3> QED
      BY <1>8, <3>1
  <2> QED
    BY <1>8, <2>2, <2>3, <2>4 DEF Writing
<1>14. StageOK(M, V)
  BY <1>8, <1>13 DEF StageOK, InEncoder
<1> QED
  BY <1>4, <1>7, <1>8, <1>11, <1>12, <1>14 DEF Restoring

-----------------------------------------------------------------------------
(* The encoder's steps.                                                    *)

\* A code that leads to the mark at its end keeps the invariant.
LEMMA EmitKeeps ==
  ASSUME NEW M, NEW V, Restoring(M, V), JobOK(Job), stage = "encode",
         NEW code, NEW next, Emit(code, next), next \in 1 .. Len(text) + 1,
         Reaches(Job, out, M, code, next - 1, list', defined'), IsList(list', Len(vocab))
  PROVE  \E M2 : Restoring(M2, V)'
<1>1. /\ out' = out \o code /\ i' = next
      /\ trail' = trail \cup {[at |-> Len(out'), read |-> next - 1, order |-> list'.order, defined |-> defined']}
      /\ UNCHANGED <<stage, job, units, j, left, dict, dlist, back>>
  BY DEF Emit
<1>2. Job' = Job
  BY <1>1 DEF Job, job
<1>3. PICK M2 : /\ M \subseteq M2 /\ Trace(Job, out \o code, M2)
                /\ Mark(Len(out) + Len(code), next - 1, list', defined') \in M2
  BY DEF Reaches
<1>4. code \in Seq(Bytes) /\ out \in Seq(Bytes)
  BY DEF Reaches, Restoring, Trace
<1>5. Len(out') = Len(out) + Len(code)
  BY <1>1, <1>4, ConcatProperties
<1>6. PICK e \in M2 : e = Mark(Len(out'), next - 1, list', defined')
  BY <1>3, <1>5
<1>7. HeadOK(Job, out', M2, V)
  <2>1. Job.vocab \in Seq(Seq(Bytes)) /\ HeadOK(Job, out, M, V)
    BY DEF JobOK, Restoring
  <2>2. HeadOK(Job, out \o code, M2, V)
    BY <1>3, <1>4, <2>1, HeadGrows
  <2> QED
    BY <1>1, <2>2
<1>8. Followed(M2)'
  <2>1. \A t \in trail' : \E m \in M2 : t.at = m.at /\ t.read = m.read /\ t.order = m.list.order /\ t.defined = m.defined
    <3>1. e.at = Len(out') /\ e.read = next - 1 /\ e.list = list' /\ e.defined = defined'
      BY <1>6 DEF Mark
    <3>2. \A t \in trail : \E m \in M : t.at = m.at /\ t.read = m.read /\ t.order = m.list.order /\ t.defined = m.defined
      BY DEF Restoring, Followed
    <3>3. \A t \in trail' : t \in trail \/ t = [at |-> Len(out'), read |-> next - 1, order |-> list'.order, defined |-> defined']
      BY <1>1
    <3> QED
      BY <1>3, <3>1, <3>2, <3>3
  <2> QED
    BY <2>1 DEF Followed
<1>9. StageOK(M2, V)'
  <2>1. At(Job', out', M2, i' - 1, list', defined')
    BY <1>1, <1>2, <1>3, <1>6 DEF At
  <2>2. vocab' = vocab /\ text' = text /\ form' = form /\ units' = units /\ j' = j /\ back' = back /\ stage' = stage
    BY <1>1 DEF job
  <2>3. Writing(M) /\ j = 1 /\ back = <<>>
    BY DEF Restoring, StageOK, InEncoder
  <2>4. form = "subword" => units = DeriveMerges(vocab)
    BY <2>3 DEF Writing
  <2>5. Writing(M2)'
    BY <1>1, <2>1, <2>2, <2>4 DEF Writing
  <2> QED
    BY <2>2, <2>3, <2>5 DEF StageOK, InEncoder
<1> QED
  BY <1>1, <1>2, <1>3, <1>7, <1>8, <1>9 DEF Restoring

\* A word, in whatever code the form has for it.
LEMMA EncodeWordRestores ==
  ASSUME NEW M, NEW V, Restoring(M, V), JobOK(Job), EncodeWord
  PROVE  \E M2 : Restoring(M2, V)'
<1>1. stage = "encode" /\ i <= Len(text) /\ text[i] \in Letters
  BY DEF EncodeWord
<1>2. Writing(M)
  BY <1>1 DEF Restoring, StageOK, InEncoder
<1>3. /\ text \in Seq(Bytes) /\ vocab \in Seq(Seq(Bytes)) /\ Len(text) \in Nat /\ Len(vocab) \in Nat /\ i \in Nat
  BY <1>2, WritingFacts
<1>4. PICK p \in 1 .. Len(text) : p = i /\ text[p] \in Letters
  BY <1>1, <1>2, <1>3 DEF Writing
<1> DEFINE alone  == Word(text, i)
           phrase == form = "phrase" /\ PhraseAt(text, WordEnd(text, i)) /\ Known(Phrase(text, i))
           w      == IF phrase THEN Phrase(text, i) ELSE alone
<1>5. /\ list' = IF Known(w) THEN Touch(list, Index(w), mode) ELSE list
      /\ defined' = IF form = "firstuse" /\ Known(w) THEN defined \cup {Index(w)} ELSE defined
      /\ Emit(IF Known(w) THEN Token(w) ELSE Spelled(w), i + Len(w))
  BY DEF EncodeWord
<1>6. alone \in Seq(Letters) /\ NextIs(alone)
  <2>1. Word(text, p) \in Seq(Letters)
    BY <1>3, <1>4, WordOK
  <2>2. PICK n \in Nat \ {0} : n = Len(Word(text, p))
    BY <1>3, <1>4, WordOK
  <2>3. p + n <= Len(text) + 1 /\ Word(text, p) = SubSeq(text, p, p + n - 1)
    BY <1>3, <1>4, <2>2, WordOK
  <2>4. p - 1 + n <= Len(text) /\ p + n - 1 = p - 1 + n
    BY <1>3, <2>3
  <2> QED
    BY <1>4, <2>1, <2>2, <2>3, <2>4 DEF NextIs
<1>7. phrase => NextIs(Phrase(text, i))
  <2> SUFFICES ASSUME phrase PROVE NextIs(Phrase(text, i))
    OBVIOUS
  <2>1. PhraseAt(text, WordEnd(text, p))
    BY <1>4
  <2>2. PICK n \in Nat \ {0} : n = Len(Phrase(text, p))
    BY <1>3, <1>4, <2>1, PhraseOK
  <2>3. p + n <= Len(text) + 1 /\ Phrase(text, p) = SubSeq(text, p, p + n - 1)
    BY <1>3, <1>4, <2>1, <2>2, PhraseOK
  <2>4. p - 1 + n <= Len(text) /\ p + n - 1 = p - 1 + n
    BY <1>3, <2>3
  <2> QED
    BY <1>4, <2>2, <2>3, <2>4 DEF NextIs
<1>8. NextIs(w) /\ (Known(w) \/ w \in Seq(Letters))
  BY <1>6, <1>7
<1> HIDE DEF w, phrase, alone
<1>9. PICK u : u = w
  OBVIOUS
<1>10. PICK code : code = IF Known(u) THEN Token(u) ELSE Spelled(u)
  OBVIOUS
<1>11. PICK n \in Nat \ {0} : n = Len(u) /\ i - 1 + n <= Len(text)
  BY <1>8, <1>9 DEF NextIs
<1>12. Reaches(Job, out, M, code, i - 1 + Len(u), list', defined') /\ IsList(list', Len(vocab))
  <2>1. CASE Known(u)
    <3>1. Reaches(Job, out, M, Token(u), i - 1 + Len(u), Touch(list, Index(u), mode), Learns(Index(u)))
      BY <1>2, <1>8, <1>9, <2>1, TokenWritten
    <3>2. list' = Touch(list, Index(u), mode) /\ defined' = Learns(Index(u)) /\ code = Token(u)
      BY <1>5, <1>9, <1>10, <2>1 DEF Learns
    <3>3. PICK v \in 1 .. Len(vocab) : v = Index(u)
      BY <1>3, <2>1, IndexOK
    <3>4. IsList(Touch(list, v, mode), Len(vocab))
      BY <1>2, <1>3, TouchKeeps DEF Writing
    <3> QED
      BY <3>1, <3>2, <3>3, <3>4
  <2>2. CASE ~Known(u)
    <3>1. Reaches(Job, out, M, Spelled(u), i - 1 + Len(u), list, defined)
      BY <1>2, <1>8, <1>9, <2>2, SpelledWritten
    <3>2. list' = list /\ defined' = defined /\ code = Spelled(u)
      BY <1>5, <1>9, <1>10, <2>2
    <3> QED
      BY <1>2, <3>1, <3>2 DEF Writing
  <2> QED
    BY <2>1, <2>2
<1>13. PICK next \in 1 .. Len(text) + 1 : next = i + Len(u) /\ next - 1 = i - 1 + Len(u)
  <2>1. i \in 1 .. Len(text) + 1
    BY <1>2 DEF Writing
  <2>2. i + n \in 1 .. Len(text) + 1 /\ (i + n) - 1 = i - 1 + n
    BY <1>3, <1>11, <2>1
  <2> QED
    BY <1>11, <2>2
<1>14. Emit(code, next)
  BY <1>5, <1>9, <1>10, <1>13
<1>15. Reaches(Job, out, M, code, next - 1, list', defined')
  BY <1>12, <1>13
<1> QED
  BY <1>1, <1>12, <1>14, <1>15, EmitKeeps

\* A byte that is no letter.
LEMMA EncodeByteRestores ==
  ASSUME NEW M, NEW V, Restoring(M, V), JobOK(Job), EncodeByte
  PROVE  \E M2 : Restoring(M2, V)'
<1>1. stage = "encode" /\ i <= Len(text) /\ list' = list /\ defined' = defined
  BY DEF EncodeByte
<1>2. Writing(M)
  BY <1>1 DEF Restoring, StageOK, InEncoder
<1>3. /\ text \in Seq(Bytes) /\ vocab \in Seq(Seq(Bytes)) /\ Len(text) \in Nat /\ Len(vocab) \in Nat /\ i \in Nat
  BY <1>2, WritingFacts
<1>4. i \in 1 .. Len(text)
  BY <1>1, <1>2, <1>3 DEF Writing
<1>5. PICK b \in Bytes : b = text[i]
  BY <1>3, <1>4
<1>6. PICK w \in Seq(Bytes) : w = <<b>> /\ Len(w) = 1 /\ w[1] = b
  <2>1. <<b>> \in Seq(Bytes)
    OBVIOUS
  <2>2. PICK w \in Seq(Bytes) : w = <<b>>
    BY <2>1
  <2>3. Len(w) = 1 /\ w[1] = b
    BY <2>2
  <2> QED
    BY <2>2, <2>3
<1>7. NextIs(w)
  <2>1. SubSeq(text, i, i) = w
    <3>1. PICK p \in 1 .. Len(text) + 1 : p = i /\ p \in p - 1 .. Len(text) /\ p - p + 1 = 1 /\ p + 1 - 1 = p
      BY <1>3, <1>4
    <3>2. \A k \in p .. p : text[k] \in Bytes
      BY <1>3, <1>4, <3>1
    <3>3. SubSeq(text, p, p) \in Seq(Bytes)
      BY <1>3, <3>1, <3>2, Part
    <3>4. Len(SubSeq(text, p, p)) = p - p + 1
      BY <1>3, <3>1, <3>2, Part
    <3>5. \A k \in 1 .. p - p + 1 : SubSeq(text, p, p)[k] = text[p + k - 1]
      BY <1>3, <3>1, <3>2, Part
    <3>6. PICK s \in Seq(Bytes) : s = SubSeq(text, p, p) /\ Len(s) = 1 /\ s[1] = b
      <4>1. PICK s \in Seq(Bytes) : s = SubSeq(text, p, p)
        BY <3>3
      <4>2. Len(s) = 1
        BY <3>1, <3>4, <4>1
      <4>3. 1 \in 1 .. p - p + 1
        BY <3>1
      <4>4. s[1] = text[p + 1 - 1]
        BY <3>5, <4>1, <4>3
      <4>5. s[1] = b
        BY <1>5, <3>1, <4>4
      <4> QED
        BY <4>1, <4>2, <4>5
    <3>7. s = w
      <4>1. Len(s) = Len(w) /\ \A k \in 1 .. Len(s) : s[k] = w[k]
        BY <1>6, <3>6
      <4> QED
        BY <4>1, SeqEqual
    <3> QED
      BY <3>1, <3>6, <3>7
  <2>2. i - 1 + 1 = i
    BY <1>3
  <2> QED
    BY <1>4, <1>5, <1>6, <2>1, <2>2 DEF NextIs
<1>8. i \in 0 .. Len(Job.text) /\ Follow(Job, i - 1, <<b>>, i)
  <2>1. i - 1 + 1 = i
    BY <1>3
  <2> QED
    BY <1>2, <1>6, <1>7, <2>1, NextFollows
<1>9. PICK code : code = IF b = ESC THEN <<ESC, 0>> ELSE <<b>>
  OBVIOUS
<1>10. Reaches(Job, out, M, code, i, list, defined)
  <2>1. At(Job, out, M, i - 1, list, defined)
    BY <1>2 DEF Writing
  <2>2. CASE b = ESC
    <3>1. b = 0
      BY <2>2, EscapeBytes
    <3>2. Reaches(Job, out, M, <<ESC, 0>>, i, list, defined)
      BY <1>8, <2>1, <3>1, EmitNul
    <3> QED
      BY <1>9, <2>2, <3>2
  <2>3. CASE b # ESC
    <3>1. Reaches(Job, out, M, <<b>>, i, list, defined)
      BY <1>8, <2>1, <2>3, EmitPlain
    <3> QED
      BY <1>9, <2>3, <3>1
  <2> QED
    BY <2>2, <2>3
<1>11. PICK next \in 1 .. Len(text) + 1 : next = i + 1 /\ next - 1 = i
  BY <1>3, <1>4
<1>12. Emit(code, next)
  BY <1>5, <1>9, <1>11 DEF EncodeByte
<1>13. Reaches(Job, out, M, code, next - 1, list', defined') /\ IsList(list', Len(vocab))
  BY <1>1, <1>2, <1>10, <1>11 DEF Writing
<1> QED
  BY <1>1, <1>12, <1>13, EmitKeeps

\* At the end of the text the last mark has read it all.
LEMMA EncodeEndRestores ==
  ASSUME NEW M, NEW V, Restoring(M, V), JobOK(Job), EncodeEnd
  PROVE  Restoring(M, V)'
<1>1. /\ stage = "encode" /\ i > Len(text) /\ stage' = "count"
      /\ UNCHANGED <<text, vocab, form, mode, i, out, list, defined, units, j, left, dict, dlist, back, trail>>
  BY DEF EncodeEnd, job, enc
<1>2. Job' = Job
  BY <1>1 DEF Job
<1>3. Writing(M) /\ j = 1 /\ back = <<>>
  BY <1>1 DEF Restoring, StageOK, InEncoder
<1>4. Len(text) \in Nat /\ i = Len(text) + 1
  <2>1. Len(text) \in Nat /\ i \in 1 .. Len(text) + 1
    BY <1>3, WritingFacts DEF Writing
  <2> QED
    BY <1>1, <2>1
<1>5. PICK e \in M : e = Mark(Len(out), i - 1, list, defined)
  BY <1>3 DEF Writing, At
<1>6. e.at = Len(out) /\ e.read = Len(text)
  BY <1>4, <1>5 DEF Mark
<1>7. AllRead(M)
  BY <1>6 DEF AllRead, Restoring, Trace
<1>8. AllRead(M)' /\ Followed(M)'
  BY <1>1, <1>7 DEF AllRead, Followed, Restoring
<1>9. StageOK(M, V)'
  BY <1>1, <1>3, <1>8 DEF StageOK
<1> QED
  BY <1>1, <1>2, <1>8, <1>9 DEF Restoring

-----------------------------------------------------------------------------
(* The decoder's steps in the text.                                        *)

\* The decoder is at a mark that is not the last.
Reading(M, V, m) == Restoring(M, V) /\ JobOK(Job) /\ stage = "body" /\ m \in M /\ Synced(m)

\* What the mark says of the decoder.
LEMMA ReadingFacts ==
  ASSUME NEW M, NEW V, NEW m, Reading(M, V, m)
  PROVE  /\ Trace(Job, out, M) /\ out \in Seq(Bytes) /\ Len(out) \in Nat
         /\ m.at \in 0 .. Len(out) /\ m.at \in Nat /\ m.read \in 0 .. Len(text)
         /\ m.defined \subseteq 1 .. Len(vocab) /\ (\A k \in m.defined : vocab[k] # <<>>)
         /\ form # "list" => m.list = NewList(Len(vocab))
         /\ j = m.at + 1 /\ back = Upto(Job, m.read) /\ back \in Seq(Bytes)
         /\ AllRead(M)
<1>1. Trace(Job, out, M) /\ AllRead(M) /\ m \in M /\ JobOK(Job)
  BY DEF Reading, Restoring, StageOK
<1>2. MarkOK(Job, m, Len(out)) /\ out \in Seq(Bytes)
  BY <1>1 DEF Trace
<1>3. /\ m.at \in 0 .. Len(out) /\ m.read \in 0 .. Len(text)
      /\ m.defined \subseteq 1 .. Len(vocab) /\ (\A k \in m.defined : vocab[k] # <<>>)
      /\ form # "list" => m.list = NewList(Len(vocab))
  BY <1>2, JobIs DEF MarkOK
<1>4. j = m.at + 1 /\ back = Upto(Job, m.read)
  BY DEF Reading, Synced
<1>5. back \in Seq(Bytes)
  <2>1. text \in Seq(Bytes) /\ Len(text) \in Nat
    BY <1>1, JobFacts
  <2>2. \A k \in 1 .. m.read : text[k] \in Bytes
    BY <1>3, <2>1
  <2>3. 1 \in Int /\ m.read \in Int
    BY <1>3, <2>1
  <2>4. SubSeq(text, 1, m.read) \in Seq(Bytes)
    BY <2>2, <2>3, SubSeqProperties
  <2> QED
    BY <1>4, <2>4, JobIs DEF Upto
<1>6. Len(out) \in Nat /\ m.at \in Nat
  BY <1>2, <1>3
<1> QED
  BY <1>1, <1>2, <1>3, <1>4, <1>5, <1>6

\* From there the next code leads to another one.
LEMMA NextMark ==
  ASSUME NEW M, NEW V, NEW m, Reading(M, V, m), j <= Len(out)
  PROVE  \E m2 \in M : Link(Job, out, m, m2)
<1>1. m.at < Len(out)
  BY ReadingFacts
<1> QED
  BY <1>1, ReadingFacts DEF Trace, Reading

\* The decoder at another mark.
LEMMA MarkReached ==
  ASSUME NEW M, NEW V, NEW m, Reading(M, V, m), NEW m2 \in M, Synced(m2)',
         stage' = "body", UNCHANGED <<job, enc, trail>>
  PROVE  Restoring(M, V)'
<1>1. UNCHANGED <<text, vocab, form, mode, out, trail>>
  BY DEF job, enc
<1>2. Job' = Job
  BY <1>1 DEF Job
<1>3. AllRead(M)' /\ Followed(M)'
  BY <1>1, ReadingFacts DEF AllRead, Followed, Reading, Restoring
<1>4. StageOK(M, V)'
  BY <1>3 DEF StageOK
<1>5. Trace(Job, out, M) /\ HeadOK(Job, out, M, V)
  BY DEF Reading, Restoring
<1> QED
  BY <1>1, <1>2, <1>3, <1>4, <1>5 DEF Restoring

\* The decoder read n bytes and appended w, and kept its tables.
LEMMA Advanced ==
  ASSUME NEW M, NEW V, NEW m, Reading(M, V, m), NEW m2 \in M,
         NEW n \in Nat, NEW w, Reads(Job, m, m2, n, w), Same(m, m2),
         back' = back \o w, DecodeTo("body", j + n), UNCHANGED <<units, left, dict, dlist>>
  PROVE  Restoring(M, V)'
<1>1. UNCHANGED <<text, vocab, form, mode, job, enc, trail>> /\ stage' = "body" /\ j' = j + n
  BY DEF DecodeTo, job
<1>2. Job' = Job
  BY <1>1 DEF Job
<1>3. m2.at = m.at + n /\ Upto(Job, m2.read) = Upto(Job, m.read) \o w /\ m2.list = m.list /\ m2.defined = m.defined
  BY DEF Reads, Same
<1>4. j' = m2.at + 1
  BY <1>1, <1>3, ReadingFacts
<1>5. back' = Upto(Job', m2.read)
  BY <1>2, <1>3, ReadingFacts
<1>6. Synced(m2)'
  BY <1>1, <1>3, <1>4, <1>5 DEF Reading, Synced
<1> QED
  BY <1>1, <1>6, MarkReached

\* A byte: the link is a byte.
LEMMA DecodeByteRestores ==
  ASSUME NEW M, NEW V, NEW m, Reading(M, V, m), DecodeByte
  PROVE  Restoring(M, V)'
<1>1. j <= Len(out) /\ out[j] # ESC /\ back' = Append(back, out[j]) /\ DecodeTo("body", j + 1)
      /\ UNCHANGED <<units, left, dict, dlist>>
  BY DEF DecodeByte
<1>2. PICK m2 \in M : Link(Job, out, m, m2)
  BY <1>1, NextMark
<1>3. ~Escaped(out, m)
  BY <1>1, ReadingFacts DEF Escaped
<1>4. Reads(Job, m, m2, 1, <<out[j]>>) /\ Same(m, m2)
  <2>1. LinkByte(Job, out, m, m2)
    BY <1>2, <1>3 DEF Link, LinkNul, LinkId, LinkIdAs, LinkDef, LinkDefAs, LinkUnit, LinkExt, LinkExtAs,
                      LinkAffix, MarkedAt
  <2> QED
    BY <2>1, ReadingFacts DEF LinkByte
<1>5. back' = back \o <<out[j]>>
  <2>1. back \in Seq(Bytes)
    BY ReadingFacts
  <2>2. out[j] \in Bytes
    BY <1>1, ReadingFacts
  <2> QED
    BY <1>1, <2>1, <2>2, AppendIsConcat
<1>6. 1 \in Nat
  OBVIOUS
<1> QED
  BY <1>1, <1>4, <1>5, <1>6, Advanced

\* An escaped ESC.
LEMMA DecodeNulRestores ==
  ASSUME NEW M, NEW V, NEW m, Reading(M, V, m), DecodeNul
  PROVE  Restoring(M, V)'
<1>1. /\ j < Len(out) /\ out[j] = ESC /\ out[j + 1] = 0 /\ back' = Append(back, 0) /\ DecodeTo("body", j + 2)
      /\ UNCHANGED <<units, left, dict, dlist>>
  BY DEF DecodeNul
<1>2. j <= Len(out)
  BY <1>1, ReadingFacts
<1>3. PICK m2 \in M : Link(Job, out, m, m2)
  BY <1>2, NextMark
<1>4. Escaped(out, m) /\ out[m.at + 2] = 0 /\ ~MarkedAt(out, m)
  <2>1. j = m.at + 1 /\ j + 1 = m.at + 2
    BY ReadingFacts
  <2>2. 0 # N - 1
    BY NAssumption
  <2> QED
    BY <1>1, <2>1, <2>2 DEF Escaped, MarkedAt
<1>5. ~LinkId(Job, out, m, m2)
  <2>1. \A p \in 1 .. Len(Job.vocab) : p # 0
    OBVIOUS
  <2> QED
    BY <1>4, <2>1 DEF LinkId, LinkIdAs
<1>6. Reads(Job, m, m2, 2, <<0>>) /\ Same(m, m2)
  <2>1. LinkNul(Job, out, m, m2)
    BY <1>3, <1>4, <1>5 DEF Link, LinkByte, LinkDef, LinkDefAs, LinkUnit, LinkExt, LinkExtAs, LinkAffix
  <2> QED
    BY <2>1 DEF LinkNul
<1>7. back' = back \o <<0>>
  <2>1. back \in Seq(Bytes)
    BY ReadingFacts
  <2>2. 0 \in Bytes
    BY EscapeBytes
  <2> QED
    BY <1>1, <2>1, <2>2, AppendIsConcat
<1>8. 2 \in Nat
  OBVIOUS
<1> QED
  BY <1>1, <1>6, <1>7, <1>8, Advanced

\* An id: the decoder promotes the entry the encoder promoted.
LEMMA DecodeIdRestores ==
  ASSUME NEW M, NEW V, NEW m, Reading(M, V, m), DecodeId
  PROVE  Restoring(M, V)'
<1>1. /\ stage = "body" /\ j < Len(out) /\ out[j] = ESC /\ out[j + 1] # 0 /\ ~Marked
      /\ IF out[j + 1] \in DOMAIN dict
         THEN LET v == dlist.order[out[j + 1]]
              IN  back' = back \o dict[v] /\ dlist' = Touch(dlist, v, mode)
         ELSE UNCHANGED <<back, dlist>>
      /\ DecodeTo("body", j + 2) /\ UNCHANGED <<units, left, dict>>
  BY DEF DecodeId
<1>2. j <= Len(out) /\ j = m.at + 1 /\ j + 1 = m.at + 2 /\ j + 2 = (m.at + 2) + 1
  BY <1>1, ReadingFacts
<1>3. PICK m2 \in M : Link(Job, out, m, m2)
  BY <1>2, NextMark
<1>4. Escaped(out, m) /\ out[m.at + 2] # 0
  BY <1>1, <1>2 DEF Escaped
<1>5. MarkedAt(out, m) => form \notin {"firstuse", "subword", "extended", "affix"}
  BY <1>1, <1>2 DEF MarkedAt, Marked
<1>6. LinkId(Job, out, m, m2)
  BY <1>3, <1>4, <1>5, JobIs DEF Link, LinkByte, LinkNul, LinkDef, LinkDefAs, LinkUnit, LinkExt, LinkExtAs, LinkAffix
<1>7. PICK p \in 1 .. Len(vocab), v \in 1 .. Len(vocab) : LinkIdAs(Job, out, m, m2, p, v)
  BY <1>6, JobIs DEF LinkId
<1>8. /\ out[j + 1] = p /\ v = m.list.order[p] /\ Reads(Job, m, m2, 2, vocab[v])
      /\ m2.list = Touch(m.list, v, mode) /\ m2.defined = m.defined
      /\ form = "firstuse" => v \in m.defined
  BY <1>2, <1>7, JobIs DEF LinkIdAs
<1>9. JobOK(Job) /\ Synced(m)
  BY DEF Reading
<1>10. p \in DOMAIN dict /\ dlist.order[p] = v /\ dict[v] = vocab[v]
  <2>1. Len(vocab) \in Nat /\ vocab \in Seq(Seq(Bytes))
    BY <1>9, JobFacts
  <2>2. CASE form = "firstuse"
    <3>1. Len(vocab) <= RESERVED_MAX /\ RESERVED_MAX \in Nat
      BY <1>9, <2>2, JobFacts, NAssumption DEF RESERVED_MAX
    <3>2. p \in 1 .. RESERVED_MAX /\ v \in 1 .. RESERVED_MAX
      BY <2>1, <3>1
    <3>3. v = p
      <4>1. m.list = NewList(Len(vocab))
        BY <2>2, ReadingFacts
      <4>2. NewList(Len(vocab)).order[p] = p
        BY DEF NewList
      <4> QED
        BY <1>8, <4>1, <4>2
    <3>4. dlist.order[p] = p
      <4>1. dlist = NewList(RESERVED_MAX)
        BY <1>9, <2>2 DEF Synced
      <4>2. NewList(RESERVED_MAX).order[p] = p
        BY <3>2 DEF NewList
      <4> QED
        BY <4>1, <4>2
    <3>5. dict = [k \in 1 .. RESERVED_MAX |-> IF k \in m.defined THEN vocab[k] ELSE <<>>]
      BY <1>9, <2>2 DEF Synced
    <3> QED
      BY <1>8, <2>2, <3>2, <3>3, <3>4, <3>5
  <2>3. CASE form # "firstuse"
    <3>1. dict = vocab /\ dlist = m.list
      BY <1>9, <2>3 DEF Synced
    <3> QED
      BY <1>8, <2>1, <3>1
  <2> QED
    BY <2>2, <2>3
<1>11. back' = back \o vocab[v] /\ dlist' = Touch(dlist, v, mode)
  BY <1>1, <1>8, <1>10
<1>12. UNCHANGED <<text, vocab, form, mode, job, enc, trail, units, dict>> /\ stage' = "body" /\ j' = j + 2
  BY <1>1 DEF DecodeTo, job
<1>13. Job' = Job
  BY <1>12 DEF Job
<1>14. j' = m2.at + 1 /\ back' = Upto(Job', m2.read)
  BY <1>2, <1>8, <1>11, <1>12, <1>13, ReadingFacts DEF Reads
<1>15. form = "firstuse" => dlist' = dlist
  BY <1>9, <1>11, StaticTouch, JobFacts
<1>16. form # "firstuse" => dlist' = m2.list
  BY <1>8, <1>9, <1>11 DEF Synced
<1>17. Synced(m2)'
  BY <1>8, <1>9, <1>12, <1>14, <1>15, <1>16 DEF Synced
<1> QED
  BY <1>12, <1>17, MarkReached

\* A marked code is one of the links behind the mark.
LEMMA MarkedLink ==
  ASSUME NEW M, NEW V, NEW m, Reading(M, V, m), j < Len(out), out[j] = ESC, Marked,
         NEW m2, Link(Job, out, m, m2)
  PROVE  /\ LinkDef(Job, out, m, m2) \/ LinkUnit(Job, out, m, m2) \/ LinkExt(Job, out, m, m2)
              \/ LinkAffix(Job, out, m, m2)
<1>1. j = m.at + 1 /\ j + 1 = m.at + 2
  BY ReadingFacts
<1>2. Escaped(out, m) /\ out[m.at + 2] = N - 1 /\ form \in {"firstuse", "subword", "extended", "affix"}
  BY <1>1 DEF Escaped, Marked
<1>3. N - 1 # 0
  BY NAssumption
<1>4. ~LinkByte(Job, out, m, m2) /\ ~LinkNul(Job, out, m, m2)
  BY <1>2, <1>3 DEF LinkByte, LinkNul
<1>5. ~LinkId(Job, out, m, m2)
  BY <1>2, JobIs DEF LinkId, LinkIdAs
<1> QED
  BY <1>4, <1>5 DEF Link

\* A unit of the subword form.
LEMMA DecodeUnitRestores ==
  ASSUME NEW M, NEW V, NEW m, Reading(M, V, m), DecodeUnit
  PROVE  Restoring(M, V)'
<1>1. /\ form = "subword" /\ j < Len(out) /\ out[j] = ESC /\ Marked
      /\ back' = IF out[j + 2] < Len(units) THEN back \o Spell(N + out[j + 2], units) ELSE back
      /\ DecodeTo("body", j + 3) /\ UNCHANGED <<units, left, dict, dlist>>
  BY DEF DecodeUnit, MarkedCode
<1>2. j <= Len(out) /\ j + 2 = m.at + 3
  <2>1. j < Len(out)
    BY <1>1
  <2> QED
    BY <2>1, ReadingFacts
<1>3. PICK m2 \in M : Link(Job, out, m, m2)
  BY <1>2, NextMark
<1>4. LinkUnit(Job, out, m, m2)
  BY <1>1, <1>3, MarkedLink, JobIs DEF LinkDef, LinkDefAs, LinkExt, LinkExtAs, LinkAffix
<1>5. units = DeriveMerges(vocab)
  BY <1>1 DEF Reading, Synced
<1>6. PICK w : w = Spell(N + out[j + 2], units)
  OBVIOUS
<1>7. Reads(Job, m, m2, 3, w) /\ Same(m, m2) /\ back' = back \o w
  BY <1>1, <1>2, <1>4, <1>5, <1>6, SpellIs, JobIs DEF LinkUnit
<1>8. 3 \in Nat
  OBVIOUS
<1> QED
  BY <1>1, <1>7, <1>8, Advanced

\* An extended id.
LEMMA DecodeExtendedRestores ==
  ASSUME NEW M, NEW V, NEW m, Reading(M, V, m), DecodeExtended
  PROVE  Restoring(M, V)'
<1>1. /\ form = "extended" /\ j < Len(out) /\ out[j] = ESC /\ Marked
      /\ LET id == N - 1 + N * out[j + 2] + out[j + 3]
         IN  back' = IF id <= Len(dict) THEN back \o dict[id] ELSE back
      /\ DecodeTo("body", j + 4) /\ UNCHANGED <<units, left, dict, dlist>>
  BY DEF DecodeExtended, MarkedCode
<1>2. j <= Len(out) /\ j + 2 = m.at + 3 /\ j + 3 = m.at + 4
  <2>1. j < Len(out)
    BY <1>1
  <2> QED
    BY <2>1, ReadingFacts
<1>3. PICK m2 \in M : Link(Job, out, m, m2)
  BY <1>2, NextMark
<1>4. LinkExt(Job, out, m, m2)
  BY <1>1, <1>3, MarkedLink, JobIs DEF LinkDef, LinkDefAs, LinkUnit, LinkAffix
<1>5. PICK id \in 1 .. Len(vocab) : LinkExtAs(Job, out, m, m2, id)
  BY <1>4, JobIs DEF LinkExt
<1>6. dict = vocab
  BY <1>1 DEF Reading, Synced
<1>7. PICK k : k = N - 1 + N * out[j + 2] + out[j + 3]
  OBVIOUS
<1>8. k = id /\ Reads(Job, m, m2, 4, vocab[id]) /\ Same(m, m2)
  BY <1>2, <1>5, <1>7, JobIs DEF LinkExtAs
<1>9. Len(vocab) \in Nat
  BY JobFacts DEF Reading
<1>10. id <= Len(vocab)
  BY <1>9
<1>11. back' = IF k <= Len(dict) THEN back \o dict[k] ELSE back
  BY <1>1, <1>7
<1>12. back' = back \o vocab[id]
  BY <1>6, <1>8, <1>10, <1>11
<1>13. 4 \in Nat
  OBVIOUS
<1> QED
  BY <1>1, <1>8, <1>12, <1>13, Advanced

\* An entry and a suffix.
LEMMA DecodeAffixRestores ==
  ASSUME NEW M, NEW V, NEW m, Reading(M, V, m), DecodeAffix
  PROVE  Restoring(M, V)'
<1>1. /\ form = "affix" /\ j < Len(out) /\ out[j] = ESC /\ Marked
      /\ back' = IF out[j + 2] \notin DOMAIN dict THEN back
                 ELSE back \o dict[out[j + 2]]
                           \o (IF out[j + 3] < Len(SUFFIXES) THEN SUFFIXES[out[j + 3] + 1] ELSE <<>>)
      /\ DecodeTo("body", j + 4) /\ UNCHANGED <<units, left, dict, dlist>>
  BY DEF DecodeAffix, MarkedCode
<1>2. j <= Len(out) /\ j + 2 = m.at + 3 /\ j + 3 = m.at + 4
  <2>1. j < Len(out)
    BY <1>1
  <2> QED
    BY <2>1, ReadingFacts
<1>3. PICK m2 \in M : Link(Job, out, m, m2)
  BY <1>2, NextMark
<1>4. LinkAffix(Job, out, m, m2)
  BY <1>1, <1>3, MarkedLink, JobIs DEF LinkDef, LinkDefAs, LinkUnit, LinkExt, LinkExtAs
<1>5. dict = vocab /\ vocab \in Seq(Seq(Bytes)) /\ Len(vocab) \in Nat
  BY <1>1, JobFacts DEF Reading, Synced
<1>6. PICK v \in 1 .. Len(vocab) : v = out[j + 2]
  BY <1>2, <1>4, JobIs DEF LinkAffix
<1>7. PICK x : x = out[j + 3] /\ x < Len(SUFFIXES)
  BY <1>2, <1>4 DEF LinkAffix
<1>8. Reads(Job, m, m2, 4, vocab[v] \o SUFFIXES[x + 1]) /\ Same(m, m2)
  BY <1>2, <1>4, <1>6, <1>7, JobIs DEF LinkAffix
<1>9. back' = (back \o vocab[v]) \o SUFFIXES[x + 1]
  <2>1. v \in DOMAIN dict /\ dict[v] = vocab[v]
    BY <1>5
  <2> QED
    BY <1>1, <1>6, <1>7, <2>1
<1>10. x \in Nat
  <2>1. out \in Seq(Bytes) /\ m2.at \in 0 .. Len(out) /\ m2.at = m.at + 4
    BY <1>8, ReadingFacts DEF Trace, MarkOK, Reads
  <2>2. m.at + 4 \in 1 .. Len(out)
    BY <2>1, ReadingFacts
  <2>3. out[m.at + 4] \in Bytes
    BY <2>1, <2>2
  <2> QED
    BY <1>2, <1>7, <2>3, NAssumption DEF Bytes
<1>11. PICK w \in Seq(Bytes), u \in Seq(Bytes) : w = vocab[v] /\ u = SUFFIXES[x + 1]
  <2>1. vocab[v] \in Seq(Bytes)
    BY <1>5, ElementOfSeq
  <2>2. PICK k \in 1 .. Len(SUFFIXES) : k = x + 1
    BY <1>7, <1>10, SuffixesAssumption
  <2>3. SUFFIXES[k] \in Seq(Letters)
    BY SuffixesAssumption, ElementOfSeq
  <2>4. SUFFIXES[k] \in Seq(Bytes)
    BY <2>3, LettersAre, SeqMonotonic
  <2> QED
    BY <2>1, <2>2, <2>4
<1>12. back' = back \o (w \o u)
  <2>1. back \in Seq(Bytes)
    BY ReadingFacts
  <2>2. Regroups(back, w, u)
    BY <2>1, Regrouped
  <2> QED
    BY <1>9, <1>11, <2>2 DEF Regroups
<1>13. Reads(Job, m, m2, 4, w \o u) /\ 4 \in Nat
  BY <1>8, <1>11
<1> QED
  BY <1>1, <1>8, <1>12, <1>13, Advanced

\* A first-use definition: the decoder's dictionary has what the encoder
\* defined.
LEMMA DecodeDefinitionRestores ==
  ASSUME NEW M, NEW V, NEW m, Reading(M, V, m), DecodeDefinition
  PROVE  Restoring(M, V)'
<1>1. /\ form = "firstuse" /\ j < Len(out) /\ out[j] = ESC /\ Marked
      /\ LET w == SubSeq(out, j + 4, j + 3 + out[j + 3])
         IN  dict' = [dict EXCEPT ![out[j + 2]] = w] /\ back' = back \o w
      /\ DecodeTo("body", j + 4 + out[j + 3]) /\ UNCHANGED <<units, left, dlist>>
  BY DEF DecodeDefinition, MarkedCode
<1>2. PICK a \in Nat : a = m.at /\ j = a + 1
  BY ReadingFacts
<1>3. j <= Len(out) /\ j + 2 = a + 3 /\ j + 3 = a + 4 /\ j + 4 = a + 5
  <2>1. j \in Nat /\ Len(out) \in Nat /\ j < Len(out)
    <3>1. j < Len(out)
      BY <1>1
    <3>2. j \in Nat
      BY <1>2
    <3>3. Len(out) \in Nat
      BY ReadingFacts
    <3> QED
      BY <3>1, <3>2, <3>3
  <2>2. j + 2 = a + 3 /\ j + 3 = a + 4 /\ j + 4 = a + 5
    BY <1>2
  <2> QED
    BY <2>1, <2>2
<1>4. PICK m2 \in M : Link(Job, out, m, m2)
  BY <1>3, NextMark
<1>5. LinkDef(Job, out, m, m2)
  BY <1>1, <1>4, MarkedLink, JobIs DEF LinkUnit, LinkExt, LinkExtAs, LinkAffix
<1>6. PICK id \in 1 .. Len(vocab) : LinkDefAs(Job, out, m, m2, id)
  BY <1>5, JobIs DEF LinkDef
<1>7. JobOK(Job) /\ Synced(m) /\ vocab \in Seq(Seq(Bytes)) /\ Len(vocab) \in Nat
  BY JobFacts DEF Reading
<1>8. PICK w \in Seq(Bytes), n \in Nat : w = vocab[id] /\ n = Len(w)
  <2>1. vocab[id] \in Seq(Bytes)
    BY <1>7, ElementOfSeq
  <2> QED
    BY <2>1
<1>9. /\ out[a + 3] = id /\ out[a + 4] = n /\ \A x \in 1 .. n : out[a + 4 + x] = w[x]
      /\ m2.at = a + (4 + n) /\ Upto(Job, m2.read) = Upto(Job, m.read) \o w
      /\ m2.list = m.list /\ m2.defined = m.defined \cup {id}
  BY <1>2, <1>6, <1>8, JobIs DEF LinkDefAs, Reads
<1>10. SubSeq(out, j + 4, j + 3 + out[j + 3]) = w
  <2>1. out \in Seq(Bytes) /\ m2.at \in 0 .. Len(out) /\ Len(out) \in Nat
    BY ReadingFacts DEF Trace, MarkOK
  <2>2. PICK p \in 1 .. Len(out) + 1 : p = a + 5
    BY <1>9, <2>1
  <2>3. PICK q \in p - 1 .. Len(out) : q = a + 4 + n
    BY <1>9, <2>1, <2>2
  <2>4. \A k \in p .. q : out[k] \in Bytes
    BY <2>1, <2>2, <2>3
  <2>5. SubSeq(out, p, q) \in Seq(Bytes)
    BY <2>1, <2>4, Part
  <2>6. Len(SubSeq(out, p, q)) = q - p + 1
    BY <2>1, <2>4, Part
  <2>7. \A k \in 1 .. q - p + 1 : SubSeq(out, p, q)[k] = out[p + k - 1]
    BY <2>1, <2>4, Part
  <2>8. q - p + 1 = n /\ \A k \in 1 .. n : p + k - 1 = a + 4 + k
    BY <2>2, <2>3
  <2>9. PICK s \in Seq(Bytes) : s = SubSeq(out, p, q)
    BY <2>5
  <2>10. Len(s) = Len(w) /\ \A k \in 1 .. Len(s) : s[k] = w[k]
    <3>1. Len(s) = n
      BY <2>6, <2>8, <2>9
    <3>2. \A k \in 1 .. n : s[k] = out[a + 4 + k]
      BY <2>7, <2>8, <2>9
    <3> QED
      BY <1>8, <1>9, <3>1, <3>2
  <2>11. s = w
    BY <2>10, SeqEqual
  <2>12. j + 3 + out[j + 3] = q /\ j + 4 = p
    BY <1>3, <1>9, <2>2, <2>3
  <2> QED
    BY <2>9, <2>11, <2>12
<1>11. dict' = [dict EXCEPT ![id] = w] /\ back' = back \o w /\ j' = j + 4 + n
  BY <1>1, <1>3, <1>9, <1>10 DEF DecodeTo
<1>12. UNCHANGED <<text, vocab, form, mode, job, enc, trail, units, dlist>> /\ stage' = "body"
  BY <1>1 DEF DecodeTo, job
<1>13. Job' = Job
  BY <1>12 DEF Job
<1>14. j' = m2.at + 1 /\ back' = Upto(Job', m2.read)
  <2>1. j' = m2.at + 1
    <3>1. (a + 1) + 4 + n = (a + (4 + n)) + 1
      OBVIOUS
    <3> QED
      BY <1>2, <1>9, <1>11, <3>1
  <2>2. back' = Upto(Job, m2.read)
    BY <1>9, <1>11, ReadingFacts
  <2> QED
    BY <1>13, <2>1, <2>2
<1>15. dict = [k \in 1 .. RESERVED_MAX |-> IF k \in m.defined THEN vocab[k] ELSE <<>>]
       /\ dlist = NewList(RESERVED_MAX)
  BY <1>1, <1>7 DEF Synced
<1>16. dict' = [k \in 1 .. RESERVED_MAX |-> IF k \in m2.defined THEN vocab[k] ELSE <<>>]
  <2>1. id \in 1 .. RESERVED_MAX
    <3>1. Len(vocab) <= RESERVED_MAX /\ RESERVED_MAX \in Nat
      BY <1>1, <1>7, JobFacts, NAssumption DEF RESERVED_MAX
    <3> QED
      BY <1>7, <3>1
  <2>2. dict' = [k \in 1 .. RESERVED_MAX |-> IF k = id THEN w ELSE dict[k]]
    BY <1>11, <1>15, <2>1
  <2> QED
    BY <1>8, <1>9, <1>15, <2>2
<1>17. Synced(m2)'
  BY <1>1, <1>12, <1>14, <1>15, <1>16 DEF Synced
<1> QED
  BY <1>12, <1>17, MarkReached

\* The decoder stops only at the last mark: no code is cut short.
LEMMA DecodeEndRestores ==
  ASSUME NEW M, NEW V, NEW m, Reading(M, V, m), DecodeEnd
  PROVE  Restoring(M, V)'
<1>1. /\ Truncated /\ stage' = "done" /\ j' = j
      /\ UNCHANGED <<text, vocab, form, mode, job, enc, trail, units, left, dict, dlist, back>>
  BY DEF DecodeEnd, DecodeTo, job
<1>2. PICK a \in Nat, z \in Nat : a = m.at /\ z = Len(out) /\ a <= z /\ j = a + 1
  BY ReadingFacts
<1>3. a = z
  <2>1. SUFFICES ASSUME a < z PROVE FALSE
    BY <1>2
  <2>2. j <= Len(out)
    BY <1>2, <2>1
  <2>3. PICK m2 \in M : Link(Job, out, m, m2)
    BY <2>2, NextMark
  <2>4. m2.at \in 0 .. z
    BY <1>2, <2>3, ReadingFacts DEF Trace, MarkOK
  <2>5. JobOK(Job) /\ vocab \in Seq(Seq(Bytes)) /\ Len(vocab) \in Nat
    BY JobFacts DEF Reading
  <2>6. ASSUME NEW id \in 1 .. Len(vocab) PROVE Len(vocab[id]) \in Nat
    <3>1. vocab[id] \in Seq(Bytes)
      BY <2>5, ElementOfSeq
    <3> QED
      BY <3>1
  <2>7. CASE j = Len(out) /\ out[j] = ESC
    <3>1. Escaped(out, m)
      BY <1>2, <2>7 DEF Escaped
    <3>2. ASSUME NEW n \in Nat, NEW w, Reads(Job, m, m2, n, w) PROVE n < 2
      <4>1. m2.at = a + n
        BY <1>2, <3>2 DEF Reads
      <4> QED
        BY <1>2, <2>4, <2>7, <4>1
    <3>3. ~LinkNul(Job, out, m, m2) /\ ~LinkByte(Job, out, m, m2)
      BY <3>1, <3>2 DEF LinkNul, LinkByte
    <3>4. ~LinkId(Job, out, m, m2)
      BY <3>2 DEF LinkId, LinkIdAs
    <3>5. ~LinkUnit(Job, out, m, m2) /\ ~LinkAffix(Job, out, m, m2)
      BY <3>2 DEF LinkUnit, LinkAffix
    <3>6. ~LinkExt(Job, out, m, m2)
      BY <3>2 DEF LinkExt, LinkExtAs
    <3>7. ~LinkDef(Job, out, m, m2)
      <4>1. SUFFICES ASSUME NEW id \in 1 .. Len(vocab), LinkDefAs(Job, out, m, m2, id) PROVE FALSE
        BY JobIs DEF LinkDef
      <4>2. PICK n \in Nat : n = 4 + Len(vocab[id]) /\ n >= 4
        BY <2>6
      <4>3. Reads(Job, m, m2, n, vocab[id])
        BY <4>1, <4>2, JobIs DEF LinkDefAs
      <4>4. n < 2
        BY <3>2, <4>3
      <4> QED
        BY <4>2, <4>4
    <3> QED
      BY <2>3, <3>3, <3>4, <3>5, <3>6, <3>7 DEF Link
  <2>8. CASE j < Len(out) /\ out[j] = ESC /\ Marked /\ ~Whole
    <3>1. \/ LinkDef(Job, out, m, m2) \/ LinkUnit(Job, out, m, m2) \/ LinkExt(Job, out, m, m2)
          \/ LinkAffix(Job, out, m, m2)
      BY <2>3, <2>8, MarkedLink
    <3>2. CASE LinkDef(Job, out, m, m2)
      <4>1. PICK id \in 1 .. Len(vocab) : LinkDefAs(Job, out, m, m2, id)
        BY <3>2, JobIs DEF LinkDef
      <4>2. PICK n \in Nat : n = Len(vocab[id])
        BY <2>6
      <4>3. m2.at = a + (4 + n) /\ out[a + 3] = id /\ out[a + 4] = n /\ form = "firstuse"
        BY <1>2, <4>1, <4>2, JobIs DEF LinkDefAs, Reads
      <4>4. id \in 1 .. RESERVED_MAX
        <5>1. Len(vocab) <= RESERVED_MAX /\ RESERVED_MAX \in Nat
          BY <2>5, <4>3, JobFacts, NAssumption DEF RESERVED_MAX
        <5> QED
          BY <2>5, <5>1
      <4>5. j + 3 = a + 4 /\ j + 2 = a + 3 /\ j + 3 <= z /\ j + 3 + n <= z
        <5>1. a + (4 + n) <= z
          BY <2>4, <4>3
        <5>2. (a + 1) + 3 = a + 4 /\ (a + 1) + 2 = a + 3 /\ (a + 1) + 3 <= z /\ (a + 1) + 3 + n <= z
          BY <5>1
        <5> QED
          BY <1>2, <5>2
      <4>6. Whole
        BY <1>2, <4>3, <4>4, <4>5 DEF Whole
      <4> QED
        BY <2>8, <4>6
    <3>3. CASE LinkUnit(Job, out, m, m2)
      <4>1. m2.at = a + 3 /\ form = "subword"
        BY <1>2, <3>3, JobIs DEF LinkUnit, Reads
      <4>2. j + 2 <= z
        BY <1>2, <2>4, <4>1
      <4>3. Whole
        BY <1>2, <4>1, <4>2 DEF Whole
      <4> QED
        BY <2>8, <4>3
    <3>4. CASE LinkExt(Job, out, m, m2) \/ LinkAffix(Job, out, m, m2)
      <4>1. m2.at = a + 4 /\ form \in {"extended", "affix"}
        BY <1>2, <3>4, JobIs DEF LinkExt, LinkExtAs, LinkAffix, Reads
      <4>2. j + 3 <= z
        BY <1>2, <2>4, <4>1
      <4>3. Whole
        BY <1>2, <4>1, <4>2 DEF Whole
      <4> QED
        BY <2>8, <4>3
    <3> QED
      BY <3>1, <3>2, <3>3, <3>4
  <2>9. ~(j > Len(out))
    BY <1>2, <2>1
  <2> QED
    BY <1>1, <2>7, <2>8, <2>9 DEF Truncated
<1>4. m.read = Len(text)
  BY <1>2, <1>3, ReadingFacts DEF AllRead, Reading
<1>5. back = text
  <2>1. text \in Seq(Bytes)
    BY JobFacts DEF Reading
  <2>2. back = SubSeq(text, 1, Len(text))
    BY <1>4, ReadingFacts, JobIs DEF Upto
  <2> QED
    BY <2>1, <2>2, SubSeqFull
<1>6. Job' = Job
  BY <1>1 DEF Job
<1>7. out' = out
  BY <1>1 DEF enc
<1>8. Followed(M)' /\ StageOK(M, V)'
  BY <1>1, <1>5 DEF Followed, StageOK, Reading, Restoring
<1> QED
  BY <1>6, <1>7, <1>8 DEF Reading, Restoring

-----------------------------------------------------------------------------
(* The decoder's steps in the header.                                      *)

\* Nothing is read at the start.
LEMMA UptoNone == Upto(Job, 0) = <<>>
  BY SubSeqEmpty DEF Upto

\* The decoder reads the count the encoder wrote.
LEMMA ReadCountRestores ==
  ASSUME NEW M, NEW V, Restoring(M, V), JobOK(Job), ReadCount
  PROVE  Restoring(M, V)'
<1>1. PICK bytes : bytes = IF form = "firstuse" THEN 0 ELSE IF form = "extended" THEN 2 ELSE 1
  OBVIOUS
<1>2. /\ stage = "count" /\ DecodeTo(IF Len(out) < bytes THEN "done" ELSE "header", bytes + 1)
      /\ left' = IF Len(out) < bytes \/ bytes = 0 THEN 0
                 ELSE IF bytes = 1 THEN out[1] ELSE out[1] + N * out[2]
      /\ dict' = IF form = "firstuse" THEN [k \in 1 .. RESERVED_MAX |-> <<>>] ELSE <<>>
      /\ back' = back
  BY <1>1 DEF ReadCount
<1>3. UNCHANGED <<text, vocab, form, mode, out, trail>> /\ j' = bytes + 1
  BY <1>2 DEF DecodeTo, job, enc
<1>4. Job' = Job
  BY <1>3 DEF Job
<1>5. AllRead(M) /\ back = <<>> /\ Trace(Job, out, M) /\ HeadOK(Job, out, M, V) /\ Followed(M)
  BY <1>2 DEF Restoring, StageOK
<1>6. Len(out) \in Nat /\ vocab \in Seq(Seq(Bytes)) /\ Len(vocab) \in Nat
  BY <1>5, JobFacts DEF Trace
<1>7. CASE form = "firstuse"
  <2>1. bytes = 0 /\ ~(Len(out) < 0)
    BY <1>1, <1>6, <1>7
  <2>2. stage' = "header" /\ j' = 1 /\ left' = 0
    BY <1>2, <1>3, <2>1 DEF DecodeTo
  <2>3. InHeader(V)'
    BY <1>2, <1>3, <1>7, <2>2 DEF InHeader
  <2> QED
    BY <1>2, <1>3, <1>4, <1>5, <2>2, <2>3 DEF Restoring, StageOK, AllRead, Followed
<1>8. CASE form # "firstuse"
  <2>1. EntriesAt(Job, out, V) /\ CountAt(Job, out) = Len(vocab)
    BY <1>5, <1>8, JobIs DEF HeadOK
  <2>2. bytes = Lead(Job) /\ bytes \in {1, 2} /\ bytes <= Len(out) /\ V[1] = bytes
    BY <1>1, <1>8, <2>1, JobIs DEF Lead, EntriesAt
  <2>3. ~(Len(out) < bytes) /\ bytes # 0
    BY <1>6, <2>2
  <2>4. stage' = "header"
    BY <1>2, <2>3 DEF DecodeTo
  <2>5. left' = Len(vocab)
    BY <1>1, <1>2, <1>8, <2>1, <2>3, JobIs DEF CountAt
  <2>6. j' = V[Len(vocab) - Len(vocab) + 1] + 1
    <3>1. Len(vocab) - Len(vocab) + 1 = 1
      BY <1>6
    <3> QED
      BY <1>3, <2>2, <3>1
  <2>7. dict' = <<>> /\ <<>> \in Seq(Seq(Bytes)) /\ Len(<<>>) = 0
    BY <1>2, <1>8
  <2>8. Len(vocab) \in 0 .. Len(vocab) /\ 0 = Len(vocab) - Len(vocab)
    BY <1>6
  <2>9. \A k \in 1 .. Len(dict') : dict'[k] = vocab[k]
    BY <2>7
  <2>10. InHeader(V)'
    BY <1>3, <1>8, <2>5, <2>6, <2>7, <2>8, <2>9 DEF InHeader
  <2> QED
    BY <1>2, <1>3, <1>4, <1>5, <2>4, <2>10 DEF Restoring, StageOK, AllRead, Followed
<1> QED
  BY <1>7, <1>8

\* At the end of the header it has the vocabulary, the units and the list.
LEMMA EndHeaderRestores ==
  ASSUME NEW M, NEW V, Restoring(M, V), JobOK(Job), EndHeader
  PROVE  Restoring(M, V)'
<1>1. /\ stage = "header" /\ left = 0 /\ stage' = "body" /\ j' = j
      /\ dlist' = NewList(Len(dict))
      /\ units' = IF form = "subword" THEN DeriveMerges(dict) ELSE <<>>
      /\ UNCHANGED <<text, vocab, form, mode, out, trail, left, dict, back>>
  BY DEF EndHeader, DecodeTo, job, enc
<1>2. Job' = Job
  BY <1>1 DEF Job
<1>3. AllRead(M) /\ back = <<>> /\ InHeader(V) /\ HeadOK(Job, out, M, V) /\ Followed(M) /\ Trace(Job, out, M)
  BY <1>1 DEF Restoring, StageOK
<1>4. vocab \in Seq(Seq(Bytes)) /\ Len(vocab) \in Nat /\ RESERVED_MAX \in Nat
  BY JobFacts, NAssumption DEF RESERVED_MAX
<1>5. \E m \in M : Synced(m)'
  <2>1. CASE form = "firstuse"
    <3>1. PICK m \in M : m = FirstMark(Job, 0)
      BY <1>3, <2>1, JobIs DEF HeadOK
    <3>2. m.at = 0 /\ m.read = 0 /\ m.defined = {}
      BY <3>1 DEF FirstMark, Mark
    <3>3. dict = [k \in 1 .. RESERVED_MAX |-> <<>>] /\ j = 1
      BY <1>3, <2>1 DEF InHeader
    <3>4. Len(dict) = RESERVED_MAX
      BY <1>4, <3>3
    <3>5. dict = [k \in 1 .. RESERVED_MAX |-> IF k \in m.defined THEN vocab[k] ELSE <<>>]
      BY <3>2, <3>3
    <3>6. j' = m.at + 1 /\ back' = Upto(Job', m.read)
      BY <1>1, <1>2, <1>3, <3>2, <3>3, UptoNone
    <3>7. Synced(m)'
      BY <1>1, <2>1, <3>4, <3>5, <3>6 DEF Synced
    <3> QED
      BY <3>7
  <2>2. CASE form # "firstuse"
    <3>1. PICK m \in M : m = FirstMark(Job, V[Len(vocab) + 1])
      BY <1>3, <2>2, JobIs DEF HeadOK
    <3>2. m.at = V[Len(vocab) + 1] /\ m.read = 0 /\ m.list = NewList(Len(vocab))
      BY <3>1, JobIs DEF FirstMark, Mark
    <3>3. /\ dict \in Seq(Seq(Bytes)) /\ Len(dict) = Len(vocab) - left
          /\ \A k \in 1 .. Len(dict) : dict[k] = vocab[k]
          /\ j = V[Len(vocab) - left + 1] + 1
      BY <1>3, <2>2 DEF InHeader
    <3>4. Len(vocab) - left = Len(vocab)
      BY <1>1, <1>4
    <3>5. dict = vocab
      <4>1. PICK Y : Y = Seq(Bytes)
        OBVIOUS
      <4>2. dict \in Seq(Y) /\ vocab \in Seq(Y) /\ Len(dict) = Len(vocab)
        BY <1>4, <3>3, <3>4, <4>1
      <4> QED
        BY <3>3, <4>2, SeqEqual
    <3>6. j' = m.at + 1 /\ back' = Upto(Job', m.read)
      BY <1>1, <1>2, <1>3, <3>2, <3>3, <3>4, UptoNone
    <3>7. Synced(m)'
      BY <1>1, <2>2, <3>2, <3>5, <3>6 DEF Synced
    <3> QED
      BY <3>7
  <2> QED
    BY <2>1, <2>2
<1>6. StageOK(M, V)'
  BY <1>1, <1>3, <1>5 DEF StageOK, AllRead
<1> QED
  BY <1>1, <1>2, <1>3, <1>6 DEF Restoring, Followed

\* A part that is known element by element.
LEMMA Cutting ==
  ASSUME NEW q \in Seq(Bytes), NEW a \in Nat, NEW u \in Seq(Bytes), a + Len(u) <= Len(q),
         \A x \in 1 .. Len(u) : q[a + x] = u[x]
  PROVE  SubSeq(q, a + 1, a + Len(u)) = u
<1>1. PICK n \in Nat, z \in Nat : n = Len(u) /\ z = Len(q) /\ a + n <= z
  OBVIOUS
<1>2. PICK p \in 1 .. Len(q) + 1 : p = a + 1
  BY <1>1
<1>3. PICK e \in p - 1 .. Len(q) : e = a + n
  BY <1>1, <1>2
<1>4. \A k \in p .. e : q[k] \in Bytes
  BY <1>1, <1>2, <1>3
<1>5. SubSeq(q, p, e) \in Seq(Bytes)
  BY <1>4, Part
<1>6. Len(SubSeq(q, p, e)) = e - p + 1
  BY <1>4, Part
<1>7. \A k \in 1 .. e - p + 1 : SubSeq(q, p, e)[k] = q[p + k - 1]
  BY <1>4, Part
<1>8. e - p + 1 = n /\ \A k \in 1 .. n : p + k - 1 = a + k
  BY <1>2, <1>3
<1>9. PICK s \in Seq(Bytes) : s = SubSeq(q, p, e)
  BY <1>5
<1>10. Len(s) = n
  BY <1>6, <1>8, <1>9
<1>11. \A k \in 1 .. n : s[k] = u[k]
  BY <1>1, <1>7, <1>8, <1>9
<1>12. s = u
  <2>1. Len(s) = Len(u) /\ \A k \in 1 .. Len(s) : s[k] = u[k]
    BY <1>1, <1>10, <1>11
  <2> QED
    BY <2>1, SeqEqual
<1> QED
  BY <1>1, <1>2, <1>3, <1>9, <1>12

\* Each entry is read back as it was written.
LEMMA ReadEntryRestores ==
  ASSUME NEW M, NEW V, Restoring(M, V), JobOK(Job), ReadEntry
  PROVE  Restoring(M, V)'
<1>1. PICK lead, prev, next, prefix :
         /\ stage = "header" /\ left > 0
         /\ lead = IF form = "front" THEN 2 ELSE 1
         /\ prev = IF dict = <<>> THEN <<>> ELSE dict[Len(dict)]
         /\ next = j + lead + out[j + lead - 1]
         /\ prefix = IF form = "front" THEN Take(prev, out[j]) ELSE <<>>
         /\ IF j + lead - 1 > Len(out)
            THEN DecodeTo("header", j) /\ left' = 0 /\ UNCHANGED dict
            ELSE IF next - 1 > Len(out)
            THEN DecodeTo("header", j + lead) /\ left' = 0 /\ UNCHANGED dict
            ELSE /\ DecodeTo("header", next)
                 /\ left' = left - 1
                 /\ dict' = Append(dict, prefix \o SubSeq(out, j + lead, next - 1))
         /\ back' = back
  BY DEF ReadEntry
<1>2. UNCHANGED <<text, vocab, form, mode, out, trail>> /\ stage' = "header"
  BY <1>1 DEF DecodeTo, job, enc
<1>3. Job' = Job
  BY <1>2 DEF Job
<1>4. AllRead(M) /\ back = <<>> /\ InHeader(V) /\ HeadOK(Job, out, M, V) /\ Followed(M) /\ Trace(Job, out, M)
  BY <1>1 DEF Restoring, StageOK
<1>5. PICK n \in Nat : n = Len(vocab) /\ vocab \in Seq(Seq(Bytes)) /\ out \in Seq(Bytes) /\ Len(out) \in Nat
  BY <1>4, JobFacts DEF Trace
<1>6. form # "firstuse"
  BY <1>1, <1>4 DEF InHeader
<1>7. /\ left \in 0 .. n /\ j = V[n - left + 1] + 1
      /\ dict \in Seq(Seq(Bytes)) /\ Len(dict) = n - left
      /\ \A k \in 1 .. Len(dict) : dict[k] = vocab[k]
  BY <1>4, <1>5, <1>6 DEF InHeader
<1>8. PICK k \in 1 .. n : k = n - left + 1 /\ Len(dict) = k - 1 /\ left - 1 \in 0 .. n /\ n - (left - 1) = k
  BY <1>1, <1>7
<1>9. EntriesAt(Job, out, V)
  BY <1>4, <1>6, JobIs DEF HeadOK
<1>10. PICK a \in Nat, b \in Nat, e \in Nat : /\ a = V[k] /\ b = V[k + 1] /\ e = V[n + 1] /\ b <= e /\ e <= Len(out)
                                             /\ EntryAt(Job, out, a, b, k)
  <2>1. V \in [1 .. n + 1 -> Nat]
    BY <1>5, <1>9, JobIs DEF EntriesAt
  <2>2. k \in 1 .. n + 1 /\ k + 1 \in 1 .. n + 1 /\ n + 1 \in 1 .. n + 1
    OBVIOUS
  <2>3. V[k] \in Nat /\ V[k + 1] \in Nat /\ V[n + 1] \in Nat
    BY <2>1, <2>2
  <2>4. V[n + 1] <= Len(out) /\ V[k + 1] <= V[n + 1] /\ EntryAt(Job, out, V[k], V[k + 1], k)
    BY <1>5, <1>9, JobIs DEF EntriesAt
  <2> QED
    BY <2>3, <2>4
<1>11. b <= Len(out) /\ j = a + 1
  <2>1. b <= Len(out)
    BY <1>5, <1>10
  <2>2. V[n - left + 1] = a
    BY <1>8, <1>10
  <2> QED
    BY <1>7, <2>1, <2>2
<1>12. PICK w \in Seq(Bytes), z \in Nat : w = vocab[k] /\ z = Len(w)
  <2>1. vocab[k] \in Seq(Bytes)
    BY <1>5, ElementOfSeq
  <2> QED
    BY <2>1
<1>13. /\ ~(j + lead - 1 > Len(out)) /\ ~(next - 1 > Len(out)) /\ next = b + 1
       /\ prefix \o SubSeq(out, j + lead, next - 1) = w
  <2>1. CASE form = "front"
    <3>1. PICK s \in Nat : FrontAs(Job, out, a, k, s) /\ b = a + 2 + (z - s)
      BY <1>10, <1>12, <2>1, JobIs DEF EntryAt
    <3>2. /\ s <= z /\ out[a + 1] = s /\ out[a + 2] = z - s
          /\ \A x \in 1 .. z - s : out[a + 2 + x] = w[s + x]
      BY <1>12, <3>1, JobIs DEF FrontAs
    <3>3. PICK m \in Nat : m = z - s
      BY <3>2
    <3>4. lead = 2 /\ j + lead - 1 = a + 2 /\ out[j] = s
      BY <1>1, <1>11, <2>1, <3>2
    <3>5. next = a + 3 + m /\ b = a + 2 + m
      BY <1>1, <1>11, <3>1, <3>2, <3>3, <3>4
    <3>6. ~(j + lead - 1 > Len(out)) /\ ~(next - 1 > Len(out)) /\ next = b + 1
      BY <1>5, <1>11, <3>4, <3>5
    <3>7. PICK u \in Seq(Bytes), y \in Nat : u = Previous(Job, k) /\ y = Len(u) /\ prev = u
      <4>1. CASE k = 1
        <5>1. Len(dict) = 0
          BY <1>8, <4>1
        <5>2. dict = <<>>
          BY <1>7, <5>1, EmptySeq
        <5>3. <<>> \in Seq(Bytes) /\ Len(<<>>) \in Nat
          OBVIOUS
        <5> QED
          BY <1>1, <4>1, <5>2, <5>3 DEF Previous
      <4>2. CASE k # 1
        <5>1. PICK f \in 1 .. Len(vocab) : f = k - 1
          BY <1>5, <4>2
        <5>2. vocab[f] \in Seq(Bytes)
          BY <1>5, ElementOfSeq
        <5>3. Len(dict) = f /\ f \in 1 .. Len(dict)
          BY <1>8, <5>1
        <5>4. dict # <<>>
          BY <5>3
        <5>5. prev = vocab[f]
          BY <1>1, <1>7, <5>3, <5>4
        <5>6. Previous(Job, k) = vocab[f]
          BY <4>2, <5>1, JobIs DEF Previous
        <5> QED
          BY <5>2, <5>5, <5>6
      <4> QED
        BY <4>1, <4>2
    <3>8. s <= y /\ \A x \in 1 .. s : u[x] = w[x]
      BY <1>12, <3>1, <3>7, JobIs DEF FrontAs
    <3>9. prefix = SubSeq(w, 1, s)
      <4>1. prefix = Take(u, s)
        BY <1>1, <2>1, <3>4, <3>7
      <4>2. Take(u, s) \in Seq(Bytes)
        BY TakeOK
      <4>3. Len(Take(u, s)) = s
        BY <3>7, <3>8, TakeOK
      <4>4. \A x \in 1 .. Len(Take(u, s)) : Take(u, s)[x] = u[x]
        BY TakeOK
      <4>5. PICK t \in Seq(Bytes) : t = Take(u, s) /\ Len(t) = s
        BY <4>2, <4>3
      <4>6. \A x \in 1 .. s : t[x] = w[x]
        BY <3>8, <4>4, <4>5
      <4>7. \A x \in 1 .. Len(t) : w[0 + x] = t[x]
        BY <4>5, <4>6
      <4>8. 0 + Len(t) <= Len(w)
        BY <1>12, <3>2, <4>5
      <4>9. 0 \in Nat
        OBVIOUS
      <4>10. SubSeq(w, 0 + 1, 0 + Len(t)) = t
        BY <4>7, <4>8, <4>9, Cutting
      <4>11. 0 + 1 = 1 /\ 0 + Len(t) = s
        BY <4>5
      <4> QED
        BY <4>1, <4>5, <4>10, <4>11
    <3>10. SubSeq(out, j + lead, next - 1) = SubSeq(w, s + 1, z)
      <4>1. PICK p \in 1 .. Len(w) + 1 : p = s + 1
        BY <1>12, <3>2
      <4>2. z \in p - 1 .. Len(w) /\ \A x \in p .. z : w[x] \in Bytes
        BY <1>12, <3>2, <4>1
      <4>3. SubSeq(w, p, z) \in Seq(Bytes)
        BY <4>2, Part
      <4>4. Len(SubSeq(w, p, z)) = z - p + 1
        BY <4>2, Part
      <4>5. \A x \in 1 .. z - p + 1 : SubSeq(w, p, z)[x] = w[p + x - 1]
        BY <4>2, Part
      <4>6. z - p + 1 = m /\ \A x \in 1 .. m : p + x - 1 = s + x
        BY <3>2, <3>3, <4>1
      <4>7. PICK t \in Seq(Bytes) : t = SubSeq(w, p, z)
        BY <4>3
      <4>8. Len(t) = m /\ \A x \in 1 .. m : t[x] = w[s + x]
        BY <4>4, <4>5, <4>6, <4>7
      <4>9. PICK f \in Nat : f = a + 2
        OBVIOUS
      <4>10. \A x \in 1 .. Len(t) : out[f + x] = t[x]
        BY <3>2, <3>3, <4>8, <4>9
      <4>11. f + Len(t) <= Len(out)
        BY <1>5, <1>11, <3>5, <4>8, <4>9
      <4>12. SubSeq(out, f + 1, f + Len(t)) = t
        BY <1>5, <4>10, <4>11, Cutting
      <4>13. f + 1 = j + lead /\ f + Len(t) = next - 1
        BY <1>11, <3>4, <3>5, <4>8, <4>9
      <4> QED
        BY <4>1, <4>7, <4>12, <4>13
    <3>11. SubSeq(w, 1, s) \o SubSeq(w, s + 1, z) = w
      <4>1. 1 \in 1 .. Len(w) + 1 /\ s \in 1 - 1 .. Len(w) /\ z \in s .. Len(w)
        BY <1>12, <3>2
      <4>2. SubSeq(w, 1, s) \o SubSeq(w, s + 1, z) = SubSeq(w, 1, z)
        BY <4>1, ConcatAdjacentSubSeq
      <4> QED
        BY <1>12, <4>2, SubSeqFull
    <3> QED
      BY <3>6, <3>9, <3>10, <3>11
  <2>2. CASE form # "front"
    <3>1. /\ b = a + 1 + z /\ out[a + 1] = z /\ \A x \in 1 .. z : out[a + 1 + x] = w[x]
      BY <1>10, <1>12, <2>2, JobIs DEF EntryAt, PlainAt
    <3>2. lead = 1 /\ j + lead - 1 = a + 1 /\ prefix = <<>>
      BY <1>1, <1>11, <2>2
    <3>3. next = a + 2 + z
      <4>1. out[j + lead - 1] = z
        BY <3>1, <3>2
      <4>2. next = j + lead + z
        BY <1>1, <4>1
      <4>3. j = a + 1 /\ lead = 1
        BY <1>11, <3>2
      <4> QED
        BY <4>2, <4>3
    <3>4. ~(j + lead - 1 > Len(out)) /\ ~(next - 1 > Len(out)) /\ next = b + 1
      BY <1>5, <1>11, <3>1, <3>2, <3>3
    <3>5. PICK f \in Nat : f = a + 1
      OBVIOUS
    <3>6. \A x \in 1 .. Len(w) : out[f + x] = w[x]
      BY <1>12, <3>1, <3>5
    <3>7. f + Len(w) <= Len(out)
      BY <1>5, <1>11, <1>12, <3>1, <3>5
    <3>8. SubSeq(out, f + 1, f + Len(w)) = w
      BY <1>5, <3>6, <3>7, Cutting
    <3>9. f + 1 = j + lead /\ f + Len(w) = next - 1
      <4>1. f = a + 1 /\ j = a + 1 /\ lead = 1 /\ next = a + 2 + z
        BY <1>11, <3>2, <3>3, <3>5
      <4>2. Len(w) = z
        BY <1>12
      <4>3. f + 1 = j + lead /\ f + z = next - 1
        BY <4>1
      <4> QED
        BY <4>2, <4>3
    <3>10. <<>> \o w = w
      BY ConcatEmptySeq
    <3> QED
      BY <3>2, <3>4, <3>8, <3>9, <3>10
  <2> QED
    BY <2>1, <2>2
<1>14. j' = b + 1 /\ left' = left - 1 /\ dict' = Append(dict, w)
  BY <1>1, <1>13 DEF DecodeTo
<1>15. /\ dict' \in Seq(Seq(Bytes)) /\ Len(dict') = k /\ \A x \in 1 .. k : dict'[x] = vocab[x]
  <2>1. PICK Y : Y = Seq(Bytes)
    OBVIOUS
  <2>2. dict \in Seq(Y) /\ w \in Y
    BY <1>7, <2>1
  <2>3. Append(dict, w) \in Seq(Y)
    BY <2>2, AppendProperties
  <2>4. Len(Append(dict, w)) = Len(dict) + 1
    BY <2>2, AppendProperties
  <2>5. \A x \in 1 .. Len(dict) : Append(dict, w)[x] = dict[x]
    BY <2>2, AppendProperties
  <2>6. Append(dict, w)[Len(dict) + 1] = w
    BY <2>2, AppendProperties
  <2>7. Len(dict) + 1 = k
    BY <1>8
  <2>8. \A x \in 1 .. k : Append(dict, w)[x] = vocab[x]
    <3> TAKE x \in 1 .. k
    <3>1. CASE x = k
      BY <1>12, <2>6, <2>7, <3>1
    <3>2. CASE x # k
      <4>1. x \in 1 .. Len(dict)
        BY <1>8, <3>2
      <4> QED
        BY <1>7, <2>5, <4>1
    <3> QED
      BY <3>1, <3>2
  <2> QED
    BY <1>14, <2>1, <2>3, <2>4, <2>7, <2>8
<1>16. j' = V[n - left' + 1] + 1 /\ left' \in 0 .. n /\ Len(dict') = n - left'
  <2>1. n - left' + 1 = k + 1
    BY <1>8, <1>14
  <2> QED
    BY <1>8, <1>10, <1>14, <1>15, <2>1
<1>17. InHeader(V)'
  BY <1>2, <1>5, <1>6, <1>15, <1>16 DEF InHeader
<1>18. StageOK(M, V)'
  BY <1>1, <1>2, <1>4, <1>17 DEF StageOK, AllRead
<1> QED
  BY <1>2, <1>3, <1>4, <1>18 DEF Restoring, Followed

-----------------------------------------------------------------------------
(* Every step, and the theorems.                                           *)

\* No step gives a stream an encoder it did not have, and none changes what
\* it was encoded from.
LEMMA SameJob ==
  ASSUME [Next]_vars, Restores
  PROVE  /\ Job' = Job /\ (EntriesFit' <=> EntriesFit)
         /\ (trail' # {} => trail # {}) /\ (stage' = "encode" => trail' # {})
<1>1. UNCHANGED <<text, vocab, form, mode>>
  BY DEF Next, vars, EncodeWord, EncodeByte, EncodeEnd, Emit, ReadCount, ReadEntry, EndHeader, DecodeByte, DecodeNul,
         DecodeId, DecodeDefinition, DecodeUnit, DecodeExtended, DecodeAffix, DecodeEnd, DecodeTo, job
<1>2. \/ stage = "encode" /\ stage' = "encode" /\ trail \subseteq trail'
      \/ trail' = trail /\ stage' # "encode"
      \/ trail' = trail /\ stage' = stage
  BY DEF Next, vars, EncodeWord, EncodeByte, EncodeEnd, Emit, ReadCount, ReadEntry, EndHeader, DecodeByte, DecodeNul,
         DecodeId, DecodeDefinition, DecodeUnit, DecodeExtended, DecodeAffix, DecodeEnd, DecodeTo
<1>3. Job' = Job /\ (EntriesFit' <=> EntriesFit)
  BY <1>1 DEF Job, EntriesFit
<1>4. (trail' # {} => trail # {}) /\ (stage' = "encode" => trail' # {})
  BY <1>2 DEF Restores
<1> QED
  BY <1>3, <1>4

\* The decoder's steps from a mark.
LEMMA BodyRestores ==
  ASSUME NEW M, NEW V, Restoring(M, V), JobOK(Job),
         \/ DecodeByte \/ DecodeNul \/ DecodeId \/ DecodeDefinition \/ DecodeUnit
         \/ DecodeExtended \/ DecodeAffix \/ DecodeEnd
  PROVE  Restoring(M, V)'
<1>1. stage = "body"
  BY DEF DecodeByte, DecodeNul, DecodeId, DecodeDefinition, DecodeUnit, DecodeExtended, DecodeAffix, DecodeEnd,
         MarkedCode
<1>2. PICK m \in M : Synced(m)
  BY <1>1 DEF Restoring, StageOK
<1>3. Reading(M, V, m)
  BY <1>1, <1>2 DEF Reading
<1> QED
  BY <1>3, DecodeByteRestores, DecodeNulRestores, DecodeIdRestores, DecodeDefinitionRestores, DecodeUnitRestores,
     DecodeExtendedRestores, DecodeAffixRestores, DecodeEndRestores

\* A step that changes nothing.
LEMMA StutterRestores ==
  ASSUME NEW M, NEW V, Restoring(M, V), UNCHANGED vars
  PROVE  Restoring(M, V)'
<1>1. UNCHANGED <<stage, text, vocab, blocked, form, mode, i, out, list, defined, units, j, left, dict, dlist, back, trail>>
  BY DEF vars, job, enc
<1>2. Job' = Job
  BY <1>1 DEF Job
<1>3. Trace(Job', out', M) /\ HeadOK(Job', out', M, V) /\ Followed(M)'
  BY <1>1, <1>2 DEF Restoring, Followed
<1>4. Writing(M)' <=> Writing(M)
  BY <1>1, <1>2 DEF Writing
<1>5. StageOK(M, V)' <=> StageOK(M, V)
  <2>1. \A m : Synced(m)' <=> Synced(m)
    BY <1>1, <1>2 DEF Synced
  <2> QED
    BY <1>1, <1>4, <2>1 DEF StageOK, InEncoder, AllRead, InHeader
<1> QED
  BY <1>3, <1>5 DEF Restoring

\* Every step keeps the invariant.
LEMMA StepRestores == Restores /\ [Next]_vars => Restores'
<1>1. SUFFICES ASSUME Restores, [Next]_vars PROVE Restores'
  OBVIOUS
<1>2. SUFFICES ASSUME trail' # {}, EntriesFit' PROVE JobOK(Job') /\ \E M, V : Restoring(M, V)'
  BY <1>1, SameJob DEF Restores
<1>3. trail # {} /\ EntriesFit /\ Job' = Job
  BY <1>1, <1>2, SameJob
<1>4. JobOK(Job)
  BY <1>1, <1>3 DEF Restores
<1>5. PICK M, V : Restoring(M, V)
  BY <1>1, <1>3 DEF Restores
<1>6. CASE EncodeWord \/ EncodeByte
  BY <1>3, <1>4, <1>5, <1>6, EncodeWordRestores, EncodeByteRestores
<1>7. CASE EncodeEnd
  BY <1>3, <1>4, <1>5, <1>7, EncodeEndRestores
<1>8. CASE ReadCount
  BY <1>3, <1>4, <1>5, <1>8, ReadCountRestores
<1>9. CASE ReadEntry
  BY <1>3, <1>4, <1>5, <1>9, ReadEntryRestores
<1>10. CASE EndHeader
  BY <1>3, <1>4, <1>5, <1>10, EndHeaderRestores
<1>11. CASE \/ DecodeByte \/ DecodeNul \/ DecodeId \/ DecodeDefinition \/ DecodeUnit
            \/ DecodeExtended \/ DecodeAffix \/ DecodeEnd
  BY <1>3, <1>4, <1>5, <1>11, BodyRestores
<1>12. CASE UNCHANGED vars
  BY <1>3, <1>4, <1>5, <1>12, StutterRestores
<1> QED
  BY <1>1, <1>6, <1>7, <1>8, <1>9, <1>10, <1>11, <1>12 DEF Next

\* At the end the text is back.
LEMMA RestoresText == Restores => (EntriesFit => TextRestored)
<1>1. SUFFICES ASSUME Restores, EntriesFit, stage = "done", trail # {} PROVE back = text
  BY DEF TextRestored
<1>2. PICK M, V : Restoring(M, V)
  BY <1>1 DEF Restores
<1> QED
  BY <1>1, <1>2 DEF Restoring, StageOK

\* The mark where the decoder is, is the one the history has for that place.
LEMMA RestoresLockstep == Restores => (EntriesFit => Lockstep)
<1>1. SUFFICES ASSUME Restores, EntriesFit, stage \in {"body", "unwrap"}, NEW t \in trail, t.at = j - 1
               PROVE  /\ back = SubSeq(text, 1, t.read)
                      /\ form = "firstuse" => {k \in DOMAIN dict : dict[k] # <<>>} = t.defined
                      /\ form # "firstuse" => dict = vocab /\ dlist.order = t.order
  BY DEF Lockstep
<1>2. JobOK(Job)
  BY <1>1 DEF Restores
<1>3. PICK M, V : Restoring(M, V)
  BY <1>1 DEF Restores
<1>4. stage = "body"
  BY <1>1, <1>3 DEF Restoring, StageOK
<1>5. PICK m \in M : Synced(m)
  BY <1>3, <1>4 DEF Restoring, StageOK
<1>6. Reading(M, V, m)
  BY <1>2, <1>3, <1>4, <1>5 DEF Reading
<1>7. PICK m2 \in M : t.at = m2.at /\ t.read = m2.read /\ t.order = m2.list.order /\ t.defined = m2.defined
  BY <1>1, <1>3 DEF Restoring, Followed
<1>8. m2 = m
  <2>1. m.at = m2.at
    BY <1>1, <1>6, <1>7, ReadingFacts
  <2> QED
    BY <1>3, <1>7, <2>1 DEF Restoring, Trace
<1>9. t.read = m.read /\ t.order = m.list.order /\ t.defined = m.defined
  BY <1>7, <1>8
<1>10. back = SubSeq(text, 1, t.read)
  BY <1>5, <1>9, JobIs DEF Synced, Upto
<1>11. ASSUME form = "firstuse" PROVE {k \in DOMAIN dict : dict[k] # <<>>} = t.defined
  <2>1. dict = [k \in 1 .. RESERVED_MAX |-> IF k \in m.defined THEN vocab[k] ELSE <<>>]
    BY <1>5, <1>11 DEF Synced
  <2>2. m.defined \subseteq 1 .. Len(vocab) /\ \A k \in m.defined : vocab[k] # <<>>
    BY <1>6, ReadingFacts
  <2>3. 1 .. Len(vocab) \subseteq 1 .. RESERVED_MAX
    <3>1. Len(vocab) \in Nat /\ Len(vocab) <= N - 2
      BY <1>2, <1>11, JobFacts
    <3> QED
      BY <3>1, NAssumption DEF RESERVED_MAX
  <2> QED
    BY <1>9, <2>1, <2>2, <2>3
<1>12. ASSUME form # "firstuse" PROVE dict = vocab /\ dlist.order = t.order
  BY <1>5, <1>9, <1>12 DEF Synced
<1> QED
  BY <1>10, <1>11, <1>12

\* The text comes back from every stream an encoder wrote, in every form, id
\* mode and vocabulary whose entries fit their length byte ("Exact inverse of
\* word_token_encode_mode"; the encoders and decoders of
\* src/transform/mod.rs:526-1046, 1102-1198, 1356-1622).
THEOREM TextComesBack == Spec => [](EntriesFit => TextRestored)
<1> QED
  BY RestoresInit, StepRestores, RestoresText, PTL DEF Spec

\* Whenever the decoder has read as much as the encoder had written at some
\* point, it has the text, the id list, the vocabulary and the definitions
\* the encoder had there, in every promotion mode (the two loops of
\* word_token_encode_mode and word_token_decode_mode, and those of the other
\* forms).
THEOREM DecoderKeepsUp == Spec => [](EntriesFit => Lockstep)
<1> QED
  BY RestoresInit, StepRestores, RestoresLockstep, PTL DEF Spec

-----------------------------------------------------------------------------
(* The pattern a round of the induction takes.                             *)

\* The candidate that is before all others exists.
LEMMA MostFrequentOK ==
  ASSUME NEW S, Counted(S), S # {}
  PROVE  MostFrequent(S) \in S
<1>1. PICK n \in Nat : n = Cardinality(S)
  BY FS_CardinalityType DEF Counted
<1>2. n # 0
  BY <1>1, FS_EmptySet DEF Counted
<1>3. PICK c \in S : Rank(S, c) = 0
  <2>1. 1 \in 1 .. n /\ 1 - 1 = 0
    BY <1>2
  <2>2. \E a \in S : Rank(S, a) = 1 - 1
    BY <1>1, <2>1, RanksTaken
  <2> QED
    BY <2>1, <2>2
<1>4. ASSUME NEW d \in S \ {c} PROVE Before(c, d)
  <2>1. PICK P : P = {b \in S : Before(b, c)}
    OBVIOUS
  <2>2. IsFiniteSet(P)
    <3>1. P \subseteq S /\ IsFiniteSet(S)
      BY <2>1 DEF Counted
    <3> QED
      BY <3>1, FS_Subset
  <2>3. P = {}
    BY <1>3, <2>1, <2>2, FS_EmptySet DEF Rank
  <2>4. Before(c, d) \/ Before(d, c)
    BY BeforeOrders
  <2> QED
    BY <2>1, <2>3, <2>4
<1> QED
  BY <1>4 DEF MostFrequent

\* The candidates of a sequence of symbols: its pairs of neighbours.
PairOf(s, q) == \E p \in 1 .. Len(s) - 1 : q = SubSeq(s, p, p + 1)

\* Two neighbours are a part of the sequence.
LEMMA PairIsPart ==
  ASSUME NEW D, NEW s \in Seq(D), NEW p \in 1 .. Len(s) - 1
  PROVE  /\ SubSeq(s, p, p + 1) \in Seq(D) /\ Len(SubSeq(s, p, p + 1)) = 2
         /\ SubSeq(s, p, p + 1)[1] \in D /\ SubSeq(s, p, p + 1)[2] \in D
<1>1. PICK n \in Nat : n = Len(s)
  OBVIOUS
<1>2. p \in Nat /\ p + 1 \in Nat /\ p <= p + 1 /\ (p + 1) - p + 1 = 2
  OBVIOUS
<1>3. \A x \in p .. p + 1 : s[x] \in D
  BY <1>1
<1>4. PICK q : q = SubSeq(s, p, p + 1)
  OBVIOUS
<1>5. q \in Seq(D) /\ Len(q) = IF p <= p + 1 THEN (p + 1) - p + 1 ELSE 0
  BY <1>2, <1>3, <1>4, SubSeqProperties
<1>6. q \in Seq(D) /\ Len(q) = 2
  BY <1>2, <1>5
<1>7. q[1] \in D /\ q[2] \in D
  <2>1. 1 \in 1 .. Len(q) /\ 2 \in 1 .. Len(q)
    BY <1>6
  <2> QED
    BY <1>6, <2>1, ElementOfSeq
<1> QED
  BY <1>4, <1>6, <1>7

\* They are finitely many candidates.
LEMMA RepeatsOK ==
  ASSUME NEW D, D \subseteq Nat, NEW s \in Seq(D)
  PROVE  /\ Counted(Repeats(s))
         /\ \A c \in Repeats(s) : c.word \in Seq(D) /\ PairOf(s, c.word)
<1>1. PICK m \in Nat : m = Len(s) /\ DOMAIN s = 1 .. m
  OBVIOUS
<1>2. PICK A : A = 1 .. m - 1
  OBVIOUS
<1>3. IsFiniteSet(A) /\ IsFiniteSet(1 .. m)
  BY <1>2, FS_Interval
<1>4. PICK at : at = [p \in A |-> SubSeq(s, p, p + 1)]
  OBVIOUS
<1>5. PICK Q : Q = {at[p] : p \in A}
  OBVIOUS
<1>6. Q = {SubSeq(s, p, p + 1) : p \in A}
  BY <1>4, <1>5
<1>7. IsFiniteSet(Q)
  BY <1>3, <1>5, ImageFinite
<1>8. PICK tell : tell = [q \in Q |-> [word |-> q, count |-> Cardinality({p \in 1 .. m : IsPlaceOf(p, s, q)})]]
  OBVIOUS
<1>9. PICK C : C = {tell[q] : q \in Q}
  OBVIOUS
<1>10. IsFiniteSet(C)
  BY <1>7, <1>9, ImageFinite
<1>11. Repeats(s) = {c \in C : c.count >= MinCount}
  <2>1. C = {[word |-> q, count |-> Cardinality({p \in 1 .. m : IsPlaceOf(p, s, q)})] : q \in Q}
    BY <1>8, <1>9
  <2> QED
    BY <1>1, <1>2, <1>6, <2>1 DEF Repeats
<1>12. \A c \in C : c.word \in Q /\ c.count \in Nat /\ c = tell[c.word]
  <2> TAKE c \in C
  <2>1. PICK q \in Q : c = tell[q]
    BY <1>9
  <2>2. PICK P : P = {p \in 1 .. m : IsPlaceOf(p, s, q)}
    OBVIOUS
  <2>3. c.word = q /\ c.count = Cardinality(P)
    BY <1>8, <2>1, <2>2
  <2>4. IsFiniteSet(P)
    BY <1>3, <2>2, FS_Subset
  <2> QED
    BY <2>1, <2>3, <2>4, FS_CardinalityType
<1>13. \A q \in Q : q \in Seq(D) /\ PairOf(s, q)
  <2> TAKE q \in Q
  <2>1. PICK p \in A : q = SubSeq(s, p, p + 1)
    BY <1>6
  <2>2. p \in 1 .. Len(s) - 1
    BY <1>1, <1>2
  <2> QED
    BY <2>1, <2>2, PairIsPart DEF PairOf
<1>14. \A q \in Seq(D) : q \in Seq(Nat)
  BY SeqMonotonic
<1>15. IsFiniteSet(Repeats(s))
  BY <1>10, <1>11, FS_Subset
<1> QED
  BY <1>11, <1>12, <1>13, <1>14, <1>15 DEF Counted

\* A part of s that is longer than one symbol.
LongPart(s, D, pat) == pat \in Seq(D) /\ Len(pat) >= 2

\* A pair of neighbours has a longest repeat, and it is a part of s.
LEMMA MaximalOK ==
  ASSUME NEW D, NEW s \in Seq(D), NEW pair \in Seq(D), PairOf(s, pair)
  PROVE  LongPart(s, D, MaximalRepeat(s, pair))
<1>1. PICK n \in Nat : n = Len(s) /\ DOMAIN s = 1 .. n
  OBVIOUS
<1>2. PICK x \in 1 .. n - 1 : pair = SubSeq(s, x, x + 1)
  BY <1>1 DEF PairOf
<1>3. Len(pair) = 2
  BY <1>1, <1>2, PairIsPart
<1>4. PICK P : P = {p \in 1 .. n : IsPlaceOf(p, s, pair)}
  OBVIOUS
<1>5. \A p \in P : p \in 1 .. n /\ p + 1 <= n /\ SubSeq(s, p, p + 1) = pair
  <2> TAKE p \in P
  <2>1. p \in 1 .. n /\ p + Len(pair) - 1 <= Len(s) /\ SubSeq(s, p, p + Len(pair) - 1) = pair
    BY <1>4 DEF IsPlaceOf
  <2>2. p + Len(pair) - 1 = p + 1
    BY <1>3, <2>1
  <2> QED
    BY <1>1, <2>1, <2>2
<1>6. x \in P
  <2>1. x + Len(pair) - 1 = x + 1
    BY <1>3
  <2>2. x + Len(pair) - 1 <= Len(s) /\ SubSeq(s, x, x + Len(pair) - 1) = pair
    BY <1>1, <1>2, <2>1
  <2> QED
    BY <1>4, <2>2 DEF IsPlaceOf
<1>7. PICK found : found = [l \in Nat |-> {SubSeq(s, p, p + l - 1) : p \in P}]
  OBVIOUS
<1>8. PICK Alike : Alike = {l \in Nat : (\A p \in P : p + l - 1 <= n) /\ Cardinality(found[l]) = 1}
  OBVIOUS
<1>9. 2 \in Alike
  <2>1. \A p \in P : p + 2 - 1 = p + 1
    BY <1>5
  <2>2. found[2] = {pair}
    <3>1. found[2] = {SubSeq(s, p, p + 2 - 1) : p \in P}
      BY <1>7
    <3>2. \A p \in P : SubSeq(s, p, p + 2 - 1) = pair
      BY <1>5, <2>1
    <3> QED
      BY <1>6, <3>1, <3>2
  <2>3. Cardinality(found[2]) = 1
    BY <2>2, FS_Singleton
  <2>4. \A p \in P : p + 2 - 1 <= n
    BY <1>5, <2>1
  <2> QED
    BY <1>8, <2>3, <2>4
<1>10. \A l \in Alike : l \in Nat /\ l <= n
  <2> TAKE l \in Alike
  <2>1. l \in Nat /\ x + l - 1 <= n
    BY <1>6, <1>8
  <2> QED
    BY <2>1
<1>11. PICK l \in 2 .. n : l \in Alike /\ l + 1 \notin Alike
  <2> SUFFICES ASSUME \A k \in 2 .. n : k \in Alike => k + 1 \in Alike PROVE FALSE
    OBVIOUS
  <2> DEFINE S == {k \in Nat : k + 2 \in Alike}
  <2>1. 0 \in S
    BY <1>9
  <2>2. \A k \in Nat : k < n /\ k \in S => k + 1 \in S
    <3> TAKE k \in Nat
    <3>1. SUFFICES ASSUME k \in S PROVE k + 1 \in S
      OBVIOUS
    <3>2. k + 2 \in Alike /\ k + 2 <= n
      BY <1>10, <3>1
    <3>3. k + 2 \in 2 .. n /\ (k + 2) + 1 = (k + 1) + 2
      BY <3>2
    <3>4. (k + 2) + 1 \in Alike
      BY <3>2, <3>3
    <3> QED
      BY <3>3, <3>4
  <2>3. \A k \in S : k + 2 \in Alike
    OBVIOUS
  <2> HIDE DEF S
  <2>4. n \in S
    <3>1. \A k \in 0 .. n : k \in S
      BY <2>1, <2>2, UpTo
    <3> QED
      BY <3>1
  <2>5. n + 2 \in Alike
    BY <2>3, <2>4
  <2> QED
    BY <1>10, <2>5
<1> DEFINE alike(k) == (\A p \in P : p + k - 1 <= Len(s)) /\ Cardinality({SubSeq(s, p, p + k - 1) : p \in P}) = 1
<1>12. \A k \in Nat : alike(k) <=> k \in Alike
  BY <1>1, <1>7, <1>8
<1>13. PICK longest : longest = CHOOSE k \in 2 .. n : alike(k) /\ ~alike(k + 1)
  OBVIOUS
<1>14. longest \in 2 .. n /\ alike(longest)
  <2>1. l \in Nat /\ l + 1 \in Nat
    BY <1>1
  <2> HIDE DEF alike
  <2>2. alike(l) /\ ~alike(l + 1)
    BY <1>11, <1>12, <2>1
  <2> QED
    BY <1>11, <1>13, <2>2
<1>15. PICK F : F = {SubSeq(s, p, p + longest - 1) : p \in P}
  OBVIOUS
<1>16. F # {}
  BY <1>6, <1>15
<1>17. MaximalRepeat(s, pair) = CHOOSE pat \in F : TRUE
  BY <1>1, <1>4, <1>13, <1>15 DEF MaximalRepeat
<1>18. PICK p \in P : MaximalRepeat(s, pair) = SubSeq(s, p, p + longest - 1)
  BY <1>15, <1>16, <1>17
<1>19. p \in 1 .. n /\ p + longest - 1 <= n /\ p + longest - 1 \in Int /\ p <= p + longest - 1
  BY <1>1, <1>5, <1>14
<1>20. \A k \in p .. p + longest - 1 : s[k] \in D
  BY <1>1, <1>19
<1>21. PICK pat : pat = SubSeq(s, p, p + longest - 1)
  OBVIOUS
<1>22. pat \in Seq(D) /\ Len(pat) = (p + longest - 1) - p + 1
  BY <1>19, <1>20, <1>21, SubSeqProperties
<1>23. Len(pat) >= 2
  BY <1>14, <1>19, <1>22
<1> QED
  BY <1>18, <1>21, <1>22, <1>23 DEF LongPart

-----------------------------------------------------------------------------
(* What the symbols of a grammar stand for.                                *)

\* Expansion flattens what the rules make of each symbol.
LEMMA ExpansionIs ==
  ASSUME NEW D, NEW s \in Seq(D), NEW u
  PROVE  Expansion(s, u) = Yield(s, Spelling(u))
<1>1. DOMAIN s = 1 .. Len(s)
  OBVIOUS
<1> QED
  BY <1>1 DEF Expansion, Yield, Spelling

\* Two readings that agree on the symbols of s yield the same.
LEMMA YieldSame ==
  ASSUME NEW D, NEW s \in Seq(D), NEW f, NEW g, \A d \in D : f[d] = g[d]
  PROVE  Yield(s, f) = Yield(s, g)
<1>1. \A k \in 1 .. Len(s) : f[s[k]] = g[s[k]]
  OBVIOUS
<1>2. [k \in 1 .. Len(s) |-> f[s[k]]] = [k \in 1 .. Len(s) |-> g[s[k]]]
  BY <1>1
<1> QED
  BY <1>2 DEF Yield

\* More rules do not change what the old symbols stand for.
LEMMA SpellingGrows ==
  ASSUME NEW u, NEW c \in Seq(Seq(Nat)), NEW v, Units(u), Units(v), v = u \o c
  PROVE  \A y \in Symbols(Len(u)) : Spelling(v)[y] = Spelling(u)[y]
<1>1. u \in Seq(Seq(Nat))
  BY DEF Units
<1>2. PICK m \in Nat, n \in Nat : m = Len(u) /\ n = Len(v) /\ m <= n /\ \A k \in 1 .. m : v[k] = u[k]
  <2>1. Len(v) = Len(u) + Len(c) /\ \A k \in 1 .. Len(u) : v[k] = u[k]
    BY <1>1, Chained
  <2>2. Len(u) \in Nat /\ Len(c) \in Nat
    BY <1>1, LenProperties
  <2> QED
    BY <2>1, <2>2
<1>3. N \in Nat /\ N >= 4
  BY NAssumption
<1>4. PICK g, h : g = Spelling(u) /\ h = Spelling(v)
  OBVIOUS
<1>5. /\ \A y \in Bytes : g[y] = <<y>>
      /\ \A k \in 1 .. m : g[N + k - 1] = g[u[k][1]] \o g[u[k][2]]
  BY <1>2, <1>4, SpellingOK DEF SpelledOut
<1>6. /\ \A y \in Bytes : h[y] = <<y>>
      /\ \A k \in 1 .. n : h[N + k - 1] = h[v[k][1]] \o h[v[k][2]]
  BY <1>2, <1>4, SpellingOK DEF SpelledOut
<1>7. \A k \in 1 .. m : u[k][1] \in 0 .. N + k - 2 /\ u[k][2] \in 0 .. N + k - 2
  BY <1>2 DEF Units
<1> DEFINE S == {z \in Nat : \A y \in 0 .. z : y <= N + m - 1 => h[y] = g[y]}
<1>8. 0 \in S
  <2>1. 0 \in Bytes /\ \A y \in 0 .. 0 : y = 0
    BY <1>3 DEF Bytes
  <2>2. h[0] = g[0]
    BY <1>5, <1>6, <2>1
  <2> QED
    BY <2>1, <2>2
<1>9. \A z \in Nat : z < N + m /\ z \in S => z + 1 \in S
  <2> TAKE z \in Nat
  <2>1. SUFFICES ASSUME z \in S PROVE z + 1 \in S
    OBVIOUS
  <2>2. z + 1 <= N + m - 1 => h[z + 1] = g[z + 1]
    <3>1. SUFFICES ASSUME z + 1 <= N + m - 1 PROVE h[z + 1] = g[z + 1]
      OBVIOUS
    <3>2. CASE z + 1 < N
      <4>1. z + 1 \in Bytes
        BY <1>3, <3>2 DEF Bytes
      <4> QED
        BY <1>5, <1>6, <4>1
    <3>3. CASE ~(z + 1 < N)
      <4>1. PICK k \in 1 .. m : z + 1 = N + k - 1
        <5>1. z + 1 - N + 1 \in 1 .. m /\ z + 1 = N + (z + 1 - N + 1) - 1
          BY <1>2, <1>3, <3>1, <3>3
        <5> QED
          BY <5>1
      <4>2. k \in 1 .. n /\ v[k] = u[k]
        BY <1>2
      <4>3. PICK a \in 0 .. z, b \in 0 .. z : a = u[k][1] /\ b = u[k][2]
        <5>1. N + k - 2 = z
          BY <1>3, <4>1
        <5> QED
          BY <1>7, <5>1
      <4>4. h[a] = g[a] /\ h[b] = g[b]
        <5>1. a <= N + m - 1 /\ b <= N + m - 1
          BY <1>2, <1>3, <3>1, <4>3
        <5> QED
          BY <2>1, <5>1
      <4>5. g[z + 1] = g[a] \o g[b]
        BY <1>5, <4>1, <4>3
      <4>6. h[z + 1] = h[a] \o h[b]
        BY <1>6, <4>1, <4>2, <4>3
      <4> QED
        BY <4>4, <4>5, <4>6
    <3> QED
      BY <3>2, <3>3
  <2>3. \A y \in 0 .. z + 1 : y = z + 1 \/ y \in 0 .. z
    OBVIOUS
  <2>4. \A y \in 0 .. z + 1 : y <= N + m - 1 => h[y] = g[y]
    BY <2>1, <2>2, <2>3
  <2>5. z + 1 \in Nat
    OBVIOUS
  <2> QED
    BY <2>4, <2>5
<1>10. \A z \in S : \A y \in 0 .. z : y <= N + m - 1 => h[y] = g[y]
  OBVIOUS
<1>11. N + m \in S
  <2> HIDE DEF S
  <2>1. N + m \in Nat
    BY <1>2, <1>3
  <2>2. \A k \in 0 .. N + m : k \in S
    BY <1>8, <1>9, <2>1, UpTo
  <2>3. N + m \in 0 .. N + m
    BY <2>1
  <2> QED
    BY <2>2, <2>3
<1> HIDE DEF S
<1>12. \A y \in Symbols(m) : h[y] = g[y]
  <2> TAKE y \in Symbols(m)
  <2>1. y \in 0 .. N + m /\ y <= N + m - 1
    BY <1>2, <1>3 DEF Symbols
  <2> QED
    BY <1>10, <1>11, <2>1
<1> QED
  BY <1>2, <1>4, <1>12

\* What becomes of a grammar whose rules u are continued to v.
Grows(u, v) ==
  /\ Units(v) /\ Len(v) >= Len(u)
  /\ \A y \in Symbols(Len(u)) : Spelling(v)[y] = Spelling(u)[y]

\* The last of the rules v, which continue u, stands for the pattern.
StandsFor(u, v, pat) ==
  /\ Grows(u, v) /\ Len(v) = Len(u) + Len(pat) - 1
  /\ Spelling(v)[N + Len(v) - 1] = Yield(pat, Spelling(v))

\* The rules of a pattern are rules, and the last one stands for it.
LEMMA ChainOK ==
  ASSUME NEW u, Units(u), NEW m \in Nat, m = Len(u),
         NEW pat \in Seq(Symbols(m)), Len(pat) >= 2
  PROVE  StandsFor(u, u \o Chain(pat, m), pat)
<1>30. PICK v : v = u \o Chain(pat, m)
  OBVIOUS
<1>1. N \in Nat /\ N >= 4
  BY NAssumption
<1>2. PICK l \in Nat : l = Len(pat) /\ l >= 2
  OBVIOUS
<1>3. PICK w : w = [k \in 0 .. l - 1 |-> IF k = 0 THEN pat[1] ELSE N + m + k - 1]
  OBVIOUS
<1>4. PICK c : c = Chain(pat, m)
  OBVIOUS
<1>5. \A k \in 1 .. l : pat[k] \in 0 .. N + m - 1 /\ pat[k] \in Nat
  <2> TAKE k \in 1 .. l
  <2>1. pat[k] \in Symbols(m)
    BY <1>2, ElementOfSeq
  <2> QED
    BY <1>1, <2>1 DEF Symbols
<1>6. c = [k \in 1 .. l - 1 |-> <<w[k - 1], pat[k + 1]>>]
  <2>1. \A k \in 1 .. l - 1 : w[k - 1] = IF k = 1 THEN pat[1] ELSE N + m + k - 2
    <3> TAKE k \in 1 .. l - 1
    <3>1. k - 1 \in 0 .. l - 1 /\ (k - 1 = 0 <=> k = 1) /\ N + m + (k - 1) - 1 = N + m + k - 2
      BY <1>1, <1>2
    <3> QED
      BY <1>3, <3>1
  <2>2. c = [k \in 1 .. Len(pat) - 1 |-> <<IF k = 1 THEN pat[1] ELSE N + m + k - 2, pat[k + 1]>>]
    BY <1>4 DEF Chain
  <2> QED
    BY <1>2, <2>1, <2>2
<1>7. \A k \in 0 .. l - 1 : w[k] \in 0 .. N + m + k - 1 /\ w[k] \in Nat
  <2> TAKE k \in 0 .. l - 1
  <2>1. CASE k = 0
    <3>1. w[k] = pat[1] /\ 1 \in 1 .. l
      BY <1>2, <1>3, <2>1
    <3> QED
      BY <1>1, <1>5, <2>1, <3>1
  <2>2. CASE k # 0
    <3>1. w[k] = N + m + k - 1
      BY <1>3, <2>2
    <3> QED
      BY <1>1, <3>1
  <2> QED
    BY <2>1, <2>2
<1>8. \A k \in 1 .. l - 1 : /\ c[k] = <<w[k - 1], pat[k + 1]>>
                            /\ w[k - 1] \in 0 .. N + m + k - 2 /\ pat[k + 1] \in 0 .. N + m + k - 2
                            /\ c[k] \in Seq(Nat)
  <2> TAKE k \in 1 .. l - 1
  <2>1. k - 1 \in 0 .. l - 1 /\ k + 1 \in 1 .. l /\ N + m + (k - 1) - 1 = N + m + k - 2
    BY <1>1, <1>2
  <2>2. c[k] = <<w[k - 1], pat[k + 1]>>
    BY <1>6
  <2>3. PICK a \in Nat, b \in Nat : a = w[k - 1] /\ b = pat[k + 1]
    BY <1>5, <1>7, <2>1
  <2>4. a \in 0 .. N + m + k - 2
    BY <1>7, <2>1, <2>3
  <2>5. b \in 0 .. N + m + k - 2
    BY <1>1, <1>5, <2>1, <2>3
  <2>6. <<a, b>> \in Seq(Nat)
    OBVIOUS
  <2> QED
    BY <2>2, <2>3, <2>4, <2>5, <2>6
<1>9. c \in Seq(Seq(Nat)) /\ Len(c) = l - 1
  <2>1. PICK V : V = Seq(Nat)
    OBVIOUS
  <2>2. c \in [1 .. l - 1 -> V]
    BY <1>6, <1>8, <2>1
  <2>3. l - 1 \in Nat
    BY <1>2
  <2> QED
    BY <2>1, <2>2, <2>3, Listed
<1>10. u \in Seq(Seq(Nat))
  BY DEF Units
<1>11. /\ v \in Seq(Seq(Nat)) /\ Len(v) = m + (l - 1)
       /\ \A k \in 1 .. m : v[k] = u[k]
       /\ \A k \in 1 .. l - 1 : v[m + k] = c[k]
  <2>1. PICK Y : Y = Seq(Nat)
    OBVIOUS
  <2>2. u \in Seq(Y) /\ c \in Seq(Y)
    BY <1>9, <1>10, <2>1
  <2>3. v = u \o c
    BY <1>4, <1>30
  <2>4. /\ v \in Seq(Y) /\ Len(v) = Len(u) + Len(c)
        /\ \A k \in 1 .. Len(u) : v[k] = u[k]
        /\ \A k \in 1 .. Len(c) : v[Len(u) + k] = c[k]
    BY <2>2, <2>3, Chained
  <2> QED
    BY <1>9, <2>1, <2>4
<1>12. Units(v)
  <2>1. \A k \in 1 .. m : u[k][1] \in 0 .. N + k - 2 /\ u[k][2] \in 0 .. N + k - 2
    BY DEF Units
  <2>2. ASSUME NEW k \in 1 .. Len(v)
        PROVE  v[k][1] \in 0 .. N + k - 2 /\ v[k][2] \in 0 .. N + k - 2
    <3>1. CASE k \in 1 .. m
      BY <1>11, <2>1, <3>1
    <3>2. CASE k \notin 1 .. m
      <4>1. PICK x \in 1 .. l - 1 : k = m + x
        <5>1. k - m \in 1 .. l - 1 /\ k = m + (k - m)
          BY <1>2, <1>11, <2>2, <3>2
        <5> QED
          BY <5>1
      <4>2. PICK a, b : a = w[x - 1] /\ b = pat[x + 1]
        OBVIOUS
      <4>3. v[k] = <<a, b>> /\ a \in 0 .. N + m + x - 2 /\ b \in 0 .. N + m + x - 2
        BY <1>8, <1>11, <4>1, <4>2
      <4>4. v[k][1] = a /\ v[k][2] = b
        BY <4>3
      <4>5. N + m + x - 2 = N + k - 2
        BY <1>1, <4>1
      <4> QED
        BY <4>3, <4>4, <4>5
    <3> QED
      BY <3>1, <3>2
  <2> QED
    BY <1>11, <2>2 DEF Units
<1>13. Grows(u, v)
  <2>1. \A y \in Symbols(Len(u)) : Spelling(v)[y] = Spelling(u)[y]
    BY <1>4, <1>9, <1>12, <1>30, SpellingGrows
  <2> QED
    BY <1>2, <1>11, <1>12, <2>1 DEF Grows
<1>14. PICK sp : sp = Spelling(v)
  OBVIOUS
<1>15. PICK D : D = Symbols(Len(v))
  OBVIOUS
<1>16. Spells(sp, D, Bytes) /\ \A k \in 1 .. Len(v) : sp[N + k - 1] = sp[v[k][1]] \o sp[v[k][2]]
  BY <1>12, <1>14, <1>15, SpellingOK DEF SpelledOut
<1>17. \A k \in 1 .. l : pat[k] \in D
  <2> TAKE k \in 1 .. l
  <2>1. pat[k] \in 0 .. N + m - 1
    BY <1>5
  <2>2. D = 0 .. N + (m + (l - 1)) - 1
    BY <1>11, <1>15 DEF Symbols
  <2> QED
    BY <1>1, <1>2, <2>1, <2>2
<1>18. PICK r : r = [k \in 0 .. l - 1 |-> SubSeq(pat, 1, k + 1)]
  OBVIOUS
<1>19. \A k \in 0 .. l - 1 : r[k] \in Seq(D)
  <2> TAKE k \in 0 .. l - 1
  <2>1. \A x \in 1 .. k + 1 : pat[x] \in D
    BY <1>17
  <2>2. SubSeq(pat, 1, k + 1) \in Seq(D)
    BY <2>1, SubSeqProperties
  <2> QED
    BY <1>18, <2>2
<1>20. r[0] = <<pat[1]>>
  <2>1. 1 \in 1 .. Len(pat) /\ 1 \in 1 .. Len(pat)
    BY <1>2
  <2>2. SubSeq(pat, 1, 1) = <<pat[1]>> \o SubSeq(pat, 1 + 1, 1)
    BY <2>1, SubSeqRecursiveFirst
  <2>3. SubSeq(pat, 1 + 1, 1) = <<>>
    BY SubSeqEmpty
  <2>4. <<pat[1]>> \in Seq(D)
    BY <1>2, <1>17
  <2>5. <<pat[1]>> \o <<>> = <<pat[1]>>
    BY <2>4, ConcatEmptySeq
  <2>6. r[0] = SubSeq(pat, 1, 1)
    BY <1>2, <1>18
  <2> QED
    BY <2>2, <2>3, <2>5, <2>6
<1>21. \A k \in 0 .. l - 2 : r[k + 1] = r[k] \o <<pat[k + 2]>>
  <2> TAKE k \in 0 .. l - 2
  <2>1. 1 \in 1 .. Len(pat) /\ k + 2 \in 1 .. Len(pat) /\ (k + 2) - 1 = k + 1 /\ (k + 1) + 1 = k + 2
    BY <1>2
  <2>2. SubSeq(pat, 1, k + 2) = SubSeq(pat, 1, (k + 2) - 1) \o <<pat[k + 2]>>
    BY <2>1, SubSeqRecursiveSecond
  <2>3. r[k + 1] = SubSeq(pat, 1, (k + 1) + 1) /\ r[k] = SubSeq(pat, 1, k + 1)
    BY <1>2, <1>18
  <2> QED
    BY <2>1, <2>2, <2>3
<1> DEFINE S == {k \in Nat : k <= l - 1 => Yield(r[k], sp) = sp[w[k]]}
<1>22. 0 \in S
  <2>1. w[0] = pat[1] /\ pat[1] \in D
    BY <1>2, <1>3, <1>17
  <2>2. Yield(<<pat[1]>>, sp) = sp[pat[1]]
    BY <1>16, <2>1, YieldOne
  <2> QED
    BY <1>20, <2>1, <2>2
<1>23. \A k \in Nat : k < l - 1 /\ k \in S => k + 1 \in S
  <2> TAKE k \in Nat
  <2>1. SUFFICES ASSUME k < l - 1, k \in S PROVE k + 1 \in S
    OBVIOUS
  <2>2. k \in 0 .. l - 2 /\ k \in 0 .. l - 1 /\ k + 1 \in 1 .. l - 1 /\ k + 2 \in 1 .. l
    BY <1>2, <2>1
  <2>3. Yield(r[k], sp) = sp[w[k]]
    BY <2>1, <2>2
  <2>4. PICK a \in D : a = pat[k + 2]
    BY <1>17, <2>2
  <2>5. r[k + 1] = r[k] \o <<a>> /\ r[k] \in Seq(D) /\ <<a>> \in Seq(D)
    <3>1. r[k + 1] = r[k] \o <<a>>
      BY <1>21, <2>2, <2>4
    <3>2. r[k] \in Seq(D)
      BY <1>19, <2>2
    <3>3. <<a>> \in Seq(D)
      OBVIOUS
    <3> QED
      BY <3>1, <3>2, <3>3
  <2>6. Yield(r[k] \o <<a>>, sp) = Yield(r[k], sp) \o Yield(<<a>>, sp)
    <3>1. \A z, q \in Seq(D) : Yield(z \o q, sp) = Yield(z, sp) \o Yield(q, sp)
      BY <1>16, YieldJoin
    <3> QED
      BY <2>5, <3>1, Zenon
  <2>7. Yield(<<a>>, sp) = sp[a]
    BY <1>16, YieldOne
  <2>8. Yield(r[k + 1], sp) = sp[w[k]] \o sp[a]
    BY <2>3, <2>5, <2>6, <2>7
  <2>9. v[m + (k + 1)] = <<w[k], a>>
    <3>1. (k + 1) - 1 = k /\ (k + 1) + 1 = k + 2
      OBVIOUS
    <3> QED
      BY <1>8, <1>11, <2>2, <2>4, <3>1
  <2>10. sp[N + (m + (k + 1)) - 1] = sp[w[k]] \o sp[a]
    <3>1. m + (k + 1) \in 1 .. Len(v)
      BY <1>11, <2>2
    <3>2. v[m + (k + 1)][1] = w[k] /\ v[m + (k + 1)][2] = a
      BY <2>9
    <3> QED
      BY <1>16, <3>1, <3>2
  <2>11. w[k + 1] = N + (m + (k + 1)) - 1
    <3>1. k + 1 \in 0 .. l - 1 /\ k + 1 # 0 /\ N + m + (k + 1) - 1 = N + (m + (k + 1)) - 1
      BY <1>1, <2>2
    <3> QED
      BY <1>3, <3>1
  <2>12. Yield(r[k + 1], sp) = sp[w[k + 1]]
    BY <2>8, <2>10, <2>11
  <2>13. k + 1 \in Nat
    OBVIOUS
  <2> QED
    BY <2>12, <2>13
<1>24. \A k \in S : k <= l - 1 => Yield(r[k], sp) = sp[w[k]]
  OBVIOUS
<1> HIDE DEF S
<1>25. l - 1 \in S
  <2>1. l - 1 \in Nat /\ l - 1 \in 0 .. l - 1
    BY <1>2
  <2>2. \A k \in 0 .. l - 1 : k \in S
    BY <1>22, <1>23, <2>1, UpTo
  <2> QED
    BY <2>1, <2>2
<1>26. Yield(r[l - 1], sp) = sp[w[l - 1]]
  BY <1>2, <1>24, <1>25
<1>27. r[l - 1] = pat
  <2>1. l - 1 \in 0 .. l - 1 /\ (l - 1) + 1 = l
    BY <1>2
  <2>2. r[l - 1] = SubSeq(pat, 1, Len(pat))
    BY <1>2, <1>18, <2>1
  <2> QED
    BY <2>2, SubSeqFull
<1>28. w[l - 1] = N + Len(v) - 1
  <2>1. l - 1 \in 0 .. l - 1 /\ l - 1 # 0 /\ N + m + (l - 1) - 1 = N + (m + (l - 1)) - 1
    BY <1>1, <1>2
  <2> QED
    BY <1>3, <1>11, <2>1
<1>29. Len(v) = m + Len(pat) - 1
  BY <1>2, <1>11
<1> QED
  BY <1>13, <1>14, <1>26, <1>27, <1>28, <1>29, <1>30 DEF StandsFor

-----------------------------------------------------------------------------
(* Replacing patterns by the symbols that stand for them.                  *)

\* What is at p of 1 .. n becomes sym[p], and step[p] symbols are used up.
Walks(n, D, sym, step) ==
  \A p \in 1 .. n : sym[p] \in D /\ step[p] \in Nat \ {0} /\ p + step[p] <= n + 1

\* f[p] is what becomes of a sequence from p on.
Jumps(f, n, sym, step) ==
  f = [p \in 1 .. n + 1 |-> IF p > n THEN <<>> ELSE <<sym[p]>> \o f[p + step[p]]]

\* There is such a function.
LEMMA JumpsExist ==
  ASSUME NEW n \in Nat, NEW D, NEW sym, NEW step, Walks(n, D, sym, step)
  PROVE  \E f : Jumps(f, n, sym, step)
<1>1. PICK V : V = Seq(D)
  OBVIOUS
<1>2. <<>> \in V
  BY <1>1
<1>3. \A a \in D : \A q \in V : <<a>> \o q \in V
  BY <1>1, Extended
<1>4. \A p \in 1 .. n : sym[p] \in D /\ step[p] \in Nat \ {0} /\ p + step[p] <= n + 1
  BY DEF Walks
<1>5. PICK to : to = [y \in 0 .. n |-> y - step[n + 1 - y]]
  OBVIOUS
<1>6. PICK as : as = [y \in 0 .. n |-> sym[n + 1 - y]]
  OBVIOUS
<1>7. \A y \in 1 .. n : as[y] \in D /\ to[y] \in 0 .. y - 1 /\ to[y] \in 0 .. n
  <2> TAKE y \in 1 .. n
  <2>1. PICK p \in 1 .. n : p = n + 1 - y
    <3>1. n + 1 - y \in 1 .. n
      OBVIOUS
    <3> QED
      BY <3>1
  <2>2. PICK d \in Nat \ {0} : d = step[p]
    BY <1>4
  <2>3. p + d <= n + 1
    BY <1>4, <2>2
  <2>4. y \in 0 .. n
    OBVIOUS
  <2>5. to[y] = y - d /\ as[y] = sym[p]
    BY <1>5, <1>6, <2>1, <2>2, <2>4
  <2>6. as[y] \in D
    BY <1>4, <2>5
  <2> QED
    BY <2>1, <2>2, <2>3, <2>5, <2>6
<1>8. PICK st : st = [z \in (0 .. n) \X [0 .. n -> V] |->
                        IF z[1] = 0 THEN <<>> ELSE <<as[z[1]]>> \o z[2][to[z[1]]]]
  OBVIOUS
<1>9. ASSUME NEW y \in 0 .. n, NEW f \in [0 .. n -> V]
      PROVE  /\ st[<<y, f>>] = IF y = 0 THEN <<>> ELSE <<as[y]>> \o f[to[y]]
             /\ st[<<y, f>>] \in V
  <2>1. st[<<y, f>>] = IF y = 0 THEN <<>> ELSE <<as[y]>> \o f[to[y]]
    BY <1>8
  <2>2. CASE y = 0
    BY <1>2, <2>1, <2>2
  <2>3. CASE y # 0
    <3>1. as[y] \in D /\ f[to[y]] \in V
      <4>1. y \in 1 .. n
        BY <2>3
      <4> QED
        BY <1>7, <4>1
    <3>2. <<as[y]>> \o f[to[y]] \in V
      BY <1>3, <3>1
    <3> QED
      BY <2>1, <2>3, <3>2
  <2> QED
    BY <2>2, <2>3
<1>10. st \in [(0 .. n) \X [0 .. n -> V] -> V]
  <2>1. \A z \in (0 .. n) \X [0 .. n -> V] : st[z] \in V
    <3> TAKE z \in (0 .. n) \X [0 .. n -> V]
    <3>1. PICK y \in 0 .. n, f \in [0 .. n -> V] : z = <<y, f>>
      OBVIOUS
    <3> QED
      BY <1>9, <3>1
  <2> QED
    BY <1>8, <2>1
<1>11. Causal(st, n, V)
  <2>1. ASSUME NEW y \in 0 .. n, NEW f \in [0 .. n -> V], NEW g \in [0 .. n -> V],
               \A x \in 0 .. y - 1 : f[x] = g[x]
        PROVE  st[<<y, f>>] = st[<<y, g>>]
    <3>1. y # 0 => f[to[y]] = g[to[y]]
      <4>1. y # 0 => to[y] \in 0 .. y - 1
        <5>1. y # 0 => y \in 1 .. n
          OBVIOUS
        <5> QED
          BY <1>7, <5>1
      <4> QED
        BY <2>1, <4>1
    <3> QED
      BY <1>9, <3>1
  <2> QED
    BY <2>1 DEF Causal
<1>12. PICK f \in [0 .. n -> V] : Follows(f, st, n)
  BY <1>2, <1>10, <1>11, CourseOfValues
<1>13. PICK g : g = [p \in 1 .. n + 1 |-> f[n + 1 - p]]
  OBVIOUS
<1>14. ASSUME NEW p \in 1 .. n + 1
       PROVE  g[p] = IF p > n THEN <<>> ELSE <<sym[p]>> \o g[p + step[p]]
  <2>1. PICK y \in 0 .. n : y = n + 1 - p
    <3>1. n + 1 - p \in 0 .. n
      OBVIOUS
    <3> QED
      BY <3>1
  <2>2. g[p] = IF y = 0 THEN <<>> ELSE <<as[y]>> \o f[to[y]]
    <3>1. g[p] = f[y]
      BY <1>13, <2>1
    <3>2. f[y] = st[<<y, f>>]
      BY <1>12 DEF Follows
    <3> QED
      BY <1>9, <3>1, <3>2
  <2>3. CASE p > n
    <3>1. y = 0
      BY <2>1, <2>3
    <3> QED
      BY <2>2, <2>3, <3>1
  <2>4. CASE ~(p > n)
    <3>1. p \in 1 .. n /\ y # 0 /\ n + 1 - y = p
      BY <2>1, <2>4
    <3>2. PICK d \in Nat \ {0} : d = step[p]
      BY <1>4, <3>1
    <3>3. p + d <= n + 1
      BY <1>4, <3>1, <3>2
    <3>4. as[y] = sym[p] /\ to[y] = y - d
      BY <1>5, <1>6, <3>1, <3>2
    <3>5. p + d \in 1 .. n + 1 /\ n + 1 - (p + d) = y - d
      BY <2>1, <3>1, <3>3
    <3>6. g[p + d] = f[to[y]]
      BY <1>13, <3>4, <3>5
    <3> QED
      BY <2>2, <2>4, <3>1, <3>2, <3>4, <3>6
  <2> QED
    BY <2>3, <2>4
<1>15. Jumps(g, n, sym, step)
  BY <1>13, <1>14 DEF Jumps
<1> QED
  BY <1>15

\* What is used up at every place stands for what is written.
Keeps(s, sp, sym, step) ==
  \A p \in 1 .. Len(s) : Yield(SubSeq(s, p, p + step[p] - 1), sp) = sp[sym[p]]

\* What is rewritten is symbols, and stands for what it stood for.
LEMMA JumpsKeep ==
  ASSUME NEW D, NEW s \in Seq(D), NEW sym, NEW step, Walks(Len(s), D, sym, step),
         NEW f, Jumps(f, Len(s), sym, step), NEW X, NEW sp, Spells(sp, D, X)
  PROVE  f[1] \in Seq(D) /\ (Keeps(s, sp, sym, step) => Yield(f[1], sp) = Yield(s, sp))
<1>1. PICK n \in Nat : n = Len(s)
  OBVIOUS
<1>2. \A p \in 1 .. n : sym[p] \in D /\ step[p] \in Nat \ {0} /\ p + step[p] <= n + 1
  BY <1>1 DEF Walks
<1>3. \A p \in 1 .. n + 1 : f[p] = IF p > n THEN <<>> ELSE <<sym[p]>> \o f[p + step[p]]
  <2>1. f = [p \in 1 .. n + 1 |-> IF p > n THEN <<>> ELSE <<sym[p]>> \o f[p + step[p]]]
    BY <1>1 DEF Jumps
  <2> QED
    BY <2>1
<1>4. PICK r : r = [p \in 1 .. n + 1 |-> SubSeq(s, p, n)]
  OBVIOUS
<1>5. PICK good : good = Keeps(s, sp, sym, step)
  OBVIOUS
<1>6. ASSUME NEW a \in D, NEW q \in Seq(D)
      PROVE  Yield(<<a>> \o q, sp) = sp[a] \o Yield(q, sp)
  <2>1. FirstYields(a, q, sp)
    BY YieldFirst, Zenon
  <2> QED
    BY <2>1 DEF FirstYields
<1>14. \A z, u \in Seq(D) : Yield(z \o u, sp) = Yield(z, sp) \o Yield(u, sp)
  BY YieldJoin
<1> DEFINE Fine(p) == f[p] \in Seq(D) /\ (good => Yield(f[p], sp) = Yield(r[p], sp))
           S == {y \in Nat : \A x \in 0 .. y : x <= n => Fine(n + 1 - x)}
<1>7. Fine(n + 1)
  <2>1. f[n + 1] = <<>>
    <3>1. n + 1 \in 1 .. n + 1 /\ n + 1 > n
      OBVIOUS
    <3> QED
      BY <1>3, <3>1
  <2>2. r[n + 1] = <<>>
    <3>1. SubSeq(s, n + 1, n) = <<>>
      BY SubSeqEmpty
    <3> QED
      BY <1>4, <3>1
  <2> QED
    BY <2>1, <2>2
<1>8. ASSUME NEW p \in 1 .. n, \A x \in p + 1 .. n + 1 : Fine(x) PROVE Fine(p)
  <2>1. PICK d \in Nat \ {0}, a \in D : d = step[p] /\ a = sym[p]
    BY <1>2
  <2>2. p + d <= n + 1 /\ p + d \in p + 1 .. n + 1
    BY <1>2, <2>1
  <2>3. f[p + d] \in Seq(D) /\ (good => Yield(f[p + d], sp) = Yield(r[p + d], sp))
    BY <1>8, <2>2
  <2>4. f[p] = <<a>> \o f[p + d]
    <3>1. p \in 1 .. n + 1 /\ ~(p > n)
      OBVIOUS
    <3> QED
      BY <1>3, <2>1, <3>1
  <2> HIDE DEF Fine
  <2>5. f[p] \in Seq(D)
    BY <2>3, <2>4, Extended
  <2>6. ASSUME good PROVE Yield(f[p], sp) = Yield(r[p], sp)
    <3>1. PICK q \in Seq(D) : q = SubSeq(s, p, p + d - 1)
      <4>1. \A x \in p .. p + d - 1 : s[x] \in D
        BY <1>1, <2>2
      <4>2. SubSeq(s, p, p + d - 1) \in Seq(D)
        BY <4>1, SubSeqProperties
      <4> QED
        BY <4>2
    <3>2. PICK t \in Seq(D) : t = r[p + d] /\ t = SubSeq(s, p + d, n)
      <4>1. \A x \in p + d .. n : s[x] \in D
        BY <1>1, <2>2
      <4>2. SubSeq(s, p + d, n) \in Seq(D)
        BY <4>1, SubSeqProperties
      <4>3. p + d \in 1 .. n + 1
        BY <2>2
      <4> QED
        BY <1>4, <4>2, <4>3
    <3>3. r[p] = q \o t
      <4>1. p \in 1 .. Len(s) + 1 /\ p + d - 1 \in p - 1 .. Len(s) /\ n \in p + d - 1 .. Len(s)
        BY <1>1, <2>2
      <4>2. SubSeq(s, p, p + d - 1) \o SubSeq(s, (p + d - 1) + 1, n) = SubSeq(s, p, n)
        BY <4>1, ConcatAdjacentSubSeq
      <4>3. (p + d - 1) + 1 = p + d /\ p \in 1 .. n + 1
        OBVIOUS
      <4> QED
        BY <1>4, <3>1, <3>2, <4>2, <4>3
    <3>4. Yield(q \o t, sp) = Yield(q, sp) \o Yield(t, sp)
      BY <1>14, Zenon
    <3>5. Yield(q, sp) = sp[a]
      BY <1>1, <1>5, <2>1, <2>6, <3>1 DEF Keeps
    <3>6. Yield(f[p + d], sp) = Yield(t, sp)
      BY <2>3, <2>6, <3>2
    <3>7. Yield(<<a>> \o f[p + d], sp) = sp[a] \o Yield(f[p + d], sp)
      BY <1>6, <2>3
    <3> QED
      BY <2>4, <3>3, <3>4, <3>5, <3>6, <3>7
  <2> QED
    BY <2>5, <2>6 DEF Fine
<1> HIDE DEF Fine
<1>9. 0 \in S
  <2>1. \A x \in 0 .. 0 : n + 1 - x = n + 1
    OBVIOUS
  <2>2. \A x \in 0 .. 0 : Fine(n + 1 - x)
    BY <1>7, <2>1
  <2> QED
    BY <2>2
<1>10. \A y \in Nat : y < n /\ y \in S => y + 1 \in S
  <2> TAKE y \in Nat
  <2>1. SUFFICES ASSUME y < n, y \in S PROVE y + 1 \in S
    OBVIOUS
  <2>2. PICK p \in 1 .. n : p = n - y
    <3>1. n - y \in 1 .. n
      BY <2>1
    <3> QED
      BY <3>1
  <2>3. ASSUME NEW x \in p + 1 .. n + 1 PROVE Fine(x)
    <3>1. n + 1 - x \in 0 .. y /\ n + 1 - x <= n /\ n + 1 - (n + 1 - x) = x
      BY <2>1, <2>2
    <3>2. Fine(n + 1 - (n + 1 - x))
      BY <2>1, <3>1
    <3> QED
      BY <3>1, <3>2
  <2>4. Fine(p)
    BY <1>8, <2>3
  <2>5. \A x \in 0 .. y + 1 : x \in 0 .. y \/ (x = y + 1 /\ n + 1 - x = p)
    BY <2>2
  <2>6. \A x \in 0 .. y + 1 : x <= n => Fine(n + 1 - x)
    BY <2>1, <2>4, <2>5
  <2>7. y + 1 \in Nat
    OBVIOUS
  <2> QED
    BY <2>6, <2>7
<1>11. \A y \in S : y <= n => Fine(n + 1 - y)
  OBVIOUS
<1> HIDE DEF S
<1>12. Fine(1)
  <2>1. \A k \in 0 .. n : k \in S
    BY <1>9, <1>10, UpTo
  <2>2. n \in S /\ n + 1 - n = 1 /\ n <= n
    BY <2>1
  <2>3. Fine(n + 1 - n)
    BY <1>11, <2>2
  <2> QED
    BY <2>2, <2>3
<1>13. r[1] = s
  <2>1. 1 \in 1 .. n + 1
    OBVIOUS
  <2>2. r[1] = SubSeq(s, 1, Len(s))
    BY <1>1, <1>4, <2>1
  <2> QED
    BY <2>2, SubSeqFull
<1> QED
  BY <1>5, <1>12, <1>13 DEF Fine

\* Patterns of symbols, each with the symbol that takes its place.
Renames(new, D) ==
  \A pat \in DOMAIN new : pat \in Seq(D) /\ Len(pat) >= 1 /\ new[pat] \in D

\* A sequence keeps what it stands for when every new symbol stands for its
\* pattern.
LEMMA RewrittenOK ==
  ASSUME NEW D, NEW s \in Seq(D), NEW new, Renames(new, D), NEW X, NEW sp, Spells(sp, D, X)
  PROVE  /\ Rewritten(s, new) \in Seq(D)
         /\ (\A pat \in DOMAIN new : sp[new[pat]] = Yield(pat, sp))
              => Yield(Rewritten(s, new), sp) = Yield(s, sp)
<1>1. PICK n \in Nat : n = Len(s)
  OBVIOUS
<1>2. PICK hit : hit = [p \in 1 .. n |-> \E pat \in DOMAIN new : IsPlaceOf(p, s, pat)]
  OBVIOUS
<1>3. PICK sym : sym = [p \in 1 .. n |-> IF hit[p] THEN new[Found(p, s, new)] ELSE s[p]]
  OBVIOUS
<1>4. PICK step : step = [p \in 1 .. n |-> IF hit[p] THEN Len(Found(p, s, new)) ELSE 1]
  OBVIOUS
<1>5. ASSUME NEW p \in 1 .. n, hit[p]
      PROVE  /\ Found(p, s, new) \in DOMAIN new /\ IsPlaceOf(p, s, Found(p, s, new))
  <2>1. \E pat \in DOMAIN new : IsPlaceOf(p, s, pat)
    BY <1>2, <1>5
  <2> QED
    BY <2>1 DEF Found
<1>6. ASSUME NEW p \in 1 .. n
      PROVE  /\ sym[p] \in D /\ step[p] \in Nat \ {0} /\ p + step[p] <= n + 1
             /\ (\A pat \in DOMAIN new : sp[new[pat]] = Yield(pat, sp))
                  => Yield(SubSeq(s, p, p + step[p] - 1), sp) = sp[sym[p]]
  <2>1. CASE hit[p]
    <3>1. PICK pat \in DOMAIN new : pat = Found(p, s, new) /\ IsPlaceOf(p, s, pat)
      BY <1>5, <2>1
    <3>2. pat \in Seq(D) /\ Len(pat) >= 1 /\ new[pat] \in D
      BY DEF Renames
    <3>3. PICK d \in Nat \ {0} : d = Len(pat)
      <4>1. Len(pat) \in Nat
        BY <3>2, LenProperties
      <4> QED
        BY <3>2, <4>1
    <3>4. sym[p] = new[pat] /\ step[p] = d
      BY <1>3, <1>4, <2>1, <3>1, <3>3
    <3>5. p + d - 1 <= n /\ SubSeq(s, p, p + d - 1) = pat
      BY <1>1, <3>1, <3>3 DEF IsPlaceOf
    <3>6. p + d <= n + 1
      BY <3>5
    <3> QED
      BY <3>2, <3>4, <3>5, <3>6
  <2>2. CASE ~hit[p]
    <3>1. sym[p] = s[p] /\ step[p] = 1 /\ s[p] \in D
      BY <1>1, <1>3, <1>4, <2>2
    <3>2. SubSeq(s, p, p) = <<s[p]>>
      <4>1. p \in 1 .. Len(s) /\ p \in p .. Len(s) /\ p < p + 1
        BY <1>1
      <4>2. SubSeq(s, p, p) = <<s[p]>> \o SubSeq(s, p + 1, p)
        BY <4>1, SubSeqRecursiveFirst
      <4>3. SubSeq(s, p + 1, p) = <<>>
        BY SubSeqEmpty
      <4>4. <<s[p]>> \in Seq(D)
        BY <3>1
      <4>5. <<s[p]>> \o <<>> = <<s[p]>>
        BY <4>4, ConcatEmptySeq
      <4> QED
        BY <4>2, <4>3, <4>5
    <3>3. Yield(<<s[p]>>, sp) = sp[s[p]]
      BY <3>1, YieldOne
    <3>4. p + step[p] - 1 = p
      BY <3>1
    <3>5. Yield(SubSeq(s, p, p + step[p] - 1), sp) = sp[sym[p]]
      BY <3>1, <3>2, <3>3, <3>4
    <3>6. step[p] \in Nat \ {0} /\ p + step[p] <= n + 1
      BY <3>1
    <3> QED
      BY <3>1, <3>5, <3>6
  <2> QED
    BY <2>1, <2>2
<1>7. Walks(Len(s), D, sym, step)
  BY <1>1, <1>6 DEF Walks
<1>8. (\A pat \in DOMAIN new : sp[new[pat]] = Yield(pat, sp)) => Keeps(s, sp, sym, step)
  BY <1>1, <1>6 DEF Keeps
<1> DEFINE Good(h) == h = [p \in 1 .. Len(s) + 1 |->
                             IF p > Len(s) THEN <<>>
                             ELSE IF \E pat \in DOMAIN new : IsPlaceOf(p, s, pat)
                             THEN <<new[Found(p, s, new)]>> \o h[p + Len(Found(p, s, new))]
                             ELSE <<s[p]>> \o h[p + 1]]
<1>9. ASSUME NEW h PROVE Good(h) <=> Jumps(h, Len(s), sym, step)
  <2>1. ASSUME NEW p \in 1 .. n + 1
        PROVE  (IF p > n THEN <<>>
                ELSE IF \E pat \in DOMAIN new : IsPlaceOf(p, s, pat)
                THEN <<new[Found(p, s, new)]>> \o h[p + Len(Found(p, s, new))]
                ELSE <<s[p]>> \o h[p + 1])
               = (IF p > n THEN <<>> ELSE <<sym[p]>> \o h[p + step[p]])
    <3>1. CASE p > n
      BY <3>1
    <3>2. CASE ~(p > n)
      <4>1. p \in 1 .. n
        BY <3>2
      <4>2. hit[p] <=> \E pat \in DOMAIN new : IsPlaceOf(p, s, pat)
        BY <1>2, <4>1
      <4>3. CASE hit[p]
        <5>1. sym[p] = new[Found(p, s, new)] /\ step[p] = Len(Found(p, s, new))
          BY <1>3, <1>4, <4>1, <4>3
        <5> QED
          BY <3>2, <4>2, <4>3, <5>1
      <4>4. CASE ~hit[p]
        <5>1. sym[p] = s[p] /\ step[p] = 1
          BY <1>3, <1>4, <4>1, <4>4
        <5> QED
          BY <3>2, <4>2, <4>4, <5>1
      <4> QED
        BY <4>3, <4>4
    <3> QED
      BY <3>1, <3>2
  <2> QED
    BY <1>1, <2>1 DEF Jumps
<1>10. PICK f : f = CHOOSE h : Good(h)
  OBVIOUS
<1>11. Rewritten(s, new) = f[1]
  BY <1>10 DEF Rewritten
<1>12. Jumps(f, Len(s), sym, step)
  <2>1. \E h : Jumps(h, Len(s), sym, step)
    BY <1>1, <1>7, JumpsExist
  <2> HIDE DEF Good
  <2>2. \E h : Good(h)
    BY <1>9, <2>1
  <2>3. Good(f)
    BY <1>10, <2>2
  <2> QED
    BY <1>9, <2>3
<1> HIDE DEF Good
<1>13. f[1] \in Seq(D) /\ (Keeps(s, sp, sym, step) => Yield(f[1], sp) = Yield(s, sp))
  BY <1>7, <1>12, JumpsKeep
<1> QED
  BY <1>8, <1>11, <1>13

-----------------------------------------------------------------------------
(* The induction of a grammar.                                             *)

\* It is what the runs check.
LEMMA InducedIs == Induced => GrammarOfText
<1> SUFFICES ASSUME Induced, stage = "induce", form # "lzbe"
             PROVE  /\ Len(vocab) <= MaxRules
                    /\ \A k \in DOMAIN vocab : vocab[k][1] < N + k - 1 /\ vocab[k][2] < N + k - 1
                    /\ Expansion(units, vocab) = text
  BY DEF GrammarOfText
<1>1. Grammatical
  BY DEF Induced
<1>2. \A k \in DOMAIN vocab : vocab[k][1] < N + k - 1 /\ vocab[k][2] < N + k - 1
  <2>1. vocab \in Seq(Seq(Nat))
    BY <1>1 DEF Grammatical, Units
  <2>2. DOMAIN vocab = 1 .. Len(vocab) /\ Len(vocab) \in Nat
    BY <2>1
  <2>3. \A k \in 1 .. Len(vocab) : vocab[k][1] \in 0 .. N + k - 2 /\ vocab[k][2] \in 0 .. N + k - 2
    BY <1>1 DEF Grammatical, Units
  <2>4. N \in Nat
    BY NAssumption
  <2> QED
    BY <2>2, <2>3, <2>4
<1>3. Expansion(units, vocab) = text
  BY <1>1, ExpansionIs DEF Grammatical
<1> QED
  BY <1>1, <1>2, <1>3 DEF Grammatical

\* A text is its own grammar, without rules.
LEMMA InducedInit == TransformInit => Induced
<1>1. Init => stage # "induce"
  BY DEF Init, EncodeInit, StreamInit
<1>2. LayerInit => stage # "induce"
  BY DEF LayerInit
<1>3. ASSUME GrammarInit PROVE Grammatical
  <2>1. text \in Seq(Bytes) /\ units = text /\ vocab = <<>>
    <3>1. form \in GrammarForms /\ text \in GrammarTexts[form] /\ units = text /\ vocab = <<>>
      BY <1>3 DEF GrammarInit
    <3> QED
      BY <3>1, GrammarFormsAssumption DEF Bytes
  <2>2. Units(vocab) /\ Len(vocab) = 0
    <3>1. <<>> \in Seq(Seq(Nat)) /\ Len(<<>>) = 0
      OBVIOUS
    <3>2. \A k \in 1 .. 0 : FALSE
      OBVIOUS
    <3> QED
      BY <2>1, <3>1, <3>2 DEF Units
  <2>3. Symbols(0) = Bytes
    BY NAssumption DEF Symbols, Bytes
  <2>4. Spells(Spelling(vocab), Bytes, Bytes) /\ \A b \in Bytes : Spelling(vocab)[b] = <<b>>
    <3>1. Spells(Spelling(vocab), Symbols(Len(vocab)), Bytes) /\ SpelledOut(Spelling(vocab), vocab)
      BY <2>2, SpellingOK
    <3> QED
      BY <2>2, <2>3, <3>1 DEF SpelledOut
  <2>5. Yield(units, Spelling(vocab)) = text
    BY <2>1, <2>4, YieldSelf
  <2>6. Len(vocab) <= MaxRules
    BY <2>2, BudgetAssumption
  <2> QED
    BY <2>1, <2>2, <2>3, <2>5, <2>6 DEF Grammatical
<1> QED
  BY <1>1, <1>2, <1>3 DEF TransformInit, Induced

\* The symbols are numbers.
LEMMA SymbolsAreNumbers ==
  ASSUME NEW m \in Nat
  PROVE  Symbols(m) \subseteq Nat
  BY NAssumption DEF Symbols

\* The pattern of a round is a part of the body that leaves the rules within
\* their number.
LEMMA PatternOK ==
  ASSUME Grammatical, Len(vocab) < MaxRules, Repeats(units) # {},
         NEW pat, pat = Pattern(MostFrequent(Repeats(units)).word)
  PROVE  LongPart(units, Symbols(Len(vocab)), pat) /\ Len(vocab) + Len(pat) - 1 <= MaxRules
<1>1. PICK m \in Nat : m = Len(vocab)
  <2>1. vocab \in Seq(Seq(Nat))
    BY DEF Grammatical, Units
  <2> QED
    BY <2>1, LenProperties
<1>2. PICK D : D = Symbols(m) /\ D \subseteq Nat
  BY SymbolsAreNumbers
<1>3. units \in Seq(D)
  BY <1>1, <1>2 DEF Grammatical
<1>4. PICK c \in Repeats(units) : c = MostFrequent(Repeats(units))
  BY <1>2, <1>3, RepeatsOK, MostFrequentOK
<1>5. PICK pair \in Seq(D) : pair = c.word /\ PairOf(units, pair)
  BY <1>2, <1>3, RepeatsOK
<1>6. Len(pair) = 2
  BY <1>3, <1>5, PairIsPart DEF PairOf
<1>7. LongPart(units, D, MaximalRepeat(units, pair))
  BY <1>3, <1>5, MaximalOK
<1>8. pat = IF form = "mr" /\ m + Len(MaximalRepeat(units, pair)) - 1 <= MaxRules
            THEN MaximalRepeat(units, pair) ELSE pair
  BY <1>1, <1>4, <1>5 DEF Pattern
<1>9. CASE form = "mr" /\ m + Len(MaximalRepeat(units, pair)) - 1 <= MaxRules
  <2>1. pat = MaximalRepeat(units, pair)
    BY <1>8, <1>9
  <2> QED
    BY <1>1, <1>2, <1>7, <1>9, <2>1
<1>10. CASE ~(form = "mr" /\ m + Len(MaximalRepeat(units, pair)) - 1 <= MaxRules)
  <2>1. pat = pair
    BY <1>8, <1>10
  <2>2. m + 2 - 1 <= MaxRules
    BY <1>1, BudgetAssumption
  <2>3. pat \in Seq(Symbols(Len(vocab))) /\ Len(pat) = 2
    BY <1>1, <1>2, <1>5, <1>6, <2>1
  <2>4. Len(vocab) + Len(pat) - 1 <= MaxRules
    BY <1>1, <2>2, <2>3
  <2> QED
    BY <2>3, <2>4 DEF LongPart
<1> QED
  BY <1>9, <1>10

\* A body whose patterns are renamed by rules that stand for them is a body
\* of the same text.
LEMMA BodyKept ==
  ASSUME Grammatical, NEW rules, Grows(vocab, rules), rules \in Seq(Seq(Nat)),
         NEW new, Renames(new, Symbols(Len(rules))),
         \A pat \in DOMAIN new : Spelling(rules)[new[pat]] = Yield(pat, Spelling(rules))
  PROVE  /\ Rewritten(units, new) \in Seq(Symbols(Len(rules)))
         /\ Yield(Rewritten(units, new), Spelling(rules)) = text
<1>1. PICK D, E : D = Symbols(Len(vocab)) /\ E = Symbols(Len(rules))
  OBVIOUS
<1>2. PICK f, g : f = Spelling(vocab) /\ g = Spelling(rules)
  OBVIOUS
<1>3. \A d \in D : g[d] = f[d]
  BY <1>1, <1>2 DEF Grows
<1>4. D \subseteq E
  <2>1. Len(vocab) \in Nat /\ Len(rules) \in Nat /\ Len(rules) >= Len(vocab)
    BY LenProperties DEF Grows, Grammatical, Units
  <2> QED
    BY <1>1, <2>1, NAssumption DEF Symbols
<1>5. units \in Seq(D) /\ units \in Seq(E)
  <2>1. units \in Seq(D)
    BY <1>1 DEF Grammatical
  <2> QED
    BY <1>4, <2>1, SeqMonotonic
<1>6. Yield(units, g) = text
  <2>1. Yield(units, g) = Yield(units, f)
    BY <1>3, <1>5, YieldSame
  <2>2. Yield(units, f) = text
    BY <1>2 DEF Grammatical
  <2> QED
    BY <2>1, <2>2
<1>7. Spells(g, E, Bytes)
  BY <1>1, <1>2, SpellingOK DEF Grows
<1>8. /\ Rewritten(units, new) \in Seq(E)
      /\ (\A pat \in DOMAIN new : g[new[pat]] = Yield(pat, g))
           => Yield(Rewritten(units, new), g) = Yield(units, g)
  BY <1>1, <1>5, <1>7, RewrittenOK
<1> QED
  BY <1>1, <1>2, <1>6, <1>8

\* A round of pairs or of maximal repeats.
LEMMA RoundKeeps == Induced /\ Round => Induced'
<1> SUFFICES ASSUME Induced, Round PROVE Grammatical'
  BY DEF Induced
<1>1. stage = "induce" /\ form # "lzbe" /\ Len(vocab) < MaxRules /\ Repeats(units) # {}
  BY DEF Round, Induction
<1>2. Grammatical
  BY <1>1 DEF Induced
<1>3. PICK pat : pat = Pattern(MostFrequent(Repeats(units)).word)
  OBVIOUS
<1>4. PICK rules : rules = vocab \o Chain(pat, Len(vocab))
  OBVIOUS
<1>5. PICK new : new = [q \in {pat} |-> N + Len(rules) - 1]
  OBVIOUS
<1>6. vocab' = rules /\ units' = Rewritten(units, new) /\ text' = text
  BY <1>3, <1>4, <1>5 DEF Round, Induces
<1>7. PICK m \in Nat : m = Len(vocab)
  <2>1. vocab \in Seq(Seq(Nat))
    BY <1>2 DEF Grammatical, Units
  <2> QED
    BY <2>1, LenProperties
<1>8. pat \in Seq(Symbols(m)) /\ Len(pat) >= 2 /\ m + Len(pat) - 1 <= MaxRules
  BY <1>1, <1>2, <1>3, <1>7, PatternOK DEF LongPart
<1>9. /\ Grows(vocab, rules) /\ Len(rules) = m + Len(pat) - 1
      /\ Spelling(rules)[N + Len(rules) - 1] = Yield(pat, Spelling(rules))
  <2>1. Units(vocab) /\ m = Len(vocab)
    BY <1>2, <1>7 DEF Grammatical
  <2>2. pat \in Seq(Symbols(m)) /\ Len(pat) >= 2
    BY <1>8
  <2>3. StandsFor(vocab, vocab \o Chain(pat, m), pat)
    BY <2>1, <2>2, ChainOK
  <2>4. StandsFor(vocab, rules, pat)
    BY <1>4, <1>7, <2>3
  <2> QED
    BY <1>7, <2>4 DEF StandsFor
<1>10. N + Len(rules) - 1 \in Symbols(Len(rules))
  <2>1. Len(pat) \in Nat
    BY <1>8, LenProperties
  <2> QED
    BY <1>7, <1>8, <1>9, <2>1, NAssumption DEF Symbols
<1>11. Symbols(m) \subseteq Symbols(Len(rules))
  <2>1. Len(rules) >= m
    BY <1>7, <1>9 DEF Grows
  <2>2. Len(pat) \in Nat
    BY <1>8, LenProperties
  <2> QED
    BY <1>7, <1>9, <2>1, <2>2, NAssumption DEF Symbols
<1>12. Renames(new, Symbols(Len(rules)))
  <2>1. pat \in Seq(Symbols(Len(rules)))
    BY <1>8, <1>11, SeqMonotonic
  <2>2. Len(pat) >= 1
    BY <1>8, LenProperties
  <2> QED
    BY <1>5, <1>10, <2>1, <2>2 DEF Renames
<1>13. \A q \in DOMAIN new : Spelling(rules)[new[q]] = Yield(q, Spelling(rules))
  BY <1>5, <1>9
<1>14. rules \in Seq(Seq(Nat)) /\ Units(rules)
  BY <1>9 DEF Grows, Units
<1>15. units' \in Seq(Symbols(Len(rules))) /\ Yield(units', Spelling(rules)) = text
  BY <1>2, <1>6, <1>9, <1>12, <1>13, <1>14, BodyKept
<1>16. Len(rules) <= MaxRules
  BY <1>8, <1>9
<1> QED
  BY <1>2, <1>6, <1>14, <1>15, <1>16 DEF Grammatical

\* All pairs at once.
LEMMA OneShotKeeps == Induced /\ OneShot => Induced'
<1> SUFFICES ASSUME Induced, OneShot PROVE Grammatical'
  BY DEF Induced
<1>1. stage = "induce" /\ form # "lzbe" /\ vocab = <<>>
  BY DEF OneShot, Induction
<1>2. Grammatical
  BY <1>1 DEF Induced
<1>3. PICK ranked : ranked = Take(Ranked(Repeats(units)), MaxRules)
  OBVIOUS
<1>4. PICK rules : rules = [k \in DOMAIN ranked |-> ranked[k].word]
  OBVIOUS
<1>5. PICK new : new = [q \in Range(rules) |-> N + (CHOOSE k \in DOMAIN rules : rules[k] = q) - 1]
  OBVIOUS
<1>6. vocab' = rules /\ units' = Rewritten(units, new) /\ text' = text
  BY <1>3, <1>4, <1>5 DEF OneShot, Induces
<1>7. Symbols(0) = Bytes /\ Bytes \subseteq Nat /\ Len(vocab) = 0
  BY <1>1, NAssumption DEF Symbols, Bytes
<1>8. units \in Seq(Bytes)
  BY <1>2, <1>7 DEF Grammatical
<1>9. PICK S : S = Repeats(units)
  OBVIOUS
<1>10. Counted(S) /\ \A c \in S : c.word \in Seq(Bytes) /\ PairOf(units, c.word)
  BY <1>7, <1>8, <1>9, RepeatsOK
<1>11. PICK n \in Nat : n = Len(ranked) /\ n <= MaxRules /\ \A k \in 1 .. n : ranked[k] \in S
  <2>1. Ranked(S) \in Seq(S)
    BY <1>10, RankedListed
  <2>2. MaxRules \in Nat
    BY BudgetAssumption
  <2>3. ranked \in Seq(S) /\ Len(ranked) <= MaxRules
    BY <1>3, <1>9, <2>1, <2>2, TakeOK
  <2>4. Len(ranked) \in Nat /\ \A k \in 1 .. Len(ranked) : ranked[k] \in S
    BY <2>3
  <2> QED
    BY <2>3, <2>4
<1>12. DOMAIN ranked = 1 .. n
  <2>1. Ranked(S) \in Seq(S)
    BY <1>10, RankedListed
  <2>2. ranked \in Seq(S)
    BY <1>3, <1>9, <2>1, BudgetAssumption, TakeOK
  <2> QED
    BY <1>11, <2>2
<1>13. \A k \in 1 .. n : /\ rules[k] \in Seq(Bytes) /\ Len(rules[k]) = 2
                         /\ rules[k][1] \in Bytes /\ rules[k][2] \in Bytes
  <2> TAKE k \in 1 .. n
  <2>1. rules[k] \in Seq(Bytes) /\ PairOf(units, rules[k])
    BY <1>4, <1>10, <1>11, <1>12
  <2> QED
    BY <1>8, <2>1, PairIsPart DEF PairOf
<1>14. rules \in Seq(Seq(Nat)) /\ Len(rules) = n
  <2>1. PICK V : V = Seq(Nat)
    OBVIOUS
  <2>2. \A k \in 1 .. n : rules[k] \in V
    BY <1>7, <1>13, <2>1, SeqMonotonic
  <2>3. rules \in [1 .. n -> V]
    BY <1>4, <1>12, <2>2
  <2> QED
    BY <2>1, <2>3, Listed
<1>15. Units(rules)
  <2>1. \A k \in 1 .. n : rules[k][1] \in 0 .. N + k - 2 /\ rules[k][2] \in 0 .. N + k - 2
    BY <1>13, NAssumption DEF Bytes
  <2> QED
    BY <1>14, <2>1 DEF Units
<1>16. PICK sp : sp = Spelling(rules)
  OBVIOUS
<1>17. /\ Spells(sp, Symbols(n), Bytes)
       /\ \A y \in Bytes : sp[y] = <<y>>
       /\ \A k \in 1 .. n : sp[N + k - 1] = sp[rules[k][1]] \o sp[rules[k][2]]
  BY <1>14, <1>15, <1>16, SpellingOK DEF SpelledOut
<1>18. Grows(vocab, rules)
  <2>1. SpelledOut(Spelling(vocab), vocab)
    BY <1>2, SpellingOK DEF Grammatical
  <2>2. \A y \in Bytes : Spelling(vocab)[y] = <<y>>
    BY <2>1 DEF SpelledOut
  <2>3. Symbols(Len(vocab)) = Bytes
    BY <1>7
  <2>4. \A y \in Symbols(Len(vocab)) : Spelling(rules)[y] = Spelling(vocab)[y]
    BY <1>16, <1>17, <2>2, <2>3
  <2>5. Len(rules) >= Len(vocab)
    BY <1>7, <1>14
  <2> QED
    BY <1>15, <2>4, <2>5 DEF Grows
<1>19. Bytes \subseteq Symbols(n)
  BY NAssumption DEF Bytes, Symbols
<1>20. ASSUME NEW q \in DOMAIN new
       PROVE  /\ q \in Seq(Symbols(n)) /\ Len(q) >= 1 /\ new[q] \in Symbols(n)
              /\ sp[new[q]] = Yield(q, sp)
  <2>1. DOMAIN rules = 1 .. n
    BY <1>4, <1>12
  <2>2. q \in {rules[k] : k \in 1 .. n}
    BY <1>5, <2>1 DEF Range
  <2>3. PICK k \in 1 .. n : k = (CHOOSE x \in 1 .. n : rules[x] = q) /\ rules[k] = q
    BY <2>2
  <2>4. new[q] = N + k - 1
    BY <1>5, <2>1, <2>3
  <2>5. q \in Seq(Bytes) /\ Len(q) = 2 /\ q[1] \in Bytes /\ q[2] \in Bytes
    BY <1>13, <2>3
  <2>6. PICK a \in Symbols(n), b \in Symbols(n) : a = q[1] /\ b = q[2]
    BY <1>19, <2>5
  <2>7. q = <<a, b>> /\ q = <<a>> \o <<b>>
    BY <2>5, <2>6
  <2>8. sp[new[q]] = sp[a] \o sp[b]
    BY <1>17, <2>3, <2>4, <2>6
  <2>9. <<a>> \in Seq(Symbols(n)) /\ <<b>> \in Seq(Symbols(n))
    OBVIOUS
  <2>10. Yield(<<a>> \o <<b>>, sp) = Yield(<<a>>, sp) \o Yield(<<b>>, sp)
    <3>1. \A z, u \in Seq(Symbols(n)) : Yield(z \o u, sp) = Yield(z, sp) \o Yield(u, sp)
      BY <1>17, YieldJoin
    <3> QED
      BY <2>9, <3>1, Zenon
  <2>11. Yield(<<a>>, sp) = sp[a] /\ Yield(<<b>>, sp) = sp[b]
    BY <1>17, YieldOne
  <2>12. sp[new[q]] = Yield(q, sp)
    BY <2>7, <2>8, <2>10, <2>11
  <2>13. q \in Seq(Symbols(n))
    BY <1>19, <2>5, SeqMonotonic
  <2>14. new[q] \in Symbols(n)
    BY <2>4, NAssumption DEF Symbols
  <2> QED
    BY <2>5, <2>12, <2>13, <2>14
<1>21. Renames(new, Symbols(Len(rules)))
  BY <1>14, <1>20 DEF Renames
<1>22. units' \in Seq(Symbols(Len(rules))) /\ Yield(units', Spelling(rules)) = text
  BY <1>2, <1>6, <1>14, <1>16, <1>18, <1>20, <1>21, BodyKept
<1>23. Len(rules) <= MaxRules
  BY <1>11, <1>14
<1> QED
  BY <1>2, <1>6, <1>15, <1>22, <1>23 DEF Grammatical

\* The other codecs never induce.
LEMMA TokensElsewhere == Next => stage # "induce" /\ stage' # "induce"
<1>1. EncodeWord \/ EncodeByte \/ EncodeEnd => stage # "induce" /\ stage' # "induce"
  BY DEF EncodeWord, EncodeByte, EncodeEnd, Emit
<1>2. ReadCount \/ ReadEntry \/ EndHeader => stage # "induce" /\ stage' # "induce"
  BY DEF ReadCount, ReadEntry, EndHeader, DecodeTo
<1>3. DecodeByte \/ DecodeNul \/ DecodeId \/ DecodeEnd => stage # "induce" /\ stage' # "induce"
  BY DEF DecodeByte, DecodeNul, DecodeId, DecodeEnd, DecodeTo
<1>4. DecodeDefinition \/ DecodeUnit \/ DecodeExtended \/ DecodeAffix
        => stage # "induce" /\ stage' # "induce"
  BY DEF DecodeDefinition, DecodeUnit, DecodeExtended, DecodeAffix, MarkedCode, DecodeTo
<1> QED
  BY <1>1, <1>2, <1>3, <1>4 DEF Next

\* Nor do the layers.
LEMMA LayersElsewhere == LayerNext => stage # "induce" /\ stage' # "induce"
<1>1. WrapWord \/ WrapString \/ WrapByte \/ WrapEnd => stage # "induce" /\ stage' # "induce"
  BY DEF WrapWord, WrapString, WrapByte, WrapEnd, Emit
<1>2. UnwrapEscaped \/ UnwrapString \/ UnwrapCased => stage # "induce" /\ stage' # "induce"
  BY DEF UnwrapEscaped, UnwrapString, UnwrapCased, Restore, DecodeTo
<1>3. UnwrapStem \/ UnwrapByte \/ UnwrapEnd => stage # "induce" /\ stage' # "induce"
  BY DEF UnwrapStem, UnwrapByte, UnwrapEnd, Restore, DecodeTo
<1> QED
  BY <1>1, <1>2, <1>3 DEF LayerNext

\* What follows the induction is not part of it.
LEMMA OthersElsewhere ==
  \/ EndInduction \/ WriteRules \/ WriteSymbol \/ EndWrite \/ Cut
  \/ ReadRuleCount \/ ReadRule \/ ReadFlag \/ ReadRank \/ ReadDefinition \/ ReadSymbol \/ EndBody
  \/ Expand \/ ReadFactor \/ EndDecode
  => stage' # "induce"
<1>1. EndInduction \/ WriteRules \/ WriteSymbol \/ EndWrite \/ Cut => stage' # "induce"
  BY DEF EndInduction, WriteRules, WriteSymbol, EndWrite, Cut
<1>2. ReadRuleCount \/ ReadRule \/ ReadFlag \/ ReadRank => stage' # "induce"
  BY DEF ReadRuleCount, ReadRule, ReadFlag, ReadRank, Decoding
<1>3. ReadDefinition \/ ReadSymbol \/ EndBody => stage' # "induce"
  BY DEF ReadDefinition, ReadSymbol, EndBody, Decoding
<1>4. Expand \/ ReadFactor \/ EndDecode => stage' # "induce"
  BY DEF Expand, ReadFactor, EndDecode, Decoding
<1> QED
  BY <1>1, <1>2, <1>3, <1>4

\* Every step of every codec keeps the grammar a grammar of the text.
LEMMA StepInduced == Induced /\ [TransformNext]_vars => Induced'
<1> SUFFICES ASSUME Induced, [TransformNext]_vars PROVE Induced'
  OBVIOUS
<1>1. CASE Next \/ LayerNext
  BY <1>1, TokensElsewhere, LayersElsewhere DEF Induced
<1>2. CASE Round \/ OneShot
  BY <1>2, RoundKeeps, OneShotKeeps
<1>3. CASE Factor
  BY <1>3 DEF Factor, Induction, Induced
<1>4. ASSUME stage' # "induce" PROVE Induced'
  BY <1>4 DEF Induced
<1>5. CASE UNCHANGED vars
  BY <1>5 DEF vars, job, Induced, Grammatical
<1> QED
  BY <1>1, <1>2, <1>3, <1>4, <1>5, OthersElsewhere DEF TransformNext, GrammarNext

\* Every round leaves a grammar of the text, in every form: its symbols
\* expand to the text, no rule refers to itself or to a later one (decode
\* relies on it), and GRAMMAR_MAX_RULES is kept though a maximal repeat takes
\* several rules at once (repair_opts and repair_oneshot of
\* src/grammar/mod.rs).
THEOREM GrammarKept == TransformSpec => []GrammarOfText
<1> QED
  BY InducedInit, StepInduced, InducedIs, PTL DEF TransformSpec

-----------------------------------------------------------------------------
(* The other layers: what each of their codes adds to a course.            *)

\* A code stays one when the stream grows.
LEMMA HopGrows ==
  ASSUME NEW c, NEW o, NEW q, NEW m, NEW m2, m.at \in Nat, m2.at \in Nat, Agree(o, q, m2.at),
         Hop(c, o, m, m2)
  PROVE  Hop(c, q, m, m2)
<1>1. PICK a \in Nat : a = m.at
  OBVIOUS
<1>2. ASSUME NEW n \in Nat, NEW w, Gives(c, m, m2, n, w) PROVE \A x \in 1 .. n : o[a + x] = q[a + x]
  <2>1. m2.at = a + n
    BY <1>1, <1>2 DEF Gives
  <2> TAKE x \in 1 .. n
  <2>2. a + x \in 1 .. m2.at
    BY <2>1
  <2> QED
    BY <2>2 DEF Agree
<1>3. ASSUME NEW n \in Nat, NEW w, Gives(c, m, m2, n, w), NEW lead \in Nat, NEW v, Len(v) \in Nat,
             n = lead + Len(v), Written(o, a + lead, v)
      PROVE  Written(q, a + lead, v)
  <2>1. PICK y \in Nat : y = Len(v)
    BY <1>3
  <2>2. ASSUME NEW x \in 1 .. y PROVE q[(a + lead) + x] = v[x]
    <3>1. lead + x \in 1 .. n /\ a + (lead + x) = (a + lead) + x
      BY <1>3, <2>1
    <3>2. o[a + (lead + x)] = q[a + (lead + x)]
      BY <1>2, <1>3, <3>1
    <3>3. o[(a + lead) + x] = v[x]
      BY <1>3, <2>1 DEF Written
    <3> QED
      BY <3>1, <3>2, <3>3
  <2> QED
    BY <2>1, <2>2 DEF Written
<1>4. CASE HopByte(c, o, m, m2)
  <2>1. o[a + 1] = q[a + 1]
    BY <1>2, <1>4 DEF HopByte
  <2> QED
    BY <1>1, <1>4, <2>1 DEF Hop, HopByte
<1>5. CASE HopEscaped(c, o, m, m2)
  <2>1. \A x \in 1 .. 2 : o[a + x] = q[a + x]
    BY <1>2, <1>5 DEF HopEscaped
  <2>2. o[a + 1] = q[a + 1] /\ o[a + 2] = q[a + 2]
    BY <2>1
  <2> QED
    BY <1>1, <1>5, <2>2 DEF Hop, HopEscaped
<1>6. CASE HopString(c, o, m, m2)
  <2>1. o[a + 1] = q[a + 1]
    BY <1>2, <1>6 DEF HopString
  <2> QED
    BY <1>1, <1>6, <2>1 DEF Hop, HopString
<1>7. CASE HopCased(c, o, m, m2)
  <2>1. PICK w \in Seq(Letters) : HopCasedAs(c, o, m, m2, w)
    BY <1>7 DEF HopCased
  <2>2. PICK n \in Nat : n = 1 + Len(w) /\ Len(w) \in Nat /\ 1 \in 1 .. n
    OBVIOUS
  <2>3. Gives(c, m, m2, n, CaseWord(c.form, o[m.at + 1], w)) /\ Written(o, a + 1, w)
    BY <1>1, <2>1, <2>2 DEF HopCasedAs
  <2>4. o[a + 1] = q[a + 1]
    BY <1>2, <2>2, <2>3
  <2>5. Written(q, a + 1, w)
    BY <1>3, <2>2, <2>3
  <2>6. HopCasedAs(c, q, m, m2, w)
    BY <1>1, <2>1, <2>4, <2>5 DEF HopCasedAs
  <2> QED
    BY <2>6 DEF Hop, HopCased
<1>8. CASE HopStem(c, o, m, m2)
  <2>1. PICK w \in Seq(Letters) : HopStemAs(c, o, m, m2, w)
    BY <1>8 DEF HopStem
  <2>2. PICK n \in Nat : n = 2 + Len(w) /\ Len(w) \in Nat /\ 1 \in 1 .. n /\ 2 \in 1 .. n
    OBVIOUS
  <2>3. Gives(c, m, m2, n, w \o SUFFIXES[o[m.at + 2] + 1]) /\ Written(o, a + 2, w)
    BY <1>1, <2>1, <2>2 DEF HopStemAs
  <2>4. o[a + 1] = q[a + 1] /\ o[a + 2] = q[a + 2]
    BY <1>2, <2>2, <2>3
  <2>5. Written(q, a + 2, w)
    BY <1>3, <2>2, <2>3
  <2>6. HopStemAs(c, q, m, m2, w)
    BY <1>1, <2>1, <2>4, <2>5 DEF HopStemAs
  <2> QED
    BY <2>6 DEF Hop, HopStem
<1>9. CASE HopPerm(c, o, m, m2)
  <2>1. o[a + 1] = q[a + 1]
    BY <1>2, <1>9 DEF HopPerm
  <2> QED
    BY <1>1, <1>9, <2>1 DEF Hop, HopPerm
<1> QED
  BY <1>4, <1>5, <1>6, <1>7, <1>8, <1>9 DEF Hop

\* A code more, and the marks of its bytes.
LEMMA CourseGrows ==
  ASSUME NEW c, NEW o, NEW M, Course(c, o, M), NEW e \in M, e.at = Len(o),
         NEW code \in Seq(Bytes), NEW q, q = o \o code,
         NEW K, \A k \in K : SpotOK(c, k, Len(q)) /\ k.at > Len(o),
         \A k, k2 \in K : k.at = k2.at => k = k2,
         \E k \in K : Hop(c, q, e, k),
         \A k \in K : k.at < Len(q) => \E k2 \in K : Hop(c, q, k, k2)
  PROVE  Course(c, q, M \cup K)
<1>1. o \in Seq(Bytes)
  BY DEF Course
<1>2. Joined(q, o, code)
  BY <1>1, JoinedOK
<1>3. PICK n \in Nat, z \in Nat : n = Len(o) /\ z = Len(q) /\ n <= z /\ Agree(o, q, n) /\ q \in Seq(Bytes)
  <2>1. PICK y \in Nat : y = Len(code)
    OBVIOUS
  <2>2. PICK n \in Nat : n = Len(o)
    BY <1>1
  <2>3. Len(q) = n + y /\ n + y \in Nat /\ n <= n + y
    BY <1>2, <2>1, <2>2 DEF Joined
  <2> QED
    BY <1>2, <2>2, <2>3 DEF Joined
<1>4. ASSUME NEW m \in M PROVE m.at \in 0 .. n /\ m.read \in 0 .. Len(c.text)
  BY <1>3 DEF Course, SpotOK
<1>5. \A m \in M \cup K : SpotOK(c, m, Len(q))
  <2>1. ASSUME NEW m \in M PROVE SpotOK(c, m, Len(q))
    <3>1. m.at \in 0 .. z
      BY <1>3, <1>4
    <3> QED
      BY <1>3, <1>4, <3>1 DEF SpotOK
  <2> QED
    BY <2>1
<1>6. \A m, m2 \in M \cup K : m.at = m2.at => m = m2
  <2>1. \A m, m2 \in M : m.at = m2.at => m = m2
    BY DEF Course
  <2>2. \A m \in M, k \in K : m.at # k.at
    BY <1>3, <1>4
  <2> QED
    BY <2>1, <2>2
<1>7. ASSUME NEW m \in M \cup K, m.at < Len(q) PROVE \E m2 \in M \cup K : Hop(c, q, m, m2)
  <2>1. CASE m \in K
    BY <1>7, <2>1
  <2>2. CASE m \in M /\ m.at < n
    <3>1. PICK m2 \in M : Hop(c, o, m, m2)
      BY <1>3, <2>2 DEF Course
    <3>2. Agree(o, q, m2.at) /\ m.at \in Nat /\ m2.at \in Nat
      <4>1. m.at \in 0 .. n /\ m2.at \in 0 .. n
        BY <1>4, <2>2
      <4> QED
        BY <1>3, <4>1 DEF Agree
    <3> QED
      BY <3>1, <3>2, HopGrows
  <2>3. CASE m \in M /\ ~(m.at < n)
    <3>1. m.at = n
      BY <1>4, <2>3
    <3>2. m = e
      BY <1>3, <2>3, <3>1 DEF Course
    <3> QED
      BY <3>2
  <2> QED
    BY <2>1, <2>2, <2>3
<1> QED
  BY <1>3, <1>5, <1>6, <1>7 DEF Course

\* The stream o ends at a mark, with the text read up to r.
AtSpot(c, o, M, r) == c.text \in Seq(Bytes) /\ Course(c, o, M) /\ Spot(Len(o), r) \in M

\* Writing code leads to a mark with the text read up to r2.
Advances(c, o, M, code, r2) ==
  \E K : Course(c, o \o code, M \cup K) /\ Spot(Len(o \o code), r2) \in K

\* What is known where a layer writes.
LEMMA SpotFacts ==
  ASSUME NEW c, NEW o, NEW M, NEW r, AtSpot(c, o, M, r)
  PROVE  o \in Seq(Bytes) /\ Len(o) \in Nat /\ c.text \in Seq(Bytes) /\ Len(c.text) \in Nat
         /\ r \in 0 .. Len(c.text)
<1>1. SpotOK(c, Spot(Len(o), r), Len(o))
  BY DEF AtSpot, Course
<1>2. o \in Seq(Bytes) /\ c.text \in Seq(Bytes)
  BY DEF AtSpot, Course
<1> QED
  BY <1>1, <1>2, LenProperties DEF SpotOK, Spot

\* One code, and the mark at its end.
LEMMA AdvanceOne ==
  ASSUME NEW c, NEW o, NEW M, NEW r, AtSpot(c, o, M, r),
         NEW code \in Seq(Bytes), code # <<>>, NEW r2 \in 0 .. Len(c.text),
         \A q : Joined(q, o, code)
                  => Hop(c, q, Spot(Len(o), r), Spot(Len(o) + Len(code), r2))
  PROVE  Advances(c, o, M, code, r2)
<1>1. PICK q : q = o \o code /\ Joined(q, o, code)
  BY SpotFacts, JoinedOK
<1>2. PICK n \in Nat, y \in Nat : n = Len(o) /\ y = Len(code) /\ y > 0
  BY SpotFacts
<1>3. PICK z \in Nat : z = Len(q) /\ z = n + y
  BY <1>1, <1>2 DEF Joined
<1>4. PICK e, k : e = Spot(n, r) /\ k = Spot(z, r2)
  OBVIOUS
<1>5. e.at = n /\ k.at = z /\ k.read = r2
  BY <1>4 DEF Spot
<1>6. PICK K : K = {k}
  OBVIOUS
<1>7. Hop(c, q, e, k)
  BY <1>1, <1>2, <1>3, <1>4
<1>8. e \in M /\ Course(c, o, M)
  BY <1>2, <1>4 DEF AtSpot
<1>9. SpotOK(c, k, Len(q)) /\ k.at > Len(o)
  BY <1>2, <1>3, <1>5 DEF SpotOK
<1>10. \A y1 \in K : y1.at < Len(q) => \E k2 \in K : Hop(c, q, y1, k2)
  BY <1>3, <1>5, <1>6
<1>11. (\A y1 \in K : SpotOK(c, y1, Len(q)) /\ y1.at > Len(o)) /\ (\E y1 \in K : Hop(c, q, e, y1))
       /\ \A y1, y2 \in K : y1.at = y2.at => y1 = y2
  BY <1>6, <1>7, <1>9
<1>12. Course(c, q, M \cup K)
  BY <1>1, <1>2, <1>5, <1>8, <1>10, <1>11, CourseGrows
<1> QED
  BY <1>1, <1>3, <1>4, <1>6, <1>12 DEF Advances

\* The next byte of the text.
LEMMA NextByte ==
  ASSUME NEW t \in Seq(Bytes), NEW r \in 0 .. Len(t), r < Len(t)
  PROVE  /\ t[r + 1] \in Bytes /\ r + 1 \in 0 .. Len(t) /\ r + 1 > r
         /\ SubSeq(t, r + 1, r + 1) = <<t[r + 1]>>
<1>1. PICK n \in Nat : n = Len(t)
  OBVIOUS
<1>2. PICK p \in 1 .. n : p = r + 1
  BY <1>1
<1>3. t[p] \in Bytes
  BY <1>1, <1>2, ElementOfSeq
<1>4. SubSeq(t, p, p) = <<t[p]>>
  <2>1. p \in 1 .. Len(t) + 1 /\ p \in p - 1 .. Len(t)
    BY <1>1, <1>2
  <2>2. /\ SubSeq(t, p, p) \in Seq(Bytes) /\ Len(SubSeq(t, p, p)) = p - p + 1
        /\ \A k \in 1 .. p - p + 1 : SubSeq(t, p, p)[k] = t[p + k - 1]
    BY <2>1, PartOfText
  <2>3. p - p + 1 = 1 /\ p + 1 - 1 = p
    OBVIOUS
  <2>4. SubSeq(t, p, p)[1] = t[p] /\ Len(SubSeq(t, p, p)) = 1
    BY <2>2, <2>3
  <2>5. PICK u \in Seq(Bytes) : u = SubSeq(t, p, p) /\ Len(u) = 1 /\ u[1] = t[p]
    BY <2>2, <2>4
  <2>6. PICK v \in Seq(Bytes) : v = <<t[p]>> /\ Len(v) = 1 /\ v[1] = t[p]
    BY <1>3, ByteCode
  <2>7. u = v
    <3>1. Len(u) = Len(v) /\ \A k \in 1 .. Len(u) : u[k] = v[k]
      BY <2>5, <2>6
    <3> QED
      BY <3>1, SeqEqual
  <2> QED
    BY <2>5, <2>6, <2>7
<1> QED
  BY <1>1, <1>2, <1>3, <1>4

\* A byte that stands for itself ...
LEMMA AdvanceByte ==
  ASSUME NEW c, NEW o, NEW M, NEW r, AtSpot(c, o, M, r), r < Len(c.text),
         c.form # "perm", Ordinary(c, c.text[r + 1])
  PROVE  Advances(c, o, M, <<c.text[r + 1]>>, r + 1)
<1>1. PICK b \in Bytes, r2 \in 0 .. Len(c.text) :
         b = c.text[r + 1] /\ r2 = r + 1 /\ r2 > r /\ SubSeq(c.text, r + 1, r2) = <<b>>
  BY SpotFacts, NextByte
<1>2. ASSUME NEW q, Joined(q, o, <<b>>) PROVE Hop(c, q, Spot(Len(o), r), Spot(Len(o) + Len(<<b>>), r2))
  <2>1. Len(<<b>>) = 1 /\ <<b>>[1] = b
    OBVIOUS
  <2>2. q[Len(o) + 1] = b
    BY <1>2, <2>1 DEF Joined
  <2>3. HopByte(c, q, Spot(Len(o), r), Spot(Len(o) + Len(<<b>>), r2))
    BY <1>1, <2>1, <2>2 DEF HopByte, Gives, Spot
  <2> QED
    BY <2>3 DEF Hop
<1>3. <<b>> \in Seq(Bytes) /\ <<b>> # <<>>
  OBVIOUS
<1>4. Advances(c, o, M, <<b>>, r2)
  BY <1>2, <1>3, AdvanceOne
<1> QED
  BY <1>1, <1>4

\* ... an escaped one ...
LEMMA AdvanceEscaped ==
  ASSUME NEW c, NEW o, NEW M, NEW r, AtSpot(c, o, M, r), r < Len(c.text), c.form # "perm"
  PROVE  Advances(c, o, M, <<ESC, c.text[r + 1]>>, r + 1)
<1>1. PICK b \in Bytes, r2 \in 0 .. Len(c.text) :
         b = c.text[r + 1] /\ r2 = r + 1 /\ r2 > r /\ SubSeq(c.text, r + 1, r2) = <<b>>
  BY SpotFacts, NextByte
<1>2. PICK w \in Seq(Bytes) : w = <<ESC, b>> /\ w # <<>> /\ Len(w) = 2 /\ w[1] = ESC /\ w[2] = b
  <2>1. ESC \in Bytes
    BY EscapeBytes
  <2>2. /\ <<ESC, b>> \in Seq(Bytes) /\ Len(<<ESC, b>>) = 2 /\ <<ESC, b>> # <<>>
        /\ <<ESC, b>>[1] = ESC /\ <<ESC, b>>[2] = b
    BY <2>1, PairCode
  <2> QED
    BY <2>2
<1>3. ASSUME NEW q, Joined(q, o, w) PROVE Hop(c, q, Spot(Len(o), r), Spot(Len(o) + Len(w), r2))
  <2>1. q[Len(o) + 1] = ESC /\ q[Len(o) + 2] = b
    BY <1>2, <1>3 DEF Joined
  <2>2. HopEscaped(c, q, Spot(Len(o), r), Spot(Len(o) + Len(w), r2))
    BY <1>1, <1>2, <2>1 DEF HopEscaped, Gives, Spot
  <2> QED
    BY <2>2 DEF Hop
<1>4. Advances(c, o, M, w, r2)
  BY <1>2, <1>3, AdvanceOne
<1> QED
  BY <1>1, <1>2, <1>4

\* ... and one under another name.
LEMMA AdvancePerm ==
  ASSUME NEW c, NEW o, NEW M, NEW r, AtSpot(c, o, M, r), r < Len(c.text), c.form = "perm",
         NEW b \in Bytes, InvertPerm(c.perm[1])[b + 1] = c.text[r + 1]
  PROVE  Advances(c, o, M, <<b>>, r + 1)
<1>1. PICK r2 \in 0 .. Len(c.text) :
         r2 = r + 1 /\ r2 > r /\ SubSeq(c.text, r + 1, r2) = <<c.text[r + 1]>>
  BY SpotFacts, NextByte
<1>2. ASSUME NEW q, Joined(q, o, <<b>>) PROVE Hop(c, q, Spot(Len(o), r), Spot(Len(o) + Len(<<b>>), r2))
  <2>1. Len(<<b>>) = 1 /\ <<b>>[1] = b
    OBVIOUS
  <2>2. q[Len(o) + 1] = b
    BY <1>2, <2>1 DEF Joined
  <2>3. HopPerm(c, q, Spot(Len(o), r), Spot(Len(o) + Len(<<b>>), r2))
    BY <1>1, <2>1, <2>2 DEF HopPerm, Gives, Spot
  <2> QED
    BY <2>3 DEF Hop
<1>3. <<b>> \in Seq(Bytes) /\ <<b>> # <<>>
  OBVIOUS
<1>4. Advances(c, o, M, <<b>>, r2)
  BY <1>2, <1>3, AdvanceOne
<1> QED
  BY <1>1, <1>4

\* A structural string.
LEMMA AdvanceString ==
  ASSUME NEW c, NEW o, NEW M, NEW r, AtSpot(c, o, M, r), c.form = "hoist",
         NEW k \in DOMAIN DICT, NEW r2 \in 0 .. Len(c.text), r2 > r,
         SubSeq(c.text, r + 1, r2) = DICT[k]
  PROVE  Advances(c, o, M, <<k>>, r2)
<1>1. k \in Bytes /\ k # ESC
  <2>1. PICK d \in Nat : d = Len(DICT) /\ d < N
    BY DictAssumption, NAssumption
  <2>2. k \in 1 .. d
    BY <2>1, DictAssumption
  <2> QED
    BY <2>1, <2>2, NAssumption DEF Bytes, ESC
<1>2. ASSUME NEW q, Joined(q, o, <<k>>) PROVE Hop(c, q, Spot(Len(o), r), Spot(Len(o) + Len(<<k>>), r2))
  <2>1. Len(<<k>>) = 1 /\ <<k>>[1] = k
    OBVIOUS
  <2>2. q[Len(o) + 1] = k
    BY <1>2, <2>1 DEF Joined
  <2>3. HopString(c, q, Spot(Len(o), r), Spot(Len(o) + Len(<<k>>), r2))
    BY <1>1, <2>1, <2>2 DEF HopString, Gives, Spot
  <2> QED
    BY <2>3 DEF Hop
<1>3. <<k>> \in Seq(Bytes) /\ <<k>> # <<>>
  BY <1>1
<1> QED
  BY <1>2, <1>3, AdvanceOne

\* The forms that look at words, and a letter in them.
Worded == {"case", "markonly", "stem"}

LEMMA LettersOrdinary ==
  ASSUME NEW c, c.form \in Worded, NEW b \in Letters
  PROVE  c.form # "perm" /\ Ordinary(c, b) /\ b \in Bytes
<1>1. b \in Bytes /\ b # ESC
  BY LettersAre
<1>2. b \in Nat /\ b > CASE_MIXED
  BY <1>1, CapitalAssumption, NAssumption DEF Bytes
<1>3. b # STEM_MARK /\ b # CASE_TITLE /\ b # CASE_UPPER /\ b # CASE_MIXED
  BY <1>2 DEF STEM_MARK, CASE_TITLE, CASE_UPPER, CASE_MIXED
<1>4. c.form # "hoist" /\ c.form # "perm"
  BY DEF Worded
<1> QED
  BY <1>1, <1>3, <1>4 DEF Ordinary

\* A word that stands for itself, byte by byte.
LEMMA AdvanceWord ==
  ASSUME NEW c, NEW o, NEW M, NEW r, AtSpot(c, o, M, r), c.form \in Worded,
         NEW w \in Seq(Letters), w # <<>>, NEW r2 \in 0 .. Len(c.text), r2 = r + Len(w),
         SubSeq(c.text, r + 1, r2) = w
  PROVE  Advances(c, o, M, w, r2)
<1>1. PICK n \in Nat, y \in Nat, z \in Nat : n = Len(o) /\ y = Len(w) /\ y > 0 /\ z = Len(c.text)
  BY SpotFacts
<1>2. o \in Seq(Bytes) /\ c.text \in Seq(Bytes) /\ r \in 0 .. z /\ r2 = r + y /\ r2 <= z
  BY <1>1, SpotFacts
<1>3. w \in Seq(Bytes)
  BY LettersAre, SeqMonotonic
<1>4. PICK q : q = o \o w /\ Joined(q, o, w)
  BY <1>2, <1>3, JoinedOK
<1>5. Len(q) = n + y /\ \A k \in 1 .. y : q[n + k] = w[k]
  BY <1>1, <1>4 DEF Joined
<1>6. PICK K : K = {Spot(n + k, r + k) : k \in 1 .. y}
  OBVIOUS
<1>7. ASSUME NEW k \in 0 .. y - 1 PROVE Hop(c, q, Spot(n + k, r + k), Spot(n + (k + 1), r + (k + 1)))
  <2>1. PICK s \in 0 .. Len(c.text) : s = r + k /\ s < Len(c.text)
    BY <1>1, <1>2
  <2>2. SubSeq(c.text, s + 1, s + 1) = <<c.text[s + 1]>> /\ s + 1 > s
    BY <1>2, <2>1, NextByte
  <2>3. PICK x \in 1 .. y : x = k + 1
    OBVIOUS
  <2>4. w[x] = c.text[s + 1]
    <3>1. r + 1 \in 1 .. Len(c.text) + 1 /\ r2 \in (r + 1) - 1 .. Len(c.text)
      BY <1>1, <1>2
    <3>2. PICK f \in 1 .. Len(c.text) + 1 : f = r + 1
      BY <3>1
    <3>3. PICK e \in f - 1 .. Len(c.text) : e = r2
      BY <3>1, <3>2
    <3>4. \A v \in 1 .. e - f + 1 : SubSeq(c.text, f, e)[v] = c.text[f + v - 1]
      BY <1>2, PartOfText
    <3>5. x \in 1 .. e - f + 1 /\ f + x - 1 = s + 1
      BY <1>2, <2>1, <2>3, <3>2, <3>3
    <3> QED
      BY <3>2, <3>3, <3>4, <3>5
  <2>5. q[(n + k) + 1] = c.text[s + 1]
    <3>1. q[n + x] = w[x] /\ n + x = (n + k) + 1
      BY <1>5, <2>3
    <3> QED
      BY <2>4, <3>1
  <2>6. Ordinary(c, c.text[s + 1]) /\ c.form # "perm"
    <3>1. w[x] \in Letters
      BY <1>1, ElementOfSeq
    <3> QED
      BY <2>4, <3>1, LettersOrdinary
  <2>7. n + (k + 1) = (n + k) + 1 /\ r + (k + 1) = s + 1
    BY <1>2, <2>1
  <2>8. HopByte(c, q, Spot(n + k, s), Spot((n + k) + 1, s + 1))
    BY <2>2, <2>5, <2>6 DEF HopByte, Gives, Spot
  <2> QED
    BY <2>1, <2>7, <2>8 DEF Hop
<1>8. ASSUME NEW m \in K PROVE SpotOK(c, m, Len(q)) /\ m.at > Len(o)
  <2>1. PICK k \in 1 .. y : m = Spot(n + k, r + k)
    BY <1>6
  <2>2. n + k \in 0 .. n + y /\ r + k \in 0 .. z /\ n + k > n
    BY <1>2
  <2> QED
    BY <1>1, <1>5, <2>1, <2>2 DEF SpotOK, Spot
<1>9. ASSUME NEW m \in K, NEW m2 \in K, m.at = m2.at PROVE m = m2
  <2>1. PICK k \in 1 .. y, k2 \in 1 .. y : m = Spot(n + k, r + k) /\ m2 = Spot(n + k2, r + k2)
    BY <1>6
  <2>2. n + k = n + k2
    BY <1>9, <2>1 DEF Spot
  <2>3. k = k2
    BY <2>2
  <2> QED
    BY <2>1, <2>3
<1>10. PICK e : e = Spot(n, r)
  OBVIOUS
<1>11. e \in M /\ e.at = Len(o) /\ Course(c, o, M)
  BY <1>1, <1>10 DEF AtSpot, Spot
<1>12. \E m \in K : Hop(c, q, e, m)
  <2>1. 0 \in 0 .. y - 1 /\ 0 + 1 \in 1 .. y /\ n + 0 = n /\ r + 0 = r
    BY <1>1, <1>2
  <2>2. Hop(c, q, Spot(n + 0, r + 0), Spot(n + (0 + 1), r + (0 + 1)))
    BY <1>7, <2>1
  <2> QED
    BY <1>6, <1>10, <2>1, <2>2
<1>13. ASSUME NEW m \in K, m.at < Len(q) PROVE \E m2 \in K : Hop(c, q, m, m2)
  <2>1. PICK k \in 1 .. y : m = Spot(n + k, r + k)
    BY <1>6
  <2>2. n + k < n + y
    BY <1>5, <1>13, <2>1 DEF Spot
  <2>3. k \in 0 .. y - 1 /\ k + 1 \in 1 .. y
    BY <2>2
  <2>4. Hop(c, q, m, Spot(n + (k + 1), r + (k + 1)))
    BY <1>7, <2>1, <2>3
  <2> QED
    BY <1>6, <2>3, <2>4
<1>14. Course(c, q, M \cup K)
  BY <1>3, <1>4, <1>8, <1>9, <1>11, <1>12, <1>13, CourseGrows
<1>15. Spot(Len(q), r2) \in K
  <2>1. y \in 1 .. y
    BY <1>1
  <2> QED
    BY <1>2, <1>5, <1>6, <2>1
<1> QED
  BY <1>4, <1>14, <1>15 DEF Advances

\* A mark of case and a word.
LEMMA AdvanceCased ==
  ASSUME NEW c, NEW o, NEW M, NEW r, AtSpot(c, o, M, r), c.form \in {"case", "markonly"},
         NEW b \in {CASE_TITLE, CASE_UPPER, CASE_MIXED},
         NEW w \in Seq(Letters), w \in Seq(CaseRun(c.form, b)),
         NEW r2 \in 0 .. Len(c.text), r2 > r,
         SubSeq(c.text, r + 1, r2) = CaseWord(c.form, b, w),
         r2 = Len(c.text) \/ c.text[r2 + 1] \notin Letters
  PROVE  Advances(c, o, M, <<b>> \o w, r2)
<1>1. b \in Bytes
  BY NAssumption DEF Bytes, CASE_TITLE, CASE_UPPER, CASE_MIXED
<1>2. w \in Seq(Bytes)
  BY LettersAre, SeqMonotonic
<1>3. PICK h \in Seq(Bytes) : h = <<b>> /\ Len(h) = 1 /\ h[1] = b
  BY <1>1, ByteCode
<1>4. PICK y \in Nat : y = Len(w)
  OBVIOUS
<1>5. PICK v \in Seq(Bytes) : /\ v = h \o w /\ Len(v) = 1 + y /\ v[1] = b
                              /\ \A x \in 1 .. y : v[1 + x] = w[x]
  <2>1. /\ h \o w \in Seq(Bytes) /\ Len(h \o w) = Len(h) + Len(w)
        /\ \A x \in 1 .. Len(h) : (h \o w)[x] = h[x]
        /\ \A x \in 1 .. Len(w) : (h \o w)[Len(h) + x] = w[x]
    BY <1>2, Chained
  <2>2. 1 \in 1 .. Len(h)
    BY <1>3
  <2> QED
    BY <1>3, <1>4, <2>1, <2>2
<1>6. v # <<>>
  BY <1>5
<1>7. ASSUME NEW q, Joined(q, o, v) PROVE Hop(c, q, Spot(Len(o), r), Spot(Len(o) + Len(v), r2))
  <2>1. PICK n \in Nat : n = Len(o)
    BY SpotFacts
  <2>2. \A x \in 1 .. 1 + y : q[n + x] = v[x]
    BY <1>5, <1>7, <2>1 DEF Joined
  <2>3. q[n + 1] = b
    BY <1>5, <2>2
  <2>4. ASSUME NEW x \in 1 .. y PROVE q[(n + 1) + x] = w[x]
    <3>1. 1 + x \in 1 .. 1 + y /\ n + (1 + x) = (n + 1) + x
      OBVIOUS
    <3>2. q[n + (1 + x)] = v[1 + x]
      BY <2>2, <3>1
    <3> QED
      BY <1>5, <3>1, <3>2
  <2>5. PICK e, e2 : e = Spot(n, r) /\ e2 = Spot(n + Len(v), r2)
    OBVIOUS
  <2>6. e.at = n /\ e.read = r /\ e2.at = n + (1 + Len(w)) /\ e2.read = r2
    BY <1>4, <1>5, <2>5 DEF Spot
  <2>7. Written(q, n + 1, w)
    BY <1>4, <2>4 DEF Written
  <2>8. HopCasedAs(c, q, e, e2, w)
    BY <2>3, <2>6, <2>7 DEF HopCasedAs, Gives, WordEnds
  <2> QED
    BY <2>1, <2>5, <2>8 DEF Hop, HopCased
<1> QED
  BY <1>3, <1>5, <1>6, <1>7, AdvanceOne

\* A mark, a suffix and the stem before it.
LEMMA AdvanceStem ==
  ASSUME NEW c, NEW o, NEW M, NEW r, AtSpot(c, o, M, r), c.form = "stem",
         NEW s \in DOMAIN SUFFIXES, NEW w \in Seq(Letters),
         NEW r2 \in 0 .. Len(c.text), r2 > r,
         SubSeq(c.text, r + 1, r2) = w \o SUFFIXES[s],
         r2 = Len(c.text) \/ c.text[r2 + 1] \notin Letters
  PROVE  Advances(c, o, M, <<STEM_MARK, s - 1>> \o w, r2)
<1>1. STEM_MARK \in Bytes /\ s - 1 \in Bytes /\ (s - 1) + 1 = s
  <2>1. PICK d \in Nat : d = Len(SUFFIXES) /\ d <= N /\ s \in 1 .. d
    <3>1. PICK Y : Y = Seq(Letters)
      OBVIOUS
    <3>2. SUFFIXES \in Seq(Y) /\ Len(SUFFIXES) <= N
      BY <3>1, SuffixesAssumption
    <3> QED
      BY <3>2
  <2> QED
    BY <2>1, NAssumption DEF Bytes, STEM_MARK
<1>2. w \in Seq(Bytes)
  BY LettersAre, SeqMonotonic
<1>3. PICK h \in Seq(Bytes) : h = <<STEM_MARK, s - 1>> /\ Len(h) = 2 /\ h[1] = STEM_MARK /\ h[2] = s - 1
  <2>1. PICK a \in Bytes, b \in Bytes : a = STEM_MARK /\ b = s - 1
    BY <1>1
  <2>2. /\ <<a, b>> \in Seq(Bytes) /\ Len(<<a, b>>) = 2 /\ <<a, b>>[1] = a /\ <<a, b>>[2] = b
    BY PairCode
  <2> QED
    BY <2>1, <2>2
<1>4. PICK y \in Nat : y = Len(w)
  OBVIOUS
<1>5. PICK v \in Seq(Bytes) : /\ v = h \o w /\ Len(v) = 2 + y /\ v[1] = STEM_MARK /\ v[2] = s - 1
                              /\ \A x \in 1 .. y : v[2 + x] = w[x]
  <2>1. /\ h \o w \in Seq(Bytes) /\ Len(h \o w) = Len(h) + Len(w)
        /\ \A x \in 1 .. Len(h) : (h \o w)[x] = h[x]
        /\ \A x \in 1 .. Len(w) : (h \o w)[Len(h) + x] = w[x]
    BY <1>2, Chained
  <2>2. 1 \in 1 .. Len(h) /\ 2 \in 1 .. Len(h)
    BY <1>3
  <2> QED
    BY <1>3, <1>4, <2>1, <2>2
<1>6. v # <<>>
  BY <1>5
<1>7. ASSUME NEW q, Joined(q, o, v) PROVE Hop(c, q, Spot(Len(o), r), Spot(Len(o) + Len(v), r2))
  <2>1. PICK n \in Nat : n = Len(o)
    BY SpotFacts
  <2>2. \A x \in 1 .. 2 + y : q[n + x] = v[x]
    BY <1>5, <1>7, <2>1 DEF Joined
  <2>3. q[n + 1] = STEM_MARK /\ q[n + 2] = s - 1
    <3>1. 1 \in 1 .. 2 + y /\ 2 \in 1 .. 2 + y
      OBVIOUS
    <3>2. q[n + 1] = v[1] /\ q[n + 2] = v[2]
      BY <2>2, <3>1
    <3> QED
      BY <1>5, <3>2
  <2>4. ASSUME NEW x \in 1 .. y PROVE q[(n + 2) + x] = w[x]
    <3>1. 2 + x \in 1 .. 2 + y /\ n + (2 + x) = (n + 2) + x
      OBVIOUS
    <3>2. q[n + (2 + x)] = v[2 + x]
      BY <2>2, <3>1
    <3> QED
      BY <1>5, <3>1, <3>2
  <2>5. PICK e, e2 : e = Spot(n, r) /\ e2 = Spot(n + Len(v), r2)
    OBVIOUS
  <2>6. e.at = n /\ e.read = r /\ e2.at = n + (2 + Len(w)) /\ e2.read = r2
    BY <1>4, <1>5, <2>5 DEF Spot
  <2>7. Written(q, n + 2, w)
    BY <1>4, <2>4 DEF Written
  <2>8. HopStemAs(c, q, e, e2, w)
    BY <1>1, <2>3, <2>6, <2>7 DEF HopStemAs, Gives, WordEnds
  <2> QED
    BY <2>1, <2>5, <2>8 DEF Hop, HopStem
<1> QED
  BY <1>3, <1>5, <1>6, <1>7, AdvanceOne

\* The structural string that hoisting takes is one that is there.
LEMMA HoistedOK ==
  ASSUME NEW p \in 1 .. Len(text) + 1, text \in Seq(Bytes), Hoistable(p) # {}
  PROVE  /\ Hoisted(Hoistable(p)) \in DOMAIN DICT
         /\ Len(DICT[Hoisted(Hoistable(p))]) \in Nat \ {0}
         /\ p + Len(DICT[Hoisted(Hoistable(p))]) - 1 <= Len(text)
         /\ SubSeq(text, p, p + Len(DICT[Hoisted(Hoistable(p))]) - 1) = DICT[Hoisted(Hoistable(p))]
<1>1. PICK n \in Nat : n = Len(text)
  OBVIOUS
<1>2. PICK Y : Y = Seq(0 .. N - 1)
  OBVIOUS
<1>3. DICT \in Seq(Y)
  BY <1>2, DictAssumption
<1>4. PICK L : L = [k \in DOMAIN DICT |-> Len(DICT[k])]
  OBVIOUS
<1>5. \A k \in DOMAIN DICT : k \in Nat /\ L[k] = Len(DICT[k]) /\ L[k] \in Nat \ {0}
  <2> TAKE k \in DOMAIN DICT
  <2>1. DICT[k] \in Y /\ k \in Nat
    BY <1>3, ElementOfSeq
  <2>2. DICT[k] \in Seq(0 .. N - 1) /\ DICT[k] # <<>>
    BY <1>2, <2>1, DictAssumption
  <2> QED
    BY <1>4, <2>1, <2>2, EmptySeq, LenProperties
<1>6. PICK S : S = Hoistable(p)
  OBVIOUS
<1>7. \A k \in S : /\ k \in DOMAIN DICT /\ p + Len(DICT[k]) - 1 <= Len(text)
                   /\ SubSeq(text, p, p + Len(DICT[k]) - 1) = DICT[k]
  BY <1>6 DEF Hoistable
<1>8. \A k \in S : L[k] \in Nat /\ L[k] <= n
  <2> TAKE k \in S
  <2>1. L[k] \in Nat /\ p + L[k] - 1 <= n /\ p \in Nat /\ p >= 1
    BY <1>1, <1>5, <1>7
  <2> QED
    BY <2>1
<1>9. S \subseteq Nat /\ S # {}
  BY <1>5, <1>6, <1>7
<1>10. \E k \in S : \A l \in S \ {k} : L[l] < L[k] \/ (L[l] = L[k] /\ k < l)
  BY <1>8, <1>9, LongestOK
<1>11. \E k \in S : \A l \in S \ {k} :
         Len(DICT[l]) < Len(DICT[k]) \/ (Len(DICT[l]) = Len(DICT[k]) /\ k < l)
  BY <1>5, <1>7, <1>10
<1>12. Hoisted(S) \in S
  BY <1>11 DEF Hoisted
<1> QED
  BY <1>5, <1>6, <1>7, <1>12

\* A word in lower case, from which its capitals can be told.
LEMMA InLowerOK ==
  ASSUME NEW w \in Seq(Letters)
  PROVE  /\ InLower(w) \in Seq(Lower) /\ Len(InLower(w)) = Len(w)
         /\ \A k \in 1 .. Len(w) : /\ w[k] \in Upper => Capital[InLower(w)[k]] = w[k]
                                   /\ w[k] \in Lower => InLower(w)[k] = w[k]
<1>1. PICK n \in Nat : n = Len(w) /\ DOMAIN w = 1 .. n
  OBVIOUS
<1>2. PICK v : v = InLower(w)
  OBVIOUS
<1>3. v = [k \in 1 .. n |-> IF w[k] \in Upper THEN CHOOSE l \in Lower : Capital[l] = w[k] ELSE w[k]]
  BY <1>1, <1>2 DEF InLower
<1>4. ASSUME NEW k \in 1 .. n
      PROVE  /\ v[k] \in Lower
             /\ w[k] \in Upper => Capital[v[k]] = w[k]
             /\ w[k] \in Lower => v[k] = w[k]
  <2>1. w[k] \in Letters
    BY <1>1, ElementOfSeq
  <2>2. w[k] \in Lower \/ w[k] \in Upper
    BY <2>1, CapitalAssumption
  <2>3. CASE w[k] \in Upper
    <3>1. v[k] = CHOOSE l \in Lower : Capital[l] = w[k]
      BY <1>3, <2>3
    <3>2. \E l \in Lower : Capital[l] = w[k]
      BY <2>3 DEF Upper, Lower, Range
    <3>3. v[k] \in Lower /\ Capital[v[k]] = w[k]
      BY <3>1, <3>2
    <3>4. w[k] \notin Lower
      BY <2>3, CapitalAssumption
    <3> QED
      BY <3>3, <3>4
  <2>4. CASE w[k] \notin Upper
    BY <1>3, <2>2, <2>4
  <2> QED
    BY <2>3, <2>4
<1>5. v \in [1 .. n -> Lower]
  BY <1>3, <1>4
<1>6. v \in Seq(Lower) /\ Len(v) = n
  BY <1>5
<1> QED
  BY <1>1, <1>2, <1>4, <1>6

\* The mark of a word's case says how its letters are.
LEMMA WordClassIs ==
  ASSUME NEW w
  PROVE  /\ WordClass(w) \in {0, CASE_TITLE, CASE_UPPER, CASE_MIXED}
         /\ WordClass(w) = CASE_TITLE => w[1] \in Upper /\ Range(Tail(w)) \subseteq Lower
         /\ WordClass(w) = CASE_UPPER => Range(w) \subseteq Upper
<1>1. CASE_TITLE = 1 /\ CASE_UPPER = 2 /\ CASE_MIXED = 3
  BY DEF CASE_TITLE, CASE_UPPER, CASE_MIXED
<1>2. PICK A, B, C : /\ A <=> Range(w) \subseteq Lower
                     /\ B <=> w[1] \in Upper /\ Range(Tail(w)) \subseteq Lower
                     /\ C <=> Len(w) > 1 /\ Range(w) \subseteq Upper
  <2> DEFINE X == Range(w) \subseteq Lower
             Y == w[1] \in Upper /\ Range(Tail(w)) \subseteq Lower
             Z == Len(w) > 1 /\ Range(w) \subseteq Upper
  <2>1. (X <=> X) /\ (Y <=> Y) /\ (Z <=> Z)
    OBVIOUS
  <2> QED
    BY <2>1
<1> QED
  BY <1>1, <1>2 DEF WordClass

\* A word with a mark of case comes back from the mark and what follows it.
LEMMA CasedOK ==
  ASSUME NEW w \in Seq(Letters), w # <<>>, NEW f \in {"case", "markonly"},
         NEW b \in {CASE_TITLE, CASE_UPPER, CASE_MIXED}, WordClass(w) = b,
         NEW v, v = IF f = "markonly" \/ b = CASE_MIXED THEN w ELSE InLower(w)
  PROVE  v \in Seq(Letters) /\ v \in Seq(CaseRun(f, b)) /\ CaseWord(f, b, v) = w
<1>1. CASE f = "markonly" \/ b = CASE_MIXED
  BY <1>1 DEF CaseRun, CaseWord
<1>2. CASE ~(f = "markonly" \/ b = CASE_MIXED)
  <2>1. b = CASE_TITLE \/ b = CASE_UPPER
    BY <1>2
  <2>2. v = InLower(w)
    BY <1>2
  <2>3. PICK n \in Nat : n = Len(w) /\ n > 0 /\ DOMAIN w = 1 .. n
    OBVIOUS
  <2>4. v \in Seq(Lower) /\ Len(v) = n /\ DOMAIN v = 1 .. n
    BY <2>2, <2>3, InLowerOK
  <2>5. ASSUME NEW k \in 1 .. n
        PROVE  (w[k] \in Upper => Capital[v[k]] = w[k]) /\ (w[k] \in Lower => v[k] = w[k])
    <3>1. \A x \in 1 .. Len(w) : /\ w[x] \in Upper => Capital[v[x]] = w[x]
                                 /\ w[x] \in Lower => v[x] = w[x]
      BY <2>2, InLowerOK
    <3>2. k \in 1 .. Len(w)
      BY <2>3
    <3> QED
      BY <3>1, <3>2
  <2>6. v \in Seq(Letters)
    <3>1. Lower \subseteq Letters
      BY CapitalAssumption
    <3> QED
      BY <2>4, <3>1, SeqMonotonic
  <2>7. v \in Seq(CaseRun(f, b))
    BY <1>2, <2>4 DEF CaseRun
  <2>8. CASE b = CASE_UPPER
    <3>1. \A k \in 1 .. n : w[k] \in Upper
      <4>1. Range(w) \subseteq Upper
        BY <2>8, WordClassIs
      <4> QED
        BY <2>3, <4>1 DEF Range
    <3>2. InCapital(v) = [k \in 1 .. n |-> w[k]]
      BY <2>4, <2>5, <3>1 DEF InCapital
    <3>3. w = [k \in 1 .. n |-> w[k]]
      BY <2>3
    <3>4. CaseWord(f, b, v) = InCapital(v)
      BY <1>2, <2>8 DEF CaseWord, CASE_TITLE, CASE_UPPER
    <3> QED
      BY <2>6, <2>7, <3>2, <3>3, <3>4
  <2>9. CASE b = CASE_TITLE
    <3>1. w[1] \in Upper /\ Range(Tail(w)) \subseteq Lower
      BY <2>9, WordClassIs
    <3>2. Tail(w) \in Seq(Letters) /\ Len(Tail(w)) = n - 1 /\ \A k \in 1 .. n - 1 : Tail(w)[k] = w[k + 1]
      BY <2>3
    <3>3. \A k \in 1 .. n - 1 : w[k + 1] \in Lower
      <4> TAKE k \in 1 .. n - 1
      <4>1. DOMAIN Tail(w) = 1 .. n - 1
        BY <2>3, <3>2
      <4>2. Tail(w)[k] \in Lower
        BY <3>1, <4>1 DEF Range
      <4> QED
        BY <3>2, <4>2
    <3>4. Tail(v) \in Seq(Letters) /\ Len(Tail(v)) = n - 1 /\ \A k \in 1 .. n - 1 : Tail(v)[k] = v[k + 1]
      BY <2>3, <2>4, <2>6
    <3>5. Tail(v) = Tail(w)
      <4>1. \A k \in 1 .. n - 1 : Tail(v)[k] = Tail(w)[k]
        <5> TAKE k \in 1 .. n - 1
        <5>1. k + 1 \in 1 .. n
          BY <2>3
        <5> QED
          BY <2>5, <3>2, <3>3, <3>4, <5>1
      <4>2. Len(Tail(v)) = Len(Tail(w)) /\ \A k \in 1 .. Len(Tail(v)) : Tail(v)[k] = Tail(w)[k]
        BY <3>2, <3>4, <4>1
      <4> QED
        BY <3>2, <3>4, <4>2, SeqEqual
    <3>6. Capital[v[1]] = w[1]
      <4>1. 1 \in 1 .. n
        BY <2>3
      <4> QED
        BY <2>5, <3>1, <4>1
    <3>7. v # <<>>
      BY <2>3, <2>4
    <3>8. Titled(v) = <<w[1]>> \o Tail(w)
      BY <3>5, <3>6, <3>7 DEF Titled
    <3>9. <<w[1]>> \o Tail(w) = w
      <4>1. PICK h \in Seq(Letters) : h = <<w[1]>> /\ Len(h) = 1 /\ h[1] = w[1]
        <5>1. 1 \in 1 .. n
          BY <2>3
        <5>2. w[1] \in Letters
          BY <2>3, <5>1, ElementOfSeq
        <5>3. PICK x \in Letters : x = w[1]
          BY <5>2
        <5>4. <<x>> \in Seq(Letters) /\ Len(<<x>>) = 1 /\ <<x>>[1] = x
          OBVIOUS
        <5> QED
          BY <5>3, <5>4
      <4>2. PICK u \in Seq(Letters) : /\ u = h \o Tail(w) /\ Len(u) = 1 + (n - 1) /\ u[1] = w[1]
                                      /\ \A k \in 1 .. n - 1 : u[1 + k] = w[k + 1]
        <5>1. /\ h \o Tail(w) \in Seq(Letters) /\ Len(h \o Tail(w)) = Len(h) + Len(Tail(w))
              /\ \A x \in 1 .. Len(h) : (h \o Tail(w))[x] = h[x]
              /\ \A x \in 1 .. Len(Tail(w)) : (h \o Tail(w))[Len(h) + x] = Tail(w)[x]
          BY <3>2, Chained
        <5>2. 1 \in 1 .. Len(h)
          BY <4>1
        <5> QED
          BY <3>2, <4>1, <5>1, <5>2
      <4>3. ASSUME NEW k \in 1 .. n PROVE u[k] = w[k]
        <5>1. CASE k = 1
          BY <4>2, <5>1
        <5>2. CASE k # 1
          <6>1. PICK x \in 1 .. n - 1 : k = 1 + x /\ k = x + 1
            <7>1. k - 1 \in 1 .. n - 1 /\ k = 1 + (k - 1) /\ k = (k - 1) + 1
              BY <5>2
            <7> QED
              BY <7>1
          <6> QED
            BY <4>2, <6>1
        <5> QED
          BY <5>1, <5>2
      <4>4. Len(u) = Len(w) /\ \A k \in 1 .. Len(u) : u[k] = w[k]
        <5>1. Len(u) = n
          BY <4>2
        <5> QED
          BY <2>3, <4>3, <5>1
      <4>5. u = w
        BY <4>4, SeqEqual
      <4> QED
        BY <4>1, <4>2, <4>5
    <3>10. CaseWord(f, b, v) = Titled(v)
      BY <1>2, <2>9 DEF CaseWord
    <3> QED
      BY <2>6, <2>7, <3>8, <3>9, <3>10
  <2> QED
    BY <2>1, <2>8, <2>9
<1> QED
  BY <1>1, <1>2

-----------------------------------------------------------------------------
(* The layers' encoders.                                                   *)

LEMMA LayerIs == Layer.form = form /\ Layer.text = text /\ Layer.perm = vocab
  BY DEF Layer

\* Where the encoder is.
LEMMA WrappingFacts ==
  ASSUME NEW M, Underway(M), Wrapping(M)
  PROVE  /\ text \in Seq(Bytes) /\ Len(text) \in Nat /\ i - 1 \in 0 .. Len(text) /\ (i - 1) + 1 = i
         /\ AtSpot(Layer, out, M, i - 1) /\ out \in Seq(Bytes)
<1>1. text \in Seq(Bytes) /\ Len(text) \in Nat /\ out \in Seq(Bytes)
  BY DEF Underway, LayerOK, Course
<1>2. i - 1 \in 0 .. Len(text) /\ (i - 1) + 1 = i
  BY <1>1 DEF Wrapping
<1>3. AtSpot(Layer, out, M, i - 1)
  BY <1>1, LayerIs DEF Underway, Wrapping, AtSpot
<1> QED
  BY <1>1, <1>2, <1>3

\* A piece that is written leads behind it.
LEMMA WrapKeeps ==
  ASSUME NEW M, Underway(M), Wrapping(M), NEW code, NEW next, Emit(code, next),
         UNCHANGED <<list, defined>>, next \in 1 .. Len(text) + 1,
         Advances(Layer, out, M, code, next - 1)
  PROVE  \E M2 : Underway(M2)'
<1>1. PICK K : Course(Layer, out \o code, M \cup K) /\ Spot(Len(out \o code), next - 1) \in K
  BY DEF Advances
<1>2. PICK M2 : M2 = M \cup K
  OBVIOUS
<1>3. /\ out' = out \o code /\ i' = next /\ list' = list
      /\ trail' = trail \cup {[at |-> Len(out'), read |-> next - 1, order |-> list'.order, defined |-> defined']}
      /\ UNCHANGED <<stage, form, mode, text, vocab, blocked, j, dlist, back>>
  BY DEF Emit, job
<1>4. Layer' = Layer
  BY <1>3 DEF Layer
<1>5. LayerOK'
  BY <1>3 DEF Underway, LayerOK
<1>6. Course(Layer', out', M2)
  BY <1>1, <1>2, <1>3, <1>4
<1>7. Noted(M2)'
  <2>1. ASSUME NEW t \in trail' PROVE t.order = NewList(0).order /\ \E m \in M2 : t.at = m.at /\ t.read = m.read
    <3>1. CASE t \in trail
      <4>1. t.order = NewList(0).order /\ \E m \in M : t.at = m.at /\ t.read = m.read
        BY <3>1 DEF Underway, Noted
      <4> QED
        BY <1>2, <4>1
    <3>2. CASE t \notin trail
      <4>1. t = [at |-> Len(out'), read |-> next - 1, order |-> list'.order, defined |-> defined']
        BY <1>3, <2>1, <3>2
      <4>2. t.order = NewList(0).order
        BY <1>3, <4>1 DEF Underway
      <4>3. PICK m \in M2 : m = Spot(Len(out'), next - 1)
        BY <1>1, <1>2, <1>3
      <4>4. t.at = m.at /\ t.read = m.read
        BY <4>1, <4>3 DEF Spot
      <4> QED
        BY <4>2, <4>4
    <3> QED
      BY <3>1, <3>2
  <2> QED
    BY <2>1 DEF Noted
<1>8. Wrapping(M2)'
  BY <1>1, <1>2, <1>3 DEF Wrapping, Spot
<1> QED
  BY <1>3, <1>5, <1>6, <1>7, <1>8 DEF Underway

\* A word, with what its form says of it.
LEMMA WrapWordKeeps ==
  ASSUME NEW M, Underway(M), WrapWord
  PROVE  \E M2 : Underway(M2)'
<1>1. Wrapping(M)
  BY DEF WrapWord, Underway, Unwrapping
<1>2. /\ form \in {"case", "markonly", "stem"} /\ i <= Len(text) /\ text[i] \in Letters
      /\ UNCHANGED <<list, defined>> /\ Emit(WrappedWord(Word(text, i)), i + Len(Word(text, i)))
  BY DEF WrapWord
<1>3. PICK r \in 0 .. Len(text) : r = i - 1 /\ r + 1 = i /\ AtSpot(Layer, out, M, r)
  BY <1>1, WrappingFacts
<1>4. text \in Seq(Bytes) /\ i \in 1 .. Len(text) /\ i \in 1 .. Len(text) + 1
  <2>1. text \in Seq(Bytes) /\ Len(text) \in Nat
    BY <1>1, WrappingFacts
  <2> QED
    BY <1>1, <1>2, <2>1 DEF Wrapping
<1>5. PICK w \in Seq(Letters), z \in Nat \ {0} :
         /\ w = Word(text, i) /\ z = Len(w) /\ WordEnd(text, i) = i + z /\ i + z <= Len(text) + 1
         /\ w = SubSeq(text, i, i + z - 1)
  BY <1>2, <1>4, WordOK
<1>6. PICK r2 \in 0 .. Len(text) : r2 = i + z - 1 /\ r2 = r + z /\ r2 > r /\ i + z = r2 + 1
  <2>1. PICK n \in Nat : n = Len(text)
    BY <1>4
  <2>2. i + z - 1 \in 0 .. n /\ i + z - 1 = r + z /\ i + z - 1 > r /\ i + z = (i + z - 1) + 1
    BY <1>3, <1>4, <1>5, <2>1
  <2> QED
    BY <2>1, <2>2
<1>7. SubSeq(text, r + 1, r2) = w /\ w # <<>>
  BY <1>3, <1>5, <1>6
<1>8. r2 = Len(text) \/ text[r2 + 1] \notin Letters
  <2>1. WordEnd(text, i) = Len(text) + 1 \/ text[WordEnd(text, i)] \notin Letters
    BY <1>4, WordEndOK
  <2>2. WordEnd(text, i) = r2 + 1 /\ Len(text) \in Nat
    BY <1>4, <1>5, <1>6
  <2>3. r2 + 1 = Len(text) + 1 \/ text[r2 + 1] \notin Letters
    BY <2>1, <2>2
  <2> QED
    BY <2>2, <2>3
<1>9. /\ r2 \in 0 .. Len(Layer.text) /\ Layer.form \in Worded /\ Layer.form = form
      /\ SubSeq(Layer.text, r + 1, r2) = w
      /\ r2 = Len(Layer.text) \/ Layer.text[r2 + 1] \notin Letters
  BY <1>2, <1>7, <1>8, LayerIs DEF Worded
<1>10. Advances(Layer, out, M, WrappedWord(w), r2)
  <2>1. CASE WrappedWord(w) = w
    <3>1. r2 = r + Len(w)
      BY <1>5, <1>6
    <3> QED
      BY <1>3, <1>7, <1>9, <2>1, <3>1, AdvanceWord
  <2>2. CASE form = "stem" /\ Endings(w) # {}
    <3>1. PICK s \in DOMAIN SUFFIXES, v \in Seq(Letters) : s = Ending(w) /\ v = Stem(w) /\ v \o SUFFIXES[s] = w
      BY <2>2, StemOK
    <3>2. WrappedWord(w) = <<STEM_MARK, s - 1>> \o v
      BY <2>2, <3>1 DEF WrappedWord
    <3>3. Layer.form = "stem" /\ SubSeq(Layer.text, r + 1, r2) = v \o SUFFIXES[s]
      BY <1>9, <2>2, <3>1
    <3>4. Advances(Layer, out, M, <<STEM_MARK, s - 1>> \o v, r2)
      BY <1>3, <1>6, <1>9, <3>3, AdvanceStem
    <3> QED
      BY <3>2, <3>4
  <2>3. CASE form # "stem" /\ WordClass(w) # 0
    <3>1. PICK b \in {CASE_TITLE, CASE_UPPER, CASE_MIXED} : b = WordClass(w)
      BY <2>3, WordClassIs
    <3>2. PICK v : v = IF form = "markonly" \/ b = CASE_MIXED THEN w ELSE InLower(w)
      OBVIOUS
    <3>3. form \in {"case", "markonly"}
      BY <1>2, <2>3
    <3>4. v \in Seq(Letters) /\ v \in Seq(CaseRun(form, b)) /\ CaseWord(form, b, v) = w
      BY <1>7, <3>1, <3>2, <3>3, CasedOK
    <3>5. WrappedWord(w) = <<b>> \o v
      BY <2>3, <3>1, <3>2 DEF WrappedWord
    <3> QED
      BY <1>3, <1>6, <1>9, <3>3, <3>4, <3>5, AdvanceCased
  <2>4. WrappedWord(w) = w \/ (form = "stem" /\ Endings(w) # {}) \/ (form # "stem" /\ WordClass(w) # 0)
    BY DEF WrappedWord
  <2> QED
    BY <2>1, <2>2, <2>3, <2>4
<1>11. i + Len(w) \in 1 .. Len(text) + 1 /\ (i + Len(w)) - 1 = r2
  <2>1. PICK n \in Nat : n = Len(text) /\ r2 \in 0 .. n
    BY <1>4
  <2>2. i + z = r2 + 1 /\ r2 + 1 \in 1 .. n + 1 /\ (r2 + 1) - 1 = r2
    BY <1>6, <2>1
  <2> QED
    BY <1>5, <2>1, <2>2
<1>12. PICK next : next = i + Len(w)
  OBVIOUS
<1>13. Emit(WrappedWord(w), next)
  BY <1>2, <1>5, <1>12
<1> QED
  BY <1>1, <1>2, <1>10, <1>11, <1>12, <1>13, WrapKeeps

\* A structural string.
LEMMA WrapStringKeeps ==
  ASSUME NEW M, Underway(M), WrapString
  PROVE  \E M2 : Underway(M2)'
<1>1. Wrapping(M)
  BY DEF WrapString, Underway, Unwrapping
<1>2. /\ form = "hoist" /\ i <= Len(text) /\ Hoistable(i) # {} /\ UNCHANGED <<list, defined>>
      /\ Emit(<<Hoisted(Hoistable(i))>>, i + Len(DICT[Hoisted(Hoistable(i))]))
  BY DEF WrapString
<1>3. PICK r \in 0 .. Len(text) : r = i - 1 /\ r + 1 = i /\ AtSpot(Layer, out, M, r)
  BY <1>1, WrappingFacts
<1>4. text \in Seq(Bytes) /\ Len(text) \in Nat /\ i \in 1 .. Len(text) + 1
  BY <1>1, WrappingFacts DEF Wrapping
<1>5. PICK k \in DOMAIN DICT, z \in Nat \ {0} :
         /\ k = Hoisted(Hoistable(i)) /\ z = Len(DICT[k]) /\ i + z - 1 <= Len(text)
         /\ SubSeq(text, i, i + z - 1) = DICT[k]
  BY <1>2, <1>4, HoistedOK
<1>6. PICK r2 \in 0 .. Len(text) : r2 = i + z - 1 /\ r2 > r /\ i + z = r2 + 1
  <2>1. PICK n \in Nat : n = Len(text)
    BY <1>4
  <2>2. i + z - 1 \in 0 .. n /\ i + z - 1 > r /\ i + z = (i + z - 1) + 1
    BY <1>3, <1>4, <1>5, <2>1
  <2> QED
    BY <2>1, <2>2
<1>7. r2 \in 0 .. Len(Layer.text) /\ Layer.form = "hoist" /\ SubSeq(Layer.text, r + 1, r2) = DICT[k]
  BY <1>2, <1>3, <1>5, <1>6, LayerIs
<1>8. Advances(Layer, out, M, <<k>>, r2)
  BY <1>3, <1>6, <1>7, AdvanceString
<1>9. PICK next \in 1 .. Len(text) + 1 : next = i + z /\ next - 1 = r2
  <2>1. PICK n \in Nat : n = Len(text) /\ r2 \in 0 .. n
    BY <1>4
  <2>2. i + z = r2 + 1 /\ r2 + 1 \in 1 .. n + 1 /\ (r2 + 1) - 1 = r2
    BY <1>6, <2>1
  <2> QED
    BY <2>1, <2>2
<1>10. Emit(<<k>>, next)
  BY <1>2, <1>5, <1>9
<1> QED
  BY <1>1, <1>2, <1>8, <1>9, <1>10, WrapKeeps

\* A byte that is not reserved is the decoder's own.
LEMMA ReservedOK ==
  ASSUME NEW b \in Bytes, form \in LayerForms, form # "perm", ~Reserved(b)
  PROVE  Ordinary(Layer, b)
<1>1. b \in Nat
  BY NAssumption DEF Bytes
<1>2. form \in {"hoist", "case", "markonly", "stem"}
  BY LayerFormsAssumption
<1>3. CASE form = "hoist"
  <2>1. PICK d \in Nat : d = Len(DICT) /\ DOMAIN DICT = 1 .. d
    BY DictAssumption
  <2>2. ~(b <= d)
    BY <1>3, <2>1 DEF Reserved
  <2>3. b # ESC /\ b \notin DOMAIN DICT
    BY <1>1, <2>1, <2>2 DEF ESC
  <2> QED
    BY <1>3, <2>3, LayerIs DEF Ordinary
<1>4. CASE form = "stem"
  <2>1. ~(b <= 1)
    BY <1>4 DEF Reserved, STEM_MARK
  <2>2. b # ESC /\ b # STEM_MARK
    BY <1>1, <2>1 DEF ESC, STEM_MARK
  <2> QED
    BY <1>4, <2>2, LayerIs DEF Ordinary
<1>5. CASE form \in {"case", "markonly"}
  <2>1. ~(b <= 3)
    BY <1>5 DEF Reserved, CASE_MIXED
  <2>2. b # ESC /\ b \notin {CASE_TITLE, CASE_UPPER, CASE_MIXED}
    BY <1>1, <2>1 DEF ESC, CASE_TITLE, CASE_UPPER, CASE_MIXED
  <2> QED
    BY <1>5, <2>2, LayerIs DEF Ordinary
<1> QED
  BY <1>2, <1>3, <1>4, <1>5

\* A permutation is inverted.
LEMMA InvertOK ==
  ASSUME NEW p \in [1 .. N -> 0 .. N - 1], IsInjective(p), NEW b \in Bytes
  PROVE  p[b + 1] \in Bytes /\ InvertPerm(p)[p[b + 1] + 1] = b
<1>1. PICK x \in 1 .. N, y \in 1 .. N : x = b + 1 /\ y = p[x] + 1 /\ p[x] \in 0 .. N - 1 /\ x - 1 = b /\ y - 1 = p[x]
  <2>1. b + 1 \in 1 .. N /\ (b + 1) - 1 = b
    BY NAssumption DEF Bytes
  <2>2. PICK x \in 1 .. N : x = b + 1 /\ x - 1 = b
    BY <2>1
  <2>3. p[x] \in 0 .. N - 1
    OBVIOUS
  <2>4. p[x] + 1 \in 1 .. N /\ (p[x] + 1) - 1 = p[x]
    BY <2>3, NAssumption
  <2> QED
    BY <2>2, <2>3, <2>4
<1>2. ASSUME NEW m \in 1 .. N, p[m] = y - 1 PROVE m = x
  BY <1>1, <1>2 DEF IsInjective
<1>3. (CHOOSE m \in 1 .. N : p[m] = y - 1) = x
  BY <1>1, <1>2
<1>4. InvertPerm(p)[y] = (CHOOSE m \in 1 .. N : p[m] = y - 1) - 1
  BY <1>1 DEF InvertPerm
<1> QED
  BY <1>1, <1>3, <1>4 DEF Bytes

\* A byte, as it is, escaped, or under its new name.
LEMMA WrapByteKeeps ==
  ASSUME NEW M, Underway(M), form \in LayerForms, WrapByte
  PROVE  \E M2 : Underway(M2)'
<1>1. Wrapping(M)
  BY DEF WrapByte, Underway, Unwrapping
<1>2. PICK code : code = CASE form = "perm" -> <<vocab[1][text[i] + 1]>> [] Reserved(text[i]) -> <<ESC, text[i]>>
                             [] OTHER -> <<text[i]>>
  OBVIOUS
<1>3. i <= Len(text) /\ UNCHANGED <<list, defined>> /\ Emit(code, i + 1)
  BY <1>2 DEF WrapByte
<1>4. PICK r \in 0 .. Len(text) : r = i - 1 /\ r + 1 = i /\ AtSpot(Layer, out, M, r)
  BY <1>1, WrappingFacts
<1>5. text \in Seq(Bytes) /\ Len(text) \in Nat /\ i \in 1 .. Len(text) + 1
  BY <1>1, WrappingFacts DEF Wrapping
<1>6. PICK b \in Bytes : b = text[i] /\ b = Layer.text[r + 1]
  <2>1. i \in 1 .. Len(text)
    BY <1>3, <1>5
  <2>2. text[i] \in Bytes
    BY <1>5, <2>1, ElementOfSeq
  <2> QED
    BY <1>4, <2>2, LayerIs
<1>7. r < Len(Layer.text)
  <2>1. r < Len(text)
    BY <1>3, <1>4, <1>5
  <2> QED
    BY <2>1, LayerIs
<1>8. Layer.form = form
  BY LayerIs
<1>9. CASE form = "perm"
  <2>1. PICK p : p = vocab[1] /\ p \in [1 .. N -> 0 .. N - 1] /\ IsInjective(p)
    BY <1>9 DEF Underway, LayerOK
  <2>2. PICK x \in Bytes : x = p[b + 1] /\ InvertPerm(p)[x + 1] = b
    BY <2>1, InvertOK
  <2>3. InvertPerm(Layer.perm[1])[x + 1] = Layer.text[r + 1]
    BY <1>6, <2>1, <2>2, LayerIs
  <2>4. Advances(Layer, out, M, <<x>>, r + 1)
    BY <1>4, <1>7, <1>8, <1>9, <2>3, AdvancePerm
  <2>5. code = <<x>>
    <3>1. code = <<vocab[1][text[i] + 1]>>
      <4>1. ~Reserved(text[i])
        BY <1>9 DEF Reserved
      <4> QED
        BY <1>2, <1>9, <4>1
    <3>2. vocab[1][text[i] + 1] = x
      BY <1>6, <2>1, <2>2
    <3> QED
      BY <3>1, <3>2
  <2>6. Advances(Layer, out, M, code, r + 1)
    BY <2>4, <2>5
  <2> QED
    BY <1>1, <1>3, <1>4, <1>5, <2>6, WrapKeeps
<1>10. CASE form # "perm" /\ Reserved(text[i])
  <2>1. code = <<ESC, Layer.text[r + 1]>>
    BY <1>2, <1>6, <1>10
  <2>2. Advances(Layer, out, M, code, r + 1)
    BY <1>4, <1>7, <1>8, <1>10, <2>1, AdvanceEscaped
  <2> QED
    BY <1>1, <1>3, <1>4, <1>5, <2>2, WrapKeeps
<1>11. CASE form # "perm" /\ ~Reserved(text[i])
  <2>1. code = <<Layer.text[r + 1]>>
    BY <1>2, <1>6, <1>11
  <2>2. Ordinary(Layer, Layer.text[r + 1])
    BY <1>6, <1>11, ReservedOK
  <2>3. Advances(Layer, out, M, code, r + 1)
    BY <1>4, <1>7, <1>8, <1>11, <2>1, <2>2, AdvanceByte
  <2> QED
    BY <1>1, <1>3, <1>4, <1>5, <2>3, WrapKeeps
<1> QED
  BY <1>9, <1>10, <1>11

\* The stream has all of the text, and the decoder is at its start.
LEMMA WrapEndKeeps ==
  ASSUME NEW M, Underway(M), WrapEnd
  PROVE  Underway(M)'
<1>1. Wrapping(M)
  BY DEF WrapEnd, Underway, Unwrapping
<1>2. /\ i > Len(text) /\ stage' = "unwrap" /\ dict' = vocab
      /\ UNCHANGED <<form, mode, text, vocab, blocked, i, out, list, j, dlist, back, trail>>
  BY DEF WrapEnd, job, enc
<1>3. text \in Seq(Bytes) /\ Len(text) \in Nat
  BY <1>1, WrappingFacts
<1>4. i - 1 = Len(text)
  BY <1>1, <1>2, <1>3 DEF Wrapping
<1>5. Layer' = Layer /\ (LayerOK' <=> LayerOK) /\ (Noted(M)' <=> Noted(M))
  BY <1>2 DEF Layer, LayerOK, Noted
<1>6. Spot(Len(out), Len(text)) \in M /\ Spot(0, 0) \in M /\ j = 1 /\ back = <<>>
  BY <1>1, <1>4 DEF Wrapping
<1>7. Met(Spot(0, 0))'
  <2>1. SubSeq(text, 1, 0) = <<>>
    BY <1>3
  <2>2. j' = 1 /\ back' = <<>> /\ text' = text
    BY <1>2, <1>6
  <2> QED
    BY <2>1, <2>2 DEF Met, Spot
<1>8. Unwrapping(M)'
  BY <1>2, <1>6, <1>7 DEF Unwrapping, Spot
<1> QED
  BY <1>2, <1>5, <1>8 DEF Underway

-----------------------------------------------------------------------------
(* The layers' decoders.                                                   *)

\* A run of S from p on that ends before e is the maximal one.
LEMMA RunEndIs ==
  ASSUME NEW o, Len(o) \in Nat, NEW p \in Nat, NEW S, NEW e \in p .. Len(o) + 1,
         \A k \in p .. e - 1 : o[k] \in S, e = Len(o) + 1 \/ o[e] \notin S
  PROVE  RunEnd(o, p, S) = e
<1>1. PICK n \in Nat : n = Len(o)
  OBVIOUS
<1> DEFINE Ends(q) == (\A k \in p .. q - 1 : o[k] \in S) /\ (q = Len(o) + 1 \/ o[q] \notin S)
<1>2. ASSUME NEW q \in p .. Len(o) + 1, Ends(q) PROVE q = e
  <2>1. q \in Nat /\ e \in Nat /\ p <= q /\ p <= e /\ q <= n + 1 /\ e <= n + 1
    BY <1>1, <1>2
  <2>2. ~(q < e)
    <3>1. SUFFICES ASSUME q < e PROVE FALSE
      OBVIOUS
    <3>2. q \in p .. e - 1 /\ q # n + 1
      BY <2>1, <3>1
    <3>3. o[q] \in S /\ o[q] \notin S
      BY <1>1, <1>2, <3>2
    <3> QED
      BY <3>3
  <2>3. ~(e < q)
    <3>1. SUFFICES ASSUME e < q PROVE FALSE
      OBVIOUS
    <3>2. e \in p .. q - 1 /\ e # n + 1
      BY <2>1, <3>1
    <3>3. o[e] \in S /\ o[e] \notin S
      BY <1>1, <1>2, <3>2
    <3> QED
      BY <3>3
  <2> QED
    BY <2>1, <2>2, <2>3
<1>3. Ends(e)
  OBVIOUS
<1>4. RunEnd(o, p, S) = CHOOSE q \in p .. Len(o) + 1 : Ends(q)
  BY DEF RunEnd
<1> HIDE DEF Ends
<1> QED
  BY <1>2, <1>3, <1>4

\* The decoder at the mark m of the marks M.
Receiving(M, m) == Underway(M) /\ Unwrapping(M) /\ m \in M /\ Met(m)

\* What is known there.
LEMMA ReceivingFacts ==
  ASSUME NEW M, NEW m, Receiving(M, m)
  PROVE  /\ text \in Seq(Bytes) /\ Len(text) \in Nat /\ out \in Seq(Bytes) /\ Len(out) \in Nat
         /\ Course(Layer, out, M) /\ stage = "unwrap"
         /\ j = m.at + 1 /\ back = SubSeq(text, 1, m.read)
         /\ \A k \in M : k.at \in 0 .. Len(out) /\ k.read \in 0 .. Len(text)
         /\ j <= Len(out) => \E m2 \in M : Hop(Layer, out, m, m2)
<1>1. text \in Seq(Bytes) /\ out \in Seq(Bytes) /\ Course(Layer, out, M) /\ stage = "unwrap"
  BY DEF Receiving, Underway, LayerOK, Course, Unwrapping
<1>2. Len(text) \in Nat /\ Len(out) \in Nat
  BY <1>1
<1>3. j = m.at + 1 /\ back = SubSeq(text, 1, m.read) /\ m \in M
  BY DEF Receiving, Met
<1>4. ASSUME NEW k \in M PROVE k.at \in 0 .. Len(out) /\ k.read \in 0 .. Len(text)
  BY <1>1, LayerIs DEF Course, SpotOK
<1>5. ASSUME j <= Len(out) PROVE \E m2 \in M : Hop(Layer, out, m, m2)
  <2>1. m.at < Len(out)
    BY <1>2, <1>3, <1>4, <1>5
  <2> QED
    BY <1>1, <1>3, <2>1 DEF Course
<1> QED
  BY <1>1, <1>2, <1>3, <1>4, <1>5

\* The text that a code gives is restored, and the decoder is at the next mark.
LEMMA RestoreKeeps ==
  ASSUME NEW M, NEW m, Receiving(M, m), NEW m2 \in M, NEW n \in Nat, NEW w,
         Gives(Layer, m, m2, n, w), Restore(w, j + n)
  PROVE  Underway(M)'
<1>1. /\ back' = back \o w /\ stage' = "unwrap" /\ j' = j + n
      /\ UNCHANGED <<form, mode, text, vocab, blocked, i, out, list, defined, trail, units, left, dict, dlist>>
  BY DEF Restore, DecodeTo, job, enc
<1>2. Layer' = Layer /\ (LayerOK' <=> LayerOK) /\ (Noted(M)' <=> Noted(M))
  BY <1>1 DEF Layer, LayerOK, Noted
<1>3. m2.at = m.at + n /\ m2.read > m.read /\ SubSeq(text, m.read + 1, m2.read) = w
  BY LayerIs DEF Gives
<1>4. m \in M
  BY DEF Receiving
<1>5. PICK a \in Nat, r \in Nat, r2 \in Nat : a = m.at /\ r = m.read /\ r2 = m2.read /\ r < r2 /\ r2 <= Len(text)
  <2>1. m.at \in 0 .. Len(out) /\ m.read \in 0 .. Len(text) /\ m2.read \in 0 .. Len(text)
    BY <1>4, ReceivingFacts
  <2>2. Len(out) \in Nat /\ Len(text) \in Nat
    BY ReceivingFacts
  <2> QED
    BY <1>3, <2>1, <2>2
<1>6. SubSeq(text, 1, r) \o SubSeq(text, r + 1, r2) = SubSeq(text, 1, r2)
  <2>1. text \in Seq(Bytes) /\ 1 \in 1 .. Len(text) + 1 /\ r \in 1 - 1 .. Len(text) /\ r2 \in r .. Len(text)
    BY <1>5, ReceivingFacts
  <2> QED
    BY <2>1, ConcatAdjacentSubSeq
<1>7. back' = SubSeq(text, 1, m2.read)
  BY <1>1, <1>3, <1>5, <1>6, ReceivingFacts
<1>8. j' = m2.at + 1
  BY <1>1, <1>3, <1>5, ReceivingFacts
<1>9. Met(m2)'
  BY <1>1, <1>7, <1>8 DEF Met
<1>10. Unwrapping(M)'
  BY <1>1, <1>9 DEF Receiving, Unwrapping, Spot
<1> QED
  BY <1>1, <1>2, <1>10 DEF Receiving, Underway

\* The marks of case and of a suffix, and the escape, are no letters.
LEMMA MarksAre ==
  /\ CASE_TITLE \notin Letters /\ CASE_UPPER \notin Letters /\ CASE_MIXED \notin Letters
  /\ STEM_MARK \notin Letters /\ ESC \notin Letters
  /\ CASE_TITLE # ESC /\ CASE_UPPER # ESC /\ CASE_MIXED # ESC /\ STEM_MARK # ESC
<1>1. ASSUME NEW b \in {0, 1, 2, 3} PROVE b \notin Letters
  <2>1. ~(b > 3)
    OBVIOUS
  <2> QED
    BY <2>1, CapitalAssumption DEF CASE_MIXED
<1> QED
  BY <1>1 DEF CASE_TITLE, CASE_UPPER, CASE_MIXED, STEM_MARK, ESC

\* Where a word of the text ends, no letter follows in the stream.
LEMMA NoLetterFollows ==
  ASSUME NEW c, c.text \in Seq(Bytes), NEW o, NEW M, Course(c, o, M), c.form \in Worded, NEW m \in M, WordEnds(c, m)
  PROVE  m.at = Len(o) \/ o[m.at + 1] \notin Letters
<1>1. o \in Seq(Bytes) /\ Len(o) \in Nat /\ m.at \in 0 .. Len(o)
  BY DEF Course, SpotOK
<1>2. SUFFICES ASSUME m.at < Len(o) PROVE o[m.at + 1] \notin Letters
  BY <1>1
<1>3. PICK m2 \in M : Hop(c, o, m, m2)
  BY <1>2 DEF Course
<1>4. c.form # "hoist" /\ c.form # "perm"
  BY DEF Worded
<1>5. CASE HopByte(c, o, m, m2)
  <2>1. m2.read > m.read /\ SubSeq(c.text, m.read + 1, m2.read) = <<o[m.at + 1]>>
    BY <1>5 DEF HopByte, Gives
  <2>2. m.read \in 0 .. Len(c.text) /\ m2.read \in 0 .. Len(c.text)
    BY DEF Course, SpotOK
  <2>3. PICK p \in 1 .. Len(c.text) + 1 : p = m.read + 1 /\ m.read # Len(c.text)
    BY <2>1, <2>2
  <2>4. PICK q \in p - 1 .. Len(c.text) : q = m2.read /\ 1 \in 1 .. q - p + 1
    <3>1. PICK n \in Nat, a \in Nat, b \in Nat : n = Len(c.text) /\ a = m.read /\ b = m2.read /\ a < b /\ b <= n
      BY <2>1, <2>2
    <3>2. b \in p - 1 .. n /\ 1 \in 1 .. b - p + 1
      BY <2>3, <3>1
    <3> QED
      BY <3>1, <3>2
  <2>5. SubSeq(c.text, p, q)[1] = c.text[p + 1 - 1]
    BY <2>4, PartOfText
  <2>6. p + 1 - 1 = p /\ <<o[m.at + 1]>>[1] = o[m.at + 1]
    OBVIOUS
  <2>7. c.text[p] = o[m.at + 1]
    BY <2>1, <2>3, <2>4, <2>5, <2>6
  <2> QED
    BY <2>3, <2>7 DEF WordEnds
<1>6. CASE HopEscaped(c, o, m, m2)
  BY <1>6, MarksAre DEF HopEscaped
<1>7. CASE HopString(c, o, m, m2)
  BY <1>4, <1>7 DEF HopString
<1>8. CASE HopCased(c, o, m, m2)
  BY <1>8, MarksAre DEF HopCased, HopCasedAs
<1>9. CASE HopStem(c, o, m, m2)
  BY <1>9, MarksAre DEF HopStem, HopStemAs
<1>10. CASE HopPerm(c, o, m, m2)
  BY <1>4, <1>10 DEF HopPerm
<1> QED
  BY <1>3, <1>5, <1>6, <1>7, <1>8, <1>9, <1>10 DEF Hop

\* The code at the decoder's place.
LEMMA HopHere ==
  ASSUME NEW M, NEW m, Receiving(M, m), j <= Len(out)
  PROVE  \E m2 \in M :
           /\ \/ HopByte(Layer, out, m, m2) \/ HopEscaped(Layer, out, m, m2)
              \/ HopString(Layer, out, m, m2) \/ HopCased(Layer, out, m, m2)
              \/ HopStem(Layer, out, m, m2) \/ HopPerm(Layer, out, m, m2)
           /\ m2.at \in 0 .. Len(out) /\ m.at \in 0 .. Len(out) /\ out[j] = out[m.at + 1]
<1>1. PICK m2 \in M : Hop(Layer, out, m, m2)
  BY ReceivingFacts
<1>2. m2.at \in 0 .. Len(out) /\ m.at \in 0 .. Len(out)
  BY ReceivingFacts DEF Receiving
<1>3. out[j] = out[m.at + 1]
  BY ReceivingFacts
<1> QED
  BY <1>1, <1>2, <1>3 DEF Hop

\* A code of the structural strings is not the escape.
LEMMA StringCodes == ESC \notin DOMAIN DICT
<1>1. PICK d \in Nat : DOMAIN DICT = 1 .. d
  BY DictAssumption
<1> QED
  BY <1>1 DEF ESC

\* The marks of a form.
LEMMA MarksOf ==
  ASSUME form \in LayerForms
  PROVE  /\ form \in {"hoist", "case", "markonly", "stem", "perm"}
         /\ form = "stem" => Marks = {STEM_MARK}
         /\ form \in {"case", "markonly"} => Marks = {CASE_TITLE, CASE_UPPER, CASE_MIXED}
<1>1. form \in {"hoist", "case", "markonly", "stem", "perm"}
  BY LayerFormsAssumption
<1> QED
  BY <1>1 DEF Marks

LEMMA UnwrapEscapedKeeps ==
  ASSUME NEW M, NEW m, Receiving(M, m), UnwrapEscaped
  PROVE  Underway(M)'
<1>1. /\ form # "perm" /\ j <= Len(out) /\ out[j] = ESC
      /\ IF j < Len(out) THEN Restore(<<out[j + 1]>>, j + 2) ELSE Restore(<<ESC>>, j + 1)
  BY DEF UnwrapEscaped
<1>2. PICK m2 \in M :
           /\ \/ HopByte(Layer, out, m, m2) \/ HopEscaped(Layer, out, m, m2)
              \/ HopString(Layer, out, m, m2) \/ HopCased(Layer, out, m, m2)
              \/ HopStem(Layer, out, m, m2) \/ HopPerm(Layer, out, m, m2)
           /\ m2.at \in 0 .. Len(out) /\ m.at \in 0 .. Len(out) /\ out[j] = out[m.at + 1]
  BY <1>1, HopHere
<1>3. HopEscaped(Layer, out, m, m2)
  BY <1>1, <1>2, MarksAre, LayerIs DEF HopByte, Ordinary, HopString, HopCased, HopCasedAs, HopStem, HopStemAs, HopPerm
<1>4. Gives(Layer, m, m2, 2, <<out[m.at + 2]>>)
  BY <1>3 DEF HopEscaped
<1>5. m2.at = m.at + 2 /\ j = m.at + 1
  BY <1>4, ReceivingFacts DEF Gives
<1>6. j < Len(out) /\ j + 1 = m.at + 2
  <2>1. Len(out) \in Nat
    BY ReceivingFacts
  <2> QED
    BY <1>2, <1>5, <2>1
<1>7. Restore(<<out[m.at + 2]>>, j + 2)
  BY <1>1, <1>6
<1>8. PICK n \in Nat : n = 2
  OBVIOUS
<1> QED
  BY <1>4, <1>7, <1>8, RestoreKeeps

LEMMA UnwrapStringKeeps ==
  ASSUME NEW M, NEW m, Receiving(M, m), UnwrapString
  PROVE  Underway(M)'
<1>1. form = "hoist" /\ j <= Len(out) /\ out[j] \in DOMAIN DICT /\ Restore(DICT[out[j]], j + 1)
  BY DEF UnwrapString
<1>2. PICK m2 \in M :
           /\ \/ HopByte(Layer, out, m, m2) \/ HopEscaped(Layer, out, m, m2)
              \/ HopString(Layer, out, m, m2) \/ HopCased(Layer, out, m, m2)
              \/ HopStem(Layer, out, m, m2) \/ HopPerm(Layer, out, m, m2)
           /\ m2.at \in 0 .. Len(out) /\ m.at \in 0 .. Len(out) /\ out[j] = out[m.at + 1]
  BY <1>1, HopHere
<1>3. HopString(Layer, out, m, m2)
  BY <1>1, <1>2, StringCodes, LayerIs
     DEF HopByte, Ordinary, HopEscaped, HopCased, HopCasedAs, HopStem, HopStemAs, HopPerm
<1>4. Gives(Layer, m, m2, 1, DICT[out[m.at + 1]])
  BY <1>3 DEF HopString
<1>5. Restore(DICT[out[m.at + 1]], j + 1)
  BY <1>1, <1>2
<1>6. PICK n \in Nat : n = 1
  OBVIOUS
<1> QED
  BY <1>4, <1>5, <1>6, RestoreKeeps

LEMMA UnwrapByteKeeps ==
  ASSUME NEW M, NEW m, Receiving(M, m), form \in LayerForms, UnwrapByte
  PROVE  Underway(M)'
<1>1. /\ j <= Len(out)
      /\ IF form = "perm" THEN Restore(<<InvertPerm(dict[1])[out[j] + 1]>>, j + 1)
         ELSE /\ out[j] \notin {ESC} \cup Marks
              /\ form = "hoist" => out[j] \notin DOMAIN DICT
              /\ Restore(<<out[j]>>, j + 1)
  BY DEF UnwrapByte
<1>2. PICK m2 \in M :
           /\ \/ HopByte(Layer, out, m, m2) \/ HopEscaped(Layer, out, m, m2)
              \/ HopString(Layer, out, m, m2) \/ HopCased(Layer, out, m, m2)
              \/ HopStem(Layer, out, m, m2) \/ HopPerm(Layer, out, m, m2)
           /\ m2.at \in 0 .. Len(out) /\ m.at \in 0 .. Len(out) /\ out[j] = out[m.at + 1]
  BY <1>1, HopHere
<1>3. PICK n \in Nat : n = 1
  OBVIOUS
<1>4. CASE form = "perm"
  <2>1. HopPerm(Layer, out, m, m2)
    BY <1>2, <1>4, LayerIs DEF HopByte, HopEscaped, HopString, HopCased, HopCasedAs, HopStem, HopStemAs
  <2>2. Gives(Layer, m, m2, 1, <<InvertPerm(vocab[1])[out[m.at + 1] + 1]>>)
    BY <2>1, LayerIs DEF HopPerm
  <2>3. dict = vocab
    BY DEF Receiving, Unwrapping
  <2>4. Restore(<<InvertPerm(vocab[1])[out[m.at + 1] + 1]>>, j + 1)
    BY <1>1, <1>2, <1>4, <2>3
  <2> QED
    BY <1>3, <2>2, <2>4, RestoreKeeps
<1>5. CASE form # "perm"
  <2>1. out[j] # ESC /\ out[j] \notin Marks /\ (form = "hoist" => out[j] \notin DOMAIN DICT)
    BY <1>1, <1>5
  <2>2. ~HopEscaped(Layer, out, m, m2) /\ ~HopString(Layer, out, m, m2) /\ ~HopPerm(Layer, out, m, m2)
    BY <1>2, <1>5, <2>1, LayerIs DEF HopEscaped, HopString, HopPerm
  <2>3. ~HopCased(Layer, out, m, m2) /\ ~HopStem(Layer, out, m, m2)
    BY <1>2, <2>1, LayerIs, MarksOf DEF HopCased, HopCasedAs, HopStem, HopStemAs
  <2>4. Gives(Layer, m, m2, 1, <<out[m.at + 1]>>)
    BY <1>2, <2>2, <2>3 DEF HopByte
  <2>5. Restore(<<out[m.at + 1]>>, j + 1)
    BY <1>1, <1>2, <1>5
  <2> QED
    BY <1>3, <2>4, <2>5, RestoreKeeps
<1> QED
  BY <1>4, <1>5

\* Behind a code of n bytes and the word w, the run of letters ends at m2.
LEMMA WordRead ==
  ASSUME NEW M, NEW m, Receiving(M, m), form \in Worded, NEW m2 \in M, WordEnds(Layer, m2),
         NEW S, S \subseteq Letters, NEW w \in Seq(S), NEW n \in Nat, n > 0,
         Written(out, m.at + n, w), m2.at = m.at + (n + Len(w))
  PROVE  RunEnd(out, j + n, S) = j + (n + Len(w)) /\ SubSeq(out, j + n, RunEnd(out, j + n, S) - 1) = w
<1>1. PICK f \in Nat, y \in Nat, z \in Nat, e \in Nat :
         /\ f = m.at + n /\ y = Len(w) /\ z = Len(out) /\ e = f + y + 1
         /\ m2.at = f + y /\ f + y <= z /\ j \in Nat
         /\ j + n = f + 1 /\ j + (n + y) = e /\ e - 1 = f + y
  <2>1. m.at \in 0 .. Len(out) /\ m2.at \in 0 .. Len(out) /\ Len(out) \in Nat /\ j = m.at + 1
    BY ReceivingFacts DEF Receiving
  <2>2. PICK a \in Nat, y \in Nat, z \in Nat : a = m.at /\ y = Len(w) /\ z = Len(out)
    BY <2>1
  <2>3. PICK f \in Nat, e \in Nat : f = a + n /\ e = f + y + 1
    OBVIOUS
  <2>4. m2.at = f + y /\ f + y <= z
    <3>1. m2.at = a + (n + y) /\ m2.at \in 0 .. z
      BY <2>1, <2>2
    <3> QED
      BY <2>3, <3>1
  <2>5. j + n = f + 1 /\ j + (n + y) = e /\ e - 1 = f + y /\ j \in Nat
    <3>1. j = a + 1
      BY <2>1, <2>2
    <3> QED
      BY <2>3, <3>1
  <2> QED
    BY <2>2, <2>3, <2>4, <2>5
<1>2. ASSUME NEW x \in 1 .. y PROVE out[f + x] = w[x] /\ w[x] \in S
  <2>1. w[x] \in S
    BY <1>1, ElementOfSeq
  <2> QED
    BY <1>1, <2>1 DEF Written
<1>3. ASSUME NEW k \in f + 1 .. e - 1 PROVE out[k] \in S
  <2>1. PICK x \in 1 .. y : k = f + x
    <3>1. k \in f + 1 .. f + y
      BY <1>1
    <3>2. k - f \in 1 .. y /\ k = f + (k - f)
      BY <3>1
    <3> QED
      BY <3>2
  <2> QED
    BY <1>2, <2>1
<1>4. e = z + 1 \/ out[e] \notin S
  <2>1. Layer.text \in Seq(Bytes) /\ Layer.form \in Worded /\ Course(Layer, out, M)
    BY LayerIs, ReceivingFacts
  <2>2. m2.at = Len(out) \/ out[m2.at + 1] \notin Letters
    BY <2>1, NoLetterFollows
  <2>3. e = m2.at + 1
    BY <1>1
  <2> QED
    BY <1>1, <2>2, <2>3
<1>5. RunEnd(out, f + 1, S) = e
  <2>1. PICK p \in Nat : p = f + 1
    OBVIOUS
  <2>2. e \in p .. z + 1
    <3>1. e = f + y + 1 /\ f + y <= z
      BY <1>1
    <3> QED
      BY <2>1, <3>1
  <2>3. e \in p .. Len(out) + 1 /\ Len(out) \in Nat /\ (e = Len(out) + 1 \/ out[e] \notin S)
    BY <1>1, <1>4, <2>2
  <2>4. \A k \in p .. e - 1 : out[k] \in S
    BY <1>3, <2>1
  <2> QED
    BY <2>1, <2>3, <2>4, RunEndIs
<1>6. SubSeq(out, f + 1, f + y) = w
  <2>1. w \in Seq(Bytes)
    <3>1. S \subseteq Bytes
      BY LettersAre
    <3> QED
      BY <3>1, SeqMonotonic
  <2>2. out \in Seq(Bytes) /\ f + Len(w) <= Len(out) /\ \A x \in 1 .. Len(w) : out[f + x] = w[x]
    BY <1>1, <1>2, ReceivingFacts
  <2>3. SubSeq(out, f + 1, f + Len(w)) = w
    BY <2>1, <2>2, Cutting
  <2> QED
    BY <1>1, <2>3
<1>7. RunEnd(out, j + n, S) = e
  BY <1>1, <1>5
<1> QED
  BY <1>1, <1>6, <1>7

LEMMA UnwrapCasedKeeps ==
  ASSUME NEW M, NEW m, Receiving(M, m), form \in LayerForms, UnwrapCased
  PROVE  Underway(M)'
<1>1. PICK S, ends, w :
         /\ S = CaseRun(form, out[j]) /\ ends = RunEnd(out, j + 1, S) /\ w = SubSeq(out, j + 1, ends - 1)
         /\ form \in {"case", "markonly"} /\ j <= Len(out) /\ out[j] \in Marks
         /\ Restore(CaseWord(form, out[j], w), ends)
  BY DEF UnwrapCased, CaseRun, CaseWord
<1>2. PICK m2 \in M :
           /\ \/ HopByte(Layer, out, m, m2) \/ HopEscaped(Layer, out, m, m2)
              \/ HopString(Layer, out, m, m2) \/ HopCased(Layer, out, m, m2)
              \/ HopStem(Layer, out, m, m2) \/ HopPerm(Layer, out, m, m2)
           /\ m2.at \in 0 .. Len(out) /\ m.at \in 0 .. Len(out) /\ out[j] = out[m.at + 1]
  BY <1>1, HopHere
<1>3. out[m.at + 1] \in {CASE_TITLE, CASE_UPPER, CASE_MIXED}
  BY <1>1, <1>2, MarksOf
<1>4. HopCased(Layer, out, m, m2)
  <2>1. ~HopByte(Layer, out, m, m2) /\ ~HopEscaped(Layer, out, m, m2)
    BY <1>1, <1>3, MarksAre, LayerIs DEF HopByte, Ordinary, HopEscaped
  <2>2. ~HopString(Layer, out, m, m2) /\ ~HopStem(Layer, out, m, m2) /\ ~HopPerm(Layer, out, m, m2)
    BY <1>1, LayerIs DEF HopString, HopStem, HopStemAs, HopPerm
  <2> QED
    BY <1>2, <2>1, <2>2
<1>5. PICK v \in Seq(Letters) : HopCasedAs(Layer, out, m, m2, v)
  BY <1>4 DEF HopCased
<1>6. /\ v \in Seq(S) /\ Written(out, m.at + 1, v) /\ WordEnds(Layer, m2)
      /\ Gives(Layer, m, m2, 1 + Len(v), CaseWord(form, out[j], v))
  BY <1>1, <1>2, <1>5, LayerIs DEF HopCasedAs
<1>7. S \subseteq Letters /\ form \in Worded
  BY <1>1, CapitalAssumption DEF CaseRun, Worded
<1>8. PICK n \in Nat : n = 1
  OBVIOUS
<1>9. m2.at = m.at + (n + Len(v))
  BY <1>6, <1>8 DEF Gives
<1>10. RunEnd(out, j + n, S) = j + (n + Len(v)) /\ SubSeq(out, j + n, RunEnd(out, j + n, S) - 1) = v
  BY <1>6, <1>7, <1>8, <1>9, WordRead
<1>11. ends = j + (n + Len(v)) /\ w = v
  <2>1. ends = RunEnd(out, j + n, S) /\ w = SubSeq(out, j + n, ends - 1)
    BY <1>1, <1>8, Zenon
  <2> QED
    BY <1>10, <2>1, Zenon
<1>12. PICK k \in Nat : k = n + Len(v)
  <2>1. Len(v) \in Nat
    OBVIOUS
  <2> QED
    BY <2>1
<1>13. Gives(Layer, m, m2, k, CaseWord(form, out[j], v)) /\ Restore(CaseWord(form, out[j], v), j + k)
  BY <1>1, <1>6, <1>8, <1>11, <1>12
<1> QED
  BY <1>13, RestoreKeeps

LEMMA UnwrapStemKeeps ==
  ASSUME NEW M, NEW m, Receiving(M, m), form \in LayerForms, UnwrapStem
  PROVE  Underway(M)'
<1>1. form = "stem" /\ j <= Len(out) /\ out[j] = STEM_MARK
  BY DEF UnwrapStem
<1>2. PICK m2 \in M :
           /\ \/ HopByte(Layer, out, m, m2) \/ HopEscaped(Layer, out, m, m2)
              \/ HopString(Layer, out, m, m2) \/ HopCased(Layer, out, m, m2)
              \/ HopStem(Layer, out, m, m2) \/ HopPerm(Layer, out, m, m2)
           /\ m2.at \in 0 .. Len(out) /\ m.at \in 0 .. Len(out) /\ out[j] = out[m.at + 1]
  BY <1>1, HopHere
<1>3. HopStem(Layer, out, m, m2)
  <2>1. ~HopByte(Layer, out, m, m2) /\ ~HopEscaped(Layer, out, m, m2)
    BY <1>1, <1>2, MarksAre, LayerIs DEF HopByte, Ordinary, HopEscaped
  <2>2. ~HopString(Layer, out, m, m2) /\ ~HopCased(Layer, out, m, m2) /\ ~HopPerm(Layer, out, m, m2)
    BY <1>1, LayerIs DEF HopString, HopCased, HopCasedAs, HopPerm
  <2> QED
    BY <1>2, <2>1, <2>2
<1>4. PICK v \in Seq(Letters) : HopStemAs(Layer, out, m, m2, v)
  BY <1>3 DEF HopStem
<1>5. /\ Written(out, m.at + 2, v) /\ WordEnds(Layer, m2) /\ out[m.at + 2] + 1 \in DOMAIN SUFFIXES
      /\ Gives(Layer, m, m2, 2 + Len(v), v \o SUFFIXES[out[m.at + 2] + 1])
  BY <1>4 DEF HopStemAs
<1>6. PICK n \in Nat, k \in Nat, z \in Nat : n = 2 /\ k = n + Len(v) /\ z = Len(out) /\ k >= 2
  <2>1. Len(v) \in Nat /\ Len(out) \in Nat
    BY ReceivingFacts
  <2> QED
    BY <2>1
<1>7. m2.at = m.at + (n + Len(v)) /\ m2.at = m.at + k
  BY <1>5, <1>6 DEF Gives
<1>8. j < Len(out) /\ j + 1 = m.at + 2
  <2>1. j = m.at + 1
    BY ReceivingFacts
  <2>2. m2.at \in 0 .. z /\ m.at \in 0 .. z
    BY <1>2, <1>6
  <2>3. m.at + 1 < z /\ (m.at + 1) + 1 = m.at + 2
    BY <1>6, <1>7, <2>2
  <2> QED
    BY <1>6, <2>1, <2>3
<1>9. Restore(SubSeq(out, j + 2, RunEnd(out, j + 2, Letters) - 1) \o SUFFIXES[out[m.at + 2] + 1],
              RunEnd(out, j + 2, Letters))
  <2>1. j # Len(out)
    <3>1. Len(out) \in Nat /\ j \in Int
      BY <1>2, ReceivingFacts
    <3> QED
      BY <1>8, <3>1
  <2> QED
    BY <1>5, <1>8, <2>1 DEF UnwrapStem
<1>10. RunEnd(out, j + n, Letters) = j + (n + Len(v)) /\ SubSeq(out, j + n, RunEnd(out, j + n, Letters) - 1) = v
  BY <1>1, <1>5, <1>6, <1>7, WordRead DEF Worded
<1>11. Restore(v \o SUFFIXES[out[m.at + 2] + 1], j + k)
  <2>1. RunEnd(out, j + 2, Letters) = j + k
    BY <1>6, <1>10, Zenon
  <2>2. SubSeq(out, j + 2, RunEnd(out, j + 2, Letters) - 1) = v
    BY <1>6, <1>10, Zenon
  <2> QED
    BY <1>9, <2>1, <2>2, Zenon
<1>12. Gives(Layer, m, m2, k, v \o SUFFIXES[out[m.at + 2] + 1])
  BY <1>5, <1>6
<1> QED
  BY <1>11, <1>12, RestoreKeeps

\* At the end of the stream all of the text is back.
LEMMA UnwrapEndKeeps ==
  ASSUME NEW M, NEW m, Receiving(M, m), UnwrapEnd
  PROVE  Underway(M)'
<1>1. /\ j > Len(out) /\ stage' = "done"
      /\ UNCHANGED <<form, mode, text, vocab, blocked, i, out, list, defined, trail, units, left, dict, dlist, back>>
  BY DEF UnwrapEnd, DecodeTo, job, enc
<1>2. Layer' = Layer /\ (LayerOK' <=> LayerOK) /\ (Noted(M)' <=> Noted(M))
  BY <1>1 DEF Layer, LayerOK, Noted
<1>3. PICK e \in M : e = Spot(Len(out), Len(text))
  BY DEF Receiving, Unwrapping
<1>4. m \in M /\ m.at = e.at
  <2>1. m.at \in 0 .. Len(out) /\ Len(out) \in Nat /\ j = m.at + 1
    BY ReceivingFacts DEF Receiving
  <2> QED
    BY <1>1, <1>3, <2>1 DEF Receiving, Spot
<1>5. m = e
  BY <1>4, ReceivingFacts DEF Course
<1>6. back = SubSeq(text, 1, Len(text))
  BY <1>3, <1>5, ReceivingFacts DEF Spot
<1>7. back' = text'
  BY <1>1, <1>6, ReceivingFacts, SubSeqFull
<1> QED
  BY <1>1, <1>2, <1>7 DEF Receiving, Underway

-----------------------------------------------------------------------------
(* The permutation by frequency is one.                                    *)

\* How often b occurs in s, and which of two bytes gets the smaller code.
Occurs(s, b)    == Cardinality({k \in DOMAIN s : s[k] = b})
Sooner(s, a, b) == Occurs(s, a) > Occurs(s, b) \/ (Occurs(s, a) = Occurs(s, b) /\ a < b)

\* The bytes with smaller codes than a's.
Ahead(s, a) == {b \in 0 .. N - 1 : Sooner(s, b, a)}

LEMMA FrequencyOK ==
  ASSUME NEW s \in Seq(Bytes)
  PROVE  FrequencyPerm(s) \in [1 .. N -> 0 .. N - 1] /\ IsInjective(FrequencyPerm(s))
<1>1. PICK p : p = FrequencyPerm(s) /\ p = [k \in 1 .. N |-> Cardinality(Ahead(s, k - 1))]
  BY DEF FrequencyPerm, Ahead, Sooner, Occurs
<1>2. IsFiniteSet(0 .. N - 1) /\ Cardinality(0 .. N - 1) = N
  <2>1. IsFiniteSet(0 .. N - 1) /\ Cardinality(0 .. N - 1) = IF 0 > N - 1 THEN 0 ELSE (N - 1) - 0 + 1
    BY NAssumption, FS_Interval
  <2>2. (IF 0 > N - 1 THEN 0 ELSE (N - 1) - 0 + 1) = N
    BY NAssumption
  <2> QED
    BY <2>1, <2>2
<1>3. ASSUME NEW b PROVE Occurs(s, b) \in Nat
  <2>1. PICK n \in Nat : DOMAIN s = 1 .. n
    OBVIOUS
  <2>2. IsFiniteSet(1 .. n)
    BY FS_Interval
  <2>3. PICK P : P = {k \in DOMAIN s : s[k] = b}
    OBVIOUS
  <2>4. IsFiniteSet(P)
    BY <2>1, <2>2, <2>3, FS_Subset
  <2> QED
    BY <2>3, <2>4, FS_CardinalityType DEF Occurs
<1>4. ASSUME NEW a \in 0 .. N - 1, NEW b \in 0 .. N - 1, NEW c \in 0 .. N - 1
      PROVE  /\ ~Sooner(s, a, a)
             /\ a # b => Sooner(s, a, b) \/ Sooner(s, b, a)
             /\ Sooner(s, a, b) /\ Sooner(s, b, c) => Sooner(s, a, c)
  <2>1. PICK x \in Nat, y \in Nat, z \in Nat : x = Occurs(s, a) /\ y = Occurs(s, b) /\ z = Occurs(s, c)
    BY <1>3
  <2>2. a \in Nat /\ b \in Nat /\ c \in Nat
    OBVIOUS
  <2> QED
    BY <2>1, <2>2 DEF Sooner
<1>5. ASSUME NEW a \in 0 .. N - 1
      PROVE  Ahead(s, a) \subseteq 0 .. N - 1 /\ a \notin Ahead(s, a) /\ IsFiniteSet(Ahead(s, a)) /\ Cardinality(Ahead(s, a)) \in 0 .. N - 1
  <2>1. PICK P : P = Ahead(s, a)
    OBVIOUS
  <2>2. P \subseteq 0 .. N - 1 /\ a \notin P
    BY <1>4, <2>1 DEF Ahead
  <2>3. IsFiniteSet(P) /\ Cardinality(P) <= N /\ (N = Cardinality(P) => 0 .. N - 1 = P)
    <3>1. PICK B : B = 0 .. N - 1
      OBVIOUS
    <3>2. IsFiniteSet(B) /\ Cardinality(B) = N /\ P \subseteq B
      BY <1>2, <2>2, <3>1
    <3>3. IsFiniteSet(P) /\ Cardinality(P) <= Cardinality(B) /\ (Cardinality(B) = Cardinality(P) => B = P)
      BY <3>2, FS_Subset
    <3> QED
      BY <3>1, <3>2, <3>3
  <2>4. Cardinality(P) \in Nat /\ Cardinality(P) # N
    BY <2>2, <2>3, FS_CardinalityType
  <2>5. Cardinality(P) \in 0 .. N - 1
    BY <2>3, <2>4, NAssumption
  <2> QED
    BY <2>1, <2>2, <2>3, <2>5
<1>6. ASSUME NEW a \in 0 .. N - 1, NEW b \in 0 .. N - 1, Sooner(s, a, b)
      PROVE  Cardinality(Ahead(s, a)) < Cardinality(Ahead(s, b))
  <2>1. PICK P, Q : P = Ahead(s, a) /\ Q = Ahead(s, b)
    OBVIOUS
  <2>2. P \subseteq Q /\ a \in Q /\ a \notin P
    BY <1>4, <1>6, <2>1 DEF Ahead
  <2>3. IsFiniteSet(Q) /\ Cardinality(P) \in Nat /\ Cardinality(Q) \in Nat
    <3>1. IsFiniteSet(P) /\ IsFiniteSet(Q)
      BY <1>5, <2>1
    <3> QED
      BY <3>1, FS_CardinalityType
  <2>4. Cardinality(P) <= Cardinality(Q) /\ (Cardinality(Q) = Cardinality(P) => Q = P)
    BY <2>2, <2>3, FS_Subset
  <2> QED
    BY <2>1, <2>2, <2>3, <2>4
<1>7. ASSUME NEW k \in 1 .. N, NEW l \in 1 .. N, p[k] = p[l] PROVE k = l
  <2>1. PICK a \in 0 .. N - 1, b \in 0 .. N - 1 : a = k - 1 /\ b = l - 1
    BY NAssumption
  <2>2. p[k] = Cardinality(Ahead(s, a)) /\ p[l] = Cardinality(Ahead(s, b))
    BY <1>1, <2>1
  <2>3. Cardinality(Ahead(s, a)) \in Nat /\ Cardinality(Ahead(s, b)) \in Nat
    <3>1. Cardinality(Ahead(s, a)) \in 0 .. N - 1 /\ Cardinality(Ahead(s, b)) \in 0 .. N - 1
      BY <1>5
    <3> QED
      BY <3>1
  <2>4. ~Sooner(s, a, b) /\ ~Sooner(s, b, a)
    <3>1. PICK x \in Nat : x = Cardinality(Ahead(s, a)) /\ x = Cardinality(Ahead(s, b))
      BY <1>7, <2>2, <2>3
    <3>2. ~(x < x)
      OBVIOUS
    <3> QED
      BY <1>6, <3>1, <3>2
  <2>5. a = b
    BY <1>4, <2>4
  <2> QED
    BY <2>1, <2>5
<1>8. p \in [1 .. N -> 0 .. N - 1]
  <2>1. \A k \in 1 .. N : Cardinality(Ahead(s, k - 1)) \in 0 .. N - 1
    <3> TAKE k \in 1 .. N
    <3>1. k - 1 \in 0 .. N - 1
      BY NAssumption
    <3> QED
      BY <1>5, <3>1
  <2> QED
    BY <1>1, <2>1
<1>9. IsInjective(p)
  BY <1>7, <1>8 DEF IsInjective
<1> QED
  BY <1>1, <1>8, <1>9

-----------------------------------------------------------------------------
(* The layers' invariant.                                                  *)

LEMMA LayerInitReturns == LayerInit => Returns
<1> SUFFICES ASSUME LayerInit PROVE Returns
  OBVIOUS
<1>1. CASE stage = "unwrap"
  <2>1. trail = {}
    BY <1>1 DEF LayerInit
  <2> QED
    BY <1>1, <2>1 DEF Returns
<1>2. CASE stage # "unwrap"
  <2>1. /\ stage = "wrap" /\ form \in LayerForms /\ text \in LayerTexts[form]
        /\ vocab \in IF form = "perm" THEN {<<FrequencyPerm(text)>>, <<Shuffle>>} ELSE {<<>>}
        /\ out = <<>> /\ trail = {[at |-> 0, read |-> 0, order |-> <<>>, defined |-> {}]}
        /\ list = NewList(0) /\ dlist = NewList(0) /\ i = 1 /\ j = 1 /\ back = <<>>
    BY <1>2 DEF LayerInit, Start
  <2>2. text \in Seq(Bytes) /\ Len(text) \in Nat
    <3>1. text \in Seq(0 .. N - 1)
      BY <2>1, LayerFormsAssumption
    <3> QED
      BY <3>1 DEF Bytes
  <2>3. LayerOK
    <3>1. ASSUME form = "perm" PROVE vocab[1] \in [1 .. N -> 0 .. N - 1] /\ IsInjective(vocab[1])
      <4>1. PICK p : vocab = <<p>> /\ (p = FrequencyPerm(text) \/ p = Shuffle)
        BY <2>1, <3>1
      <4>2. p \in [1 .. N -> 0 .. N - 1] /\ IsInjective(p)
        BY <2>2, <4>1, FrequencyOK, ShuffleAssumption
      <4>3. vocab[1] = p
        BY <4>1
      <4> QED
        BY <4>2, <4>3
    <3> QED
      BY <2>2, <3>1 DEF LayerOK
  <2>4. PICK M : M = {Spot(0, 0)}
    OBVIOUS
  <2>5. Len(out) = 0 /\ out \in Seq(Bytes)
    BY <2>1
  <2>6. Course(Layer, out, M)
    <3>1. ASSUME NEW m \in M PROVE m.at = 0 /\ m.read = 0 /\ m = Spot(0, 0)
      BY <2>4 DEF Spot
    <3>2. \A m \in M : SpotOK(Layer, m, Len(out))
      BY <2>2, <2>5, <3>1, LayerIs DEF SpotOK
    <3>3. \A m \in M : ~(m.at < Len(out))
      BY <2>5, <3>1
    <3>4. \A m, m2 \in M : m = m2
      BY <2>4
    <3> QED
      BY <2>5, <3>2, <3>3, <3>4 DEF Course
  <2>7. NewList(0).order = <<>>
    BY DEF NewList
  <2>8. Noted(M)
    <3>1. PICK m \in M : m.at = 0 /\ m.read = 0
      BY <2>4 DEF Spot
    <3>2. ASSUME NEW t \in trail PROVE t.order = NewList(0).order /\ t.at = m.at /\ t.read = m.read
      BY <2>1, <2>7, <3>1, <3>2
    <3> QED
      BY <3>2 DEF Noted
  <2>9. Wrapping(M)
    <3>1. i \in 1 .. Len(text) + 1 /\ i - 1 = 0
      BY <2>1, <2>2
    <3> QED
      BY <2>1, <2>4, <2>5, <3>1 DEF Wrapping
  <2>10. Underway(M)
    BY <2>1, <2>3, <2>6, <2>8, <2>9 DEF Underway
  <2> QED
    BY <2>1, <2>10 DEF Returns
<1> QED
  BY <1>1, <1>2

\* A codec's form never changes.
LEMMA FormKept == [TransformNext]_vars => form' = form
<1>1. Next => form' = form
  BY DEF Next, EncodeWord, EncodeByte, EncodeEnd, Emit, ReadCount, ReadEntry, EndHeader, DecodeByte, DecodeNul,
         DecodeId, DecodeDefinition, DecodeUnit, DecodeExtended, DecodeAffix, DecodeEnd, DecodeTo, job
<1>2. LayerNext => form' = form
  BY DEF LayerNext, WrapWord, WrapString, WrapByte, WrapEnd, UnwrapEscaped, UnwrapString, UnwrapCased, UnwrapStem,
         UnwrapByte, UnwrapEnd, Emit, Restore, DecodeTo, job
<1>3. Round \/ OneShot \/ EndInduction \/ WriteRules \/ WriteSymbol \/ Factor \/ EndWrite \/ Cut => form' = form
  <2>1. Round => form' = form
    BY DEF Round, Induces
  <2>2. OneShot => form' = form
    BY DEF OneShot, Induces
  <2>3. Factor => form' = form
    BY DEF Factor
  <2>4. EndInduction \/ WriteRules \/ WriteSymbol => form' = form
    BY DEF EndInduction, WriteRules, WriteSymbol, job
  <2>5. EndWrite \/ Cut => form' = form
    BY DEF EndWrite, Cut, job
  <2> QED
    BY <2>1, <2>2, <2>3, <2>4, <2>5
<1>4. \/ ReadRuleCount \/ ReadRule \/ ReadFlag \/ ReadRank \/ ReadDefinition \/ ReadSymbol \/ EndBody
      \/ Expand \/ ReadFactor \/ EndDecode
      => form' = form
  BY DEF ReadRuleCount, ReadRule, ReadFlag, ReadRank, ReadDefinition, ReadSymbol, EndBody, Expand, ReadFactor,
         EndDecode, Decoding, job
<1>5. UNCHANGED vars => form' = form
  BY DEF vars, job
<1> QED
  BY <1>1, <1>2, <1>3, <1>4, <1>5 DEF TransformNext, GrammarNext

\* Where a layer is, no other codec takes a step.
LEMMA LayersAlone ==
  ASSUME stage \in {"wrap", "unwrap", "done"}
  PROVE  ~Next /\ ~GrammarNext
<1>1. ~Next
  BY DEF Next, EncodeWord, EncodeByte, EncodeEnd, ReadCount, ReadEntry, EndHeader, DecodeByte, DecodeNul,
         DecodeId, DecodeDefinition, DecodeUnit, DecodeExtended, DecodeAffix, DecodeEnd, MarkedCode
<1>2. ~(Round \/ OneShot \/ EndInduction \/ WriteRules \/ WriteSymbol \/ Factor \/ EndWrite \/ Cut)
  BY DEF Round, OneShot, EndInduction, WriteRules, WriteSymbol, Factor, EndWrite, Cut, Induction
<1>3. ~(\/ ReadRuleCount \/ ReadRule \/ ReadFlag \/ ReadRank \/ ReadDefinition \/ ReadSymbol \/ EndBody
        \/ Expand \/ ReadFactor \/ EndDecode)
  BY DEF ReadRuleCount, ReadRule, ReadFlag, ReadRank, ReadDefinition, ReadSymbol, EndBody, Expand, ReadFactor,
         EndDecode
<1> QED
  BY <1>1, <1>2, <1>3 DEF GrammarNext

\* The stages of a layer, and its history.
LEMMA LayerStages ==
  ASSUME LayerNext
  PROVE  /\ stage' \in {"wrap", "unwrap", "done"}
         /\ stage' = "wrap" => stage = "wrap" /\ trail \subseteq trail'
         /\ stage = "wrap" \/ trail' = trail
<1>1. WrapWord \/ WrapString \/ WrapByte \/ WrapEnd => stage = "wrap" /\ stage' \in {"wrap", "unwrap"}
  BY DEF WrapWord, WrapString, WrapByte, WrapEnd, Emit
<1>2. WrapWord \/ WrapString \/ WrapByte => trail \subseteq trail'
  BY DEF WrapWord, WrapString, WrapByte, Emit
<1>3. WrapEnd => stage' = "unwrap"
  BY DEF WrapEnd
<1>4. \/ UnwrapEscaped \/ UnwrapString \/ UnwrapCased \/ UnwrapStem \/ UnwrapByte \/ UnwrapEnd
      => trail' = trail /\ stage' \in {"unwrap", "done"}
  BY DEF UnwrapEscaped, UnwrapString, UnwrapCased, UnwrapStem, UnwrapByte, UnwrapEnd, Restore, DecodeTo
<1> QED
  BY <1>1, <1>2, <1>3, <1>4 DEF LayerNext

\* Every step of a layer keeps a text on its way.
LEMMA LayerStep ==
  ASSUME NEW M, Underway(M), form \in LayerForms, LayerNext
  PROVE  \E M2 : Underway(M2)'
<1>1. CASE WrapWord \/ WrapString \/ WrapByte
  BY <1>1, WrapWordKeeps, WrapStringKeeps, WrapByteKeeps
<1>2. CASE WrapEnd
  <2>1. Underway(M)'
    BY <1>2, WrapEndKeeps
  <2> QED
    BY <2>1
<1>3. CASE UnwrapEscaped \/ UnwrapString \/ UnwrapCased \/ UnwrapStem \/ UnwrapByte \/ UnwrapEnd
  <2>1. stage = "unwrap"
    BY <1>3 DEF UnwrapEscaped, UnwrapString, UnwrapCased, UnwrapStem, UnwrapByte, UnwrapEnd
  <2>2. Unwrapping(M)
    BY <2>1 DEF Underway, Wrapping
  <2>3. PICK m \in M : Met(m)
    BY <2>2 DEF Unwrapping
  <2>4. Receiving(M, m)
    BY <2>2, <2>3 DEF Receiving
  <2>5. Underway(M)'
    BY <1>3, <2>4, UnwrapEscapedKeeps, UnwrapStringKeeps, UnwrapCasedKeeps, UnwrapStemKeeps, UnwrapByteKeeps,
       UnwrapEndKeeps
  <2> QED
    BY <2>5
<1> QED
  BY <1>1, <1>2, <1>3 DEF LayerNext

LEMMA StepReturns == Returns /\ [TransformNext]_vars => Returns'
<1> SUFFICES ASSUME Returns, [TransformNext]_vars, form' \in LayerForms PROVE Returns'
  BY DEF Returns
<1>1. form \in LayerForms
  BY FormKept
<1>2. stage \in {"wrap", "unwrap", "done"} /\ (stage = "wrap" => trail # {})
  BY <1>1 DEF Returns
<1>3. CASE LayerNext
  <2>1. /\ stage' \in {"wrap", "unwrap", "done"}
        /\ stage' = "wrap" => stage = "wrap" /\ trail \subseteq trail'
        /\ stage = "wrap" \/ trail' = trail
    BY <1>3, LayerStages
  <2>2. ASSUME trail' # {} PROVE \E M : Underway(M)'
    <3>1. trail # {}
      BY <1>2, <2>1, <2>2
    <3>2. PICK M : Underway(M)
      BY <1>1, <3>1 DEF Returns
    <3> QED
      BY <1>1, <1>3, <3>2, LayerStep
  <2>3. stage' = "wrap" => trail' # {}
    BY <1>2, <2>1
  <2> QED
    BY <2>1, <2>2, <2>3 DEF Returns
<1>4. CASE UNCHANGED vars
  <2>1. UNCHANGED <<stage, text, vocab, form, i, out, list, j, dict, dlist, back, trail>>
    BY <1>4 DEF vars, job, enc
  <2>2. Layer' = Layer /\ (LayerOK' <=> LayerOK)
    BY <2>1 DEF Layer, LayerOK
  <2>3. ASSUME NEW M, Underway(M) PROVE Underway(M)'
    <3>1. (Noted(M)' <=> Noted(M)) /\ (Wrapping(M)' <=> Wrapping(M)) /\ \A m : Met(m)' <=> Met(m)
      BY <2>1 DEF Noted, Wrapping, Met
    <3>2. Unwrapping(M)' <=> Unwrapping(M)
      BY <2>1, <3>1 DEF Unwrapping
    <3> QED
      BY <2>1, <2>2, <2>3, <3>1, <3>2 DEF Underway
  <2> QED
    BY <2>1, <2>3 DEF Returns
<1> QED
  BY <1>2, <1>3, <1>4, LayersAlone DEF TransformNext

LEMMA InitReturns == TransformInit => Returns
<1>1. Init => Returns
  <2>1. Init => form \in Forms
    BY DEF Init, EncodeInit, StreamInit
  <2> QED
    BY <2>1, FormsAssumption, LayerFormsAssumption DEF Returns
<1>2. GrammarInit => Returns
  <2>1. GrammarInit => form \in GrammarForms
    BY DEF GrammarInit
  <2> QED
    BY <2>1, GrammarFormsAssumption, LayerFormsAssumption DEF Returns
<1> QED
  BY <1>1, <1>2, LayerInitReturns DEF TransformInit

LEMMA ReturnsText == Returns => (form \in LayerForms => TextRestored)
<1> SUFFICES ASSUME Returns, form \in LayerForms, stage = "done", trail # {} PROVE back = text
  BY DEF TextRestored
<1>1. PICK M : Underway(M)
  BY DEF Returns
<1> QED
  BY <1>1 DEF Underway, Wrapping, Unwrapping

LEMMA ReturnsLockstep == Returns => (form \in LayerForms => Lockstep)
<1> SUFFICES ASSUME Returns, form \in LayerForms, stage \in {"body", "unwrap"}, NEW t \in trail, t.at = j - 1
             PROVE  /\ back = SubSeq(text, 1, t.read)
                    /\ form = "firstuse" => {k \in DOMAIN dict : dict[k] # <<>>} = t.defined
                    /\ form # "firstuse" => dict = vocab /\ dlist.order = t.order
  BY DEF Lockstep
<1>1. PICK M : Underway(M)
  BY DEF Returns
<1>2. Unwrapping(M)
  BY <1>1 DEF Returns, Underway, Wrapping
<1>3. PICK m \in M : Met(m)
  BY <1>2 DEF Unwrapping
<1>4. Receiving(M, m)
  BY <1>1, <1>2, <1>3 DEF Receiving
<1>5. PICK m2 \in M : t.at = m2.at /\ t.read = m2.read /\ t.order = NewList(0).order
  BY <1>1 DEF Underway, Noted
<1>6. m2 = m
  <2>1. m.at \in 0 .. Len(out) /\ m2.at \in 0 .. Len(out) /\ Len(out) \in Nat /\ j = m.at + 1
    BY <1>3, <1>4, <1>5, ReceivingFacts
  <2>2. m.at = m2.at
    BY <1>5, <2>1
  <2> QED
    BY <1>3, <1>4, <1>5, <2>2, ReceivingFacts DEF Course
<1>7. back = SubSeq(text, 1, t.read)
  BY <1>3, <1>5, <1>6 DEF Met
<1>8. dict = vocab /\ dlist.order = t.order
  BY <1>1, <1>2, <1>5 DEF Underway, Unwrapping
<1>9. form # "firstuse"
  BY LayerFormsAssumption
<1> QED
  BY <1>7, <1>8, <1>9

\* Where a word-token codec is, no other codec takes a step.
LEMMA TokensAlone ==
  ASSUME form \in Forms, stage \in {"encode", "count", "header", "body", "done"}
  PROVE  ~LayerNext /\ ~GrammarNext
<1>1. ~LayerNext
  BY DEF LayerNext, WrapWord, WrapString, WrapByte, WrapEnd, UnwrapEscaped, UnwrapString, UnwrapCased, UnwrapStem,
         UnwrapByte, UnwrapEnd
<1>2. ~(Round \/ OneShot \/ EndInduction \/ WriteRules \/ WriteSymbol \/ Factor \/ EndWrite \/ Cut)
  BY DEF Round, OneShot, EndInduction, WriteRules, WriteSymbol, Factor, EndWrite, Cut, Induction
<1>3. ~(\/ ReadRuleCount \/ ReadRule \/ ReadFlag \/ ReadRank \/ ReadDefinition \/ ReadSymbol \/ EndBody
        \/ Expand \/ ReadFactor \/ EndDecode)
  BY DEF ReadRuleCount, ReadRule, ReadFlag, ReadRank, ReadDefinition, ReadSymbol, EndBody, Expand, ReadFactor,
         EndDecode
<1> QED
  BY <1>1, <1>2, <1>3 DEF GrammarNext

LEMMA InitTokens == TransformInit => TokensRestore
<1>1. Init => stage \in {"encode", "count", "header", "body", "done"}
  BY DEF Init, EncodeInit, StreamInit
<1>2. LayerInit => form \notin Forms
  <2>1. LayerInit => form \in LayerForms
    BY LayerFormsAssumption DEF LayerInit
  <2> QED
    BY <2>1, FormsAssumption, LayerFormsAssumption
<1>3. GrammarInit => form \notin Forms
  <2>1. GrammarInit => form \in GrammarForms
    BY DEF GrammarInit
  <2> QED
    BY <2>1, FormsAssumption, GrammarFormsAssumption
<1> QED
  BY <1>1, <1>2, <1>3, RestoresInit DEF TransformInit, TokensRestore

LEMMA StepTokens == TokensRestore /\ [TransformNext]_vars => TokensRestore'
<1> SUFFICES ASSUME TokensRestore, [TransformNext]_vars, form' \in Forms PROVE TokensRestore'
  BY DEF TokensRestore
<1>1. form \in Forms
  BY FormKept
<1>2. [Next]_vars
  BY <1>1, TokensAlone DEF TokensRestore, TransformNext
<1>3. Restores'
  BY <1>1, <1>2, StepRestores DEF TokensRestore
<1>4. stage' \in {"encode", "count", "header", "body", "done"}
  <2>1. CASE Next
    BY <1>1, <2>1 DEF TokensRestore, Next, EncodeWord, EncodeByte, EncodeEnd, Emit, ReadCount, ReadEntry, EndHeader,
         DecodeByte, DecodeNul, DecodeId, DecodeDefinition, DecodeUnit, DecodeExtended, DecodeAffix, DecodeEnd,
         DecodeTo
  <2>2. CASE UNCHANGED vars
    BY <1>1, <2>2 DEF TokensRestore, vars
  <2> QED
    BY <1>2, <2>1, <2>2
<1> QED
  BY <1>3, <1>4 DEF TokensRestore

\* On the machine that all codecs share, the word tokens and the layers give
\* their text back: words as ids, units, definitions or suffixes, hoisted
\* strings, marked cases, suffixes in front of their stems and permuted bytes
\* (each pair of an encoder and a decoder in src/transform/mod.rs), for every
\* table and every text.
THEOREM EveryTextComesBack == TransformSpec => [](Invertible => TextRestored)
<1>1. Returns /\ TokensRestore => (Invertible => TextRestored)
  BY ReturnsText, RestoresText DEF TokensRestore, Invertible
<1> QED
  BY <1>1, InitReturns, StepReturns, InitTokens, StepTokens, PTL DEF TransformSpec

\* Their decoders have at every place they share with the encoder what it had
\* there: an escape stands for one byte, a word whose case or suffix is marked
\* ends where the text's word does, and an id names the same entry.
THEOREM EveryDecoderKeepsUp == TransformSpec => [](Invertible => Lockstep)
<1>1. Returns /\ TokensRestore => (Invertible => Lockstep)
  BY ReturnsLockstep, RestoresLockstep DEF TokensRestore, Invertible
<1> QED
  BY <1>1, InitReturns, StepReturns, InitTokens, StepTokens, PTL DEF TransformSpec
=============================================================================
