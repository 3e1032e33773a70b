--------------------------- MODULE ArchiveProofs ----------------------------
(***************************************************************************)
(* The archive found in an image is the one appended last, whatever stub   *)
(* it was appended to; every order writes each page once; and sorting the  *)
(* pages undoes every order, so that the file that was compressed is the   *)
(* one that comes out.                                                     *)
(***************************************************************************)
EXTENDS Archive, FiniteSetTheorems, WellFoundedInduction, TLAPS

Units == [kind : {"byte", "marker", "len", "archive"}, val : Nat]

(* What append_sfx puts behind the stub.                                   *)
Suffix(z) ==
  <<Unit("marker", 0), Unit("len", z)>> \o [k \in 1 .. z |-> Unit("archive", k)]

SfxInv ==
  /\ archive.size \in Nat
  /\ image \in Seq(Units)
  /\ stage = "extract" => \E s \in Seq(Units) : image = s \o Suffix(archive.size)

LEMMA Concat ==
  ASSUME NEW S, NEW a, NEW b, NEW c, a \in Seq(S), b \in Seq(S), c = a \o b
  PROVE  /\ c \in Seq(S)
         /\ Len(c) = Len(a) + Len(b)
         /\ \A k \in 1 .. Len(a) : c[k] = a[k]
         /\ \A k \in 1 .. Len(b) : c[Len(a) + k] = b[k]
  OBVIOUS

LEMMA SuffixFacts ==
  ASSUME NEW z \in Nat
  PROVE  /\ Suffix(z) \in Seq(Units)
         /\ Len(Suffix(z)) = z + 2
         /\ Suffix(z)[1].kind = "marker"
         /\ Suffix(z)[2].val = z
         /\ \A k \in 2 .. z + 2 : Suffix(z)[k].kind # "marker"
PROOF
  <1>1. PICK h : h = <<Unit("marker", 0), Unit("len", z)>>
    OBVIOUS
  <1>2. PICK b : b = [k \in 1 .. z |-> Unit("archive", k)]
    OBVIOUS
  <1>3. h \in Seq(Units) /\ Len(h) = 2
    BY <1>1 DEF Units, Unit
  <1>4. h[1].kind = "marker" /\ h[2].val = z /\ h[2].kind = "len"
    BY <1>1 DEF Unit
  <1>5. \A k \in 1 .. z : Unit("archive", k) \in Units /\ b[k].kind = "archive"
    BY <1>2 DEF Units, Unit
  <1>6. b \in [1 .. z -> Units]
    BY <1>2, <1>5
  <1>7. b \in Seq(Units) /\ Len(b) = z
    BY <1>6
  <1>8. PICK t : t = h \o b
    OBVIOUS
  <1>9. /\ t \in Seq(Units) /\ Len(t) = 2 + z
        /\ t[1] = h[1] /\ t[2] = h[2]
        /\ \A k \in 1 .. z : t[2 + k] = b[k]
    <2>1. /\ t \in Seq(Units) /\ Len(t) = Len(h) + Len(b)
          /\ \A k \in 1 .. Len(h) : t[k] = h[k]
          /\ \A k \in 1 .. Len(b) : t[Len(h) + k] = b[k]
      <3>1. h \in Seq(Units) /\ b \in Seq(Units)
        BY <1>3, <1>7
      <3> QED
        BY <1>8, <3>1, Concat
    <2> QED
      BY <1>3, <1>7, <2>1
  <1>10. ASSUME NEW k \in 2 .. z + 2 PROVE t[k].kind # "marker"
    <2>1. k = 2 \/ (k - 2 \in 1 .. z /\ k = 2 + (k - 2))
      OBVIOUS
    <2> QED
      BY <1>4, <1>5, <1>9, <2>1
  <1>11. t = Suffix(z)
    BY <1>1, <1>2, <1>8 DEF Suffix
  <1> QED
    BY <1>4, <1>9, <1>10, <1>11

(* In the image im a marker and the length z stand at m, and no marker     *)
(* after it.                                                               *)
MarkedAt(im, m, z) ==
  /\ m \in Nat \ {0}
  /\ im \in Seq(Units) /\ Len(im) = m + 1 + z
  /\ im[m].kind = "marker" /\ im[m + 1].val = z
  /\ \A q \in m + 1 .. m + 1 + z : im[q].kind # "marker"

LEMMA ImageFacts ==
  ASSUME NEW s \in Seq(Units), NEW z \in Nat, NEW m, m = Len(s) + 1,
         NEW im, im = s \o Suffix(z)
  PROVE  MarkedAt(im, m, z)
PROOF
  <1>1. PICK t : t = Suffix(z)
    OBVIOUS
  <1>2. /\ t \in Seq(Units) /\ Len(t) = z + 2
        /\ t[1].kind = "marker" /\ t[2].val = z
        /\ \A k \in 2 .. z + 2 : t[k].kind # "marker"
    BY <1>1, SuffixFacts
  <1>3. /\ im \in Seq(Units) /\ Len(im) = Len(s) + (z + 2)
        /\ \A k \in 1 .. z + 2 : im[Len(s) + k] = t[k]
    <2>1. im = s \o t
      BY <1>1
    <2>2. /\ im \in Seq(Units) /\ Len(im) = Len(s) + Len(t)
          /\ \A k \in 1 .. Len(t) : im[Len(s) + k] = t[k]
      <3>1. t \in Seq(Units)
        BY <1>2
      <3> QED
        BY <2>1, <3>1, Concat
    <2> QED
      BY <1>2, <2>2
  <1>4. Len(s) \in Nat
    OBVIOUS
  <1>5. im[Len(s) + 1] = t[1] /\ im[Len(s) + 2] = t[2]
    BY <1>3
  <1>6. ASSUME NEW q \in m + 1 .. m + 1 + z PROVE im[q].kind # "marker"
    <2>1. PICK k \in 2 .. z + 2 : q = Len(s) + k
      <3>1. q - Len(s) \in 2 .. z + 2 /\ q = Len(s) + (q - Len(s))
        BY <1>4
      <3> QED
        BY <3>1
    <2>2. im[q] = t[k]
      BY <1>3, <2>1
    <2> QED
      BY <1>2, <2>2
  <1>7. m + 1 = Len(s) + 2
    BY <1>4
  <1> QED
    BY <1>2, <1>3, <1>4, <1>5, <1>6, <1>7 DEF MarkedAt

LEMMA Extraction ==
  ASSUME NEW s \in Seq(Units), archive.size \in Nat, image = s \o Suffix(archive.size)
  PROVE  Found = Appended
PROOF
  <1>1. PICK z \in Nat : z = archive.size
    OBVIOUS
  <1>2. PICK m : m = Len(s) + 1
    OBVIOUS
  <1>3. /\ m \in Nat \ {0}
        /\ image \in Seq(Units) /\ Len(image) = m + 1 + z
        /\ image[m].kind = "marker" /\ image[m + 1].val = z
        /\ \A q \in m + 1 .. m + 1 + z : image[q].kind # "marker"
    <2>1. image = s \o Suffix(z)
      BY <1>1
    <2>2. MarkedAt(image, m, z)
      BY <1>2, <2>1, ImageFacts
    <2> QED
      BY <2>2, Zenon DEF MarkedAt
  <1>4. Markers \subseteq 1 .. m + 1 + z
    BY <1>3 DEF Markers
  <1>5. m \in Markers /\ \A q \in Markers : q <= m
    BY <1>3, <1>4 DEF Markers
  <1>6. LastMarker \in Markers /\ \A q \in Markers : q <= LastMarker
    BY <1>5 DEF LastMarker
  <1>7. LastMarker = m
    BY <1>3, <1>4, <1>5, <1>6
  <1>8. Found = Recovered(m)
    BY <1>5, <1>7 DEF Found
  <1>9. Recovered(m) = SubSeq(image, m + 2, m + 1 + z)
    <2>1. ~(m + 1 > Len(image)) /\ ~(m + 1 + z > Len(image))
      BY <1>3
    <2> QED
      BY <1>3, <2>1, Zenon DEF Recovered
  <1>10. Appended = SubSeq(image, m + 2, m + 1 + z)
    <2>1. Len(image) - archive.size + 1 = m + 2 /\ Len(image) = m + 1 + z
      BY <1>1, <1>3
    <2> QED
      BY <2>1, Zenon DEF Appended
  <1> QED
    BY <1>8, <1>9, <1>10

LEMMA InitSfx == Init => SfxInv
  BY StubsAssumption DEF Init, SfxInv, NoArchive, Units

LEMMA StepSfx == SfxInv /\ [Next]_vars => SfxInv'
PROOF
  <1>1. SUFFICES ASSUME SfxInv, [Next]_vars PROVE SfxInv'
    OBVIOUS
  <1>2. AppendSfx => SfxInv'
    <2>1. SUFFICES ASSUME AppendSfx PROVE SfxInv'
      OBVIOUS
    <2>2. archive' = archive /\ image' = image \o Suffix(archive.size)
      <3> DEFINE body == [i \in 1 .. archive.size |-> Unit("archive", i)]
      <3>1. archive' = archive
        BY <2>1 DEF AppendSfx
      <3>2. image' = (image \o <<Unit("marker", 0), Unit("len", archive.size)>>) \o body
        BY <2>1 DEF AppendSfx
      <3>3. body \in Seq(Units) /\ <<Unit("marker", 0), Unit("len", archive.size)>> \in Seq(Units)
        <4>1. \A k \in 1 .. archive.size : Unit("archive", k) \in Units
          BY <1>1 DEF SfxInv, Units, Unit
        <4>2. body \in [1 .. archive.size -> Units] /\ archive.size \in Nat
          BY <1>1, <4>1 DEF SfxInv
        <4>3. body \in Seq(Units)
          BY <4>2
        <4> QED
          BY <1>1, <4>3 DEF SfxInv, Units, Unit
      <3> DEFINE head == <<Unit("marker", 0), Unit("len", archive.size)>>
      <3>4. Suffix(archive.size) = head \o body
        BY DEF Suffix
      <3> HIDE DEF body, head
      <3>5. (image \o head) \o body = image \o (head \o body)
        BY <1>1, <3>3 DEF SfxInv, head
      <3> QED
        BY <3>1, <3>2, <3>4, <3>5 DEF head
    <2>3. image' \in Seq(Units)
      <3>1. PICK t \in Seq(Units) : t = Suffix(archive.size)
        BY <1>1, SuffixFacts DEF SfxInv
      <3> QED
        BY <1>1, <2>2, <3>1, Concat DEF SfxInv
    <2> QED
      BY <1>1, <2>2, <2>3 DEF SfxInv
  <1>3. WriteArchive => SfxInv'
    BY <1>1, SizesAssumption DEF WriteArchive, SfxInv
  <1>4. ~AppendSfx /\ ~WriteArchive => SfxInv'
    <2>1. SUFFICES ASSUME ~AppendSfx, ~WriteArchive PROVE SfxInv'
      OBVIOUS
    <2>2. UNCHANGED <<archive, image>>
      BY <1>1, <2>1 DEF Next, Downgrade, KeepOrder, SortPages, StartWalk, WalkStep, EndWalk,
                        ApplyLayer, StartDecode, RemoveLayer, Unreorder, vars
    <2>3. stage' = "extract" => stage = "extract"
      BY <1>1, <2>1 DEF Next, Downgrade, KeepOrder, SortPages, StartWalk, WalkStep, EndWalk,
                        Arrange, ApplyLayer, StartDecode, RemoveLayer, Unreorder, vars
    <2> QED
      BY <1>1, <2>2, <2>3 DEF SfxInv
  <1> QED
    BY <1>2, <1>3, <1>4

\* Whatever bytes the stub is made of, a marker or an earlier archive among
\* them, extract_sfx recovers exactly the archive append_sfx put last.
THEOREM LastArchiveFound == Spec => []LastArchiveWins
PROOF
  <1>1. SfxInv => LastArchiveWins
    BY Extraction DEF SfxInv, LastArchiveWins
  <1> QED
    BY InitSfx, StepSfx, <1>1, PTL DEF Spec

-----------------------------------------------------------------------------
(* The greedy walk: the pages taken, those in the window and those that    *)
(* wait are different pages, and none is missing.                          *)

ApartUpTo(o, lo, w, lw, r, lr) ==
  /\ \A a, b \in 1 .. lo : o[a] = o[b] => a = b
  /\ \A a, b \in 1 .. lw : w[a] = w[b] => a = b
  /\ \A a, b \in 1 .. lr : r[a] = r[b] => a = b
  /\ \A a \in 1 .. lo, b \in 1 .. lw : o[a] # w[b]
  /\ \A a \in 1 .. lo, b \in 1 .. lr : o[a] # r[b]
  /\ \A a \in 1 .. lw, b \in 1 .. lr : w[a] # r[b]

Apart(o, w, r) == ApartUpTo(o, Len(o), w, Len(w), r, Len(r))

Deal(o, w, r, n) ==
  /\ o \in Seq(1 .. n) /\ w \in Seq(1 .. n) /\ r \in Seq(1 .. n)
  /\ Len(o) + Len(w) + Len(r) = n
  /\ Len(w) = 0 => Len(r) = 0
  /\ Apart(o, w, r)

LEMMA SubSeqFacts ==
  ASSUME NEW S, NEW s \in Seq(S), NEW m \in Nat \ {0}, NEW n \in Nat, n <= Len(s), m <= n + 1,
         NEW t, t = SubSeq(s, m, n)
  PROVE  /\ t \in Seq(S)
         /\ Len(t) = n - m + 1
         /\ \A k \in 1 .. Len(t) : t[k] = s[k + m - 1]
  OBVIOUS

(* A page leaves the window and those behind it move up.                   *)
LEMMA Removed ==
  ASSUME NEW S, NEW w \in Seq(S), NEW k \in 1 .. Len(w), NEW v, v = RemoveAt(w, k)
  PROVE  /\ v \in Seq(S) /\ Len(v) = Len(w) - 1
         /\ \A a \in 1 .. Len(v) : v[a] = IF a < k THEN w[a] ELSE w[a + 1]
PROOF
  <1>1. PICK b : b = SubSeq(w, 1, k - 1)
    OBVIOUS
  <1>2. PICK c : c = SubSeq(w, k + 1, Len(w))
    OBVIOUS
  <1>3. Len(w) \in Nat /\ k - 1 \in Nat /\ k + 1 \in Nat \ {0} /\ k <= Len(w)
    OBVIOUS
  <1>4. /\ b \in Seq(S) /\ Len(b) = k - 1
        /\ \A a \in 1 .. Len(b) : b[a] = w[a]
    BY <1>1, <1>3
  <1>5. /\ c \in Seq(S) /\ Len(c) = Len(w) - k
        /\ \A a \in 1 .. Len(c) : c[a] = w[a + k]
    BY <1>2, <1>3
  <1>6. v = b \o c
    BY <1>1, <1>2 DEF RemoveAt
  <1>7. /\ v \in Seq(S) /\ Len(v) = Len(b) + Len(c)
        /\ \A a \in 1 .. Len(b) : v[a] = b[a]
        /\ \A a \in 1 .. Len(c) : v[Len(b) + a] = c[a]
    <2>1. b \in Seq(S) /\ c \in Seq(S)
      BY <1>4, <1>5
    <2> QED
      BY <1>6, <2>1, Concat
  <1>8. Len(v) = Len(w) - 1
    BY <1>3, <1>4, <1>5, <1>7
  <1>9. ASSUME NEW a \in 1 .. Len(v) PROVE v[a] = IF a < k THEN w[a] ELSE w[a + 1]
    <2>1. a < k => v[a] = w[a]
      BY <1>3, <1>4, <1>7
    <2>2. ~(a < k) => v[a] = w[a + 1]
      <3>1. SUFFICES ASSUME ~(a < k) PROVE v[a] = w[a + 1]
        OBVIOUS
      <3>2. PICK d \in 1 .. Len(c) : a = Len(b) + d
        <4>1. a - (k - 1) \in 1 .. Len(c) /\ a = Len(b) + (a - (k - 1))
          BY <1>3, <1>4, <1>5, <1>8, <3>1
        <4> QED
          BY <4>1
      <3>3. d + k = a + 1
        BY <1>3, <1>4, <3>2
      <3> QED
        BY <1>5, <1>7, <3>2, <3>3
    <2> QED
      BY <2>1, <2>2
  <1> QED
    BY <1>7, <1>8, <1>9

(* One page goes from the window to the order, and one from the rest to   *)
(* the end of the window.                                                  *)
Shift(o, lo, w, lw, r, lr, k, o2, w2, r2) ==
  /\ \A a \in 1 .. lo : o2[a] = o[a]
  /\ o2[lo + 1] = w[k]
  /\ \A a \in 1 .. lw - 1 : w2[a] = IF a < k THEN w[a] ELSE w[a + 1]
  /\ lr > 0 => w2[lw] = r[1]
  /\ \A a \in 1 .. lr - 1 : r2[a] = r[a + 1]

LEMMA ShiftKeeps ==
  ASSUME NEW lo \in Nat, NEW lw \in Nat, NEW lr \in Nat, NEW k \in 1 .. lw,
         NEW o, NEW w, NEW r, NEW o2, NEW w2, NEW r2,
         ApartUpTo(o, lo, w, lw, r, lr), Shift(o, lo, w, lw, r, lr, k, o2, w2, r2)
  PROVE  /\ lr = 0 => ApartUpTo(o2, lo + 1, w2, lw - 1, r2, 0)
         /\ lr > 0 => ApartUpTo(o2, lo + 1, w2, lw, r2, lr - 1)
PROOF
  <1>1. \A a \in 1 .. lo + 1 :
          \/ a \in 1 .. lo /\ o2[a] = o[a]
          \/ a = lo + 1 /\ o2[a] = w[k]
    <2>1. \A a \in 1 .. lo + 1 : a \in 1 .. lo \/ a = lo + 1
      OBVIOUS
    <2>2. (\A a \in 1 .. lo : o2[a] = o[a]) /\ o2[lo + 1] = w[k]
      BY DEF Shift
    <2> QED
      BY <2>1, <2>2
  <1>2. \A a \in 1 .. lw - 1 : \E c \in 1 .. lw :
          c # k /\ w2[a] = w[c] /\ c = IF a < k THEN a ELSE a + 1
    BY DEF Shift
  <1>3. \A a \in 1 .. lr - 1 : a + 1 \in 2 .. lr /\ r2[a] = r[a + 1]
    BY DEF Shift
  <1>4. \A a, b \in 1 .. lo + 1 : o2[a] = o2[b] => a = b
    BY <1>1 DEF ApartUpTo
  <1>5. \A a, b \in 1 .. lw - 1 : w2[a] = w2[b] => a = b
    BY <1>2 DEF ApartUpTo
  <1>6. \A a, b \in 1 .. lr - 1 : r2[a] = r2[b] => a = b
    BY <1>3 DEF ApartUpTo
  <1>7. \A a \in 1 .. lo + 1, b \in 1 .. lw - 1 : o2[a] # w2[b]
    BY <1>1, <1>2 DEF ApartUpTo
  <1>8. \A a \in 1 .. lo + 1, b \in 1 .. lr - 1 : o2[a] # r2[b]
    BY <1>1, <1>3 DEF ApartUpTo
  <1>9. \A a \in 1 .. lw - 1, b \in 1 .. lr - 1 : w2[a] # r2[b]
    BY <1>2, <1>3 DEF ApartUpTo
  <1>10. lr = 0 => ApartUpTo(o2, lo + 1, w2, lw - 1, r2, 0)
    BY <1>4, <1>5, <1>7 DEF ApartUpTo
  <1>11. ASSUME lr > 0 PROVE ApartUpTo(o2, lo + 1, w2, lw, r2, lr - 1)
    <2>1. w2[lw] = r[1] /\ 1 \in 1 .. lr
      BY <1>11 DEF Shift
    <2>2. \A b \in 1 .. lw : b \in 1 .. lw - 1 \/ b = lw
      OBVIOUS
    <2>3. \A a \in 1 .. lw - 1 : w2[a] # w2[lw]
      BY <1>2, <2>1 DEF ApartUpTo
    <2>4. \A a, b \in 1 .. lw : w2[a] = w2[b] => a = b
      BY <1>5, <2>2, <2>3
    <2>5. \A a \in 1 .. lo + 1 : o2[a] # w2[lw]
      BY <1>1, <2>1 DEF ApartUpTo
    <2>6. \A a \in 1 .. lo + 1, b \in 1 .. lw : o2[a] # w2[b]
      BY <1>7, <2>2, <2>5
    <2>7. \A b \in 1 .. lr - 1 : w2[lw] # r2[b]
      BY <1>3, <2>1 DEF ApartUpTo
    <2>8. \A a \in 1 .. lw, b \in 1 .. lr - 1 : w2[a] # r2[b]
      BY <1>9, <2>2, <2>7
    <2> QED
      BY <1>4, <1>6, <1>8, <2>4, <2>6, <2>8 DEF ApartUpTo
  <1> QED
    BY <1>10, <1>11

LEMMA StepDeals ==
  ASSUME NEW n \in Nat, NEW o, NEW w, NEW r, Deal(o, w, r, n), NEW k \in 1 .. Len(w)
  PROVE  Deal(Append(o, w[k]),
              RemoveAt(w, k) \o SubSeq(r, 1, IF r = <<>> THEN 0 ELSE 1),
              IF r = <<>> THEN <<>> ELSE Tail(r), n)
PROOF
  <1>1. /\ o \in Seq(1 .. n) /\ w \in Seq(1 .. n) /\ r \in Seq(1 .. n)
        /\ Len(o) \in Nat /\ Len(w) \in Nat /\ Len(r) \in Nat
        /\ Len(o) + Len(w) + Len(r) = n
    BY DEF Deal
  <1>2. Apart(o, w, r)
    BY DEF Deal
  <1>3. PICK o2 : o2 = Append(o, w[k])
    OBVIOUS
  <1>4. PICK v : v = RemoveAt(w, k)
    OBVIOUS
  <1>5. PICK h : h = SubSeq(r, 1, IF r = <<>> THEN 0 ELSE 1)
    OBVIOUS
  <1>6. PICK w2 : w2 = v \o h
    OBVIOUS
  <1>7. PICK r2 : r2 = IF r = <<>> THEN <<>> ELSE Tail(r)
    OBVIOUS
  <1>8. w[k] \in 1 .. n
    BY <1>1
  <1>9. /\ o2 \in Seq(1 .. n) /\ Len(o2) = Len(o) + 1
        /\ \A a \in 1 .. Len(o) : o2[a] = o[a]
        /\ o2[Len(o) + 1] = w[k]
    BY <1>1, <1>3, <1>8
  <1>10. /\ v \in Seq(1 .. n) /\ Len(v) = Len(w) - 1
         /\ \A a \in 1 .. Len(v) : v[a] = IF a < k THEN w[a] ELSE w[a + 1]
    <2>1. w \in Seq(1 .. n) /\ k \in 1 .. Len(w)
      BY <1>1
    <2> QED
      BY <1>4, <2>1, Removed
  <1>11. Len(w) \in Nat /\ k \in 1 .. Len(w) /\ ApartUpTo(o, Len(o), w, Len(w), r, Len(r))
    BY <1>1, <1>2 DEF Apart
  <1>12. ASSUME r = <<>> PROVE Deal(o2, w2, r2, n)
    <2>1. Len(r) = 0 /\ r2 = <<>> /\ Len(r2) = 0 /\ r2 \in Seq(1 .. n)
      BY <1>7, <1>12
    <2>2. h = <<>>
      BY <1>5, <1>12
    <2>3. w2 = v
      BY <1>6, <1>10, <2>2
    <2>4. Shift(o, Len(o), w, Len(w), r, Len(r), k, o2, w2, r2)
      <3>1. \A a \in 1 .. Len(w) - 1 : w2[a] = IF a < k THEN w[a] ELSE w[a + 1]
        BY <1>10, <2>3
      <3>2. ~(Len(r) > 0) /\ 1 .. Len(r) - 1 = {}
        BY <2>1
      <3> QED
        BY <1>9, <3>1, <3>2 DEF Shift
    <2>5. ApartUpTo(o2, Len(o) + 1, w2, Len(w) - 1, r2, 0)
      BY <1>1, <1>11, <2>1, <2>4, ShiftKeeps
    <2>6. Apart(o2, w2, r2)
      BY <1>9, <1>10, <2>1, <2>3, <2>5 DEF Apart
    <2>7. Len(o2) + Len(w2) + Len(r2) = n
      <3>1. Len(o2) = Len(o) + 1 /\ Len(w2) = Len(w) - 1 /\ Len(r2) = Len(r)
        BY <1>9, <1>10, <2>1, <2>3
      <3>2. Len(o) \in Nat /\ Len(w) \in Nat /\ Len(r) \in Nat /\ Len(o) + Len(w) + Len(r) = n
        BY <1>1
      <3> QED
        BY <3>1, <3>2
    <2> QED
      BY <1>9, <1>10, <2>1, <2>3, <2>6, <2>7 DEF Deal
  <1>13. ASSUME r # <<>> PROVE Deal(o2, w2, r2, n)
    <2>1. Len(r) >= 1
      BY <1>1, <1>13
    <2>2. /\ r2 \in Seq(1 .. n) /\ Len(r2) = Len(r) - 1
          /\ \A a \in 1 .. Len(r2) : r2[a] = r[a + 1]
      BY <1>1, <1>7, <1>13, <2>1
    <2>3. h \in Seq(1 .. n) /\ Len(h) = 1 /\ h[1] = r[1]
      <3>1. h = SubSeq(r, 1, 1)
        BY <1>5, <1>13
      <3>2. r \in Seq(1 .. n) /\ 1 <= Len(r)
        BY <1>1, <2>1
      <3>3. /\ h \in Seq(1 .. n) /\ Len(h) = 1 - 1 + 1
            /\ \A a \in 1 .. Len(h) : h[a] = r[a + 1 - 1]
        BY <3>1, <3>2, SubSeqFacts
      <3> QED
        BY <3>3
    <2>4. /\ w2 \in Seq(1 .. n) /\ Len(w2) = Len(v) + Len(h)
          /\ \A a \in 1 .. Len(v) : w2[a] = v[a]
          /\ \A a \in 1 .. Len(h) : w2[Len(v) + a] = h[a]
      <3>1. v \in Seq(1 .. n) /\ h \in Seq(1 .. n)
        BY <1>10, <2>3
      <3> QED
        BY <1>6, <3>1, Concat
    <2>5. Len(v) = Len(w) - 1 /\ Len(v) + 1 = Len(w) /\ 1 \in 1 .. Len(h)
      BY <1>10, <1>11, <2>3
    <2>6. Len(w2) = Len(w)
      BY <2>3, <2>4, <2>5
    <2>7. w2[Len(w)] = r[1]
      <3>1. w2[Len(v) + 1] = h[1]
        BY <2>4, <2>5
      <3> QED
        BY <2>3, <2>5, <3>1
    <2>8. Shift(o, Len(o), w, Len(w), r, Len(r), k, o2, w2, r2)
      <3>1. \A a \in 1 .. Len(w) - 1 : w2[a] = IF a < k THEN w[a] ELSE w[a + 1]
        <4>1. \A a \in 1 .. Len(w) - 1 : a \in 1 .. Len(v)
          BY <2>5
        <4> QED
          BY <1>10, <2>4, <4>1
      <3>2. \A a \in 1 .. Len(r) - 1 : r2[a] = r[a + 1]
        BY <2>2
      <3> QED
        BY <1>9, <2>7, <3>1, <3>2 DEF Shift
    <2>9. Len(r) \in Nat /\ Len(r) > 0 /\ Len(o) \in Nat
      BY <1>1, <2>1
    <2>10. ApartUpTo(o2, Len(o) + 1, w2, Len(w), r2, Len(r) - 1)
      BY <1>11, <2>8, <2>9, ShiftKeeps
    <2>11. Apart(o2, w2, r2)
      BY <1>9, <2>2, <2>6, <2>10 DEF Apart
    <2>12. Len(o2) + Len(w2) + Len(r2) = n /\ Len(w2) # 0
      <3>1. Len(o2) = Len(o) + 1 /\ Len(w2) = Len(w) /\ Len(r2) = Len(r) - 1
        BY <1>9, <2>2, <2>6
      <3>2. /\ Len(o) \in Nat /\ Len(w) \in Nat /\ Len(r) \in Nat /\ Len(w) # 0
            /\ Len(o) + Len(w) + Len(r) = n
        BY <1>1
      <3> QED
        BY <3>1, <3>2
    <2> QED
      BY <1>9, <2>2, <2>4, <2>11, <2>12 DEF Deal
  <1> QED
    BY <1>3, <1>4, <1>5, <1>6, <1>7, <1>12, <1>13

LEMMA Starts ==
  ASSUME NEW n \in Nat \ {0}, NEW s \in Seq(1 .. n), Len(s) = n, IsInjective(s)
  PROVE  LET w == IF n < W THEN n ELSE W
         IN  Deal(<<s[1]>>, SubSeq(s, 2, w), SubSeq(s, w + 1, n), n)
PROOF
  <1>1. PICK w : w = IF n < W THEN n ELSE W
    OBVIOUS
  <1>2. /\ w \in Nat /\ w >= 1 /\ w <= n
        /\ w = 1 => n = 1
    BY <1>1, WAssumption
  <1>3. s \in Seq(1 .. n) /\ Len(s) = n /\ DOMAIN s = 1 .. n
    OBVIOUS
  <1>4. \A a, b \in 1 .. n : s[a] = s[b] => a = b
    BY <1>3 DEF IsInjective
  <1>5. PICK o : o = <<s[1]>>
    OBVIOUS
  <1>6. PICK v : v = SubSeq(s, 2, w)
    OBVIOUS
  <1>7. PICK r : r = SubSeq(s, w + 1, n)
    OBVIOUS
  <1>8. /\ o \in Seq(1 .. n) /\ Len(o) = 1
        /\ \A a \in 1 .. Len(o) : a = 1 /\ o[a] = s[1]
    <2>1. 1 \in 1 .. n /\ s[1] \in 1 .. n
      OBVIOUS
    <2> QED
      BY <1>5, <2>1
  <1>9. /\ v \in Seq(1 .. n) /\ Len(v) = w - 2 + 1
        /\ \A a \in 1 .. Len(v) : v[a] = s[a + 2 - 1]
    <2>1. /\ w \in Nat /\ w <= Len(s) /\ 2 <= w + 1 /\ 2 \in Nat \ {0}
          /\ s \in Seq(1 .. n)
      BY <1>2, <1>3
    <2> QED
      BY <1>6, <2>1, SubSeqFacts
  <1>10. /\ r \in Seq(1 .. n) /\ Len(r) = n - (w + 1) + 1
         /\ \A a \in 1 .. Len(r) : r[a] = s[a + (w + 1) - 1]
    <2>1. /\ n \in Nat /\ n <= Len(s) /\ w + 1 <= n + 1 /\ w + 1 \in Nat \ {0}
          /\ s \in Seq(1 .. n)
      BY <1>2, <1>3
    <2>2. PICK m \in Nat \ {0} : m = w + 1
      BY <2>1
    <2>3. r = SubSeq(s, m, n) /\ m <= n + 1
      BY <1>7, <2>1, <2>2
    <2>4. /\ r \in Seq(1 .. n) /\ Len(r) = n - m + 1
          /\ \A a \in 1 .. Len(r) : r[a] = s[a + m - 1]
      BY <2>1, <2>3, SubSeqFacts
    <2> QED
      BY <2>2, <2>4
  <1>11. \A a \in 1 .. Len(v) : a + 1 \in 2 .. w /\ a + 1 \in 1 .. n /\ v[a] = s[a + 1]
    BY <1>2, <1>9
  <1>12. \A a \in 1 .. Len(r) : a + w \in w + 1 .. n /\ a + w \in 1 .. n /\ r[a] = s[a + w]
    BY <1>2, <1>10
  <1>13. ApartUpTo(o, Len(o), v, Len(v), r, Len(r))
    <2>1. \A a, b \in 1 .. Len(o) : o[a] = o[b] => a = b
      BY <1>8
    <2>2. \A a, b \in 1 .. Len(v) : v[a] = v[b] => a = b
      <3>1. \A a, b \in 1 .. Len(v) : v[a] = v[b] => a + 1 = b + 1
        BY <1>4, <1>11
      <3> QED
        BY <3>1
    <2>3. \A a, b \in 1 .. Len(r) : r[a] = r[b] => a = b
      <3>1. \A a, b \in 1 .. Len(r) : r[a] = r[b] => a + w = b + w
        BY <1>4, <1>12
      <3> QED
        BY <1>2, <3>1
    <2>4. \A a \in 1 .. Len(o), b \in 1 .. Len(v) : o[a] # v[b]
      <3>1. ASSUME NEW a \in 1 .. Len(o), NEW b \in 1 .. Len(v), o[a] = v[b] PROVE FALSE
        <4>1. b + 1 \in 2 .. w /\ b + 1 \in 1 .. n /\ v[b] = s[b + 1]
          BY <1>11
        <4>2. o[a] = s[1] /\ 1 \in 1 .. n
          BY <1>8
        <4>3. s[1] = s[b + 1]
          BY <3>1, <4>1, <4>2
        <4>4. 1 = b + 1
          BY <1>4, <4>1, <4>2, <4>3
        <4> QED
          BY <4>1, <4>4
      <3> QED
        BY <3>1
    <2>5. \A a \in 1 .. Len(o), b \in 1 .. Len(r) : o[a] # r[b]
      <3>1. ASSUME NEW a \in 1 .. Len(o), NEW b \in 1 .. Len(r), o[a] = r[b] PROVE FALSE
        <4>1. b + w \in w + 1 .. n /\ b + w \in 1 .. n /\ r[b] = s[b + w]
          BY <1>12
        <4>2. o[a] = s[1] /\ 1 \in 1 .. n
          BY <1>8
        <4>3. s[1] = s[b + w]
          BY <3>1, <4>1, <4>2
        <4>4. 1 = b + w
          BY <1>4, <4>1, <4>2, <4>3
        <4> QED
          BY <1>2, <4>1, <4>4
      <3> QED
        BY <3>1
    <2>6. \A a \in 1 .. Len(v), b \in 1 .. Len(r) : v[a] # r[b]
      BY <1>2, <1>4, <1>11, <1>12
    <2> QED
      BY <2>1, <2>2, <2>3, <2>4, <2>5, <2>6 DEF ApartUpTo
  <1>14. Len(o) + Len(v) + Len(r) = n /\ (Len(v) = 0 => Len(r) = 0)
    BY <1>2, <1>8, <1>9, <1>10
  <1>15. Deal(o, v, r, n)
    BY <1>8, <1>9, <1>10, <1>13, <1>14 DEF Deal, Apart
  <1> QED
    BY <1>1, <1>5, <1>6, <1>7, <1>15

(* The walk that has nothing left in its window has taken every page.      *)
LEMMA Ends ==
  ASSUME NEW n \in Nat, NEW o, NEW w, NEW r, Deal(o, w, r, n), w = <<>>
  PROVE  Len(o) = n /\ IsInjective(o)
PROOF
  <1>1. Len(w) = 0 /\ Len(r) = 0 /\ Len(o) = n
    BY DEF Deal
  <1>2. DOMAIN o = 1 .. Len(o)
    BY DEF Deal
  <1>3. \A a, b \in 1 .. Len(o) : o[a] = o[b] => a = b
    BY DEF Deal, Apart, ApartUpTo
  <1> QED
    BY <1>1, <1>2, <1>3 DEF IsInjective

-----------------------------------------------------------------------------
(* Least numbers, what holds up to n, and functions defined from one       *)
(* number to the next.                                                     *)

LEMMA LeastNumber ==
  ASSUME NEW B, B \subseteq Nat, B # {}
  PROVE  \E n \in B : \A k \in B : n <= k
<1>1. PICK R : R = OpToRel(<, Nat)
  OBVIOUS
<1>2. IsWellFoundedOn(R, Nat)
  BY <1>1, NatLessThanWellFounded
<1>3. PICK n \in B : \A k \in B : <<k, n>> \notin R
  BY <1>2, WFMin
<1>4. \A k \in B : ~(k < n)
  <2> TAKE k \in B
  <2>1. <<k, n>> \notin {p \in Nat \X Nat : p[1] < p[2]}
    BY <1>1, <1>3 DEF OpToRel
  <2>2. <<k, n>> \in Nat \X Nat
    OBVIOUS
  <2>3. ~(<<k, n>>[1] < <<k, n>>[2])
    BY <2>1, <2>2
  <2> QED
    BY <2>3
<1> QED
  BY <1>4

LEMMA UpTo ==
  ASSUME NEW n \in Nat, NEW S, 0 \in S, \A k \in Nat : k < n /\ k \in S => k + 1 \in S
  PROVE  \A k \in 0 .. n : k \in S
<1> DEFINE Bad == {k \in Nat : k <= n /\ k \notin S}
<1> SUFFICES ASSUME Bad # {} PROVE FALSE
  OBVIOUS
<1>1. PICK k \in Bad : \A j \in Bad : k <= j
  <2>1. Bad \subseteq Nat
    OBVIOUS
  <2> HIDE DEF Bad
  <2> QED
    BY <2>1, LeastNumber
<1>2. k \in Nat /\ k <= n /\ k \notin S /\ k # 0
  BY <1>1
<1>3. PICK j \in Nat : k = j + 1
  <2>1. k - 1 \in Nat /\ k = (k - 1) + 1
    BY <1>2
  <2> QED
    BY <2>1
<1>4. j < n /\ j <= n /\ ~(k <= j)
  BY <1>2, <1>3
<1>5. j \in S
  BY <1>1, <1>4
<1> QED
  BY <1>2, <1>3, <1>4, <1>5

Recurs(g, n, base, st) ==
  g = [i \in 0 .. n |-> IF i = 0 THEN base ELSE st[<<i, g[i - 1]>>]]

LEMMA Recursion ==
  ASSUME NEW n \in Nat, NEW V, NEW base \in V, NEW st \in [(1 .. n) \X V -> V]
  PROVE  \E g \in [0 .. n -> V] : Recurs(g, n, base, st)
<1> DEFINE Defined(g, m) == /\ g \in [0 .. m -> V]
                            /\ g = [i \in 0 .. m |-> IF i = 0 THEN base ELSE st[<<i, g[i - 1]>>]]
           S == {m \in Nat : m <= n => \E g : Defined(g, m)}
<1>1. 0 \in S
  <2>1. PICK g : g = [i \in 0 .. 0 |-> base]
    OBVIOUS
  <2>2. g \in [0 .. 0 -> V]
    BY <2>1
  <2>3. g = [i \in 0 .. 0 |-> IF i = 0 THEN base ELSE st[<<i, g[i - 1]>>]]
    BY <2>1
  <2> QED
    BY <2>2, <2>3
<1>2. ASSUME NEW m \in Nat, m < n, m \in S PROVE m + 1 \in S
  <2>1. PICK g : Defined(g, m)
    BY <1>2
  <2>2. PICK h : h = [i \in 0 .. m + 1 |-> IF i = m + 1 THEN st[<<i, g[m]>>] ELSE g[i]]
    OBVIOUS
  <2>3. h[m + 1] = st[<<m + 1, g[m]>>] /\ \A i \in 0 .. m : h[i] = g[i]
    BY <1>2, <2>2
  <2>4. g[m] \in V /\ m + 1 \in 1 .. n
    BY <1>2, <2>1
  <2>5. h \in [0 .. m + 1 -> V]
    <3>1. st[<<m + 1, g[m]>>] \in V
      BY <2>4
    <3>2. \A i \in 0 .. m : g[i] \in V
      BY <2>1
    <3>3. \A i \in 0 .. m + 1 : i = m + 1 \/ i \in 0 .. m
      BY <1>2
    <3> QED
      BY <2>2, <3>1, <3>2, <3>3
  <2>6. ASSUME NEW i \in 0 .. m + 1
        PROVE  h[i] = IF i = 0 THEN base ELSE st[<<i, h[i - 1]>>]
    <3>1. CASE i = m + 1
      <4>1. i # 0 /\ i - 1 = m /\ m \in 0 .. m
        BY <1>2, <3>1
      <4> QED
        BY <2>3, <3>1, <4>1
    <3>2. CASE i # m + 1
      <4>1. i \in 0 .. m
        BY <1>2, <3>2
      <4>2. g[i] = IF i = 0 THEN base ELSE st[<<i, g[i - 1]>>]
        BY <2>1, <4>1
      <4>3. CASE i = 0
        BY <2>3, <4>1, <4>2, <4>3
      <4>4. CASE i # 0
        <5>1. i - 1 \in 0 .. m
          BY <4>1, <4>4
        <5> QED
          BY <2>3, <4>1, <4>2, <4>4, <5>1
      <4> QED
        BY <4>3, <4>4
    <3> QED
      BY <3>1, <3>2
  <2>7. h = [i \in 0 .. m + 1 |-> IF i = 0 THEN base ELSE st[<<i, h[i - 1]>>]]
    BY <2>2, <2>6
  <2>8. Defined(h, m + 1)
    BY <2>5, <2>7
  <2> HIDE DEF Defined
  <2> QED
    BY <2>8
<1>3. n \in S
  <2> HIDE DEF S
  <2>1. \A k \in 0 .. n : k \in S
    BY <1>1, <1>2, UpTo
  <2> QED
    BY <2>1
<1>4. PICK g : Defined(g, n)
  BY <1>3
<1> QED
  BY <1>4 DEF Recurs

-----------------------------------------------------------------------------
(* The places of a tag.                                                    *)

\* q lists the places of the tag among the first n elements of s, in order.
Lists(q, s, n, tag) ==
  /\ q \in Seq(Nat)
  /\ \A k \in 1 .. Len(q) : q[k] \in 1 .. n /\ s[q[k]] = tag
  /\ \A j, k \in 1 .. Len(q) : j < k => q[j] < q[k]
  /\ \A i \in 1 .. n : s[i] = tag => \E k \in 1 .. Len(q) : q[k] = i

LEMMA ListGrows ==
  ASSUME NEW s, NEW n \in Nat, NEW tag, NEW q, Lists(q, s, n, tag)
  PROVE  Lists(IF s[n + 1] = tag THEN Append(q, n + 1) ELSE q, s, n + 1, tag)
<1>1. /\ q \in Seq(Nat)
      /\ \A k \in 1 .. Len(q) : q[k] \in 1 .. n /\ s[q[k]] = tag
      /\ \A j, k \in 1 .. Len(q) : j < k => q[j] < q[k]
      /\ \A i \in 1 .. n : s[i] = tag => \E k \in 1 .. Len(q) : q[k] = i
  BY DEF Lists
<1>2. CASE s[n + 1] # tag
  <2>1. \A i \in 1 .. n + 1 : s[i] = tag => i \in 1 .. n
    BY <1>2
  <2>2. \A i \in 1 .. n : i \in 1 .. n + 1
    OBVIOUS
  <2>3. Lists(q, s, n + 1, tag)
    BY <1>1, <2>1, <2>2 DEF Lists
  <2> QED
    BY <1>2, <2>3
<1>3. CASE s[n + 1] = tag
  <2>1. PICK m \in Nat : m = Len(q)
    BY <1>1
  <2>2. PICK r : r = Append(q, n + 1)
    OBVIOUS
  <2>3. /\ r \in Seq(Nat) /\ Len(r) = m + 1 /\ r[m + 1] = n + 1
        /\ \A k \in 1 .. m : r[k] = q[k]
    BY <1>1, <2>1, <2>2
  <2>4. \A k \in 1 .. m + 1 : k = m + 1 \/ k \in 1 .. m
    OBVIOUS
  <2>5. \A k \in 1 .. m : q[k] \in 1 .. n
    BY <1>1, <2>1
  <2>6. \A k \in 1 .. m + 1 : r[k] \in 1 .. n + 1 /\ s[r[k]] = tag
    <3>1. \A k \in 1 .. m : q[k] \in 1 .. n + 1
      BY <2>5
    <3>2. \A k \in 1 .. m : s[q[k]] = tag
      BY <1>1, <2>1
    <3> TAKE k \in 1 .. m + 1
    <3>3. CASE k = m + 1
      BY <1>3, <2>3, <3>3
    <3>4. CASE k \in 1 .. m
      BY <2>3, <3>1, <3>2, <3>4
    <3> QED
      BY <2>4, <3>3, <3>4
  <2>7. ASSUME NEW j \in 1 .. m + 1, NEW k \in 1 .. m + 1, j < k PROVE r[j] < r[k]
    <3>1. j \in 1 .. m
      BY <2>7
    <3>2. CASE k = m + 1
      BY <2>3, <2>5, <3>1, <3>2
    <3>3. CASE k # m + 1
      <4>1. k \in 1 .. m
        BY <3>3
      <4> QED
        BY <1>1, <2>1, <2>3, <2>7, <3>1, <4>1
    <3> QED
      BY <3>2, <3>3
  <2>8. ASSUME NEW i \in 1 .. n + 1, s[i] = tag PROVE \E k \in 1 .. m + 1 : r[k] = i
    <3>1. CASE i = n + 1
      <4>1. m + 1 \in 1 .. m + 1
        OBVIOUS
      <4> QED
        BY <2>3, <3>1, <4>1
    <3>2. CASE i # n + 1
      <4>1. i \in 1 .. n
        BY <3>2
      <4>2. PICK k \in 1 .. m : q[k] = i
        BY <1>1, <2>1, <2>8, <4>1
      <4>3. k \in 1 .. m + 1
        OBVIOUS
      <4> QED
        BY <2>3, <4>2, <4>3
    <3> QED
      BY <3>1, <3>2
  <2>9. Lists(r, s, n + 1, tag)
    BY <2>3, <2>6, <2>7, <2>8 DEF Lists
  <2> QED
    BY <1>3, <2>2, <2>9
<1> QED
  BY <1>2, <1>3

LEMMA FindsAll ==
  ASSUME NEW X, NEW s \in Seq(X), NEW tag
  PROVE  Lists(FindAll(s, tag), s, Len(s), tag)
<1>1. PICK n \in Nat : n = Len(s)
  OBVIOUS
<1>2. PICK st : st = [x \in (1 .. n) \X Seq(Nat) |->
                        IF s[x[1]] = tag THEN Append(x[2], x[1]) ELSE x[2]]
  OBVIOUS
<1>3. st \in [(1 .. n) \X Seq(Nat) -> Seq(Nat)]
  <2>1. \A i \in 1 .. n, q \in Seq(Nat) : Append(q, i) \in Seq(Nat)
    OBVIOUS
  <2> QED
    BY <1>2, <2>1
<1>4. PICK V, none : V = Seq(Nat) /\ none = <<>> /\ none \in V
  <2>1. <<>> \in Seq(Nat)
    OBVIOUS
  <2> QED
    BY <2>1
<1>5. PICK g \in [0 .. n -> Seq(Nat)] :
        g = [i \in 0 .. n |-> IF i = 0 THEN <<>> ELSE st[<<i, g[i - 1]>>]]
  <2>1. st \in [(1 .. n) \X V -> V]
    BY <1>3, <1>4
  <2>2. \E g \in [0 .. n -> V] : Recurs(g, n, none, st)
    BY <1>4, <2>1, Recursion
  <2> QED
    BY <1>4, <2>2 DEF Recurs
<1> DEFINE Out(h) == h = [i \in 0 .. n |->
                            IF i = 0 THEN <<>>
                            ELSE IF s[i] = tag THEN Append(h[i - 1], i) ELSE h[i - 1]]
<1>6. Out(g)
  <2>1. ASSUME NEW i \in 0 .. n, i # 0
        PROVE  st[<<i, g[i - 1]>>] = IF s[i] = tag THEN Append(g[i - 1], i) ELSE g[i - 1]
    <3>1. i \in 1 .. n /\ i - 1 \in 0 .. n
      BY <2>1
    <3>2. g[i - 1] \in Seq(Nat)
      BY <3>1
    <3> QED
      BY <1>2, <3>1, <3>2
  <2> QED
    BY <1>5, <2>1
<1>7. PICK h : Out(h) /\ FindAll(s, tag) = h[n]
  <2>1. FindAll(s, tag) = (CHOOSE h : Out(h))[n]
    BY <1>1 DEF FindAll
  <2>2. Out(CHOOSE h : Out(h))
    <3> HIDE DEF Out
    <3> QED
      BY <1>6
  <2> HIDE DEF Out
  <2> QED
    BY <2>1, <2>2
<1> DEFINE S == {i \in Nat : i <= n => Lists(h[i], s, i, tag)}
<1>8. 0 \in S
  <2>1. h[0] = <<>>
    BY <1>7
  <2>2. Lists(<<>>, s, 0, tag)
    BY DEF Lists
  <2> QED
    BY <2>1, <2>2
<1>9. ASSUME NEW i \in Nat, i < n, i \in S PROVE i + 1 \in S
  <2>1. Lists(h[i], s, i, tag)
    BY <1>9
  <2>2. h[i + 1] = IF s[i + 1] = tag THEN Append(h[i], i + 1) ELSE h[i]
    <3>1. i + 1 \in 0 .. n /\ i + 1 # 0 /\ (i + 1) - 1 = i
      BY <1>9
    <3> QED
      BY <1>7, <3>1
  <2>3. Lists(h[i + 1], s, i + 1, tag)
    BY <2>1, <2>2, ListGrows
  <2> QED
    BY <2>3
<1>10. n \in S
  <2> HIDE DEF S
  <2>1. \A k \in 0 .. n : k \in S
    BY <1>8, <1>9, UpTo
  <2> QED
    BY <2>1
<1> QED
  BY <1>1, <1>7, <1>10

LEMMA SameSequence ==
  ASSUME NEW X, NEW q \in Seq(X)
  PROVE  q = [k \in 1 .. Len(q) |-> q[k]]
  OBVIOUS

\* There is only one such list.
LEMMA ListPrefix ==
  ASSUME NEW s, NEW n \in Nat, NEW tag, NEW q, NEW r, Lists(q, s, n, tag), Lists(r, s, n, tag)
  PROVE  Len(q) <= Len(r) /\ \A k \in 1 .. Len(q) : q[k] = r[k]
<1>1. PICK lq \in Nat, lr \in Nat : lq = Len(q) /\ lr = Len(r)
  BY DEF Lists
<1>2. /\ \A k \in 1 .. lq : q[k] \in 1 .. n /\ s[q[k]] = tag
      /\ \A j, k \in 1 .. lq : j < k => q[j] < q[k]
      /\ \A i \in 1 .. n : s[i] = tag => \E k \in 1 .. lq : q[k] = i
  BY <1>1 DEF Lists
<1>3. /\ \A k \in 1 .. lr : r[k] \in 1 .. n /\ s[r[k]] = tag
      /\ \A j, k \in 1 .. lr : j < k => r[j] < r[k]
      /\ \A i \in 1 .. n : s[i] = tag => \E k \in 1 .. lr : r[k] = i
  BY <1>1 DEF Lists
<1> DEFINE Bad == {k \in 1 .. lq : ~(k <= lr /\ q[k] = r[k])}
<1>4. Bad = {}
  <2> SUFFICES ASSUME Bad # {} PROVE FALSE
    OBVIOUS
  <2>1. PICK k \in Bad : \A j \in Bad : k <= j
    <3>1. Bad \subseteq Nat
      OBVIOUS
    <3> HIDE DEF Bad
    <3> QED
      BY <3>1, LeastNumber
  <2>2. k \in 1 .. lq /\ ~(k <= lr /\ q[k] = r[k])
    BY <2>1
  <2>3. \A j \in 1 .. lq : j < k => j <= lr /\ q[j] = r[j]
    <3> TAKE j \in 1 .. lq
    <3>1. j < k => j \notin Bad
      BY <2>1, <2>2
    <3> QED
      BY <3>1
  <2>4. PICK i \in 1 .. n : i = q[k] /\ s[i] = tag
    BY <1>2, <2>2
  <2>5. PICK j \in 1 .. lr : r[j] = i
    BY <1>3, <2>4
  <2>6. ~(j < k)
    <3> SUFFICES ASSUME j < k PROVE FALSE
      OBVIOUS
    <3>1. j \in 1 .. lq
      BY <2>2
    <3>2. q[j] = i /\ q[j] < q[k]
      BY <1>2, <2>2, <2>3, <2>5, <3>1
    <3> QED
      BY <2>4, <3>2
  <2>7. k <= lr /\ j # k
    BY <2>2, <2>4, <2>5, <2>6
  <2>8. k \in 1 .. lr /\ k < j
    BY <2>2, <2>6, <2>7
  <2>9. r[k] < i /\ r[k] \in 1 .. n /\ s[r[k]] = tag
    BY <1>3, <2>5, <2>8
  <2>10. PICK l \in 1 .. lq : q[l] = r[k]
    BY <1>2, <2>9
  <2>11. l < k
    <3> SUFFICES ASSUME ~(l < k) PROVE FALSE
      OBVIOUS
    <3>1. l = k \/ k < l
      BY <2>2
    <3>2. q[k] <= q[l]
      BY <1>2, <2>2, <3>1
    <3> QED
      BY <2>4, <2>9, <2>10, <3>2
  <2>12. l <= lr /\ r[l] = r[k]
    BY <2>3, <2>10, <2>11
  <2>13. l \in 1 .. lr
    BY <2>12
  <2>14. r[l] < r[k] /\ r[k] \in Nat
    BY <1>3, <2>8, <2>11, <2>13
  <2> QED
    BY <2>12, <2>14
<1>5. \A k \in 1 .. lq : k <= lr /\ q[k] = r[k]
  BY <1>4
<1>6. lq <= lr
  <2>1. CASE lq = 0
    BY <2>1
  <2>2. CASE lq # 0
    <3>1. lq \in 1 .. lq
      BY <2>2
    <3> QED
      BY <1>5, <3>1
  <2> QED
    BY <2>1, <2>2
<1> QED
  BY <1>1, <1>5, <1>6

LEMMA ListUnique ==
  ASSUME NEW X, NEW s \in Seq(X), NEW tag, NEW q, Lists(q, s, Len(s), tag)
  PROVE  FindAll(s, tag) = q
<1>1. PICK r : r = FindAll(s, tag)
  OBVIOUS
<1>2. PICK n \in Nat : n = Len(s)
  OBVIOUS
<1>3. Lists(r, s, n, tag) /\ Lists(q, s, n, tag)
  BY <1>1, <1>2, FindsAll
<1>4. Len(q) <= Len(r) /\ \A k \in 1 .. Len(q) : q[k] = r[k]
  BY <1>3, ListPrefix
<1>5. Len(r) <= Len(q)
  BY <1>3, ListPrefix
<1>6. q \in Seq(Nat) /\ r \in Seq(Nat)
  BY <1>3 DEF Lists
<1>7. q = r
  <2>1. PICK m \in Nat : m = Len(q) /\ m = Len(r)
    BY <1>4, <1>5, <1>6
  <2>2. q = [k \in 1 .. m |-> q[k]]
    BY <1>6, <2>1, SameSequence
  <2>3. r = [k \in 1 .. m |-> r[k]]
    BY <1>6, <2>1, SameSequence
  <2> QED
    BY <1>4, <2>1, <2>2, <2>3
<1> QED
  BY <1>1, <1>7

-----------------------------------------------------------------------------
(* A stream laid out of a header h, pages P and a tail t; o[k] is where    *)
(* page k begins, and its last value where the tail does.                  *)

Offsets(o, h, P) ==
  /\ o \in [1 .. Len(P) + 1 -> Nat] /\ o[1] = Len(h)
  /\ \A k \in 1 .. Len(P) : o[k + 1] = o[k] + Len(P[k])

Laid(s, h, P, t, o) ==
  /\ Offsets(o, h, P) /\ Len(s) = o[Len(P) + 1] + Len(t)
  /\ \A i \in 1 .. Len(h) : s[i] = h[i]
  /\ \A k \in 1 .. Len(P) : \A j \in 1 .. Len(P[k]) : s[o[k] + j] = P[k][j]
  /\ \A j \in 1 .. Len(t) : s[o[Len(P) + 1] + j] = t[j]

\* s is the first m pages, one behind the other.
FlatAt(s, P, m, o) ==
  /\ o \in [1 .. m + 1 -> Nat] /\ o[1] = 0 /\ Len(s) = o[m + 1]
  /\ \A k \in 1 .. m : o[k + 1] = o[k] + Len(P[k]) /\ o[k + 1] <= o[m + 1]
  /\ \A k \in 1 .. m : \A j \in 1 .. Len(P[k]) : s[o[k] + j] = P[k][j]

Flat(s, P, m) == \E o : FlatAt(s, P, m, o)

LEMMA Chained ==
  ASSUME NEW X, NEW a \in Seq(X), NEW b \in Seq(X)
  PROVE  /\ a \o b \in Seq(X) /\ Len(a \o b) = Len(a) + Len(b)
         /\ \A i \in 1 .. Len(a) : (a \o b)[i] = a[i]
         /\ \A i \in 1 .. Len(b) : (a \o b)[Len(a) + i] = b[i]
<1>1. PICK m \in Nat, n \in Nat : m = Len(a) /\ n = Len(b)
  OBVIOUS
<1>2. PICK h : h = a \o b
  OBVIOUS
<1>3. /\ h \in Seq(X) /\ Len(h) = m + n /\ \A i \in 1 .. m : h[i] = a[i]
      /\ \A i \in 1 .. n : h[m + i] = b[i]
  BY <1>1, <1>2
<1> QED
  BY <1>1, <1>2, <1>3

LEMMA FlatGrows ==
  ASSUME NEW X, NEW P, NEW m \in Nat, NEW s \in Seq(X), P[m + 1] \in Seq(X), Flat(s, P, m)
  PROVE  Flat(s \o P[m + 1], P, m + 1)
<1>1. PICK o : /\ o \in [1 .. m + 1 -> Nat] /\ o[1] = 0 /\ Len(s) = o[m + 1]
               /\ \A k \in 1 .. m : o[k + 1] = o[k] + Len(P[k]) /\ o[k + 1] <= o[m + 1]
               /\ \A k \in 1 .. m : \A j \in 1 .. Len(P[k]) : s[o[k] + j] = P[k][j]
  BY DEF Flat, FlatAt
<1>2. PICK b \in Seq(X) : b = P[m + 1]
  OBVIOUS
<1>3. PICK l \in Nat, e \in Nat : l = Len(b) /\ e = o[m + 1]
  <2>1. Len(b) \in Nat /\ o[m + 1] \in Nat
    BY <1>1
  <2> QED
    BY <2>1
<1>4. PICK r : r = s \o b
  OBVIOUS
<1>5. /\ Len(r) = e + l /\ \A i \in 1 .. e : r[i] = s[i]
      /\ \A i \in 1 .. l : r[e + i] = b[i]
  <2>1. /\ Len(r) = Len(s) + Len(b) /\ \A i \in 1 .. Len(s) : r[i] = s[i]
        /\ \A i \in 1 .. Len(b) : r[Len(s) + i] = b[i]
    BY <1>4, Chained
  <2>2. Len(s) = e /\ Len(b) = l
    BY <1>1, <1>3
  <2> QED
    BY <2>1, <2>2
<1>6. PICK n \in Nat : n = m + 1
  OBVIOUS
<1>7. PICK u : u = [k \in 1 .. n + 1 |-> IF k = n + 1 THEN e + l ELSE o[k]]
  OBVIOUS
<1>8. u[n + 1] = e + l /\ u[n] = e /\ \A k \in 1 .. n : u[k] = o[k]
  BY <1>1, <1>3, <1>6, <1>7
<1>9. u \in [1 .. n + 1 -> Nat]
  <2>1. \A k \in 1 .. n + 1 : k = n + 1 \/ k \in 1 .. m + 1
    BY <1>6
  <2>2. \A k \in 1 .. m + 1 : o[k] \in Nat
    BY <1>1
  <2>3. e + l \in Nat
    OBVIOUS
  <2>4. \A k \in 1 .. n + 1 : (IF k = n + 1 THEN e + l ELSE o[k]) \in Nat
    BY <2>1, <2>2, <2>3
  <2> QED
    BY <1>7, <2>4
<1>10. u[1] = 0
  BY <1>1, <1>6, <1>8
<1>11. ASSUME NEW k \in 1 .. n
       PROVE  u[k + 1] = u[k] + Len(P[k]) /\ u[k + 1] <= u[n + 1]
  <2>1. CASE k = n
    BY <1>2, <1>3, <1>6, <1>8, <2>1
  <2>2. CASE k # n
    <3>1. k \in 1 .. m /\ k + 1 \in 1 .. n
      BY <1>6, <2>2
    <3>2. o[k + 1] = o[k] + Len(P[k]) /\ o[k + 1] <= e /\ u[k] = o[k] /\ u[k + 1] = o[k + 1]
      BY <1>1, <1>3, <1>8, <3>1
    <3>3. o[k + 1] \in Nat
      BY <1>1, <1>6, <3>1
    <3> QED
      BY <1>8, <3>2, <3>3
  <2> QED
    BY <2>1, <2>2
<1>12. ASSUME NEW k \in 1 .. n, NEW j \in 1 .. Len(P[k]) PROVE r[u[k] + j] = P[k][j]
  <2>1. CASE k = n
    <3>1. j \in 1 .. l /\ u[k] = e /\ P[k] = b
      BY <1>2, <1>3, <1>6, <1>8, <1>12, <2>1
    <3> QED
      BY <1>5, <3>1
  <2>2. CASE k # n
    <3>1. k \in 1 .. m /\ u[k] = o[k] /\ k \in 1 .. m + 1
      BY <1>6, <1>8, <2>2
    <3>2. o[k] \in Nat /\ o[k + 1] = o[k] + Len(P[k]) /\ o[k + 1] <= e
      BY <1>1, <1>3, <3>1
    <3>3. k + 1 \in 1 .. m + 1
      BY <3>1
    <3>4. PICK q \in Nat : q = o[k + 1]
      BY <1>1, <3>3
    <3>5. PICK i \in Nat : i = o[k] + j
      BY <3>2
    <3>6. PICK z : z = Len(P[k])
      OBVIOUS
    <3>7. j <= z /\ q = o[k] + z
      BY <3>2, <3>4, <3>6
    <3>8. z \in Int
      BY <1>12, <3>6, <3>2, <3>4, <3>7
    <3>9. i \in 1 .. e
      <4>1. PICK x \in Nat : x = o[k]
        BY <3>2
      <4>2. PICK y \in 1 .. z : y = j
        BY <3>6
      <4>3. i = x + y
        BY <3>5, <4>1, <4>2, Zenon
      <4>4. q = x + z
        BY <3>7, <4>1, Zenon
      <4>5. q <= e
        BY <3>2, <3>4, Zenon
      <4> QED
        BY <3>8, <4>3, <4>4, <4>5
    <3> QED
      BY <1>1, <1>5, <3>1, <3>5, <3>9
  <2> QED
    BY <2>1, <2>2
<1>13. Len(r) = u[n + 1]
  BY <1>5, <1>8
<1>14. Flat(r, P, n)
  <2>1. \A k \in 1 .. n : u[k + 1] = u[k] + Len(P[k]) /\ u[k + 1] <= u[n + 1]
    BY <1>11
  <2>2. \A k \in 1 .. n : \A j \in 1 .. Len(P[k]) : r[u[k] + j] = P[k][j]
    BY <1>12
  <2>3. FlatAt(r, P, n, u)
    BY <1>9, <1>10, <1>13, <2>1, <2>2 DEF FlatAt
  <2> QED
    BY <2>3 DEF Flat
<1> QED
  BY <1>2, <1>4, <1>6, <1>14

LEMMA Flattened ==
  ASSUME NEW X, NEW P \in Seq(Seq(X)), P # <<>>
  PROVE  FlattenSeq(P) \in Seq(X) /\ Flat(FlattenSeq(P), P, Len(P))
<1>1. PICK n \in Nat \ {0} : n = Len(P)
  <2>1. Len(P) \in Nat \ {0}
    OBVIOUS
  <2> QED
    BY <2>1
<1>2. \A i \in 1 .. n : P[i] \in Seq(X)
  BY <1>1
<1>3. PICK V, none : V = Seq(X) /\ none = <<>> /\ none \in V
  <2>1. <<>> \in Seq(X)
    OBVIOUS
  <2> QED
    BY <2>1
<1>4. PICK st : st = [x \in (1 .. n) \X V |-> x[2] \o P[x[1]]]
  OBVIOUS
<1>5. st \in [(1 .. n) \X V -> V]
  <2>1. \A i \in 1 .. n, q \in V : q \o P[i] \in V
    BY <1>2, <1>3
  <2> QED
    BY <1>4, <2>1
<1>6. PICK g \in [0 .. n -> V] : Recurs(g, n, none, st)
  BY <1>3, <1>5, Recursion
<1> DEFINE Out(h) == h = [i \in 1 .. n |-> IF i = 1 THEN P[i] ELSE h[i - 1] \o P[i]]
<1>7. \E h : Out(h)
  <2>1. PICK r : r = [i \in 1 .. n |-> g[i]]
    OBVIOUS
  <2>2. ASSUME NEW i \in 1 .. n PROVE g[i] = IF i = 1 THEN P[i] ELSE r[i - 1] \o P[i]
    <3>1. i \in 0 .. n /\ i # 0 /\ i - 1 \in 0 .. n
      OBVIOUS
    <3>2. g[i] = st[<<i, g[i - 1]>>]
      BY <1>6, <3>1 DEF Recurs
    <3>3. g[i - 1] \in V
      BY <3>1
    <3>4. g[i] = g[i - 1] \o P[i]
      BY <1>4, <3>2, <3>3
    <3>5. CASE i = 1
      <4>1. g[0] = none
        BY <1>6 DEF Recurs
      <4>2. g[i] = <<>> \o P[1]
        <5>1. i - 1 = 0
          BY <3>5
        <5>2. g[i] = g[0] \o P[i]
          BY <3>4, <5>1
        <5> QED
          BY <1>3, <3>5, <4>1, <5>2
      <4>3. P[1] \in Seq(X)
        BY <1>2, <3>5
      <4>4. <<>> \o P[1] = P[1]
        BY <4>3
      <4> QED
        BY <3>5, <4>2, <4>4
    <3>6. CASE i # 1
      <4>1. i - 1 \in 1 .. n
        BY <3>6
      <4> QED
        BY <2>1, <3>4, <3>6, <4>1
    <3> QED
      BY <3>5, <3>6
  <2>3. Out(r)
    BY <2>1, <2>2
  <2> HIDE DEF Out
  <2> QED
    BY <2>3
<1>8. PICK h : Out(h) /\ FlattenSeq(P) = h[n]
  <2>1. FlattenSeq(P) = (CHOOSE h : Out(h))[n]
    BY <1>1 DEF FlattenSeq
  <2>2. Out(CHOOSE h : Out(h))
    <3> HIDE DEF Out
    <3> QED
      BY <1>7
  <2> HIDE DEF Out
  <2> QED
    BY <2>1, <2>2
<1> DEFINE S == {i \in Nat : i + 1 <= n => h[i + 1] \in Seq(X) /\ Flat(h[i + 1], P, i + 1)}
<1>9. 0 \in S
  <2>1. h[1] = P[1] /\ P[1] \in Seq(X) /\ 0 + 1 = 1
    BY <1>2, <1>8
  <2>2. PICK e \in Seq(X) : e = <<>>
    <3>1. <<>> \in Seq(X)
      OBVIOUS
    <3> QED
      BY <3>1
  <2>3. Flat(e, P, 0)
    <3>1. PICK o : o = [k \in 1 .. 0 + 1 |-> 0]
      OBVIOUS
    <3>2. o \in [1 .. 0 + 1 -> Nat] /\ o[1] = 0 /\ o[0 + 1] = 0
      BY <3>1
    <3>3. Len(e) = 0
      BY <2>2
    <3> QED
      BY <3>2, <3>3 DEF Flat, FlatAt
  <2>4. Flat(e \o P[0 + 1], P, 0 + 1)
    BY <2>1, <2>3, FlatGrows
  <2>5. e \o P[1] = P[1]
    BY <2>1, <2>2
  <2> QED
    BY <2>1, <2>4, <2>5
<1>10. ASSUME NEW i \in Nat, i < n, i \in S PROVE i + 1 \in S
  <2> SUFFICES ASSUME NEW j \in Nat, j = i + 1, j + 1 <= n
               PROVE  h[j + 1] \in Seq(X) /\ Flat(h[j + 1], P, j + 1)
    OBVIOUS
  <2>1. h[j] \in Seq(X) /\ Flat(h[j], P, j)
    BY <1>10
  <2>2. P[j + 1] \in Seq(X)
    BY <1>2
  <2>3. h[j + 1] = h[j] \o P[j + 1]
    <3>1. j + 1 \in 1 .. n /\ j + 1 # 1 /\ (j + 1) - 1 = j
      OBVIOUS
    <3> QED
      BY <1>8, <3>1
  <2>4. Flat(h[j] \o P[j + 1], P, j + 1)
    BY <2>1, <2>2, FlatGrows
  <2>5. h[j] \o P[j + 1] \in Seq(X)
    BY <2>1, <2>2, Chained
  <2> QED
    BY <2>3, <2>4, <2>5
<1>11. \A k \in 0 .. n : k \in S
  <2> HIDE DEF S
  <2> QED
    BY <1>9, <1>10, UpTo
<1>12. PICK m \in 0 .. n : n = m + 1
  <2>1. n - 1 \in 0 .. n /\ n = (n - 1) + 1
    OBVIOUS
  <2> QED
    BY <2>1
<1>13. h[n] \in Seq(X) /\ Flat(h[n], P, n)
  <2>1. m \in S
    BY <1>11
  <2> QED
    BY <1>12, <2>1
<1> QED
  BY <1>1, <1>8, <1>13

-----------------------------------------------------------------------------
(* Every element of a laid out stream is in the header, in one page or in  *)
(* the tail: there is one such stream.                                     *)

LEMMA Lengths ==
  ASSUME NEW X, NEW P \in Seq(Seq(X))
  PROVE  \E l \in [1 .. Len(P) -> Nat] : \A k \in 1 .. Len(P) : l[k] = Len(P[k])
<1>1. PICK l : l = [k \in 1 .. Len(P) |-> Len(P[k])]
  OBVIOUS
<1>2. ASSUME NEW k \in 1 .. Len(P) PROVE l[k] = Len(P[k]) /\ l[k] \in Nat
  <2>1. l[k] = Len(P[k])
    BY <1>1
  <2>2. PICK p \in Seq(X) : p = P[k]
    OBVIOUS
  <2>3. Len(p) \in Nat
    OBVIOUS
  <2> QED
    BY <2>1, <2>2, <2>3
<1>3. l \in [1 .. Len(P) -> Nat]
  <2>1. \A k \in 1 .. Len(P) : Len(P[k]) \in Nat
    BY <1>2
  <2> QED
    BY <1>1, <2>1
<1> QED
  BY <1>2, <1>3

InPages(o, h, P) ==
  \A i \in Len(h) + 1 .. o[Len(P) + 1] :
    \E k \in 1 .. Len(P) : \E j \in 1 .. Len(P[k]) : i = o[k] + j

LEMMA Covered ==
  ASSUME NEW X, NEW h \in Seq(X), NEW P \in Seq(Seq(X)), NEW o, Offsets(o, h, P)
  PROVE  InPages(o, h, P)
<1>1. PICK n \in Nat, a \in Nat : n = Len(P) /\ a = Len(h)
  OBVIOUS
<1>2. PICK l \in [1 .. n -> Nat] : \A k \in 1 .. n : l[k] = Len(P[k])
  BY <1>1, Lengths
<1>3. /\ o \in [1 .. n + 1 -> Nat] /\ o[1] = a
      /\ \A k \in 1 .. n : o[k + 1] = o[k] + l[k]
  BY <1>1, <1>2 DEF Offsets
<1> DEFINE In(i, k) == \E j \in 1 .. l[k] : i = o[k] + j
           S == {m \in Nat : m <= n => \A i \in a + 1 .. o[m + 1] : \E k \in 1 .. n : In(i, k)}
<1>4. 0 \in S
  BY <1>3
<1>5. ASSUME NEW m \in Nat, m < n, m \in S PROVE m + 1 \in S
  <2>1. PICK k \in 1 .. n : k = m + 1
    <3>1. m + 1 \in 1 .. n
      BY <1>5
    <3> QED
      BY <3>1
  <2>2. PICK x \in Nat, y \in Nat, z \in Nat : x = o[k] /\ y = l[k] /\ z = o[k + 1]
    <3>1. k \in 1 .. n + 1 /\ k + 1 \in 1 .. n + 1
      OBVIOUS
    <3>2. o[k] \in Nat /\ l[k] \in Nat /\ o[k + 1] \in Nat
      BY <1>2, <1>3, <3>1
    <3> QED
      BY <3>2
  <2>3. z = x + y
    BY <1>3, <2>2
  <2>4. \A i \in a + 1 .. x : \E q \in 1 .. n : In(i, q)
    BY <1>5, <2>1, <2>2
  <2>5. ASSUME NEW i \in a + 1 .. z, i > x PROVE In(i, k)
    <3>1. PICK j \in 1 .. y : i = x + j
      <4>1. i - x \in 1 .. y /\ i = x + (i - x)
        BY <2>3, <2>5
      <4> QED
        BY <4>1
    <3> QED
      BY <2>2, <3>1
  <2>6. \A i \in a + 1 .. z : \E q \in 1 .. n : In(i, q)
    <3> TAKE i \in a + 1 .. z
    <3> HIDE DEF In
    <3>1. CASE i > x
      BY <2>5, <3>1
    <3>2. CASE ~(i > x)
      <4>1. i \in a + 1 .. x
        BY <3>2
      <4> QED
        BY <2>4, <4>1
    <3> QED
      BY <3>1, <3>2
  <2>7. (m + 1) + 1 = k + 1
    BY <2>1
  <2> HIDE DEF In
  <2> QED
    BY <2>2, <2>6, <2>7
<1>6. n \in S
  <2> HIDE DEF S
  <2>1. \A k \in 0 .. n : k \in S
    BY <1>4, <1>5, UpTo
  <2> QED
    BY <2>1
<1>7. \A i \in a + 1 .. o[n + 1] : \E k \in 1 .. n : In(i, k)
  BY <1>6
<1> QED
  BY <1>1, <1>2, <1>7 DEF InPages

LEMMA OffsetsUnique ==
  ASSUME NEW X, NEW h \in Seq(X), NEW P \in Seq(Seq(X)), NEW o, NEW u,
         Offsets(o, h, P), Offsets(u, h, P)
  PROVE  o = u
<1>1. PICK n \in Nat : n = Len(P)
  OBVIOUS
<1>2. /\ o \in [1 .. n + 1 -> Nat] /\ u \in [1 .. n + 1 -> Nat] /\ o[1] = u[1]
      /\ \A k \in 1 .. n : o[k + 1] = o[k] + Len(P[k]) /\ u[k + 1] = u[k] + Len(P[k])
  BY <1>1 DEF Offsets
<1> DEFINE S == {m \in Nat : m <= n => o[m + 1] = u[m + 1]}
<1>3. 0 \in S
  BY <1>2
<1>4. ASSUME NEW m \in Nat, m < n, m \in S PROVE m + 1 \in S
  <2>1. m + 1 \in 1 .. n /\ o[m + 1] = u[m + 1]
    BY <1>4
  <2>2. o[(m + 1) + 1] = u[(m + 1) + 1]
    BY <1>2, <2>1
  <2> QED
    BY <2>2
<1>5. \A m \in 0 .. n : m \in S
  <2> HIDE DEF S
  <2> QED
    BY <1>3, <1>4, UpTo
<1>6. ASSUME NEW k \in 1 .. n + 1 PROVE o[k] = u[k]
  <2>1. PICK m \in 0 .. n : k = m + 1
    <3>1. k - 1 \in 0 .. n /\ k = (k - 1) + 1
      OBVIOUS
    <3> QED
      BY <3>1
  <2>2. m \in S
    BY <1>5
  <2> QED
    BY <2>1, <2>2
<1> QED
  BY <1>2, <1>6

LEMMA LaidUnique ==
  ASSUME NEW X, NEW h \in Seq(X), NEW P \in Seq(Seq(X)), NEW t \in Seq(X), NEW o, NEW u,
         NEW r \in Seq(X), NEW s \in Seq(X), Laid(r, h, P, t, o), Laid(s, h, P, t, u)
  PROVE  r = s
<1>1. o = u
  BY OffsetsUnique DEF Laid
<1>2. PICK n \in Nat, a \in Nat, b \in Nat : n = Len(P) /\ a = Len(h) /\ b = Len(t)
  OBVIOUS
<1>3. PICK e \in Nat : e = o[n + 1]
  <2>1. n + 1 \in 1 .. n + 1
    OBVIOUS
  <2> QED
    BY <1>2, <2>1 DEF Laid, Offsets
<1>4. /\ Len(r) = e + b /\ Len(s) = e + b
      /\ \A i \in 1 .. a : r[i] = s[i]
      /\ \A k \in 1 .. n : \A j \in 1 .. Len(P[k]) : r[o[k] + j] = s[o[k] + j]
      /\ \A j \in 1 .. b : r[e + j] = s[e + j]
  BY <1>1, <1>2, <1>3 DEF Laid
<1>5. \A i \in a + 1 .. e : \E k \in 1 .. n : \E j \in 1 .. Len(P[k]) : i = o[k] + j
  <2>1. Offsets(o, h, P)
    BY DEF Laid
  <2>2. InPages(o, h, P)
    BY <2>1, Covered
  <2> QED
    BY <1>2, <1>3, <2>2 DEF InPages
<1>6. ASSUME NEW i \in 1 .. e + b PROVE r[i] = s[i]
  <2>1. CASE i <= a
    BY <1>4, <2>1
  <2>2. CASE i > a /\ i <= e
    <3>1. i \in a + 1 .. e
      BY <2>2
    <3> QED
      BY <1>4, <1>5, <3>1
  <2>3. CASE i > e
    <3>1. i - e \in 1 .. b /\ i = e + (i - e)
      BY <2>3
    <3> QED
      BY <1>4, <3>1
  <2> QED
    BY <2>1, <2>2, <2>3
<1>7. r = [k \in 1 .. e + b |-> r[k]] /\ s = [k \in 1 .. e + b |-> s[k]]
  <2>1. r = [k \in 1 .. Len(r) |-> r[k]]
    BY SameSequence
  <2>2. s = [k \in 1 .. Len(s) |-> s[k]]
    BY SameSequence
  <2> QED
    BY <1>4, <2>1, <2>2
<1> QED
  BY <1>6, <1>7

LEMMA LaidOut ==
  ASSUME NEW X, NEW h \in Seq(X), NEW P \in Seq(Seq(X)), P # <<>>, NEW t \in Seq(X)
  PROVE  /\ h \o FlattenSeq(P) \o t \in Seq(X)
         /\ \E o : Laid(h \o FlattenSeq(P) \o t, h, P, t, o)
<1>1. PICK f \in Seq(X) : f = FlattenSeq(P) /\ Flat(f, P, Len(P))
  BY Flattened
<1>2. PICK n \in Nat, a \in Nat, b \in Nat : n = Len(P) /\ a = Len(h) /\ b = Len(t)
  OBVIOUS
<1>3. PICK v : FlatAt(f, P, n, v)
  BY <1>1, <1>2 DEF Flat
<1>4. /\ v \in [1 .. n + 1 -> Nat] /\ v[1] = 0 /\ Len(f) = v[n + 1]
      /\ \A k \in 1 .. n : v[k + 1] = v[k] + Len(P[k]) /\ v[k + 1] <= v[n + 1]
      /\ \A k \in 1 .. n : \A j \in 1 .. Len(P[k]) : f[v[k] + j] = P[k][j]
  BY <1>3 DEF FlatAt
<1>5. PICK m \in Nat : m = Len(f) /\ m = v[n + 1]
  BY <1>4
<1>6. PICK c \in Seq(X) : c = h \o f
  BY Chained
<1>7. /\ Len(c) = a + m /\ \A i \in 1 .. a : c[i] = h[i]
      /\ \A i \in 1 .. m : c[a + i] = f[i]
  <2>1. /\ Len(c) = Len(h) + Len(f) /\ \A i \in 1 .. Len(h) : c[i] = h[i]
        /\ \A i \in 1 .. Len(f) : c[Len(h) + i] = f[i]
    BY <1>6, Chained
  <2> QED
    BY <1>2, <1>5, <2>1
<1>8. PICK s \in Seq(X) : s = c \o t
  BY Chained
<1>9. /\ Len(s) = (a + m) + b /\ \A i \in 1 .. a + m : s[i] = c[i]
      /\ \A i \in 1 .. b : s[(a + m) + i] = t[i]
  <2>1. /\ Len(s) = Len(c) + Len(t) /\ \A i \in 1 .. Len(c) : s[i] = c[i]
        /\ \A i \in 1 .. Len(t) : s[Len(c) + i] = t[i]
    BY <1>8, Chained
  <2> QED
    BY <1>2, <1>7, <2>1
<1>10. PICK o : o = [k \in 1 .. n + 1 |-> a + v[k]]
  OBVIOUS
<1>11. \A k \in 1 .. n + 1 : o[k] = a + v[k] /\ v[k] \in Nat /\ o[k] \in Nat
  <2>1. ASSUME NEW k \in 1 .. n + 1
        PROVE  o[k] = a + v[k] /\ v[k] \in Nat /\ o[k] \in Nat
    <3>1. o[k] = a + v[k]
      BY <1>10
    <3>2. v[k] \in Nat
      BY <1>4
    <3>3. PICK x \in Nat : x = v[k]
      BY <3>2
    <3>4. a + x \in Nat
      OBVIOUS
    <3>5. o[k] \in Nat
      BY <3>1, <3>3, <3>4, Zenon
    <3> QED
      BY <3>1, <3>2, <3>5
  <2> QED
    BY <2>1
<1>12. o \in [1 .. n + 1 -> Nat]
  BY <1>10, <1>11
<1>13. o[1] = a /\ o[n + 1] = a + m
  <2>1. 1 \in 1 .. n + 1 /\ n + 1 \in 1 .. n + 1
    OBVIOUS
  <2>2. v[1] = 0 /\ v[n + 1] = m
    BY <1>4, <1>5
  <2>3. o[1] = a + 0 /\ o[n + 1] = a + m
    BY <1>11, <2>1, <2>2
  <2> QED
    BY <2>3
<1>14. PICK l \in [1 .. n -> Nat] : \A k \in 1 .. n : l[k] \in Nat /\ l[k] = Len(P[k])
  BY <1>2, Lengths
<1>15. ASSUME NEW k \in 1 .. n PROVE o[k + 1] = o[k] + l[k]
  <2>1. k \in 1 .. n + 1 /\ k + 1 \in 1 .. n + 1
    OBVIOUS
  <2>2. v[k + 1] = v[k] + l[k]
    BY <1>4, <1>14
  <2>3. PICK x \in Nat, y \in Nat, z \in Nat : x = v[k] /\ y = l[k] /\ z = v[k + 1]
    BY <1>11, <1>14, <2>1
  <2>4. o[k] = a + x /\ o[k + 1] = a + z /\ z = x + y
    BY <1>11, <2>1, <2>2, <2>3
  <2>5. o[k + 1] = (a + x) + y
    BY <2>4
  <2> QED
    BY <2>3, <2>4, <2>5, Zenon
<1>16. ASSUME NEW k \in 1 .. n, NEW j \in 1 .. l[k] PROVE s[o[k] + j] = P[k][j]
  <2>1. k \in 1 .. n + 1 /\ l[k] \in Nat
    BY <1>14
  <2>2. PICK x \in Nat : x = v[k] /\ x + l[k] <= m
    <3>1. v[k + 1] = v[k] + Len(P[k]) /\ v[k + 1] <= v[n + 1]
      BY <1>4
    <3>2. v[k] \in Nat /\ v[k] + l[k] <= m
      BY <1>5, <1>11, <1>14, <2>1, <3>1
    <3> QED
      BY <3>2
  <2>3. PICK y \in Nat : y = l[k]
    BY <2>1
  <2>4. PICK z \in 1 .. y : z = j
    BY <2>3
  <2>5. x + y <= m
    BY <2>2, <2>3
  <2>6. PICK i \in 1 .. m : i = x + z
    <3>1. x + z \in 1 .. m
      BY <2>5
    <3> QED
      BY <3>1
  <2>7. f[i] = P[k][j]
    BY <1>4, <1>14, <2>2, <2>4, <2>6
  <2>8. o[k] = a + x
    BY <1>11, <2>1, <2>2
  <2>9. o[k] + j = a + i /\ a + i \in 1 .. a + m
    BY <2>4, <2>6, <2>8
  <2> QED
    BY <1>7, <1>9, <2>7, <2>9
<1>17. Offsets(o, h, P)
  BY <1>2, <1>12, <1>13, <1>14, <1>15 DEF Offsets
<1>18. Laid(s, h, P, t, o)
  <2>1. Len(s) = o[n + 1] + b
    BY <1>9, <1>13, Zenon
  <2>2. \A i \in 1 .. a : s[i] = h[i]
    BY <1>7, <1>9
  <2>3. \A k \in 1 .. n : \A j \in 1 .. Len(P[k]) : s[o[k] + j] = P[k][j]
    BY <1>14, <1>16
  <2>4. \A j \in 1 .. b : s[o[n + 1] + j] = t[j]
    BY <1>9, <1>13
  <2> QED
    BY <1>2, <1>17, <2>1, <2>2, <2>3, <2>4 DEF Laid
<1>19. s = h \o FlattenSeq(P) \o t
  BY <1>1, <1>6, <1>8
<1> QED
  BY <1>18, <1>19

-----------------------------------------------------------------------------
(* What Split takes apart are pages from their open tag to their close     *)
(* tag, with no other tag of the two inside; and whatever is laid out of   *)
(* such pages is a page stream, and is split into just these.              *)

Plain(x) == x # PAGE_OPEN /\ x # PAGE_CLOSE

GoodPage(p) ==
  /\ Len(p) >= 2 /\ p[1] = PAGE_OPEN /\ p[Len(p)] = PAGE_CLOSE
  /\ \A j \in 2 .. Len(p) - 1 : Plain(p[j])

Good(h, P, t) ==
  /\ \A i \in 1 .. Len(h) : Plain(h[i])
  /\ \A k \in 1 .. Len(P) : GoodPage(P[k])
  /\ \A j \in 1 .. Len(t) : t[j] # PAGE_CLOSE /\ (j > 1 => t[j] # PAGE_OPEN)

LEMMA Between ==
  ASSUME NEW s, NEW n \in Nat, NEW tag, NEW q, Lists(q, s, n, tag), NEW i \in 1 .. n
  PROVE  /\ Len(q) >= 1 /\ i < q[1] => s[i] # tag
         /\ \A k \in 1 .. Len(q) - 1 : q[k] < i /\ i < q[k + 1] => s[i] # tag
         /\ Len(q) >= 1 /\ i > q[Len(q)] => s[i] # tag
<1>1. PICK m \in Nat : m = Len(q)
  BY DEF Lists
<1>2. /\ \A k \in 1 .. m : q[k] \in 1 .. n
      /\ \A j, k \in 1 .. m : j < k => q[j] < q[k]
      /\ \A j \in 1 .. n : s[j] = tag => \E k \in 1 .. m : q[k] = j
  BY <1>1 DEF Lists
<1> SUFFICES ASSUME s[i] = tag
             PROVE  /\ ~(m >= 1 /\ i < q[1])
                    /\ \A k \in 1 .. m - 1 : ~(q[k] < i /\ i < q[k + 1])
                    /\ ~(m >= 1 /\ i > q[m])
  BY <1>1
<1>3. PICK j \in 1 .. m : q[j] = i
  BY <1>2
<1>4. ~(m >= 1 /\ i < q[1])
  <2>1. 1 \in 1 .. m /\ (1 = j \/ 1 < j)
    OBVIOUS
  <2> QED
    BY <1>2, <1>3, <2>1
<1>5. ASSUME NEW k \in 1 .. m - 1 PROVE ~(q[k] < i /\ i < q[k + 1])
  <2>1. k \in 1 .. m /\ k + 1 \in 1 .. m
    OBVIOUS
  <2>2. q[k] \in Nat /\ q[k + 1] \in Nat /\ q[j] \in Nat
    BY <1>2, <2>1
  <2>3. CASE j < k
    BY <1>2, <1>3, <2>1, <2>2, <2>3
  <2>4. CASE j = k
    BY <1>3, <2>2, <2>4
  <2>5. CASE j = k + 1
    BY <1>3, <2>2, <2>5
  <2>6. CASE j > k + 1
    <3>1. q[k + 1] < q[j]
      BY <1>2, <2>1, <2>6
    <3> QED
      BY <1>3, <2>2, <3>1
  <2> QED
    BY <2>3, <2>4, <2>5, <2>6
<1>6. ~(m >= 1 /\ i > q[m])
  <2>1. m \in 1 .. m /\ (m = j \/ j < m)
    OBVIOUS
  <2> QED
    BY <1>2, <1>3, <2>1
<1> QED
  BY <1>4, <1>5, <1>6

Mounts(o, n) == \A j, k \in 1 .. n + 1 : j < k => o[j] < o[k]

LEMMA Mounting ==
  ASSUME NEW X, NEW h, NEW P \in Seq(Seq(X)), NEW o, Offsets(o, h, P),
         \A k \in 1 .. Len(P) : Len(P[k]) >= 1
  PROVE  Mounts(o, Len(P))
<1>1. PICK n \in Nat : n = Len(P)
  OBVIOUS
<1>2. PICK l \in [1 .. n -> Nat] : \A k \in 1 .. n : l[k] = Len(P[k])
  BY <1>1, Lengths
<1>3. /\ o \in [1 .. n + 1 -> Nat]
      /\ \A k \in 1 .. n : o[k + 1] = o[k] + l[k] /\ l[k] >= 1
  BY <1>1, <1>2 DEF Offsets
<1> DEFINE S == {m \in Nat : m <= n => \A j \in 1 .. m : o[j] < o[m + 1]}
<1>4. 0 \in S
  OBVIOUS
<1>5. ASSUME NEW m \in Nat, m < n, m \in S PROVE m + 1 \in S
  <2>1. PICK k \in 1 .. n : k = m + 1
    <3>1. m + 1 \in 1 .. n
      BY <1>5
    <3> QED
      BY <3>1
  <2>2. \A j \in 1 .. m : o[j] < o[k]
    BY <1>5, <2>1
  <2>3. o[k] < o[k + 1] /\ o[k] \in Nat /\ o[k + 1] \in Nat
    <3>1. o[k] \in Nat /\ l[k] \in Nat /\ k + 1 \in 1 .. n + 1
      BY <1>2, <1>3
    <3>2. o[k + 1] \in Nat
      BY <1>3, <3>1
    <3>3. o[k + 1] = o[k] + l[k] /\ l[k] >= 1
      BY <1>3
    <3> QED
      BY <3>1, <3>2, <3>3
  <2>4. \A j \in 1 .. k : o[j] < o[k + 1]
    <3> TAKE j \in 1 .. k
    <3>1. CASE j = k
      BY <2>3, <3>1
    <3>2. CASE j # k
      <4>1. j \in 1 .. m /\ j \in 1 .. n + 1
        BY <2>1, <3>2
      <4>2. o[j] < o[k] /\ o[j] \in Nat
        BY <1>3, <2>2, <4>1
      <4> QED
        BY <2>3, <4>2
    <3> QED
      BY <3>1, <3>2
  <2> QED
    BY <2>1, <2>4
<1>6. \A m \in 0 .. n : m \in S
  <2> HIDE DEF S
  <2> QED
    BY <1>4, <1>5, UpTo
<1>7. ASSUME NEW j \in 1 .. n + 1, NEW k \in 1 .. n + 1, j < k PROVE o[j] < o[k]
  <2>1. PICK m \in 0 .. n : k = m + 1
    <3>1. k - 1 \in 0 .. n /\ k = (k - 1) + 1
      OBVIOUS
    <3> QED
      BY <3>1
  <2>2. m \in S /\ j \in 1 .. m
    BY <1>6, <1>7, <2>1
  <2> QED
    BY <2>1, <2>2
<1> QED
  BY <1>1, <1>7 DEF Mounts

LEMMA Slice ==
  ASSUME NEW X, NEW s \in Seq(X), NEW a \in Nat, NEW b \in Nat, a <= b, b <= Len(s)
  PROVE  /\ SubSeq(s, a + 1, b) \in Seq(X) /\ Len(SubSeq(s, a + 1, b)) = b - a
         /\ \A j \in 1 .. b - a : SubSeq(s, a + 1, b)[j] = s[a + j]
<1>1. PICK m \in Nat \ {0} : m = a + 1
  OBVIOUS
<1>2. PICK t : t = SubSeq(s, m, b)
  OBVIOUS
<1>3. /\ t \in Seq(X) /\ Len(t) = b - m + 1
      /\ \A k \in 1 .. Len(t) : t[k] = s[k + m - 1]
  BY <1>1, <1>2, SubSeqFacts
<1>4. Len(t) = b - a /\ \A k \in 1 .. b - a : k + m - 1 = a + k
  BY <1>1, <1>3
<1> QED
  BY <1>1, <1>2, <1>3, <1>4

LEMMA SliceIs ==
  ASSUME NEW X, NEW s \in Seq(X), NEW p \in Seq(X), NEW a \in Nat, NEW b \in Nat,
         b = a + Len(p), b <= Len(s), \A j \in 1 .. Len(p) : s[a + j] = p[j]
  PROVE  SubSeq(s, a + 1, b) = p
<1>1. PICK n \in Nat : n = Len(p)
  OBVIOUS
<1>2. a <= b /\ b - a = n
  BY <1>1
<1>3. PICK r : r = SubSeq(s, a + 1, b)
  OBVIOUS
<1>4. r \in Seq(X) /\ Len(r) = n /\ \A j \in 1 .. n : r[j] = s[a + j]
  BY <1>2, <1>3, Slice
<1>5. r = [j \in 1 .. n |-> r[j]]
  <2>1. r = [j \in 1 .. Len(r) |-> r[j]]
    BY <1>4, SameSequence
  <2> QED
    BY <1>4, <2>1
<1>6. p = [j \in 1 .. n |-> p[j]]
  BY <1>1, SameSequence
<1>7. r = p
  BY <1>1, <1>4, <1>5, <1>6
<1> QED
  BY <1>3, <1>7

Parts(s, h, P, t) ==
  Split(s).header = h /\ Split(s).pages = P /\ Split(s).tail = t

Taken(s, h, P, t) ==
  P # <<>> /\ Parts(s, h, P, t) /\ Good(h, P, t) /\ \E o : Laid(s, h, P, t, o)

LEMMA StreamIs ==
  ASSUME NEW X, NEW f \in Seq(X), IsPageStream(f)
  PROVE  \E h \in Seq(X), t \in Seq(X), P \in Seq(Seq(X)) : Taken(f, h, P, t)
<1>1. PICK S, E : S = FindAll(f, PAGE_OPEN) /\ E = FindAll(f, PAGE_CLOSE)
  OBVIOUS
<1>2. PICK z \in Nat : z = Len(f)
  OBVIOUS
<1>3. Lists(S, f, z, PAGE_OPEN) /\ Lists(E, f, z, PAGE_CLOSE)
  BY <1>1, <1>2, FindsAll
<1>4. PICK n \in Nat, m \in Nat : n = Len(E) /\ m = Len(S)
  BY <1>3 DEF Lists
<1>5. /\ S \in Seq(Nat) /\ E \in Seq(Nat)
      /\ \A k \in 1 .. m : S[k] \in 1 .. z /\ f[S[k]] = PAGE_OPEN
      /\ \A k \in 1 .. n : E[k] \in 1 .. z /\ f[E[k]] = PAGE_CLOSE
  BY <1>3, <1>4 DEF Lists
<1>6. /\ n >= 1 /\ m \in {n, n + 1}
      /\ \A k \in 1 .. n : S[k] < E[k]
      /\ \A k \in 1 .. m - 1 : E[k] + 1 = S[k + 1]
  <2>1. DOMAIN E = 1 .. n
    BY <1>4, <1>5
  <2>2. /\ E # <<>> /\ m \in {n, n + 1}
        /\ \A k \in DOMAIN E : S[k] < E[k]
        /\ \A k \in 1 .. m - 1 : E[k] + 1 = S[k + 1]
    BY <1>1, <1>4 DEF IsPageStream
  <2>3. n >= 1
    BY <1>4, <1>5, <2>2
  <2> QED
    BY <2>1, <2>2, <2>3
<1>7. PICK o : o = [k \in 1 .. n + 1 |-> IF k = n + 1 THEN E[n] ELSE S[k] - 1]
  OBVIOUS
<1>8. /\ o[n + 1] = E[n] /\ \A k \in 1 .. n : o[k] = S[k] - 1 /\ o[k] \in Nat
      /\ E[n] \in Nat /\ E[n] <= z
  <2>1. \A k \in 1 .. n : k \in 1 .. m /\ S[k] \in 1 .. z /\ k # n + 1 /\ k \in 1 .. n + 1
    BY <1>5, <1>6
  <2>2. E[n] \in 1 .. z
    BY <1>5, <1>6
  <2> QED
    BY <1>7, <2>1, <2>2
<1>9. ASSUME NEW k \in 1 .. n
      PROVE  /\ o[k + 1] = E[k] /\ E[k] \in Nat /\ E[k] <= z
             /\ o[k] \in Nat /\ o[k] + 2 <= E[k]
  <2>1. S[k] \in 1 .. z /\ E[k] \in 1 .. z /\ S[k] < E[k]
    BY <1>5, <1>6
  <2>2. o[k + 1] = E[k]
    <3>1. CASE k = n
      BY <1>8, <3>1
    <3>2. CASE k # n
      <4>1. k + 1 \in 1 .. n /\ k \in 1 .. m - 1
        BY <1>6, <3>2
      <4>2. o[k + 1] = S[k + 1] - 1 /\ S[k + 1] = E[k] + 1
        BY <1>6, <1>8, <4>1
      <4> QED
        BY <2>1, <4>2
    <3> QED
      BY <3>1, <3>2
  <2>3. o[k] = S[k] - 1 /\ o[k] \in Nat
    BY <1>8
  <2>4. o[k] + 2 <= E[k]
    BY <2>1, <2>3
  <2> QED
    BY <2>1, <2>2, <2>3, <2>4
<1>10. o \in [1 .. n + 1 -> Nat]
  <2>1. \A k \in 1 .. n + 1 : k = n + 1 \/ k \in 1 .. n
    OBVIOUS
  <2>2. \A k \in 1 .. n + 1 : o[k] \in Nat
    BY <1>8, <2>1
  <2> QED
    BY <1>7, <2>2
<1>11. PICK a \in Nat : a = o[1] /\ a = S[1] - 1 /\ a <= z
  <2>1. 1 \in 1 .. n
    BY <1>6
  <2>2. o[1] \in Nat /\ o[1] = S[1] - 1 /\ o[1] <= z
    <3>1. o[1] \in Nat /\ o[1] = S[1] - 1
      BY <1>8, <2>1
    <3>2. E[1] \in Nat /\ E[1] <= z /\ o[1] + 2 <= E[1]
      BY <1>9, <2>1
    <3>3. o[1] <= z
      BY <3>1, <3>2
    <3> QED
      BY <3>1, <3>3
  <2> QED
    BY <2>2
<1>12. PICK h \in Seq(X) : /\ h = SubSeq(f, 1, S[1] - 1) /\ Len(h) = a
                           /\ \A i \in 1 .. a : h[i] = f[i]
  <2>1. PICK h : h = SubSeq(f, 0 + 1, a)
    OBVIOUS
  <2>2. h \in Seq(X) /\ Len(h) = a - 0 /\ \A i \in 1 .. a - 0 : h[i] = f[0 + i]
    BY <1>2, <1>11, <2>1, Slice
  <2>3. 0 + 1 = 1 /\ a - 0 = a /\ \A i \in 1 .. a : 0 + i = i
    OBVIOUS
  <2>4. h = SubSeq(f, 1, S[1] - 1)
    BY <1>11, <2>1, <2>3
  <2>5. Len(h) = a /\ \A i \in 1 .. a : h[i] = f[i]
    BY <2>2, <2>3
  <2> QED
    BY <2>2, <2>4, <2>5
<1>13. PICK P : P = [k \in 1 .. n |-> SubSeq(f, S[k], E[k])]
  OBVIOUS
<1>14. ASSUME NEW k \in 1 .. n
       PROVE  /\ P[k] \in Seq(X) /\ Len(P[k]) = E[k] - o[k]
              /\ \A j \in 1 .. E[k] - o[k] : P[k][j] = f[o[k] + j]
  <2>1. PICK x \in Nat, y \in Nat : x = o[k] /\ y = E[k]
    BY <1>9
  <2>2. x + 1 = S[k] /\ x <= y /\ y <= z
    <3>1. x = S[k] - 1 /\ S[k] \in 1 .. z
      <4>1. k \in 1 .. m
        BY <1>6
      <4>2. S[k] \in 1 .. z
        BY <1>5, <4>1
      <4>3. x = S[k] - 1
        BY <1>8, <2>1
      <4> QED
        BY <4>2, <4>3
    <3>2. x + 1 = S[k]
      BY <3>1
    <3>3. x + 2 <= y /\ y <= z
      BY <1>9, <2>1
    <3> QED
      BY <3>2, <3>3
  <2>3. P[k] = SubSeq(f, x + 1, y)
    BY <1>13, <2>1, <2>2
  <2>4. PICK p : p = SubSeq(f, x + 1, y)
    OBVIOUS
  <2>5. p \in Seq(X) /\ Len(p) = y - x /\ \A j \in 1 .. y - x : p[j] = f[x + j]
    BY <1>2, <2>2, <2>4, Slice
  <2> QED
    BY <2>1, <2>3, <2>4, <2>5
<1>15. P \in Seq(Seq(X)) /\ Len(P) = n /\ P # <<>>
  <2>1. P \in [1 .. n -> Seq(X)]
    BY <1>13, <1>14
  <2>2. P \in Seq(Seq(X)) /\ Len(P) = n
    BY <2>1
  <2> QED
    BY <1>6, <2>2
<1>16. PICK e \in Nat : e = E[n] /\ e = o[n + 1] /\ e <= z
  BY <1>8
<1>17. PICK t \in Seq(X) : /\ t = SubSeq(f, E[n] + 1, z) /\ Len(t) = z - e
                           /\ \A j \in 1 .. z - e : t[j] = f[e + j]
  <2>1. PICK t : t = SubSeq(f, e + 1, z)
    OBVIOUS
  <2>2. t \in Seq(X) /\ Len(t) = z - e /\ \A j \in 1 .. z - e : t[j] = f[e + j]
    <3>1. e <= z /\ z <= Len(f)
      BY <1>2, <1>16
    <3> QED
      BY <2>1, <3>1, Slice
  <2> QED
    BY <1>16, <2>1, <2>2
<1>18. Parts(f, h, P, t)
  <2>1. DOMAIN E = 1 .. n
    BY <1>4, <1>5
  <2>2. PICK x, y, w : /\ x = SubSeq(f, 1, S[1] - 1)
                       /\ y = [k \in DOMAIN E |-> SubSeq(f, S[k], E[k])]
                       /\ w = SubSeq(f, E[Len(E)] + 1, Len(f))
    OBVIOUS
  <2>3. Split(f) = [header |-> x, pages |-> y, tail |-> w]
    BY <1>1, <2>2 DEF Split
  <2>4. Split(f).header = x /\ Split(f).pages = y /\ Split(f).tail = w
    BY <2>3
  <2>5. w = SubSeq(f, E[n] + 1, z)
    BY <1>2, <1>4, <2>2
  <2>6. y = [k \in 1 .. n |-> SubSeq(f, S[k], E[k])]
    BY <2>1, <2>2
  <2>7. x = h /\ y = P /\ w = t
    BY <1>12, <1>13, <1>17, <2>2, <2>5, <2>6, Zenon
  <2> QED
    BY <2>4, <2>7, Zenon DEF Parts
<1>19. Offsets(o, h, P)
  <2>1. ASSUME NEW k \in 1 .. n PROVE o[k + 1] = o[k] + Len(P[k])
    <3>1. PICK x \in Nat, y \in Nat : x = o[k] /\ y = E[k]
      BY <1>9
    <3>2. Len(P[k]) = y - x /\ o[k + 1] = y
      BY <1>9, <1>14, <3>1
    <3> QED
      BY <3>1, <3>2
  <2> QED
    BY <1>10, <1>11, <1>12, <1>15, <2>1 DEF Offsets
<1>20. Laid(f, h, P, t, o)
  <2>1. z = o[n + 1] + Len(t)
    BY <1>16, <1>17
  <2>2. ASSUME NEW k \in 1 .. n, NEW j \in 1 .. Len(P[k]) PROVE f[o[k] + j] = P[k][j]
    BY <1>14, <2>2
  <2>3. \A j \in 1 .. Len(t) : f[o[n + 1] + j] = t[j]
    BY <1>16, <1>17
  <2>4. \A i \in 1 .. Len(h) : f[i] = h[i]
    BY <1>12
  <2> QED
    BY <1>2, <1>15, <1>19, <2>1, <2>2, <2>3, <2>4 DEF Laid
<1>21. \A i \in 1 .. a : Plain(h[i])
  <2> TAKE i \in 1 .. a
  <2>1. i \in 1 .. z /\ i < S[1] /\ S[1] \in 1 .. z
    <3>1. 1 \in 1 .. m
      BY <1>6
    <3>2. S[1] \in 1 .. z /\ a = S[1] - 1 /\ a <= z
      BY <1>5, <1>11, <3>1
    <3> QED
      BY <3>2
  <2>2. i < E[1]
    BY <1>5, <1>6, <2>1
  <2>3. f[i] # PAGE_OPEN
    BY <1>3, <1>4, <1>6, <2>1, Between
  <2>4. f[i] # PAGE_CLOSE
    BY <1>3, <1>4, <1>6, <2>1, <2>2, Between
  <2> QED
    BY <1>12, <2>3, <2>4 DEF Plain
<1>22. ASSUME NEW k \in 1 .. n PROVE GoodPage(P[k])
  <2>1. PICK x \in Nat, y \in Nat : x = o[k] /\ y = E[k]
    BY <1>9
  <2>2. /\ x + 2 <= y /\ y <= z /\ x + 1 = S[k] /\ f[x + 1] = PAGE_OPEN /\ f[y] = PAGE_CLOSE
        /\ k \in 1 .. m
    <3>1. k \in 1 .. m /\ S[k] \in 1 .. z /\ x = S[k] - 1
      <4>1. k \in 1 .. m
        BY <1>6
      <4>2. S[k] \in 1 .. z
        BY <1>5, <4>1
      <4>3. x = S[k] - 1
        BY <1>8, <2>1
      <4> QED
        BY <4>1, <4>2, <4>3
    <3>2. x + 1 = S[k]
      BY <3>1
    <3>3. f[S[k]] = PAGE_OPEN /\ f[E[k]] = PAGE_CLOSE
      BY <1>5, <3>1
    <3>4. x + 2 <= y /\ y <= z
      BY <1>9, <2>1
    <3> QED
      BY <2>1, <3>1, <3>2, <3>3, <3>4
  <2>3. PICK p \in Seq(X) : p = P[k]
    BY <1>14
  <2>4. Len(p) = y - x /\ \A j \in 1 .. y - x : p[j] = f[x + j]
    BY <1>14, <2>1, <2>3
  <2>5. p[1] = PAGE_OPEN /\ p[Len(p)] = PAGE_CLOSE
    <3>1. 1 \in 1 .. y - x /\ y - x \in 1 .. y - x /\ x + (y - x) = y
      BY <2>2
    <3>2. p[1] = f[x + 1] /\ p[y - x] = f[y]
      BY <2>4, <3>1
    <3> QED
      BY <2>2, <2>4, <3>2
  <2>6. ASSUME NEW j \in 2 .. y - x - 1 PROVE Plain(p[j])
    <3>1. PICK i \in 1 .. z : i = x + j
      <4>1. x + j \in 1 .. z
        BY <2>2
      <4> QED
        BY <4>1
    <3>2. S[k] < i /\ i < E[k] /\ j \in 1 .. y - x
      <4>1. x + 1 < i /\ i < y /\ j \in 1 .. y - x
        BY <3>1
      <4> QED
        BY <2>1, <2>2, <4>1
    <3>3. f[i] # PAGE_OPEN
      <4>1. CASE k + 1 \in 1 .. m
        <5>1. k \in 1 .. m - 1 /\ S[k + 1] = E[k] + 1
          BY <1>6, <4>1
        <5>2. i < S[k + 1]
          BY <2>1, <3>2, <5>1
        <5> QED
          BY <1>3, <1>4, <3>2, <5>1, <5>2, Between
      <4>2. CASE k + 1 \notin 1 .. m
        <5>1. k = m /\ m >= 1
          BY <2>2, <4>2
        <5> QED
          BY <1>3, <1>4, <3>2, <5>1, Between
      <4> QED
        BY <4>1, <4>2
    <3>4. f[i] # PAGE_CLOSE
      <4>1. CASE k = 1
        BY <1>3, <1>4, <1>6, <3>2, <4>1, Between
      <4>2. CASE k # 1
        <5>1. PICK c \in 1 .. n - 1 : k = c + 1
          <6>1. k - 1 \in 1 .. n - 1 /\ k = (k - 1) + 1
            BY <4>2
          <6> QED
            BY <6>1
        <5>2. c \in 1 .. m - 1 /\ E[c] + 1 = S[k] /\ E[c] \in Nat
          BY <1>5, <1>6, <5>1
        <5>3. E[c] < i
          BY <2>2, <3>2, <5>2
        <5> QED
          BY <1>3, <1>4, <3>2, <5>1, <5>3, Between
      <4> QED
        BY <4>1, <4>2
    <3> QED
      BY <2>4, <3>1, <3>2, <3>3, <3>4 DEF Plain
  <2>7. Len(p) >= 2 /\ \A j \in 2 .. Len(p) - 1 : Plain(p[j])
    BY <2>2, <2>4, <2>6
  <2> QED
    BY <2>3, <2>5, <2>7 DEF GoodPage
<1>23. ASSUME NEW j \in 1 .. z - e PROVE t[j] # PAGE_CLOSE /\ (j > 1 => t[j] # PAGE_OPEN)
  <2>1. PICK i \in 1 .. z : i = e + j
    <3>1. e + j \in 1 .. z
      BY <1>16
    <3> QED
      BY <3>1
  <2>2. t[j] = f[i] /\ i > E[n]
    <3>1. i > e
      BY <2>1
    <3> QED
      BY <1>16, <1>17, <2>1, <3>1
  <2>3. f[i] # PAGE_CLOSE
    BY <1>3, <1>4, <1>6, <2>2, Between
  <2>4. j > 1 => f[i] # PAGE_OPEN
    <3> SUFFICES ASSUME j > 1 PROVE f[i] # PAGE_OPEN
      OBVIOUS
    <3>1. i > S[m]
      <4>1. CASE m = n
        <5>1. S[n] \in 1 .. z /\ E[n] \in 1 .. z /\ S[n] < E[n]
          BY <1>5, <1>6, <4>1
        <5> QED
          BY <2>2, <4>1, <5>1
      <4>2. CASE m = n + 1
        <5>1. n \in 1 .. m - 1
          BY <1>6, <4>2
        <5>2. S[m] = e + 1
          BY <1>6, <1>16, <4>2, <5>1
        <5> QED
          BY <2>1, <5>2
      <4> QED
        BY <1>6, <4>1, <4>2
    <3> QED
      BY <1>3, <1>4, <1>6, <3>1, Between
  <2> QED
    BY <2>2, <2>3, <2>4
<1>24. Good(h, P, t)
  BY <1>12, <1>15, <1>17, <1>21, <1>22, <1>23 DEF Good
<1>25. Taken(f, h, P, t)
  BY <1>15, <1>18, <1>20, <1>24 DEF Taken
<1> QED
  BY <1>15, <1>25

LEMMA TagsDiffer == PAGE_OPEN # PAGE_CLOSE
  BY DEF PAGE_OPEN, PAGE_CLOSE

\* Where an element of a laid out stream is.
InHeader(o, h, i) == i \in 1 .. Len(h)
InPage(o, P, i) == \E k \in 1 .. Len(P) : \E j \in 1 .. Len(P[k]) : i = o[k] + j
InTail(o, P, t, i) == \E j \in 1 .. Len(t) : i = o[Len(P) + 1] + j

LEMMA Somewhere ==
  ASSUME NEW X, NEW g \in Seq(X), NEW h \in Seq(X), NEW P \in Seq(Seq(X)), NEW t \in Seq(X),
         NEW o, Laid(g, h, P, t, o), NEW i \in 1 .. Len(g)
  PROVE  InHeader(o, h, i) \/ InPage(o, P, i) \/ InTail(o, P, t, i)
<1>1. PICK n \in Nat, a \in Nat, b \in Nat : n = Len(P) /\ a = Len(h) /\ b = Len(t)
  OBVIOUS
<1>2. Offsets(o, h, P) /\ Len(g) = o[n + 1] + b
  BY <1>1 DEF Laid
<1>3. PICK e \in Nat : e = o[n + 1]
  <2>1. n + 1 \in 1 .. n + 1
    OBVIOUS
  <2> QED
    BY <1>1, <1>2, <2>1 DEF Offsets
<1>4. i \in 1 .. e + b
  BY <1>2, <1>3
<1>5. CASE i <= a
  BY <1>1, <1>4, <1>5 DEF InHeader
<1>6. CASE i > a /\ i <= e
  <2>1. InPages(o, h, P)
    BY <1>2, Covered
  <2>2. i \in a + 1 .. e
    BY <1>4, <1>6
  <2> QED
    BY <1>1, <1>3, <2>1, <2>2 DEF InPages, InPage
<1>7. CASE i > e
  <2>1. i - e \in 1 .. b /\ i = e + (i - e)
    BY <1>4, <1>7
  <2> QED
    BY <1>1, <1>3, <2>1 DEF InTail
<1> QED
  BY <1>1, <1>4, <1>5, <1>6, <1>7

LEMMA Opens ==
  ASSUME NEW X, NEW g \in Seq(X), NEW h \in Seq(X), NEW P \in Seq(Seq(X)), NEW t \in Seq(X),
         NEW o, Laid(g, h, P, t, o), Good(h, P, t), P # <<>>
  PROVE  \E q : /\ FindAll(g, PAGE_OPEN) = q
                /\ Len(q) = Len(P) \/ Len(q) = Len(P) + 1
                /\ \A k \in 1 .. Len(q) : q[k] = o[k] + 1
<1>1. PICK n \in Nat, a \in Nat, b \in Nat : n = Len(P) /\ a = Len(h) /\ b = Len(t)
  OBVIOUS
<1>2. /\ o \in [1 .. n + 1 -> Nat] /\ o[1] = a /\ Len(g) = o[n + 1] + b
      /\ \A i \in 1 .. a : g[i] = h[i]
      /\ \A k \in 1 .. n : o[k + 1] = o[k] + Len(P[k])
      /\ \A k \in 1 .. n : \A j \in 1 .. Len(P[k]) : g[o[k] + j] = P[k][j]
      /\ \A j \in 1 .. b : g[o[n + 1] + j] = t[j]
  BY <1>1 DEF Laid, Offsets
<1>3. /\ \A i \in 1 .. a : Plain(h[i])
      /\ \A k \in 1 .. n : GoodPage(P[k])
      /\ \A j \in 1 .. b : t[j] # PAGE_CLOSE /\ (j > 1 => t[j] # PAGE_OPEN)
  BY <1>1 DEF Good
<1>4. PICK z \in Nat, e \in Nat : z = Len(g) /\ e = o[n + 1] /\ z = e + b
  <2>1. n + 1 \in 1 .. n + 1
    OBVIOUS
  <2>2. o[n + 1] \in Nat
    BY <1>2, <2>1
  <2> QED
    BY <1>2, <2>2
<1>5. \A j, k \in 1 .. n + 1 : j < k => o[j] < o[k]
  <2>1. \A k \in 1 .. Len(P) : Len(P[k]) >= 1
    BY <1>1, <1>3 DEF GoodPage
  <2>2. Offsets(o, h, P)
    BY DEF Laid
  <2>3. Mounts(o, Len(P))
    BY <2>1, <2>2, Mounting
  <2> QED
    BY <1>1, <2>3 DEF Mounts
<1>6. \A k \in 1 .. n : o[k] < e
  BY <1>4, <1>5
<1>7. PICK m \in Nat : /\ m = n \/ m = n + 1
                       /\ m = n + 1 => b >= 1 /\ t[1] = PAGE_OPEN
                       /\ b >= 1 /\ t[1] = PAGE_OPEN => m = n + 1
  <2>1. CASE b >= 1 /\ t[1] = PAGE_OPEN
    <3>1. n + 1 \in Nat
      OBVIOUS
    <3> QED
      BY <2>1, <3>1
  <2>2. CASE ~(b >= 1 /\ t[1] = PAGE_OPEN)
    <3>1. n # n + 1
      OBVIOUS
    <3> QED
      BY <2>2, <3>1
  <2> QED
    BY <2>1, <2>2
<1>8. PICK q : q = [k \in 1 .. m |-> o[k] + 1]
  OBVIOUS
<1>9. \A k \in 1 .. m : k \in 1 .. n + 1 /\ q[k] = o[k] + 1 /\ o[k] \in Nat /\ q[k] \in Nat
  <2> TAKE k \in 1 .. m
  <2>1. k \in 1 .. n + 1
    BY <1>7
  <2>2. o[k] \in Nat /\ q[k] = o[k] + 1
    BY <1>2, <1>8, <2>1
  <2> QED
    BY <2>1, <2>2
<1>10. q \in Seq(Nat) /\ Len(q) = m
  <2>1. q \in [1 .. m -> Nat]
    BY <1>8, <1>9
  <2> QED
    BY <2>1
<1>11. ASSUME NEW k \in 1 .. m PROVE q[k] \in 1 .. z /\ g[q[k]] = PAGE_OPEN
  <2>1. CASE k \in 1 .. n
    <3>1. GoodPage(P[k])
      BY <1>3, <2>1
    <3>2. PICK p \in Seq(X) : p = P[k]
      BY <1>1, <2>1
    <3>3. Len(p) >= 2 /\ p[1] = PAGE_OPEN /\ 1 \in 1 .. Len(p)
      BY <3>1, <3>2 DEF GoodPage
    <3>4. g[o[k] + 1] = PAGE_OPEN
      <4>1. \A j \in 1 .. Len(p) : g[o[k] + j] = p[j]
        BY <1>2, <2>1, <3>2
      <4> QED
        BY <3>3, <4>1
    <3>5. o[k] + 1 <= z /\ o[k] \in Nat /\ q[k] = o[k] + 1
      <4>1. o[k] < e /\ o[k] \in Nat /\ q[k] = o[k] + 1
        BY <1>6, <1>9, <2>1
      <4>2. PICK x \in Nat : x = o[k] /\ x < e
        BY <4>1
      <4>3. e <= z
        <5>1. z = e + b
          BY <1>4
        <5> QED
          BY <5>1
      <4>4. x + 1 <= z
        BY <4>2, <4>3
      <4> QED
        BY <4>1, <4>2, <4>4
    <3>6. q[k] \in 1 .. z
      BY <3>5
    <3> QED
      BY <3>4, <3>5, <3>6
  <2>2. CASE k \notin 1 .. n
    <3>1. k = n + 1 /\ m = n + 1
      BY <1>7, <2>2
    <3>2. b >= 1 /\ t[1] = PAGE_OPEN /\ 1 \in 1 .. b
      BY <1>7, <3>1
    <3>3. g[e + 1] = PAGE_OPEN
      BY <1>2, <1>4, <3>2
    <3>4. q[k] = e + 1
      <4>1. q[k] = o[k] + 1 /\ o[k] = e
        BY <1>4, <1>9, <3>1
      <4> QED
        BY <4>1
    <3>5. e + 1 \in 1 .. z
      <4>1. z = e + b /\ b >= 1
        BY <1>4, <3>2
      <4> QED
        BY <4>1
    <3> QED
      BY <3>3, <3>4, <3>5
  <2> QED
    BY <2>1, <2>2
<1>12. ASSUME NEW j \in 1 .. m, NEW k \in 1 .. m, j < k PROVE q[j] < q[k]
  <2>1. o[j] < o[k]
    BY <1>5, <1>9, <1>12
  <2> QED
    BY <1>9, <2>1
<1>13. ASSUME NEW i \in 1 .. z, g[i] = PAGE_OPEN PROVE \E k \in 1 .. m : q[k] = i
  <2>1. InHeader(o, h, i) \/ InPage(o, P, i) \/ InTail(o, P, t, i)
    BY <1>4, Somewhere
  <2>2. ~InHeader(o, h, i)
    BY <1>1, <1>2, <1>3, <1>13 DEF InHeader, Plain
  <2>3. CASE InPage(o, P, i)
    <3>1. PICK k \in 1 .. n : \E j \in 1 .. Len(P[k]) : i = o[k] + j
      BY <1>1, <2>3 DEF InPage
    <3>2. PICK p \in Seq(X) : p = P[k]
      BY <1>1
    <3>3. PICK j \in 1 .. Len(p) : i = o[k] + j
      BY <3>1, <3>2
    <3>4. p[j] = PAGE_OPEN
      BY <1>2, <1>13, <3>2, <3>3
    <3>5. /\ Len(p) >= 2 /\ p[Len(p)] = PAGE_CLOSE
          /\ \A c \in 2 .. Len(p) - 1 : Plain(p[c])
      BY <1>3, <3>2 DEF GoodPage
    <3>6. j = 1
      <4>1. j # Len(p)
        BY <3>4, <3>5, TagsDiffer
      <4>2. ~(j \in 2 .. Len(p) - 1)
        BY <3>4, <3>5 DEF Plain
      <4> QED
        BY <4>1, <4>2
    <3>7. k \in 1 .. m
      BY <1>7
    <3> QED
      BY <1>9, <3>3, <3>6, <3>7
  <2>4. CASE InTail(o, P, t, i)
    <3>1. PICK j \in 1 .. b : i = e + j
      BY <1>1, <1>4, <2>4 DEF InTail
    <3>2. t[j] = PAGE_OPEN
      BY <1>2, <1>4, <1>13, <3>1
    <3>3. j = 1 /\ b >= 1
      BY <1>3, <3>2
    <3>4. m = n + 1 /\ m \in 1 .. m
      BY <1>7, <3>2, <3>3
    <3>5. q[m] = e + 1
      BY <1>4, <1>9, <3>4
    <3> QED
      BY <3>1, <3>3, <3>4, <3>5
  <2> QED
    BY <2>1, <2>2, <2>3, <2>4
<1>14. Lists(q, g, z, PAGE_OPEN)
  BY <1>10, <1>11, <1>12, <1>13 DEF Lists
<1>15. FindAll(g, PAGE_OPEN) = q
  BY <1>4, <1>14, ListUnique
<1> QED
  BY <1>1, <1>7, <1>9, <1>10, <1>15

LEMMA Closes ==
  ASSUME NEW X, NEW g \in Seq(X), NEW h \in Seq(X), NEW P \in Seq(Seq(X)), NEW t \in Seq(X),
         NEW o, Laid(g, h, P, t, o), Good(h, P, t), P # <<>>
  PROVE  \E q \in Seq(Nat) : /\ FindAll(g, PAGE_CLOSE) = q
                             /\ Len(q) = Len(P)
                             /\ \A k \in 1 .. Len(q) : q[k] = o[k + 1]
<1>1. PICK n \in Nat, a \in Nat, b \in Nat : n = Len(P) /\ a = Len(h) /\ b = Len(t)
  OBVIOUS
<1>2. /\ o \in [1 .. n + 1 -> Nat] /\ o[1] = a /\ Len(g) = o[n + 1] + b
      /\ \A i \in 1 .. a : g[i] = h[i]
      /\ \A k \in 1 .. n : o[k + 1] = o[k] + Len(P[k])
      /\ \A k \in 1 .. n : \A j \in 1 .. Len(P[k]) : g[o[k] + j] = P[k][j]
      /\ \A j \in 1 .. b : g[o[n + 1] + j] = t[j]
  BY <1>1 DEF Laid, Offsets
<1>3. /\ \A i \in 1 .. a : Plain(h[i])
      /\ \A k \in 1 .. n : GoodPage(P[k])
      /\ \A j \in 1 .. b : t[j] # PAGE_CLOSE
  BY <1>1 DEF Good
<1>4. PICK z \in Nat, e \in Nat : z = Len(g) /\ e = o[n + 1] /\ z = e + b
  <2>1. n + 1 \in 1 .. n + 1
    OBVIOUS
  <2>2. o[n + 1] \in Nat
    BY <1>2, <2>1
  <2> QED
    BY <1>2, <2>2
<1>5. \A j, k \in 1 .. n + 1 : j < k => o[j] < o[k]
  <2>1. \A k \in 1 .. Len(P) : Len(P[k]) >= 1
    BY <1>1, <1>3 DEF GoodPage
  <2>2. Offsets(o, h, P)
    BY DEF Laid
  <2>3. Mounts(o, Len(P))
    BY <2>1, <2>2, Mounting
  <2> QED
    BY <1>1, <2>3 DEF Mounts
<1>6. \A k \in 1 .. n : o[k + 1] <= e /\ o[k] < o[k + 1] /\ o[k] \in Nat /\ o[k + 1] \in Nat
  <2> TAKE k \in 1 .. n
  <2>1. k \in 1 .. n + 1 /\ k + 1 \in 1 .. n + 1 /\ n + 1 \in 1 .. n + 1
    OBVIOUS
  <2>2. o[k + 1] <= e
    <3>1. CASE k = n
      BY <1>4, <3>1
    <3>2. CASE k # n
      <4>1. k + 1 < n + 1
        BY <3>2
      <4>2. o[k + 1] < o[n + 1] /\ o[k + 1] \in Nat
        BY <1>2, <1>5, <2>1, <4>1
      <4>3. o[k + 1] < e
        BY <1>4, <4>2, Zenon
      <4> QED
        BY <4>2, <4>3
    <3> QED
      BY <3>1, <3>2
  <2>3. k < k + 1
    OBVIOUS
  <2> QED
    BY <1>2, <1>5, <2>1, <2>2, <2>3
<1>7. PICK q : q = [k \in 1 .. n |-> o[k + 1]]
  OBVIOUS
<1>8. q \in Seq(Nat) /\ Len(q) = n /\ \A k \in 1 .. n : q[k] = o[k + 1]
  <2>1. q \in [1 .. n -> Nat]
    BY <1>6, <1>7
  <2> QED
    BY <1>7, <2>1
<1>9. ASSUME NEW k \in 1 .. n PROVE q[k] \in 1 .. z /\ g[q[k]] = PAGE_CLOSE
  <2>1. GoodPage(P[k])
    BY <1>3
  <2>2. PICK p \in Seq(X) : p = P[k]
    BY <1>1
  <2>3. Len(p) >= 2 /\ p[Len(p)] = PAGE_CLOSE /\ Len(p) \in 1 .. Len(p)
    BY <2>1, <2>2 DEF GoodPage
  <2>4. g[o[k] + Len(p)] = PAGE_CLOSE
    BY <1>2, <2>2, <2>3
  <2>5. q[k] = o[k] + Len(p)
    <3>1. o[k + 1] = o[k] + Len(P[k])
      BY <1>2
    <3>2. q[k] = o[k + 1]
      BY <1>8
    <3> QED
      BY <2>2, <3>1, <3>2, Zenon
  <2>6. o[k + 1] >= 1 /\ o[k + 1] <= z
    <3>1. PICK x \in Nat, y \in Nat : x = o[k] /\ y = o[k + 1] /\ x < y /\ y <= e
      BY <1>6
    <3>2. z = e + b
      BY <1>4
    <3>3. x < y /\ y <= e
      BY <3>1
    <3>4. y >= 1 /\ y <= z
      BY <3>2, <3>3
    <3> QED
      BY <3>1, <3>4, Zenon
  <2>7. g[q[k]] = PAGE_CLOSE
    BY <2>4, <2>5
  <2>8. q[k] \in 1 .. z
    BY <1>6, <1>8, <2>6
  <2> QED
    BY <2>7, <2>8
<1>10. ASSUME NEW j \in 1 .. n, NEW k \in 1 .. n, j < k PROVE q[j] < q[k]
  <2>1. j + 1 \in 1 .. n + 1 /\ k + 1 \in 1 .. n + 1 /\ j + 1 < k + 1
    BY <1>10
  <2>2. o[j + 1] < o[k + 1]
    BY <1>5, <2>1
  <2> QED
    BY <1>8, <2>2
<1>11. ASSUME NEW i \in 1 .. z, g[i] = PAGE_CLOSE PROVE \E k \in 1 .. n : q[k] = i
  <2>1. InHeader(o, h, i) \/ InPage(o, P, i) \/ InTail(o, P, t, i)
    BY <1>4, Somewhere
  <2>2. ~InHeader(o, h, i)
    BY <1>1, <1>2, <1>3, <1>11 DEF InHeader, Plain
  <2>3. CASE InPage(o, P, i)
    <3>1. PICK k \in 1 .. n : \E j \in 1 .. Len(P[k]) : i = o[k] + j
      BY <1>1, <2>3 DEF InPage
    <3>2. PICK p \in Seq(X) : p = P[k]
      BY <1>1
    <3>3. PICK j \in 1 .. Len(p) : i = o[k] + j
      BY <3>1, <3>2
    <3>4. p[j] = PAGE_CLOSE
      BY <1>2, <1>11, <3>2, <3>3
    <3>5. /\ Len(p) >= 2 /\ p[1] = PAGE_OPEN
          /\ \A c \in 2 .. Len(p) - 1 : Plain(p[c])
      BY <1>3, <3>2 DEF GoodPage
    <3>6. j = Len(p)
      <4>1. j # 1
        BY <3>4, <3>5, TagsDiffer
      <4>2. ~(j \in 2 .. Len(p) - 1)
        BY <3>4, <3>5 DEF Plain
      <4> QED
        BY <4>1, <4>2
    <3> QED
      BY <1>2, <1>8, <3>2, <3>3, <3>6
  <2>4. CASE InTail(o, P, t, i)
    <3>1. PICK j \in 1 .. b : i = e + j
      BY <1>1, <1>4, <2>4 DEF InTail
    <3>2. t[j] = PAGE_CLOSE
      BY <1>2, <1>4, <1>11, <3>1
    <3> QED
      BY <1>3, <3>2
  <2> QED
    BY <2>1, <2>2, <2>3, <2>4
<1>12. Lists(q, g, z, PAGE_CLOSE)
  BY <1>8, <1>9, <1>10, <1>11 DEF Lists
<1>13. FindAll(g, PAGE_CLOSE) = q
  BY <1>4, <1>12, ListUnique
<1> QED
  BY <1>1, <1>8, <1>13

LEMMA SplitIs ==
  ASSUME NEW X, NEW g \in Seq(X), NEW h \in Seq(X), NEW P \in Seq(Seq(X)), NEW t \in Seq(X),
         NEW o, Laid(g, h, P, t, o), Good(h, P, t), P # <<>>
  PROVE  IsPageStream(g) /\ Parts(g, h, P, t)
<1>1. PICK S : /\ FindAll(g, PAGE_OPEN) = S
               /\ Len(S) = Len(P) \/ Len(S) = Len(P) + 1
               /\ \A k \in 1 .. Len(S) : S[k] = o[k] + 1
  BY Opens
<1>2. PICK E \in Seq(Nat) : /\ FindAll(g, PAGE_CLOSE) = E
                            /\ Len(E) = Len(P)
                            /\ \A k \in 1 .. Len(E) : E[k] = o[k + 1]
  BY Closes
<1>3. PICK n \in Nat, a \in Nat, b \in Nat : n = Len(P) /\ a = Len(h) /\ b = Len(t)
  OBVIOUS
<1>4. PICK m \in Nat : m = Len(S) /\ (m = n \/ m = n + 1)
  BY <1>1, <1>3
<1>5. PICK l \in [1 .. n -> Nat] : \A k \in 1 .. n : l[k] = Len(P[k])
  BY <1>3, Lengths
<1>6. /\ o \in [1 .. n + 1 -> Nat] /\ o[1] = a /\ Len(g) = o[n + 1] + b
      /\ \A k \in 1 .. n : o[k + 1] = o[k] + l[k]
      /\ \A i \in 1 .. a : g[i] = h[i]
      /\ \A k \in 1 .. n : \A j \in 1 .. Len(P[k]) : g[o[k] + j] = P[k][j]
      /\ \A j \in 1 .. b : g[o[n + 1] + j] = t[j]
  <2>1. Offsets(o, h, P) /\ Len(g) = o[n + 1] + b
    BY <1>3 DEF Laid
  <2>2. /\ \A i \in 1 .. a : g[i] = h[i]
        /\ \A k \in 1 .. n : \A j \in 1 .. Len(P[k]) : g[o[k] + j] = P[k][j]
        /\ \A j \in 1 .. b : g[o[n + 1] + j] = t[j]
    BY <1>3 DEF Laid
  <2>3. /\ o \in [1 .. n + 1 -> Nat] /\ o[1] = a
        /\ \A k \in 1 .. n : o[k + 1] = o[k] + Len(P[k])
    BY <1>3, <2>1 DEF Offsets
  <2>4. \A k \in 1 .. n : o[k + 1] = o[k] + l[k]
    BY <1>5, <2>3
  <2> QED
    BY <2>1, <2>2, <2>3, <2>4
<1>7. n >= 1 /\ \A k \in 1 .. n : GoodPage(P[k]) /\ l[k] >= 2
  BY <1>3, <1>5 DEF Good, GoodPage
<1>8. PICK z \in Nat, e \in Nat : z = Len(g) /\ e = o[n + 1] /\ z = e + b
  <2>1. n + 1 \in 1 .. n + 1
    OBVIOUS
  <2>2. o[n + 1] \in Nat
    BY <1>6, <2>1
  <2>3. Len(g) = o[n + 1] + b /\ Len(g) \in Nat
    BY <1>6
  <2> QED
    BY <2>2, <2>3
<1>9. Mounts(o, n)
  <2>1. \A k \in 1 .. Len(P) : Len(P[k]) >= 1
    BY <1>3, <1>7 DEF GoodPage
  <2>2. Offsets(o, h, P)
    BY DEF Laid
  <2> QED
    BY <1>3, <2>1, <2>2, Mounting
<1>10. E # <<>> /\ Len(E) = n /\ DOMAIN E = 1 .. n
  <2>1. Len(E) = n
    BY <1>2, <1>3
  <2> QED
    BY <1>7, <2>1
<1>11. ASSUME NEW k \in 1 .. n
       PROVE  /\ S[k] = o[k] + 1 /\ E[k] = o[k + 1] /\ o[k] \in Nat /\ o[k + 1] \in Nat
              /\ o[k + 1] = o[k] + l[k] /\ o[k] + 2 <= o[k + 1] /\ o[k + 1] <= e
  <2>1. k \in 1 .. m /\ k \in 1 .. n + 1 /\ k + 1 \in 1 .. n + 1
    BY <1>4
  <2>2. S[k] = o[k] + 1 /\ E[k] = o[k + 1]
    BY <1>1, <1>2, <1>4, <1>10, <2>1
  <2>3. PICK x \in Nat, y \in Nat, w \in Nat : x = o[k] /\ y = o[k + 1] /\ w = l[k]
    BY <1>5, <1>6, <2>1
  <2>4. y = x + w /\ w >= 2
    BY <1>6, <1>7, <2>3
  <2>5. y <= e
    <3>1. CASE k = n
      BY <1>8, <2>3, <3>1
    <3>2. CASE k # n
      <4>1. k + 1 < n + 1 /\ n + 1 \in 1 .. n + 1
        BY <3>2
      <4>2. o[k + 1] < o[n + 1]
        BY <1>9, <2>1, <4>1 DEF Mounts
      <4>3. y < e
        BY <1>8, <2>3, <4>2
      <4> QED
        BY <4>3
    <3> QED
      BY <3>1, <3>2
  <2>6. x + 2 <= y
    BY <2>4
  <2> QED
    BY <2>2, <2>3, <2>4, <2>5, <2>6
<1>12. IsPageStream(g)
  <2>1. m \in {n, n + 1}
    BY <1>4
  <2>2. ASSUME NEW k \in 1 .. n PROVE S[k] < E[k]
    <3>1. PICK x \in Nat, y \in Nat : x = o[k] /\ y = o[k + 1]
      BY <1>11
    <3>2. S[k] = x + 1 /\ E[k] = y
      <4>1. S[k] = o[k] + 1 /\ E[k] = o[k + 1]
        BY <1>11
      <4> QED
        BY <3>1, <4>1, Zenon
    <3>3. x + 2 <= y
      <4>1. o[k] + 2 <= o[k + 1]
        BY <1>11
      <4> QED
        BY <3>1, <4>1, Zenon
    <3>4. x + 1 < y
      BY <3>3
    <3> QED
      BY <3>2, <3>4, Zenon
  <2>3. ASSUME NEW k \in 1 .. m - 1 PROVE E[k] + 1 = S[k + 1]
    <3>1. k \in 1 .. n /\ k + 1 \in 1 .. m
      BY <1>4
    <3>2. E[k] = o[k + 1]
      BY <1>11, <3>1
    <3>3. S[k + 1] = o[k + 1] + 1
      BY <1>1, <1>4, <3>1
    <3> QED
      BY <3>2, <3>3
  <2> QED
    BY <1>1, <1>2, <1>4, <1>10, <2>1, <2>2, <2>3 DEF IsPageStream
<1>13. SubSeq(g, 1, S[1] - 1) = h
  <2>1. 1 \in 1 .. n
    BY <1>7
  <2>2. S[1] - 1 = a /\ a <= z
    <3>1. S[1] = a + 1
      BY <1>6, <1>11, <2>1
    <3>2. PICK y \in Nat : y = o[1 + 1] /\ a + 2 <= y /\ y <= e
      BY <1>6, <1>11, <2>1
    <3>3. a + 2 <= e
      <4>1. a + 2 <= y /\ y <= e
        BY <3>2, Zenon
      <4> QED
        BY <4>1
    <3>4. z = e + b
      BY <1>8
    <3> QED
      BY <3>1, <3>3, <3>4
  <2>3. \A j \in 1 .. Len(h) : g[0 + j] = h[j]
    BY <1>3, <1>6
  <2>4. a = 0 + Len(h) /\ a <= Len(g)
    BY <1>3, <1>8, <2>2
  <2>5. SubSeq(g, 0 + 1, a) = h
    BY <2>3, <2>4, SliceIs
  <2> QED
    BY <2>2, <2>5
<1>14. ASSUME NEW k \in 1 .. n PROVE SubSeq(g, S[k], E[k]) = P[k]
  <2>1. PICK x \in Nat, y \in Nat : x = o[k] /\ y = o[k + 1]
    BY <1>11
  <2>2. PICK p \in Seq(X) : p = P[k]
    BY <1>3
  <2>3. S[k] = x + 1 /\ E[k] = y
    BY <1>11, <2>1
  <2>4. y = x + Len(p)
    BY <1>5, <1>11, <2>1, <2>2
  <2>5. y <= Len(g)
    <3>1. y <= e /\ z = e + b
      BY <1>8, <1>11, <2>1
    <3>2. y <= z
      BY <3>1
    <3> QED
      BY <1>8, <3>2
  <2>6. \A j \in 1 .. Len(p) : g[x + j] = p[j]
    BY <1>6, <2>1, <2>2
  <2>7. SubSeq(g, x + 1, y) = p
    BY <2>4, <2>5, <2>6, SliceIs
  <2> QED
    BY <2>2, <2>3, <2>7
<1>15. SubSeq(g, E[n] + 1, z) = t
  <2>1. E[n] = e
    BY <1>7, <1>8, <1>11
  <2>2. z = e + Len(t) /\ z <= Len(g)
    BY <1>3, <1>8
  <2>3. \A j \in 1 .. Len(t) : g[e + j] = t[j]
    BY <1>3, <1>6, <1>8
  <2>4. SubSeq(g, e + 1, z) = t
    BY <2>2, <2>3, SliceIs
  <2> QED
    BY <2>1, <2>4
<1>16. Parts(g, h, P, t)
  <2>1. PICK x, y, w : /\ x = SubSeq(g, 1, S[1] - 1)
                       /\ y = [k \in DOMAIN E |-> SubSeq(g, S[k], E[k])]
                       /\ w = SubSeq(g, E[Len(E)] + 1, Len(g))
    OBVIOUS
  <2>2. Split(g) = [header |-> x, pages |-> y, tail |-> w]
    BY <1>1, <1>2, <2>1 DEF Split
  <2>3. Split(g).header = x /\ Split(g).pages = y /\ Split(g).tail = w
    BY <2>2
  <2>4. y = P
    <3>1. y = [k \in 1 .. n |-> P[k]]
      BY <1>10, <1>14, <2>1
    <3>2. P = [k \in 1 .. n |-> P[k]]
      BY <1>3, SameSequence
    <3> QED
      BY <3>1, <3>2
  <2>5. w = t
    BY <1>8, <1>10, <1>15, <2>1
  <2>6. x = h
    BY <1>13, <2>1
  <2> QED
    BY <2>3, <2>4, <2>5, <2>6, Zenon DEF Parts
<1> QED
  BY <1>12, <1>16

-----------------------------------------------------------------------------
(* Sorting by keys that rise with the place they came from undoes the      *)
(* order.                                                                  *)

LEMMA Onto ==
  ASSUME NEW n \in Nat, NEW f \in [1 .. n -> 1 .. n], IsInjective(f)
  PROVE  \A v \in 1 .. n : \E i \in 1 .. n : f[i] = v
<1>1. IsFiniteSet(1 .. n)
  BY FS_Interval
<1>2. f \in Injection(1 .. n, 1 .. n)
  BY DEF Injection
<1>3. f \in Surjection(1 .. n, 1 .. n)
  BY <1>1, <1>2, FS_Injection
<1> QED
  BY <1>3 DEF Surjection

\* The element i of the numbers f[1], .. f[n] has f[i] - 1 others before it.
LEMMA Rank ==
  ASSUME NEW n \in Nat, NEW f \in [1 .. n -> 1 .. n], IsInjective(f), NEW i \in 1 .. n
  PROVE  Cardinality({j \in 1 .. n : f[j] < f[i]}) = f[i] - 1
<1>1. \A v \in 1 .. n : \E j \in 1 .. n : f[j] = v
  BY Onto
<1>2. PICK m \in Nat : m = f[i] - 1 /\ m < n
  <2>1. f[i] \in 1 .. n
    OBVIOUS
  <2> QED
    BY <2>1
<1>3. PICK T : T = {j \in 1 .. n : f[j] < f[i]}
  OBVIOUS
<1>4. \A j \in T : j \in 1 .. n /\ f[j] \in 1 .. m
  BY <1>2, <1>3
<1>5. PICK b : b = [j \in T |-> f[j]]
  OBVIOUS
<1>6. b \in [T -> 1 .. m] /\ \A j \in T : b[j] = f[j]
  BY <1>4, <1>5
<1>7. IsInjective(b)
  <2>1. \A j, k \in T : f[j] = f[k] => j = k
    BY <1>4 DEF IsInjective
  <2> QED
    BY <1>5, <1>6, <2>1 DEF IsInjective
<1>8. \A v \in 1 .. m : \E j \in T : b[j] = v
  <2> TAKE v \in 1 .. m
  <2>1. PICK j \in 1 .. n : f[j] = v
    BY <1>1, <1>2
  <2>2. j \in T
    BY <1>2, <1>3, <2>1
  <2> QED
    BY <1>6, <2>1, <2>2
<1>9. b \in Bijection(T, 1 .. m)
  BY <1>6, <1>7, <1>8 DEF Bijection, Injection, Surjection
<1>10. IsFiniteSet(T)
  <2>1. IsFiniteSet(1 .. n) /\ T \in SUBSET (1 .. n)
    BY <1>3, FS_Interval
  <2> QED
    BY <2>1, FS_Subset
<1>11. Cardinality(1 .. m) = Cardinality(T)
  BY <1>9, <1>10, FS_Bijection DEF ExistsBijection
<1>12. Cardinality(1 .. m) = m
  BY FS_Interval
<1> QED
  BY <1>2, <1>3, <1>11, <1>12

Inverts(s, f, n) == s \in [1 .. n -> 1 .. n] /\ \A k \in 1 .. n : f[s[k]] = k

\* A stable sort by the keys is a sort by f.
Follow(key, f, n) ==
  /\ DOMAIN key = 1 .. n
  /\ \A i, j \in 1 .. n : (key[j] < key[i] \/ (key[j] = key[i] /\ j < i)) <=> f[j] < f[i]

LEMMA SortUndoes ==
  ASSUME NEW n \in Nat, NEW f \in [1 .. n -> 1 .. n], IsInjective(f), NEW key,
         Follow(key, f, n)
  PROVE  Inverts(SortedBy(key), f, n)
<1>1. PICK s : s = SortedBy(key)
  OBVIOUS
<1> DEFINE Before(i) == {j \in 1 .. n : key[j] < key[i] \/ (key[j] = key[i] /\ j < i)}
<1>2. ASSUME NEW i \in 1 .. n PROVE Cardinality(Before(i)) = f[i] - 1
  <2>1. Before(i) = {j \in 1 .. n : f[j] < f[i]}
    BY DEF Follow
  <2> HIDE DEF Before
  <2> QED
    BY <2>1, Rank
<1>3. s = [k \in 1 .. n |-> CHOOSE i \in 1 .. n : Cardinality(Before(i)) = k - 1]
  BY <1>1 DEF SortedBy, Follow
<1> HIDE DEF Before
<1>4. ASSUME NEW k \in 1 .. n PROVE s[k] \in 1 .. n /\ f[s[k]] = k
  <2>1. PICK i \in 1 .. n : f[i] = k
    BY Onto
  <2>2. Cardinality(Before(i)) = k - 1
    BY <1>2, <2>1
  <2>3. s[k] \in 1 .. n /\ Cardinality(Before(s[k])) = k - 1
    BY <1>3, <2>2
  <2>4. f[s[k]] - 1 = k - 1 /\ f[s[k]] \in 1 .. n
    BY <1>2, <2>3
  <2> QED
    BY <2>3, <2>4
<1>5. s \in [1 .. n -> 1 .. n]
  BY <1>3, <1>4
<1> QED
  BY <1>1, <1>4, <1>5 DEF Inverts

LEMMA PageIdType ==
  ASSUME NEW X, NEW p \in Seq(X), HasId(p)
  PROVE  PageId(p) \in Nat
<1>1. PICK B : B = {i \in DOMAIN p : p[i] \in DOMAIN PageIds}
  OBVIOUS
<1>2. B \subseteq Nat /\ B # {}
  BY <1>1 DEF HasId
<1>3. PICK i \in B : \A k \in B : i <= k
  BY <1>2, LeastNumber
<1>4. PICK n \in Nat : n = Len(p) /\ DOMAIN p = 1 .. n
  OBVIOUS
<1> DEFINE First(c) == p[c] \in DOMAIN PageIds /\ \A k \in 1 .. c - 1 : p[k] \notin DOMAIN PageIds
<1>5. i \in DOMAIN p /\ First(i)
  <2>1. i \in 1 .. n /\ p[i] \in DOMAIN PageIds
    BY <1>1, <1>4
  <2>2. ASSUME NEW k \in 1 .. i - 1 PROVE p[k] \notin DOMAIN PageIds
    <3>1. k \in 1 .. n /\ ~(i <= k)
      BY <2>1
    <3>2. k \notin B
      BY <1>3, <3>1
    <3> QED
      BY <1>1, <1>4, <3>1, <3>2
  <2> QED
    BY <1>4, <2>1, <2>2
<1>6. PICK c \in DOMAIN p : First(c) /\ PageId(p) = PageIds[p[c]]
  <2>1. PageId(p) = PageIds[p[CHOOSE c \in DOMAIN p : First(c)]]
    BY DEF PageId
  <2> HIDE DEF First
  <2> QED
    BY <1>5, <2>1
<1> QED
  BY <1>6, PageIdsAssumption

Climbs(K, n) == \A k \in 1 .. n - 1 : K[k] < K[k + 1]

\* Keys that rise from each place to the next rise from any to any later.
LEMMA Rising ==
  ASSUME NEW n \in Nat, NEW K \in [1 .. n -> Nat], Climbs(K, n)
  PROVE  \A j, k \in 1 .. n : K[j] < K[k] <=> j < k
<1> DEFINE S == {m \in Nat : m + 1 <= n => \A j \in 1 .. m : K[j] < K[m + 1]}
<1>1. 0 \in S
  OBVIOUS
<1>2. ASSUME NEW m \in Nat, m < n, m \in S PROVE m + 1 \in S
  <2> SUFFICES ASSUME NEW k \in Nat, k = m + 1, k + 1 <= n, NEW j \in 1 .. k
               PROVE  K[j] < K[k + 1]
    OBVIOUS
  <2>1. k \in 1 .. n - 1 /\ k \in 1 .. n /\ k + 1 \in 1 .. n /\ j \in 1 .. n
    OBVIOUS
  <2>2. K[k] < K[k + 1] /\ K[j] \in Nat /\ K[k] \in Nat /\ K[k + 1] \in Nat
    BY <2>1 DEF Climbs
  <2>3. CASE j = k
    BY <2>2, <2>3
  <2>4. CASE j # k
    <3>1. j \in 1 .. m
      BY <2>4
    <3>2. K[j] < K[k]
      BY <1>2, <3>1
    <3> QED
      BY <2>2, <3>2
  <2> QED
    BY <2>3, <2>4
<1>3. \A m \in 0 .. n : m \in S
  <2> HIDE DEF S
  <2> QED
    BY <1>1, <1>2, UpTo
<1>4. ASSUME NEW j \in 1 .. n, NEW k \in 1 .. n, j < k PROVE K[j] < K[k]
  <2>1. PICK m \in 0 .. n : k = m + 1
    <3>1. k - 1 \in 0 .. n /\ k = (k - 1) + 1
      OBVIOUS
    <3> QED
      BY <3>1
  <2>2. m \in S /\ j \in 1 .. m
    BY <1>3, <1>4, <2>1
  <2> QED
    BY <2>1, <2>2
<1>5. ASSUME NEW j \in 1 .. n, NEW k \in 1 .. n PROVE K[j] < K[k] <=> j < k
  <2>1. K[j] \in Nat /\ K[k] \in Nat
    OBVIOUS
  <2>2. CASE j < k
    BY <1>4, <2>2
  <2>3. CASE j = k
    BY <2>1, <2>3
  <2>4. CASE k < j
    <3>1. K[k] < K[j]
      BY <1>4, <2>4
    <3> QED
      BY <2>1, <2>4, <3>1
  <2> QED
    BY <2>2, <2>3, <2>4
<1> QED
  BY <1>5

LEMMA SortedBack ==
  ASSUME NEW n \in Nat, NEW K \in [1 .. n -> Nat], Climbs(K, n),
         NEW f \in [1 .. n -> 1 .. n], IsInjective(f), NEW key,
         key = [k \in 1 .. n |-> K[f[k]]]
  PROVE  Inverts(SortedBy(key), f, n)
<1>1. DOMAIN key = 1 .. n
  OBVIOUS
<1>2. ASSUME NEW i \in 1 .. n, NEW j \in 1 .. n
      PROVE  (key[j] < key[i] \/ (key[j] = key[i] /\ j < i)) <=> f[j] < f[i]
  <2>1. PICK u \in 1 .. n, v \in 1 .. n : u = f[i] /\ v = f[j]
    OBVIOUS
  <2>2. \A a, b \in 1 .. n : K[a] < K[b] <=> a < b
    BY Rising
  <2>3. PICK x \in Nat, y \in Nat : x = K[u] /\ y = K[v]
    OBVIOUS
  <2>4. key[i] = x /\ key[j] = y
    BY <2>1, <2>3
  <2>5. y < x <=> v < u
    BY <2>2, <2>3
  <2>6. x < y <=> u < v
    BY <2>2, <2>3
  <2>7. u = v => i = j
    BY <2>1 DEF IsInjective
  <2>8. y = x => u = v
    <3>1. y = x => ~(y < x) /\ ~(x < y)
      BY <2>3
    <3>2. ~(v < u) /\ ~(u < v) => u = v
      OBVIOUS
    <3> QED
      BY <2>5, <2>6, <3>1, <3>2, Zenon
  <2>9. (y < x \/ (y = x /\ j < i)) <=> v < u
    <3>1. ~(j < j)
      OBVIOUS
    <3>2. y = x => ~(j < i)
      BY <2>7, <2>8, <3>1, Zenon
    <3> QED
      BY <2>5, <3>2, Zenon
  <2> QED
    BY <2>1, <2>4, <2>9, Zenon
<1>3. Follow(key, f, n)
  BY <1>1, <1>2 DEF Follow
<1> QED
  BY <1>3, SortUndoes

LEMMA Listed ==
  ASSUME NEW V, NEW n \in Nat, NEW q \in [1 .. n -> V]
  PROVE  q \in Seq(V) /\ Len(q) = n
  OBVIOUS

LEMMA Restored ==
  ASSUME NEW X, NEW f \in Seq(X), IsPageStream(f), AscendingIds(Split(f).pages),
         NEW n, n = Len(Split(f).pages), NEW idx \in [1 .. n -> 1 .. n], IsInjective(idx)
  PROVE  Restore(Assemble(Split(f), idx)) = f
<1>1. PICK h \in Seq(X), t \in Seq(X) : \E P \in Seq(Seq(X)) : Taken(f, h, P, t)
  BY StreamIs
<1>2. PICK P \in Seq(Seq(X)) : Taken(f, h, P, t)
  BY <1>1
<1>3. PICK o : P # <<>> /\ Parts(f, h, P, t) /\ Good(h, P, t) /\ Laid(f, h, P, t, o)
  BY <1>2 DEF Taken
<1>4. /\ n = Len(P) /\ n \in Nat /\ n >= 1 /\ AscendingIds(P)
      /\ Split(f).header = h /\ Split(f).pages = P /\ Split(f).tail = t
  <2>1. Split(f).header = h /\ Split(f).pages = P /\ Split(f).tail = t
    BY <1>3 DEF Parts
  <2>2. n = Len(P) /\ AscendingIds(P)
    BY <2>1, Zenon
  <2>3. Len(P) \in Nat /\ Len(P) >= 1
    BY <1>3
  <2> QED
    BY <2>1, <2>2, <2>3
<1>5. PICK Q : Q = [k \in 1 .. n |-> P[idx[k]]]
  OBVIOUS
<1>6. \A k \in 1 .. n : P[k] \in Seq(X)
  BY <1>4
<1>7. Q \in Seq(Seq(X)) /\ Len(Q) = n /\ Q # <<>> /\ \A k \in 1 .. n : Q[k] = P[idx[k]]
  <2>1. Q \in [1 .. n -> Seq(X)]
    <3>1. \A k \in 1 .. n : idx[k] \in 1 .. n
      OBVIOUS
    <3>2. \A k \in 1 .. n : P[idx[k]] \in Seq(X)
      BY <1>6, <3>1
    <3> QED
      BY <1>5, <3>2
  <2>2. Q \in Seq(Seq(X)) /\ Len(Q) = n
    <3>1. n \in Nat
      BY <1>4
    <3> QED
      BY <2>1, <3>1, Listed
  <2> QED
    BY <1>4, <1>5, <2>2
<1>8. Good(h, Q, t)
  <2>1. \A k \in 1 .. n : GoodPage(P[k])
    BY <1>3, <1>4 DEF Good
  <2>2. \A k \in 1 .. Len(Q) : GoodPage(Q[k])
    BY <1>7, <2>1
  <2> QED
    BY <1>3, <2>2 DEF Good
<1>9. PICK g : g = Assemble(Split(f), idx)
  OBVIOUS
<1>10. g = h \o FlattenSeq(Q) \o t
  <2>1. DOMAIN idx = 1 .. n
    OBVIOUS
  <2>2. g = Split(f).header \o FlattenSeq([k \in DOMAIN idx |-> Split(f).pages[idx[k]]])
              \o Split(f).tail
    BY <1>9 DEF Assemble
  <2>3. [k \in DOMAIN idx |-> Split(f).pages[idx[k]]] = Q
    BY <1>4, <1>5, <2>1
  <2> QED
    BY <1>4, <2>2, <2>3
<1>11. g \in Seq(X) /\ \E u : Laid(g, h, Q, t, u)
  BY <1>7, <1>10, LaidOut
<1>12. PICK u : Laid(g, h, Q, t, u)
  BY <1>11
<1>13. IsPageStream(g) /\ Parts(g, h, Q, t)
  BY <1>7, <1>8, <1>11, <1>12, SplitIs
<1>14. Split(g).header = h /\ Split(g).pages = Q /\ Split(g).tail = t
  BY <1>13 DEF Parts
<1>15. \A k \in 1 .. n : HasId(P[k]) /\ PageId(P[k]) \in Nat
  <2> TAKE k \in 1 .. n
  <2>1. HasId(P[k])
    <3>1. DOMAIN P = 1 .. n
      BY <1>4
    <3> QED
      BY <1>4, <3>1 DEF AscendingIds
  <2> QED
    BY <1>6, <2>1, PageIdType
<1>16. PICK K : K = [k \in 1 .. n |-> PageId(P[k])]
  OBVIOUS
<1>17. K \in [1 .. n -> Nat] /\ Climbs(K, n)
  <2>1. K \in [1 .. n -> Nat]
    BY <1>15, <1>16
  <2>2. ASSUME NEW k \in 1 .. n - 1 PROVE K[k] < K[k + 1]
    <3>1. k \in 1 .. n /\ k + 1 \in 1 .. n
      BY <1>4
    <3>2. PageId(P[k]) < PageId(P[k + 1])
      BY <1>4 DEF AscendingIds
    <3> QED
      BY <1>16, <3>1, <3>2
  <2> QED
    BY <2>1, <2>2 DEF Climbs
<1>18. PICK key : key = [k \in 1 .. n |-> K[idx[k]]]
  OBVIOUS
<1>19. PICK s : s = SortedBy(key)
  OBVIOUS
<1>20. s \in [1 .. n -> 1 .. n] /\ \A k \in 1 .. n : idx[s[k]] = k
  <2>1. Inverts(SortedBy(key), idx, n)
    BY <1>4, <1>17, <1>18, SortedBack
  <2> QED
    BY <1>19, <2>1 DEF Inverts
<1>21. Restore(g) = Assemble(Split(g), s)
  <2> DEFINE Key(p) == IF HasId(p) THEN PageId(p) ELSE MAX_ID
  <2>1. Restore(g) = Assemble(Split(g), SortedBy([k \in DOMAIN Split(g).pages |-> Key(Split(g).pages[k])]))
    BY <1>13 DEF Restore
  <2>2. ASSUME NEW k \in 1 .. n PROVE Key(Q[k]) = key[k]
    <3>1. idx[k] \in 1 .. n
      OBVIOUS
    <3>2. Q[k] = P[idx[k]] /\ HasId(P[idx[k]])
      BY <1>7, <1>15, <3>1
    <3>3. key[k] = PageId(P[idx[k]])
      BY <1>16, <1>18, <3>1
    <3> QED
      BY <3>2, <3>3
  <2>3. DOMAIN Q = 1 .. n
    BY <1>5
  <2> HIDE DEF Key
  <2>4. [k \in DOMAIN Split(g).pages |-> Key(Split(g).pages[k])] = key
    <3>1. [k \in 1 .. n |-> Key(Q[k])] = key
      BY <1>18, <2>2
    <3> QED
      BY <1>14, <2>3, <3>1
  <2> QED
    BY <1>19, <2>1, <2>4, Zenon
<1>22. Restore(g) = h \o FlattenSeq(P) \o t
  <2>1. [k \in DOMAIN s |-> Split(g).pages[s[k]]] = P
    <3>1. DOMAIN s = 1 .. n
      BY <1>20
    <3>2. ASSUME NEW k \in 1 .. n PROVE Q[s[k]] = P[k]
      <4>1. s[k] \in 1 .. n /\ idx[s[k]] = k
        BY <1>20
      <4> QED
        BY <1>7, <4>1
    <3>3. P = [k \in 1 .. n |-> P[k]]
      BY <1>4, SameSequence
    <3>4. [k \in 1 .. n |-> Q[s[k]]] = P
      BY <3>2, <3>3
    <3> QED
      BY <1>14, <3>1, <3>4
  <2>2. Assemble(Split(g), s) = Split(g).header \o FlattenSeq([k \in DOMAIN s |-> Split(g).pages[s[k]]])
                                  \o Split(g).tail
    BY DEF Assemble
  <2> QED
    BY <1>14, <1>21, <2>1, <2>2
<1>23. PICK r : r = h \o FlattenSeq(P) \o t
  OBVIOUS
<1>24. r \in Seq(X) /\ \E v : Laid(r, h, P, t, v)
  BY <1>3, <1>23, LaidOut
<1>25. PICK v : Laid(r, h, P, t, v)
  BY <1>24
<1>26. r = f
  BY <1>3, <1>24, <1>25, LaidUnique
<1> QED
  BY <1>9, <1>22, <1>23, <1>26

LEMMA PagesCounted ==
  ASSUME NEW X, NEW f \in Seq(X), IsPageStream(f)
  PROVE  Len(Split(f).pages) \in Nat \ {0}
<1>1. PICK h \in Seq(X), t \in Seq(X) : \E P \in Seq(Seq(X)) : Taken(f, h, P, t)
  BY StreamIs
<1>2. PICK P \in Seq(Seq(X)) : P # <<>> /\ Split(f).pages = P
  BY <1>1 DEF Taken, Parts
<1>3. Len(P) \in Nat \ {0}
  BY <1>2
<1> QED
  BY <1>2, <1>3, Zenon

-----------------------------------------------------------------------------
(* The greedy walk in the specification.                                   *)

Pages == Len(Split(file).pages)

WalkInv ==
  /\ file \in Files
  /\ stage = "walk" => /\ Pages \in Nat
                       /\ Deal(walk.order, walk.window, walk.rest, Pages)
  /\ EveryPageOnce

LEMMA InitWalk == Init => WalkInv
  BY DEF Init, WalkInv, EveryPageOnce

LEMMA StepWalk == WalkInv /\ [Next]_vars => WalkInv'
PROOF
  <1> SUFFICES ASSUME WalkInv, [Next]_vars PROVE WalkInv'
    OBVIOUS
  <1>1. file' = file /\ Pages' = Pages /\ file \in Files
    BY DEF WalkInv, Next, vars, Pages, Downgrade, KeepOrder, SortPages, StartWalk, WalkStep,
           EndWalk, ApplyLayer, WriteArchive, AppendSfx, StartDecode, RemoveLayer, Unreorder
  <1>2. IsPageStream(file) => Pages \in Nat \ {0}
    BY <1>1, FilesAssumption, PagesCounted DEF Pages
  <1>3. EveryPageOnce <=> (order # <<>> => Len(order) = Pages /\ IsInjective(order))
    BY DEF EveryPageOnce, Pages
  <1>4. EveryPageOnce' <=> (order' # <<>> => Len(order') = Pages' /\ IsInjective(order'))
    BY DEF EveryPageOnce, Pages
  <1>5. ASSUME UNCHANGED vars PROVE WalkInv'
    BY <1>5 DEF vars, WalkInv, Pages, EveryPageOnce
  <1>6. ASSUME order' = order, stage' # "walk" PROVE WalkInv'
    BY <1>1, <1>3, <1>4, <1>6 DEF WalkInv
  <1>7. CASE SortPages
    <2>1. PICK idx \in [1 .. Pages -> 1 .. Pages] :
            IsInjective(idx) /\ order' = idx /\ stage' = "layers"
      BY <1>7 DEF SortPages, Arrange, Pages
    <2>2. Len(idx) = Pages
      BY <1>2, <1>7, <2>1 DEF SortPages
    <2> QED
      BY <1>1, <1>4, <2>1, <2>2 DEF WalkInv
  <1>8. CASE StartWalk
    <2>1. Pages \in Nat \ {0}
      BY <1>2, <1>8 DEF StartWalk
    <2>2. PICK s \in [1 .. Pages -> 1 .. Pages] :
            /\ IsInjective(s)
            /\ LET w == IF Pages < W THEN Pages ELSE W
               IN  walk' = [order  |-> <<s[1]>>,
                            window |-> SubSeq(s, 2, w),
                            rest   |-> SubSeq(s, w + 1, Pages)]
      BY <1>8 DEF StartWalk, Pages
    <2>3. Deal(walk.order, walk.window, walk.rest, Pages)'
      <3>1. s \in Seq(1 .. Pages) /\ Len(s) = Pages
        BY <2>1
      <3> QED
        BY <1>1, <2>1, <2>2, <3>1, Starts
    <2>4. order' = order
      BY <1>8 DEF StartWalk
    <2> QED
      BY <1>1, <1>3, <1>4, <2>1, <2>3, <2>4 DEF WalkInv
  <1>9. CASE WalkStep
    <2>1. /\ Pages \in Nat /\ Deal(walk.order, walk.window, walk.rest, Pages)
          /\ order' = order
      BY <1>9 DEF WalkStep, WalkInv
    <2>2. DOMAIN walk.window = 1 .. Len(walk.window)
      BY <2>1 DEF Deal
    <2>3. PICK k \in 1 .. Len(walk.window) :
            walk' = [order  |-> Append(walk.order, walk.window[k]),
                     window |-> RemoveAt(walk.window, k)
                                  \o SubSeq(walk.rest, 1, IF walk.rest = <<>> THEN 0 ELSE 1),
                     rest   |-> IF walk.rest = <<>> THEN <<>> ELSE Tail(walk.rest)]
      BY <1>9, <2>2 DEF WalkStep
    <2>4. Deal(walk.order, walk.window, walk.rest, Pages)'
      BY <1>1, <2>1, <2>3, StepDeals
    <2> QED
      BY <1>1, <1>3, <1>4, <2>1, <2>4 DEF WalkInv
  <1>10. CASE EndWalk
    <2>1. /\ Pages \in Nat /\ Deal(walk.order, walk.window, walk.rest, Pages)
          /\ walk.window = <<>> /\ order' = walk.order /\ stage' = "layers"
      BY <1>10 DEF EndWalk, WalkInv, Arrange
    <2>2. Len(walk.order) = Pages /\ IsInjective(walk.order)
      BY <2>1, Ends
    <2> QED
      BY <1>1, <1>4, <2>1, <2>2 DEF WalkInv
  <1>11. CASE Downgrade \/ KeepOrder \/ WriteArchive \/ AppendSfx \/ StartDecode \/ Unreorder
    BY <1>6, <1>11 DEF Downgrade, KeepOrder, WriteArchive, AppendSfx, StartDecode, Unreorder
  <1>12. CASE ApplyLayer \/ RemoveLayer
    BY <1>6, <1>12 DEF ApplyLayer, RemoveLayer
  <1> QED
    BY <1>5, <1>7, <1>8, <1>9, <1>10, <1>11, <1>12 DEF Next

(* Whatever order the pages are put in, each is written once: the greedy   *)
(* walk leaves none behind (archive.rs:2370).                              *)
THEOREM PagesWrittenOnce == Spec => []EveryPageOnce
PROOF
  <1>1. WalkInv => EveryPageOnce
    BY DEF WalkInv
  <1> QED
    BY InitWalk, StepWalk, <1>1, PTL DEF Spec

-----------------------------------------------------------------------------
(* The file comes back: what is in the stream at each step, and which      *)
(* layers are on it.                                                       *)

LayerNames == {Layers[i] : i \in 1 .. Len(Layers)}

\* The layers of method m among the first i, in the order they are put on.
Stacked(L, m) ==
  /\ L \in [0 .. Len(Layers) -> Seq(LayerNames)] /\ L[0] = <<>>
  /\ \A i \in 1 .. Len(Layers) :
       L[i] = IF Layers[i] \in Methods[m].layers THEN Append(L[i - 1], Layers[i]) ELSE L[i - 1]

Stack(m) == CHOOSE L : Stacked(L, m)

LEMMA LayersType == Len(Layers) \in Nat /\ \A i \in 1 .. Len(Layers) : Layers[i] \in LayerNames
<1>1. Len(Layers) = 7
  BY DEF Layers
<1>2. \A i \in 1 .. Len(Layers) : Layers[i] \in LayerNames
  BY DEF LayerNames
<1> QED
  BY <1>1, <1>2

LEMMA StackIs ==
  ASSUME NEW m
  PROVE  Stacked(Stack(m), m)
<1>1. PICK n \in Nat : n = Len(Layers)
  BY LayersType
<1>2. PICK V, none : V = Seq(LayerNames) /\ none = <<>> /\ none \in V
  <2>1. <<>> \in Seq(LayerNames)
    OBVIOUS
  <2> QED
    BY <2>1
<1>3. PICK M : M = Methods[m].layers
  OBVIOUS
<1>4. PICK st : st = [x \in (1 .. n) \X V |->
                        IF Layers[x[1]] \in M THEN Append(x[2], Layers[x[1]]) ELSE x[2]]
  OBVIOUS
<1>5. st \in [(1 .. n) \X V -> V]
  <2>1. \A i \in 1 .. n : Layers[i] \in LayerNames
    BY <1>1, LayersType
  <2>2. \A i \in 1 .. n, q \in V : Append(q, Layers[i]) \in V
    BY <1>2, <2>1
  <2> QED
    BY <1>4, <2>2
<1>6. PICK L \in [0 .. n -> V] : Recurs(L, n, none, st)
  BY <1>2, <1>5, Recursion
<1>7. Stacked(L, m)
  <2>1. L[0] = <<>>
    BY <1>2, <1>6 DEF Recurs
  <2>2. ASSUME NEW i \in 1 .. n
        PROVE  L[i] = IF Layers[i] \in M THEN Append(L[i - 1], Layers[i]) ELSE L[i - 1]
    <3>1. i \in 0 .. n /\ i # 0 /\ i - 1 \in 0 .. n
      OBVIOUS
    <3>2. L[i] = st[<<i, L[i - 1]>>]
      BY <1>6, <3>1 DEF Recurs
    <3>3. L[i - 1] \in V
      BY <3>1
    <3> QED
      BY <1>4, <3>2, <3>3
  <2> QED
    BY <1>1, <1>2, <1>3, <2>1, <2>2 DEF Stacked
<1> QED
  BY <1>7 DEF Stack

LEMMA Peel ==
  ASSUME NEW X, NEW q \in Seq(X), NEW x \in X, NEW r, r = Append(q, x)
  PROVE  r # <<>> /\ Last(r) = x /\ Front(r) = q
<1>1. PICK n \in Nat : n = Len(q)
  OBVIOUS
<1>2. r \in Seq(X) /\ Len(r) = n + 1 /\ r[n + 1] = x /\ \A k \in 1 .. n : r[k] = q[k]
  BY <1>1
<1>3. r # <<>> /\ Last(r) = x
  BY <1>2 DEF Last
<1>4. SubSeq(r, 0 + 1, n) = q
  <2>1. n = 0 + Len(q) /\ n <= Len(r)
    BY <1>1, <1>2
  <2>2. \A j \in 1 .. Len(q) : r[0 + j] = q[j]
    BY <1>1, <1>2
  <2> QED
    BY <1>2, <2>1, <2>2, SliceIs
<1>5. Front(r) = q
  <2>1. Front(r) = SubSeq(r, 1, Len(r) - 1)
    BY DEF Front
  <2>2. Len(r) - 1 = n /\ 0 + 1 = 1
    BY <1>2
  <2> QED
    BY <1>4, <2>1, <2>2
<1> QED
  BY <1>3, <1>5

\* The text t is the file f, or f with its pages in another order that
\* sorting them undoes.
Fits(m, t, f) == IF OrderOf(m) = "none" THEN t = f ELSE Restore(t) = f

Shape(d) == d = [text |-> d.text, layers |-> d.layers]

TextInv ==
  /\ stage \in {"reorder", "walk"} =>
       at = 1 /\ Shape(data) /\ data.text = file /\ data.layers = <<>>
  /\ stage = "walk" =>
       OrderOf(method) # "none" /\ IsPageStream(file) /\ AscendingIds(Split(file).pages)
  /\ stage = "layers" =>
       /\ at \in 1 .. Len(Layers) + 1
       /\ Shape(data) /\ Fits(method, data.text, file)
       /\ data.layers = Stack(method)[at - 1]
  /\ stage \in {"pack", "extract"} =>
       /\ archive.model = Model(archive.method, archive.n)
       /\ Fits(archive.method, archive.payload, file)
       /\ archive.layers = Stack(archive.method)[Len(Layers)]
  /\ stage = "unlayer" =>
       /\ at \in 0 .. Len(Layers)
       /\ Shape(data) /\ Fits(method, data.text, file)
       /\ data.layers = Stack(method)[at]
  /\ FileRestored

LEMMA InitText == Init => TextInv
  BY DEF Init, TextInv, Shape, FileRestored

\* The pages in any order are a text that fits.
LEMMA ArrangeFits ==
  ASSUME file \in Files, IsPageStream(file), AscendingIds(Split(file).pages),
         OrderOf(method) # "none", at = 1,
         NEW idx \in [1 .. Pages -> 1 .. Pages], IsInjective(idx), Arrange(idx),
         UNCHANGED <<file, method, at>>
  PROVE  TextInv'
<1>1. file \in Seq(STRING)
  BY FilesAssumption
<1>2. Restore(Assemble(Split(file), idx)) = file
  BY <1>1, Restored DEF Pages
<1>3. stage' = "layers" /\ data' = [text |-> Assemble(Split(file), idx), layers |-> <<>>]
  BY DEF Arrange
<1>4. PICK t : t = Assemble(Split(file), idx)
  OBVIOUS
<1>5. Shape(data)' /\ data'.text = t /\ data'.layers = <<>>
  BY <1>3, <1>4 DEF Shape
<1>6. OrderOf(method)' = OrderOf(method) /\ file' = file
  BY DEF OrderOf
<1>7. Fits(method, data.text, file)'
  BY <1>2, <1>4, <1>5, <1>6 DEF Fits
<1>8. at' = 1 /\ 1 \in 1 .. Len(Layers) + 1 /\ 1 - 1 = 0
  BY LayersType
<1>9. data'.layers = Stack(method')[at' - 1]
  <2>1. Stacked(Stack(method'), method')
    BY StackIs
  <2> QED
    BY <1>5, <1>8, <2>1 DEF Stacked
<1>10. FileRestored'
  BY <1>3 DEF FileRestored
<1> QED
  BY <1>3, <1>5, <1>7, <1>8, <1>9, <1>10 DEF TextInv

LEMMA StepText == TextInv /\ WalkInv /\ [Next]_vars => TextInv'
<1> SUFFICES ASSUME TextInv, WalkInv, [Next]_vars PROVE TextInv'
  OBVIOUS
<1>1. CASE UNCHANGED vars
  BY <1>1 DEF vars, TextInv, Shape, Fits, OrderOf, Model, FileRestored
<1>2. CASE Downgrade
  <2>1. /\ stage = "reorder" /\ stage' = "layers" /\ method' = Parent
        /\ file' = file /\ data' = data /\ at' = at
    BY <1>2 DEF Downgrade
  <2>2. at = 1 /\ Shape(data) /\ data.text = file /\ data.layers = <<>>
    BY <2>1 DEF TextInv
  <2>3. Fits(method, data.text, file)'
    BY <2>1, <2>2, ParentAssumption DEF Fits, OrderOf
  <2>4. Stacked(Stack(method'), method')
    BY StackIs
  <2>5. at' \in 1 .. Len(Layers) + 1 /\ at' - 1 = 0
    BY <2>1, <2>2, LayersType
  <2>6. data'.layers = Stack(method')[at' - 1]
    BY <2>1, <2>2, <2>4, <2>5 DEF Stacked
  <2>7. Shape(data)'
    BY <2>1, <2>2 DEF Shape
  <2> QED
    BY <2>1, <2>3, <2>5, <2>6, <2>7 DEF TextInv, FileRestored
<1>3. CASE KeepOrder
  <2>1. /\ stage = "reorder" /\ stage' = "layers" /\ method' = method
        /\ file' = file /\ data' = data /\ at' = at /\ OrderOf(method) = "none"
    BY <1>3 DEF KeepOrder
  <2>2. at = 1 /\ Shape(data) /\ data.text = file /\ data.layers = <<>>
    BY <2>1 DEF TextInv
  <2>3. Fits(method, data.text, file)'
    BY <2>1, <2>2 DEF Fits, OrderOf
  <2>4. Stacked(Stack(method'), method')
    BY StackIs
  <2>5. at' \in 1 .. Len(Layers) + 1 /\ at' - 1 = 0
    BY <2>1, <2>2, LayersType
  <2>6. data'.layers = Stack(method')[at' - 1]
    BY <2>1, <2>2, <2>4, <2>5 DEF Stacked
  <2>7. Shape(data)'
    BY <2>1, <2>2 DEF Shape
  <2> QED
    BY <2>1, <2>3, <2>5, <2>6, <2>7 DEF TextInv, FileRestored
<1>4. CASE SortPages
  <2>1. /\ stage = "reorder" /\ OrderOf(method) = "key" /\ IsPageStream(file)
        /\ AscendingIds(Split(file).pages) /\ UNCHANGED <<file, method, at>>
    BY <1>4 DEF SortPages
  <2>2. PICK idx \in [1 .. Pages -> 1 .. Pages] : IsInjective(idx) /\ Arrange(idx)
    BY <1>4 DEF SortPages, Pages
  <2>3. at = 1 /\ file \in Files /\ OrderOf(method) # "none"
    BY <2>1 DEF TextInv, WalkInv
  <2> QED
    BY <2>1, <2>2, <2>3, ArrangeFits
<1>5. CASE StartWalk
  <2>1. /\ stage = "reorder" /\ stage' = "walk" /\ OrderOf(method) = "greedy"
        /\ IsPageStream(file) /\ AscendingIds(Split(file).pages)
        /\ file' = file /\ method' = method /\ data' = data /\ at' = at
    BY <1>5 DEF StartWalk
  <2>2. at = 1 /\ Shape(data) /\ data.text = file /\ data.layers = <<>>
    BY <2>1 DEF TextInv
  <2> QED
    BY <2>1, <2>2 DEF TextInv, Shape, OrderOf, FileRestored
<1>6. CASE WalkStep
  <2>1. /\ stage = "walk" /\ stage' = "walk"
        /\ file' = file /\ method' = method /\ data' = data /\ at' = at
    BY <1>6 DEF WalkStep
  <2> QED
    BY <2>1 DEF TextInv, Shape, OrderOf, FileRestored
<1>7. CASE EndWalk
  <2>1. /\ stage = "walk" /\ walk.window = <<>> /\ Arrange(walk.order)
        /\ UNCHANGED <<file, method, at>>
    BY <1>7 DEF EndWalk
  <2>2. /\ at = 1 /\ file \in Files /\ OrderOf(method) # "none" /\ IsPageStream(file)
        /\ AscendingIds(Split(file).pages)
    BY <2>1 DEF TextInv, WalkInv
  <2>3. Pages \in Nat /\ Deal(walk.order, walk.window, walk.rest, Pages)
    BY <2>1 DEF WalkInv
  <2>4. Len(walk.order) = Pages /\ IsInjective(walk.order)
    BY <2>1, <2>3, Ends
  <2>5. walk.order \in [1 .. Pages -> 1 .. Pages]
    <3>1. walk.order \in Seq(1 .. Pages)
      BY <2>3 DEF Deal
    <3> QED
      BY <2>4, <3>1
  <2> QED
    BY <2>1, <2>2, <2>4, <2>5, ArrangeFits
<1>8. CASE ApplyLayer
  <2>1. /\ stage = "layers" /\ stage' = "layers" /\ at' = at + 1
        /\ at \in 1 .. Len(Layers) + 1 /\ at <= Len(Layers)
        /\ file' = file /\ method' = method
        /\ Shape(data) /\ Fits(method, data.text, file)
        /\ data.layers = Stack(method)[at - 1]
    BY <1>8 DEF ApplyLayer, TextInv
  <2>2. at \in 1 .. Len(Layers) /\ at' \in 1 .. Len(Layers) + 1 /\ at' - 1 = at
    BY <2>1, LayersType
  <2>3. Stack(method)[at] = IF Layers[at] \in Methods[method].layers
                            THEN Append(data.layers, Layers[at]) ELSE data.layers
    <3>1. Stacked(Stack(method), method)
      BY StackIs
    <3> QED
      BY <2>1, <2>2, <3>1 DEF Stacked
  <2>4. Shape(data') /\ data'.text = data.text /\ data'.layers = Stack(method)[at]
    <3>1. CASE Layers[at] \in Methods[method].layers
      <4>1. data' = [data EXCEPT !.layers = Append(@, Layers[at])]
        BY <1>8, <3>1 DEF ApplyLayer
      <4>2. PICK x, y, z : x = data.text /\ y = data.layers /\ z = Append(y, Layers[at])
        OBVIOUS
      <4>3. data = [text |-> x, layers |-> y]
        BY <2>1, <4>2 DEF Shape
      <4>4. data' = [text |-> x, layers |-> z]
        BY <4>1, <4>2, <4>3
      <4>5. data'.text = x /\ data'.layers = z /\ Shape(data')
        BY <4>4 DEF Shape
      <4> QED
        BY <2>3, <3>1, <4>2, <4>5
    <3>2. CASE Layers[at] \notin Methods[method].layers
      <4>1. data' = data
        BY <1>8, <3>2 DEF ApplyLayer
      <4> QED
        BY <2>1, <2>3, <3>2, <4>1 DEF Shape
    <3> QED
      BY <3>1, <3>2
  <2>5. Fits(method, data.text, file)'
    BY <2>1, <2>4 DEF Fits, OrderOf
  <2>6. data'.layers = Stack(method')[at' - 1]
    BY <2>1, <2>2, <2>4
  <2> QED
    BY <2>1, <2>2, <2>4, <2>5, <2>6 DEF TextInv, FileRestored, Shape
<1>9. CASE WriteArchive
  <2>1. /\ stage = "layers" /\ stage' = "pack" /\ file' = file /\ at > Len(Layers)
        /\ at \in 1 .. Len(Layers) + 1
        /\ Fits(method, data.text, file) /\ data.layers = Stack(method)[at - 1]
    BY <1>9 DEF WriteArchive, TextInv
  <2>2. PICK size \in Sizes :
          archive' = [method |-> method, n |-> Len(data.text), payload |-> data.text,
                      layers |-> data.layers, model |-> Model(method, Len(data.text)),
                      size |-> size]
    BY <1>9 DEF WriteArchive
  <2>3. /\ archive'.method = method /\ archive'.n = Len(data.text)
        /\ archive'.payload = data.text /\ archive'.layers = data.layers
        /\ archive'.model = Model(method, Len(data.text))
    BY <2>2
  <2>4. at - 1 = Len(Layers)
    BY <2>1, LayersType
  <2>5. archive'.model = Model(archive'.method, archive'.n)
    BY <2>3
  <2>6. Fits(archive.method, archive.payload, file)'
    BY <2>1, <2>3 DEF Fits, OrderOf
  <2>7. archive'.layers = Stack(archive'.method)[Len(Layers)]
    BY <2>1, <2>3, <2>4
  <2> QED
    BY <2>1, <2>5, <2>6, <2>7 DEF TextInv, FileRestored, Model
<1>10. CASE AppendSfx
  <2>1. stage = "pack" /\ stage' = "extract" /\ file' = file /\ archive' = archive
    BY <1>10 DEF AppendSfx
  <2> QED
    BY <2>1 DEF TextInv, FileRestored, Model, Fits, OrderOf
<1>11. CASE StartDecode
  <2>1. /\ stage = "extract" /\ file' = file /\ archive' = archive
        /\ archive.model = Model(archive.method, archive.n)
        /\ Fits(archive.method, archive.payload, file)
        /\ archive.layers = Stack(archive.method)[Len(Layers)]
    BY <1>11 DEF StartDecode, TextInv
  <2>2. CASE archive.n > MAX_OUTPUT \/ Found # Appended
    <3>1. stage' = "refused"
      BY <1>11, <2>2 DEF StartDecode
    <3> QED
      BY <3>1 DEF TextInv, FileRestored
  <2>3. CASE ~(archive.n > MAX_OUTPUT \/ Found # Appended)
    <3>1. /\ method' = archive.method /\ at' = Len(Layers) /\ stage' = "unlayer"
          /\ data' = [text |-> archive.payload, layers |-> archive.layers]
      BY <1>11, <2>1, <2>3 DEF StartDecode
    <3>2. Shape(data') /\ data'.text = archive.payload /\ data'.layers = archive.layers
      BY <3>1 DEF Shape
    <3>3. Fits(method, data.text, file)'
      BY <2>1, <3>1, <3>2 DEF Fits, OrderOf
    <3>4. at' \in 0 .. Len(Layers)
      BY <3>1, LayersType
    <3>5. data'.layers = Stack(method')[at']
      BY <2>1, <3>1, <3>2
    <3> QED
      BY <3>1, <3>2, <3>3, <3>4, <3>5 DEF TextInv, FileRestored, Shape
  <2> QED
    BY <2>2, <2>3
<1>12. CASE RemoveLayer
  <2>1. /\ stage = "unlayer" /\ stage' = "unlayer" /\ at' = at - 1
        /\ at \in 0 .. Len(Layers) /\ at > 0
        /\ file' = file /\ method' = method
        /\ Shape(data) /\ Fits(method, data.text, file)
        /\ data.layers = Stack(method)[at]
    BY <1>12 DEF RemoveLayer, TextInv
  <2>2. at \in 1 .. Len(Layers) /\ at' \in 0 .. Len(Layers) /\ at - 1 \in 0 .. Len(Layers)
    BY <2>1, LayersType
  <2>3. PICK q \in Seq(LayerNames) : q = Stack(method)[at - 1]
    BY <2>2, StackIs DEF Stacked
  <2>4. data.layers = IF Layers[at] \in Methods[method].layers THEN Append(q, Layers[at]) ELSE q
    <3>1. Stacked(Stack(method), method)
      BY StackIs
    <3> QED
      BY <2>1, <2>2, <2>3, <3>1 DEF Stacked
  <2>5. Shape(data') /\ data'.text = data.text /\ data'.layers = q
    <3>1. CASE Layers[at] \in Methods[method].layers
      <4>1. PICK x, y : x = data.text /\ y = data.layers /\ y = Append(q, Layers[at])
        BY <2>4, <3>1
      <4>2. y # <<>> /\ Last(y) = Layers[at] /\ Front(y) = q
        <5>1. Layers[at] \in LayerNames
          BY <2>2, LayersType
        <5> QED
          BY <4>1, <5>1, Peel
      <4>3. data' = [data EXCEPT !.layers = Front(@)]
        BY <1>12, <3>1, <4>1, <4>2 DEF RemoveLayer
      <4>4. data = [text |-> x, layers |-> y]
        BY <2>1, <4>1 DEF Shape
      <4>5. data' = [text |-> x, layers |-> q]
        BY <4>2, <4>3, <4>4
      <4> QED
        BY <4>1, <4>5 DEF Shape
    <3>2. CASE Layers[at] \notin Methods[method].layers
      <4>1. data' = data
        BY <1>12, <3>2 DEF RemoveLayer
      <4> QED
        BY <2>1, <2>4, <3>2, <4>1 DEF Shape
    <3> QED
      BY <3>1, <3>2
  <2>6. Fits(method, data.text, file)'
    BY <2>1, <2>5 DEF Fits, OrderOf
  <2>7. data'.layers = Stack(method')[at']
    BY <2>1, <2>3, <2>5
  <2> QED
    BY <2>1, <2>2, <2>5, <2>6, <2>7 DEF TextInv, FileRestored, Shape
<1>13. CASE Unreorder
  <2>1. /\ stage = "unlayer" /\ at = 0 /\ stage' = "done" /\ file' = file
        /\ Shape(data) /\ Fits(method, data.text, file)
        /\ data.layers = Stack(method)[0]
    BY <1>13 DEF Unreorder, TextInv
  <2>2. data.layers = <<>>
    BY <2>1, StackIs DEF Stacked
  <2>3. data'.text = file
    <3>1. CASE OrderOf(method) = "none"
      <4>1. data' = data
        BY <1>13, <2>2, <3>1 DEF Unreorder
      <4> QED
        BY <2>1, <3>1, <4>1 DEF Fits
    <3>2. CASE OrderOf(method) # "none"
      <4>1. data' = [data EXCEPT !.text = Restore(@)]
        BY <1>13, <2>2, <3>2 DEF Unreorder
      <4>2. PICK x, y : x = data.text /\ y = data.layers
        OBVIOUS
      <4>3. data = [text |-> x, layers |-> y]
        BY <2>1, <4>2 DEF Shape
      <4>4. data'.text = Restore(x)
        BY <4>1, <4>3
      <4> QED
        BY <2>1, <3>2, <4>2, <4>4 DEF Fits
    <3> QED
      BY <3>1, <3>2
  <2> QED
    BY <2>1, <2>3 DEF TextInv, FileRestored
<1> QED
  BY <1>1, <1>2, <1>3, <1>4, <1>5, <1>6, <1>7, <1>8, <1>9, <1>10, <1>11, <1>12, <1>13 DEF Next

(* What was compressed is what comes out, whatever the method, the order   *)
(* the pages were written in and the window of the greedy walk: the sort   *)
(* by id undoes every order, and each layer's inverse meets just the layer *)
(* it takes off.                                                           *)
THEOREM FilesAreRestored == Spec => []FileRestored
<1>1. Init => TextInv /\ WalkInv
  BY InitText, InitWalk
<1>2. (TextInv /\ WalkInv) /\ [Next]_vars => (TextInv /\ WalkInv)'
  BY StepText, StepWalk
<1>3. TextInv => FileRestored
  BY DEF TextInv
<1> QED
  BY <1>1, <1>2, <1>3, PTL DEF Spec
=============================================================================
