------------------------ MODULE SearchCampaignProofs ------------------------
(***************************************************************************)
(* What a campaign's log is worth after any number of launches, kills and  *)
(* full disks: nothing measured is forgotten, nothing that is read from an *)
(* untorn log is invented, a tune costs no more than one chunk asks for it *)
(* while the log is intact and read, the report names the best of what was *)
(* asked for, guided walks end alike, and the log of one plan is the log   *)
(* of a serial campaign.                                                   *)
(*                                                                         *)
(* The invariants build on each other: the types (TypeInv), the place of   *)
(* every encode (Accounted), the truth of what is known (Honest), what is  *)
(* known of the plan (Planned), how often a receipt is kept (Once), what a *)
(* walk has measured and where it came from (WalkKnown, Walked), and how   *)
(* far the plan has been written (Serial).                                 *)
(***************************************************************************)
EXTENDS SearchCampaign, SequenceTheorems, FiniteSetTheorems, WellFoundedInduction,
        TLAPS

Counts == [Tunes -> Nat]
Trial  == [tune : Tunes, bytes : Nat]
Points == 0 .. Levels * Levels - 1

-----------------------------------------------------------------------------
(* Least elements. *)

\* Min of a set of numbers is its least element.
LEMMA LeastNat ==
  ASSUME NEW S, S \subseteq Nat, S # {}
  PROVE  Min(S) \in S /\ \A y \in S : Min(S) <= y
<1>1. PICK R : R = OpToRel(<, Nat)
  OBVIOUS
<1>2. IsWellFoundedOn(R, Nat)
  BY <1>1, NatLessThanWellFounded
<1>3. PICK x \in S : \A y \in S : <<y, x>> \notin R
  BY <1>2, WFMin
<1>4. \A y \in S : ~(y < x)
  <2> TAKE y \in S
  <2>1. <<y, x>> \notin {ss \in Nat \X Nat : ss[1] < ss[2]}
    BY <1>1, <1>3 DEF OpToRel
  <2>2. <<y, x>> \in Nat \X Nat
    OBVIOUS
  <2>3. ~(<<y, x>>[1] < <<y, x>>[2])
    BY <2>1, <2>2
  <2> QED
    BY <2>3
<1>5. \A y \in S : x <= y
  BY <1>4
<1> QED
  BY <1>5 DEF Min

-----------------------------------------------------------------------------
(* Lines and what is read from them. *)

Others == UNION {Foreign(t) : t \in Tunes}

Whole == {Receipt(t) : t \in Tunes} \cup Others
Torn  == UNION {CutShort(Receipt(t)) : t \in Tunes}

\* A log of lines of at least one object each; the open line is its last.
LogOK ==
  /\ log \in Seq(Seq(Whole \cup Torn))
  /\ \A i \in 1 .. Len(log) : Len(log[i]) >= 1
  /\ open \in BOOLEAN /\ (open => Len(log) >= 1)

\* What is whole and what is cut short, by their fields.
LEMMA ObjectFacts ==
  /\ \A t \in Tunes : /\ Receipt(t).corpus = Here /\ Receipt(t).method = Here
                      /\ Receipt(t).tune = t
                      /\ Receipt(t).bytes = Cost[t] /\ Cost[t] \in Nat
  /\ \A obj \in Others : ~(obj.corpus = Here /\ obj.method = Here)
  /\ \A obj \in Whole : /\ obj.corpus \in {Here, Elsewhere} /\ obj.corpus # Missing
                        /\ obj.method \in {Here, Elsewhere} /\ obj.method # Missing
                        /\ obj.bytes \in Nat /\ obj.bytes # Missing
                        /\ obj.tune \in Tunes /\ obj.tune # Missing
  /\ \A obj \in Torn : obj.tune \notin Tunes
  /\ \A obj \in Whole : obj.corpus = Here /\ obj.method = Here => obj = Receipt(obj.tune)
  /\ Whole \cap Torn = {}
<1>1. \A n \in Tunes : /\ n \in Nat /\ Cost[n] \in Nat
                        /\ n # Missing /\ n # Garbled /\ Cost[n] # Missing
  BY TunesAssumption, CostAssumption, MarksAssumption
<1>2. Here # Missing /\ Elsewhere # Missing /\ Here # Elsewhere /\ 0 # Missing
  BY MarksAssumption
<1>3. \A t \in Tunes : /\ Receipt(t).corpus = Here /\ Receipt(t).method = Here
                       /\ Receipt(t).tune = t
                       /\ Receipt(t).bytes = Cost[t] /\ Cost[t] \in Nat
  BY <1>1 DEF Receipt
<1>4. \A obj \in Others :
        /\ obj.bytes = 0 /\ obj.tune \in Tunes
        /\ \/ obj.corpus = Elsewhere /\ obj.method = Here
           \/ obj.corpus = Here /\ obj.method = Elsewhere
  BY DEF Others, Foreign
<1>5. \A obj \in Whole : /\ obj.corpus \in {Here, Elsewhere} /\ obj.corpus # Missing
                         /\ obj.method \in {Here, Elsewhere} /\ obj.method # Missing
                         /\ obj.bytes \in Nat /\ obj.bytes # Missing
                         /\ obj.tune \in Tunes /\ obj.tune # Missing
  BY <1>1, <1>2, <1>3, <1>4 DEF Whole
<1>6. \A obj \in Torn : obj.tune \notin Tunes
  BY <1>1 DEF Torn, CutShort, Cuts
<1>7. \A obj \in Whole : obj.corpus = Here /\ obj.method = Here => obj = Receipt(obj.tune)
  BY <1>2, <1>3, <1>4 DEF Whole
<1> QED
  BY <1>2, <1>3, <1>4, <1>5, <1>6, <1>7

\* A log is untorn if its objects are whole.
LEMMA UntornIsWhole ==
  ASSUME LogOK, Untorn
  PROVE  \A i \in 1 .. Len(log) : log[i] \in Seq(Whole) /\ Len(log[i]) >= 1
<1> SUFFICES ASSUME NEW i \in 1 .. Len(log)
             PROVE  log[i] \in Seq(Whole) /\ Len(log[i]) >= 1
  OBVIOUS
<1>1. log[i] \in Seq(Whole \cup Torn) /\ Len(log[i]) >= 1
  BY DEF LogOK
<1>2. \A k \in 1 .. Len(log[i]) : log[i][k] \in Whole
  BY <1>1, ObjectFacts DEF Untorn
<1> QED
  BY <1>1, <1>2

\* Of a line of whole objects, the first one is read.
LEMMA FirstIsRead ==
  ASSUME NEW line \in Seq(Whole), Len(line) >= 1
  PROVE  /\ Field(line, "corpus") = line[1].corpus
         /\ Field(line, "bytes") = line[1].bytes
         /\ Field(line, "method") = line[1].method
         /\ Field(line, "tune") = line[1].tune
<1>1. DOMAIN line = 1 .. Len(line) /\ 1 \in DOMAIN line
  OBVIOUS
<1>2. Min(DOMAIN line) = 1
  <2>1. PICK m : m = Min(DOMAIN line)
    OBVIOUS
  <2>2. DOMAIN line \subseteq Nat /\ DOMAIN line # {}
    BY <1>1
  <2>3. m \in 1 .. Len(line) /\ m <= 1
    BY <1>1, <2>1, <2>2, LeastNat
  <2> QED
    BY <2>1, <2>3
<1>3. \A k \in DOMAIN line : /\ line[k]["corpus"] # Missing
                             /\ line[k]["bytes"] # Missing
                             /\ line[k]["method"] # Missing
                             /\ line[k]["tune"] # Missing
  BY ObjectFacts
<1>4. /\ {k \in DOMAIN line : line[k]["corpus"] # Missing} = DOMAIN line
      /\ {k \in DOMAIN line : line[k]["bytes"] # Missing} = DOMAIN line
      /\ {k \in DOMAIN line : line[k]["method"] # Missing} = DOMAIN line
      /\ {k \in DOMAIN line : line[k]["tune"] # Missing} = DOMAIN line
  BY <1>3
<1> QED
  BY <1>1, <1>2, <1>4 DEF Field

\* Every trial that is read from an untorn log is a receipt in it.
LEMMA ReadIsKept ==
  ASSUME LogOK, Untorn, NEW a \in TrialsIn(log)
  PROVE  /\ a.tune \in Tunes /\ a.bytes = Cost[a.tune]
         /\ \E i \in 1 .. Len(log) : log[i][1] = Receipt(a.tune) /\ 1 \in DOMAIN log[i]
<1>1. PICK i \in 1 .. Len(log) : IsTrial(log[i]) /\ a = TrialOf(log[i])
  <2>1. DOMAIN log = 1 .. Len(log)
    BY DEF LogOK
  <2>2. PICK line \in {l \in ToSet(log) : IsTrial(l)} : a = TrialOf(line)
    BY DEF TrialsIn
  <2>3. PICK i \in DOMAIN log : line = log[i]
    BY <2>2 DEF ToSet
  <2> QED
    BY <2>1, <2>2, <2>3
<1>2. log[i] \in Seq(Whole) /\ Len(log[i]) >= 1
  BY UntornIsWhole
<1>3. PICK obj \in Whole : obj = log[i][1]
  BY <1>2
<1>4. /\ obj.corpus = Here /\ obj.method = Here
      /\ a = [tune |-> obj.tune, bytes |-> obj.bytes]
  BY <1>1, <1>2, <1>3, FirstIsRead DEF IsTrial, TrialOf
<1>5. obj = Receipt(obj.tune) /\ obj.tune \in Tunes
  BY <1>4, ObjectFacts
<1>6. a.tune = obj.tune /\ a.bytes = Cost[obj.tune]
  BY <1>4, <1>5, ObjectFacts
<1> QED
  BY <1>2, <1>3, <1>5, <1>6

-----------------------------------------------------------------------------
(* Writing an object. *)

LEMMA PlaceFacts ==
  ASSUME NEW l \in Seq(Seq(Whole \cup Torn)), NEW i, NEW k
  PROVE  <<i, k>> \in UNION {{j} \X DOMAIN l[j] : j \in DOMAIN l}
           <=> i \in 1 .. Len(l) /\ k \in 1 .. Len(l[i])
<1>1. DOMAIN l = 1 .. Len(l) /\ \A j \in 1 .. Len(l) : DOMAIN l[j] = 1 .. Len(l[j])
  OBVIOUS
<1>2. ASSUME <<i, k>> \in UNION {{j} \X DOMAIN l[j] : j \in DOMAIN l}
      PROVE  i \in 1 .. Len(l) /\ k \in 1 .. Len(l[i])
  <2>1. PICK j \in DOMAIN l : <<i, k>> \in {j} \X DOMAIN l[j]
    BY <1>2
  <2> QED
    BY <1>1, <2>1
<1>3. ASSUME i \in 1 .. Len(l), k \in 1 .. Len(l[i])
      PROVE  <<i, k>> \in UNION {{j} \X DOMAIN l[j] : j \in DOMAIN l}
  <2>1. <<i, k>> \in {i} \X DOMAIN l[i] /\ i \in DOMAIN l
    BY <1>1, <1>3
  <2> QED
    BY <2>1
<1> QED
  BY <1>2, <1>3

\* The object takes one new place, and all others keep theirs.
LEMMA AddedObject ==
  ASSUME LogOK, NEW obj \in Whole \cup Torn, AddObject(obj), open'
  PROVE  /\ LogOK'
         /\ \E p : /\ p \notin Places /\ Places' = Places \cup {p}
                  /\ log'[p[1]][p[2]] = obj
                  /\ \A q \in Places : log'[q[1]][q[2]] = log[q[1]][q[2]]
         /\ Intact' => ~open /\ log' = Append(log, <<obj>>)
<1> DEFINE Obs == Whole \cup Torn
<1>1. PICK n : n = Len(log)
  OBVIOUS
<1>2. log \in Seq(Seq(Obs)) /\ n \in Nat
  BY <1>1 DEF LogOK
<1>3. CASE open
  <2>1. n \in 1 .. Len(log)
    BY <1>1, <1>2, <1>3 DEF LogOK
  <2>2. PICK line : line = log[n]
    OBVIOUS
  <2>3. line \in Seq(Obs) /\ Len(line) >= 1
    BY <1>2, <2>1, <2>2 DEF LogOK
  <2>4. PICK longer : longer = Append(line, obj)
    OBVIOUS
  <2>5. /\ longer \in Seq(Obs) /\ Len(longer) = Len(line) + 1
        /\ longer[Len(line) + 1] = obj /\ \A k \in 1 .. Len(line) : longer[k] = line[k]
    BY <2>3, <2>4
  <2>6. log' = [log EXCEPT ![n] = longer]
    BY <1>1, <1>3, <2>2, <2>4 DEF AddObject
  <2>7. /\ log' \in Seq(Seq(Obs)) /\ Len(log') = n /\ log'[n] = longer
        /\ \A i \in 1 .. n : i # n => log'[i] = log[i]
    BY <1>1, <1>2, <2>1, <2>5, <2>6
  <2>8. LogOK'
    <3>1. \A i \in 1 .. Len(log') : Len(log'[i]) >= 1
      <4> TAKE i \in 1 .. Len(log')
      <4>1. CASE i = n
        <5>1. log'[i] = longer
          BY <2>7, <4>1
        <5> QED
          BY <2>3, <2>5, <5>1
      <4>2. CASE i # n
        <5>1. i \in 1 .. Len(log) /\ log'[i] = log[i]
          BY <1>1, <2>7, <4>2
        <5> QED
          BY <5>1 DEF LogOK
      <4> QED
        BY <4>1, <4>2
    <3> QED
      BY <2>1, <2>7, <3>1, <1>1 DEF LogOK
  <2>9. PICK p : p = <<n, Len(line) + 1>>
    OBVIOUS
  <2>10. p \notin Places /\ Places' = Places \cup {p}
    <3>1. \A i, k : <<i, k>> \in Places <=> i \in 1 .. n /\ k \in 1 .. Len(log[i])
      BY <1>1, <1>2, PlaceFacts DEF Places
    <3>2. \A i, k : <<i, k>> \in Places' <=> i \in 1 .. n /\ k \in 1 .. Len(log'[i])
      BY <2>7, PlaceFacts DEF Places
    <3>3. p \notin Places
      BY <2>2, <2>3, <2>9, <3>1
    <3>4. \A i, k : <<i, k>> \in Places' <=> <<i, k>> \in Places \/ <<i, k>> = p
      <4> TAKE i, k
      <4>1. CASE i = n
        BY <1>1, <2>1, <2>2, <2>3, <2>5, <2>7, <2>9, <3>1, <3>2, <4>1
      <4>2. CASE i # n
        BY <2>7, <2>9, <3>1, <3>2, <4>2
      <4> QED
        BY <4>1, <4>2
    <3>5. /\ \A q \in Places : \E i, k : q = <<i, k>>
          /\ \A q \in Places' : \E i, k : q = <<i, k>>
      BY DEF Places
    <3> QED
      BY <2>9, <3>3, <3>4, <3>5
  <2>11. log'[p[1]][p[2]] = obj
    BY <2>5, <2>7, <2>9
  <2>12. ASSUME NEW q \in Places PROVE log'[q[1]][q[2]] = log[q[1]][q[2]]
    <3>1. PICK i, k : q = <<i, k>>
      BY DEF Places
    <3>2. i \in 1 .. n /\ k \in 1 .. Len(log[i])
      BY <1>1, <1>2, <3>1, PlaceFacts DEF Places
    <3>3. log'[i][k] = log[i][k]
      BY <2>2, <2>5, <2>7, <3>2
    <3> QED
      BY <3>1, <3>3
  <2>13. ~Intact'
    BY <2>1, <2>3, <2>5, <2>7, <1>1 DEF Intact
  <2> QED
    BY <2>8, <2>10, <2>11, <2>12, <2>13
<1>4. CASE ~open
  <2>1. log' = Append(log, <<obj>>)
    BY <1>4 DEF AddObject
  <2>2. <<obj>> \in Seq(Obs) /\ Len(<<obj>>) = 1 /\ <<obj>>[1] = obj
    OBVIOUS
  <2>3. /\ log' \in Seq(Seq(Obs)) /\ Len(log') = n + 1 /\ log'[n + 1] = <<obj>>
        /\ \A i \in 1 .. n : log'[i] = log[i]
    BY <1>1, <1>2, <2>1, <2>2
  <2>4. LogOK'
    <3>1. \A i \in 1 .. Len(log') : Len(log'[i]) >= 1
      <4> TAKE i \in 1 .. Len(log')
      <4>1. CASE i = n + 1
        <5>1. log'[i] = <<obj>>
          BY <2>3, <4>1
        <5> QED
          BY <2>2, <5>1
      <4>2. CASE i # n + 1
        <5>1. i \in 1 .. Len(log) /\ log'[i] = log[i]
          BY <1>1, <1>2, <2>3, <4>2
        <5> QED
          BY <5>1 DEF LogOK
      <4> QED
        BY <4>1, <4>2
    <3> QED
      BY <1>2, <2>3, <3>1 DEF LogOK
  <2>5. PICK p : p = <<n + 1, 1>>
    OBVIOUS
  <2>6. p \notin Places /\ Places' = Places \cup {p}
    <3>1. \A i, k : <<i, k>> \in Places <=> i \in 1 .. n /\ k \in 1 .. Len(log[i])
      BY <1>1, <1>2, PlaceFacts DEF Places
    <3>2. \A i, k : <<i, k>> \in Places' <=> i \in 1 .. n + 1 /\ k \in 1 .. Len(log'[i])
      BY <2>3, PlaceFacts DEF Places
    <3>3. p \notin Places
      BY <1>2, <2>5, <3>1
    <3>4. \A i, k : <<i, k>> \in Places' <=> <<i, k>> \in Places \/ <<i, k>> = p
      <4> TAKE i, k
      <4>1. CASE i = n + 1
        <5>1. i \in 1 .. n + 1 /\ i \notin 1 .. n /\ Len(log'[i]) = 1
          <6>1. n + 1 \in 1 .. n + 1 /\ n + 1 \notin 1 .. n
            BY <1>2
          <6>2. log'[i] = <<obj>>
            BY <2>3, <4>1
          <6> QED
            BY <2>2, <4>1, <6>1, <6>2
        <5>2. <<i, k>> \in Places' <=> k \in 1 .. 1
          BY <3>2, <5>1
        <5>3. k \in 1 .. 1 <=> <<i, k>> = p
          BY <2>5, <4>1
        <5> QED
          BY <3>1, <5>1, <5>2, <5>3
      <4>2. CASE i # n + 1
        <5>1. i \in 1 .. n + 1 <=> i \in 1 .. n
          BY <1>2, <4>2
        <5>2. <<i, k>> # p
          BY <2>5, <4>2
        <5>3. <<i, k>> \in Places' <=> i \in 1 .. n /\ k \in 1 .. Len(log'[i])
          BY <3>2, <5>1
        <5>4. CASE i \in 1 .. n
          <6>1. log'[i] = log[i]
            BY <2>3, <5>4
          <6> QED
            BY <3>1, <5>2, <5>3, <6>1
        <5>5. CASE i \notin 1 .. n
          BY <3>1, <5>2, <5>3, <5>5
        <5> QED
          BY <5>4, <5>5
      <4> QED
        BY <4>1, <4>2
    <3>5. /\ \A q \in Places : \E i, k : q = <<i, k>>
          /\ \A q \in Places' : \E i, k : q = <<i, k>>
      BY DEF Places
    <3> QED
      BY <2>5, <3>3, <3>4, <3>5
  <2>7. log'[p[1]][p[2]] = obj
    BY <2>2, <2>3, <2>5
  <2>8. ASSUME NEW q \in Places PROVE log'[q[1]][q[2]] = log[q[1]][q[2]]
    <3>1. PICK i, k : q = <<i, k>>
      BY DEF Places
    <3>2. i \in 1 .. n /\ k \in 1 .. Len(log[i])
      BY <1>1, <1>2, <3>1, PlaceFacts DEF Places
    <3>3. log'[i][k] = log[i][k]
      BY <2>3, <3>2
    <3> QED
      BY <3>1, <3>3
  <2> QED
    BY <1>4, <2>1, <2>4, <2>6, <2>7, <2>8
<1> QED
  BY <1>3, <1>4

-----------------------------------------------------------------------------
(* The guided walk stays among the tunes. *)

Walks ==
  [stage : {"none", "descent", "climb", "compare"}, at : Points, round : Nat,
   axis : 1 .. Len(Axes), level : 0 .. Levels, improved : BOOLEAN, stale : Nat,
   seed : 1 .. Len(Moves)]

WalkOK(w) == w \in Walks /\ (w.stage # "none" => Guided)

LEMMA WalkConstants ==
  /\ Levels \in Nat /\ Levels >= 1 /\ Levels * Levels \in Nat
  /\ Len(Axes) \in Nat /\ Len(Axes) >= 1
  /\ \A i \in 1 .. Len(Axes) : Axes[i] \in {"lr", "apm"}
  /\ Len(Moves) \in Nat /\ 1 \in 1 .. Len(Moves)
  /\ \A i \in 1 .. Len(Moves) : Moves[i].axis \in {"lr", "apm"} /\ Moves[i].by \in Int
<1>1. Levels \in Nat /\ Levels >= 1
  BY LevelsAssumption
<1>2. Levels * Levels \in Nat
  BY <1>1
<1>3. /\ Len(Axes) \in Nat /\ Len(Axes) >= 1
      /\ \A i \in 1 .. Len(Axes) : Axes[i] \in {"lr", "apm"}
  <2>1. CASE Axes = <<"lr">>
    BY <2>1
  <2>2. CASE Axes = <<"lr", "apm">>
    BY <2>2
  <2> QED
    BY <2>1, <2>2, AxesAssumption
<1>4. Len(Moves) \in Nat /\ 1 \in 1 .. Len(Moves)
  BY MovesAssumption
<1>5. \A i \in 1 .. Len(Moves) : Moves[i].axis \in {"lr", "apm"} /\ Moves[i].by \in Int
  BY <1>3, MovesAssumption
<1> QED
  BY <1>1, <1>2, <1>3, <1>4, <1>5

LEMMA LevelDigits ==
  ASSUME NEW t \in Points
  PROVE  /\ t % Levels \in 0 .. Levels - 1 /\ t \div Levels \in 0 .. Levels - 1
         /\ t = (t \div Levels) * Levels + (t % Levels)
<1>1. Levels \in Nat \ {0} /\ t \in Nat /\ t <= Levels * Levels - 1
  BY WalkConstants DEF Points
<1>2. /\ t \div Levels \in Nat /\ t % Levels \in 0 .. Levels - 1
      /\ t = (t \div Levels) * Levels + (t % Levels)
  BY <1>1
<1>3. PICK q \in Nat, r \in Nat : q = t \div Levels /\ r = t % Levels
  BY <1>2
<1>4. q <= Levels - 1
  <2>1. SUFFICES ASSUME q >= Levels PROVE FALSE
    BY <1>1
  <2>2. q * Levels >= Levels * Levels
    BY <1>1, <2>1
  <2>3. q * Levels \in Nat /\ Levels * Levels \in Nat
    BY <1>1
  <2> QED
    BY <1>1, <1>2, <1>3, <2>2, <2>3
<1> QED
  BY <1>1, <1>2, <1>3, <1>4

LEMMA AtLevelOK ==
  ASSUME NEW t \in Points, NEW axis \in {"lr", "apm"}, NEW v \in 0 .. Levels - 1
  PROVE  AtLevel(t, axis, v) \in Points /\ Level(t, axis) \in 0 .. Levels - 1
<1>1. /\ t % Levels \in 0 .. Levels - 1 /\ t \div Levels \in 0 .. Levels - 1
      /\ t = (t \div Levels) * Levels + (t % Levels)
  BY LevelDigits
<1>2. Levels \in Nat /\ Levels >= 1 /\ Levels * Levels \in Nat
  BY WalkConstants
<1>3. \A a, b \in 0 .. Levels - 1 : a * Levels + b \in Points
  <2> TAKE a, b \in 0 .. Levels - 1
  <2>1. a * Levels <= (Levels - 1) * Levels
    BY <1>2
  <2>2. (Levels - 1) * Levels = Levels * Levels - Levels
    BY <1>2
  <2>3. a * Levels \in Nat
    BY <1>2
  <2> QED
    BY <1>2, <2>1, <2>2, <2>3 DEF Points
<1>4. CASE axis = "lr"
  <2>1. AtLevel(t, axis, v) = t - (t % Levels) + v
    BY <1>4 DEF AtLevel
  <2>2. t \in Int /\ (t \div Levels) * Levels \in Int
    BY <1>1, <1>2 DEF Points
  <2>3. AtLevel(t, axis, v) = (t \div Levels) * Levels + v
    BY <1>1, <2>1, <2>2
  <2> QED
    BY <1>1, <1>3, <1>4, <2>3 DEF Level
<1>5. CASE axis = "apm"
  <2>1. v * Levels \in Int
    BY <1>2
  <2>2. AtLevel(t, axis, v) = v * Levels + (t % Levels)
    BY <1>1, <1>5, <2>1 DEF AtLevel
  <2> QED
    BY <1>1, <1>3, <1>5, <2>2 DEF Level
<1> QED
  BY <1>4, <1>5

LEMMA MutatedOK ==
  ASSUME NEW w \in Walks
  PROVE  Mutated(w) \in Points /\ NextSeed(w) \in 1 .. Len(Moves)
<1>1. w.at \in Points /\ w.seed \in 1 .. Len(Moves)
  BY DEF Walks
<1>2. PICK axis \in {"lr", "apm"}, by \in Int : axis = Moves[w.seed].axis /\ by = Moves[w.seed].by
  BY <1>1, WalkConstants
<1>3. PICK l \in 0 .. Levels - 1 : l = Level(w.at, axis)
  <2>1. 0 \in 0 .. Levels - 1
    BY WalkConstants
  <2> QED
    BY <1>1, <2>1, AtLevelOK
<1>4. (l + by) % Levels \in 0 .. Levels - 1
  BY WalkConstants
<1>5. Mutated(w) \in Points
  BY <1>1, <1>2, <1>3, <1>4, AtLevelOK DEF Mutated, Neighbor
<1>6. NextSeed(w) \in 1 .. Len(Moves)
  <2>1. PICK n \in Nat \ {0}, k \in Nat : n = Len(Moves) /\ k = w.seed
    BY <1>1, WalkConstants
  <2>2. k % n \in 0 .. n - 1
    BY <2>1
  <2>3. (k % n) + 1 \in 1 .. n
    BY <2>1, <2>2
  <2> QED
    BY <2>1, <2>3 DEF NextSeed
<1> QED
  BY <1>5, <1>6

\* A point that is to be measured is a tune.
LEMMA PointOK ==
  ASSUME NEW w, WalkOK(w), WantsPoint(w)
  PROVE  Point(w) \in Tunes /\ WalkOK(PointKnown(w))
<1>1. w \in Walks /\ Guided /\ Tunes = Points
  BY TunesAssumption DEF WalkOK, WantsPoint, Points
<1>2. /\ w.at \in Points /\ w.level \in 0 .. Levels /\ w.axis \in 1 .. Len(Axes)
  BY <1>1 DEF Walks
<1>3. CASE w.stage = "descent"
  <2>1. w.level < Levels
    BY <1>3 DEF WantsPoint
  <2>2. w.level \in 0 .. Levels - 1 /\ w.level + 1 \in 0 .. Levels
    BY <1>2, <2>1, WalkConstants
  <2>3. Point(w) = AtLevel(w.at, Axes[w.axis], w.level)
    BY <1>3 DEF Point
  <2>4. PointKnown(w) = [w EXCEPT !.level = w.level + 1]
    BY <1>3 DEF PointKnown
  <2> QED
    <3>1. Axes[w.axis] \in {"lr", "apm"}
      BY <1>2, WalkConstants
    <3>2. Point(w) \in Points
      BY <1>2, <2>2, <2>3, <3>1, AtLevelOK
    <3>3. WalkOK(PointKnown(w))
      BY <1>1, <2>2, <2>4 DEF WalkOK, Walks
    <3> QED
      BY <1>1, <3>2, <3>3
<1>4. CASE w.stage # "descent"
  <2>1. PointKnown(w) = [w EXCEPT !.stage = "compare"]
    BY <1>4 DEF PointKnown
  <2>2. WalkOK(PointKnown(w))
    BY <1>1, <2>1 DEF WalkOK, Walks
  <2>3. Mutated(w) \in Points
    BY <1>1, MutatedOK
  <2>4. Point(w) = Mutated(w)
    BY <1>4 DEF Point
  <2> QED
    BY <1>1, <2>2, <2>3, <2>4
<1> QED
  BY <1>3, <1>4

\* v is the lowest of the levels with the smallest archive.
IsBest(w, bytes, v) ==
  \A u \in 0 .. Levels - 1 :
    \/ bytes[AtLevel(w.at, Axes[w.axis], v)] < bytes[AtLevel(w.at, Axes[w.axis], u)]
    \/ /\ bytes[AtLevel(w.at, Axes[w.axis], v)] = bytes[AtLevel(w.at, Axes[w.axis], u)]
       /\ v <= u

LEMMA BestLevelOK ==
  ASSUME NEW w \in Walks, NEW bytes \in [Points -> Nat]
  PROVE  BestLevel(w, bytes) \in 0 .. Levels - 1 /\ IsBest(w, bytes, BestLevel(w, bytes))
<1>1. PICK axis \in {"lr", "apm"} : axis = Axes[w.axis]
  BY WalkConstants DEF Walks
<1>2. PICK b : b = [v \in 0 .. Levels - 1 |-> bytes[AtLevel(w.at, axis, v)]]
  OBVIOUS
<1>3. \A v \in 0 .. Levels - 1 : b[v] \in Nat
  BY <1>2, AtLevelOK DEF Walks
<1>4. 0 \in 0 .. Levels - 1
  BY WalkConstants
<1>5. PICK m \in {b[v] : v \in 0 .. Levels - 1} : \A v \in 0 .. Levels - 1 : m <= b[v]
  <2>1. PICK B : B = {b[v] : v \in 0 .. Levels - 1}
    OBVIOUS
  <2>2. B \subseteq Nat /\ B # {}
    BY <1>3, <1>4, <2>1
  <2>3. Min(B) \in B /\ \A y \in B : Min(B) <= y
    BY <2>2, LeastNat
  <2> QED
    BY <2>1, <2>3
<1>6. PICK v \in 0 .. Levels - 1 :
        b[v] = m /\ \A u \in 0 .. Levels - 1 : b[u] = m => v <= u
  <2>1. PICK V : V = {u \in 0 .. Levels - 1 : b[u] = m}
    OBVIOUS
  <2>2. V \subseteq Nat /\ V # {}
    BY <1>5, <2>1
  <2>3. Min(V) \in V /\ \A y \in V : Min(V) <= y
    BY <2>2, LeastNat
  <2> QED
    BY <2>1, <2>3
<1>7. \A u \in 0 .. Levels - 1 : b[v] < b[u] \/ (b[v] = b[u] /\ v <= u)
  BY <1>3, <1>5, <1>6
<1>8. \A u \in 0 .. Levels - 1 : b[u] = bytes[AtLevel(w.at, Axes[w.axis], u)]
  BY <1>1, <1>2
<1>9. IsBest(w, bytes, v)
  BY <1>7, <1>8 DEF IsBest
<1>10. BestLevel(w, bytes) = CHOOSE x \in 0 .. Levels - 1 : IsBest(w, bytes, x)
  BY DEF BestLevel, IsBest
<1> QED
  BY <1>9, <1>10

LEMMA AxisDoneOK ==
  ASSUME NEW w, WalkOK(w), w.stage = "descent", NEW bytes \in [Points -> Nat]
  PROVE  WalkOK(AxisDone(w, bytes))
<1>1. w \in Walks /\ Guided
  BY DEF WalkOK
<1>2. PICK low \in 0 .. Levels - 1 : low = BestLevel(w, bytes)
  BY <1>1, BestLevelOK
<1>3. /\ w.axis \in 1 .. Len(Axes) /\ w.round \in Nat /\ w.at \in Points
      /\ Axes[w.axis] \in {"lr", "apm"}
  BY <1>1, WalkConstants DEF Walks
<1>4. PICK at \in Points : at = AtLevel(w.at, Axes[w.axis], low)
  BY <1>3, AtLevelOK
<1>5. PICK improved \in BOOLEAN : improved = (w.improved \/ low # Level(w.at, Axes[w.axis]))
  OBVIOUS
<1>6. PICK moved : moved = [w EXCEPT !.at = at, !.level = 0]
  OBVIOUS
<1>7. moved \in Walks /\ moved.axis = w.axis /\ moved.round = w.round /\ moved.stage = "descent"
  <2>1. 0 \in 0 .. Levels
    BY WalkConstants
  <2>2. moved \in Walks
    BY <1>1, <1>6, <2>1 DEF Walks
  <2> QED
    BY <1>1, <1>6, <2>2 DEF Walks
<1>8. CASE w.axis < Len(Axes)
  <2>1. w.axis + 1 \in 1 .. Len(Axes)
    BY <1>3, <1>8, WalkConstants
  <2>2. AxisDone(w, bytes) = [moved EXCEPT !.axis = w.axis + 1, !.improved = improved]
    BY <1>2, <1>4, <1>5, <1>6, <1>7, <1>8 DEF AxisDone
  <2> QED
    BY <1>1, <1>7, <2>1, <2>2 DEF WalkOK, Walks
<1>9. CASE ~(w.axis < Len(Axes)) /\ improved /\ w.round < Rounds
  <2>1. AxisDone(w, bytes) = [moved EXCEPT !.axis = 1, !.round = w.round + 1, !.improved = FALSE]
    BY <1>2, <1>4, <1>5, <1>6, <1>7, <1>9 DEF AxisDone
  <2> QED
    <3>1. w.round + 1 \in Nat /\ 1 \in 1 .. Len(Axes)
      BY <1>3, WalkConstants
    <3> QED
      BY <1>1, <1>7, <2>1, <3>1 DEF WalkOK, Walks
<1>10. CASE ~(w.axis < Len(Axes)) /\ ~(improved /\ w.round < Rounds)
  <2>1. AxisDone(w, bytes) = [moved EXCEPT !.stage = "climb", !.improved = improved]
    BY <1>2, <1>4, <1>5, <1>6, <1>7, <1>10 DEF AxisDone
  <2> QED
    BY <1>1, <1>7, <2>1 DEF WalkOK, Walks
<1> QED
  BY <1>8, <1>9, <1>10

LEMMA WalkStep ==
  ASSUME NEW w \in Walks, Guided, NEW at \in Points, NEW seed \in 1 .. Len(Moves)
  PROVE  /\ WalkOK([w EXCEPT !.stage = "climb", !.at = at, !.stale = 0, !.seed = seed])
         /\ WalkOK([w EXCEPT !.stage = "climb", !.stale = w.stale + 1, !.seed = seed])
<1>1. w.stale + 1 \in Nat
  BY DEF Walks
<1>2. [w EXCEPT !.stage = "climb", !.at = at, !.stale = 0, !.seed = seed] \in Walks
  BY DEF Walks
<1>3. [w EXCEPT !.stage = "climb", !.stale = w.stale + 1, !.seed = seed] \in Walks
  BY <1>1 DEF Walks
<1> QED
  BY <1>2, <1>3 DEF WalkOK

LEMMA CandidateOK ==
  ASSUME NEW w, WalkOK(w), w.stage = "compare", NEW bytes
  PROVE  WalkOK(CandidateKnown(w, bytes))
<1>1. w \in Walks /\ Guided /\ w.stale \in Nat
  BY DEF WalkOK, Walks
<1>2. PICK at \in Points, seed \in 1 .. Len(Moves) : at = Mutated(w) /\ seed = NextSeed(w)
  BY <1>1, MutatedOK
<1>3. /\ WalkOK([w EXCEPT !.stage = "climb", !.at = at, !.stale = 0, !.seed = seed])
      /\ WalkOK([w EXCEPT !.stage = "climb", !.stale = w.stale + 1, !.seed = seed])
  BY <1>1, WalkStep
<1>4. CASE bytes[Mutated(w)] < bytes[w.at]
  <2>1. CandidateKnown(w, bytes) =
          [w EXCEPT !.stage = "climb", !.at = at, !.stale = 0, !.seed = seed]
    BY <1>2, <1>4 DEF CandidateKnown
  <2> QED
    BY <1>3, <2>1
<1>5. CASE ~(bytes[Mutated(w)] < bytes[w.at])
  <2>1. CandidateKnown(w, bytes) =
          [w EXCEPT !.stage = "climb", !.stale = w.stale + 1, !.seed = seed]
    BY <1>2, <1>5 DEF CandidateKnown
  <2> QED
    BY <1>3, <2>1
<1> QED
  BY <1>4, <1>5

LEMMA NewWalksOK == WalkOK(NoWalk) /\ (Guided => WalkOK(NewWalk))
<1>1. Start \in Points /\ 1 \in 1 .. Len(Axes) /\ 1 \in 1 .. Len(Moves) /\ 0 \in 0 .. Levels
  BY WalkConstants, WalkAssumption DEF Points
<1>2. NoWalk \in Walks /\ NoWalk.stage = "none"
  BY <1>1 DEF NoWalk, Walks
<1>3. NewWalk \in Walks
  BY <1>2 DEF NewWalk, Walks
<1> QED
  BY <1>2, <1>3 DEF WalkOK

-----------------------------------------------------------------------------
(* Types. *)

TypeInv ==
  /\ pc \in {"off", "plan", "encode", "write", "newline", "done"}
  /\ plan \in Seq(Tunes) /\ plan \in Plans \cup {<<>>}
  /\ pos \in Nat
  /\ batch \in Counts /\ paid \in Counts /\ lost \in Counts
  /\ all \subseteq Trial /\ blind \in Nat
  /\ LogOK
  /\ WalkOK(walk)
  /\ pc \in {"off", "plan", "done"} => batch = NoTrials
  /\ pc \in {"encode", "write", "newline"} => batch # NoTrials

LEMMA CountFacts ==
  /\ NoTrials \in Counts
  /\ \A t \in Tunes : NoTrials[t] = 0
  /\ \A m, n \in Counts : Plus(m, n) \in Counts /\ \A t \in Tunes : Plus(m, n)[t] = m[t] + n[t]
  BY DEF NoTrials, Counts, Plus

LEMMA NextTuneFacts ==
  ASSUME batch \in Counts, batch # NoTrials
  PROVE  /\ NextTune \in Tunes /\ batch[NextTune] > 0
         /\ Rest \in Counts /\ Rest[NextTune] = batch[NextTune] - 1
         /\ \A t \in Tunes : t # NextTune => Rest[t] = batch[t]
<1>1. PICK S : S = {t \in Tunes : batch[t] > 0}
  OBVIOUS
<1>2. S # {}
  <2>1. SUFFICES ASSUME \A t \in Tunes : ~(batch[t] > 0) PROVE FALSE
    BY <1>1
  <2>2. \A t \in Tunes : batch[t] = 0
    BY <2>1 DEF Counts
  <2>3. batch = NoTrials
    BY <2>2 DEF Counts, NoTrials
  <2> QED
    BY <2>3
<1>3. S \subseteq Nat
  BY <1>1, TunesAssumption
<1>4. NextTune \in S
  BY <1>1, <1>2, <1>3, LeastNat DEF NextTune
<1>5. NextTune \in Tunes /\ batch[NextTune] > 0
  BY <1>1, <1>4
<1>6. PICK n \in Tunes : n = NextTune
  BY <1>5
<1>7. Rest = [batch EXCEPT ![n] = batch[n] - 1]
  BY <1>6 DEF Rest
<1>8. batch[n] - 1 \in Nat
  BY <1>5, <1>6 DEF Counts
<1> QED
  BY <1>5, <1>6, <1>7, <1>8 DEF Counts

\* No tune is repeated within Jobs trials: an ascending plan is such a one.
Apart(p) == \A i, j \in 1 .. Len(p) : i < j /\ j < i + Jobs => p[i] # p[j]

LEMMA TodoFacts ==
  ASSUME plan \in Seq(Tunes), plan \in Plans \cup {<<>>}, pos \in Nat, pos < Len(plan)
  PROVE  /\ Todo \in Counts
         /\ \A t \in Tunes : t \in Tried => Todo[t] = 0
         /\ \A i \in 1 .. Len(plan) :
              pos < i /\ i <= pos + Jobs => plan[i] \in Tried \/ Todo[plan[i]] > 0
         /\ \A t \in Tunes : Todo[t] > 0 =>
              /\ t \notin Tried
              /\ \E i \in 1 .. Len(plan) : pos < i /\ i <= pos + Jobs /\ plan[i] = t
         /\ \A t \in Tunes : Todo[t] \in {0, Times(t, Chunk)} /\ Times(t, Chunk) \in Nat
         /\ Apart(plan) => \A t \in Tunes : Todo[t] <= 1
<1>1. Jobs \in Nat \ {0} /\ Len(plan) \in Nat
  BY JobsAssumption
<1>2. PICK m \in Nat : /\ m = Min({pos + Jobs, Len(plan)})
                       /\ m \in {pos + Jobs, Len(plan)} /\ m <= pos + Jobs /\ m <= Len(plan)
  <2>1. PICK S : S = {pos + Jobs, Len(plan)}
    OBVIOUS
  <2>2. S \subseteq Nat /\ S # {}
    BY <1>1, <2>1
  <2> QED
    BY <2>1, <2>2, LeastNat
<1>3. pos < m
  BY <1>1, <1>2
<1>4. Chunk = SubSeq(plan, pos + 1, m)
  BY <1>2 DEF Chunk, ChunkAt
<1>5. /\ Chunk \in Seq(Tunes) /\ Len(Chunk) = m - pos
      /\ \A j \in 1 .. m - pos : Chunk[j] = plan[pos + j]
  <2>1. PICK from \in Int : from = pos + 1
    OBVIOUS
  <2>2. \A j \in from .. m : plan[j] \in Tunes
    BY <1>1, <1>2, <2>1
  <2>3. /\ SubSeq(plan, from, m) \in Seq(Tunes)
        /\ Len(SubSeq(plan, from, m)) = m - from + 1
        /\ \A j \in 1 .. m - from + 1 : SubSeq(plan, from, m)[j] = plan[from + j - 1]
    <3>1. from <= m /\ m \in Int
      BY <1>2, <1>3, <2>1
    <3> QED
      BY <2>1, <2>2, <3>1, SubSeqProperties
  <2>4. m - from + 1 = m - pos /\ \A j \in Int : from + j - 1 = pos + j
    BY <1>2, <2>1
  <2> QED
    BY <1>4, <2>1, <2>3, <2>4
<1>6. \A t : /\ IsFiniteSet({j \in DOMAIN Chunk : Chunk[j] = t})
             /\ Times(t, Chunk) \in Nat
  <2> TAKE t
  <2>1. IsFiniteSet(1 .. (m - pos)) /\ DOMAIN Chunk = 1 .. (m - pos)
    BY <1>2, <1>3, <1>5, FS_Interval
  <2>2. IsFiniteSet({j \in DOMAIN Chunk : Chunk[j] = t})
    BY <2>1, FS_Subset
  <2> QED
    BY <2>2, FS_CardinalityType DEF Times
<1>7. Todo \in Counts
  BY <1>6 DEF Todo, Counts
<1>8. ASSUME NEW i \in 1 .. Len(plan), pos < i, i <= pos + Jobs, plan[i] \notin Tried
      PROVE  Todo[plan[i]] > 0
  <2>1. i - pos \in 1 .. m - pos /\ i <= m
    BY <1>1, <1>2, <1>8
  <2>2. Chunk[i - pos] = plan[i] /\ i - pos \in DOMAIN Chunk
    BY <1>5, <2>1
  <2>3. PICK S : S = {j \in DOMAIN Chunk : Chunk[j] = plan[i]}
    OBVIOUS
  <2>4. S # {} /\ IsFiniteSet(S)
    BY <1>6, <2>2, <2>3
  <2>5. Cardinality(S) # 0 /\ Cardinality(S) \in Nat
    BY <2>4, FS_EmptySet, FS_CardinalityType
  <2>6. plan[i] \in Tunes
    OBVIOUS
  <2> QED
    BY <1>8, <2>3, <2>5, <2>6 DEF Todo, Times
<1>9. ASSUME Apart(plan), NEW t \in Tunes
      PROVE  Todo[t] <= 1
  <2>1. PICK S : S = {j \in DOMAIN Chunk : Chunk[j] = t}
    OBVIOUS
  <2>3. \A j, k \in S : ~(j < k)
    <3> SUFFICES ASSUME NEW j \in S, NEW k \in S, j < k PROVE FALSE
      OBVIOUS
    <3>1. j \in 1 .. m - pos /\ k \in 1 .. m - pos /\ Chunk[j] = t /\ Chunk[k] = t
      BY <1>5, <2>1
    <3>2. /\ pos + j \in 1 .. Len(plan) /\ pos + k \in 1 .. Len(plan)
          /\ pos + j < pos + k /\ pos + k < pos + j + Jobs
      BY <1>1, <1>2, <3>1
    <3>3. plan[pos + j] = plan[pos + k]
      BY <1>5, <3>1
    <3> QED
      BY <1>9, <3>2, <3>3 DEF Apart
  <2>4. S \subseteq Nat
    BY <1>2, <1>5, <2>1
  <2>5. \A j, k \in S : j = k
    BY <2>3, <2>4
  <2>6. IsFiniteSet(S)
    BY <1>6, <2>1
  <2>7. Cardinality(S) <= 1
    <3>1. CASE S = {}
      BY <3>1, FS_EmptySet
    <3>2. CASE S # {}
      <4>1. PICK x : S = {x}
        BY <2>5, <3>2
      <4>2. Cardinality({x}) = 1
        BY FS_Singleton
      <4> QED
        BY <4>1, <4>2
    <3> QED
      BY <3>1, <3>2
  <2> QED
    BY <2>1, <2>7 DEF Todo, Times
<1>10. \A t \in Tunes : t \in Tried => Todo[t] = 0
  BY DEF Todo
<1>11. ASSUME NEW t \in Tunes, Todo[t] > 0
       PROVE  \E i \in 1 .. Len(plan) : pos < i /\ i <= pos + Jobs /\ plan[i] = t
  <2>1. PICK S : S = {j \in DOMAIN Chunk : Chunk[j] = t}
    OBVIOUS
  <2>2. S # {}
    <3>1. Cardinality(S) # 0
      BY <1>11, <2>1 DEF Todo, Times
    <3> QED
      BY <3>1, FS_EmptySet
  <2>3. PICK j \in 1 .. m - pos : Chunk[j] = t
    BY <1>5, <2>1, <2>2
  <2>4. pos + j \in 1 .. Len(plan) /\ pos < pos + j /\ pos + j <= pos + Jobs
    BY <1>1, <1>2
  <2>5. plan[pos + j] = t
    BY <1>5, <2>3
  <2> QED
    BY <2>4, <2>5
<1>12. \A t \in Tunes : Todo[t] \in {0, Times(t, Chunk)} /\ Times(t, Chunk) \in Nat
  BY <1>6 DEF Todo
<1> QED
  BY <1>7, <1>8, <1>9, <1>10, <1>11, <1>12

LEMMA TrialsAreTyped == ASSUME LogOK PROVE TrialsIn(log) \subseteq Trial
<1> SUFFICES ASSUME NEW a \in TrialsIn(log) PROVE a \in Trial
  OBVIOUS
<1>1. PICK line : IsTrial(line) /\ a = TrialOf(line)
  BY DEF TrialsIn
<1> QED
  BY <1>1 DEF IsTrial, TrialOf, Trial

\* What a launch knows at first.
LEMMA LaunchReads ==
  ASSUME Launch
  PROVE  /\ \E s \in SUBSET Tunes :
              \/ all' = TrialsIn(log) \cup Measured(s) /\ blind' = blind
              \/ all' = Measured(s) /\ blind' = blind + 1
         /\ \/ plan' \in Plans /\ walk' = NoWalk /\ <<"plan", plan'>> \in asked'
            \/ Guided /\ plan' = <<>> /\ walk' = NewWalk /\ <<"walk", plan'>> \in asked'
         /\ asked \subseteq asked'
<1>1. PICK s \in Shards :
        /\ Ask(s)
        /\ \/ all' = TrialsIn(log) \cup Measured(s) /\ blind' = blind
           \/ all' = Measured(s) /\ blind' = blind + 1
  BY DEF Launch
<1>2. s \in SUBSET Tunes
  BY ShardsAssumption
<1> QED
  BY <1>1, <1>2 DEF Ask

\* The trials of other shards are as true as those of this log.
LEMMA MeasuredFacts ==
  ASSUME NEW s \in SUBSET Tunes
  PROVE  /\ Measured(s) \subseteq Trial
         /\ \A a \in Measured(s) : a.tune \in Tunes /\ a.bytes = Cost[a.tune]
  BY CostAssumption DEF Measured, Trial

LEMMA KnownBytesOK ==
  ASSUME all \subseteq Trial PROVE KnownBytes \in [Tunes -> Nat]
<1>1. ASSUME NEW t \in Tunes
      PROVE  Min({u.bytes : u \in {u \in all : u.tune = t}} \cup {Unmeasured}) \in Nat
  <2>1. PICK S : S = {u.bytes : u \in {u \in all : u.tune = t}} \cup {Unmeasured}
    OBVIOUS
  <2>2. S \subseteq Nat /\ S # {}
    BY <2>1 DEF Trial, Unmeasured
  <2> QED
    BY <2>1, <2>2, LeastNat
<1> QED
  BY <1>1 DEF KnownBytes

LEMMA CutsAreTorn ==
  ASSUME NEW t \in Tunes, NEW cut \in CutShort(Receipt(t)) PROVE cut \in Torn
  BY DEF Torn

LEMMA TypeInit == Init => TypeInv
<1> SUFFICES ASSUME Init PROVE TypeInv
  OBVIOUS
<1>1. NoTrials \in Counts /\ paid = NoTrials /\ lost = NoTrials /\ batch = NoTrials
  BY CountFacts DEF Init, NoTrials
<1>2. LogOK
  <2>1. CASE log = <<>>
    <3>1. PICK Obs : Obs = Whole \cup Torn
      OBVIOUS
    <3>2. <<>> \in Seq(Seq(Obs)) /\ Len(<<>>) = 0
      OBVIOUS
    <3>3. log \in Seq(Seq(Obs)) /\ Len(log) = 0
      BY <2>1, <3>2
    <3>4. open = FALSE
      BY DEF Init
    <3>5. \A i \in 1 .. Len(log) : Len(log[i]) >= 1
      BY <3>3
    <3> QED
      BY <3>1, <3>3, <3>4, <3>5 DEF LogOK
  <2>2. CASE \E t \in Logged : \E o \in Foreign(t) : log = << <<o>> >>
    <3>1. PICK o \in Others : log = << <<o>> >>
      BY <2>2, LoggedAssumption DEF Others
    <3>2. o \in Whole \cup Torn
      BY DEF Whole
    <3>3. PICK line : line = <<o>>
      OBVIOUS
    <3>4. line \in Seq(Whole \cup Torn) /\ Len(line) = 1
      BY <3>2, <3>3
    <3>5. log = <<line>>
      BY <3>1, <3>3
    <3>6. PICK Obs : Obs = Whole \cup Torn
      OBVIOUS
    <3>7. line \in Seq(Obs)
      BY <3>4, <3>6
    <3>8. log \in Seq(Seq(Obs)) /\ Len(log) = 1 /\ log[1] = line
      BY <3>5, <3>7
    <3>9. \A i \in 1 .. Len(log) : Len(log[i]) >= 1
      BY <3>4, <3>8
    <3>10. open = FALSE
      BY DEF Init
    <3> QED
      BY <3>6, <3>8, <3>9, <3>10 DEF LogOK
  <2> QED
    BY <2>1, <2>2 DEF Init
<1> QED
  BY <1>1, <1>2, NewWalksOK DEF Init, TypeInv

LEMMA TypeStep == TypeInv /\ [Next]_vars => TypeInv'
<1> SUFFICES ASSUME TypeInv, [Next]_vars PROVE TypeInv'
  OBVIOUS
<1>1. CASE Launch
  <2>1. all' \subseteq Trial /\ blind' \in Nat
    <3>1. TrialsIn(log) \subseteq Trial /\ blind \in Nat
      BY TrialsAreTyped DEF TypeInv
    <3> QED
      BY <1>1, <3>1, LaunchReads, MeasuredFacts
  <2>2. plan' \in Plans \cup {<<>>} /\ plan' \in Seq(Tunes) /\ WalkOK(walk')
    <3>1. CASE plan' \in Plans /\ walk' = NoWalk
      BY <3>1, PlansAssumption, NewWalksOK
    <3>2. CASE Guided /\ plan' = <<>> /\ walk' = NewWalk
      <4>1. <<>> \in Seq(Tunes)
        OBVIOUS
      <4> QED
        BY <3>2, <4>1, NewWalksOK
    <3> QED
      BY <1>1, <3>1, <3>2, LaunchReads
  <2>3. LogOK'
    BY <1>1 DEF Launch, TypeInv, LogOK
  <2> QED
    BY <1>1, <2>1, <2>2, <2>3, CountFacts DEF Launch, TypeInv
<1>2. CASE TakeChunk
  <2>1. Todo \in Counts
    BY <1>2, TodoFacts DEF TakeChunk, TypeInv
  <2>2. Plus(paid, Todo) \in Counts
    BY <2>1, CountFacts DEF TypeInv
  <2>3. pos + Jobs \in Nat
    BY JobsAssumption DEF TypeInv
  <2>4. /\ pc' \in {"plan", "encode"}
        /\ pc' = "plan" => batch' = NoTrials
        /\ pc' = "encode" => batch' # NoTrials
    BY <1>2 DEF TakeChunk
  <2> QED
    BY <1>2, <2>1, <2>2, <2>3, <2>4 DEF TakeChunk, TypeInv, LogOK
<1>3. CASE EncodeChunk
  BY <1>3 DEF EncodeChunk, TypeInv, LogOK
<1>4. CASE WriteObject
  <2>1. NextTune \in Tunes
    BY <1>4, NextTuneFacts DEF WriteObject, TypeInv
  <2>2. Receipt(NextTune) \in Whole \cup Torn
    BY <2>1 DEF Whole
  <2>3. LogOK'
    BY <1>4, <2>2, AddedObject DEF WriteObject, TypeInv
  <2> QED
    BY <1>4, <2>3 DEF WriteObject, TypeInv
<1>5. CASE WriteNewline
  <2>1. NextTune \in Tunes /\ Rest \in Counts
    BY <1>5, NextTuneFacts DEF WriteNewline, TypeInv
  <2>2. [tune |-> NextTune, bytes |-> Cost[NextTune]] \in Trial
    BY <2>1, CostAssumption DEF Trial
  <2>3. /\ pc' \in {"plan", "write"}
        /\ pc' = "plan" => batch' = NoTrials
        /\ pc' = "write" => batch' # NoTrials
    BY <1>5 DEF WriteNewline
  <2>4. LogOK'
    BY <1>5 DEF WriteNewline, TypeInv, LogOK
  <2> QED
    BY <1>5, <2>1, <2>2, <2>3, <2>4 DEF WriteNewline, TypeInv
<1>6. CASE WalkPoint
  <2>1. Point(walk) \in Tunes /\ WalkOK(walk')
    BY <1>6, PointOK DEF WalkPoint, TypeInv
  <2>2. CASE Point(walk) \in Tried
    BY <1>6, <2>1, <2>2 DEF WalkPoint, TypeInv, LogOK
  <2>3. CASE Point(walk) \notin Tried
    <3>1. PICK t \in Tunes : t = Point(walk)
      BY <2>1
    <3>2. /\ batch' = [NoTrials EXCEPT ![t] = 1] /\ paid' = [paid EXCEPT ![t] = paid[t] + 1]
          /\ pc' = "encode"
      BY <1>6, <2>3, <3>1 DEF WalkPoint
    <3>3. batch' \in Counts /\ paid' \in Counts /\ batch'[t] = 1
      BY <3>2, CountFacts DEF Counts, TypeInv
    <3>4. batch' # NoTrials
      BY <3>3, CountFacts
    <3> QED
      BY <1>6, <2>1, <3>2, <3>3, <3>4 DEF WalkPoint, TypeInv, LogOK
  <2> QED
    BY <2>2, <2>3
<1>7. CASE WalkAxis
  <2>1. Guided /\ Tunes = Points
    BY <1>7, TunesAssumption DEF WalkAxis, TypeInv, WalkOK, Points
  <2>2. WalkOK(walk')
    BY <1>7, <2>1, KnownBytesOK, AxisDoneOK DEF WalkAxis, TypeInv
  <2> QED
    BY <1>7, <2>2 DEF WalkAxis, TypeInv, LogOK
<1>8. CASE WalkCompare
  <2>1. WalkOK(walk')
    BY <1>8, CandidateOK DEF WalkCompare, TypeInv
  <2> QED
    BY <1>8, <2>1 DEF WalkCompare, TypeInv, LogOK
<1>9. CASE Report
  BY <1>9 DEF Report, TypeInv, LogOK
<1>10. CASE Kill
  BY <1>10, CountFacts DEF Kill, Die, TypeInv, LogOK
<1>11. CASE KillInGap
  <2>1. Rest \in Counts
    BY <1>11, NextTuneFacts DEF KillInGap, TypeInv
  <2> QED
    BY <1>11, <2>1, CountFacts DEF KillInGap, Die, TypeInv, LogOK
<1>12. CASE DiskFull
  <2>1. NextTune \in Tunes
    BY <1>12, NextTuneFacts DEF DiskFull, TypeInv
  <2>2. PICK cut \in CutShort(Receipt(NextTune)) : AddObject(cut)
    BY <1>12 DEF DiskFull
  <2>3. cut \in Whole \cup Torn
    BY <2>1, CutsAreTorn
  <2>4. LogOK'
    BY <1>12, <2>2, <2>3, AddedObject DEF DiskFull, TypeInv
  <2> QED
    BY <1>12, <2>4, CountFacts DEF DiskFull, Die, TypeInv
<1>13. CASE UNCHANGED vars
  BY <1>13 DEF vars, TypeInv, LogOK
<1> QED
  BY <1>1, <1>2, <1>3, <1>4, <1>5, <1>6, <1>7, <1>8, <1>9, <1>10, <1>11, <1>12, <1>13 DEF Next

THEOREM TypeCorrect == Spec => []TypeInv
<1>1. TypeInv /\ [Next]_vars => TypeInv'
  BY TypeStep
<1> QED
  BY <1>1, TypeInit, PTL DEF Spec

-----------------------------------------------------------------------------
(* Nothing is forgotten. *)

\* The object that was added is the only one by which the log has changed.
LEMMA KeptAdds ==
  ASSUME LogOK, IsFiniteSet(Places), NEW obj \in Whole \cup Torn, AddObject(obj), open'
  PROVE  /\ IsFiniteSet(Places')
         /\ \A t \in Tunes : obj # Receipt(t) => Kept(t)' = Kept(t)
         /\ \A t \in Tunes : obj = Receipt(t) =>
              Kept(t)' # {} /\ Cardinality(Kept(t)') = Cardinality(Kept(t)) + 1
<1>1. PICK p : /\ p \notin Places /\ Places' = Places \cup {p}
               /\ log'[p[1]][p[2]] = obj
               /\ \A q \in Places : log'[q[1]][q[2]] = log[q[1]][q[2]]
  BY AddedObject
<1>2. IsFiniteSet(Places')
  BY <1>1, FS_AddElement
<1>3. ASSUME NEW t \in Tunes, obj # Receipt(t)
      PROVE  Kept(t)' = Kept(t)
  BY <1>1, <1>3 DEF Kept
<1>4. ASSUME NEW t \in Tunes, obj = Receipt(t)
      PROVE  Kept(t)' # {} /\ Cardinality(Kept(t)') = Cardinality(Kept(t)) + 1
  <2>1. PICK K : K = Kept(t)
    OBVIOUS
  <2>2. Kept(t)' = K \cup {p} /\ p \notin K
    BY <1>1, <1>4, <2>1 DEF Kept
  <2>3. IsFiniteSet(K)
    BY <2>1, FS_Subset DEF Kept
  <2>4. Cardinality(K \cup {p}) = Cardinality(K) + 1
    BY <2>2, <2>3, FS_AddElement
  <2> QED
    BY <2>1, <2>2, <2>4
<1> QED
  BY <1>2, <1>3, <1>4

LEMMA KeptCounts ==
  ASSUME IsFiniteSet(Places), NEW t
  PROVE  IsFiniteSet(Kept(t)) /\ Cardinality(Kept(t)) \in Nat
                             /\ (Kept(t) = {} <=> Cardinality(Kept(t)) = 0)
<1>1. IsFiniteSet(Kept(t))
  BY FS_Subset DEF Kept
<1> QED
  BY <1>1, FS_CardinalityType, FS_EmptySet

\* At first the log holds no receipt of this campaign.
LEMMA NothingKept ==
  ASSUME Init
  PROVE  IsFiniteSet(Places) /\ \A t \in Tunes : Kept(t) = {}
<1>1. CASE log = <<>>
  <2>1. Places = {}
    BY <1>1 DEF Places
  <2> QED
    BY <2>1, FS_EmptySet DEF Kept
<1>2. CASE \E t \in Logged : \E o \in Foreign(t) : log = << <<o>> >>
  <2>1. PICK o \in Others : log = << <<o>> >>
    BY <1>2, LoggedAssumption DEF Others
  <2>2. DOMAIN log = {1} /\ DOMAIN log[1] = {1} /\ log[1][1] = o
    BY <2>1
  <2>3. Places = {<<1, 1>>}
    <3>1. {{i} \X DOMAIN log[i] : i \in DOMAIN log} = {{1} \X {1}}
      BY <2>2
    <3>2. {1} \X {1} = {<<1, 1>>}
      OBVIOUS
    <3> QED
      BY <3>1, <3>2 DEF Places
  <2>4. \A t \in Tunes : o # Receipt(t)
    BY ObjectFacts
  <2>5. IsFiniteSet({<<1, 1>>})
    BY FS_Singleton
  <2> QED
    BY <2>2, <2>3, <2>4, <2>5 DEF Kept
<1> QED
  BY <1>1, <1>2 DEF Init

Accounted == IsFiniteSet(Places) /\ NothingForgotten

LEMMA AccountedInit == Init => Accounted
<1> SUFFICES ASSUME Init PROVE Accounted
  OBVIOUS
<1>1. Pending = NoTrials /\ paid = NoTrials /\ lost = NoTrials
  BY DEF Init, Pending, NoTrials
<1>2. Cardinality({}) = 0
  BY FS_EmptySet
<1> QED
  BY <1>1, <1>2, NothingKept, CountFacts DEF Accounted, NothingForgotten

LEMMA PendingFacts ==
  TypeInv => Pending \in Counts /\ (pc \in {"off", "plan", "done"} => Pending = NoTrials)
  BY NextTuneFacts, CountFacts DEF TypeInv, Pending

LEMMA AccountedStep == TypeInv /\ Accounted /\ [Next]_vars => Accounted'
<1> SUFFICES ASSUME TypeInv, Accounted, [Next]_vars PROVE Accounted'
  OBVIOUS
<1>1. /\ IsFiniteSet(Places) /\ batch \in Counts /\ paid \in Counts /\ lost \in Counts
      /\ Pending \in Counts
      /\ \A t \in Tunes : /\ Cardinality(Kept(t)) \in Nat
                          /\ paid[t] = lost[t] + Pending[t] + Cardinality(Kept(t))
  BY KeptCounts, PendingFacts DEF TypeInv, Accounted, NothingForgotten
<1>2. ASSUME log' = log,
             \A t \in Tunes : paid'[t] - lost'[t] - Pending'[t] = paid[t] - lost[t] - Pending[t],
             Pending' \in Counts, paid' \in Counts, lost' \in Counts
      PROVE  Accounted'
  <2>1. Places' = Places /\ \A t \in Tunes : Kept(t)' = Kept(t)
    BY <1>2 DEF Places, Kept
  <2>2. \A t \in Tunes : /\ paid[t] \in Int /\ lost[t] \in Int /\ Pending[t] \in Int
                         /\ paid'[t] \in Int /\ lost'[t] \in Int /\ Pending'[t] \in Int
    BY <1>1, <1>2 DEF Counts
  <2>3. \A t \in Tunes : paid'[t] = lost'[t] + Pending'[t] + Cardinality(Kept(t))
    BY <1>1, <1>2, <2>2
  <2> QED
    BY <1>1, <2>1, <2>3 DEF Accounted, NothingForgotten
<1>3. TypeInv' /\ Pending' \in Counts /\ paid' \in Counts /\ lost' \in Counts
  <2>1. TypeInv'
    BY TypeStep
  <2>2. (Pending \in Counts /\ (pc \in {"off", "plan", "done"} => Pending = NoTrials))'
    BY <2>1, PendingFacts, PTL
  <2> QED
    BY <2>1, <2>2 DEF TypeInv
<1>4. /\ \A m, n \in Counts : \A t \in Tunes :
           Plus(m, n)[t] = m[t] + n[t] /\ m[t] \in Nat /\ n[t] \in Nat
      /\ \A t \in Tunes : NoTrials[t] = 0 /\ NoTrials \in Counts
  BY CountFacts DEF Counts
<1>5. \A t \in Tunes : /\ paid[t] \in Nat /\ lost[t] \in Nat /\ Pending[t] \in Nat
                       /\ paid'[t] \in Nat /\ lost'[t] \in Nat /\ Pending'[t] \in Nat
  BY <1>1, <1>3 DEF Counts
<1>6. CASE Launch
  <2>1. Pending = NoTrials /\ Pending' = NoTrials /\ log' = log /\ paid' = paid /\ lost' = lost
    BY <1>6, PendingFacts DEF Launch, Pending
  <2> QED
    BY <1>2, <1>3, <2>1
<1>7. CASE TakeChunk
  <2>1. Todo \in Counts
    BY <1>7, TodoFacts DEF TakeChunk, TypeInv
  <2>2. /\ Pending = NoTrials /\ Pending' = Todo /\ log' = log
        /\ paid' = Plus(paid, Todo) /\ lost' = lost
    BY <1>7, PendingFacts DEF TakeChunk, Pending
  <2>3. \A t \in Tunes : paid'[t] - lost'[t] - Pending'[t] = paid[t] - lost[t] - Pending[t]
    BY <1>1, <1>4, <1>5, <2>1, <2>2
  <2> QED
    BY <1>2, <1>3, <2>2, <2>3
<1>8. CASE EncodeChunk
  <2>1. Pending' = Pending /\ log' = log /\ paid' = paid /\ lost' = lost
    BY <1>8 DEF EncodeChunk, Pending
  <2> QED
    BY <1>2, <1>3, <2>1
<1>9. CASE WriteObject
  <2>1. /\ NextTune \in Tunes /\ batch[NextTune] > 0 /\ Rest[NextTune] = batch[NextTune] - 1
        /\ \A t \in Tunes : t # NextTune => Rest[t] = batch[t]
    BY <1>9, NextTuneFacts DEF WriteObject, TypeInv
  <2>2. /\ Pending = batch /\ Pending' = Rest /\ paid' = paid /\ lost' = lost
        /\ AddObject(Receipt(NextTune)) /\ open'
    BY <1>9 DEF WriteObject, Pending, Rest, NextTune
  <2>3. Receipt(NextTune) \in Whole
    BY <2>1 DEF Whole
  <2>4. /\ IsFiniteSet(Places')
        /\ \A t \in Tunes : Receipt(NextTune) # Receipt(t) => Kept(t)' = Kept(t)
        /\ \A t \in Tunes : Receipt(NextTune) = Receipt(t) =>
             Kept(t)' # {} /\ Cardinality(Kept(t)') = Cardinality(Kept(t)) + 1
    BY <1>1, <2>2, <2>3, KeptAdds DEF TypeInv
  <2>5. \A t \in Tunes : Receipt(NextTune) = Receipt(t) <=> t = NextTune
    BY <2>1, ObjectFacts
  <2>6. ASSUME NEW t \in Tunes
        PROVE  paid'[t] = lost'[t] + Pending'[t] + Cardinality(Kept(t)')
    <3>1. CASE t = NextTune
      <4>1. Cardinality(Kept(t)') = Cardinality(Kept(t)) + 1
        BY <2>4, <2>5, <3>1
      <4>2. Pending'[t] = Pending[t] - 1
        <5>1. Rest[t] = batch[t] - 1
          BY <2>1, <3>1
        <5> QED
          BY <2>2, <5>1
      <4>3. /\ paid[t] = lost[t] + Pending[t] + Cardinality(Kept(t))
            /\ Cardinality(Kept(t)) \in Nat /\ lost[t] \in Nat /\ Pending[t] \in Nat
        BY <1>1, <1>5
      <4>4. lost[t] + (Pending[t] - 1) + (Cardinality(Kept(t)) + 1)
              = lost[t] + Pending[t] + Cardinality(Kept(t))
        BY <4>3
      <4> QED
        BY <2>2, <4>1, <4>2, <4>3, <4>4
    <3>2. CASE t # NextTune
      <4>1. Kept(t)' = Kept(t)
        BY <2>4, <2>5, <3>2
      <4>2. Pending'[t] = Pending[t]
        BY <2>1, <2>2, <3>2
      <4> QED
        BY <1>1, <2>2, <4>1, <4>2
    <3> QED
      BY <3>1, <3>2
  <2> QED
    BY <2>4, <2>6 DEF Accounted, NothingForgotten
<1>10. CASE WriteNewline
  <2>1. Pending = Rest /\ Pending' = Rest /\ log' = log /\ paid' = paid /\ lost' = lost
    BY <1>10 DEF WriteNewline, Pending
  <2> QED
    BY <1>2, <1>3, <2>1
<1>11. CASE WalkPoint
  <2>1. CASE Point(walk) \in Tried
    <3>1. Pending' = Pending /\ log' = log /\ paid' = paid /\ lost' = lost
      BY <1>11, <2>1 DEF WalkPoint, Pending, Rest, NextTune
    <3> QED
      BY <1>2, <1>3, <3>1
  <2>2. CASE Point(walk) \notin Tried
    <3>1. PICK p \in Tunes : p = Point(walk)
      BY <1>11, PointOK DEF WalkPoint, TypeInv
    <3>2. /\ Pending = NoTrials /\ log' = log /\ lost' = lost
          /\ paid' = [paid EXCEPT ![p] = paid[p] + 1]
          /\ Pending' = [NoTrials EXCEPT ![p] = 1]
      BY <1>11, <2>2, <3>1, PendingFacts DEF WalkPoint, Pending
    <3>3. \A t \in Tunes : paid'[t] - lost'[t] - Pending'[t] = paid[t] - lost[t] - Pending[t]
      BY <1>1, <1>4, <1>5, <3>2 DEF Counts
    <3> QED
      BY <1>2, <1>3, <3>2, <3>3
  <2> QED
    BY <2>1, <2>2
<1>12. CASE WalkAxis
  <2>1. Pending' = Pending /\ log' = log /\ paid' = paid /\ lost' = lost
    BY <1>12 DEF WalkAxis, Pending, Rest, NextTune
  <2> QED
    BY <1>2, <1>3, <2>1
<1>13. CASE WalkCompare
  <2>1. Pending' = Pending /\ log' = log /\ paid' = paid /\ lost' = lost
    BY <1>13 DEF WalkCompare, Pending, Rest, NextTune
  <2> QED
    BY <1>2, <1>3, <2>1
<1>14. CASE Report
  <2>1. Pending' = Pending /\ log' = log /\ paid' = paid /\ lost' = lost
    BY <1>14 DEF Report, Pending, Rest, NextTune
  <2> QED
    BY <1>2, <1>3, <2>1
<1>15. CASE Kill
  <2>1. /\ Pending = batch /\ Pending' = NoTrials /\ log' = log /\ paid' = paid
        /\ lost' = Plus(lost, batch)
    BY <1>15 DEF Kill, Die, Pending
  <2>2. \A t \in Tunes : paid'[t] - lost'[t] - Pending'[t] = paid[t] - lost[t] - Pending[t]
    BY <1>1, <1>4, <1>5, <2>1
  <2> QED
    BY <1>2, <1>3, <2>1, <2>2
<1>16. CASE KillInGap
  <2>1. /\ Pending = Rest /\ Pending' = NoTrials /\ log' = log /\ paid' = paid
        /\ lost' = Plus(lost, Rest)
    BY <1>16 DEF KillInGap, Die, Pending
  <2>2. \A t \in Tunes : paid'[t] - lost'[t] - Pending'[t] = paid[t] - lost[t] - Pending[t]
    BY <1>1, <1>4, <1>5, <2>1
  <2> QED
    BY <1>2, <1>3, <2>1, <2>2
<1>17. CASE DiskFull
  <2>1. NextTune \in Tunes
    BY <1>17, NextTuneFacts DEF DiskFull, TypeInv
  <2>2. PICK cut \in CutShort(Receipt(NextTune)) : AddObject(cut)
    BY <1>17 DEF DiskFull
  <2>3. cut \in Torn /\ \A t \in Tunes : cut # Receipt(t)
    <3>1. cut \in Torn
      BY <2>1, CutsAreTorn
    <3> QED
      BY <3>1, ObjectFacts DEF Whole
  <2>4. open'
    BY <1>17 DEF DiskFull
  <2>5. IsFiniteSet(Places') /\ \A t \in Tunes : Kept(t)' = Kept(t)
    BY <1>1, <2>2, <2>3, <2>4, KeptAdds DEF TypeInv
  <2>6. /\ Pending = batch /\ Pending' = NoTrials /\ paid' = paid /\ lost' = Plus(lost, batch)
    BY <1>17 DEF DiskFull, Die, Pending
  <2>7. \A t \in Tunes : paid'[t] = lost'[t] + Pending'[t] + Cardinality(Kept(t))
    BY <1>1, <1>4, <1>5, <2>6
  <2> QED
    BY <2>5, <2>7 DEF Accounted, NothingForgotten
<1>18. CASE UNCHANGED vars
  <2>1. Pending' = Pending /\ log' = log /\ paid' = paid /\ lost' = lost
    BY <1>18 DEF vars, Pending, Rest, NextTune
  <2> QED
    BY <1>2, <1>3, <2>1
<1> QED
  BY <1>6, <1>7, <1>8, <1>9, <1>10, <1>11, <1>12, <1>13, <1>14, <1>15, <1>16, <1>17, <1>18 DEF Next

\* Never forget: every encode was interrupted, or its receipt is still to be
\* written, or the log holds its whole receipt, whatever kills and full disks
\* have done to the lines around it.
THEOREM NothingIsForgotten == Spec => []NothingForgotten
<1>1. Init => TypeInv /\ Accounted
  BY TypeInit, AccountedInit
<1>2. TypeInv /\ Accounted /\ [Next]_vars => (TypeInv /\ Accounted)'
  BY TypeStep, AccountedStep
<1>3. Accounted => NothingForgotten
  BY DEF Accounted
<1> QED
  BY <1>1, <1>2, <1>3, PTL DEF Spec

-----------------------------------------------------------------------------
(* Nothing is invented. *)

\* A write leaves the log untorn only if it was untorn and the object whole.
LEMMA UntornBefore ==
  ASSUME LogOK, NEW obj \in Whole \cup Torn, AddObject(obj), open', Untorn'
  PROVE  Untorn /\ obj \in Whole
<1>1. PICK p : /\ Places' = Places \cup {p} /\ log'[p[1]][p[2]] = obj
               /\ \A q \in Places : log'[q[1]][q[2]] = log[q[1]][q[2]]
  BY AddedObject
<1>2. log \in Seq(Seq(Whole \cup Torn)) /\ log' \in Seq(Seq(Whole \cup Torn))
  BY AddedObject DEF LogOK
<1>3. \A i, k : <<i, k>> \in Places' =>
        /\ log'[i][k].corpus \in {Here, Elsewhere}
        /\ log'[i][k].method \in {Here, Elsewhere}
        /\ log'[i][k].bytes \in Nat /\ log'[i][k].tune \in Tunes
  <2> TAKE i, k
  <2>1. <<i, k>> \in Places' <=> i \in 1 .. Len(log') /\ k \in 1 .. Len(log'[i])
    BY <1>2, PlaceFacts DEF Places
  <2> QED
    BY <2>1 DEF Untorn
<1>4. obj \in Whole
  <2>1. p \in Places'
    BY <1>1
  <2>2. PICK i, k : p = <<i, k>>
    BY <2>1 DEF Places
  <2>3. obj.tune \in Tunes
    BY <1>1, <1>3, <2>1, <2>2
  <2> QED
    BY <2>3, ObjectFacts
<1>5. Untorn
  <2> SUFFICES ASSUME NEW i \in 1 .. Len(log), NEW k \in 1 .. Len(log[i])
               PROVE  /\ log[i][k].corpus \in {Here, Elsewhere}
                      /\ log[i][k].method \in {Here, Elsewhere}
                      /\ log[i][k].bytes \in Nat /\ log[i][k].tune \in Tunes
    BY DEF Untorn
  <2>1. <<i, k>> \in Places
    BY <1>2, PlaceFacts DEF Places
  <2>2. log'[i][k] = log[i][k] /\ <<i, k>> \in Places'
    BY <1>1, <2>1
  <2> QED
    BY <1>3, <2>2
<1> QED
  BY <1>4, <1>5

\* The trials a campaign knows of are real.
Honest == Untorn => \A a \in all : a.tune \in Tunes /\ a.bytes = Cost[a.tune]

LEMMA HonestStep == TypeInv /\ Honest /\ [Next]_vars => Honest'
<1> SUFFICES ASSUME TypeInv, Honest, [Next]_vars, Untorn'
             PROVE  \A a \in all' : a.tune \in Tunes /\ a.bytes = Cost[a.tune]
  BY DEF Honest
<1>1. LogOK
  BY DEF TypeInv
<1>2. ASSUME log' = log PROVE Untorn
  BY <1>2 DEF Untorn
<1>3. CASE Launch
  <2>1. Untorn
    BY <1>2, <1>3 DEF Launch
  <2>2. PICK s \in SUBSET Tunes : all' \subseteq TrialsIn(log) \cup Measured(s)
    BY <1>3, LaunchReads
  <2> QED
    BY <1>1, <2>1, <2>2, ReadIsKept, MeasuredFacts
<1>4. CASE WriteNewline
  <2>1. NextTune \in Tunes
    BY <1>4, NextTuneFacts DEF WriteNewline, TypeInv
  <2>2. all' = all \cup {[tune |-> NextTune, bytes |-> Cost[NextTune]]} /\ Untorn
    BY <1>2, <1>4 DEF WriteNewline
  <2> QED
    BY <2>1, <2>2 DEF Honest
<1>5. CASE WriteObject
  <2>1. NextTune \in Tunes
    BY <1>5, NextTuneFacts DEF WriteObject, TypeInv
  <2>2. Receipt(NextTune) \in Whole \cup Torn
    BY <2>1 DEF Whole
  <2>3. Untorn /\ all' = all
    BY <1>1, <1>5, <2>2, UntornBefore DEF WriteObject
  <2> QED
    BY <2>3 DEF Honest
<1>6. CASE DiskFull
  <2>1. NextTune \in Tunes
    BY <1>6, NextTuneFacts DEF DiskFull, TypeInv
  <2>2. PICK cut \in CutShort(Receipt(NextTune)) : AddObject(cut)
    BY <1>6 DEF DiskFull
  <2>3. cut \in Whole \cup Torn
    BY <2>1, CutsAreTorn
  <2>4. Untorn /\ all' = all
    BY <1>1, <1>6, <2>2, <2>3, UntornBefore DEF DiskFull, Die
  <2> QED
    BY <2>4 DEF Honest
<1>7. CASE TakeChunk \/ EncodeChunk \/ WalkPoint \/ WalkAxis \/ WalkCompare \/ Report
           \/ Kill \/ KillInGap \/ UNCHANGED vars
  <2>1. all' = all /\ log' = log
    BY <1>7 DEF TakeChunk, EncodeChunk, WalkPoint, WalkAxis, WalkCompare, Report, Kill,
                KillInGap, Die, vars
  <2> QED
    BY <1>2, <2>1 DEF Honest
<1> QED
  BY <1>3, <1>4, <1>5, <1>6, <1>7 DEF Next

LEMMA ReadIsPaid == TypeInv /\ Accounted => HonestUnlessTorn
<1> SUFFICES ASSUME TypeInv, Accounted, Untorn, NEW a \in TrialsIn(log)
             PROVE  a.bytes = Cost[a.tune] /\ paid[a.tune] > 0
  BY DEF HonestUnlessTorn, MemoryHonest
<1>1. LogOK /\ log \in Seq(Seq(Whole \cup Torn))
  BY DEF TypeInv, LogOK
<1>2. a.tune \in Tunes /\ a.bytes = Cost[a.tune]
  BY <1>1, ReadIsKept
<1>3. PICK i \in 1 .. Len(log) : log[i][1] = Receipt(a.tune) /\ 1 \in DOMAIN log[i]
  BY <1>1, ReadIsKept
<1>4. <<i, 1>> \in Places
  <2>1. 1 \in 1 .. Len(log[i])
    BY <1>1, <1>3
  <2> QED
    BY <1>1, <2>1, PlaceFacts DEF Places
<1>5. Kept(a.tune) # {}
  BY <1>3, <1>4 DEF Kept
<1>6. Cardinality(Kept(a.tune)) \in Nat /\ Cardinality(Kept(a.tune)) # 0
  BY <1>5, KeptCounts DEF Accounted
<1>7. /\ paid[a.tune] = lost[a.tune] + Pending[a.tune] + Cardinality(Kept(a.tune))
      /\ lost[a.tune] \in Nat /\ Pending[a.tune] \in Nat
  BY <1>2, PendingFacts DEF Accounted, NothingForgotten, TypeInv, Counts
<1> QED
  BY <1>2, <1>6, <1>7

\* Whatever kills did to the newlines, a launch that reads an untorn log finds
\* in it only trials that were made, each with the bytes its archive had.
THEOREM NothingIsInvented == Spec => []HonestUnlessTorn
<1>1. Init => TypeInv /\ Accounted
  BY TypeInit, AccountedInit
<1>2. TypeInv /\ Accounted /\ [Next]_vars => (TypeInv /\ Accounted)'
  BY TypeStep, AccountedStep
<1> QED
  BY <1>1, <1>2, ReadIsPaid, PTL DEF Spec

-----------------------------------------------------------------------------
(* The report. *)

\* Of any trials there is a best one.
LEMMA BestExists ==
  ASSUME NEW S, S \subseteq Trial, S # {}
  PROVE  BestOf(S) \in S /\ \A t \in S \ {BestOf(S)} : Better(BestOf(S), t)
<1>1. \A t \in S : t.bytes \in Nat /\ t.tune \in Nat /\ t = [tune |-> t.tune, bytes |-> t.bytes]
  <2> TAKE t \in S
  <2>1. t \in [tune : Tunes, bytes : Nat]
    BY DEF Trial
  <2>2. t.tune \in Tunes /\ t.bytes \in Nat /\ t = [tune |-> t.tune, bytes |-> t.bytes]
    BY <2>1
  <2> QED
    BY <2>2, TunesAssumption
<1>2. PICK sizes : sizes = {t.bytes : t \in S}
  OBVIOUS
<1>3. PICK m \in sizes : \A n \in sizes : m <= n
  <2>1. sizes \subseteq Nat /\ sizes # {}
    BY <1>1, <1>2
  <2> QED
    BY <2>1, LeastNat
<1>4. PICK small : small = {t \in S : t.bytes = m}
  OBVIOUS
<1>5. PICK tunes : tunes = {t.tune : t \in small}
  OBVIOUS
<1>6. PICK k \in tunes : \A n \in tunes : k <= n
  <2>1. tunes \subseteq Nat /\ tunes # {}
    BY <1>1, <1>2, <1>3, <1>4, <1>5
  <2> QED
    BY <2>1, LeastNat
<1>7. PICK s \in small : s.tune = k
  BY <1>5, <1>6
<1>8. ASSUME NEW t \in S \ {s} PROVE Better(s, t)
  <2>1. s \in S /\ s.bytes = m /\ m <= t.bytes
    BY <1>2, <1>3, <1>4, <1>7
  <2>2. CASE t.bytes = m
    <3>1. t \in small /\ t.tune \in tunes
      BY <1>4, <1>5, <2>2
    <3>2. s.tune <= t.tune
      BY <1>6, <1>7, <3>1
    <3>3. s.tune # t.tune
      BY <1>1, <1>8, <2>1, <2>2
    <3> QED
      BY <1>1, <2>1, <2>2, <3>2, <3>3 DEF Better
  <2>3. CASE t.bytes # m
    <3>1. s.bytes < t.bytes
      BY <1>1, <2>1, <2>3
    <3> QED
      BY <3>1 DEF Better
  <2> QED
    BY <2>2, <2>3
<1>9. s \in S
  BY <1>4, <1>7
<1> QED
  BY <1>8, <1>9 DEF BestOf

Running == {"plan", "encode", "write", "newline"}

\* What was cut off the plan is known or about to be.
Planned ==
  /\ pc \in Running =>
       \A i \in 1 .. Len(plan) : i <= pos => plan[i] \in Tried \/ batch[plan[i]] > 0
  /\ pc = "done" => /\ \A i \in 1 .. Len(plan) : plan[i] \in Tried
                    /\ best = BestOf(all)

LEMMA TriedGrows ==
  ASSUME all \subseteq all' PROVE Tried \subseteq Tried'
  BY DEF Tried, TunesOf

LEMMA PlannedStep == TypeInv /\ Planned /\ [Next]_vars => Planned'
<1> SUFFICES ASSUME TypeInv, Planned, [Next]_vars PROVE Planned'
  OBVIOUS
<1>1. /\ plan \in Seq(Tunes) /\ pos \in Nat /\ batch \in Counts /\ Len(plan) \in Nat
      /\ \A i \in 1 .. Len(plan) : plan[i] \in Tunes
  BY DEF TypeInv
<1>2. CASE Launch
  <2>1. pc' = "plan" /\ pos' = 0
    BY <1>2 DEF Launch
  <2> QED
    BY <2>1 DEF Planned
<1>3. CASE TakeChunk
  <2>1. \A i \in 1 .. Len(plan) :
          pos < i /\ i <= pos + Jobs => plan[i] \in Tried \/ Todo[plan[i]] > 0
    BY <1>3, TodoFacts DEF TakeChunk, TypeInv
  <2>2. /\ plan' = plan /\ pos' = pos + Jobs /\ batch' = Todo /\ all' = all
        /\ pc = "plan" /\ batch = NoTrials /\ pc' # "done"
    BY <1>3 DEF TakeChunk, TypeInv
  <2>3. Tried' = Tried
    BY <2>2 DEF Tried
  <2>4. \A i \in 1 .. Len(plan) : i <= pos => plan[i] \in Tried
    BY <1>1, <2>2, CountFacts DEF Planned, Running
  <2>5. ASSUME NEW i \in 1 .. Len(plan), i <= pos + Jobs
        PROVE  plan[i] \in Tried \/ Todo[plan[i]] > 0
    BY <1>1, <2>1, <2>4, <2>5, JobsAssumption
  <2> QED
    BY <2>2, <2>3, <2>5 DEF Planned
<1>4. CASE EncodeChunk \/ WriteObject
  <2>1. /\ pc \in Running /\ pc' # "done" /\ plan' = plan /\ pos' = pos /\ batch' = batch
        /\ all' = all
    BY <1>4 DEF EncodeChunk, WriteObject, Running
  <2>2. Tried' = Tried
    BY <2>1 DEF Tried
  <2> QED
    BY <2>1, <2>2 DEF Planned
<1>5. CASE WriteNewline
  <2>1. PICK n \in Tunes : /\ n = NextTune
                           /\ \A t \in Tunes : t # n => Rest[t] = batch[t]
    BY <1>5, NextTuneFacts DEF WriteNewline, TypeInv
  <2>2. /\ pc \in Running /\ pc' # "done" /\ plan' = plan /\ pos' = pos /\ batch' = Rest
        /\ all' = all \cup {[tune |-> n, bytes |-> Cost[n]]}
    BY <1>5, <2>1 DEF WriteNewline, Running
  <2>3. Tried \subseteq Tried' /\ n \in Tried'
    <3>1. PICK a : a = [tune |-> n, bytes |-> Cost[n]]
      OBVIOUS
    <3>2. all \subseteq all' /\ a \in all' /\ a.tune = n
      BY <2>2, <3>1
    <3>3. n \in {t.tune : t \in all'}
      BY <3>2
    <3> QED
      BY <3>2, <3>3, TriedGrows DEF Tried, TunesOf
  <2>4. ASSUME NEW i \in 1 .. Len(plan), i <= pos
        PROVE  plan[i] \in Tried' \/ Rest[plan[i]] > 0
    <3>1. plan[i] \in Tried \/ batch[plan[i]] > 0
      BY <2>2, <2>4 DEF Planned
    <3>2. CASE plan[i] = n
      BY <2>3, <3>2
    <3>3. CASE plan[i] # n
      BY <1>1, <2>1, <2>3, <3>1, <3>3
    <3> QED
      BY <3>2, <3>3
  <2> QED
    BY <2>2, <2>4 DEF Planned
<1>6. CASE WalkPoint
  <2>1. /\ pc = "plan" /\ pc' # "done" /\ plan' = plan /\ pos' = pos /\ all' = all
        /\ batch = NoTrials
    BY <1>6 DEF WalkPoint, TypeInv
  <2>2. Tried' = Tried
    BY <2>1 DEF Tried
  <2>3. \A i \in 1 .. Len(plan) : i <= pos => plan[i] \in Tried
    BY <1>1, <2>1, CountFacts DEF Planned, Running
  <2> QED
    BY <2>1, <2>2, <2>3 DEF Planned
<1>7. CASE WalkAxis \/ WalkCompare
  <2>1. /\ pc = "plan" /\ pc' = pc /\ plan' = plan /\ pos' = pos /\ all' = all
        /\ batch' = batch
    BY <1>7 DEF WalkAxis, WalkCompare
  <2>2. Tried' = Tried
    BY <2>1 DEF Tried
  <2> QED
    BY <2>1, <2>2 DEF Planned, Running
<1>8. CASE Report
  <2>1. /\ pc = "plan" /\ pc' = "done" /\ plan' = plan /\ all' = all /\ pos >= Len(plan)
        /\ batch = NoTrials /\ best' = BestOf(all)
    BY <1>8 DEF Report, TypeInv
  <2>2. Tried' = Tried
    BY <2>1 DEF Tried
  <2>3. \A i \in 1 .. Len(plan) : plan[i] \in Tried
    BY <1>1, <2>1, CountFacts DEF Planned, Running
  <2> QED
    BY <2>1, <2>2, <2>3 DEF Planned, Running
<1>9. CASE Kill \/ KillInGap \/ DiskFull
  <2>1. pc' = "off"
    BY <1>9 DEF Kill, KillInGap, DiskFull, Die
  <2> QED
    BY <2>1 DEF Planned, Running
<1>10. CASE UNCHANGED vars
  BY <1>10 DEF vars, Planned, Tried
<1> QED
  BY <1>2, <1>3, <1>4, <1>5, <1>6, <1>7, <1>8, <1>9, <1>10 DEF Next

LEMMA PlannedIsReported == TypeInv /\ Honest /\ Planned => BestReported
<1> SUFFICES ASSUME TypeInv, Honest, Planned, Untorn, pc = "done", plan # <<>>
             PROVE  /\ best.tune \in Tunes /\ best.bytes = Cost[best.tune]
                    /\ \A t \in ToSet(plan) :
                         ~Better([tune |-> t, bytes |-> Cost[t]], best)
  BY DEF BestReported
<1>1. /\ all \subseteq Trial /\ plan \in Seq(Tunes)
      /\ \A a \in all : a.tune \in Tunes /\ a.bytes = Cost[a.tune]
      /\ \A i \in 1 .. Len(plan) : plan[i] \in Tried
      /\ best = BestOf(all)
  BY DEF TypeInv, Honest, Planned
<1>2. \A t \in ToSet(plan) : \E a \in all : a.tune = t
  BY <1>1 DEF ToSet, Tried, TunesOf
<1>3. all # {}
  <2>1. plan[1] \in ToSet(plan)
    BY <1>1 DEF ToSet
  <2> QED
    BY <1>2, <2>1
<1>4. best \in all /\ \A t \in all \ {best} : Better(best, t)
  BY <1>1, <1>3, BestExists
<1>5. ASSUME NEW t \in ToSet(plan)
      PROVE  ~Better([tune |-> t, bytes |-> Cost[t]], best)
  <2>1. PICK a \in all : a.tune = t
    BY <1>2
  <2>2. a = [tune |-> t, bytes |-> Cost[t]]
    BY <1>1, <2>1 DEF Trial
  <2>3. a.bytes \in Nat /\ a.tune \in Nat /\ best.bytes \in Nat /\ best.tune \in Nat
    BY <1>1, <1>4, <2>1, TunesAssumption DEF Trial
  <2>4. a = best \/ Better(best, a)
    BY <1>4
  <2>5. ~Better(a, best)
    BY <2>3, <2>4 DEF Better
  <2> QED
    BY <2>2, <2>5
<1> QED
  BY <1>1, <1>4, <1>5

\* Unless a write was cut short, the trial that a finished launch reports was
\* made, and no tune of its plan has a smaller archive: kills and relaunches
\* lose no tune of the plan and no trial of an earlier launch.
THEOREM BestIsReported == Spec => []BestReported
<1>1. Init => TypeInv /\ Honest /\ Planned
  BY TypeInit DEF Init, Honest, Planned, Running
<1>2. TypeInv /\ Honest /\ Planned /\ [Next]_vars => (TypeInv /\ Honest /\ Planned)'
  BY TypeStep, HonestStep, PlannedStep
<1> QED
  BY <1>1, <1>2, PlannedIsReported, PTL DEF Spec

-----------------------------------------------------------------------------
(* What a tune costs. *)

\* While the log is intact, a launch reads every receipt in it.
LEMMA KeptIsRead ==
  ASSUME LogOK, Intact, NEW t \in Tunes, Kept(t) # {}
  PROVE  t \in TunesOf(TrialsIn(log))
<1>1. PICK p \in Places : log[p[1]][p[2]] = Receipt(t)
  BY DEF Kept
<1>2. PICK i, k : p = <<i, k>>
  BY <1>1 DEF Places
<1>3. i \in 1 .. Len(log) /\ k \in 1 .. Len(log[i]) /\ log[i][k] = Receipt(t)
  BY <1>1, <1>2, PlaceFacts DEF Places, LogOK
<1>4. Len(log[i]) = 1 /\ k = 1
  BY <1>3 DEF Intact
<1>5. PICK line \in Seq(Whole) : line = log[i] /\ Len(line) >= 1
  BY <1>3, UntornIsWhole DEF Intact
<1>6. line[1] = Receipt(t)
  BY <1>3, <1>4, <1>5
<1>7. /\ Field(line, "corpus") = Here /\ Field(line, "bytes") = Cost[t]
      /\ Field(line, "method") = Here
      /\ Field(line, "tune") = t /\ Cost[t] \in Nat
  BY <1>5, <1>6, FirstIsRead, ObjectFacts
<1>8. IsTrial(line) /\ TrialOf(line).tune = t
  BY <1>7 DEF IsTrial, TrialOf
<1>9. line \in ToSet(log)
  <2>1. DOMAIN log = 1 .. Len(log)
    BY DEF LogOK
  <2> QED
    BY <1>3, <1>5, <2>1 DEF ToSet
<1>10. TrialOf(line) \in TrialsIn(log)
  BY <1>8, <1>9 DEF TrialsIn
<1> QED
  BY <1>8, <1>10 DEF TunesOf

\* A write leaves the log intact only if it was intact and the object whole.
LEMMA IntactBefore ==
  ASSUME LogOK, NEW obj \in Whole \cup Torn, AddObject(obj), open', Intact'
  PROVE  Intact /\ obj \in Whole
<1>1. Untorn /\ obj \in Whole
  BY UntornBefore DEF Intact
<1>2. log' = Append(log, <<obj>>)
  BY AddedObject
<1>3. ASSUME NEW i \in 1 .. Len(log) PROVE Len(log[i]) = 1
  <2>1. log \in Seq(Seq(Whole \cup Torn)) /\ Len(log) \in Nat
    BY DEF LogOK
  <2>2. i \in 1 .. Len(log') /\ log'[i] = log[i]
    BY <1>2, <2>1
  <2>3. Len(log'[i]) = 1
    BY <2>2 DEF Intact
  <2> QED
    BY <2>2, <2>3
<1> QED
  BY <1>1, <1>3 DEF Intact

\* Chunks are cut off the plan Jobs tunes at a time, and the plan of a campaign
\* that is running was asked for.
Aligned ==
  /\ \E j \in Nat : pos = j * Jobs
  /\ pc \in Running /\ plan # <<>> => <<"plan", plan>> \in asked

LEMMA AlignedStep == TypeInv /\ Aligned /\ [Next]_vars => Aligned'
<1> SUFFICES ASSUME TypeInv, Aligned, [Next]_vars PROVE Aligned'
  OBVIOUS
<1>1. Jobs \in Nat
  BY JobsAssumption
<1>2. CASE Launch
  <2>1. 0 \in Nat /\ 0 * Jobs = 0 /\ pos' = 0
    BY <1>1, <1>2 DEF Launch
  <2> QED
    BY <1>2, <2>1, LaunchReads DEF Aligned
<1>3. CASE TakeChunk
  <2>1. PICK j \in Nat : pos = j * Jobs
    BY DEF Aligned
  <2>2. j + 1 \in Nat /\ (j + 1) * Jobs = j * Jobs + Jobs
    BY <1>1
  <2>3. pos' = (j + 1) * Jobs /\ pc = "plan" /\ plan' = plan /\ asked' = asked
    BY <1>3, <2>1, <2>2 DEF TakeChunk
  <2> QED
    BY <2>2, <2>3 DEF Aligned, Running
<1>4. CASE ~Launch /\ ~TakeChunk
  <2>1. /\ pos' = pos /\ plan' = plan /\ asked' = asked
        /\ pc' \in Running => pc \in Running
    BY <1>4 DEF Next, EncodeChunk, WriteObject, WriteNewline, WalkPoint, WalkAxis, WalkCompare,
                Report, Kill, KillInGap, DiskFull, Die, vars, Running
  <2> QED
    BY <2>1 DEF Aligned
<1> QED
  BY <1>2, <1>3, <1>4

\* A bound on what one chunk does may be raised, and grows with the bound.
LEMMA RaisedBound ==
  ASSUME NEW b \in Nat, NEW m \in Nat, NEW n \in Nat, m <= n
  PROVE  /\ b * m \in Nat /\ b * m <= b * n
         /\ (1 + b) * m = b * m + m /\ (b + 1) * m = b * m + m
<1>1. PICK d \in Nat : n = m + d
  <2>1. n - m \in Nat /\ n = m + (n - m)
    OBVIOUS
  <2> QED
    BY <2>1
<1>2. b * n = b * m + b * d
  BY <1>1
<1>3. b * m \in Nat /\ b * d \in Nat
  OBVIOUS
<1> QED
  BY <1>2, <1>3

\* The bounds of a tune grow with what is asked for.
LEMMA AtOnceGrows ==
  ASSUME NEW t \in Tunes, asked \subseteq asked'
  PROVE  AtOnce(t) \subseteq AtOnce(t)'
  BY DEF AtOnce

\* The chunk that is cut off next is one of those the bounds count.
LEMMA ChunkCounts ==
  ASSUME TypeInv, Aligned, pc \in Running, pos < Len(plan), NEW t \in Tunes
  PROVE  Times(t, Chunk) \in AtOnce(t)
<1>1. PICK j \in Nat : pos = j * Jobs
  BY DEF Aligned
<1>2. Jobs \in Nat /\ 1 <= Jobs /\ Len(plan) \in Nat
  BY JobsAssumption DEF TypeInv
<1>3. j * 1 <= j * Jobs
  BY <1>2, RaisedBound
<1>4. j \in 0 .. Len(plan)
  BY <1>1, <1>2, <1>3
<1>5. <<"plan", plan>> \in asked
  <2>1. plan # <<>>
    BY <1>1, <1>2
  <2> QED
    BY <2>1 DEF Aligned
<1>6. Chunk = ChunkAt(plan, j * Jobs)
  BY <1>1 DEF Chunk
<1>7. PICK a \in {a \in asked : a[1] = "plan"} : a = <<"plan", plan>> /\ a[2] = plan
  BY <1>5
<1> QED
  BY <1>4, <1>6, <1>7 DEF AtOnce

\* In an intact log, together with what is to be written, a tune has as many
\* receipts as one chunk may give it, for every launch that knew nothing and
\* once more; and one that the running launch does not know of, and is not
\* about to write, has only those of the launches before.
Once ==
  Intact => \A t \in Tunes :
    /\ \E m \in AtOnce(t) \cap Nat : Cardinality(Kept(t)) + Pending[t] <= (1 + blind) * m
    /\ pc \in Running /\ t \notin Tried /\ batch[t] = 0 =>
         \E m \in AtOnce(t) \cap Nat : Cardinality(Kept(t)) <= blind * m

LEMMA OnceStep == TypeInv /\ Accounted /\ Aligned /\ Once /\ [Next]_vars => Once'
<1> SUFFICES ASSUME TypeInv, Accounted, Aligned, Once, [Next]_vars, Intact', NEW t \in Tunes
             PROVE  /\ \E m \in AtOnce(t)' \cap Nat :
                         Cardinality(Kept(t)') + Pending'[t] <= (1 + blind') * m
                    /\ pc' \in Running /\ t \notin Tried' /\ batch'[t] = 0 =>
                         \E m \in AtOnce(t)' \cap Nat : Cardinality(Kept(t)') <= blind' * m
  BY DEF Once
<1> DEFINE K == Cardinality(Kept(t))
<1>1. /\ LogOK /\ IsFiniteSet(Places) /\ batch \in Counts /\ Pending \in Counts
      /\ K \in Nat /\ (Kept(t) = {} <=> K = 0) /\ blind \in Nat
  BY KeptCounts, PendingFacts DEF TypeInv, Accounted
<1>2. batch[t] \in Nat /\ Pending[t] \in Nat /\ NoTrials[t] = 0
  BY <1>1, CountFacts DEF Counts
<1>3. ASSUME log' = log PROVE Intact /\ Kept(t)' = Kept(t) /\ Cardinality(Kept(t)') = K
  BY <1>3 DEF Intact, Untorn, Kept, Places
<1>14. ASSUME Intact PROVE \E m \in AtOnce(t) \cap Nat : K + Pending[t] <= (1 + blind) * m
  BY <1>14 DEF Once
<1>15. ASSUME Intact, pc \in Running, t \notin Tried, batch[t] = 0
       PROVE  \E m \in AtOnce(t) \cap Nat : K <= blind * m
  BY <1>15 DEF Once
<1>16. ASSUME asked' = asked PROVE AtOnce(t)' = AtOnce(t)
  BY <1>16 DEF AtOnce
<1> HIDE DEF K
\* A launch that reads the log knows of every receipt in it.
<1>4. CASE Launch
  <2>1. log' = log /\ Pending'[t] = 0 /\ AtOnce(t) \subseteq AtOnce(t)'
    BY <1>2, <1>4, LaunchReads, AtOnceGrows DEF Launch, Pending
  <2>2. PICK m \in AtOnce(t) \cap Nat : K + Pending[t] <= (1 + blind) * m
    BY <1>3, <1>14, <2>1
  <2>3. Cardinality(Kept(t)') = K /\ m \in AtOnce(t)' \cap Nat
    BY <1>3, <2>1
  <2>4. K <= blind * m + m /\ (1 + blind) * m = blind * m + m /\ blind * m \in Nat
    <3>1. m <= m /\ m \in Nat
      OBVIOUS
    <3>2. (1 + blind) * m = blind * m + m /\ blind * m \in Nat
      BY <1>1, <3>1, RaisedBound
    <3> QED
      BY <1>1, <1>2, <2>2, <3>2
  <2>5. PICK s \in SUBSET Tunes :
          \/ all' = TrialsIn(log) \cup Measured(s) /\ blind' = blind
          \/ all' = Measured(s) /\ blind' = blind + 1
    BY <1>4, LaunchReads
  <2>6. CASE all' = TrialsIn(log) \cup Measured(s) /\ blind' = blind
    <3>1. t \notin Tried' => K = 0
      <4> SUFFICES ASSUME K # 0 PROVE t \in Tried'
        OBVIOUS
      <4>1. t \in TunesOf(TrialsIn(log))
        BY <1>1, <1>3, <2>1, KeptIsRead
      <4>2. TunesOf(TrialsIn(log)) \subseteq TunesOf(all')
        BY <2>6 DEF TunesOf
      <4> QED
        BY <4>1, <4>2 DEF Tried
    <3> QED
      BY <1>1, <2>1, <2>3, <2>4, <2>6, <3>1
  <2>7. CASE blind' = blind + 1
    <3>1. blind' * m = blind * m + m /\ (1 + blind') * m = blind' * m + m
      BY <1>1, <2>7, RaisedBound
    <3> QED
      BY <1>1, <2>1, <2>3, <2>4, <3>1
  <2> QED
    BY <2>5, <2>6, <2>7
\* No other step can change the bounds.
<1> SUFFICES ASSUME ~Launch
             PROVE  /\ \E m \in AtOnce(t) \cap Nat :
                         Cardinality(Kept(t)') + Pending'[t] <= (1 + blind) * m
                    /\ pc' \in Running /\ t \notin Tried' /\ batch'[t] = 0 =>
                         \E m \in AtOnce(t) \cap Nat : Cardinality(Kept(t)') <= blind * m
  <2> SUFFICES ASSUME ~Launch PROVE asked' = asked /\ blind' = blind
    BY <1>4, <1>16
  <2> QED
    BY DEF Next, TakeChunk, EncodeChunk, WriteObject, WriteNewline, WalkPoint, WalkAxis,
           WalkCompare, Report, Kill, KillInGap, DiskFull, Die, vars
\* The tunes of a new chunk, or the new point of a walk, are not known yet.
<1>17. ASSUME log' = log, all' = all, pc = "plan", pc' # "newline",
              batch'[t] \in Nat, t \in Tried => batch'[t] = 0,
              NEW n \in AtOnce(t) \cap Nat, batch'[t] <= n
       PROVE  /\ \E m \in AtOnce(t) \cap Nat :
                   Cardinality(Kept(t)') + Pending'[t] <= (1 + blind) * m
              /\ pc' \in Running /\ t \notin Tried' /\ batch'[t] = 0 =>
                   \E m \in AtOnce(t) \cap Nat : Cardinality(Kept(t)') <= blind * m
  <2>1. /\ Pending'[t] = batch'[t] /\ Tried' = Tried /\ Cardinality(Kept(t)') = K /\ Intact
        /\ pc \in Running /\ batch[t] = 0 /\ Pending[t] = 0
    BY <1>2, <1>3, <1>17 DEF Pending, Tried, Running, TypeInv
  <2>2. PICK m \in AtOnce(t) \cap Nat : K + Pending[t] <= (1 + blind) * m
    BY <1>14, <2>1
  <2>3. CASE t \in Tried
    BY <1>1, <1>17, <2>1, <2>2, <2>3
  <2>4. CASE t \notin Tried
    <3>1. PICK l \in AtOnce(t) \cap Nat : K <= blind * l
      BY <1>15, <2>1, <2>4
    <3>2. PICK x \in AtOnce(t) \cap Nat : x \in {l, n} /\ l <= x /\ n <= x
      <4>1. l <= n \/ n <= l
        OBVIOUS
      <4> QED
        BY <4>1
    <3>3. blind * l <= blind * x /\ (1 + blind) * x = blind * x + x
          /\ blind * l \in Nat /\ blind * x \in Nat
      BY <1>1, <3>2, RaisedBound
    <3>4. K + batch'[t] <= (1 + blind) * x
      BY <1>1, <1>17, <3>1, <3>2, <3>3
    <3> QED
      BY <2>1, <3>1, <3>4
  <2> QED
    BY <2>3, <2>4
<1>5. CASE TakeChunk
  <2>1. /\ Todo \in Counts /\ (t \in Tried => Todo[t] = 0)
        /\ Todo[t] \in {0, Times(t, Chunk)} /\ Times(t, Chunk) \in Nat
    BY <1>5, TodoFacts DEF TakeChunk, TypeInv
  <2>2. /\ log' = log /\ all' = all /\ batch' = Todo /\ pc = "plan" /\ pc' # "newline"
        /\ pc \in Running
    BY <1>5 DEF TakeChunk, Running
  <2>3. Times(t, Chunk) \in AtOnce(t)
    BY <1>5, <2>2, ChunkCounts DEF TakeChunk
  <2>4. Todo[t] \in Nat /\ Todo[t] <= Times(t, Chunk)
    BY <2>1
  <2>5. PICK n \in AtOnce(t) \cap Nat : batch'[t] <= n
    BY <2>1, <2>2, <2>3, <2>4
  <2> QED
    BY <1>17, <2>1, <2>2, <2>4, <2>5
<1>9. CASE WalkPoint
  <2>1. /\ log' = log /\ all' = all /\ pc = "plan" /\ pc' # "newline"
    BY <1>9 DEF WalkPoint
  <2>2. 1 \in AtOnce(t) \cap Nat
    BY DEF AtOnce
  <2>3. PICK p \in Tunes : p = Point(walk)
    BY <1>9, PointOK DEF WalkPoint, TypeInv
  <2>4. /\ batch'[t] \in {0, 1} /\ (t \in Tried => batch'[t] = 0)
    <3>1. CASE p \in Tried
      <4>1. batch' = batch /\ batch = NoTrials
        BY <1>9, <2>3, <3>1 DEF WalkPoint, TypeInv
      <4> QED
        BY <1>2, <4>1
    <3>2. CASE p \notin Tried
      <4>1. batch' = [NoTrials EXCEPT ![p] = 1]
        BY <1>9, <2>3, <3>2 DEF WalkPoint
      <4> QED
        BY <1>2, <3>2, <4>1, CountFacts DEF Counts
    <3> QED
      BY <3>1, <3>2
  <2>5. batch'[t] \in Nat /\ batch'[t] <= 1
    BY <2>4
  <2> QED
    BY <1>17, <2>1, <2>2, <2>4, <2>5
<1>7. CASE WriteObject
  <2>1. PICK n \in Tunes : /\ n = NextTune /\ Rest[n] = batch[n] - 1 /\ batch[n] > 0
                           /\ \A u \in Tunes : u # n => Rest[u] = batch[u]
    BY <1>7, NextTuneFacts DEF WriteObject, TypeInv
  <2>2. /\ Pending = batch /\ Pending' = Rest /\ all' = all /\ pc = "write" /\ pc' = "newline"
        /\ AddObject(Receipt(n)) /\ open' /\ batch' = batch
    BY <1>7, <2>1 DEF WriteObject, Pending, Rest, NextTune
  <2>3. Receipt(n) \in Whole
    BY <2>1 DEF Whole
  <2>4. Intact
    BY <1>1, <2>2, <2>3, IntactBefore
  <2>5. Tried' = Tried /\ pc \in Running
    BY <2>2 DEF Tried, Running
  <2>6. PICK m \in AtOnce(t) \cap Nat : K + batch[t] <= (1 + blind) * m
    BY <1>14, <2>2, <2>4
  <2>7. CASE t = n
    <3>1. Cardinality(Kept(t)') = K + 1
      BY <1>1, <2>2, <2>3, <2>7, KeptAdds DEF K
    <3>2. Pending'[t] = batch[t] - 1 /\ batch'[t] # 0
      BY <1>2, <2>1, <2>2, <2>7
    <3>3. (K + 1) + (batch[t] - 1) = K + batch[t]
      BY <1>1, <1>2
    <3> QED
      BY <2>6, <3>1, <3>2, <3>3
  <2>8. CASE t # n
    <3>1. Receipt(n) # Receipt(t)
      BY <2>1, <2>8, ObjectFacts
    <3>2. Cardinality(Kept(t)') = K
      BY <1>1, <2>2, <2>3, <3>1, KeptAdds DEF K
    <3>3. Pending'[t] = batch[t]
      BY <2>1, <2>2, <2>8
    <3> QED
      BY <1>15, <2>2, <2>4, <2>5, <2>6, <3>2, <3>3
  <2> QED
    BY <2>7, <2>8
<1>8. CASE WriteNewline
  <2>1. NextTune \in Tunes /\ \A u \in Tunes : u # NextTune => Rest[u] = batch[u]
    BY <1>8, NextTuneFacts DEF WriteNewline, TypeInv
  <2>2. /\ log' = log /\ Pending' = Pending /\ pc = "newline" /\ batch' = Rest
        /\ all' = all \cup {[tune |-> NextTune, bytes |-> Cost[NextTune]]}
    BY <1>8 DEF WriteNewline, Pending
  <2>3. NextTune \in Tried' /\ Tried \subseteq Tried'
    <3>1. PICK a : a = [tune |-> NextTune, bytes |-> Cost[NextTune]]
      OBVIOUS
    <3>2. all \subseteq all' /\ a \in all' /\ a.tune = NextTune
      BY <2>2, <3>1
    <3>3. NextTune \in {u.tune : u \in all'}
      BY <3>2
    <3> QED
      BY <3>2, <3>3, TriedGrows DEF Tried, TunesOf
  <2>4. Intact /\ Cardinality(Kept(t)') = K /\ pc \in Running
    BY <1>3, <2>2 DEF Running
  <2>5. t \notin Tried' /\ batch'[t] = 0 => t \notin Tried /\ batch[t] = 0
    BY <2>1, <2>2, <2>3
  <2> QED
    BY <1>14, <1>15, <2>2, <2>4, <2>5
<1>6. CASE EncodeChunk \/ WalkAxis \/ WalkCompare \/ Report \/ UNCHANGED vars
  <2>1. /\ log' = log /\ all' = all /\ Pending' = Pending /\ batch' = batch
        /\ pc' \in Running => pc \in Running
    BY <1>6 DEF EncodeChunk, WalkAxis, WalkCompare, Report, vars, Pending, Rest, NextTune, Running
  <2>2. Tried' = Tried /\ Intact /\ Cardinality(Kept(t)') = K
    BY <1>3, <2>1 DEF Tried
  <2> QED
    BY <1>14, <1>15, <2>1, <2>2
<1>11. CASE Kill \/ KillInGap
  <2>1. log' = log /\ pc' \notin Running /\ Pending'[t] = 0
    BY <1>2, <1>11 DEF Kill, KillInGap, Die, Pending, Running
  <2>2. Intact /\ Cardinality(Kept(t)') = K
    BY <1>3, <2>1
  <2>3. PICK m \in AtOnce(t) \cap Nat : K + Pending[t] <= (1 + blind) * m
    BY <1>14, <2>2
  <2>4. (1 + blind) * m \in Nat
    BY <1>1
  <2>5. K + 0 <= (1 + blind) * m
    BY <1>1, <1>2, <2>3, <2>4
  <2> QED
    BY <2>1, <2>2, <2>5
<1>12. CASE DiskFull
  <2>1. NextTune \in Tunes
    BY <1>12, NextTuneFacts DEF DiskFull, TypeInv
  <2>2. PICK cut \in CutShort(Receipt(NextTune)) : AddObject(cut)
    BY <1>12 DEF DiskFull
  <2>3. cut \in Torn /\ open'
    BY <1>12, <2>1, CutsAreTorn DEF DiskFull
  <2>4. cut \in Whole
    BY <1>1, <2>2, <2>3, IntactBefore
  <2> QED
    BY <2>3, <2>4, ObjectFacts
<1> QED
  BY <1>5, <1>6, <1>7, <1>8, <1>9, <1>11, <1>12 DEF Next

LEMMA OnceInit == Init => Aligned /\ Once
<1> SUFFICES ASSUME Init PROVE Aligned /\ Once
  OBVIOUS
<1>1. pos = 0 /\ 0 \in Nat /\ 0 * Jobs = 0 /\ pc \notin Running /\ blind = 0
  BY JobsAssumption DEF Init, Running
<1>2. Aligned
  BY <1>1 DEF Aligned
<1>3. ASSUME NEW t \in Tunes
      PROVE  \E m \in AtOnce(t) \cap Nat : Cardinality(Kept(t)) + Pending[t] <= (1 + blind) * m
  <2>1. Cardinality(Kept(t)) = 0 /\ Pending[t] = 0
    BY NothingKept, CountFacts, FS_EmptySet DEF Init, Pending
  <2>2. 1 \in AtOnce(t) \cap Nat /\ (1 + 0) * 1 = 1
    BY DEF AtOnce
  <2> QED
    BY <1>1, <2>1, <2>2
<1> QED
  BY <1>1, <1>2, <1>3 DEF Once

LEMMA OnceIsPaidOnce == TypeInv /\ Accounted /\ Once => PaidOnce
<1> SUFFICES ASSUME TypeInv, Accounted, Once, Intact, NEW t \in Tunes
             PROVE  \E m \in AtOnce(t) : paid[t] <= lost[t] + (1 + blind) * m
  BY DEF PaidOnce
<1>1. paid[t] = lost[t] + Pending[t] + Cardinality(Kept(t))
  BY DEF Accounted, NothingForgotten
<1>2. PICK m \in AtOnce(t) \cap Nat : Cardinality(Kept(t)) + Pending[t] <= (1 + blind) * m
  BY DEF Once
<1>3. lost[t] \in Nat /\ Pending[t] \in Nat /\ Cardinality(Kept(t)) \in Nat
  BY KeptCounts, PendingFacts DEF TypeInv, Accounted, Counts
<1>4. PICK bound \in Nat : bound = (1 + blind) * m
  BY DEF TypeInv
<1>5. paid[t] <= lost[t] + bound
  BY <1>1, <1>2, <1>3, <1>4
<1> QED
  BY <1>4, <1>5

\* What a tune may cost: for as long as the log is intact, it is encoded by one
\* chunk only, as often as the chunk names it, once more for every encode that
\* was interrupted, and all over again for every launch that could not read
\* the log.
THEOREM NothingIsPaidTwice == Spec => []PaidOnce
<1>1. Init => TypeInv /\ Accounted /\ Aligned /\ Once
  BY TypeInit, AccountedInit, OnceInit
<1>2. TypeInv /\ Accounted /\ Aligned /\ Once /\ [Next]_vars =>
        (TypeInv /\ Accounted /\ Aligned /\ Once)'
  BY TypeStep, AccountedStep, AlignedStep, OnceStep
<1> QED
  BY <1>1, <1>2, OnceIsPaidOnce, PTL DEF Spec

-----------------------------------------------------------------------------
(* The guided walk is a function of what the archives cost. *)

\* What is measured for the launch, or about to be.
Due(t) == t \in Tried \/ batch[t] > 0

\* The points that the walk goes by.
WalkKnown ==
  pc \in Running =>
    /\ walk.stage = "descent" =>
         \A v \in 0 .. walk.level - 1 : Due(AtLevel(walk.at, Axes[walk.axis], v))
    /\ walk.stage \in {"climb", "compare"} => Due(walk.at)
    /\ walk.stage = "compare" => Due(Mutated(walk))

\* A number has one pair of digits.
LEMMA DigitsAreUnique ==
  ASSUME NEW L \in Nat, NEW a \in Nat, NEW b \in Nat, NEW c \in Nat, NEW d \in Nat,
         b < L, d < L, a * L + b = c * L + d
  PROVE  a = c /\ b = d
<1>1. a * L \in Nat /\ c * L \in Nat
  OBVIOUS
<1>2. ASSUME a < c PROVE FALSE
  <2>1. PICK e \in Nat : e = c - a - 1
    BY <1>2
  <2>2. c * L = (a + 1 + e) * L
    BY <2>1
  <2>3. (a + 1 + e) * L = a * L + L + e * L /\ e * L \in Nat
    BY <2>1
  <2> QED
    BY <1>1, <2>2, <2>3
<1>3. ASSUME c < a PROVE FALSE
  <2>1. PICK e \in Nat : e = a - c - 1
    BY <1>3
  <2>2. a * L = (c + 1 + e) * L
    BY <2>1
  <2>3. (c + 1 + e) * L = c * L + L + e * L /\ e * L \in Nat
    BY <2>1
  <2> QED
    BY <1>1, <2>2, <2>3
<1>4. a = c
  BY <1>2, <1>3
<1>5. a * L = c * L
  BY <1>4
<1> QED
  BY <1>1, <1>4, <1>5

LEMMA AtLevelTwice ==
  ASSUME NEW t \in Points, NEW axis \in {"lr", "apm"}, NEW v \in 0 .. Levels - 1
  PROVE  /\ \A u \in 0 .. Levels - 1 :
              AtLevel(AtLevel(t, axis, v), axis, u) = AtLevel(t, axis, u)
         /\ AtLevel(t, axis, Level(t, axis)) = t
<1>1. PICK L \in Nat, q \in Nat, r \in Nat :
        /\ L = Levels /\ L >= 1 /\ q = t \div Levels /\ r = t % Levels
        /\ q < L /\ r < L /\ t = q * L + r
  <2>1. Levels \in Nat /\ Levels >= 1
    BY WalkConstants
  <2>2. /\ t \div Levels \in Nat /\ t % Levels \in Nat
        /\ t \div Levels < Levels /\ t % Levels < Levels
        /\ t = (t \div Levels) * Levels + (t % Levels)
    BY <2>1, LevelDigits
  <2> QED
    BY <2>1, <2>2
<1>2. PICK p \in Points : p = AtLevel(t, axis, v)
  BY AtLevelOK
<1>3. PICK c \in Nat, d \in Nat : /\ c = p \div Levels /\ d = p % Levels
                                  /\ c < L /\ d < L /\ p = c * L + d
  BY <1>1, LevelDigits
<1>4. v \in Nat /\ v < L
  BY <1>1
<1>5. PICK m \in Nat : m = q * L
  BY <1>1
<1>6. PICK n \in Nat : n = v * L
  BY <1>1, <1>4
<1>7. CASE axis = "lr"
  <2>1. /\ \A u : AtLevel(t, axis, u) = t - r + u /\ AtLevel(p, axis, u) = p - d + u
        /\ Level(t, axis) = r
    BY <1>1, <1>3, <1>7 DEF AtLevel, Level
  <2>2. p = t - r + v
    BY <1>2, <2>1
  <2>3. p = m + v
    BY <1>1, <1>5, <2>2
  <2>4. d = v
    BY <1>1, <1>3, <1>4, <1>5, <2>3, DigitsAreUnique
  <2>5. p - d = t - r /\ t - r + r = t
    BY <1>1, <1>3, <1>5, <2>3, <2>4
  <2> QED
    BY <1>2, <2>1, <2>5
<1>8. CASE axis = "apm"
  <2>1. /\ \A u : AtLevel(t, axis, u) = r + u * L /\ AtLevel(p, axis, u) = d + u * L
        /\ Level(t, axis) = q
    BY <1>1, <1>3, <1>8 DEF AtLevel, Level
  <2>2. p = r + n
    BY <1>2, <1>6, <2>1
  <2>3. v * L + r = c * L + d
    BY <1>1, <1>3, <1>6, <2>2
  <2>4. v = c /\ d = r
    BY <1>1, <1>3, <1>4, <2>3, DigitsAreUnique
  <2>5. r + q * L = t
    BY <1>1, <1>5
  <2> QED
    BY <1>2, <2>1, <2>4, <2>5
<1> QED
  BY <1>7, <1>8

\* The bytes a walk goes by, where they are known, are those the archives have.
LEMMA KnownIsCost ==
  ASSUME TypeInv, Honest, Untorn, NEW t \in Tried
  PROVE  t \in Tunes /\ KnownBytes[t] = Cost[t]
<1>1. PICK S : S = {u.bytes : u \in {u \in all : u.tune = t}} \cup {Unmeasured}
  OBVIOUS
<1>2. PICK a \in all : a.tune = t
  BY DEF Tried, TunesOf
<1>3. \A u \in all : u.tune = t => u.bytes = Cost[t]
  BY DEF Honest
<1>4. t \in Tunes /\ Cost[t] \in Nat /\ Cost[t] < Unmeasured
  BY <1>2, CostAssumption, SizeAssumption DEF Honest
<1>5. S = {Cost[t], Unmeasured}
  BY <1>1, <1>2, <1>3
<1>6. Unmeasured \in Nat
  BY DEF Unmeasured
<1>7. Min(S) \in S /\ \A y \in S : Min(S) <= y
  <2>1. S \subseteq Nat /\ S # {}
    BY <1>4, <1>5, <1>6
  <2> QED
    BY <2>1, LeastNat
<1>8. Min(S) = Cost[t]
  BY <1>4, <1>5, <1>6, <1>7
<1>9. KnownBytes[t] = Min(S)
  BY <1>1, <1>4 DEF KnownBytes
<1> QED
  BY <1>4, <1>8, <1>9

\* The lowest of the best levels is one.
LEMMA BestIsOne ==
  ASSUME NEW w \in Walks, NEW m \in [Points -> Nat], NEW n \in [Points -> Nat],
         \A v \in 0 .. Levels - 1 :
           m[AtLevel(w.at, Axes[w.axis], v)] = n[AtLevel(w.at, Axes[w.axis], v)]
  PROVE  BestLevel(w, m) = BestLevel(w, n)
<1>1. PICK v \in 0 .. Levels - 1 : v = BestLevel(w, m) /\ IsBest(w, m, v)
  BY BestLevelOK
<1>2. PICK u \in 0 .. Levels - 1 : u = BestLevel(w, n) /\ IsBest(w, n, u)
  BY BestLevelOK
<1>3. /\ w.at \in Points /\ Axes[w.axis] \in {"lr", "apm"}
  BY WalkConstants DEF Walks
<1>4. PICK x \in Nat, y \in Nat :
        /\ x = n[AtLevel(w.at, Axes[w.axis], v)] /\ x = m[AtLevel(w.at, Axes[w.axis], v)]
        /\ y = n[AtLevel(w.at, Axes[w.axis], u)] /\ y = m[AtLevel(w.at, Axes[w.axis], u)]
  BY <1>3, AtLevelOK
<1>5. x < y \/ (x = y /\ v <= u)
  BY <1>1, <1>4 DEF IsBest
<1>6. y < x \/ (y = x /\ u <= v)
  BY <1>2, <1>4 DEF IsBest
<1> QED
  BY <1>1, <1>2, <1>5, <1>6

\* The step of a walk for which every archive is known.
TrueStep(w) ==
  IF WantsPoint(w) THEN PointKnown(w)
  ELSE IF w.stage = "descent" THEN AxisDone(w, Cost)
  ELSE CandidateKnown(w, Cost)

Ended(w) == w.stage = "climb" /\ ~WantsPoint(w)

LEMMA CostOfPoints == ASSUME Guided PROVE Tunes = Points /\ Cost \in [Points -> Nat]
  BY TunesAssumption, CostAssumption DEF Points

\* No step of a walk that runs is anything else.
LEMMA StepsAreTrue ==
  ASSUME TypeInv, Honest, WalkKnown, Untorn, WalkPoint \/ WalkAxis \/ WalkCompare
  PROVE  ~Ended(walk) /\ walk' = TrueStep(walk)
<1>1. /\ WalkOK(walk) /\ batch = NoTrials /\ pc = "plan" /\ all \subseteq Trial
      /\ KnownBytes \in [Tunes -> Nat]
  BY KnownBytesOK DEF TypeInv, WalkPoint, WalkAxis, WalkCompare
<1>2. \A t \in Tunes : Due(t) => t \in Tried
  BY <1>1, CountFacts DEF Due
<1>3. CASE WalkPoint
  BY <1>3 DEF WalkPoint, Ended, TrueStep
<1>4. CASE WalkAxis
  <2>1. /\ walk.stage = "descent" /\ walk.level = Levels
        /\ walk' = AxisDone(walk, KnownBytes)
    BY <1>4 DEF WalkAxis
  <2>2. Guided /\ walk \in Walks
    BY <1>1, <2>1 DEF WalkOK
  <2>3. Tunes = Points /\ Cost \in [Points -> Nat]
    BY <2>2, CostOfPoints
  <2>4. ASSUME NEW v \in 0 .. Levels - 1
        PROVE  KnownBytes[AtLevel(walk.at, Axes[walk.axis], v)]
                 = Cost[AtLevel(walk.at, Axes[walk.axis], v)]
    <3>1. Due(AtLevel(walk.at, Axes[walk.axis], v))
      BY <1>1, <2>1 DEF WalkKnown, Running
    <3>2. AtLevel(walk.at, Axes[walk.axis], v) \in Tunes
      BY <2>2, <2>3, AtLevelOK, WalkConstants DEF Walks
    <3> QED
      BY <1>2, <3>1, <3>2, KnownIsCost
  <2>5. BestLevel(walk, KnownBytes) = BestLevel(walk, Cost)
    BY <1>1, <2>2, <2>3, <2>4, BestIsOne
  <2>6. AxisDone(walk, KnownBytes) = AxisDone(walk, Cost)
    BY <2>5 DEF AxisDone
  <2>7. ~WantsPoint(walk)
    BY <2>1, WalkConstants DEF WantsPoint
  <2> QED
    BY <2>1, <2>6, <2>7 DEF TrueStep, Ended
<1>5. CASE WalkCompare
  <2>1. walk.stage = "compare" /\ walk' = CandidateKnown(walk, KnownBytes)
    BY <1>5 DEF WalkCompare
  <2>2. Guided /\ walk \in Walks
    BY <1>1, <2>1 DEF WalkOK
  <2>3. Mutated(walk) \in Tunes /\ walk.at \in Tunes
    BY <2>2, CostOfPoints, MutatedOK DEF Walks
  <2>4. Due(Mutated(walk)) /\ Due(walk.at)
    BY <1>1, <2>1 DEF WalkKnown, Running
  <2>5. /\ KnownBytes[Mutated(walk)] = Cost[Mutated(walk)]
        /\ KnownBytes[walk.at] = Cost[walk.at]
    BY <1>2, <2>3, <2>4, KnownIsCost
  <2>6. ~WantsPoint(walk) /\ walk.stage # "descent"
    BY <2>1 DEF WantsPoint
  <2> QED
    BY <2>1, <2>5, <2>6 DEF TrueStep, Ended, CandidateKnown
<1> QED
  BY <1>3, <1>4, <1>5

\* What a step of the walk is known to go by afterwards.
LEMMA WalkKnownStep == TypeInv /\ WalkKnown /\ [Next]_vars => WalkKnown'
<1> SUFFICES ASSUME TypeInv, WalkKnown, [Next]_vars PROVE WalkKnown'
  OBVIOUS
<1>1. batch \in Counts /\ WalkOK(walk) /\ walk \in Walks
  BY DEF TypeInv, WalkOK
\* Nothing that is due is lost while the launch runs.
<1>2. ASSUME walk' = walk, pc \in Running, \A t \in Tunes : Due(t) => Due(t)'
      PROVE  WalkKnown'
  <2>1. CASE walk.stage = "none"
    BY <1>2, <2>1 DEF WalkKnown
  <2>2. CASE walk.stage # "none"
    <3>1. Tunes = Points
      BY <1>1, <2>2, CostOfPoints DEF WalkOK
    <3>2. \A v \in 0 .. walk.level - 1 : AtLevel(walk.at, Axes[walk.axis], v) \in Tunes
      <4>1. \A v \in 0 .. walk.level - 1 : v \in 0 .. Levels - 1
        BY <1>1, WalkConstants DEF Walks
      <4> QED
        BY <1>1, <3>1, <4>1, AtLevelOK, WalkConstants DEF Walks
    <3>3. walk.at \in Tunes /\ Mutated(walk) \in Tunes
      BY <1>1, <3>1, MutatedOK DEF Walks
    <3> QED
      BY <1>2, <3>2, <3>3 DEF WalkKnown
  <2> QED
    BY <2>1, <2>2
<1>3. CASE Launch
  <2>1. walk' \in {NoWalk, NewWalk}
    BY <1>3 DEF Launch, Ask
  <2>2. walk'.stage \in {"none", "descent"} /\ walk'.level = 0
    BY <2>1 DEF NoWalk, NewWalk
  <2> QED
    BY <2>2 DEF WalkKnown
<1>4. CASE TakeChunk
  <2>1. /\ walk' = walk /\ all' = all /\ pc = "plan" /\ batch = NoTrials
    BY <1>4 DEF TakeChunk, TypeInv
  <2>2. \A t \in Tunes : Due(t) => Due(t)'
    BY <2>1, CountFacts DEF Due, Tried
  <2> QED
    BY <1>2, <2>1, <2>2 DEF Running
<1>5. CASE EncodeChunk \/ WriteObject
  <2>1. /\ walk' = walk /\ all' = all /\ pc \in Running /\ batch' = batch
    BY <1>5 DEF EncodeChunk, WriteObject, Running
  <2>2. \A t \in Tunes : Due(t) => Due(t)'
    BY <2>1 DEF Due, Tried
  <2> QED
    BY <1>2, <2>1, <2>2
<1>6. CASE WriteNewline
  <2>1. PICK n \in Tunes : /\ n = NextTune
                           /\ \A t \in Tunes : t # n => Rest[t] = batch[t]
    BY <1>6, NextTuneFacts DEF WriteNewline, TypeInv
  <2>2. /\ pc \in Running /\ walk' = walk /\ batch' = Rest
        /\ all' = all \cup {[tune |-> n, bytes |-> Cost[n]]}
    BY <1>6, <2>1 DEF WriteNewline, Running
  <2>3. Tried \subseteq Tried' /\ n \in Tried'
    <3>1. PICK a : a = [tune |-> n, bytes |-> Cost[n]]
      OBVIOUS
    <3>2. all \subseteq all' /\ a \in all' /\ a.tune = n
      BY <2>2, <3>1
    <3>3. n \in {t.tune : t \in all'}
      BY <3>2
    <3> QED
      BY <3>2, <3>3, TriedGrows DEF Tried, TunesOf
  <2>4. \A t \in Tunes : Due(t) => Due(t)'
    BY <2>1, <2>2, <2>3 DEF Due
  <2> QED
    BY <1>2, <2>2, <2>4
<1>7. CASE WalkPoint
  <2>1. /\ pc = "plan" /\ all' = all /\ batch = NoTrials /\ WantsPoint(walk)
        /\ walk' = PointKnown(walk)
    BY <1>7 DEF WalkPoint, TypeInv
  <2>2. PICK p \in Tunes : p = Point(walk)
    BY <1>1, <2>1, PointOK
  <2>3. Tried' = Tried
    BY <2>1 DEF Tried
  <2>4. \A t \in Tunes : Due(t) => t \in Tried /\ Due(t)'
    BY <2>1, <2>3, CountFacts DEF Due
  <2>5. Due(p)'
    <3>1. CASE p \in Tried
      BY <2>3, <3>1 DEF Due
    <3>2. CASE p \notin Tried
      <4>1. batch' = [NoTrials EXCEPT ![p] = 1]
        BY <1>7, <2>2, <3>2 DEF WalkPoint
      <4>2. batch'[p] = 1
        BY <4>1, CountFacts DEF Counts
      <4> QED
        BY <4>2 DEF Due
    <3> QED
      BY <3>1, <3>2
  <2>6. Tunes = Points
    BY <1>1, <2>1, CostOfPoints DEF WalkOK, WantsPoint
  <2>7. CASE walk.stage = "descent"
    <3>1. walk' = [walk EXCEPT !.level = walk.level + 1]
      BY <2>1, <2>7 DEF PointKnown
    <3>2. /\ walk'.stage = "descent" /\ walk'.level = walk.level + 1
          /\ walk'.at = walk.at /\ walk'.axis = walk.axis
      BY <1>1, <2>7, <3>1 DEF Walks
    <3>3. p = AtLevel(walk.at, Axes[walk.axis], walk.level)
      BY <2>2, <2>7 DEF Point
    <3>4. ASSUME NEW v \in 0 .. walk.level
          PROVE  Due(AtLevel(walk.at, Axes[walk.axis], v))'
      <4>1. walk.level \in Nat /\ walk.level < Levels
        BY <1>1, <2>1, <2>7 DEF WantsPoint, Walks
      <4>2. CASE v = walk.level
        BY <2>5, <3>2, <3>3, <4>2
      <4>3. CASE v # walk.level
        <5>1. v \in 0 .. walk.level - 1 /\ v \in 0 .. Levels - 1
          BY <4>1, <4>3, WalkConstants
        <5>2. Due(AtLevel(walk.at, Axes[walk.axis], v))
          BY <2>1, <2>7, <5>1 DEF WalkKnown, Running
        <5>3. AtLevel(walk.at, Axes[walk.axis], v) \in Tunes
          BY <1>1, <2>6, <5>1, AtLevelOK, WalkConstants DEF Walks
        <5> QED
          BY <2>4, <3>2, <5>2, <5>3
      <4> QED
        BY <4>2, <4>3
    <3>5. 0 .. walk'.level - 1 = 0 .. walk.level
      BY <1>1, <3>2 DEF Walks
    <3> QED
      BY <3>2, <3>4, <3>5 DEF WalkKnown
  <2>8. CASE walk.stage = "climb"
    <3>1. walk' = [walk EXCEPT !.stage = "compare"]
      BY <2>1, <2>8 DEF PointKnown
    <3>2. walk'.stage = "compare" /\ walk'.at = walk.at /\ walk'.seed = walk.seed
      BY <1>1, <3>1 DEF Walks
    <3>3. p = Mutated(walk) /\ Mutated(walk)' = Mutated(walk)
      BY <2>2, <2>8, <3>2 DEF Point, Mutated
    <3>4. Due(walk.at) /\ walk.at \in Tunes
      BY <1>1, <2>1, <2>6, <2>8 DEF WalkKnown, Running, Walks
    <3>5. Due(walk.at)'
      BY <2>4, <3>2, <3>4
    <3> QED
      BY <2>5, <3>2, <3>3, <3>5 DEF WalkKnown
  <2> QED
    BY <2>1, <2>7, <2>8 DEF WantsPoint
<1>8. CASE WalkAxis
  <2>1. /\ pc = "plan" /\ all' = all /\ batch' = batch /\ batch = NoTrials
        /\ walk.stage = "descent" /\ walk.level = Levels
        /\ walk' = AxisDone(walk, KnownBytes) /\ all \subseteq Trial
    BY <1>8 DEF WalkAxis, TypeInv
  <2>2. Tunes = Points
    BY <1>1, <2>1, CostOfPoints DEF WalkOK
  <2>3. PICK low \in 0 .. Levels - 1 : low = BestLevel(walk, KnownBytes)
    BY <1>1, <2>1, <2>2, BestLevelOK, KnownBytesOK
  <2>4. PICK p : p = AtLevel(walk.at, Axes[walk.axis], low)
    OBVIOUS
  <2>5. Due(p) /\ Due(p)'
    BY <2>1, <2>3, <2>4 DEF WalkKnown, Running, Due, Tried
  <2>6. /\ walk'.at = p /\ walk'.level = 0
        /\ walk'.stage \in {"descent", "climb"}
    BY <1>1, <2>1, <2>3, <2>4 DEF AxisDone, Walks
  <2>7. Due(walk.at)'
    BY <2>5, <2>6
  <2> QED
    BY <2>6, <2>7 DEF WalkKnown
<1>9. CASE WalkCompare
  <2>1. /\ pc = "plan" /\ all' = all /\ batch' = batch
        /\ walk.stage = "compare" /\ walk' = CandidateKnown(walk, KnownBytes)
    BY <1>9 DEF WalkCompare
  <2>2. PICK p : p = Mutated(walk)
    OBVIOUS
  <2>3. /\ Due(walk.at) /\ Due(p)
    BY <2>1, <2>2 DEF WalkKnown, Running
  <2>4. \A t : Due(t) => Due(t)'
    BY <2>1 DEF Due, Tried
  <2>5. walk'.stage = "climb" /\ walk'.at \in {walk.at, p}
    BY <1>1, <2>1, <2>2 DEF CandidateKnown, Walks
  <2>6. Due(walk.at)'
    BY <2>3, <2>4, <2>5
  <2> QED
    BY <2>5, <2>6 DEF WalkKnown
<1>10. CASE Report \/ Kill \/ KillInGap \/ DiskFull
  <2>1. pc' \notin Running
    BY <1>10 DEF Report, Kill, KillInGap, DiskFull, Die, Running
  <2> QED
    BY <2>1 DEF WalkKnown
<1>11. CASE UNCHANGED vars
  BY <1>11 DEF vars, WalkKnown, Due, Tried, Mutated, Running
<1> QED
  BY <1>3, <1>4, <1>5, <1>6, <1>7, <1>8, <1>9, <1>10, <1>11 DEF Next

\* No level of an axis has a smaller archive.
NoLower(at, axis) == \A v \in 0 .. Levels - 1 : Cost[at] <= Cost[AtLevel(at, axis, v)]

\* A round that has improved nothing has found nothing better on its axes.
NoneBetter(w) ==
  ~w.improved =>
    /\ w.stage = "descent" => \A i \in 1 .. w.axis - 1 : NoLower(w.at, Axes[i])
    /\ w.stage \in {"climb", "compare"} => \A i \in 1 .. Len(Axes) : NoLower(w.at, Axes[i])

\* A step of the climb is along one of the axes.
LEMMA MovesAlongAxes ==
  ASSUME NEW w \in Walks
  PROVE  \E i \in 1 .. Len(Axes) : \E v \in 0 .. Levels - 1 : Mutated(w) = AtLevel(w.at, Axes[i], v)
<1>1. w.at \in Points /\ w.seed \in 1 .. Len(Moves)
  BY DEF Walks
<1>2. PICK i \in 1 .. Len(Axes), by \in Int : Axes[i] = Moves[w.seed].axis /\ by = Moves[w.seed].by
  BY <1>1, WalkConstants, MovesAssumption
<1>3. Axes[i] \in {"lr", "apm"}
  BY WalkConstants
<1>4. PICK l \in 0 .. Levels - 1 : l = Level(w.at, Axes[i])
  <2>1. 0 \in 0 .. Levels - 1
    BY WalkConstants
  <2> QED
    BY <1>1, <1>3, <2>1, AtLevelOK
<1>5. (l + by) % Levels \in 0 .. Levels - 1
  BY WalkConstants
<1>6. Mutated(w) = AtLevel(w.at, Axes[i], (l + by) % Levels)
  BY <1>2, <1>4 DEF Mutated, Neighbor
<1> QED
  BY <1>5, <1>6

LEMMA NoneBetterStep ==
  ASSUME NEW w, WalkOK(w), w.stage # "none", ~Ended(w), NoneBetter(w)
  PROVE  NoneBetter(TrueStep(w))
<1>1. /\ w \in Walks /\ Tunes = Points /\ Cost \in [Points -> Nat]
  BY CostOfPoints DEF WalkOK
<1>2. /\ w.at \in Points /\ w.axis \in 1 .. Len(Axes) /\ w.improved \in BOOLEAN
      /\ Len(Axes) \in Nat
  BY <1>1, WalkConstants DEF Walks
<1>3. CASE WantsPoint(w)
  <2>1. TrueStep(w) = PointKnown(w)
    BY <1>3 DEF TrueStep
  <2>2. CASE w.stage = "descent"
    <3>1. TrueStep(w) = [w EXCEPT !.level = w.level + 1]
      BY <2>1, <2>2 DEF PointKnown
    <3>2. /\ TrueStep(w).at = w.at /\ TrueStep(w).axis = w.axis
          /\ TrueStep(w).improved = w.improved /\ TrueStep(w).stage = w.stage
      BY <1>1, <3>1 DEF Walks
    <3> QED
      BY <3>2 DEF NoneBetter
  <2>3. CASE w.stage = "climb"
    <3>1. TrueStep(w) = [w EXCEPT !.stage = "compare"]
      BY <2>1, <2>3 DEF PointKnown
    <3>2. /\ TrueStep(w).at = w.at /\ TrueStep(w).stage = "compare"
          /\ TrueStep(w).improved = w.improved
      BY <1>1, <3>1 DEF Walks
    <3> QED
      BY <2>3, <3>2 DEF NoneBetter
  <2> QED
    BY <1>3, <2>2, <2>3 DEF WantsPoint
<1>4. CASE ~WantsPoint(w) /\ w.stage = "descent"
  <2>1. PICK low \in 0 .. Levels - 1 : low = BestLevel(w, Cost) /\ IsBest(w, Cost, low)
    BY <1>1, BestLevelOK
  <2>2. PICK axis \in {"lr", "apm"} : axis = Axes[w.axis]
    BY <1>2, WalkConstants
  <2>3. PICK at \in Points : at = AtLevel(w.at, axis, low)
    BY <1>2, AtLevelOK
  <2>4. PICK improved \in BOOLEAN : improved = (w.improved \/ low # Level(w.at, axis))
    OBVIOUS
  <2>5. PICK n : n = TrueStep(w)
    OBVIOUS
  <2>6. n = AxisDone(w, Cost)
    BY <1>4, <2>5 DEF TrueStep
  \* Where the walk goes, no level of the axis is better.
  <2>7. NoLower(at, axis)
    <3> SUFFICES ASSUME NEW v \in 0 .. Levels - 1 PROVE Cost[at] <= Cost[AtLevel(at, axis, v)]
      BY DEF NoLower
    <3>1. AtLevel(at, axis, v) = AtLevel(w.at, axis, v) /\ AtLevel(w.at, axis, v) \in Points
      <4>1. AtLevel(at, axis, v) = AtLevel(w.at, axis, v)
        BY <1>2, <2>3, AtLevelTwice
      <4>2. AtLevel(w.at, axis, v) \in Points
        BY <1>2, AtLevelOK
      <4> QED
        BY <4>1, <4>2
    <3>2. Cost[at] \in Nat /\ Cost[AtLevel(w.at, axis, v)] \in Nat
      BY <1>1, <3>1
    <3> QED
      BY <2>1, <2>2, <2>3, <3>1, <3>2 DEF IsBest
  \* If nothing improves, it stays where it is.
  <2>8. ~improved => at = w.at
    BY <1>2, <2>3, <2>4, AtLevelTwice
  <2>9. ~improved => \A i \in 1 .. w.axis : NoLower(at, Axes[i])
    <3> SUFFICES ASSUME ~improved, NEW i \in 1 .. w.axis PROVE NoLower(at, Axes[i])
      OBVIOUS
    <3>1. CASE i = w.axis
      BY <2>2, <2>7, <3>1
    <3>2. CASE i # w.axis
      <4>1. i \in 1 .. w.axis - 1
        BY <1>2, <3>2
      <4> QED
        BY <1>4, <2>4, <2>8, <4>1 DEF NoneBetter
    <3> QED
      BY <3>1, <3>2
  <2>10. PICK moved : moved = [w EXCEPT !.at = at, !.level = 0]
    OBVIOUS
  <2>11. /\ moved \in Walks
         /\ moved.at = at /\ moved.axis = w.axis /\ moved.round = w.round
         /\ moved.stage = "descent" /\ moved.improved = w.improved
    <3>1. 0 \in 0 .. Levels
      BY WalkConstants
    <3> QED
      BY <1>1, <1>4, <2>10, <3>1 DEF Walks
  <2>12. CASE w.axis < Len(Axes)
    <3>1. n = [moved EXCEPT !.axis = w.axis + 1, !.improved = improved]
      BY <2>1, <2>2, <2>3, <2>4, <2>6, <2>10, <2>11, <2>12 DEF AxisDone
    <3>2. n.at = at /\ n.stage = "descent" /\ n.axis = w.axis + 1 /\ n.improved = improved
      BY <1>1, <1>4, <2>10, <3>1 DEF Walks
    <3>3. n.axis - 1 = w.axis
      BY <1>2, <3>2
    <3> QED
      BY <2>5, <2>9, <3>2, <3>3 DEF NoneBetter
  <2>13. CASE ~(w.axis < Len(Axes)) /\ improved /\ w.round < Rounds
    <3>1. n = [moved EXCEPT !.axis = 1, !.round = w.round + 1, !.improved = FALSE]
      BY <2>1, <2>2, <2>3, <2>4, <2>6, <2>10, <2>11, <2>13 DEF AxisDone
    <3>2. n.stage = "descent" /\ n.axis = 1
      BY <1>1, <1>4, <2>10, <3>1 DEF Walks
    <3> QED
      BY <2>5, <3>2 DEF NoneBetter
  <2>14. CASE ~(w.axis < Len(Axes)) /\ ~(improved /\ w.round < Rounds)
    <3>1. n = [moved EXCEPT !.stage = "climb", !.improved = improved]
      BY <2>1, <2>2, <2>3, <2>4, <2>6, <2>10, <2>11, <2>14 DEF AxisDone
    <3>2. n.at = at /\ n.stage = "climb" /\ n.improved = improved
      BY <1>1, <1>4, <2>10, <3>1 DEF Walks
    <3>3. w.axis = Len(Axes)
      BY <1>2, <2>14
    <3> QED
      BY <2>5, <2>9, <3>2, <3>3 DEF NoneBetter
  <2> QED
    BY <2>12, <2>13, <2>14
<1>5. CASE ~WantsPoint(w) /\ w.stage # "descent"
  <2>1. w.stage = "compare" /\ TrueStep(w) = CandidateKnown(w, Cost)
    BY <1>1, <1>5 DEF Ended, TrueStep, Walks
  <2>2. CASE w.improved
    <3>1. TrueStep(w).improved = w.improved
      BY <1>1, <2>1 DEF CandidateKnown, Walks
    <3> QED
      BY <2>2, <3>1 DEF NoneBetter
  <2>3. CASE ~w.improved
    <3>1. ~(Cost[Mutated(w)] < Cost[w.at])
      <4>1. PICK i \in 1 .. Len(Axes), v \in 0 .. Levels - 1 : Mutated(w) = AtLevel(w.at, Axes[i], v)
        BY <1>1, MovesAlongAxes
      <4>2. Cost[w.at] <= Cost[Mutated(w)]
        BY <2>1, <2>3, <4>1 DEF NoneBetter, NoLower
      <4>3. Cost[w.at] \in Nat /\ Cost[Mutated(w)] \in Nat
        BY <1>1, <1>2, MutatedOK
      <4> QED
        BY <4>2, <4>3
    <3>2. TrueStep(w) = [w EXCEPT !.stage = "climb", !.stale = w.stale + 1, !.seed = NextSeed(w)]
      BY <2>1, <3>1 DEF CandidateKnown
    <3>3. /\ TrueStep(w).at = w.at /\ TrueStep(w).stage = "climb"
          /\ TrueStep(w).improved = w.improved
      BY <1>1, <3>2 DEF Walks
    <3> QED
      BY <2>1, <3>3 DEF NoneBetter
  <2> QED
    BY <2>2, <2>3
<1> QED
  BY <1>3, <1>4, <1>5

\* The walk so far: from its beginning, step by step, without passing an end.
Trace(tr) ==
  /\ tr \in Seq(Walks) /\ Len(tr) >= 1 /\ tr[1] = NewWalk
  /\ \A i \in 1 .. Len(tr) - 1 : ~Ended(tr[i]) /\ tr[i + 1] = TrueStep(tr[i])

Reached(w) == \E tr : Trace(tr) /\ tr[Len(tr)] = w

\* Two walks are the same as far as both go, so they can only end alike.
LEMMA WalksEndAlike ==
  ASSUME NEW v, NEW w, Reached(v), Ended(v), Reached(w), Ended(w)
  PROVE  v = w
<1>1. PICK s : Trace(s) /\ s[Len(s)] = v
  BY DEF Reached
<1>2. PICK t : Trace(t) /\ t[Len(t)] = w
  BY DEF Reached
<1>3. PICK m \in Nat \ {0}, n \in Nat \ {0} : m = Len(s) /\ n = Len(t)
  BY <1>1, <1>2 DEF Trace
<1>4. /\ s[1] = t[1] /\ s[m] = v /\ t[n] = w
      /\ \A i \in 1 .. m - 1 : ~Ended(s[i]) /\ s[i + 1] = TrueStep(s[i])
      /\ \A i \in 1 .. n - 1 : ~Ended(t[i]) /\ t[i + 1] = TrueStep(t[i])
  BY <1>1, <1>2, <1>3 DEF Trace
<1>5. \A i \in Nat : 1 <= i /\ i <= m /\ i <= n => s[i] = t[i]
  <2> DEFINE Differ == {i \in Nat : 1 <= i /\ i <= m /\ i <= n /\ s[i] # t[i]}
  <2> SUFFICES ASSUME Differ # {} PROVE FALSE
    OBVIOUS
  <2>1. PICK k \in Differ : \A i \in Differ : k <= i
    <3>1. Differ \subseteq Nat
      OBVIOUS
    <3> HIDE DEF Differ
    <3> QED
      BY <3>1, LeastNat
  <2>2. k \in Nat /\ 1 < k /\ k <= m /\ k <= n /\ s[k] # t[k]
    <3>1. k \in Nat /\ 1 <= k /\ k <= m /\ k <= n /\ s[k] # t[k]
      BY <2>1
    <3>2. k # 1
      BY <1>4, <3>1
    <3> QED
      BY <3>1, <3>2
  <2>3. PICK j \in Nat : k = j + 1
    <3>1. k - 1 \in Nat /\ k = (k - 1) + 1
      BY <2>2
    <3> QED
      BY <3>1
  <2>4. s[j] = t[j]
    <3>1. 1 <= j /\ j <= m /\ j <= n /\ ~(k <= j)
      BY <2>2, <2>3
    <3>2. j \notin Differ
      BY <2>1, <3>1
    <3> QED
      BY <3>1, <3>2
  <2>5. j \in 1 .. m - 1 /\ j \in 1 .. n - 1
    BY <2>2, <2>3
  <2> QED
    BY <1>4, <2>2, <2>3, <2>4, <2>5
<1>6. CASE m < n
  <2>1. m \in 1 .. n - 1 /\ s[m] = t[m]
    BY <1>5, <1>6
  <2> QED
    BY <1>4, <2>1
<1>7. CASE n < m
  <2>1. n \in 1 .. m - 1 /\ s[n] = t[n]
    BY <1>5, <1>7
  <2> QED
    BY <1>4, <2>1
<1>8. CASE m = n
  BY <1>4, <1>5, <1>8
<1> QED
  BY <1>6, <1>7, <1>8

LEMMA ReachesOn ==
  ASSUME NEW w \in Walks, Reached(w), ~Ended(w), TrueStep(w) \in Walks
  PROVE  Reached(TrueStep(w))
<1>1. PICK s : Trace(s) /\ s[Len(s)] = w
  BY DEF Reached
<1>2. PICK m \in Nat \ {0} : m = Len(s)
  BY <1>1 DEF Trace
<1>3. s \in Seq(Walks)
  BY <1>1 DEF Trace
<1>4. PICK t \in Seq(Walks) : t = Append(s, TrueStep(w))
  BY <1>3, AppendProperties
<1>5. /\ Len(t) = m + 1 /\ t[m + 1] = TrueStep(w)
      /\ \A i \in 1 .. m : t[i] = s[i]
  BY <1>2, <1>3, <1>4, AppendProperties
<1>6. ASSUME NEW i \in 1 .. m PROVE ~Ended(t[i]) /\ t[i + 1] = TrueStep(t[i])
  <2>1. CASE i = m
    BY <1>1, <1>2, <1>5, <2>1
  <2>2. CASE i # m
    <3>1. i \in 1 .. m - 1 /\ i + 1 \in 1 .. m
      BY <2>2
    <3>2. ~Ended(s[i]) /\ s[i + 1] = TrueStep(s[i])
      BY <1>1, <1>2, <3>1 DEF Trace
    <3> QED
      BY <1>5, <3>1, <3>2
  <2> QED
    BY <2>1, <2>2
<1>7. t[1] = NewWalk
  BY <1>1, <1>2, <1>5 DEF Trace
<1>8. Trace(t)
  <2>1. Len(t) >= 1 /\ 1 .. Len(t) - 1 = 1 .. m
    BY <1>2, <1>5
  <2> QED
    BY <1>6, <1>7, <2>1 DEF Trace
<1>9. t[Len(t)] = TrueStep(w)
  BY <1>5
<1> QED
  BY <1>8, <1>9 DEF Reached

\* The walk of the launch, and every one that has ended, is the one walk.
Walked ==
  Untorn =>
    /\ walk.stage # "none" => Reached(walk) /\ NoneBetter(walk)
    /\ \A e \in ends : \E w : Reached(w) /\ Ended(w) /\ w.at = e

LEMMA WalkedStep ==
  TypeInv /\ Honest /\ WalkKnown /\ Walked /\ [Next]_vars => Walked'
<1> SUFFICES ASSUME TypeInv, Honest, WalkKnown, Walked, [Next]_vars, Untorn'
             PROVE  /\ walk'.stage # "none" => Reached(walk') /\ NoneBetter(walk')
                    /\ \A e \in ends' : \E w : Reached(w) /\ Ended(w) /\ w.at = e
  BY DEF Walked
<1>1. LogOK /\ WalkOK(walk)
  BY DEF TypeInv
<1>2. Untorn
  <2>1. CASE log' = log
    BY <2>1 DEF Untorn
  <2>2. CASE WriteObject
    <3>1. NextTune \in Tunes
      BY <2>2, NextTuneFacts DEF WriteObject, TypeInv
    <3>2. Receipt(NextTune) \in Whole \cup Torn
      BY <3>1 DEF Whole
    <3> QED
      BY <1>1, <2>2, <3>2, UntornBefore DEF WriteObject
  <2>3. CASE DiskFull
    <3>1. NextTune \in Tunes
      BY <2>3, NextTuneFacts DEF DiskFull, TypeInv
    <3>2. PICK cut \in CutShort(Receipt(NextTune)) : AddObject(cut)
      BY <2>3 DEF DiskFull
    <3>3. cut \in Whole \cup Torn
      BY <3>1, CutsAreTorn
    <3> QED
      BY <1>1, <2>3, <3>2, <3>3, UntornBefore DEF DiskFull
  <2> QED
    BY <2>1, <2>2, <2>3 DEF Next, Launch, TakeChunk, EncodeChunk, WriteNewline, WalkPoint,
       WalkAxis, WalkCompare, Report, Kill, KillInGap, Die, vars
<1>3. /\ walk.stage # "none" => Reached(walk) /\ NoneBetter(walk)
      /\ \A e \in ends : \E w : Reached(w) /\ Ended(w) /\ w.at = e
  BY <1>2 DEF Walked
<1>4. CASE Launch
  <2>1. ends' = ends
    BY <1>4 DEF Launch
  <2>2. CASE walk' = NoWalk
    BY <1>3, <2>1, <2>2 DEF NoWalk
  <2>3. CASE Guided /\ walk' = NewWalk
    <3>1. NewWalk \in Walks
      BY <2>3, NewWalksOK DEF WalkOK
    <3>2. PICK s : s = <<NewWalk>>
      OBVIOUS
    <3>3. s \in Seq(Walks) /\ Len(s) = 1 /\ s[1] = NewWalk
      BY <3>1, <3>2
    <3>4. Trace(s)
      BY <3>3 DEF Trace
    <3>5. Reached(NewWalk)
      BY <3>3, <3>4 DEF Reached
    <3>6. NewWalk.stage = "descent" /\ NewWalk.axis = 1
      BY DEF NewWalk, NoWalk
    <3>7. NoneBetter(NewWalk)
      BY <3>6 DEF NoneBetter
    <3> QED
      BY <1>3, <2>1, <2>3, <3>5, <3>7
  <2> QED
    BY <1>4, <2>2, <2>3 DEF Launch, Ask
<1>5. CASE WalkPoint \/ WalkAxis \/ WalkCompare
  <2>1. ~Ended(walk) /\ walk' = TrueStep(walk) /\ ends' = ends
    BY <1>2, <1>5, StepsAreTrue DEF WalkPoint, WalkAxis, WalkCompare
  <2>2. walk.stage # "none"
    BY <1>5 DEF WalkPoint, WalkAxis, WalkCompare, WantsPoint
  <2>3. walk' \in Walks
    BY TypeStep DEF TypeInv, WalkOK
  <2>4. walk \in Walks
    BY <1>1 DEF WalkOK
  <2> QED
    BY <1>1, <1>3, <2>1, <2>2, <2>3, <2>4, ReachesOn, NoneBetterStep
<1>6. CASE Report
  <2>1. /\ walk' = walk
        /\ ends' = IF walk.stage = "climb" THEN ends \cup {walk.at} ELSE ends
        /\ ~WantsPoint(walk)
    BY <1>6 DEF Report
  <2>2. ASSUME NEW e \in ends' PROVE \E w : Reached(w) /\ Ended(w) /\ w.at = e
    <3>1. CASE e \in ends
      BY <1>3, <3>1
    <3>2. CASE e \notin ends
      <4>1. walk.stage = "climb" /\ e = walk.at
        BY <2>1, <2>2, <3>2
      <4> QED
        BY <1>3, <2>1, <4>1 DEF Ended
    <3> QED
      BY <3>1, <3>2
  <2> QED
    BY <1>3, <2>1, <2>2
<1>7. CASE TakeChunk \/ EncodeChunk \/ WriteObject \/ WriteNewline \/ Kill \/ KillInGap
           \/ DiskFull \/ UNCHANGED vars
  <2>1. walk' = walk /\ ends' = ends
    BY <1>7 DEF TakeChunk, EncodeChunk, WriteObject, WriteNewline, Kill, KillInGap, DiskFull,
                Die, vars
  <2> QED
    BY <1>3, <2>1
<1> QED
  BY <1>4, <1>5, <1>6, <1>7 DEF Next

LEMMA WalkedIsReproducible == TypeInv /\ Walked => WalkReproducible
<1> SUFFICES ASSUME TypeInv, Walked, Untorn
             PROVE  /\ Cardinality(ends) <= 1
                    /\ pc = "done" /\ walk.stage = "climb" /\ ~walk.improved =>
                         \A i \in 1 .. Len(Axes) : \A v \in 0 .. Levels - 1 :
                           Cost[walk.at] <= Cost[AtLevel(walk.at, Axes[i], v)]
  BY DEF WalkReproducible
<1>1. \A d, e \in ends : d = e
  BY WalksEndAlike DEF Walked
<1>2. Cardinality(ends) <= 1
  <2>1. CASE ends = {}
    BY <2>1, FS_EmptySet
  <2>2. CASE ends # {}
    <3>1. PICK e : ends = {e}
      BY <1>1, <2>2
    <3>2. Cardinality({e}) = 1
      BY FS_Singleton
    <3> QED
      BY <3>1, <3>2
  <2> QED
    BY <2>1, <2>2
<1>3. ASSUME walk.stage = "climb", ~walk.improved
      PROVE  \A i \in 1 .. Len(Axes) : NoLower(walk.at, Axes[i])
  BY <1>3 DEF Walked, NoneBetter
<1> QED
  BY <1>2, <1>3 DEF NoLower

\* Unless a write was cut short, guided campaigns end at one point whatever
\* interrupted them and whatever else the log held, and if the last round of
\* the descent improved nothing, no level of any axis has a smaller archive.
THEOREM WalksAreReproducible == Spec => []WalkReproducible
<1> DEFINE Inv == TypeInv /\ Honest /\ WalkKnown /\ Walked
<1>1. Init => Inv
  <2> SUFFICES ASSUME Init PROVE Inv
    OBVIOUS
  <2>1. TypeInv
    BY TypeInit
  <2>2. Honest /\ WalkKnown
    BY DEF Init, Honest, WalkKnown, Running
  <2>3. Walked
    BY DEF Init, Walked, NoWalk
  <2> QED
    BY <2>1, <2>2, <2>3
<1>2. Inv /\ [Next]_vars => Inv'
  BY TypeStep, HonestStep, WalkKnownStep, WalkedStep
<1>3. Inv => WalkReproducible
  BY WalkedIsReproducible
<1> QED
  BY <1>1, <1>2, <1>3, PTL DEF Spec

-----------------------------------------------------------------------------
(* Folds, from left to right. *)

\* Max of a set of indices is its greatest element.
LEMMA GreatestOf ==
  ASSUME NEW n \in Nat, NEW S, S \subseteq 1 .. n, S # {}
  PROVE  Max(S) \in S /\ \A y \in S : y <= Max(S)
<1>1. PICK T : T = {n - x : x \in S}
  OBVIOUS
<1>2. T \subseteq Nat /\ T # {}
  <2>1. \A x \in S : n - x \in Nat
    OBVIOUS
  <2> QED
    BY <1>1, <2>1
<1>3. PICK z \in T : \A y \in T : z <= y
  BY <1>2, LeastNat
<1>4. PICK x \in S : z = n - x
  BY <1>1, <1>3
<1>5. \A y \in S : x >= y
  <2> SUFFICES ASSUME NEW y \in S PROVE x >= y
    OBVIOUS
  <2>1. n - y \in T /\ x \in Int /\ y \in Int
    BY <1>1
  <2>2. z <= n - y
    BY <1>3, <2>1
  <2> QED
    BY <1>4, <2>1, <2>2
<1>6. Max(S) \in S /\ \A y \in S : Max(S) >= y
  BY <1>5 DEF Max
<1> QED
  BY <1>6

\* Without it, a set of numbers ends before it.
LEMMA GreatestRemoved ==
  ASSUME NEW m \in Nat, NEW S, S \subseteq 1 .. m + 1, S # {}
  PROVE  Max(S) \in 1 .. m + 1 /\ S \ {Max(S)} \subseteq 1 .. m
<1>1. PICK x \in S : x = Max(S) /\ \A y \in S : y <= x
  BY GreatestOf, m + 1 \in Nat
<1>2. x \in Int /\ 1 <= x /\ x <= m + 1
  OBVIOUS
<1>3. ASSUME NEW y \in S, y # x PROVE y \in 1 .. m
  <2>1. y \in Int /\ 1 <= y /\ y <= x
    BY <1>1
  <2> QED
    BY <1>2, <1>3, <2>1
<1> QED
  BY <1>1, <1>2, <1>3

FoldsBy(g, n, base, st) ==
  g = [s \in SUBSET (1 .. n) |-> IF s = {} THEN base ELSE st[<<g[s \ {Max(s)}], Max(s)>>]]

\* A function that folds the numbers of a set, the greatest last, exists.
LEMMA FoldExists ==
  ASSUME NEW n \in Nat, NEW V, NEW base \in V, NEW st \in [V \X (1 .. n) -> V]
  PROVE  \E g \in [SUBSET (1 .. n) -> V] : FoldsBy(g, n, base, st)
<1> DEFINE D(m) == SUBSET (1 .. m)
           Folded(m) == \E g \in [D(m) -> V] :
             g = [s \in D(m) |-> IF s = {} THEN base ELSE st[<<g[s \ {Max(s)}], Max(s)>>]]
           Bad == {m \in Nat : m <= n /\ ~Folded(m)}
<1>1. Folded(0)
  <2>1. PICK g : g = [s \in D(0) |-> base]
    OBVIOUS
  <2>2. \A s \in D(0) : s = {}
    OBVIOUS
  <2>3. g \in [D(0) -> V]
    BY <2>1
  <2>4. g = [s \in D(0) |-> IF s = {} THEN base ELSE st[<<g[s \ {Max(s)}], Max(s)>>]]
    <3> HIDE DEF D
    <3> QED
      BY <2>1, <2>2
  <2> QED
    BY <2>3, <2>4
<1>2. ASSUME NEW m \in Nat, m < n, Folded(m) PROVE Folded(m + 1)
  <2>1. PICK g \in [D(m) -> V] :
          g = [s \in D(m) |-> IF s = {} THEN base ELSE st[<<g[s \ {Max(s)}], Max(s)>>]]
    BY <1>2
  <2>2. PICK h : h = [s \in D(m + 1) |->
                        IF s = {} THEN base ELSE st[<<g[s \ {Max(s)}], Max(s)>>]]
    OBVIOUS
  <2>3. ASSUME NEW s \in D(m + 1), s # {}
        PROVE  s \ {Max(s)} \in D(m) /\ Max(s) \in 1 .. n
    <3>1. Max(s) \in 1 .. m + 1 /\ s \ {Max(s)} \subseteq 1 .. m
      BY <2>3, GreatestRemoved
    <3>2. \A x \in 1 .. m + 1 : x \in 1 .. n
      BY <1>2
    <3> QED
      BY <3>1, <3>2
  <2>4. h \in [D(m + 1) -> V]
    <3>1. \A s \in D(m + 1) :
            (IF s = {} THEN base ELSE st[<<g[s \ {Max(s)}], Max(s)>>]) \in V
      <4> HIDE DEF D
      <4> QED
        BY <2>1, <2>3
    <3> HIDE DEF D
    <3> QED
      BY <2>2, <3>1
  <2>5. \A s \in D(m) : h[s] = g[s]
    <3>1. D(m) \subseteq D(m + 1)
      OBVIOUS
    <3> HIDE DEF D
    <3>2. \A s \in D(m) :
            g[s] = IF s = {} THEN base ELSE st[<<g[s \ {Max(s)}], Max(s)>>]
      BY <2>1
    <3> QED
      BY <2>2, <3>1, <3>2
  <2>6. h = [s \in D(m + 1) |-> IF s = {} THEN base ELSE st[<<h[s \ {Max(s)}], Max(s)>>]]
    <3> HIDE DEF D
    <3> QED
      BY <2>2, <2>3, <2>5
  <2> QED
    BY <2>4, <2>6
<1>3. Bad = {}
  <2> HIDE DEF Folded
  <2> SUFFICES ASSUME Bad # {} PROVE FALSE
    OBVIOUS
  <2>1. \E k \in Bad : \A m \in Bad : k <= m
    <3>1. Bad \subseteq Nat
      OBVIOUS
    <3> HIDE DEF Bad
    <3> QED
      BY <3>1, LeastNat
  <2>2. PICK k \in Nat : k <= n /\ ~Folded(k) /\ \A m \in Bad : k <= m
    BY <2>1
  <2>3. PICK p \in Nat : k = p + 1
    <3>1. k # 0
      BY <1>1, <2>2
    <3>2. k - 1 \in Nat /\ k = (k - 1) + 1
      BY <2>2, <3>1
    <3> QED
      BY <3>2
  <2>4. p \notin Bad /\ p < n
    BY <2>2, <2>3
  <2>5. Folded(p)
    BY <2>4
  <2>6. Folded(p + 1)
    BY <1>2, <2>4, <2>5
  <2> QED
    BY <2>2, <2>3, <2>6
<1>4. Folded(n)
  <2> HIDE DEF Folded
  <2> QED
    BY <1>3
<1> QED
  BY <1>4 DEF FoldsBy

\* What is taken away from the first k numbers when the greatest is.
LEMMA FirstNumbers ==
  ASSUME NEW k \in Nat \ {0}
  PROVE  1 .. k # {} /\ Max(1 .. k) = k /\ (1 .. k) \ {k} = 1 .. k - 1
<1>1. k \in 1 .. k
  OBVIOUS
<1>2. Max(1 .. k) \in 1 .. k /\ \A y \in 1 .. k : y <= Max(1 .. k)
  BY <1>1, GreatestOf
<1>3. Max(1 .. k) = k
  BY <1>1, <1>2
<1> QED
  BY <1>1, <1>3

\* The lines of the campaign, one by one.
OwnNext(own, line) == IF IsOwn(line) THEN Append(own, line) ELSE own

LEMMA OwnLinesFold ==
  ASSUME NEW L, log \in Seq(L)
  PROVE  \E r : /\ r[0] = <<>> /\ r[Len(log)] = OwnLines
               /\ \A k \in 1 .. Len(log) : r[k] = OwnNext(r[k - 1], log[k])
<1>1. PICK n \in Nat : n = Len(log) /\ DOMAIN log = 1 .. n /\ \A i \in 1 .. n : log[i] \in L
  OBVIOUS
<1>2. PICK st : st = [p \in Seq(L) \X (1 .. n) |-> OwnNext(p[1], log[p[2]])]
  OBVIOUS
<1>3. st \in [Seq(L) \X (1 .. n) -> Seq(L)]
  <2>1. \A a \in Seq(L), i \in 1 .. n : OwnNext(a, log[i]) \in Seq(L)
    BY <1>1, AppendProperties DEF OwnNext
  <2> QED
    BY <1>2, <2>1
<1>4. <<>> \in Seq(L)
  OBVIOUS
<1>5. PICK g \in [SUBSET (1 .. n) -> Seq(L)] : FoldsBy(g, n, <<>>, st)
  BY <1>3, <1>4, FoldExists
<1> DEFINE Folds(h) == h = [s \in SUBSET (1 .. n) |->
             IF s = {} THEN <<>> ELSE OwnNext(h[s \ {Max(s)}], log[Max(s)])]
<1>6. Folds(g)
  <2>1. ASSUME NEW s \in SUBSET (1 .. n), s # {}
        PROVE  st[<<g[s \ {Max(s)}], Max(s)>>] = OwnNext(g[s \ {Max(s)}], log[Max(s)])
    <3>1. Max(s) \in 1 .. n
      BY <2>1, GreatestOf
    <3>2. g[s \ {Max(s)}] \in Seq(L)
      BY <1>5
    <3> QED
      BY <1>2, <3>1, <3>2
  <2>2. g = [s \in SUBSET (1 .. n) |->
               IF s = {} THEN <<>> ELSE OwnNext(g[s \ {Max(s)}], log[Max(s)])]
    BY <1>5, <2>1 DEF FoldsBy
  <2> QED
    BY <2>2
<1>7. PICK h : Folds(h) /\ OwnLines = h[1 .. n]
  <2>1. OwnLines = (CHOOSE h : Folds(h))[1 .. n]
    BY <1>1 DEF OwnLines, FoldLeft, MapThenFoldSet, OwnNext
  <2>2. Folds(CHOOSE h : Folds(h))
    <3> HIDE DEF Folds
    <3> QED
      BY <1>6
  <2> QED
    BY <2>1, <2>2
<1>8. PICK r : r = [k \in 0 .. n |-> h[1 .. k]]
  OBVIOUS
<1>9. r[0] = <<>>
  <2>1. 1 .. 0 = {} /\ {} \in SUBSET (1 .. n)
    OBVIOUS
  <2>2. h[{}] = <<>>
    BY <1>7, <2>1
  <2>3. r[0] = h[1 .. 0]
    BY <1>8
  <2> QED
    BY <2>1, <2>2, <2>3
<1>10. ASSUME NEW k \in 1 .. n PROVE r[k] = OwnNext(r[k - 1], log[k])
  <2>1. 1 .. k \in SUBSET (1 .. n) /\ 1 .. k # {} /\ Max(1 .. k) = k /\ (1 .. k) \ {k} = 1 .. k - 1
    BY FirstNumbers
  <2>2. h[1 .. k] = OwnNext(h[1 .. k - 1], log[k])
    <3>1. h[1 .. k] = OwnNext(h[(1 .. k) \ {Max(1 .. k)}], log[Max(1 .. k)])
      BY <1>7, <2>1
    <3> QED
      BY <2>1, <3>1
  <2>3. r[k] = h[1 .. k] /\ r[k - 1] = h[1 .. k - 1]
    BY <1>8
  <2> QED
    BY <2>2, <2>3
<1>11. r[n] = OwnLines
  <2>1. n \in 0 .. n
    OBVIOUS
  <2> HIDE DEF Folds
  <2> QED
    BY <1>7, <1>8, <2>1
<1> QED
  BY <1>1, <1>9, <1>10, <1>11

\* The order of a serial campaign, tune by tune.
OrderNext(done, t) == IF Contains(done, t) THEN done ELSE Append(done, t)

LEMMA SerialOrderFold ==
  ASSUME NEW p \in Seq(Tunes)
  PROVE  \E r : /\ r[0] = <<>> /\ r[Len(p)] = SerialOrder(p)
               /\ \A k \in 1 .. Len(p) : r[k] = OrderNext(r[k - 1], p[k])
<1>1. PICK n \in Nat : n = Len(p) /\ DOMAIN p = 1 .. n /\ \A i \in 1 .. n : p[i] \in Tunes
  OBVIOUS
<1>2. PICK st : st = [q \in Seq(Tunes) \X (1 .. n) |-> OrderNext(q[1], p[q[2]])]
  OBVIOUS
<1>3. st \in [Seq(Tunes) \X (1 .. n) -> Seq(Tunes)]
  <2>1. \A a \in Seq(Tunes), i \in 1 .. n : OrderNext(a, p[i]) \in Seq(Tunes)
    BY <1>1, AppendProperties DEF OrderNext
  <2> QED
    BY <1>2, <2>1
<1>4. <<>> \in Seq(Tunes)
  OBVIOUS
<1>5. PICK g \in [SUBSET (1 .. n) -> Seq(Tunes)] : FoldsBy(g, n, <<>>, st)
  BY <1>3, <1>4, FoldExists
<1> DEFINE Folds(h) == h = [s \in SUBSET (1 .. n) |->
             IF s = {} THEN <<>> ELSE OrderNext(h[s \ {Max(s)}], p[Max(s)])]
<1>6. Folds(g)
  <2>1. ASSUME NEW s \in SUBSET (1 .. n), s # {}
        PROVE  st[<<g[s \ {Max(s)}], Max(s)>>] = OrderNext(g[s \ {Max(s)}], p[Max(s)])
    <3>1. Max(s) \in 1 .. n
      BY <2>1, GreatestOf
    <3>2. g[s \ {Max(s)}] \in Seq(Tunes)
      BY <1>5
    <3> QED
      BY <1>2, <3>1, <3>2
  <2>2. g = [s \in SUBSET (1 .. n) |->
               IF s = {} THEN <<>> ELSE OrderNext(g[s \ {Max(s)}], p[Max(s)])]
    BY <1>5, <2>1 DEF FoldsBy
  <2> QED
    BY <2>2
<1>7. PICK h : Folds(h) /\ SerialOrder(p) = h[1 .. n]
  <2>1. SerialOrder(p) = (CHOOSE h : Folds(h))[1 .. n]
    BY <1>1 DEF SerialOrder, FoldLeft, MapThenFoldSet, OrderNext
  <2>2. Folds(CHOOSE h : Folds(h))
    <3> HIDE DEF Folds
    <3> QED
      BY <1>6
  <2> QED
    BY <2>1, <2>2
<1>8. PICK r : r = [k \in 0 .. n |-> h[1 .. k]]
  OBVIOUS
<1>9. r[0] = <<>>
  <2>1. 1 .. 0 = {} /\ {} \in SUBSET (1 .. n)
    OBVIOUS
  <2>2. h[{}] = <<>>
    BY <1>7, <2>1
  <2>3. r[0] = h[1 .. 0]
    BY <1>8
  <2> QED
    BY <2>1, <2>2, <2>3
<1>10. ASSUME NEW k \in 1 .. n PROVE r[k] = OrderNext(r[k - 1], p[k])
  <2>1. 1 .. k \in SUBSET (1 .. n) /\ 1 .. k # {} /\ Max(1 .. k) = k /\ (1 .. k) \ {k} = 1 .. k - 1
    BY FirstNumbers
  <2>2. h[1 .. k] = OrderNext(h[1 .. k - 1], p[k])
    <3>1. h[1 .. k] = OrderNext(h[(1 .. k) \ {Max(1 .. k)}], p[Max(1 .. k)])
      BY <1>7, <2>1
    <3> QED
      BY <2>1, <3>1
  <2>3. r[k] = h[1 .. k] /\ r[k - 1] = h[1 .. k - 1]
    BY <1>8
  <2> QED
    BY <2>2, <2>3
<1>11. r[n] = SerialOrder(p)
  <2>1. n \in 0 .. n
    OBVIOUS
  <2> HIDE DEF Folds
  <2> QED
    BY <1>7, <1>8, <2>1
<1> QED
  BY <1>1, <1>9, <1>10, <1>11

\* Up to n, from one number to the next.
LEMMA UpTo ==
  ASSUME NEW n \in Nat, NEW S, 0 \in S, \A k \in Nat : k < n /\ k \in S => k + 1 \in S
  PROVE  \A k \in 0 .. n : k \in S
<1> DEFINE Bad == {k \in Nat : k <= n /\ k \notin S}
<1> SUFFICES ASSUME Bad # {} PROVE FALSE
  OBVIOUS
<1>1. PICK k \in Bad : \A m \in Bad : k <= m
  <2>1. Bad \subseteq Nat
    OBVIOUS
  <2> HIDE DEF Bad
  <2> QED
    BY <2>1, LeastNat
<1>2. k \in Nat /\ k <= n /\ k \notin S /\ k # 0
  BY <1>1
<1>3. PICK m \in Nat : k = m + 1
  <2>1. k - 1 \in Nat /\ k = (k - 1) + 1
    BY <1>2
  <2> QED
    BY <2>1
<1>4. m < n /\ m <= n /\ ~(k <= m)
  BY <1>2, <1>3
<1>5. m \in S
  BY <1>1, <1>4
<1> QED
  BY <1>2, <1>3, <1>4, <1>5

-----------------------------------------------------------------------------
(* The log of a serial campaign. *)

LEMMA AscendingIsSorted ==
  ASSUME NEW p \in Seq(Tunes), Ascending(p)
  PROVE  \A i, j \in 1 .. Len(p) : i < j => p[i] < p[j]
<1>1. PICK n \in Nat : n = Len(p) /\ \A i \in 1 .. n : p[i] \in Nat
  <2>1. Len(p) \in Nat /\ \A i \in 1 .. Len(p) : p[i] \in Tunes
    OBVIOUS
  <2> QED
    BY <2>1, TunesAssumption
<1> SUFFICES ASSUME NEW i \in 1 .. n PROVE \A j \in 1 .. n : i < j => p[i] < p[j]
  BY <1>1
<1> DEFINE S == {j \in Nat : j \in 1 .. n => (i < j => p[i] < p[j])}
<1>2. 0 \in S
  OBVIOUS
<1>3. ASSUME NEW j \in Nat, j < n, j \in S PROVE j + 1 \in S
  <2> SUFFICES ASSUME i < j + 1 PROVE p[i] < p[j + 1]
    OBVIOUS
  <2>1. j \in 1 .. n /\ j + 1 \in 1 .. n /\ j + 1 \in 2 .. n /\ (j + 1) - 1 = j
    BY <1>3
  <2>2. p[j] < p[j + 1]
    BY <1>1, <2>1 DEF Ascending
  <2>3. CASE i = j
    BY <2>2, <2>3
  <2>4. CASE i # j
    <3>1. i < j
      BY <2>4
    <3>2. p[i] < p[j]
      BY <1>3, <2>1, <3>1
    <3> QED
      BY <1>1, <2>1, <2>2, <3>2
  <2> QED
    BY <2>3, <2>4
<1>4. \A j \in 0 .. n : j \in S
  <2> HIDE DEF S
  <2> QED
    BY <1>2, <1>3, UpTo
<1> QED
  BY <1>4

\* A plan without repeats is the order of its receipts.
LEMMA AscendingIsSerial ==
  ASSUME NEW p \in Seq(Tunes), Ascending(p)
  PROVE  SerialOrder(p) = p
<1>1. PICK n \in Nat : n = Len(p)
  OBVIOUS
<1>2. PICK r : /\ r[0] = <<>> /\ r[n] = SerialOrder(p)
               /\ \A k \in 1 .. n : r[k] = OrderNext(r[k - 1], p[k])
  BY <1>1, SerialOrderFold
<1> DEFINE S == {k \in Nat : /\ r[k] \in Seq(Tunes) /\ Len(r[k]) = k
                             /\ \A i \in 1 .. k : r[k][i] = p[i]}
<1>3. 0 \in S
  <2>1. <<>> \in Seq(Tunes) /\ Len(<<>>) = 0
    OBVIOUS
  <2>2. r[0] \in Seq(Tunes) /\ Len(r[0]) = 0
    BY <1>2, <2>1
  <2>3. \A i \in 1 .. 0 : r[0][i] = p[i]
    OBVIOUS
  <2> QED
    BY <2>2, <2>3
<1>4. ASSUME NEW k \in Nat, k < n, k \in S PROVE k + 1 \in S
  <2>1. r[k] \in Seq(Tunes) /\ Len(r[k]) = k /\ \A i \in 1 .. k : r[k][i] = p[i]
    BY <1>4
  <2>2. k + 1 \in 1 .. n /\ (k + 1) - 1 = k
    BY <1>4
  <2>3. p[k + 1] \in Tunes /\ \A i \in 1 .. k : p[i] # p[k + 1]
    <3>1. ASSUME NEW i \in 1 .. k PROVE p[i] # p[k + 1]
      <4>1. i \in 1 .. Len(p) /\ k + 1 \in 1 .. Len(p) /\ i < k + 1
        BY <1>1, <2>2
      <4>2. p[i] < p[k + 1]
        BY <4>1, AscendingIsSorted
      <4>3. p[i] \in Tunes
        BY <4>1
      <4>4. p[i] \in Nat
        BY <4>3, TunesAssumption
      <4> QED
        BY <4>2, <4>4
    <3> QED
      BY <1>1, <2>2, <3>1
  <2>4. ~Contains(r[k], p[k + 1])
    BY <2>1, <2>3 DEF Contains
  <2>5. r[k + 1] = Append(r[k], p[k + 1])
    BY <1>2, <2>2, <2>4 DEF OrderNext
  <2>6. /\ r[k + 1] \in Seq(Tunes) /\ Len(r[k + 1]) = k + 1
        /\ \A i \in 1 .. k + 1 : r[k + 1][i] = p[i]
    BY <2>1, <2>3, <2>5, AppendProperties
  <2> QED
    BY <2>6
<1>5. \A k \in 0 .. n : k \in S
  <2> HIDE DEF S
  <2> QED
    BY <1>3, <1>4, UpTo
<1>6. r[n] \in Seq(Tunes) /\ Len(r[n]) = n /\ \A i \in 1 .. n : r[n][i] = p[i]
  <2>1. n \in S
    BY <1>5
  <2> QED
    BY <2>1
<1> QED
  BY <1>1, <1>2, <1>6

\* The log: f lines of another experiment, and the receipts of n tunes of the
\* plan, in its order.
Written(n, f) ==
  /\ Len(log) = f + n
  /\ f = 1 => \E o \in Others : log[1] = <<o>>
  /\ \A i \in 1 .. n : log[f + i] = <<Receipt(plan[i])>>

\* The launch knows of the first k tunes of the plan, and what was cut off
\* the plan after them is on its way.
KnownTo(k) ==
  /\ Tried = {plan[i] : i \in 1 .. k}
  /\ \A t \in Tunes :
       batch[t] = IF \E i \in k + 1 .. Len(plan) : i <= pos /\ plan[i] = t THEN 1 ELSE 0

\* Whatever was asked for so far is this one plan, and the log was always read.
OnePlan == blind = 0 /\ asked \subseteq {<<"plan", plan>>} /\ Ascending(plan)

Serial ==
  Intact /\ OnePlan =>
    \E n \in 0 .. Len(plan), f \in {0, 1} :
      /\ Written(n, f)
      /\ pc \in Running =>
           \E k \in 0 .. Len(plan) : k = (IF pc = "newline" THEN n - 1 ELSE n) /\ KnownTo(k)
      /\ pc = "done" => n = Len(plan)

\* The history of what was asked for holds what the launch was asked for.
AskedFor ==
  /\ asked = {} => plan = <<>>
  /\ asked # {} => <<"plan", plan>> \in asked \/ <<"walk", plan>> \in asked
  /\ walk.stage # "none" => <<"walk", plan>> \in asked

LEMMA AskedStep == TypeInv /\ AskedFor /\ [Next]_vars => AskedFor'
<1> SUFFICES ASSUME TypeInv, AskedFor, [Next]_vars PROVE AskedFor'
  OBVIOUS
<1>1. CASE Launch
  <2>1. CASE walk' = NoWalk /\ <<"plan", plan'>> \in asked'
    BY <2>1 DEF AskedFor, NoWalk
  <2>2. CASE <<"walk", plan'>> \in asked'
    BY <2>2 DEF AskedFor
  <2> QED
    BY <1>1, <2>1, <2>2, LaunchReads
<1>2. CASE WalkPoint \/ WalkAxis \/ WalkCompare
  <2>1. /\ plan' = plan /\ asked' = asked /\ walk.stage # "none"
    BY <1>2 DEF WalkPoint, WalkAxis, WalkCompare, WantsPoint
  <2> QED
    BY <2>1 DEF AskedFor
<1>3. CASE TakeChunk \/ EncodeChunk \/ WriteObject \/ WriteNewline \/ Report \/ Kill
           \/ KillInGap \/ DiskFull \/ UNCHANGED vars
  <2>1. plan' = plan /\ asked' = asked /\ walk' = walk
    BY <1>3 DEF TakeChunk, EncodeChunk, WriteObject, WriteNewline, Report, Kill, KillInGap,
                DiskFull, Die, vars
  <2> QED
    BY <2>1 DEF AskedFor
<1> QED
  BY <1>1, <1>2, <1>3 DEF Next

\* What a launch reads is what was written.
LEMMA WrittenIsRead ==
  ASSUME TypeInv, Intact, NEW n \in 0 .. Len(plan), NEW f \in {0, 1}, Written(n, f)
  PROVE  TunesOf(TrialsIn(log)) = {plan[i] : i \in 1 .. n}
<1>1. LogOK /\ plan \in Seq(Tunes) /\ log \in Seq(Seq(Whole \cup Torn)) /\ Untorn
  BY DEF TypeInv, LogOK, Intact
<1>2. \A i \in 1 .. n : i \in 1 .. Len(plan) /\ plan[i] \in Tunes
  BY <1>1
<1>3. Len(log) = f + n /\ \A i \in 1 .. n : f + i \in 1 .. Len(log)
  BY DEF Written
<1>4. ASSUME NEW a \in TrialsIn(log) PROVE a.tune \in {plan[i] : i \in 1 .. n}
  <2>1. PICK j \in 1 .. Len(log) : log[j][1] = Receipt(a.tune) /\ a.tune \in Tunes
    BY <1>1, ReadIsKept
  <2>2. ~(f = 1 /\ j = 1)
    <3> SUFFICES ASSUME f = 1, j = 1 PROVE FALSE
      OBVIOUS
    <3>1. PICK o \in Others : log[1] = <<o>>
      BY DEF Written
    <3>2. o = Receipt(a.tune)
      BY <2>1, <3>1
    <3> QED
      BY <2>1, <3>2, ObjectFacts
  <2>3. PICK i \in 1 .. n : j = f + i
    <3>1. j - f \in 1 .. n /\ j = f + (j - f)
      BY <1>3, <2>2
    <3> QED
      BY <3>1
  <2>4. Receipt(plan[i]) = Receipt(a.tune)
    BY <2>1, <2>3 DEF Written
  <2>5. plan[i] = a.tune
    BY <1>2, <2>1, <2>4, ObjectFacts
  <2> QED
    BY <2>5
<1>5. ASSUME NEW i \in 1 .. n PROVE plan[i] \in TunesOf(TrialsIn(log))
  <2>1. PICK j \in 1 .. Len(log) : j = f + i
    BY <1>3
  <2>2. log[j] = <<Receipt(plan[i])>>
    BY <2>1 DEF Written
  <2>3. <<j, 1>> \in Places /\ log[j][1] = Receipt(plan[i])
    <3>1. 1 \in 1 .. Len(log[j]) /\ log[j][1] = Receipt(plan[i])
      BY <2>2
    <3>2. <<j, 1>> \in Places
      BY <1>1, <3>1, PlaceFacts DEF Places
    <3> QED
      BY <3>1, <3>2
  <2>4. <<j, 1>> \in Kept(plan[i])
    BY <2>3 DEF Kept
  <2> QED
    BY <1>1, <1>2, <2>4, KeptIsRead
<1> QED
  BY <1>4, <1>5 DEF TunesOf

\* The tune that is receipted next is the next one of the plan.
LEMMA NextIsPlanned ==
  ASSUME TypeInv, Ascending(plan), batch # NoTrials, NEW k \in 0 .. Len(plan), KnownTo(k)
  PROVE  /\ k + 1 \in 1 .. Len(plan) /\ k + 1 <= pos
         /\ NextTune = plan[k + 1] /\ batch[NextTune] = 1
<1>1. plan \in Seq(Tunes) /\ Len(plan) \in Nat /\ batch \in Counts /\ pos \in Nat
  BY DEF TypeInv
<1>2. PICK t \in Tunes : t = NextTune /\ batch[t] > 0
  BY <1>1, NextTuneFacts
<1>3. PICK j \in k + 1 .. Len(plan) : j <= pos /\ plan[j] = t
  BY <1>2 DEF KnownTo
<1>4. k + 1 \in 1 .. Len(plan) /\ k + 1 \in k + 1 .. Len(plan) /\ k + 1 <= pos
  BY <1>1, <1>3
<1>5. batch[t] = 1
  BY <1>2 DEF KnownTo
<1>6. PICK u \in Tunes : u = plan[k + 1] /\ batch[u] = 1
  BY <1>1, <1>4 DEF KnownTo
<1>7. t <= u
  <2>1. PICK S : S = {x \in Tunes : batch[x] > 0}
    OBVIOUS
  <2>2. S \subseteq Nat
    BY <2>1, TunesAssumption
  <2>3. u \in S
    BY <1>6, <2>1
  <2>4. Min(S) <= u
    BY <2>2, <2>3, LeastNat
  <2> QED
    BY <1>2, <2>1, <2>4 DEF NextTune
<1>8. j = k + 1
  <2> SUFFICES ASSUME j # k + 1 PROVE FALSE
    OBVIOUS
  <2>1. j \in 1 .. Len(plan) /\ k + 1 < j
    BY <1>1, <1>3, <1>4
  <2>2. u < t
    BY <1>1, <1>3, <1>4, <1>6, <2>1, AscendingIsSorted
  <2>3. u \in Nat /\ t \in Nat
    BY TunesAssumption
  <2> QED
    BY <1>7, <2>2, <2>3
<1> QED
  BY <1>2, <1>3, <1>4, <1>5, <1>8

LEMMA SerialStep == TypeInv /\ AskedFor /\ Serial /\ [Next]_vars => Serial'
<1> SUFFICES ASSUME TypeInv, AskedFor, Serial, [Next]_vars, Intact', OnePlan'
             PROVE  Serial'
  BY DEF Serial
<1>1. /\ LogOK /\ plan \in Seq(Tunes) /\ Len(plan) \in Nat /\ pos \in Nat /\ batch \in Counts
      /\ \A i \in 1 .. Len(plan) : plan[i] \in Tunes
  BY DEF TypeInv
<1>2. ASSUME log' = log PROVE Intact
  BY <1>2 DEF Intact, Untorn
\* A launch.
<1>3. CASE Launch
  <2>1. /\ log' = log /\ pc' = "plan" /\ pos' = 0
        /\ batch' = NoTrials /\ Intact
    BY <1>2, <1>3 DEF Launch
  <2>2. plan' \in Seq(Tunes) /\ \A t \in Tunes : batch'[t] = 0
    BY <2>1, TypeStep, CountFacts DEF TypeInv
  <2>3. /\ asked \subseteq asked' /\ asked' \subseteq {<<"plan", plan'>>}
    BY <1>3, LaunchReads DEF OnePlan
\* No other log was read, and this one was.
  <2>11. all' = TrialsIn(log) /\ blind = 0
    <3>1. blind' = 0 /\ blind \in Nat
      BY DEF OnePlan, TypeInv
    <3>2. PICK s \in Shards :
            /\ Ask(s)
            /\ \/ all' = TrialsIn(log) \cup Measured(s) /\ blind' = blind
               \/ blind' = blind + 1
      BY <1>3 DEF Launch
    <3>3. s = {}
      <4> SUFFICES ASSUME s # {} PROVE FALSE
        OBVIOUS
      <4>1. <<"memory", s>> \in asked'
        BY <3>2 DEF Ask
      <4>2. <<"memory", s>> = <<"plan", plan'>>
        BY <2>3, <4>1
      <4> QED
        BY <4>2
    <3>4. Measured(s) = {}
      BY <3>3 DEF Measured
    <3>5. blind' # blind + 1
      BY <3>1
    <3> QED
      BY <3>1, <3>2, <3>4, <3>5
  <2>4. asked = {} \/ plan' = plan
    BY <2>3 DEF AskedFor
  <2>5. OnePlan
    <3>1. CASE asked = {}
      <4>1. plan = <<>>
        BY <3>1 DEF AskedFor
      <4> QED
        BY <2>11, <3>1, <4>1 DEF OnePlan, Ascending
    <3>2. CASE plan' = plan
      BY <2>3, <2>11, <3>2 DEF OnePlan
    <3> QED
      BY <2>4, <3>1, <3>2
  <2>6. PICK n \in 0 .. Len(plan), f \in {0, 1} : Written(n, f)
    BY <2>1, <2>5 DEF Serial
  <2>7. Tried' = {plan[i] : i \in 1 .. n}
    BY <2>1, <2>6, <2>11, WrittenIsRead DEF Tried
  <2>8. n \in 0 .. Len(plan') /\ \A i \in 1 .. n : plan'[i] = plan[i]
    <3>1. CASE plan' = plan
      BY <1>1, <3>1
    <3>2. CASE asked = {}
      <4>1. Len(plan) = 0
        BY <3>2 DEF AskedFor
      <4>2. n = 0
        BY <2>6, <4>1
      <4> QED
        BY <2>2, <4>2
    <3> QED
      BY <2>4, <3>1, <3>2
  <2>9. Written(n, f)'
    BY <2>1, <2>6, <2>8 DEF Written
  <2>10. KnownTo(n)'
    <3>1. Tried' = {plan'[i] : i \in 1 .. n}
      BY <2>7, <2>8
    <3>2. \A i \in n + 1 .. Len(plan') : ~(i <= pos')
      BY <2>1, <2>2, <2>8
    <3> QED
      BY <2>2, <3>1, <3>2 DEF KnownTo
  <2> QED
    BY <2>1, <2>8, <2>9, <2>10 DEF Serial
\* No walk.
<1>4. CASE WalkPoint \/ WalkAxis \/ WalkCompare
  <2>1. walk.stage # "none" /\ asked' = asked /\ plan' = plan
    BY <1>4 DEF WalkPoint, WalkAxis, WalkCompare, WantsPoint
  <2>2. <<"walk", plan>> \in asked /\ asked \subseteq {<<"plan", plan>>}
    BY <2>1 DEF AskedFor, OnePlan
  <2> QED
    BY <2>2
<1> SUFFICES ASSUME ~Launch, ~(WalkPoint \/ WalkAxis \/ WalkCompare) PROVE Serial'
  BY <1>3, <1>4
<1>5. plan' = plan /\ asked' = asked /\ OnePlan
  BY DEF OnePlan, Next, TakeChunk, EncodeChunk, WriteObject, WriteNewline, Report, Kill,
         KillInGap, DiskFull, Die, vars
<1>6. ASSUME Intact
      PROVE  \E n \in 0 .. Len(plan), f \in {0, 1} :
               /\ Written(n, f)
               /\ pc \in Running =>
                    \E k \in 0 .. Len(plan) :
                      k = (IF pc = "newline" THEN n - 1 ELSE n) /\ KnownTo(k)
               /\ pc = "done" => n = Len(plan)
  BY <1>5, <1>6 DEF Serial
<1>7. ASSUME NEW n, NEW f, log' = log, Written(n, f) PROVE Written(n, f)'
  BY <1>5, <1>7 DEF Written
\* The next chunk is cut off.
<1>8. CASE TakeChunk
  <2>1. /\ log' = log /\ all' = all /\ pc = "plan" /\ pos' = pos + Jobs /\ batch' = Todo
        /\ pc' \in {"plan", "encode"} /\ pos < Len(plan) /\ batch = NoTrials /\ Intact
    BY <1>2, <1>8 DEF TakeChunk, TypeInv
  <2>2. PICK n \in 0 .. Len(plan), f \in {0, 1} : Written(n, f) /\ KnownTo(n)
    BY <1>6, <2>1 DEF Running
  <2>3. pos <= n
    <3> SUFFICES ASSUME n < pos PROVE FALSE
      BY <1>1
    <3>1. n + 1 \in n + 1 .. Len(plan) /\ n + 1 <= pos /\ plan[n + 1] \in Tunes
      BY <1>1, <2>1
    <3>2. batch[plan[n + 1]] = 1
      BY <2>2, <3>1 DEF KnownTo
    <3> QED
      BY <2>1, <3>1, <3>2, CountFacts
  <2>4. Apart(plan)
    <3> SUFFICES ASSUME NEW i \in 1 .. Len(plan), NEW j \in 1 .. Len(plan), i < j
                 PROVE  plan[i] # plan[j]
      BY DEF Apart
    <3>1. plan[i] < plan[j]
      BY <1>1, <1>5, AscendingIsSorted DEF OnePlan
    <3>2. plan[i] \in Nat
      BY <1>1, TunesAssumption
    <3> QED
      BY <3>1, <3>2
  <2>5. /\ Todo \in Counts
        /\ \A i \in 1 .. Len(plan) :
             pos < i /\ i <= pos + Jobs => plan[i] \in Tried \/ Todo[plan[i]] > 0
        /\ \A t \in Tunes : Todo[t] > 0 =>
             /\ t \notin Tried
             /\ \E i \in 1 .. Len(plan) : pos < i /\ i <= pos + Jobs /\ plan[i] = t
        /\ \A t \in Tunes : Todo[t] <= 1
    BY <1>1, <2>1, <2>4, TodoFacts DEF TypeInv
  <2>6. ASSUME NEW t \in Tunes
        PROVE  Todo[t] = IF \E i \in n + 1 .. Len(plan) : i <= pos + Jobs /\ plan[i] = t
                         THEN 1 ELSE 0
    <3>1. ASSUME NEW i \in n + 1 .. Len(plan), i <= pos + Jobs, plan[i] = t PROVE Todo[t] = 1
      <4>1. i \in 1 .. Len(plan) /\ pos < i
        BY <1>1, <2>3
      <4>2. plan[i] \notin Tried
        <5> SUFFICES ASSUME NEW j \in 1 .. n, plan[j] = plan[i] PROVE FALSE
          BY <2>2 DEF KnownTo
        <5>1. j \in 1 .. Len(plan) /\ j < i
          BY <1>1
        <5>2. plan[j] < plan[i] /\ plan[j] \in Tunes
          BY <1>1, <1>5, <4>1, <5>1, AscendingIsSorted DEF OnePlan
        <5>3. plan[j] \in Nat
          BY <5>2, TunesAssumption
        <5> QED
          BY <5>2, <5>3
      <4>3. Todo[t] > 0
        BY <2>5, <3>1, <4>1, <4>2
      <4> QED
        BY <2>5, <4>3 DEF Counts
    <3>2. ASSUME Todo[t] # 0
          PROVE  \E i \in n + 1 .. Len(plan) : i <= pos + Jobs /\ plan[i] = t
      <4>1. Todo[t] > 0
        BY <2>5, <3>2 DEF Counts
      <4>2. PICK i \in 1 .. Len(plan) : pos < i /\ i <= pos + Jobs /\ plan[i] = t
        BY <2>5, <4>1
      <4>3. i \notin 1 .. n
        BY <2>2, <2>5, <4>1, <4>2 DEF KnownTo
      <4>4. i \in n + 1 .. Len(plan)
        BY <1>1, <4>3
      <4> QED
        BY <4>2, <4>4
    <3> QED
      BY <3>1, <3>2
  <2>7. KnownTo(n)'
    BY <1>5, <2>1, <2>2, <2>6 DEF KnownTo, Tried
  <2>8. Written(n, f)'
    BY <1>7, <2>1, <2>2
  <2> QED
    BY <1>5, <2>1, <2>7, <2>8 DEF Serial
<1>9. CASE EncodeChunk
  <2>1. /\ log' = log /\ all' = all /\ pc = "encode" /\ pc' = "write" /\ pos' = pos
        /\ batch' = batch /\ Intact
    BY <1>2, <1>9 DEF EncodeChunk
  <2>2. PICK n \in 0 .. Len(plan), f \in {0, 1} : Written(n, f) /\ KnownTo(n)
    BY <1>6, <2>1 DEF Running
  <2>3. KnownTo(n)' /\ Written(n, f)'
    BY <1>5, <1>7, <2>1, <2>2 DEF KnownTo, Tried
  <2> QED
    BY <1>5, <2>1, <2>3 DEF Serial
\* An object is written.
<1>10. CASE WriteObject
  <2>1. NextTune \in Tunes
    BY <1>10, NextTuneFacts DEF WriteObject, TypeInv
  <2>2. Receipt(NextTune) \in Whole
    BY <2>1 DEF Whole
  <2>3. /\ all' = all /\ pc = "write" /\ pc' = "newline" /\ pos' = pos /\ batch' = batch
        /\ AddObject(Receipt(NextTune)) /\ open' /\ batch # NoTrials
    BY <1>10 DEF WriteObject, TypeInv
  <2>4. Intact
    BY <1>1, <2>2, <2>3, IntactBefore
  <2>5. log' = Append(log, <<Receipt(NextTune)>>)
    BY <1>1, <2>2, <2>3, AddedObject
  <2>6. PICK n \in 0 .. Len(plan), f \in {0, 1} : Written(n, f) /\ KnownTo(n)
    BY <1>6, <2>3, <2>4 DEF Running
  <2>7. n + 1 \in 1 .. Len(plan) /\ NextTune = plan[n + 1]
    BY <1>5, <2>3, <2>6, NextIsPlanned DEF OnePlan
  <2>8. KnownTo(n)'
    BY <1>5, <2>3, <2>6 DEF KnownTo, Tried
  <2>9. Written(n + 1, f)'
    <3>1. PICK m \in Nat : m = f + n /\ m = Len(log)
      BY <1>1, <2>6 DEF Written
    <3>8. log \in Seq(Seq(Whole \cup Torn))
      BY <1>1 DEF LogOK, TypeInv
    <3>9. <<Receipt(NextTune)>> \in Seq(Whole \cup Torn)
      <4>1. PICK o \in Whole \cup Torn : o = Receipt(NextTune)
        BY <2>2
      <4> QED
        BY <4>1
    <3>2. PICK X : log \in Seq(X) /\ <<Receipt(NextTune)>> \in X
      BY <3>8, <3>9
    <3>3. /\ Len(log') = m + 1 /\ log'[m + 1] = <<Receipt(NextTune)>>
          /\ \A i \in 1 .. m : log'[i] = log[i]
      BY <2>5, <3>1, <3>2, AppendProperties
    <3>4. Len(log') = f + (n + 1)
      BY <3>1, <3>3
    <3>5. f = 1 => 1 \in 1 .. m
      BY <3>1
    <3>6. ASSUME NEW i \in 1 .. n + 1 PROVE log'[f + i] = <<Receipt(plan[i])>>
      <4>1. CASE i = n + 1
        BY <2>7, <3>1, <3>3, <4>1
      <4>2. CASE i # n + 1
        <5>1. i \in 1 .. n /\ f + i \in 1 .. m
          BY <3>1, <4>2
        <5> QED
          BY <2>6, <3>3, <5>1 DEF Written
      <4> QED
        BY <4>1, <4>2
    <3> QED
      BY <1>5, <2>6, <3>3, <3>4, <3>5, <3>6 DEF Written
  <2>10. n + 1 \in 0 .. Len(plan) /\ (n + 1) - 1 = n
    BY <1>1, <2>7
  <2> QED
    BY <1>5, <2>3, <2>8, <2>9, <2>10 DEF Serial
\* A receipt is complete.
<1>11. CASE WriteNewline
  <2>1. /\ log' = log /\ pc = "newline" /\ pos' = pos /\ batch' = Rest /\ batch # NoTrials
        /\ pc' \in {"plan", "write"} /\ Intact
        /\ all' = all \cup {[tune |-> NextTune, bytes |-> Cost[NextTune]]}
    BY <1>2, <1>11 DEF WriteNewline, TypeInv
  <2>2. PICK n \in 0 .. Len(plan), f \in {0, 1}, k \in 0 .. Len(plan) :
          Written(n, f) /\ k = n - 1 /\ KnownTo(k)
    BY <1>6, <2>1 DEF Running
  <2>3. /\ n \in 1 .. Len(plan) /\ NextTune = plan[n] /\ batch[NextTune] = 1 /\ k + 1 = n
    <3>1. k + 1 = n
      BY <2>2
    <3> QED
      BY <1>5, <2>1, <2>2, <3>1, NextIsPlanned DEF OnePlan
  <2>4. PICK t \in Tunes : /\ t = plan[n] /\ Rest[t] = 0
                           /\ \A u \in Tunes : u # t => Rest[u] = batch[u]
    BY <1>1, <2>1, <2>3, NextTuneFacts DEF TypeInv
  <2>5. Tried' = {plan[i] : i \in 1 .. n}
    <3>1. PICK a : a = [tune |-> t, bytes |-> Cost[t]]
      OBVIOUS
    <3>2. all' = all \cup {a} /\ a.tune = t
      BY <2>1, <2>3, <2>4, <3>1
    <3>3. Tried' = Tried \cup {t}
      BY <3>2 DEF Tried, TunesOf
    <3>4. Tried = {plan[i] : i \in 1 .. k}
      BY <2>2 DEF KnownTo
    <3>5. \A i \in 1 .. n : i \in 1 .. k \/ i = n
      BY <2>3
    <3>6. \A i \in 1 .. k : i \in 1 .. n
      BY <2>3
    <3>7. n \in 1 .. n
      BY <2>3
    <3> QED
      BY <2>4, <3>3, <3>4, <3>5, <3>6, <3>7
  <2>6. ASSUME NEW u \in Tunes
        PROVE  Rest[u] = IF \E i \in n + 1 .. Len(plan) : i <= pos /\ plan[i] = u THEN 1 ELSE 0
    <3>1. CASE u = t
      <4>1. ASSUME NEW i \in n + 1 .. Len(plan), plan[i] = u PROVE FALSE
        <5>1. i \in 1 .. Len(plan) /\ n < i
          BY <1>1
        <5>2. plan[n] < plan[i] /\ plan[n] \in Tunes
          BY <1>1, <1>5, <2>3, <5>1, AscendingIsSorted DEF OnePlan
        <5>3. plan[n] \in Nat
          BY <5>2, TunesAssumption
        <5> QED
          BY <2>4, <3>1, <4>1, <5>2, <5>3
      <4> QED
        BY <2>4, <3>1, <4>1
    <3>2. CASE u # t
      <4>1. Rest[u] = IF \E i \in n .. Len(plan) : i <= pos /\ plan[i] = u THEN 1 ELSE 0
        BY <2>2, <2>3, <2>4, <3>2 DEF KnownTo
      <4>2. \A i \in n .. Len(plan) : plan[i] = u => i \in n + 1 .. Len(plan)
        BY <2>3, <2>4, <3>2
      <4>3. \A i \in n + 1 .. Len(plan) : i \in n .. Len(plan)
        BY <2>3
      <4> QED
        BY <4>1, <4>2, <4>3
    <3> QED
      BY <3>1, <3>2
  <2>7. KnownTo(n)'
    BY <1>5, <2>1, <2>5, <2>6 DEF KnownTo
  <2>8. Written(n, f)'
    BY <1>7, <2>1, <2>2
  <2> QED
    BY <1>5, <2>1, <2>7, <2>8 DEF Serial
\* The end of a launch.
<1>12. CASE Report
  <2>1. /\ log' = log /\ pc = "plan" /\ pc' = "done" /\ pos >= Len(plan)
        /\ batch = NoTrials /\ Intact
    BY <1>2, <1>12 DEF Report, TypeInv
  <2>2. PICK n \in 0 .. Len(plan), f \in {0, 1} : Written(n, f) /\ KnownTo(n)
    BY <1>6, <2>1 DEF Running
  <2>3. n = Len(plan)
    <3> SUFFICES ASSUME n < Len(plan) PROVE FALSE
      BY <1>1
    <3>1. n + 1 \in n + 1 .. Len(plan) /\ n + 1 <= pos /\ plan[n + 1] \in Tunes
      BY <1>1, <2>1
    <3>2. batch[plan[n + 1]] = 1
      BY <2>2, <3>1 DEF KnownTo
    <3> QED
      BY <2>1, <3>1, <3>2, CountFacts
  <2>4. Written(n, f)'
    BY <1>7, <2>1, <2>2
  <2> QED
    BY <1>5, <2>1, <2>3, <2>4 DEF Serial, Running
<1>13. CASE Kill \/ KillInGap
  <2>1. log' = log /\ pc' = "off" /\ Intact
    BY <1>2, <1>13 DEF Kill, KillInGap, Die
  <2>2. PICK n \in 0 .. Len(plan), f \in {0, 1} : Written(n, f)
    BY <1>6, <2>1
  <2>3. Written(n, f)'
    BY <1>7, <2>1, <2>2
  <2> QED
    BY <1>5, <2>1, <2>3 DEF Serial, Running
<1>14. CASE DiskFull
  <2>1. NextTune \in Tunes
    BY <1>14, NextTuneFacts DEF DiskFull, TypeInv
  <2>2. PICK cut \in CutShort(Receipt(NextTune)) : AddObject(cut)
    BY <1>14 DEF DiskFull
  <2>3. cut \in Torn /\ open'
    BY <1>14, <2>1, CutsAreTorn DEF DiskFull
  <2>4. cut \in Whole
    BY <1>1, <2>2, <2>3, IntactBefore
  <2> QED
    BY <2>3, <2>4, ObjectFacts
<1>15. CASE UNCHANGED vars
  <2>1. /\ pc' = pc /\ plan' = plan /\ log' = log /\ all' = all /\ pos' = pos
        /\ batch' = batch /\ asked' = asked
    BY <1>15 DEF vars
  <2>2. Intact
    BY <1>2, <2>1
  <2>3. PICK n \in 0 .. Len(plan), f \in {0, 1} :
          /\ Written(n, f)
          /\ pc \in Running =>
               \E k \in 0 .. Len(plan) : k = (IF pc = "newline" THEN n - 1 ELSE n) /\ KnownTo(k)
          /\ pc = "done" => n = Len(plan)
    BY <1>6, <2>2
  <2>4. Written(n, f)'
    BY <1>7, <2>1, <2>3
  <2>5. \A k : KnownTo(k) => KnownTo(k)'
    BY <2>1 DEF KnownTo, Tried
  <2> QED
    BY <1>5, <2>1, <2>3, <2>4, <2>5 DEF Serial
<1> QED
  BY <1>8, <1>9, <1>10, <1>11, <1>12, <1>13, <1>14, <1>15 DEF Next

LEMMA SerialInit == Init => AskedFor /\ Serial
<1> SUFFICES ASSUME Init PROVE AskedFor /\ Serial
  OBVIOUS
<1>1. plan = <<>> /\ asked = {} /\ blind = 0 /\ pc = "off" /\ walk = NoWalk
  BY DEF Init
<1>2. AskedFor
  BY <1>1 DEF AskedFor, NoWalk
<1>3. PICK f \in {0, 1} : Len(log) = f /\ (f = 1 => \E o \in Others : log[1] = <<o>>)
  <2>1. CASE log = <<>>
    <3>1. Len(log) = 0
      BY <2>1
    <3> QED
      BY <3>1
  <2>2. CASE \E t \in Logged : \E o \in Foreign(t) : log = << <<o>> >>
    <3>1. PICK o \in Others : log = << <<o>> >>
      BY <2>2, LoggedAssumption DEF Others
    <3>2. Len(log) = 1 /\ log[1] = <<o>>
      BY <3>1
    <3> QED
      BY <3>2
  <2> QED
    BY <2>1, <2>2 DEF Init
<1>4. Written(0, f)
  BY <1>3 DEF Written
<1>5. 0 \in 0 .. Len(plan)
  BY <1>1
<1> QED
  BY <1>1, <1>2, <1>4, <1>5 DEF Serial, Running

\* A line of one whole object.
LEMMA OneIsRead ==
  ASSUME NEW o \in Whole
  PROVE  /\ Field(<<o>>, "corpus") = o.corpus /\ Field(<<o>>, "method") = o.method
         /\ Field(<<o>>, "tune") = o.tune
<1>1. PICK line : line = <<o>>
  OBVIOUS
<1>2. line \in Seq(Whole) /\ Len(line) >= 1 /\ line[1] = o
  BY <1>1
<1> QED
  BY <1>1, <1>2, FirstIsRead

\* The lines of this campaign are the receipts of the plan.
LEMMA WrittenIsOwn ==
  ASSUME TypeInv, NEW n \in 0 .. Len(plan), NEW f \in {0, 1}, Written(n, f)
  PROVE  /\ Len(OwnLines) = n
         /\ \A i \in 1 .. n : OwnLines[i] = <<Receipt(plan[i])>>
<1>1. PICK L : plan \in Seq(Tunes) /\ log \in Seq(L) /\ L = Seq(Whole \cup Torn)
  BY DEF TypeInv, LogOK
<1>2. PICK m \in Nat : m = Len(log) /\ m = f + n /\ n \in Nat
  BY <1>1 DEF Written
<1>3. PICK r : /\ r[0] = <<>> /\ r[m] = OwnLines
               /\ \A k \in 1 .. m : r[k] = OwnNext(r[k - 1], log[k])
  BY <1>1, <1>2, OwnLinesFold
<1>4. \A k \in 1 .. m : log[k] \in L
  <2>1. log \in Seq(L)
    BY <1>1
  <2>2. \A k \in 1 .. Len(log) : log[k] \in L
    BY <2>1
  <2> QED
    BY <1>2, <2>2
\* The line of another corpus or method is passed over, the others are taken.
<1>5. ASSUME NEW k \in 1 .. m, k > f PROVE IsOwn(log[k])
  <2>1. k - f \in 1 .. n /\ f + (k - f) = k
    BY <1>2, <1>5
  <2>2. PICK i \in 1 .. n : f + i = k
    BY <2>1
  <2>3. log[k] = <<Receipt(plan[i])>>
    BY <2>2 DEF Written
  <2>4. i \in 1 .. Len(plan) /\ plan[i] \in Tunes
    BY <1>1, <2>2
  <2>5. PICK o \in Whole : o = Receipt(plan[i]) /\ o.corpus = Here /\ o.method = Here
    BY <2>4, ObjectFacts DEF Whole
  <2> QED
    BY <2>3, <2>5, OneIsRead DEF IsOwn
<1>6. ASSUME NEW k \in 1 .. m, k <= f PROVE ~IsOwn(log[k])
  <2>1. f = 1 /\ k = 1
    BY <1>6
  <2>2. PICK o \in Others : log[1] = <<o>>
    BY <2>1 DEF Written
  <2>3. o \in Whole /\ ~(o.corpus = Here /\ o.method = Here)
    BY ObjectFacts DEF Whole
  <2> QED
    BY <2>1, <2>2, <2>3, OneIsRead DEF IsOwn
<1> DEFINE S == {k \in Nat : /\ r[k] \in Seq(L)
                             /\ Len(r[k]) = IF k <= f THEN 0 ELSE k - f
                             /\ \A i \in 1 .. Len(r[k]) : r[k][i] = log[f + i]}
<1>7. 0 \in S
  <2>1. r[0] \in Seq(L) /\ Len(r[0]) = 0
    BY <1>3
  <2> QED
    BY <2>1
<1>8. ASSUME NEW k \in Nat, k < m, k \in S PROVE k + 1 \in S
  <2>1. k + 1 \in 1 .. m /\ (k + 1) - 1 = k /\ k + 1 \in Nat
    BY <1>2, <1>8
  <2>2. r[k + 1] = OwnNext(r[k], log[k + 1])
    BY <1>3, <2>1
  <2>3. CASE k + 1 <= f
    <3>1. r[k + 1] = r[k]
      BY <1>6, <2>1, <2>2, <2>3 DEF OwnNext
    <3>2. k <= f
      BY <2>3
    <3> QED
      BY <1>8, <2>1, <2>3, <3>1, <3>2
  <2>4. CASE ~(k + 1 <= f)
    <3>1. r[k + 1] = Append(r[k], log[k + 1])
      BY <1>5, <2>1, <2>2, <2>4 DEF OwnNext
    <3>2. PICK c \in Nat : c = Len(r[k]) /\ f + c = k
      <4>1. PICK a : a = Len(r[k]) /\ a = IF k <= f THEN 0 ELSE k - f
        BY <1>8
      <4>2. a \in Nat /\ f + a = k
        BY <2>4, <4>1
      <4> QED
        BY <4>1, <4>2
    <3>3. log[k + 1] \in L
      BY <1>4, <2>1
    <3>4. /\ r[k + 1] \in Seq(L) /\ Len(r[k + 1]) = c + 1
          /\ r[k + 1][c + 1] = log[k + 1]
          /\ \A i \in 1 .. c : r[k + 1][i] = r[k][i]
      BY <1>8, <3>1, <3>2, <3>3, AppendProperties
    <3>5. ASSUME NEW i \in 1 .. c + 1 PROVE r[k + 1][i] = log[f + i]
      <4>1. CASE i = c + 1
        <5>1. f + i = k + 1
          BY <3>2, <4>1
        <5> QED
          BY <3>4, <4>1, <5>1
      <4>2. CASE i # c + 1
        <5>1. i \in 1 .. c
          BY <3>2, <4>2
        <5> QED
          BY <1>8, <3>2, <3>4, <5>1
      <4> QED
        BY <4>1, <4>2
    <3>6. Len(r[k + 1]) = IF k + 1 <= f THEN 0 ELSE (k + 1) - f
      <4>1. c + 1 = (k + 1) - f
        BY <3>2
      <4> QED
        BY <2>4, <3>4, <4>1
    <3> QED
      BY <2>1, <3>4, <3>5, <3>6
  <2> QED
    BY <2>3, <2>4
<1>9. m \in S
  <2>1. \A k \in 0 .. m : k \in S
    <3> HIDE DEF S
    <3> QED
      BY <1>2, <1>7, <1>8, UpTo
  <2>2. m \in 0 .. m
    BY <1>2
  <2> QED
    BY <2>1, <2>2
<1>10. Len(OwnLines) = n
  BY <1>2, <1>3, <1>9
<1>11. ASSUME NEW i \in 1 .. n PROVE OwnLines[i] = <<Receipt(plan[i])>>
  <2>1. OwnLines[i] = log[f + i]
    BY <1>3, <1>9, <1>10
  <2> QED
    BY <2>1 DEF Written
<1> QED
  BY <1>10, <1>11

LEMMA SerialIsLogSerial == TypeInv /\ Serial => LogIsSerial
<1> SUFFICES ASSUME TypeInv, Serial, Intact, blind = 0,
                    asked = {<<"plan", plan>>}, Ascending(plan)
             PROVE  LET order == [i \in 1 .. Len(OwnLines) |-> Field(OwnLines[i], "tune")]
                    IN  /\ IsPrefix(order, SerialOrder(plan))
                        /\ pc = "done" => order = SerialOrder(plan)
  BY DEF LogIsSerial
<1>1. PICK n \in 0 .. Len(plan), f \in {0, 1} : Written(n, f) /\ (pc = "done" => n = Len(plan))
  BY DEF Serial, OnePlan
<1>2. plan \in Seq(Tunes) /\ SerialOrder(plan) = plan
  BY AscendingIsSerial DEF TypeInv
<1>3. n \in Nat /\ n <= Len(plan) /\ Len(plan) \in Nat
  BY <1>2
<1>4. Len(OwnLines) = n /\ \A i \in 1 .. n : OwnLines[i] = <<Receipt(plan[i])>>
  BY <1>1, WrittenIsOwn
<1>5. PICK order : order = [i \in 1 .. n |-> Field(OwnLines[i], "tune")]
  OBVIOUS
<1>6. ASSUME NEW i \in 1 .. n PROVE order[i] = plan[i] /\ plan[i] \in Tunes
  <2>1. plan[i] \in Tunes
    BY <1>2, <1>3
  <2>2. PICK o \in Whole : o = Receipt(plan[i]) /\ o.tune = plan[i]
    BY <2>1, ObjectFacts DEF Whole
  <2>3. order[i] = Field(<<o>>, "tune")
    BY <1>4, <1>5, <2>2
  <2> QED
    BY <2>1, <2>2, <2>3, OneIsRead
<1>7. order \in Seq(Tunes) /\ Len(order) = n
  BY <1>3, <1>5, <1>6
<1>8. IsPrefix(order, plan)
  <2>1. PICK s, t : s = SubSeq(order, 1, n) /\ t = SubSeq(plan, 1, n)
    OBVIOUS
  <2>2. \A i \in 1 .. n : order[i] \in Tunes /\ plan[i] \in Tunes
    BY <1>6
  <2>3. n - 1 + 1 = n /\ \A i \in 1 .. n : 1 + i - 1 = i
    BY <1>3
  <2>4. /\ s \in Seq(Tunes) /\ Len(s) = IF 1 <= n THEN n - 1 + 1 ELSE 0
        /\ \A i \in 1 .. n - 1 + 1 : s[i] = order[1 + i - 1]
    BY <1>3, <2>1, <2>2, SubSeqProperties
  <2>5. /\ t \in Seq(Tunes) /\ Len(t) = IF 1 <= n THEN n - 1 + 1 ELSE 0
        /\ \A i \in 1 .. n - 1 + 1 : t[i] = plan[1 + i - 1]
    BY <1>3, <2>1, <2>2, SubSeqProperties
  <2>6. Len(s) = n /\ Len(t) = n
    BY <1>3, <2>4, <2>5
  <2>7. \A i \in 1 .. n : s[i] = t[i]
    BY <1>6, <2>3, <2>4, <2>5
  <2>8. s = t
    BY <2>4, <2>5, <2>6, <2>7
  <2> QED
    BY <1>3, <1>7, <2>1, <2>8 DEF IsPrefix
<1>9. ASSUME n = Len(plan) PROVE order = plan
  BY <1>2, <1>6, <1>7, <1>9
<1> QED
  BY <1>1, <1>2, <1>4, <1>5, <1>8, <1>9

\* Interrupted or not, and whatever the number of jobs, a campaign for one
\* ascending plan writes the log of a serial one (zentropy.rs:1414-1416).
THEOREM LogsAreSerial == Spec => []LogIsSerial
<1>1. Init => TypeInv /\ AskedFor /\ Serial
  BY TypeInit, SerialInit
<1>2. TypeInv /\ AskedFor /\ Serial /\ [Next]_vars => (TypeInv /\ AskedFor /\ Serial)'
  BY TypeStep, AskedStep, SerialStep
<1>3. TypeInv /\ AskedFor /\ Serial => LogIsSerial
  BY SerialIsLogSerial
<1> QED
  BY <1>1, <1>2, <1>3, PTL DEF Spec
=============================================================================
