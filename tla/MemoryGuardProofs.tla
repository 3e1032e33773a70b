-------------------------- MODULE MemoryGuardProofs -------------------------
(***************************************************************************)
(* What the memory guards promise, for any number of runs and any machine: *)
(* a run that has the machine to itself drives nothing into swap and       *)
(* leaves the reserve alone, and a run the floor gives up found memory     *)
(* short, or misread it, at every look for as long as was promised.        *)
(***************************************************************************)
EXTENDS MemoryGuard, FiniteSetTheorems, WellFoundedInduction, TLAPS

-----------------------------------------------------------------------------
(* Sums over a finite set: what MapThenSumSet computes of u.               *)
Sum(u, S) == MapThenSumSet(LAMBDA r : u[r], S)

Pick(s) == CHOOSE x \in s : TRUE

\* g sums u over the sets of D, element by element.
Sums(g, D, u) ==
  g = [s \in D |-> IF s = {} THEN 0 ELSE u[Pick(s)] + g[s \ {Pick(s)}]]

LEMMA LeastNumber ==
  ASSUME NEW B, B \subseteq Nat, B # {}
  PROVE  \E n \in B : \A m \in B : n <= m
<1>1. PICK R : R = OpToRel(<, Nat)
  OBVIOUS
<1>2. IsWellFoundedOn(R, Nat)
  BY <1>1, NatLessThanWellFounded
<1>3. PICK n \in B : \A m \in B : <<m, n>> \notin R
  BY <1>2, WFMin
<1>4. \A m \in B : ~(m < n)
  <2> TAKE m \in B
  <2>1. <<m, n>> \notin {p \in Nat \X Nat : p[1] < p[2]}
    BY <1>1, <1>3 DEF OpToRel
  <2>2. <<m, n>> \in Nat \X Nat
    OBVIOUS
  <2>3. ~(<<m, n>>[1] < <<m, n>>[2])
    BY <2>1, <2>2
  <2> QED
    BY <2>3
<1> QED
  BY <1>4

\* Taking the picked element away leaves a smaller set.
LEMMA PickLeaves ==
  ASSUME NEW S, IsFiniteSet(S), NEW s \in SUBSET S, s # {}
  PROVE  /\ Pick(s) \in s /\ s \ {Pick(s)} \in SUBSET S
         /\ Cardinality(s) \in Nat \ {0}
         /\ Cardinality(s \ {Pick(s)}) = Cardinality(s) - 1
<1>1. Pick(s) \in s
  BY DEF Pick
<1>2. IsFiniteSet(s)
  BY FS_Subset
<1>3. Cardinality(s) \in Nat /\ Cardinality(s) # 0
  BY <1>2, FS_CardinalityType, FS_EmptySet
<1>4. Cardinality(s \ {Pick(s)}) = Cardinality(s) - 1
  BY <1>1, <1>2, FS_RemoveElement
<1> QED
  BY <1>1, <1>3, <1>4

\* A function that sums exists: the subsets are summed in the order of their sizes.
LEMMA SumsExist ==
  ASSUME NEW S, IsFiniteSet(S), NEW u \in [S -> Nat]
  PROVE  \E g \in [SUBSET S -> Nat] : Sums(g, SUBSET S, u)
<1> DEFINE Small(n) == {s \in SUBSET S : Cardinality(s) <= n}
           Summed(n) == \E g \in [Small(n) -> Nat] : Sums(g, Small(n), u)
           Bad == {n \in Nat : ~Summed(n)}
<1>1. \A s \in SUBSET S : IsFiniteSet(s) /\ Cardinality(s) \in Nat
  BY FS_Subset, FS_CardinalityType
<1>2. Summed(0)
  <2>1. \A s \in Small(0) : s = {}
    BY <1>1, FS_EmptySet
  <2>2. PICK g : g = [s \in Small(0) |-> 0]
    OBVIOUS
  <2>3. g = [s \in Small(0) |-> IF s = {} THEN 0 ELSE u[Pick(s)] + g[s \ {Pick(s)}]]
    BY <2>1, <2>2
  <2> QED
    BY <2>2, <2>3 DEF Sums
<1>3. ASSUME NEW n \in Nat, Summed(n) PROVE Summed(n + 1)
  <2>1. PICK g \in [Small(n) -> Nat] : Sums(g, Small(n), u)
    BY <1>3
  <2>2. PICK h : h = [s \in Small(n + 1) |->
                        IF s = {} THEN 0 ELSE u[Pick(s)] + g[s \ {Pick(s)}]]
    OBVIOUS
  <2>3. ASSUME NEW s \in Small(n + 1), s # {}
        PROVE  Pick(s) \in S /\ s \ {Pick(s)} \in Small(n)
    BY <2>3, <1>1, PickLeaves
  <2>4. h \in [Small(n + 1) -> Nat]
    <3>1. \A s \in Small(n + 1) :
            (IF s = {} THEN 0 ELSE u[Pick(s)] + g[s \ {Pick(s)}]) \in Nat
      BY <2>1, <2>3
    <3> QED
      BY <2>2, <3>1
  <2>5. \A s \in Small(n) : h[s] = g[s]
    <3>1. Small(n) \subseteq Small(n + 1)
      BY <1>1
    <3>2. \A s \in Small(n) :
            g[s] = IF s = {} THEN 0 ELSE u[Pick(s)] + g[s \ {Pick(s)}]
      BY <2>1 DEF Sums
    <3> HIDE DEF Small
    <3> QED
      BY <2>2, <3>1, <3>2
  <2>6. h = [s \in Small(n + 1) |->
               IF s = {} THEN 0 ELSE u[Pick(s)] + h[s \ {Pick(s)}]]
    <3> HIDE DEF Small
    <3> QED
      BY <2>2, <2>3, <2>5
  <2> QED
    BY <2>4, <2>6 DEF Sums
<1>4. Bad = {}
  <2> HIDE DEF Summed
  <2> SUFFICES ASSUME Bad # {} PROVE FALSE
    OBVIOUS
  <2>1. \E k \in Bad : \A m \in Bad : k <= m
    <3>1. Bad \subseteq Nat
      OBVIOUS
    <3> QED
      BY <3>1, LeastNumber
  <2>2. PICK k \in Nat : ~Summed(k) /\ \A m \in Bad : k <= m
    BY <2>1
  <2>3. PICK p \in Nat : k = p + 1
    BY <2>2, <1>2
  <2>4. p \notin Bad
    BY <2>2, <2>3
  <2>5. Summed(p)
    BY <2>4
  <2>6. Summed(p + 1)
    BY <1>3, <2>5
  <2> QED
    BY <2>2, <2>3, <2>6
<1>5. PICK c \in Nat : c = Cardinality(S)
  BY FS_CardinalityType
<1>6. Small(c) = SUBSET S
  BY <1>1, <1>5, FS_Subset
<1>7. Summed(c)
  BY <1>4
<1> QED
  BY <1>6, <1>7

\* So Sum is a sum: it adds up element by element.
LEMMA SumAdds ==
  ASSUME NEW S, IsFiniteSet(S), NEW u \in [S -> Nat]
  PROVE  \E g \in [SUBSET S -> Nat] : Sums(g, SUBSET S, u) /\ Sum(u, S) = g[S]
<1>1. PICK g : g = CHOOSE f : Sums(f, SUBSET S, u)
  OBVIOUS
<1>2. Sums(g, SUBSET S, u)
  BY <1>1, SumsExist
<1>3. Sum(u, S) = g[S]
  BY <1>1 DEF Sum, Sums, Pick, MapThenSumSet, MapThenFoldSet
<1> DEFINE Bad == {n \in Nat : \E s \in SUBSET S : Cardinality(s) = n /\ g[s] \notin Nat}
<1>4. \A s \in SUBSET S : g[s] = IF s = {} THEN 0 ELSE u[Pick(s)] + g[s \ {Pick(s)}]
  BY <1>2 DEF Sums
<1>5. Bad = {}
  <2> SUFFICES ASSUME Bad # {} PROVE FALSE
    OBVIOUS
  <2>1. \E k \in Bad : \A m \in Bad : k <= m
    <3>1. Bad \subseteq Nat
      OBVIOUS
    <3> HIDE DEF Bad
    <3> QED
      BY <3>1, LeastNumber
  <2>2. PICK k \in Nat, s \in SUBSET S :
          Cardinality(s) = k /\ g[s] \notin Nat /\ \A m \in Bad : k <= m
    BY <2>1
  <2>3. s # {}
    <3>1. g[s] = IF s = {} THEN 0 ELSE u[Pick(s)] + g[s \ {Pick(s)}]
      BY <1>4
    <3>2. g[s] \notin Nat
      BY <2>2
    <3> QED
      BY <3>1, <3>2
  <2>4. /\ Pick(s) \in S /\ s \ {Pick(s)} \in SUBSET S
        /\ k - 1 \in Nat /\ Cardinality(s \ {Pick(s)}) = k - 1
    BY <2>2, <2>3, PickLeaves
  <2>5. k - 1 \notin Bad
    BY <2>2, <2>4
  <2>6. g[s \ {Pick(s)}] \in Nat
    BY <2>4, <2>5
  <2>7. g[s] = u[Pick(s)] + g[s \ {Pick(s)}]
    BY <1>4, <2>3
  <2>8. u[Pick(s)] \in Nat
    BY <2>4
  <2>9. g[s] \notin Nat
    BY <2>2
  <2> QED
    BY <2>6, <2>7, <2>8, <2>9
<1>6. \A s \in SUBSET S : g[s] \in Nat
  BY <1>5, FS_Subset, FS_CardinalityType
<1>7. g \in [SUBSET S -> Nat]
  BY <1>2, <1>6 DEF Sums
<1> QED
  BY <1>2, <1>3, <1>7

\* The sum of a function that is zero but for one place.
LEMMA SumOfOne ==
  ASSUME NEW S, IsFiniteSet(S), NEW u \in [S -> Nat], NEW q \in S,
         \A r \in S \ {q} : u[r] = 0
  PROVE  Sum(u, S) = u[q]
<1>1. PICK g \in [SUBSET S -> Nat] : Sums(g, SUBSET S, u) /\ Sum(u, S) = g[S]
  BY SumAdds
<1> DEFINE Right(s) == g[s] = IF q \in s THEN u[q] ELSE 0
           Bad == {n \in Nat : \E s \in SUBSET S : Cardinality(s) = n /\ ~Right(s)}
<1>4. \A s \in SUBSET S : g[s] = IF s = {} THEN 0 ELSE u[Pick(s)] + g[s \ {Pick(s)}]
  BY <1>1 DEF Sums
<1>5. Bad = {}
  <2> SUFFICES ASSUME Bad # {} PROVE FALSE
    OBVIOUS
  <2>1. \E k \in Bad : \A m \in Bad : k <= m
    <3>1. Bad \subseteq Nat
      OBVIOUS
    <3> HIDE DEF Bad
    <3> QED
      BY <3>1, LeastNumber
  <2>2. PICK k \in Nat, s \in SUBSET S :
          Cardinality(s) = k /\ ~Right(s) /\ \A m \in Bad : k <= m
    BY <2>1
  <2>3. s # {}
    BY <1>4, <2>2
  <2>4. /\ Pick(s) \in s /\ Pick(s) \in S /\ s \ {Pick(s)} \in SUBSET S
        /\ k - 1 \in Nat /\ Cardinality(s \ {Pick(s)}) = k - 1
    BY <2>2, <2>3, PickLeaves
  <2>5. k - 1 \notin Bad
    BY <2>2, <2>4
  <2>6. Right(s \ {Pick(s)})
    BY <2>4, <2>5
  <2>7. g[s] = u[Pick(s)] + g[s \ {Pick(s)}]
    BY <1>4, <2>3
  <2>8. u[q] \in Nat
    OBVIOUS
  <2>9. CASE Pick(s) = q
    BY <2>2, <2>4, <2>6, <2>7, <2>8, <2>9
  <2>10. CASE Pick(s) # q
    BY <2>2, <2>4, <2>6, <2>7, <2>8, <2>10
  <2> QED
    BY <2>9, <2>10
<1>6. Right(S)
  <2>1. Cardinality(S) \in Nat /\ Cardinality(S) \notin Bad
    BY <1>5, FS_CardinalityType
  <2> QED
    BY <2>1
<1> QED
  BY <1>1, <1>6

-----------------------------------------------------------------------------
(* Memory in use. *)

PCs == Active \cup {"idle", "refused", "done", "aborted"}

TypeInv ==
  /\ pc \in [Runs -> PCs]
  /\ used \in [Runs -> Nat]
  /\ coded \in [Runs -> Nat]
  /\ waited \in [Runs -> Nat]
  /\ other \in Nat
  /\ short \in [Runs -> Nat]
  /\ misread \in [Runs -> Nat]
  /\ alone \subseteq Runs

\* A run has at most what it projected, and only while it is active.
WithinPeak ==
  \A r \in Runs : used[r] <= Proj[r] /\ (pc[r] \notin Active => used[r] = 0)

LEMMA DemandIsSum == Demand = other + Sum(used, Runs)
  BY DEF Demand, Sum

LEMMA MemoryTypes ==
  ASSUME TypeInv
  PROVE  Demand \in Nat /\ Avail \in Nat
<1>1. Sum(used, Runs) \in Nat
  <2>1. IsFiniteSet(Runs) /\ used \in [Runs -> Nat]
    BY RunsAssumption DEF TypeInv
  <2>2. \E g \in [SUBSET Runs -> Nat] : Sums(g, SUBSET Runs, used) /\ Sum(used, Runs) = g[Runs]
    BY <2>1, SumAdds
  <2> QED
    BY <2>2
<1>2. Demand \in Nat
  BY <1>1, DemandIsSum DEF TypeInv
<1> QED
  BY <1>2, SizesAssumption DEF Avail

\* Where one run is active, it is all there is besides the others.
LEMMA DemandOfOne ==
  ASSUME TypeInv, WithinPeak, NEW r \in Runs,
         \A q \in Runs \ {r} : pc[q] \notin Active
  PROVE  Demand = other + used[r]
<1>1. \A q \in Runs \ {r} : used[q] = 0
  BY DEF WithinPeak
<1>2. Sum(used, Runs) = used[r]
  BY <1>1, SumOfOne, RunsAssumption DEF TypeInv
<1> QED
  BY <1>2, DemandIsSum

LEMMA TypeInit == Init => TypeInv /\ WithinPeak
  BY ProjAssumption, LevelsAssumption, SizesAssumption DEF Init, TypeInv, WithinPeak, PCs

LEMMA TypeStep == TypeInv /\ WithinPeak /\ [Next]_vars => TypeInv' /\ WithinPeak'
<1> SUFFICES ASSUME TypeInv, WithinPeak, [Next]_vars PROVE TypeInv' /\ WithinPeak'
  OBVIOUS
<1> USE ProjAssumption DEF PCs, Active
<1>1. CASE UNCHANGED vars
  BY <1>1 DEF vars, TypeInv, WithinPeak
<1>2. CASE Others
  BY <1>2, LevelsAssumption, SizesAssumption DEF Others, TypeInv, WithinPeak
<1>3. ASSUME NEW r \in Runs, Start(r) PROVE TypeInv' /\ WithinPeak'
  BY <1>3 DEF Start, TypeInv, WithinPeak
<1>4. ASSUME NEW r \in Runs, Code(r) PROVE TypeInv' /\ WithinPeak'
  <2>1. CASE coded[r] < Chunks
    <3>1. PICK m \in used[r] .. Proj[r] : used' = [used EXCEPT ![r] = m]
      BY <1>4, <2>1 DEF Code
    <3>2. m \in Nat /\ m <= Proj[r]
      BY <3>1 DEF TypeInv
    <3>3. pc' = [pc EXCEPT ![r] = "checking"] /\ coded' = [coded EXCEPT ![r] = @ + 1]
          /\ UNCHANGED <<waited, other, short, misread, alone>> /\ pc[r] = "coding"
      BY <1>4, <2>1 DEF Code
    <3> QED
      BY <3>1, <3>2, <3>3 DEF TypeInv, WithinPeak
  <2>2. CASE ~(coded[r] < Chunks)
    BY <1>4, <2>2 DEF Code, TypeInv, WithinPeak
  <2> QED
    BY <2>1, <2>2
<1>5. ASSUME NEW r \in Runs, EnforceFloor(r) PROVE TypeInv' /\ WithinPeak'
  BY <1>5 DEF EnforceFloor, TypeInv, WithinPeak
<1>6. ASSUME NEW r \in Runs, Poll(r) PROVE TypeInv' /\ WithinPeak'
  BY <1>6 DEF Poll, TypeInv, WithinPeak, FloorAction
<1> QED
  BY <1>1, <1>2, <1>3, <1>4, <1>5, <1>6 DEF Next, Step

-----------------------------------------------------------------------------
(* What a run that has the machine to itself was granted still holds.       *)

\* An active run in alone is the only active one, and its peak fits into
\* what the others leave, with the reserve on top if it is a research run.
Granted ==
  \A r \in alone : pc[r] \in Active =>
    /\ \A q \in Runs \ {r} : pc[q] \notin Active
    /\ r \notin Overridden => Proj[r] + other <= Total
    /\ r \notin Judged \cup Overridden => Proj[r] + other + Reserve <= Total

\* A budget is less than what was sampled, and a research budget leaves the
\* reserve.
LEMMA BudgetFits ==
  ASSUME NEW r \in Runs \ Overridden, NEW a \in Nat, Fits(r, a)
  PROVE  Proj[r] <= a /\ (r \notin Judged => Proj[r] + Reserve <= a)
<1>1. a # None
  BY NoneAssumption
<1>2. (a \div 4) * 3 <= a /\ a \div 4 \in Nat
  OBVIOUS
<1>3. PICK t \in Nat : t = (a \div 4) * 3
  BY <1>2
<1>4. Budget(a) = Least(t, MaxBudget) /\ Budget(a) <= a /\ Budget(a) \in Nat
  BY <1>1, <1>2, <1>3, SizesAssumption DEF Budget, Least
<1>5. Proj[r] \in Nat \ {0}
  BY ProjAssumption
<1>6. CASE r \in Judged
  BY <1>4, <1>5, <1>6 DEF Fits
<1>7. CASE r \notin Judged
  <2>1. Proj[r] <= Least(IF a <= Reserve THEN 0 ELSE a - Reserve, Budget(a))
    BY <1>1, <1>7 DEF Fits, ResearchBudget
  <2> QED
    BY <2>1, <1>4, <1>5, SizesAssumption DEF Least
<1> QED
  BY <1>6, <1>7

LEMMA GrantedStep ==
  TypeInv /\ WithinPeak /\ Granted /\ [Next]_vars => Granted'
<1> SUFFICES ASSUME TypeInv, WithinPeak, Granted, [Next]_vars,
                    NEW r \in alone', pc'[r] \in Active
             PROVE  /\ \A q \in Runs \ {r} : pc'[q] \notin Active
                    /\ r \notin Overridden => Proj[r] + other' <= Total
                    /\ r \notin Judged \cup Overridden =>
                         Proj[r] + other' + Reserve <= Total
  BY DEF Granted, Active
<1> DEFINE Goal == /\ \A q \in Runs \ {r} : pc'[q] \notin Active
                   /\ r \notin Overridden => Proj[r] + other' <= Total
                   /\ r \notin Judged \cup Overridden =>
                        Proj[r] + other' + Reserve <= Total
\* A step that starts nobody and takes nothing keeps what was granted.
<1>1. ASSUME alone' = alone, other' = other,
             \A q \in Runs : pc'[q] \in Active => pc[q] \in Active
      PROVE  Goal
  BY <1>1 DEF Granted, TypeInv
<1>2. CASE UNCHANGED vars
  BY <1>1, <1>2 DEF vars
<1>3. CASE Others
  <2>1. r \in alone /\ other' <= other /\ other' \in Nat /\ pc' = pc /\ r \in Runs
    BY <1>3, LevelsAssumption, SizesAssumption DEF Others, TypeInv
  <2>2. Proj[r] \in Nat
    BY <2>1, ProjAssumption
  <2> QED
    BY <2>1, <2>2, SizesAssumption DEF Granted, TypeInv
<1>4. ASSUME NEW q \in Runs, Start(q) PROVE Goal
  <2>1. PICK a \in Samples :
          /\ pc' = [pc EXCEPT ![q] = IF Fits(q, a) THEN "coding" ELSE "refused"]
          /\ alone' = IF ~Fits(q, a) THEN alone
                      ELSE IF a = None \/ \E p \in Runs : pc[p] \in Active
                      THEN {} ELSE {q}
    BY <1>4 DEF Start
  <2>2. pc[q] = "idle" /\ other' = other
    BY <1>4 DEF Start
  <2>3. CASE ~Fits(q, a)
    BY <1>1, <2>1, <2>2, <2>3 DEF TypeInv, Active
  <2>4. CASE Fits(q, a)
    <3>1. a # None /\ r = q /\ \A p \in Runs : pc[p] \notin Active
      BY <2>1, <2>4
    <3>2. a = Avail \/ a = 0
      BY <3>1 DEF Samples
    <3>3. Demand = other
      <4>1. used[q] = 0
        BY <3>1 DEF WithinPeak
      <4> QED
        BY <3>1, <4>1, DemandOfOne DEF TypeInv
    <3>4. \A p \in Runs \ {r} : pc'[p] \notin Active
      BY <2>1, <3>1 DEF TypeInv
    <3>5. ASSUME q \notin Overridden
          PROVE  /\ Proj[q] + other <= Total
                 /\ q \notin Judged => Proj[q] + other + Reserve <= Total
      <4>1. Avail \in Nat
        BY MemoryTypes
      <4>2. Proj[q] <= a /\ (q \notin Judged => Proj[q] + Reserve <= a)
        BY <2>4, <3>2, <3>5, <4>1, BudgetFits
      <4>3. Proj[q] \in Nat \ {0}
        BY ProjAssumption
      <4>5. a = Avail
        BY <3>2, <4>2, <4>3
      <4>4. Avail = Total - other
        BY <3>3, <4>2, <4>3, <4>5, SizesAssumption DEF Avail, TypeInv
      <4> QED
        BY <4>2, <4>3, <4>4, <4>5, SizesAssumption DEF TypeInv
    <3> QED
      BY <2>2, <3>1, <3>4, <3>5
  <2> QED
    BY <2>3, <2>4
<1>5. ASSUME NEW q \in Runs, Step(q) PROVE Goal
  <2>1. alone' = alone /\ other' = other
    BY <1>5 DEF Step, Code, EnforceFloor, Poll
  <2>2. pc[q] \in Active /\ \A p \in Runs \ {q} : pc'[p] = pc[p]
    BY <1>5 DEF Step, Code, EnforceFloor, Poll, Active, TypeInv
  <2> QED
    BY <1>1, <2>1, <2>2
<1> QED
  BY <1>2, <1>3, <1>4, <1>5 DEF Next

-----------------------------------------------------------------------------
(* The theorems. *)

MemoryInv == TypeInv /\ WithinPeak /\ Granted

LEMMA MemoryInvariant == Spec => []MemoryInv
<1>1. Init => MemoryInv
  BY TypeInit DEF Init, Granted, MemoryInv
<1>2. MemoryInv /\ [Next]_vars => MemoryInv'
  BY TypeStep, GrantedStep DEF MemoryInv
<1> QED
  BY <1>1, <1>2, PTL DEF Spec

LEMMA NothingInSwap == MemoryInv => NeverSwaps
<1> SUFFICES ASSUME MemoryInv, NEW r \in alone \ Overridden, pc[r] \in Active
             PROVE  Demand <= Total
  BY DEF NeverSwaps
<1>1. r \in Runs /\ Demand = other + used[r]
  BY DemandOfOne DEF MemoryInv, TypeInv, Granted
<1>2. used[r] <= Proj[r] /\ used[r] \in Nat /\ other \in Nat /\ Proj[r] \in Nat
  BY <1>1, ProjAssumption DEF MemoryInv, TypeInv, WithinPeak
<1>3. Proj[r] + other <= Total
  BY DEF MemoryInv, Granted
<1> QED
  BY <1>1, <1>2, <1>3, SizesAssumption

LEMMA ReserveLeft == MemoryInv => KeepsReserve
<1> SUFFICES ASSUME MemoryInv, NEW r \in alone \ (Judged \cup Overridden),
                    pc[r] \in Active
             PROVE  Avail >= Reserve
  BY DEF KeepsReserve
<1>1. r \in Runs /\ Demand = other + used[r]
  BY DemandOfOne DEF MemoryInv, TypeInv, Granted
<1>2. used[r] <= Proj[r] /\ used[r] \in Nat /\ other \in Nat /\ Proj[r] \in Nat
  BY <1>1, ProjAssumption DEF MemoryInv, TypeInv, WithinPeak
<1>3. Proj[r] + other + Reserve <= Total
  BY DEF MemoryInv, Granted
<1> QED
  BY <1>1, <1>2, <1>3, SizesAssumption DEF Avail

\* A run that has the machine to itself puts nothing into swap, however many
\* runs came before it and whatever it was interrupted by.
THEOREM NothingSwaps == Spec => []NeverSwaps
  BY MemoryInvariant, NothingInSwap, PTL

\* And if it is a research run under its own budget, it leaves the reserve to
\* the rest of the machine.
THEOREM ReserveKept == Spec => []KeepsReserve
  BY MemoryInvariant, ReserveLeft, PTL

-----------------------------------------------------------------------------
(* What a paused run has seen. *)

\* Every look that keeps a run waiting found memory short or misread it: a
\* sample below the floor is either true, or taken where there was enough.
Looked ==
  \A r \in Runs : pc[r] = "paused" => short[r] + misread[r] = waited[r] + 1

\* A poll that does not resume the run adds one look, and gives the run up
\* only when its patience is over.
LEMMA PollLooks ==
  ASSUME TypeInv, NEW r \in Runs, Poll(r), pc'[r] # "coding",
         short[r] + misread[r] = waited[r] + 1
  PROVE  /\ short'[r] + misread'[r] = waited'[r] + 1
         /\ pc'[r] = "aborted" => waited'[r] >= Patience
<1> DEFINE act(a) == FloorAction(a, waited[r] + 1)
<1>1. PICK a \in Samples :
        /\ waited' = [waited EXCEPT ![r] = IF act(a) = "continue" THEN 0 ELSE @ + 1]
        /\ pc' = [pc EXCEPT ![r] = IF act(a) = "continue" THEN "coding"
                                   ELSE IF act(a) = "abort" THEN "aborted" ELSE @]
        /\ short' = [short EXCEPT ![r] = IF act(a) = "continue" THEN 0
                                        ELSE IF Avail < Floor THEN @ + 1 ELSE @]
        /\ misread' = [misread EXCEPT ![r] = IF act(a) = "continue" THEN 0
                                            ELSE IF Misread(a) THEN @ + 1 ELSE @]
  BY DEF Poll
<1>2. act(a) # "continue"
  BY <1>1 DEF TypeInv
<1>3. Avail \in Nat
  BY MemoryTypes
<1>4. a # None /\ a \in Nat /\ a < Floor
  BY <1>2, <1>3, SizesAssumption DEF FloorAction, Samples
<1>5. waited'[r] = waited[r] + 1
  BY <1>1, <1>2 DEF TypeInv
<1>6. pc[r] = "paused"
  BY DEF Poll
<1>7. pc'[r] = "aborted" => waited'[r] >= Patience
  <2> SUFFICES ASSUME pc'[r] = "aborted" PROVE waited'[r] >= Patience
    OBVIOUS
  <2>1. act(a) = "abort"
    BY <1>1, <1>2, <1>6 DEF TypeInv
  <2> QED
    BY <1>5, <2>1 DEF FloorAction
<1>8. Misread(a) <=> ~(Avail < Floor)
  BY <1>3, <1>4, SizesAssumption DEF Misread
<1>9. \/ short'[r] = short[r] + 1 /\ misread'[r] = misread[r]
      \/ short'[r] = short[r] /\ misread'[r] = misread[r] + 1
  <2> HIDE DEF act
  <2> QED
    BY <1>1, <1>2, <1>8 DEF TypeInv
<1>10. short[r] \in Nat /\ misread[r] \in Nat /\ waited[r] \in Nat
  BY DEF TypeInv
<1> QED
  BY <1>5, <1>7, <1>9, <1>10

LEMMA LookedStep == TypeInv /\ Looked /\ [Next]_vars => Looked'
<1> SUFFICES ASSUME TypeInv, Looked, [Next]_vars,
                    NEW r \in Runs, pc'[r] = "paused"
             PROVE  short'[r] + misread'[r] = waited'[r] + 1
  BY DEF Looked
<1>1. Avail \in Nat
  BY MemoryTypes
<1>2. ASSUME pc'[r] = pc[r], waited'[r] = waited[r],
             short'[r] = short[r], misread'[r] = misread[r]
      PROVE  short'[r] + misread'[r] = waited'[r] + 1
  BY <1>2 DEF Looked
<1>3. CASE UNCHANGED vars \/ Others
  BY <1>2, <1>3 DEF vars, Others
<1>4. ASSUME NEW q \in Runs, Start(q) \/ Code(q) PROVE short'[r] + misread'[r] = waited'[r] + 1
  <2>1. pc'[r] = pc[r]
    BY <1>4 DEF Start, Code, TypeInv
  <2> QED
    BY <1>2, <1>4, <2>1 DEF Start, Code
<1>5. ASSUME NEW q \in Runs, EnforceFloor(q) PROVE short'[r] + misread'[r] = waited'[r] + 1
  <2>1. CASE q # r
    BY <1>2, <1>5, <2>1 DEF EnforceFloor, TypeInv
  <2>2. CASE q = r
    <3> DEFINE enough(a) == r \in Judged \/ a = None \/ a >= Floor
    <3>1. PICK a \in Samples :
            /\ pc' = [pc EXCEPT ![r] = IF enough(a) THEN "coding" ELSE "paused"]
            /\ short' = [short EXCEPT ![r] = IF ~enough(a) /\ Avail < Floor THEN 1 ELSE 0]
            /\ misread' = [misread EXCEPT ![r] = IF ~enough(a) /\ Misread(a) THEN 1 ELSE 0]
      BY <1>5, <2>2 DEF EnforceFloor
    <3>2. ~enough(a)
      BY <3>1 DEF TypeInv
    <3>3. a # None /\ a \in Nat /\ a < Floor
      BY <1>1, <3>2, SizesAssumption DEF Samples
    <3>4. waited'[r] = 0
      BY <1>5, <2>2 DEF EnforceFloor, TypeInv
    <3>5. CASE Avail < Floor
      <4>1. short'[r] = 1 /\ misread'[r] = 0
        BY <1>1, <3>1, <3>2, <3>5, SizesAssumption DEF TypeInv, Misread
      <4> QED
        BY <3>4, <4>1
    <3>6. CASE ~(Avail < Floor)
      <4>1. short'[r] = 0 /\ misread'[r] = 1
        BY <1>1, <3>1, <3>2, <3>3, <3>6, SizesAssumption DEF TypeInv, Misread
      <4> QED
        BY <3>4, <4>1
    <3> QED
      BY <3>5, <3>6
  <2> QED
    BY <2>1, <2>2
<1>6. ASSUME NEW q \in Runs, Poll(q) PROVE short'[r] + misread'[r] = waited'[r] + 1
  <2>1. CASE q # r
    BY <1>2, <1>6, <2>1 DEF Poll, TypeInv
  <2>2. CASE q = r
    <3>1. pc[r] = "paused"
      BY <1>6, <2>2 DEF Poll
    <3>2. short[r] + misread[r] = waited[r] + 1
      BY <3>1 DEF Looked
    <3> QED
      BY <1>6, <2>2, <3>2, PollLooks
  <2> QED
    BY <2>1, <2>2
<1> QED
  BY <1>3, <1>4, <1>5, <1>6 DEF Next, Step

\* A run is given up only if every look at memory, from the one that paused it
\* to the one that gives it up a whole patience later, found memory short, or
\* found a line of meminfo without a number, which reads as zero.
THEOREM AbortsAreJustified == Spec => AbortJustified
<1> DEFINE Act == \A r \in Runs : pc[r] # "aborted" /\ pc'[r] = "aborted"
                       => /\ waited'[r] >= Patience
                          /\ short'[r] + misread'[r] = waited'[r] + 1
           Inv == MemoryInv /\ Looked
<1>1. ASSUME Inv, [Next]_vars, NEW r \in Runs,
             pc[r] # "aborted", pc'[r] = "aborted"
      PROVE  /\ waited'[r] >= Patience
             /\ short'[r] + misread'[r] = waited'[r] + 1
  <2>1. Poll(r)
    <3>1. ~UNCHANGED vars /\ ~Others
      BY <1>1 DEF vars, Others
    <3>2. PICK q \in Runs : Start(q) \/ Step(q)
      BY <1>1, <3>1 DEF Next
    <3>3. q = r
      BY <1>1, <3>2 DEF Start, Step, Code, EnforceFloor, Poll, MemoryInv, TypeInv
    <3> QED
      BY <1>1, <3>2, <3>3 DEF Start, Step, Code, EnforceFloor, MemoryInv, TypeInv
  <2> QED
    <3>1. pc[r] = "paused"
      BY <2>1 DEF Poll
    <3>2. short[r] + misread[r] = waited[r] + 1 /\ TypeInv
      BY <1>1, <3>1 DEF Looked, MemoryInv
    <3> QED
      BY <1>1, <2>1, <3>2, PollLooks
<1>2. Init => Inv
  BY TypeInit DEF Init, Granted, MemoryInv, Looked
<1>3. Inv /\ [Next]_vars => Inv'
  BY TypeStep, GrantedStep, LookedStep DEF MemoryInv
<1>4. Inv /\ [Next]_vars => [Act]_vars
  BY <1>1
<1>5. Spec => [][Act]_vars
  <2> HIDE DEF Act, Inv
  <2> QED
    BY <1>2, <1>3, <1>4, PTL DEF Spec
<1> QED
  BY <1>5 DEF Act, AbortJustified
=============================================================================
