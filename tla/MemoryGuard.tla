---------------------------- MODULE MemoryGuard -----------------------------
(***************************************************************************)
(* The memory guards of memory.rs on one machine: the startup budgets of   *)
(* the research driver and of the judged stub, and the runtime floor that  *)
(* pauses, resumes and aborts a research run.  Runs allocate while they    *)
(* code, up to the peak they projected; every guard sees only a sample of  *)
(* the memory that is available at the moment it looks.                    *)
(***************************************************************************)
EXTENDS Integers, FiniteSets, FiniteSetsExt

CONSTANTS
  Runs,         \* the runs that may be started
  Judged,       \* those of the submission stub: no reserve, floor not armed
  Overridden,   \* those with a --max-ram as large as their projection
  Proj,         \* the projected peak of each run
  Chunks,       \* how many times a run reaches the runtime check
  Total,        \* the machine's memory
  Reserve,      \* RESERVE_BYTES
  Floor,        \* RUN_FLOOR_BYTES
  MaxBudget,    \* DEFAULT_MAX_BUDGET
  Patience,     \* FLOOR_PATIENCE, in polls
  Levels,       \* what the rest of the machine may use
  Unreadable,   \* may /proc/meminfo be unreadable, or without its line?
  Malformed,    \* may that line hold no number?
  None          \* the sample when there is none

ASSUME RunsAssumption ==
  IsFiniteSet(Runs) /\ Judged \subseteq Runs /\ Overridden \subseteq Runs
ASSUME ProjAssumption == Proj \in [Runs -> Nat \ {0}]
ASSUME SizesAssumption ==
  /\ Total \in Nat /\ Reserve \in Nat /\ Floor \in Nat /\ MaxBudget \in Nat
  /\ Floor <= Reserve
ASSUME LevelsAssumption == Levels \subseteq 0 .. Total
ASSUME CountsAssumption == Chunks \in Nat /\ Patience \in Nat \ {0}
ASSUME ReadingAssumption == Unreadable \in BOOLEAN /\ Malformed \in BOOLEAN
ASSUME NoneAssumption == None \notin Nat

VARIABLES
  pc,      \* where each run is
  used,    \* what it has allocated
  coded,   \* the chunks it has coded
  waited,  \* the polls since it paused, while it has not resumed
  other,   \* what the rest of the machine uses
  short,   \* history: of a paused run's looks at memory, those that found it short
  misread, \* history: and those that took a line without a number for shortage
  alone    \* history: the runs that have had the machine to themselves: they
           \*   started from a sample, no other run has been active since, and
           \*   the rest of the machine has taken nothing more

vars == <<pc, used, coded, waited, other, short, misread, alone>>

-----------------------------------------------------------------------------
Active == {"coding", "checking", "paused"}

Demand == other + MapThenSumSet(LAMBDA r : used[r], Runs)

\* MemAvailable; what is demanded beyond Total is in swap.
Avail == IF Demand <= Total THEN Total - Demand ELSE 0

\* available_bytes(): a file or a line that is missing gives None, and a value
\* that does not parse gives zero.
Samples ==
  {Avail} \cup (IF Unreadable THEN {None} ELSE {}) \cup (IF Malformed THEN {0} ELSE {})

Misread(a) == a # None /\ a < Floor /\ Avail >= Floor

Least(a, b) == IF a <= b THEN a ELSE b

\* Mutant: only the hard ceiling applies.
CeilingOnly(a) == MaxBudget

\* budget(): three quarters of what is available, and never above the cap.
Budget(a) == IF a = None THEN MaxBudget ELSE Least((a \div 4) * 3, MaxBudget)

\* Mutant: the driver takes the judged budget.
NoReserveBudget(a) == Budget(a)

\* research_budget(): the same, less the reserve.
ResearchBudget(a) ==
  IF a = None THEN MaxBudget
  ELSE Least(IF a <= Reserve THEN 0 ELSE a - Reserve, Budget(a))

\* An override is returned before anything is sampled.
Fits(r, a) ==
  \/ r \in Overridden
  \/ Proj[r] <= IF r \in Judged THEN Budget(a) ELSE ResearchBudget(a)

\* Mutant: patience is looked at before the sample.
FloorActionImpatient(a, polls) ==
  IF polls >= Patience THEN "abort"
  ELSE IF a = None \/ a >= Floor THEN "continue" ELSE "sleep"

\* floor_action(), with None read as u64::MAX.
FloorAction(a, polls) ==
  IF a = None \/ a >= Floor THEN "continue"
  ELSE IF polls >= Patience THEN "abort" ELSE "sleep"

-----------------------------------------------------------------------------
Init ==
  /\ pc = [r \in Runs |-> "idle"]
  /\ used = [r \in Runs |-> 0]
  /\ coded = [r \in Runs |-> 0]
  /\ waited = [r \in Runs |-> 0]
  /\ other \in Levels
  /\ short = [r \in Runs |-> 0]
  /\ misread = [r \in Runs |-> 0]
  /\ alone = {}

\* The startup check; nothing is allocated yet.
Start(r) ==
  /\ pc[r] = "idle"
  /\ \E a \in Samples :
       /\ pc' = [pc EXCEPT ![r] = IF Fits(r, a) THEN "coding" ELSE "refused"]
       /\ alone' = IF ~Fits(r, a) THEN alone
                   ELSE IF a = None \/ \E q \in Runs : pc[q] \in Active
                   THEN {} ELSE {r}
  /\ UNCHANGED <<used, coded, waited, other, short, misread>>

\* A run codes up to its next runtime check, or to its end.
Code(r) ==
  /\ pc[r] = "coding"
  /\ IF coded[r] < Chunks
     THEN /\ \E m \in used[r] .. Proj[r] : used' = [used EXCEPT ![r] = m]
          /\ coded' = [coded EXCEPT ![r] = @ + 1]
          /\ pc' = [pc EXCEPT ![r] = "checking"]
     ELSE /\ used' = [used EXCEPT ![r] = 0]
          /\ pc' = [pc EXCEPT ![r] = "done"]
          /\ UNCHANGED coded
  /\ UNCHANGED <<waited, other, short, misread, alone>>

\* enforce_runtime_floor() up to its loop: an unarmed guard returns at once,
\* and so does one that cannot read or that reads enough.
EnforceFloor(r) ==
  /\ pc[r] = "checking"
  /\ \E a \in Samples :
       LET enough == r \in Judged \/ a = None \/ a >= Floor
       IN  /\ pc' = [pc EXCEPT ![r] = IF enough THEN "coding" ELSE "paused"]
           /\ short' = [short EXCEPT ![r] = IF ~enough /\ Avail < Floor THEN 1 ELSE 0]
           /\ misread' = [misread EXCEPT ![r] = IF ~enough /\ Misread(a) THEN 1 ELSE 0]
  /\ waited' = [waited EXCEPT ![r] = 0]
  /\ UNCHANGED <<used, coded, other, alone>>

\* Mutant: the clock restarts before it runs out.
PollRearmed(r) ==
  /\ pc[r] = "paused"
  /\ waited' = [waited EXCEPT ![r] = (@ + 1) % Patience]
  /\ \E a \in Samples :
       pc' = [pc EXCEPT ![r] =
                IF FloorAction(a, waited'[r]) = "continue" THEN "coding" ELSE @]
  /\ UNCHANGED <<used, coded, other, short, misread, alone>>

\* One turn of its loop: sleep, sample again, and decide.  A panic releases
\* the memory of the run.
Poll(r) ==
  /\ pc[r] = "paused"
  /\ \E a \in Samples :
       LET act == FloorAction(a, waited[r] + 1)
       IN  /\ waited' = [waited EXCEPT ![r] = IF act = "continue" THEN 0 ELSE @ + 1]
           /\ pc' = [pc EXCEPT ![r] = IF act = "continue" THEN "coding"
                                      ELSE IF act = "abort" THEN "aborted" ELSE @]
           /\ used' = [used EXCEPT ![r] = IF act = "abort" THEN 0 ELSE @]
           /\ short' = [short EXCEPT ![r] = IF act = "continue" THEN 0
                                           ELSE IF Avail < Floor THEN @ + 1 ELSE @]
           /\ misread' = [misread EXCEPT ![r] = IF act = "continue" THEN 0
                                               ELSE IF Misread(a) THEN @ + 1 ELSE @]
  /\ UNCHANGED <<coded, other, alone>>

\* The editor, the browser and the rest.
Others ==
  /\ other' \in Levels
  /\ alone' = IF other' > other THEN {} ELSE alone
  /\ UNCHANGED <<pc, used, coded, waited, short, misread>>

Step(r) == Code(r) \/ EnforceFloor(r) \/ Poll(r)

Next == Others \/ \E r \in Runs : Start(r) \/ Step(r)

Spec == Init /\ [][Next]_vars

\* A run that was started is scheduled.
FairSpec == Spec /\ \A r \in Runs : WF_vars(Step(r))

-----------------------------------------------------------------------------
\* "A run cannot drive the machine into swap" (memory.rs:18-20): while a run
\* that has the machine to itself is active, nothing is in swap.
NeverSwaps == \A r \in alone \ Overridden : pc[r] \in Active => Demand <= Total

\* "It never claims RESERVE_BYTES" (memory.rs:195-199): while a research run
\* that has the machine to itself is active, what it leaves to the rest is at
\* least the reserve.
KeepsReserve ==
  \A r \in alone \ (Judged \cup Overridden) :
    pc[r] \in Active => Avail >= Reserve

\* "After FLOOR_PATIENCE of sustained pressure the run aborts"
\* (memory.rs:366-373): a run is given up only if every look at memory, from
\* the one that paused it to the one that gives it up, a whole patience later,
\* found memory short, or found a line of meminfo that holds no number: that
\* one reads as zero, and a run can be given up over it with memory plenty.
AbortJustified ==
  [][\A r \in Runs :
       pc[r] # "aborted" /\ pc'[r] = "aborted"
         => /\ waited'[r] >= Patience
            /\ short'[r] + misread'[r] = waited'[r] + 1]_vars

\* Pausing never suspends a run for good: every run that was started ends, by
\* itself or by the floor, however the rest of the machine behaves.
EveryRunEnds ==
  \A r \in Runs : pc[r] \in Active ~> pc[r] \in {"done", "aborted"}
=============================================================================
