----------------------------- MODULE GuidedWalk -----------------------------
(***************************************************************************)
(* The guided schedule of cmd_sweep_tune: coordinate descent over the axes *)
(* of the tune byte (Knobs in search/mod.rs), and from where it ends a     *)
(* hill climb by seeded mutations.  Both go by what is known of the        *)
(* archives, whoever measured them: bytes[t] is the smallest archive known *)
(* of tune t.                                                              *)
(***************************************************************************)
EXTENDS Integers, Sequences

CONSTANTS
  Levels,   \* the levels of an axis: 16 in the code
  Axes,     \* the axes compiled in: <<"lr">>, or <<"lr", "apm">>
  Moves,    \* what the seed makes of mutate(): a sequence of [axis, by],
            \*   repeated here where the code's goes on
  Rounds,   \* the bound on rounds of the descent: 4
  Patience, \* the climb's candidates in a row that need not improve
  Start     \* the accepted tune

ASSUME LevelsAssumption == Levels \in Nat \ {0}
ASSUME AxesAssumption == Axes \in {<<"lr">>, <<"lr", "apm">>}
ASSUME MovesAssumption ==
  /\ Moves # <<>>
  /\ \A i \in 1 .. Len(Moves) :
       /\ \E a \in 1 .. Len(Axes) : Moves[i].axis = Axes[a]
       /\ Moves[i].by \in {-4, -2, -1, 1, 2, 4}
ASSUME WalkAssumption ==
  /\ Rounds \in Nat \ {0} /\ Patience \in Nat \ {0}
  /\ Start \in 0 .. Levels * Levels - 1

\* Knobs::level() and Knobs::set() of the point a tune stands for.
Level(t, axis) == IF axis = "lr" THEN t % Levels ELSE t \div Levels

AtLevel(t, axis, v) ==
  IF axis = "lr" THEN t - (t % Levels) + v ELSE (t % Levels) + v * Levels

Neighbor(t, axis, by) == AtLevel(t, axis, (Level(t, axis) + by) % Levels)

\* mutate(): the move of the seed, and the next seed.
Mutated(w) == Neighbor(w.at, Moves[w.seed].axis, Moves[w.seed].by)

NextSeed(w) == (w.seed % Len(Moves)) + 1

-----------------------------------------------------------------------------
(* A walk: at is the best point so far, axis and level what the descent     *)
(* measures next, stale the candidates since the climb last moved.          *)

NoWalk == [stage |-> "none", at |-> Start, round |-> 1, axis |-> 1, level |-> 0,
           improved |-> FALSE, stale |-> 0, seed |-> 1]

NewWalk == [NoWalk EXCEPT !.stage = "descent"]

\* The point to be measured next, unless it is known.
WantsPoint(w) ==
  \/ w.stage = "descent" /\ w.level < Levels
  \/ w.stage = "climb" /\ w.stale < Patience

Point(w) == IF w.stage = "descent" THEN AtLevel(w.at, Axes[w.axis], w.level)
            ELSE Mutated(w)

\* run() has returned for that point.
PointKnown(w) == IF w.stage = "descent" THEN [w EXCEPT !.level = @ + 1]
                 ELSE [w EXCEPT !.stage = "compare"]

\* The lowest of the levels with the smallest archive.
BestLevel(w, bytes) ==
  LET b(v) == bytes[AtLevel(w.at, Axes[w.axis], v)]
  IN  CHOOSE v \in 0 .. Levels - 1 :
        \A u \in 0 .. Levels - 1 : b(v) < b(u) \/ (b(v) = b(u) /\ v <= u)

\* Mutant: the descent goes to the best tune anyone has measured.
AxisDoneAnywhere(w, bytes) ==
  LET best == CHOOSE t \in DOMAIN bytes : \A u \in DOMAIN bytes : bytes[t] <= bytes[u]
  IN  IF w.axis < Len(Axes)
      THEN [w EXCEPT !.at = best, !.level = 0, !.axis = @ + 1]
      ELSE [w EXCEPT !.at = best, !.level = 0, !.stage = "climb"]

\* All levels of an axis are known: go to the best, and on to the next axis,
\* the next round or the climb.
AxisDone(w, bytes) ==
  LET best     == BestLevel(w, bytes)
      improved == w.improved \/ best # Level(w.at, Axes[w.axis])
      moved    == [w EXCEPT !.at = AtLevel(@, Axes[w.axis], best), !.level = 0]
  IN  IF w.axis < Len(Axes)
      THEN [moved EXCEPT !.axis = @ + 1, !.improved = improved]
      ELSE IF improved /\ w.round < Rounds
      THEN [moved EXCEPT !.axis = 1, !.round = @ + 1, !.improved = FALSE]
      ELSE [moved EXCEPT !.stage = "climb", !.improved = improved]

\* The candidate is known: it is taken if it is strictly better.
CandidateKnown(w, bytes) ==
  IF bytes[Mutated(w)] < bytes[w.at]
  THEN [w EXCEPT !.stage = "climb", !.at = Mutated(w), !.stale = 0, !.seed = NextSeed(w)]
  ELSE [w EXCEPT !.stage = "climb", !.stale = @ + 1, !.seed = NextSeed(w)]
=============================================================================
