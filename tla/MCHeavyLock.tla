---------------------------- MODULE MCHeavyLock -----------------------------
(* Wrappers at the lock: p1, p2 and p3 take it, p4 opted out.               *)
EXTENDS HeavyLock, TLC

CONSTANTS p1, p2, p3, p4

Takers == {p1, p2, p3}

\* One wrapper after the other, with kills and terminations; two of them, with
\* terminations of a release too; three, with orphans; any interleaving of
\* three, with signals during their commands, and of two, with signals at any
\* time once the trap is set; any interleaving and no fault at all.
MCSchedules ==
  {[starts |-> Procs, overlap |-> FALSE, faults |-> {"kill", "term"}],
   [starts |-> {p1, p2}, overlap |-> FALSE, faults |-> {"kill", "term", "late_term"}],
   [starts |-> Takers, overlap |-> FALSE, faults |-> {"term", "orphan"}],
   [starts |-> Takers, overlap |-> TRUE, faults |-> {"term"}],
   [starts |-> {p1, p2}, overlap |-> TRUE, faults |-> {"term", "early_term", "late_term"}]}
Faultless == {[starts |-> Takers, overlap |-> TRUE, faults |-> {}]}

Symmetry == Permutations(Takers)
=============================================================================
