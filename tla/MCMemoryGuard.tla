--------------------------- MODULE MCMemoryGuard ----------------------------
(* A machine of eight units; a research run, one that was overridden, and a *)
(* judged run.                                                              *)
EXTENDS MemoryGuard

CONSTANTS r1, r2, j

\* Each fits an idle machine, and not all of them fit together.
Peaks == [r \in {r1, r2, j} |-> IF r = r1 THEN 3 ELSE 2]
=============================================================================
