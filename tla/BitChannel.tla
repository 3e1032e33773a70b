----------------------------- MODULE BitChannel -----------------------------
(***************************************************************************)
(* What the binary range coder promises its callers, with no interval, no  *)
(* byte and no probability in it: a writer records bits one at a time,     *)
(* closes the record, and a reader then gets the same bits back in the     *)
(* same order, one per call, and never a bit that was not written.         *)
(***************************************************************************)
EXTENDS Naturals, Sequences

VARIABLES
  written,   \* the bits given to the writer, in order
  closed,    \* the writer has finished
  read       \* the bits the reader has returned, in order

chanVars == <<written, closed, read>>

Init ==
  /\ written = <<>>
  /\ closed = FALSE
  /\ read = <<>>

Write ==
  /\ ~closed
  /\ \E bit \in {0, 1} : written' = Append(written, bit)
  /\ UNCHANGED <<closed, read>>

Close ==
  /\ ~closed
  /\ closed' = TRUE
  /\ UNCHANGED <<written, read>>

Read ==
  /\ closed
  /\ Len(read) < Len(written)
  /\ read' = Append(read, written[Len(read) + 1])
  /\ UNCHANGED <<written, closed>>

Next == Write \/ Close \/ Read

Spec == Init /\ [][Next]_chanVars
=============================================================================
