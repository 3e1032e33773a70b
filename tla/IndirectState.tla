--------------------------- MODULE IndirectState ----------------------------
(***************************************************************************)
(* The learned state of an indirect expert (IndirectState in               *)
(* src/src/context/mod.rs): per source slot, the last hist bytes that      *)
(* followed the contexts that hash to the slot, and the history before     *)
(* the latest of them.                                                     *)
(***************************************************************************)
EXTENDS Integers, Sequences

NoHistory(spec) == [j \in 1 .. spec.hist |-> 0]

NewIndirectState(spec) ==
  [table |-> [s \in 0 .. spec.slots - 1 |->
               [cur |-> NoHistory(spec), prev |-> NoHistory(spec)]],
   last_key |-> 0, valid |-> FALSE]

\* key(): the source slot, or, in the negative control, one far from it.
Key(spec, src) ==
  LET slot == src % spec.slots
      half == spec.slots \div 2
  IN  IF ~spec.wrong THEN slot
      ELSE IF slot < half THEN half - 1 - slot ELSE 3 * half - 1 - slot

\* The history h with the byte b after it, cut to hist bytes.
Followed(h, b) == Append(Tail(h), b)

\* Fold the byte just appended into the slot that was selected before it.
Learn(st, b) ==
  [st EXCEPT !.table[st.last_key] =
     [cur |-> Followed(@.cur, b), prev |-> @.cur]]

\* Mutant: the slot is selected before the byte is folded in.
RefreshEager(spec, st, buf, src) ==
  LET k == Key(spec, src)
      s == [st EXCEPT !.last_key = k, !.valid = TRUE]
  IN  IF st.valid THEN Learn(s, buf[Len(buf)]) ELSE s

\* refresh(): learn, then select the slot of the context src.
Refresh(spec, st, buf, src) ==
  LET s == IF st.valid THEN Learn(st, buf[Len(buf)]) ELSE st
  IN  [s EXCEPT !.last_key = Key(spec, src), !.valid = TRUE]
=============================================================================
