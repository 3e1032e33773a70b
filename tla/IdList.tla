------------------------------- MODULE IdList -------------------------------
(***************************************************************************)
(* The list of token ids of src/src/transform/mod.rs (IdList): a           *)
(* permutation of the vocabulary that the encoder and the decoder both     *)
(* keep, so that a token's id is its position.  Positions count from 1,    *)
(* which is the id byte; id 0 is the literal NUL.                          *)
(***************************************************************************)
EXTENDS Integers

\* IdMode: how a token's id is derived from its position.
Modes == {"Static", "Mtf", "MoveToSecond"}

\* Every entry starts at its own place of the vocabulary.
NewList(n) == [order |-> [p \in 1 .. n |-> p], pos |-> [v \in 1 .. n |-> v]]

\* The two tables are each other's inverse.
Consistent(list) ==
  /\ \A p \in DOMAIN list.order :
       list.order[p] \in DOMAIN list.pos /\ list.pos[list.order[p]] = p
  /\ \A v \in DOMAIN list.pos :
       list.pos[v] \in DOMAIN list.order /\ list.order[list.pos[v]] = v

\* Where a token at position p goes when it has been used.
Target(p, mode) ==
  IF mode = "Mtf" THEN 1
  ELSE IF mode = "MoveToSecond" /\ p >= 2 THEN 2
  ELSE p

\* A promotion that forgets the tokens it pushes back.
TouchOnlyOne(list, v, mode) ==
  LET p == list.pos[v]
      t == Target(p, mode)
  IN  IF p = t THEN list
      ELSE [order |-> [list.order EXCEPT ![t] = v, ![p] = list.order[t]],
            pos   |-> [list.pos EXCEPT ![v] = t]]

\* Entry v moves from its position p to t, and those between step back.
Touch(list, v, mode) ==
  LET p == list.pos[v]
      t == Target(p, mode)
  IN  IF p = t THEN list
      ELSE [order |-> [k \in DOMAIN list.order |->
                         IF k = t THEN v
                         ELSE IF k \in t + 1 .. p THEN list.order[k - 1]
                         ELSE list.order[k]],
            pos   |-> [u \in DOMAIN list.pos |->
                         IF u = v THEN t
                         ELSE IF list.pos[u] \in t .. p - 1 THEN list.pos[u] + 1
                         ELSE list.pos[u]]]
=============================================================================
