---------------------------- MODULE CountModels -----------------------------
(***************************************************************************)
(* The two tables of src/src/context/mod.rs that count what they have      *)
(* seen: the bit histories of a state expert (StateModel), and one order   *)
(* of the byte model by partial matching (PpmOrder), whose counts form a   *)
(* binary tree over the partial bytes, so that the mass of any prefix is   *)
(* one lookup.  Both saturate, and both update the slot that was selected  *)
(* before the bit or byte was known.                                       *)
(***************************************************************************)
EXTENDS ContextModel

CONSTANTS
  STATE_MAX,    \* where the count of a state saturates: 15 in the code
  STATE_RATE,   \* how slowly the state map adapts: 6 in the code
  COUNT_MAX     \* where the count of a tree node saturates: 65535

More(n, max) == IF n < max THEN n + 1 ELSE n

-----------------------------------------------------------------------------
(* State experts, of spec [order, slots].  A state is how often the bit was *)
(* 0 and how often it was 1.                                                *)

NewStateModel(spec) ==
  [table |-> [s \in 0 .. spec.slots - 1 |-> <<0, 0>>],
   ctx |-> 0, idx |-> 0, cur |-> <<0, 0>>]

\* begin(): select the state of the partial byte c0.
BeginState(spec, m, c0) ==
  LET s == Mix(m.ctx, c0) % spec.slots
  IN  [m EXCEPT !.idx = s, !.cur = m.table[s]]

\* update(): the selected state, with one more bit in it.
UpdateState(m, bit) ==
  [m EXCEPT !.table[m.idx] = [m.cur EXCEPT ![bit + 1] = More(@, STATE_MAX)]]

\* The map from states to probabilities that all state experts share.
NewStateMap ==
  [st \in (0 .. STATE_MAX) \X (0 .. STATE_MAX) |->
     LET p == ((st[2] + 1) * (PMAX + 1)) \div (st[1] + st[2] + 2)
     IN  IF p > PMAX THEN PMAX ELSE IF p < 1 THEN 1 ELSE p]

\* StateMap::update(): what state st says moves towards the bit.
UpdateStateMap(map, st, bit) ==
  [map EXCEPT ![st] =
     LET np == @ + (((IF bit = 1 THEN PMAX ELSE 0) - @) \div (2 ^ STATE_RATE))
     IN  IF np < 1 THEN 1 ELSE IF np > PMAX THEN PMAX ELSE np]

-----------------------------------------------------------------------------
(* An order of the PPM, of as many slots as given.                          *)

\* The nodes of the tree: 1 is its root, a leaf is a whole byte.
Nodes == 1 .. 2 ^ (2 * D + 1) - 1

NewPpmOrder(slots) ==
  [tree     |-> [s \in 0 .. slots - 1 |-> [v \in Nodes |-> 0]],
   distinct |-> [s \in 0 .. slots - 1 |-> 0],
   seen     |-> [s \in 0 .. slots - 1 |-> {}],
   idx      |-> 0]

SelectPpm(slots, o, ctx) == [o EXCEPT !.idx = ctx % slots]

\* The leaf of a byte and what lies above it.
PathTo(sym) == {(2 ^ (2 * D) + sym) \div 2 ^ j : j \in 0 .. 2 * D}

\* update(): the byte is counted on its whole path, and as a new symbol the
\* first time.
UpdatePpm(o, sym) ==
  [o EXCEPT
     !.seen[o.idx] = @ \cup {sym},
     !.distinct[o.idx] = IF sym \in o.seen[o.idx] THEN @ ELSE More(@, COUNT_MAX),
     !.tree[o.idx] = [v \in Nodes |-> IF v \in PathTo(sym)
                                      THEN More(@[v], COUNT_MAX) ELSE @[v]]]
=============================================================================
