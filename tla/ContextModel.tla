---------------------------- MODULE ContextModel ----------------------------
(***************************************************************************)
(* A direct expert of src/src/context/mod.rs (ContextModel): a table of    *)
(* adaptive probabilities, one slot per (context, partial byte), in the    *)
(* hashed or in the nibble layout, with or without collision control.      *)
(*                                                                         *)
(* A partial byte is the number c0: a leading 1 and the bits decided so    *)
(* far.  A byte has 2 * D bits, D = 4 in the code.                         *)
(***************************************************************************)
EXTENDS Integers, Sequences

CONSTANTS
  D,            \* bits in half a byte: 4 in the code
  Mix(_, _),    \* ctx ^ k * MIX_C, on 32-bit words
  PMAX,         \* the largest probability: 65535 in the code
  ChkSize       \* the number of checksums: 256 in the code

Bucket == 2 ^ D                  \* the slots of a bucket: 16 in the code
HALF   == (PMAX + 1) \div 2      \* the neutral probability: 32768

\* A new expert of spec: all slots hold the sentinel 0, "never observed".
NewContextModel(spec) ==
  [table |-> [s \in 0 .. spec.slots - 1 |-> 0],
   chk   |-> [s \in 0 .. spec.slots - 1 |-> 0],
   ctx |-> 0, idx |-> 0, last_p |-> HALF,
   hi_base |-> 0, lo_base |-> 0, lo_ready |-> FALSE]

\* The first slot of the bucket of nibble prefix k in context ctx.
NibbleBase(spec, ctx, k) ==
  LET s == Mix(ctx, k) % spec.slots IN s - (s % Bucket)

\* Mutant: the low bucket of the previous byte is kept.
SetContextSticky(spec, m, c) ==
  IF spec.nibble
  THEN [m EXCEPT !.ctx = c, !.hi_base = NibbleBase(spec, c, 0)]
  ELSE [m EXCEPT !.ctx = c]

\* set_context(): the low bucket waits for the high half of the byte.
SetContext(spec, m, c) ==
  IF spec.nibble
  THEN [m EXCEPT !.ctx = c, !.hi_base = NibbleBase(spec, c, 0),
                 !.lo_ready = FALSE]
  ELSE [m EXCEPT !.ctx = c]

\* locate(): m with its low bucket derived and its slot for c0 selected.
Locate(spec, m, c0) ==
  IF ~spec.nibble THEN [m EXCEPT !.idx = Mix(m.ctx, c0) % spec.slots]
  ELSE IF c0 < Bucket THEN [m EXCEPT !.idx = m.hi_base + c0]
  ELSE LET lo == IF m.lo_ready THEN m.lo_base
                 ELSE NibbleBase(spec, m.ctx, (c0 % Bucket) + 1)
       IN  [m EXCEPT !.lo_base = lo, !.lo_ready = TRUE,
                     !.idx = lo + ((c0 \div Bucket) % Bucket)]

\* Mutant: the checksum repeats the bits of the index.
ChecksumLow(spec, m, c0) ==
  IF spec.nibble THEN (m.idx \div Bucket) % ChkSize
  ELSE (Mix(m.ctx, c0) % spec.slots) % ChkSize

\* The checksum the slot m selects for c0 has to carry; the control, which
\* only costs what checking costs, asks for the same one everywhere.
Checksum(spec, m, c0) ==
  IF spec.verify = 2 THEN 0
  ELSE IF spec.nibble THEN (m.idx \div Bucket) % ChkSize
  ELSE (Mix(m.ctx, c0) \div spec.slots) % ChkSize

\* Is the slot m selects rejected?  Rejecting makes it cold.
Rejects(spec, m, c0) ==
  spec.verify # 0 /\ m.chk[m.idx] # Checksum(spec, m, c0)

Cold(spec, m, c0) == m.table[m.idx] = 0 \/ Rejects(spec, m, c0)

\* predict(): select the slot, reject a foreign one, seed a cold one.
PredictContext(spec, m0, c0, seed) ==
  LET m == Locate(spec, m0, c0)
      t == IF ~Cold(spec, m, c0) THEN m.table[m.idx]
           ELSE IF seed = 0 THEN 1 ELSE seed
  IN  [m EXCEPT !.table[m.idx] = t, !.last_p = t,
                !.chk[m.idx] = IF Rejects(spec, m, c0)
                               THEN Checksum(spec, m, c0) ELSE @]

\* update(): a step towards the bit, kept away from the sentinel.
UpdateContext(spec, m, bit) ==
  LET p  == m.table[m.idx]
      np == p + (((IF bit = 1 THEN PMAX ELSE 0) - p) \div (2 ^ spec.rate))
  IN  [m EXCEPT !.table[m.idx] = IF np < 1 THEN 1
                                 ELSE IF np > PMAX THEN PMAX ELSE np]
=============================================================================
