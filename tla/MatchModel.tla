----------------------------- MODULE MatchModel -----------------------------
(***************************************************************************)
(* One match tier of src/src/context/mod.rs (MatchModel): when the bytes   *)
(* before the current position occurred before, predict that what followed *)
(* them then follows now.  buf is everything coded so far; ptr counts from *)
(* 0, so the byte it names is buf[ptr + 1].                                *)
(***************************************************************************)
EXTENDS Integers, Sequences, FiniteSets

CONSTANTS
  Hash(_),      \* hash_bytes(): a 32-bit word for a string of bytes
  NearBits,     \* distances of more bits count as far: 10 in the code
  Steps,        \* the lengths at which a match is trusted more: {12, 24}
  MAX_LEN       \* where the match length saturates: 63 in the code

\* A new tier of spec: [slots, min_len, gap, dist_scaled].
NewMatchModel(spec) ==
  [table |-> [s \in 0 .. spec.slots - 1 |-> 0],
   ptr |-> 0, len |-> 0, off |-> 0, pred_byte |-> 0]

\* The min_len bytes that end gap bytes before position p.
MatchContext(spec, buf, p) ==
  SubSeq(buf, p - spec.min_len - spec.gap + 1, p - spec.gap)

Slot(spec, buf, p) == Hash(MatchContext(spec, buf, p)) % spec.slots

\* Mutant: a match goes on whatever the byte was.
ExtendBlindly(buf, m) ==
  IF m.len > 0 /\ m.ptr < Len(buf)
  THEN [m EXCEPT !.ptr = @ + 1, !.len = IF @ < MAX_LEN THEN @ + 1 ELSE MAX_LEN]
  ELSE [m EXCEPT !.len = 0]

\* A match goes on when it predicted the byte just appended.
Extend(buf, m) ==
  IF m.len > 0 /\ m.ptr < Len(buf) /\ buf[m.ptr + 1] = buf[Len(buf)]
  THEN [m EXCEPT !.ptr = @ + 1, !.len = IF @ < MAX_LEN THEN @ + 1 ELSE MAX_LEN]
  ELSE [m EXCEPT !.len = 0]

LongEnough(spec, buf) == Len(buf) >= spec.min_len + spec.gap

Candidate(spec, buf, m) == m.table[Slot(spec, buf, Len(buf))]

\* Does a new match start here?  Then byte_boundary() returns its distance,
\* Len(buf) - Candidate.
Starts(spec, buf, m) ==
  /\ LongEnough(spec, buf)
  /\ Extend(buf, m).len = 0
  /\ Candidate(spec, buf, m) >= spec.min_len + spec.gap
  /\ Candidate(spec, buf, m) < Len(buf)
  /\ MatchContext(spec, buf, Candidate(spec, buf, m))
       = MatchContext(spec, buf, Len(buf))

\* Mutant: a running match does not enter its position in the table.
ByteBoundarySkipping(spec, buf, m) ==
  LET e == Extend(buf, m)
      c == Candidate(spec, buf, m)
  IN  IF ~LongEnough(spec, buf) \/ e.len > 0 THEN e
      ELSE LET n == [e EXCEPT !.table[Slot(spec, buf, Len(buf))] = Len(buf)]
           IN  IF Starts(spec, buf, m)
               THEN [n EXCEPT !.ptr = c, !.len = spec.min_len,
                              !.off = Len(buf) - c]
               ELSE n

\* byte_boundary(), after a byte was appended to buf.
ByteBoundary(spec, buf, m) ==
  IF ~LongEnough(spec, buf) THEN m
  ELSE LET c == Candidate(spec, buf, m)
           n == [Extend(buf, m) EXCEPT
                   !.table[Slot(spec, buf, Len(buf))] = Len(buf)]
       IN  IF Starts(spec, buf, m)
           THEN [n EXCEPT !.ptr = c, !.len = spec.min_len,
                          !.off = Len(buf) - c]
           ELSE n

\* begin_byte(): the byte the match predicts next.
BeginByte(buf, m) ==
  IF m.len > 0 /\ m.ptr < Len(buf)
  THEN [m EXCEPT !.pred_byte = buf[m.ptr + 1]]
  ELSE [m EXCEPT !.len = 0]

\* effective_len(): in a scaled tier, a far match counts for less.
EffectiveLen(spec, m) ==
  LET bits == CHOOSE n \in 1 .. 30 :
                m.off < 2 ^ n /\ (n = 1 \/ 2 ^ (n - 1) <= m.off)
      pen  == IF bits > NearBits THEN bits - NearBits ELSE 0
  IN  IF ~spec.dist_scaled THEN m.len
      ELSE IF m.len > pen THEN m.len - pen ELSE 0

\* state(): 0 without a match, and otherwise how far it is trusted.
MatchState(spec, m) ==
  IF m.len = 0 THEN 0
  ELSE 1 + Cardinality({l \in Steps : l <= EffectiveLen(spec, m)})
=============================================================================
