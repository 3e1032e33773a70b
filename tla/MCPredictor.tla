---------------------------- MODULE MCPredictor -----------------------------
(* Bytes of four bits and words of six, so that slots and checksums        *)
(* collide within a few bytes; three of the sixteen bytes occur, two of    *)
(* them with the same high half: the letter 4, the capital of the letter   *)
(* 5, and the newline.                                                     *)
EXTENDS Predictor

MCMix(c, k) == (c + 29 * k) % 64

MCHash(s) ==
  LET h[n \in 0 .. Len(s)] == IF n = 0 THEN 11 ELSE (5 * h[n - 1] + 7 * s[n] + 3) % 64
  IN  h[Len(s)]

Expert(kind, order) ==
  [kind |-> kind, order |-> order, gap |-> 1, slots |-> 16, rate |-> 1,
   verify |-> IF kind = "order" THEN 1 ELSE 0, nibble |-> FALSE,
   hist |-> 2, chained |-> FALSE, wrong |-> FALSE]

Nibble(e)  == [e EXCEPT !.nibble = TRUE, !.verify = 0]

MCExperts ==
  <<Expert("order", 0), Nibble(Expert("order", 1)), Expert("word", 0),
    Expert("order", 2), Expert("sparse", 1),
    [Expert("indirect", 1) EXCEPT !.chained = TRUE], Expert("bigram", 0),
    Nibble(Expert("column", 0)), Nibble(Expert("match_byte", 0)),
    Expert("stem", 0), Expert("word_class", 0)>>

MCStateExperts == << [order |-> 1, slots |-> 16], [order |-> 2, slots |-> 8] >>

MCPpmSlots == <<2, 4>>

\* The byte 6 is the capital of the letter 5.
MCLower(b) == IF b = 6 THEN 5 ELSE b

\* A word of three letters or more loses its last one.
MCStem(w) == IF Len(w) > 2 THEN SubSeq(w, 1, Len(w) - 1) ELSE w

MCClass(w) == IF w = <<4>> THEN 1 ELSE 0

MCTiers == <<[slots |-> 4, min_len |-> 1, gap |-> 0, dist_scaled |-> TRUE],
             [slots |-> 2, min_len |-> 2, gap |-> 1, dist_scaled |-> FALSE]>>

=============================================================================
