----------------------------- MODULE RangeCoder -----------------------------
(***************************************************************************)
(* The carryless binary range coder of src/src/entropy/mod.rs: one         *)
(* RangeEncoder that codes a message of bits, its finish(), and one        *)
(* RangeDecoder that reads the bytes back with the same probabilities.     *)
(*                                                                         *)
(* A machine word is four digits in base Radix (256 in the code).  The     *)
(* probability of each bit is whatever the caller passes; coder and        *)
(* decoder see the same one, because both run the same predictor over the  *)
(* same decoded prefix.  That the prefix IS the same is what Exact says.   *)
(***************************************************************************)
EXTENDS Integers, Sequences

CONSTANTS
  Radix,        \* values of one byte: 256 in the code
  PROB_SCALE,   \* the denominator of a probability: 4096 in the code
  Probs,        \* the probabilities a caller may pass
  MaxBits       \* the bound on the length of a message

ASSUME RadixAssumption == Radix \in Nat /\ Radix >= 2
ASSUME ScaleAssumption == PROB_SCALE \in Nat /\ PROB_SCALE >= 2
ASSUME ProbsAssumption == Probs \subseteq Nat
ASSUME MaxBitsAssumption == MaxBits \in Nat

Byte == 0 .. Radix - 1
TOP  == Radix * Radix * Radix     \* the weight of a word's first byte
WORD == TOP * Radix               \* the number of words
Word == 0 .. WORD - 1

VARIABLES
  phase,    \* "encode" until finish() is called, "decode" from then on
  sent,     \* the message: what encode() was called with, in order
  enc,      \* the encoder: its interval [x1, x2] and its output bytes
  trail,    \* history: the encoder before each symbol, and now
  stream,   \* the bytes finish() returned
  dec,      \* the decoder: its interval, its window x and its position
  got       \* the bits decode() returned, in order

vars == <<phase, sent, enc, trail, stream, dec, got>>

-----------------------------------------------------------------------------
(* The arithmetic both sides share. *)

\* Mutant: a probability of one is let through.
ClampLowOnly(p) == IF p < 1 THEN 1 ELSE p

Clamp(p) ==
  IF p < 1 THEN 1 ELSE IF p > PROB_SCALE - 1 THEN PROB_SCALE - 1 ELSE p

Split(x1, x2, p) == x1 + ((x2 - x1) \div PROB_SCALE) * Clamp(p)

TopByte(x) == x \div TOP

\* Does x1 ^ x2 have a zero top byte?
TopsEqual(r) == TopByte(r.x1) = TopByte(r.x2)

ShiftLow(x)  == (x * Radix) % WORD                   \* x1 <<= 8
ShiftHigh(x) == ((x * Radix) % WORD) + (Radix - 1)   \* (x2 << 8) | 0xff

\* The part of r's interval that stands for a bit of probability p.
Narrow(r, bit, p) ==
  IF bit = 1 THEN [r EXCEPT !.x2 = Split(r.x1, r.x2, p)]
             ELSE [r EXCEPT !.x1 = Split(r.x1, r.x2, p) + 1]

-----------------------------------------------------------------------------
(* The encoder. *)

NewEncoder == [x1 |-> 0, x2 |-> WORD - 1, out |-> <<>>]

\* One turn of the renormalisation loop, or nothing when its test fails.
ShiftOut(e) ==
  IF TopsEqual(e)
  THEN [x1  |-> ShiftLow(e.x1), x2 |-> ShiftHigh(e.x2),
        out |-> Append(e.out, TopByte(e.x2))]
  ELSE e

\* Mutant: the renormalisation loop is an if.
EncodeBitOnce(e, bit, p) == ShiftOut(Narrow(e, bit, p))

\* The loop ends within four turns: a word has four bytes (RangeCoderProofs
\* shows that a fourth turn always leaves two different top bytes).
EncodeBit(e, bit, p) ==
  ShiftOut(ShiftOut(ShiftOut(ShiftOut(Narrow(e, bit, p)))))

Digits(x) ==
  <<x \div TOP, (x \div (Radix * Radix)) % Radix, (x \div Radix) % Radix,
    x % Radix>>

\* Mutant: finish() drops the last byte of x1.
FlushShort(e) == e.out \o SubSeq(Digits(e.x1), 1, 3)

Flush(e) == e.out \o Digits(e.x1)

-----------------------------------------------------------------------------
(* The decoder. *)

\* Mutant: the last byte of the stream is taken for the end.
NextByteShort(s, pos) == IF pos + 1 < Len(s) THEN s[pos + 1] ELSE 0

\* Reading past the end yields zero.
NextByte(s, pos) == IF pos < Len(s) THEN s[pos + 1] ELSE 0

Window(s, n) ==
  ((NextByte(s, n) * Radix + NextByte(s, n + 1)) * Radix
     + NextByte(s, n + 2)) * Radix + NextByte(s, n + 3)

NewDecoder(s) ==
  [x1 |-> 0, x2 |-> WORD - 1, x |-> Window(s, 0), pos |-> 4]

ShiftIn(s, d) ==
  IF TopsEqual(d)
  THEN [x1  |-> ShiftLow(d.x1), x2 |-> ShiftHigh(d.x2),
        x   |-> ((d.x * Radix) % WORD) + NextByte(s, d.pos),
        pos |-> d.pos + 1]
  ELSE d

DecodedBit(d, p) == IF d.x <= Split(d.x1, d.x2, p) THEN 1 ELSE 0

DecodeBit(s, d, p) ==
  ShiftIn(s, ShiftIn(s, ShiftIn(s, ShiftIn(s, Narrow(d, DecodedBit(d, p), p)))))

-----------------------------------------------------------------------------
Init ==
  /\ phase = "encode"
  /\ sent = <<>>
  /\ enc = NewEncoder
  /\ trail = <<NewEncoder>>
  /\ stream = <<>>
  /\ dec = NewDecoder(<<>>)
  /\ got = <<>>

Encode ==
  /\ phase = "encode"
  /\ Len(sent) < MaxBits
  /\ \E bit \in {0, 1}, p \in Probs :
       /\ sent' = Append(sent, [bit |-> bit, p |-> p])
       /\ enc' = EncodeBit(enc, bit, p)
       /\ trail' = Append(trail, EncodeBit(enc, bit, p))
  /\ UNCHANGED <<phase, stream, dec, got>>

Finish ==
  /\ phase = "encode"
  /\ phase' = "decode"
  /\ stream' = Flush(enc)
  /\ dec' = NewDecoder(Flush(enc))
  /\ UNCHANGED <<sent, enc, trail, got>>

Decode ==
  /\ phase = "decode"
  /\ Len(got) < Len(sent)
  /\ LET p == sent[Len(got) + 1].p
     IN  /\ got' = Append(got, DecodedBit(dec, p))
         /\ dec' = DecodeBit(stream, dec, p)
  /\ UNCHANGED <<phase, sent, enc, trail, stream>>

Next == Encode \/ Finish \/ Decode

Spec == Init /\ [][Next]_vars

-----------------------------------------------------------------------------
(* Type correctness. *)

Symbol  == [bit : {0, 1}, p : Probs]
Encoder == [x1 : Word, x2 : Word, out : Seq(Byte)]
Decoder == [x1 : Word, x2 : Word, x : Word, pos : Nat]

\* Every word stays below 2^32: no step of the coder or the decoder wraps,
\* although the code never checks an addition or a multiplication.
TypeOK ==
  /\ phase \in {"encode", "decode"}
  /\ sent \in Seq(Symbol)
  /\ enc \in Encoder
  /\ trail \in Seq(Encoder)
  /\ stream \in Seq(Byte)
  /\ dec \in Decoder
  /\ got \in Seq({0, 1})

-----------------------------------------------------------------------------
(* Safety. *)

\* The invariant the encoder's doc comment states (entropy/mod.rs:28-29),
\* for both coders: before each symbol x1 <= x2 and the top bytes differ.
\* It is what leaves both bits a non-empty share of the interval.
CodableInterval ==
  \A r \in {enc, dec} : r.x1 <= r.x2 /\ ~TopsEqual(r)

\* The decoder repeats the encoder: before symbol k+1 its interval is the
\* one the encoder had before symbol k+1, it has taken in exactly the bytes
\* the encoder had put out by then and the four of its window, and the
\* window lies inside the interval.
Lockstep ==
  phase = "decode" =>
    LET at == trail[Len(got) + 1]
    IN  /\ dec.x1 = at.x1 /\ dec.x2 = at.x2
        /\ dec.pos = Len(at.out) + 4
        /\ dec.x1 <= dec.x /\ dec.x <= dec.x2

\* The bits decode() has returned are the first bits encode() was given.
Exact ==
  /\ Len(got) <= Len(sent)
  /\ \A k \in 1 .. Len(got) : got[k] = sent[k].bit

\* consumed() never passes the end of a stream the encoder produced, so the
\* zeros next_byte() invents past the end never decide a bit; and when the
\* last bit is out, exactly the whole stream has been consumed.
WholeStreamRead ==
  phase = "decode" =>
    /\ dec.pos <= Len(stream)
    /\ Len(got) = Len(sent) => dec.pos = Len(stream)

\* The coder implements the bit channel.
Channel == INSTANCE BitChannel WITH
  written <- [k \in 1 .. Len(sent) |-> sent[k].bit],
  closed  <- phase = "decode",
  read    <- got

ChannelSpec == Channel!Spec

-----------------------------------------------------------------------------
(* The inductive invariant behind Lockstep and Exact (RangeCoderProofs).   *)
(* What decides a bit is not yet written when the bit is coded, so the     *)
(* invariant speaks of every ending the encoder can still produce.         *)

Tail4 == Byte \X Byte \X Byte \X Byte

WindowOf(t) == ((t[1] * Radix + t[2]) * Radix + t[3]) * Radix + t[4]

\* The four-byte endings that lie in the interval of r: whatever is coded
\* from r on, the four bytes that follow r's output are one of these.
Tails(r) == {t \in Tail4 : r.x1 <= WindowOf(t) /\ WindowOf(t) <= r.x2}

\* Every stream the encoder can still produce from e shows, at position n,
\* a window in lo .. hi.
Commits(e, n, lo, hi) ==
  /\ n <= Len(e.out)
  /\ \A t \in Tails(e) :
       lo <= Window(e.out \o t, n) /\ Window(e.out \o t, n) <= hi

\* The part of the interval the k-th bit chose.
Share(k) == Narrow(trail[k], sent[k].bit, sent[k].p)

Codable(r) == r.x1 <= r.x2 /\ ~TopsEqual(r)

\* The history is the run of the encoder over the message.
TrailOK ==
  /\ Len(trail) = Len(sent) + 1
  /\ trail[1] = NewEncoder
  /\ trail[Len(sent) + 1] = enc
  /\ \A k \in 1 .. Len(sent) + 1 :
       Codable(trail[k]) /\ Len(trail[k].out) <= Len(enc.out)
  /\ \A k \in 1 .. Len(sent) :
       trail[k + 1] = EncodeBit(trail[k], sent[k].bit, sent[k].p)

\* While encoding, no coded bit can be changed by what follows it.
EncodeInv ==
  /\ got = <<>>
  /\ Codable(dec)
  /\ \A k \in 1 .. Len(sent) :
       Commits(enc, Len(trail[k].out), Share(k).x1, Share(k).x2)

\* The decoder d of the stream s stands where the encoder was at e.
Tracks(e, d, s) ==
  /\ d.x1 = e.x1 /\ d.x2 = e.x2
  /\ d.pos = Len(e.out) + 4
  /\ d.x = Window(s, Len(e.out))

\* While decoding, the stream shows in every window what the bit chose.
DecodeInv ==
  /\ Len(stream) = Len(enc.out) + 4
  /\ Window(stream, Len(enc.out)) = enc.x1
  /\ \A k \in 1 .. Len(sent) :
       LET w == Window(stream, Len(trail[k].out))
       IN  Share(k).x1 <= w /\ w <= Share(k).x2
  /\ Len(got) <= Len(sent)
  /\ \A k \in 1 .. Len(got) : got[k] = sent[k].bit
  /\ Tracks(trail[Len(got) + 1], dec, stream)

IInv ==
  /\ TypeOK
  /\ TrailOK
  /\ phase = "encode" => EncodeInv
  /\ phase = "decode" => DecodeInv
=============================================================================
