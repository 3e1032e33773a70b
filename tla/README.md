# Zentropy in TLA+

A verification development for the Zentropy compressor. It models the parts of
the code whose correctness is a matter of state and order: the entropy coder,
the predictor's tables and matches, the transforms of the text with their
decoders, the article layout, the archive container and the methods it names,
the search campaigns with their ledger, the memory guards, and the lock that
serialises heavy runs. TLC checks every module on small instances; TLAPS proves
the results that matter most for every value of the constants.

Run a check with `tlc -config X.cfg M`, a proof with `tlapm M.tla`. The file
`PROJECT.json` names, for every definition that stands for code, the lines it
stands for; for every property, a plausible bug (a broken variant of one
definition, marked "Mutant" or written next to the definition it breaks) that
the property detects; and the hazards of the code, each with the properties
that guard it.

## 1. Inventory

### The system

Zentropy compresses one file, `enwik9`, and has to give it back exactly. An
**archive** is made by the pipeline

    file -> article layout -> byte transforms -> word tokens -> predictor -> range coder -> archive

and undone in the opposite direction by a decoder that runs the same predictor
on the bytes it has decoded. The archive is appended to an executable stub to
make the **self-extracting image** that is submitted. Around that codec stand
the tools of the research: **search campaigns** that encode the corpus under
many tunings and keep their results in an append-only **ledger**, **memory
guards** that keep a run from driving the machine into swap, and a **wrapper
script** that allows one heavy run at a time.

| Component | State it keeps | Operations | Talks to |
|---|---|---|---|
| Range coder, `entropy/mod.rs` | interval `[x1, x2]`, output; decoder: window and position | `encode`, `finish`, `decode` | driven bit by bit by the archive with the predictor's probability |
| Predictor, `context/mod.rs` | expert tables, match tiers, indirect states, ring of distances, word state, partial byte | `predict`, `update` (bit and byte boundary) | mixer and calibration; called identically by encoder and decoder |
| Mixer, calibration, corrector, `mixer`, `learned` | weight tables | `mix`, `update` | the predictor |
| Word tokens, `transform/mod.rs` | vocabulary, id list, definitions, subword units | seven encoders and their decoders | archive; vocabulary builders run once per file |
| Text layers, `transform/mod.rs` | position in the text or stream | hoist, case, case marks, stem, permutation, and their inverses | archive |
| Grammar, `grammar/mod.rs` | rules, symbols, move-to-front ranks, the decoder's stack | six ways to induce and write a grammar, a factor coder, their decoders | archive |
| Article layout, `reorder/mod.rs` | none between files | `split`, `encode` with an order, `restore` | archive |
| Methods and configurations, `archive.rs`, `context/mod.rs` | none: what a method means in a build | the chains of builders, `memory_bytes`, `for_size`, `apply_tune` | encoder, decoder and memory guard, each of which works it out for itself |
| Archive, `archive.rs` | the method in force, the header | `encode_tuned`, `decode`, `peek_header`, `append_sfx`, `extract_sfx` | all of the above |
| Search, `search/mod.rs`, `bin/zentropy.rs` | trials in memory, the ledger on disk | launch, chunk, encode, append, descend, climb, report | ledger (shared with earlier launches and other experiments), worker threads |
| Ledger, `evidence/mod.rs` | the file | append a line | search |
| Memory guards, `memory.rs` | paused polls; the machine's free memory | startup budget, runtime floor | other processes on the machine |
| Wrapper, `tools/run_guarded.sh` | a lock directory and a pid file | take, take over, release, traps | other wrappers, signals, crashes |
| rANS, IR, score, corpus, progress, scripts | - | - | see "Not modelled" |

### What is hard here

* **Symmetry without communication.** Encoder and decoder share nothing but the
  stream. Every adaptive structure (interval, tables, id list, definitions,
  units) exists twice and must move in step; a single missed update makes no
  error, only a wrong file much later.
* **Meanings that are computed twice.** An archive says which method it was made
  with, not which model or which layers: 95 methods pass through some fifty
  tables of features, written out once for the encoder, again for the decoder,
  a third time for the scored build and in part for the memory guard.
* **Codes that share an alphabet.** Marks, escapes and nonterminals are bytes
  that may also occur in the text; rules refer to rules that were written
  earlier, later, or inside them.
* **Stale state inside the predictor.** A match is extended on trust, a nibble
  bucket is derived half a byte after its context is set, a slot is shared by
  contexts, an indirect expert learns under the key of the previous context.
* **Boundaries of fixed-width fields.** Interval arithmetic that must not wrap,
  a step of zero in a narrow interval, one-byte lengths and counts, an id that
  is a token in one form and an escape in others.
* **Crashes and shared files.** A campaign of hour-long trials is expected to be
  killed and resumed; its ledger is written in two writes per receipt and shared
  with every other experiment.
* **Interleavings of processes.** Wrappers race for a lock made of a directory
  and a file; guards of several runs act on samples of the same memory.

### What makes each component correct

* Range coder: the decoder returns what the encoder was given, reads exactly
  the stream, and no word overflows.
* Predictor: a claimed match is a real repeat; a repeat that could be found is
  found; contexts told apart by the layout or the checksum do not train each
  other's slots; seeds, histories, bit states and counts belong to the contexts
  and the moments they are used for.
* Transforms: each decoder is the exact inverse of its encoder in every form
  and mode, in step at every code, and ends on any input but a grammar that
  leads back to itself; an induction never leaves a grammar of another text.
* Layout and archive: the file comes back, each page is written once, the
  fallback of a method reaches every later stage, and the archive found in an
  image is the one appended last.
* Methods: decoder, guard and encoder work out the same model and the same
  layers; no header makes a decoder build tables beyond bound, or the scored one
  a larger model than the accepted method's; a control differs from its
  mechanism in the mechanism alone.
* Search: no trial is paid for by a second chunk, what is paid for is not
  forgotten, memory and ledger agree, a parallel campaign's log is the serial one, and a resumed
  guided walk goes where an uninterrupted one would have gone.
* Guards: a run that is alone never swaps; a run is given up only after a whole
  patience of bad readings; every run ends.
* Wrapper: one heavy run at a time; a crash does not block the machine.

## 2. Modules

| Module | Models | Uses |
|---|---|---|
| `BitChannel` | abstract: bits go in, a record is closed, the same bits come out | |
| `RangeCoder` | `RangeEncoder`, `finish`, `RangeDecoder` | refines `BitChannel` |
| `ContextModel` | a direct expert: slots, two layouts, collision control, seeding, training | |
| `MatchModel` | a match tier | |
| `IndirectState` | the learned state of an indirect expert | |
| `CountModels` | the tables of a state expert and of one order of partial matching | `ContextModel` |
| `Predictor` | composes the four into `predict` / `update` | the four above |
| `IdList` | the list of token ids and its promotions | |
| `WordVocabulary` | vocabulary builders, subword units, suffixes | `IdList` |
| `WordTokens` | seven token codecs, encoder and decoder: the codec machine | `WordVocabulary` |
| `TextLayers` | hoist, case, marks, stem and permutation on that machine | `WordTokens` |
| `Grammar` | seven grammar codecs on that machine | `TextLayers` |
| `Reorder` | split, precondition, assembly, stable restore | |
| `Archive` | the pipeline, the container, the image | `Reorder` |
| `Methods` | 95 methods, and what each switches on in a build | |
| `ModelConfig` | the builders, their chains, and what a model costs | `Methods` |
| `CodecSession` | a file between two builds and the guard | `ModelConfig` |
| `GuidedWalk` | the descent and the climb of the guided schedule | |
| `SearchCampaign` | campaigns and their ledger | `GuidedWalk` |
| `MemoryGuard` | several runs on one machine | |
| `HeavyLock` | the wrapper's lock | |
| `CodecInvariants` | the inductive invariants of the codecs | `Grammar` |
| `RangeCoderProofs`, `PredictorProofs`, `TransformProofs`, `ArchiveProofs`, `CodecSessionProofs`, `SearchCampaignProofs`, `MemoryGuardProofs`, `HeavyLockProofs` | proofs | the module they are about, `TLAPS` |

Each `MC...` module gives a specification the values TLC needs.

### How state and actions correspond to the code

**RangeCoder.** A word is four digits in base `Radix` (256 in the code), so the
32-bit arithmetic is kept, with its `% WORD`, at every radix. `Encode`, `Finish`
and `Decode` are calls of `encode`, `finish` and `decode`; the renormalisation
loop is four guarded turns, and the proof shows that a fifth is never due.
The probability of a bit is any member of `Probs`, the values outside the range
of the clamp included. `trail` is history: the encoder before every symbol.

**Predictor.** `Predict` is `predict()`, `UpdateBit` and `UpdateByte` are
`update()` inside a byte and at its end, where the history grows, word state,
match tiers, ring, indirect states and contexts are refreshed in the order of
`obs_core()` and `refresh_contexts()`; words are kept in lower case. A byte has `2 * D` bits. The experts are
a roster of records, one for every kind of context the code knows; `Parent` is
`compute_parents()`. State experts share one state map, as in the code, and the
counts of the byte model are trees over the partial byte. `Hash`, `Mix`, `Lower`,
`Stem` and `Class` are constants: the proof holds for all of them, the runs use small
ones that collide often. `owners` and the histories are history variables:
which context and partial byte has trained each slot since it was last cold,
and what followed it. The mixer's weights and what turns the experts' outputs
into one number do not feed back into any of this.

**WordTokens, TextLayers, Grammar.** One machine: `form` is the codec, `mode`
its variant, `stage` where encoder or decoder is. In `WordTokens` it runs the
forms `list` (with the three id modes and with withheld entries), `firstuse`,
`subword`, `extended`, `phrase`, `front` and `affix`: `EncodeWord` and
`EncodeByte` write one code each; `ReadCount`, `ReadEntry`, `EndHeader` read the
header; one decoder action per kind of code; `DecodeEnd` for the end of the
stream and for the ways a code can be cut short. Bytes are `0 .. N - 1` (256 in
the code), so all the one-byte fields keep their limits. The vocabularies come
from the builders or from the callers. `TextLayers` adds one action per piece
that a layer takes (a structural string, a word, a byte) and its inverse.
`Grammar` adds the rounds of an induction (`verbatim` by pairs, `mr` by maximal
repeats, `oneshot` by all pairs at once), the renaming of `rrank`, the writing
of rules and body (`mtf` by ranks, `inline` with a rule inside its first use),
the factors of `lzbe`, and the decoders that expand a symbol with a stack. A
rule is two symbols, and one below `N` is a byte. `trail` is history: what was
written for each piece, for `Lockstep`. The streams no encoder wrote are short
ones over the reserved bytes; for the grammars also encoder streams cut
anywhere, and rule tables in which a rule may lead to any other, to itself or to
one there is not (`MCSpec` adds these to `TransformSpec`). `decode` and
`decode_firstuse` expand what they read, so with a rule that leads to itself they
never return: `grammar/mod.rs:235` ("Total on malformed input") and `:279`
("Rule k references only symbols < 256 + k") are false there. `Endless` is that
condition, and `Total` says that decoding ends in every other case. What is not
modelled is the memory `decode` asks for up front, `Vec::with_capacity` of a
count it has just read.

**Reorder and Archive.** A file is a sequence of page tags, ids and other text.
The order of the pages is any permutation for the orders that sort by a key,
and the windowed walk, step by step, for the greedy one. The byte transforms
are layers here that only their own inverse takes off: that each inverse does
is what `transforms` checks. `Downgrade` is `prepare_reorder`'s fallback; from
then on everything follows the replaced method. How long an archive gets is up
to the coder: `Sizes` are the lengths `WriteArchive` chooses from, one of them
beyond `MAX_OUTPUT`, which the decoder refuses.

**Methods, ModelConfig, CodecSession.** A build is its set of features. `Methods`
holds what `archive.rs` asks of a method (`base6`, the token kinds, the layouts,
the arms), each as the set of methods for which it holds in a build;
`ModelConfig` has one operator per builder of `context/mod.rs`, the research
chain `Config`, the scored build's own chain `ScoredConfig`, the tune byte
(`Scale`) and the size in `memory_bytes`. A session is two builds and a
method: `PrepareReorder`, one `Wrap` per layer and `WriteArchive` are
`encode_tuned` in the first build; `Guard` is `guard_decode`, `Refuse`,
`Decode`, one `Peel` per layer and `Unreorder` are `decode` in the second. A
layer is the format it writes or expects; one that meets another format spoils
the text. `ForeignInit` hands guard and decoder a header no encoder wrote.

**SearchCampaign, GuidedWalk.** An action per step of a launch: read the log and
the logs of other shards (`--memory`), cut a chunk, encode it (the worker threads; receipts are sorted before they are
written), write an object, write its newline, report. `Kill`, `KillInGap` and
`DiskFull` end a launch anywhere; `Launch` resumes, and may find a log that it cannot read,
which the code takes for an empty one without a word (`zentropy.rs:1375`). A log line is the sequence
of objects between two newlines, whole or cut between any two fields in the
order `to_json` writes them, and `Field` is `json_field`'s first match. A guided launch plans its next tune from the bytes it knows: the
descent tries the axes in turn, at most `Rounds` times round; the climb follows
the seed's `Moves` and gives up after `Patience` candidates that do not improve.

**MemoryGuard.** `Start` is the startup check against a sample, `Code` is the
work between two checks with any allocation up to the projected peak,
`EnforceFloor` and `Poll` are `enforce_runtime_floor`, `Others` is the rest of
the machine. A read of `/proc/meminfo` may fail, which counts as plenty, and a
line without a number reads as zero, which counts as pressure: `Samples` has
both, and `Misread` tells the latter from a machine that is full.

**HeavyLock.** Each action is one system call of the script: the two `mkdir`s,
`cat`, `kill -0`, `rm -rf` as an unlink and an rmdir, the write of the pid; each
signal and kill is an action of the environment. `set -e`, `HELD` and the trap
that does not exit are kept. A TERM arrives while the command runs (`Term`),
after the trap is set and before the command (`EarlyTerm`), or while `release()`
itself removes the lock (`LateTerm`): bash waits for the `rm` to end, then runs
the trap, and so `release()` once more, before the script goes on. `Init` chooses a schedule: who starts, whether the
wrappers may overlap in the windows between looking at the lock and acting on
it, and which faults happen.

## 3. Runs

| Run | Checks | Instance |
|---|---|---|
| `range_coder` | `CodableInterval`, `Lockstep`, `WholeStreamRead`, refinement `ChannelSpec` | ternary bytes, a scale of 8 with both clamped ends among five probabilities, messages of up to 4 bits |
| `predictor` | `RealMatch`, `NoMissedMatch`, `NoForeignHistory`, `FreshBucket`, `HistoriesTrue`, `SeededByParent` | bytes of 4 bits, eleven experts of every kind, two state experts, two orders of counts, two tiers (one gapped), inputs of up to 7 bytes, of a letter, a capital and a newline |
| `transforms` | `TextRestored`, `Lockstep`, `ListsInverse`, `GrammarOfText`, `Total` | ten byte values; seven token forms, five layers, seven grammar codecs; all short texts, texts that fill the vocabularies, repeats that nest and overlap, cut streams, short foreign ones, rule tables of up to two rules of any symbols |
| `word_length` (violation) | `TextRestored` | a word as long as there are byte values |
| `archive` | `FileRestored`, `EveryPageOnce`, `LastArchiveWins` | all files of up to five elements, files of up to four pages, window of 2, six methods, three stubs, archives of 2 and 5 bytes, outputs of up to 18 |
| `methods` | `ModelsAgree`, `LayersUndone`, `GuardAgrees`, `GeometryBounded`, `AcceptedIsWorst`, `ArmsComparable` | all 95 methods within three builds, the accepted one between any two of the research, default and scored build, the calibration axis's build; five lengths, three tune bytes; every method byte in foreign headers |
| `method_variants` (violation) | `VariantsComparable` | the research build |
| `search_campaign` | `PaidOnce`, `HonestUnlessTorn`, `NothingForgotten`, `LogIsSerial`, `BestReported`, `WalkReproducible`, `Completes` | four tunes, three plans (two of them name a tune twice within a chunk) and a guided walk over two axes of two levels, three jobs, two launches, two shards, all faults |
| `search_torn` (violation) | `MemoryHonest` | one job, two launches, a full disk |
| `memory_guard` | `NeverSwaps`, `KeepsReserve`, `AbortJustified`, `EveryRunEnds` | a research run, an overridden one, a judged one; eight units of memory, of which the others use three amounts; unreadable and malformed readings |
| `heavy_lock` | `ExclusiveWhenSerial`, `LockedWhileRunning`, `NothingLeaked`, `SomeoneRan`, `StaleTakenOver` | four wrappers, one opted out, under five schedules: one at a time with kills and terminations; two one at a time with terminations of a release too; three one at a time with orphaned commands; three in any interleaving with signals during their commands; two with signals at any time once the trap is set |
| `heavy_lock_race` (violation) | `MutualExclusion` | three wrappers, any interleaving, no fault at all |

**Why the bounds are enough.** They are chosen so that every case of the code
happens, not to be large. With ternary bytes and a scale of 8 the interval gets
narrower than the scale within two bits, and renormalisation shifts zero to
four bytes. Slots and checksums of the predictor collide within a few bytes; a
match starts, runs to its saturation, fails and is replaced within seven; the
counts and states saturate. The token texts include vocabularies that are full,
one entry over, and longer than the two-byte ids; with ten byte values the
reserved id, the cap and the length limit are all met. Every layer meets its
own marks, escapes and reserved bytes in the text. The grammar texts make rules
of rules, pairs that overlap themselves (the same byte three times), ties
between pairs, and inductions that reach the bound on rules. The greedy window
is shorter than the pages and also longer. The lengths are those where the
tables change size and the longest output with its successor; the tune bytes
are the accepted one and the two ends, and `Scale` is what they act through.
Two launches are one that is stopped, anywhere, and one that goes on from what
is on disk; what a third could meet, a log with an open or a merged line, a lost
encode or an unread log, the second meets too, and the theorems are for any
number. Three jobs are the fewest with which `--schedule fuzz` repeats a tune
within a chunk. Two levels of two axes have an optimum that the descent
cannot reach. Two paused runs wait on each other's memory. Three wrappers are a
holder, a taker and a third one that overtakes it; an argument for more is the
proof.

**What the violations show** (each is a finding in `PROJECT.json`):

* `heavy_lock_race`: two wrappers that meet the same stale lock, or a lock
  whose owner has not written its pid yet, both run their commands.
  `ExclusiveWhenSerial` and its proof say when exclusion does hold.
* `search_torn`: a receipt cut short by a full disk and the next whole receipt
  make one line, which is read as a trial nobody ran. `HonestUnlessTorn` shows
  that kills between a receipt and its newline only lose trials.
* `word_length`: the length of a vocabulary entry is written in one byte and
  nothing bounds it; 256 letters in a row that repeat are not decoded to what
  was encoded. The checks of `transforms` hold for texts whose entries fit.
* `method_variants`: seven variants of the accepted composite, which the
  comments say differ from it in their token ids only, also lack its third
  calibration stage, so that a measured difference is of both. All other arms
  differ from their controls in one part (`ArmsComparable`).

**Also met while modelling**, and not findings of a run:

* The low half of the nibble layout puts some nodes of different partial bytes
  into one slot, although the comment speaks of a node each
  (`context/mod.rs:428`). It costs compression and not correctness, because both
  sides do the same; `FreshBucket` and `NoForeignHistory` are about what the
  layout does promise.
* The guided climb mutates one axis at a time, by one, two or four levels, and the
  descent ends where no level of any one axis is better. So a climb never
  leaves the tune where the descent ended, unless the bound on rounds stopped
  it, although it is there to escape that optimum (`zentropy.rs:1499-1503`).
  `WalkReproducible` holds all the more.
* "No trial can be paid for twice" (`zentropy.rs:1391-1393`, `search/mod.rs:15`)
  is not so within a chunk: a chunk is filtered against the trials known before
  it and not against itself. `--schedule fuzz` steps forth and back (its seed's
  walk holds 147, 179, 147) and pays twice with three jobs or more; `coord` does
  with enough jobs to reach the accepted tune in both of its sweeps. A launch
  that cannot read the log pays for everything again. `PaidOnce` states what is
  left of the sentence, and the run's plans and faults have both cases: while the
  log is intact, a tune costs what one chunk asks for it, once more for every
  encode that was interrupted, and all over again for every unread log.
* "The geometry of any archive is bounded by the accepted one"
  (`context/mod.rs:1619-1620`, `1695-1697`) is true of the scored build
  (`AcceptedIsWorst`) and not of a research build, where a screen adds tables
  (state experts, the byte model) to the accepted ones. The guard does not rely
  on it: it projects the method the header names (`projected_decode_for`).
* Nothing compares the length of a file with `MAX_OUTPUT` before it is encoded.
  `GuardAgrees` records that guard and decoder then refuse the archive together;
  it does not say that an archive nobody can decode is never written.

**Fairness.** Safety needs none. `Total` assumes that the decoder, a sequential
loop, keeps running (`WF(MCNext)`; the run stops where a state is `Endless`). `Completes` assumes that a launched campaign
runs and that one which did not finish is launched again; faults stay possible
until the last of `MaxRuns` launches. `EveryRunEnds` assumes that a run that
was started is scheduled, and nothing of the rest of the machine.
`StaleTakenOver` assumes that the system runs every script and that every
command ends; nothing is assumed of starts, kills or signals.

**Deadlock** is not checked: every one of these systems ends (a message is
decoded, a campaign reports, a wrapper exits), and the liveness properties say
that it ends where it should.

## 4. Proofs

tlapm checks all eight `...Proofs` modules.

**Range coder.** For every radix of at least 2, scale of at least 2, set of
probabilities and message length: `TypeCorrect` (no word overflows),
`AlwaysCodable`, `DecodingIsExact`, `DecoderInLockstep`, `StreamReadExactly`,
`CoderImplementsChannel`. The invariant is `IInv`. What decides a bit is not
written yet when the bit is coded, so no statement about the bytes put out so
far is inductive; `Commits` speaks of every ending the encoder can still
produce, and says that in all of them the window of a past symbol lies in the
share its bit chose. Narrowing can only lose endings; renormalisation moves
them by a byte (`ShiftTail`); `finish()` picks one (`FlushCommits`). Then the
decoder's window is the stream's, and it takes the same branch (`NextBit`).
`LoopEnds` shows that four turns end the renormalisation.

**Heavy lock.** For any number of wrappers: `OneHeavyRun` and
`LockOutlivesCommand`, from `Serial`: no wrapper starts, and no command ends,
while another one is between reading the lock and acting on it, and a wrapper
is killed only together with its command; TERMs of the command or of a release
are allowed. `heavy_lock_race` shows that without
the first assumption exclusion fails, and where wrappers overlap a second
`release()` may also remove the next holder's lock; an orphaned command next to
the taker of its lock breaks it without the second. So these two theorems are
about takeover and termination, and not about the race or orphans. `MutualExclusion` is not inductive;
`IInv` adds what the lock holds at each point of the script (`LockAt`), who has
`HELD` set (`HeldAt`), and that one wrapper at a time is in its window.

Two more hold in every interleaving. `NoLockIsLeaked`: with kills and orphans at
any point and signals at any point after the trap is set, a wrapper that has ended by itself has removed its lock
(`NothingLeaked`). The lock may have changed hands meanwhile, so the invariant
`SignedInv` speaks of the pid that is in it: that wrapper has `HELD` set and its
removal still before it, or it was killed. `RaceIsWon`: when all have ended, none
was killed and the lock is nobody else's, one of them has run its command
(`SomeoneRan`). A wrapper gives up because it saw another one's pid, or because
its own lock went from under it, and the other one may give up too: `Hopeful`
are those that have run their command or will unless they are killed, `Doomed`
those that will not, and `Chances` says that whoever is doomed or has lost has
left somebody in the race. `HopeStays` shows that no step of another wrapper
takes hope away.

**Predictor.** `MatchesAreReal`: for every alphabet, hash function, tier
geometry, gap and input, `RealMatch`. `MatchInv` adds the types of the tiers.
`MatchGrows` covers an extended match, `MatchStarts` a new one, and
`BoundaryKeeps` combines them for the whole of `byte_boundary`.
`MatchesAreFound` is the other half (`NoMissedMatch`): its invariant
`TablesLatest` says that each tier's table holds, slot by slot, the last place
whose context fell into that slot, so that a tier which finds no match there
has overlooked none.

Four more are about the experts, for any roster. `HistoriesAreOwn`
(`NoForeignHistory`): the checksum in a slot is that of all who trained it since
it was last cold (`Marked`), which a rejection renews before the next one trains
it. `SeedsAreFresh` (`SeededByParent`, an action property): `AllAnswer` shows
that the answers of a step exist, one expert after the other, and
`ParentIsBefore` that a parent has answered before its child asks.
`BucketsAreFresh` (`FreshBucket`): the invariant `Fits` says which buckets an
expert may hold in each half of a byte, before and after its slot is selected;
`PrefixFirst` and `PrefixStays` show that the prefix under which the low bucket
was derived is the same for all bits of the half. Two premises are spelled out:
`PowerAssumption`, the recurrence of the powers of two, which the provers do not
know and TLC evaluates; and, in `BucketsAreFresh` alone, that `Mix` returns a
number, as the code's does of any two words.

`HistoriesAreTrue` (`HistoriesTrue`): what the learned tables remember is what
followed the contexts of their slots, for each of the three kinds of table.
`HistoriesInv` adds to that which slot is selected, because each table learns in
the slot it selected before the byte or bit was known. Of an indirect expert it
says `Listens`: a slot holds the last bytes heard there. `HistoriesTrue` numbers
the places of a slot (`Nth`), and `NthGrows` shows that a place keeps its number
when more follow, and that a new one comes last. Of a state expert it says
`Counts`, over all bits coded so far; `CodedGrows` shows that a coded bit adds
exactly one to them, and `CodedTurns` that the turn of a byte adds none, since a
whole byte and its last partial byte stand for the same bits. Of an order of the
PPM it says `Heeds`: tree, escape count and symbols of a slot are those of its
places, each count up to where it saturates.

**Word tokens.** `IdsStayInverse`: for every alphabet, vocabulary, form and id
mode, the two tables of an id list stay inverse on both sides
(`ListsInverse`). `Touch` moves a run of entries by one place; the lemma
`TouchKeeps` shows that positions and entries move together.

`TextComesBack` (`TextRestored`) and `DecoderKeepsUp` (`Lockstep`) hold for all
seven forms, every promotion mode, every text and every vocabulary, those built
from the text included. Their one premise is `EntriesFit`, that every entry of
the vocabulary is shorter than `N`: the code writes its length in one byte and
bounds it nowhere, and `word_length` shows what happens then. The stream does not
say where its codes end, and the encoder's tables are gone when the decoder
runs. So the invariant `Restores` says that the stream has a `Trace`: a set of
marks, each with a place in the stream, the length of text encoded there, and
the encoder's list and definitions, such that the code the decoder will read at
a mark is a `Link` to another mark. Encoding adds marks (`Reaches`,
`EmitKeeps`); while decoding, the decoder is always at one (`Synced`). The
bytes of a code are the same whoever wrote it, so `Link` speaks of the stream
and not of the encoder's branches: that a letter is not taken for an escape, nor
an id for a mark, is part of every lemma `Emit...`. Below that are lemmas about
what the recursive definitions compute: `Ranked` lists the candidates
(`RankedListed`, on the strict total order of counts and words), the units of
the subword form join known symbols (`DeriveOK`), the pieces of a word spell it
(`PiecesOK`, over `KeepsYield`: replacing a pair by a unit that stands for it
changes nothing), a header is laid out entry by entry (`EntriesAt`), and a
vocabulary fits the ids of its form (`VocabOK`). The recursive functions exist
by induction over the numbers up to a bound (`Recursion`, `CourseOfValues`). The
assumptions are that texts and callers' vocabularies are made of bytes, that a
caller's vocabulary has at most `MAX_TOKENS` entries
(`archive.rs` takes that many), and that there are no more suffixes than byte
values, since a suffix is written as one byte.

**Layers.** `EveryTextComesBack` and `EveryDecoderKeepsUp` carry `TextRestored`
and `Lockstep` to the machine all codecs share (`TransformSpec`): for the hoisted
strings, the two codings of case, the suffixes in front of their stems and the
permutations, for every text, table and alphabet, and for the word tokens as
above. No text is excepted for the layers; the grammars' streams are not part of
it (`Invertible` says for which codecs the theorems speak). The invariant
`Underway` has the same shape with simpler marks, a place and the text read up to
it: the stream is a `Course`, in which from every mark before the end a `Hop`
leads to another, and the encoder's and the decoder's position are marks. What
has to be shown of each code is that the decoder stops where the encoder did. A
letter that follows a marked word in the stream would be taken into it; hence
`WordEnds`, that such a code ends where the text's word does, and the lemma that
what comes next in the stream is then no letter, whatever code it starts. The
cases are told apart by `WordClass`, and what is written in lower case is put
back by `Titled` or `InCapital`, because no two letters have the same capital. The
permutation by frequency is one because no two bytes have the same rank
(`Sooner` is a strict total order, `FrequencyOK`). The assumptions are that texts
and structural strings are made of bytes, that a dictionary code is below `Del`
and no string is empty, that no letter is a mark or a code, and that the
shipped permutation is one; the constants in `transform/mod.rs` are such.

**Grammars.** `GrammarKept` (`GrammarOfText`): for every text, alphabet, rule
budget and form, the rules and the body stand for the text after every round of
the induction, no rule refers to itself or to a later one, and there are never
more rules than the budget allows. The invariant `Induced` says that while a
grammar is induced it is one of the text (`Grammatical`), where what a symbol
stands for is the recursive function `Spelling`. It exists, and new rules at the end
leave it as it is, because every rule refers to earlier symbols (`SpellingGrows`).
The proof then follows a round: a most frequent pair exists and occurs in
the body (`MostFrequentOK`, `RepeatsOK`), the repeat it is extended to occurs
too and is made of known symbols (`MaximalOK`), the pattern left by the budget
needs no more rules than remain (`PatternOK`), the last rule of its chain stands
for the whole pattern (`ChainOK`, `StandsFor`), and replacing its occurrences
changes nothing of what the body stands for (`JumpsKeep`, `RewrittenOK`,
`BodyKept`). `repair_oneshot`, which replaces many pairs in one pass, is the same
lemma with more patterns. The theorem is about `TransformSpec`, so it
also says that no step of another codec touches a grammar. The assumption is
that texts are made of bytes (`GrammarFormsAssumption`).

**Search.** Any plans, any number of jobs and launches, any mix of kills and
full disks. `NothingIsForgotten`: the invariant `Accounted` balances, tune by
tune, the encodes paid for against those lost, those whose receipt is still to
be written, and the receipts in the log, whichever lines they ended on.
`NothingIsInvented` (`HonestUnlessTorn`): `Honest` says that what a launch knows
is real as long as no object in the log is cut; however many whole objects a
line has, `Field`'s first match takes all its fields from the same one.
`BestIsReported`: a tune the launch has passed is known or about to be
(`Planned`), and the least element of a set of numbers exists (`LeastNat`, by
well-foundedness). `NothingIsPaidTwice` (`PaidOnce`), for any plans, those that
repeat a tune included, and with unread logs: `Once` says that the receipts of a
tune in the log and on their way are at most as many as one chunk names the
tune, that many more for every launch that did not read the log, and that any
other launch knows of those in the log; with `Accounted` that bounds the encodes.

`WalksAreReproducible` compares walks that were interrupted at different points,
in logs of different history. A walk decides by what it knows, so the invariant
`WalkKnown` says that at every decision all it compares has been measured: its
next step is then the one that the costs dictate (`TrueStep`). `Walked` says
that the walk is `Reached` from the start by such steps alone; two walks that
have ended are ends of two such traces, and the shorter one is the beginning of
the longer (`WalksEndAlike`). `NoneBetter` carries through the descent that no
level of an axis passed without improvement is better. One assumption is new,
and is the code's: no archive is as large as the `u64::MAX` that stands for an
unknown size (`SizeAssumption`).

`LogsAreSerial` is the abstract serial campaign as an invariant: while the log
is intact, every launch has read it and one ascending plan is all that was ever
asked for, `Serial` says
that the log is the receipts of the first `n` tunes of that plan, behind at most
one line of another experiment, that a running launch knows exactly those, and
that the tunes of its chunk are the next ones. Both what the log says in its
order and what the serial order is are folds over sequences; `FoldExists` shows
that the function behind a fold exists and `UpTo` takes its equation from each
place to the next.

**Memory guards.** For any finite set of runs, and any limits, projections and
samples. `NothingSwaps` and `ReserveKept` rest on `Granted`: as long as a run
that was admitted has the machine to itself, its projected peak, the rest of the
machine and, for a research run, the reserve fit into memory together. The memory in use is a sum over the runs; the lemmas
`SumsExist`, `SumAdds` and `SumOfOne` establish what such sums do, by the least
number of elements for which they would not. Both are about a run that has the
machine to itself: for two runs that start together they are false, since
nothing reserves what a run was granted. `AbortsAreJustified` (an action
property) counts the looks of a pause: of all of them, from the one that paused
the run to the one that gives it up, each found memory short or took a line
without a number for zero (`PollLooks`, `LookedStep`).

**Sessions.** `SessionInvariant`, for any set of builds that is closed under the
features of `Cargo.toml` (`Closed`): at every stage the layers on the text are
the stack the writers made, the header names the method in force, and the guard
has judged that header's model. `LayersUndoneAlways`, `GuardAgreesAlways` and
`ModelsAgreeAlways` follow. The last one between two different builds rests on
the two chains making the same model of the accepted method, which
`AcceptedMatches` and its neighbours compute builder by builder; for other
methods the theorem is about one build on both sides, and `SessionsAssumption`
says so.

**Geometry** (also in `CodecSessionProofs`). `ModelBounded`: for every method, tune byte, length and build, no
table of the model has more than eight times the slots that the length calls
for. `Configs(t)` is the set of configurations within the bound, and each
builder is shown to map it into itself, so any chain of them does.
`GeometryBoundedAlways` takes this to every header a decoder may get. That
bounds each table; how large all of them are together is `AcceptedIsWorst`,
which is only checked.

**Experiments** (there too). `ArmsComparableAlways`: in a research build that has the
mechanisms, whatever the tune byte and the length, an arm and its control differ
in exactly one part (`ArmsComparable`, for all arms but those of the finding).
The pairs fall into those measured in a layer (`LayerArms`) and those measured
in the model (`ModelArms`); of the first the chains of builders make the same
model (`LayerArmsAlike`), of the second the layers are the same
(`ModelArmsAlike`) and the chains differ in one field (`ModelArmsDiffer`). The premise
that the encoder is no scored build is because that one compiles the arms out.

**Archive.** `LastArchiveFound`: for every stub, archive and size, what
`extract_sfx` finds is what `append_sfx` put there (`LastArchiveWins`). The
stub may hold markers: `Extraction` shows that the suffix's own marker is the
last one and that the length behind it is the suffix's. `PagesWrittenOnce`: for
every file, order and window of at least two pages, `EveryPageOnce`. The
invariant is `Deal`: the pages ordered, those in the window and those waiting
are pairwise different and together as many as the file has, and an empty
window means that none is waiting; `ShiftKeeps` is the step that takes one page
out of the window and moves one up. With a window of one page the start would
leave an empty window and a rest, which is why `WAssumption` asks for two (the
code has 64).

`FilesAreRestored`: whatever the file, the permutation of its pages and the
layers of the method, decoding gives back the file that was encoded
(`FileRestored`). The header keeps no order,
so the decoder must find the pages and their ids in a text whose pages have been
moved. A page stream has one layout, and only one, as a header, pages of the
form open, id, text, close, and a tail (`LaidOut`, `LaidUnique`; `StreamIs` and
`SplitIs` say that `split` computes it), and a header, the same pages in any
order, and the tail is a page stream again with just these pages. The
pages are reordered only when their ids ascend strictly (`AscendingIds`), hence sorting
by id inverts any permutation (`Rank`, `SortUndoes`, `SortedBack`, `Restored`);
with two equal ids it could not. The invariant is `TextInv` next to `Deal`'s
`WalkInv`: from the reordering to the extractor's last step the text fits the
file (`Fits`), and the layers on it are the first ones of the method's stack up
to the place the chain has reached (`StackIs`, `Peel`). What `FindAll` lists is
established by `FindsAll` and `ListUnique`, through the least place at which it
would not. The assumptions are that files are sequences of strings
(`FilesAssumption`) and ids are naturals (`PageIdsAssumption`); that a page
stream has a page is the lemma `PagesCounted`.

What stays with TLC: liveness (fairness and ENABLED are outside the prover);
the round trips of the streams that write a grammar, which `transforms` checks.
What a definition by recursion computes is within reach when it is a recursive
function or a fold over known data, by the least counterexample or by induction
over the numbers up to a bound, and the proofs of the campaigns, the memory
guards, the archive, the word tokens, the layers and the grammars do that; for definitions by RECURSIVE the
prover has no backend. Also `AcceptedIsWorst`, a comparison of sums over the
experts of all methods.

## 5. Not modelled

* Mixer, calibration and learned corrector: they turn the experts' answers into
  a probability, and the coder is proved exact for any probability both sides
  agree on. That both sides do the same floating and fixed-point arithmetic is
  the compiler's business. For the same reason the numbers inside the state map
  and the blending of the byte model's orders are left out; what they are
  indexed by is modelled.
* The header's bytes: it is a record, and its fields are what the sides agree
  on. The pricing of vocabulary entries (`vocab-price`), which sums the
  predictor's costs in floating point, and the measuring variants of
  `encode_tuned`.
* The features that rank pages for the sorting orders: any permutation.
* The projections of a run's memory use: inputs of `MemoryGuard`. What the size
  of a model is, from which the guard starts, is in `ModelConfig`.
* rANS, which no method uses: its coding is table arithmetic in one pass, in the
  opposite direction. (Its frequency normalisation asserts that a symbol keeps
  a count of one, which a very skewed table of many symbols can break.)
* The intermediate representation, the score arithmetic, corpus reading,
  SHA-256, the progress display, and the measuring scripts: a single pass, an
  inequality, or a published algorithm, without state that anything shares.

## 6. Plan

Done, in this order: range coder with its refinement and proofs; heavy lock;
campaigns and ledger; memory guards; predictor; word tokens; archive; the other
text layers; grammars; state and count experts; methods and configurations with
sessions between builds; the guided walk; the proofs of the campaigns, of the
sessions, of the geometry, of the lock under any interleaving, of the memory
guards, of the serial log and the reproducible walk, of the experts with
all that their tables remember, of the file that comes back from its archive,
of the text that comes back from its tokens and from its layers, and
of the grammar that every round keeps.

What could come next:

1. rANS as a second implementation of `BitChannel`.
2. The round trips of the grammars' streams as theorems.
3. The prize gate of `score/mod.rs`, whose comment includes its bound where the
   comparison excludes it.
