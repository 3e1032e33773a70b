--------------------------- MODULE SearchCampaign ---------------------------
(***************************************************************************)
(* Tuning campaigns (cmd_sweep_tune in bin/zentropy.rs) over fixed plans   *)
(* of tunes or along a guided walk, and their memory: the receipt log, a   *)
(* file of JSON lines that every launch reads before it measures anything. *)
(* A launch encodes its plan in chunks of Jobs trials, and appends the     *)
(* receipts of a chunk one by one, each as two writes: the object, and the *)
(* newline.                                                                *)
(*                                                                         *)
(* A receipt is what the reader looks for in it, in the order in which the *)
(* object holds it: the digest of the corpus, the archive's bytes, the     *)
(* method (with the attribution before it), the tune.  A line of the log   *)
(* is the sequence of the objects, whole or cut short, that were written   *)
(* between two newlines.                                                   *)
(***************************************************************************)
EXTENDS GuidedWalk, FiniteSets, SequencesExt

CONSTANTS
  Tunes,     \* the tunes of the plan and of the log
  Logged,    \* of these, the tunes some other experiment may have logged
  Plans,     \* what a launch may be asked for: the tunes to measure, in the
             \*   order the schedule or --tunes puts them
  Jobs,      \* --jobs
  Shards,    \* what the logs that --memory names may hold: the tunes that the
             \*   other shards of a campaign have measured
  Guided,    \* whether a launch may ask for --schedule guided
  Cost,      \* the bytes of the archive that each tune gives
  MaxRuns,   \* the bound on launches; the last one is not interrupted
  Faults,    \* subset of {"kill", "gap", "full", "unread"}
  Here,      \* the corpus and method of this campaign
  Elsewhere, \* some other corpus or method
  Missing,   \* a field that was not written
  Garbled    \* a field cut in the middle of its value

\* What stands for the size of an archive that is not known: u64::MAX.
Unmeasured == 1073741824

ASSUME TunesAssumption ==
  Tunes \subseteq Nat /\ (Guided => Tunes = 0 .. Levels * Levels - 1)
ASSUME LoggedAssumption == Logged \subseteq Tunes
ASSUME PlansAssumption == Plans \subseteq Seq(Tunes)
ASSUME GuidedAssumption == Guided \in BOOLEAN
ASSUME ShardsAssumption == Shards \subseteq SUBSET Tunes /\ {} \in Shards
ASSUME JobsAssumption == Jobs \in Nat \ {0}
ASSUME CostAssumption == Cost \in [Tunes -> Nat]
ASSUME SizeAssumption == \A t \in Tunes : Cost[t] < Unmeasured
ASSUME MaxRunsAssumption == MaxRuns \in Nat \ {0}
ASSUME FaultAssumption == Faults \subseteq {"kill", "gap", "full", "unread"}
ASSUME MarksAssumption ==
  /\ Here # Elsewhere /\ Missing # Garbled
  /\ {Missing, Garbled} \cap (Nat \cup {Here, Elsewhere}) = {}

VARIABLES
  pc,     \* "off", or where the campaign is
  runs,   \* how often it has been launched
  plan,   \* the plan of the current launch
  asked,  \* history: what the launches were asked for: a plan or a walk, and
          \*   the logs of other shards
  blind,  \* history: how many launches could not read a log there was
  pos,    \* how much of the plan has been cut into chunks
  batch,  \* how many trials of each tune of the chunk are still to be receipted
  all,    \* the trials the campaign knows of
  log,    \* the receipt log: a sequence of lines
  open,   \* the last line of the log has no newline
  paid,   \* history: how often each tune has been encoded
  lost,   \* history: how many of its encodes died without a receipt
  best,   \* the trial the campaign reported
  walk,   \* where the guided walk of the launch is
  ends    \* history: the points at which guided walks have ended

vars == <<pc, runs, plan, asked, blind, pos, batch, all, log, open, paid, lost, best,
          walk, ends>>

-----------------------------------------------------------------------------
(* Reading the log: evidence of earlier trials. *)

\* json_field: the first occurrence of the key in the line decides.
Field(line, f) ==
  LET having == {k \in DOMAIN line : line[k][f] # Missing}
  IN  IF having = {} THEN Missing ELSE line[Min(having)][f]

\* Mutant: a trial on any corpus counts.
IsTrialAnywhere(line) ==
  /\ Field(line, "corpus") # Missing
  /\ Field(line, "method") = Here
  /\ Field(line, "bytes") \in Nat
  /\ Field(line, "tune") \in Tunes

IsTrial(line) ==
  /\ Field(line, "corpus") = Here
  /\ Field(line, "method") = Here
  /\ Field(line, "bytes") \in Nat
  /\ Field(line, "tune") \in Tunes

\* Mutant: the last tune on the line is taken, and the first size.
TrialOfLast(line) ==
  [tune |-> line[Len(line)].tune, bytes |-> Field(line, "bytes")]

TrialOf(line) == [tune |-> Field(line, "tune"), bytes |-> Field(line, "bytes")]

TrialsIn(lines) == {TrialOf(l) : l \in {l \in ToSet(lines) : IsTrial(l)}}

\* The campaign inserts into `tried` and pushes onto `all` together.
TunesOf(trials) == {t.tune : t \in trials}
Tried == TunesOf(all)

-----------------------------------------------------------------------------
(* Writing it. *)

Receipt(t) == [corpus |-> Here, bytes |-> Cost[t], method |-> Here, tune |-> t]

\* The receipts of the same tune on another corpus and with another method.
Foreign(t) ==
  { [corpus |-> Elsewhere, bytes |-> 0, method |-> Here, tune |-> t],
    [corpus |-> Here, bytes |-> 0, method |-> Elsewhere, tune |-> t] }

\* Mutant: the file is opened for writing, not for append.
OverwriteObject(obj) == log' = << <<obj>> >>

\* The file is opened for append: after a missing newline, the object goes
\* on the same line.
AddObject(obj) ==
  log' = IF open THEN [log EXCEPT ![Len(log)] = Append(@, obj)]
                 ELSE Append(log, <<obj>>)

\* The objects a write of obj that runs out of space may leave behind.  (One
\* that is cut after its tune leaves what KillInGap leaves.)
Cuts(obj) ==
  { [corpus |-> c, bytes |-> b, method |-> m, tune |-> t] :
      c \in {obj.corpus, Garbled, Missing},
      b \in {obj.bytes, Garbled, Missing},
      m \in {obj.method, Garbled, Missing},
      t \in {Garbled, Missing} }
CutShort(obj) ==
  {c \in Cuts(obj) :
     /\ c.corpus # obj.corpus => c.bytes = Missing
     /\ c.bytes # obj.bytes => c.method = Missing
     /\ c.method # obj.method => c.tune = Missing}

-----------------------------------------------------------------------------
(* The reports. *)

Better(s, t) == s.bytes < t.bytes \/ (s.bytes = t.bytes /\ s.tune < t.tune)

\* Mutant: the tie goes to the larger tune.
LastBestOf(trials) ==
  IF trials = {} THEN [tune |-> 0, bytes |-> 0]
  ELSE CHOOSE s \in trials :
         \A t \in trials : s.bytes < t.bytes \/ (s.bytes = t.bytes /\ s.tune >= t.tune)

\* observe(): the smallest archive, and of those the smallest tune.
BestOf(trials) ==
  IF trials = {} THEN [tune |-> 0, bytes |-> 0]
  ELSE CHOOSE s \in trials : \A t \in trials \ {s} : Better(s, t)

-----------------------------------------------------------------------------
NoTrials == [t \in Tunes |-> 0]

Init ==
  /\ pc = "off" /\ runs = 0 /\ plan = <<>> /\ asked = {} /\ blind = 0 /\ pos = 0
  /\ batch = NoTrials
  /\ all = {}
  /\ \/ log = <<>>
     \/ \E t \in Logged : \E obj \in Foreign(t) : log = << <<obj>> >>
  /\ open = FALSE
  /\ paid = [t \in Tunes |-> 0]
  /\ lost = [t \in Tunes |-> 0]
  /\ best = [tune |-> 0, bytes |-> 0]
  /\ walk = NoWalk /\ ends = {}

\* What a launch is asked for: a plan or a guided walk, with the logs of the
\* shards that measured s.
Ask(s) ==
  LET memory == IF s = {} THEN {} ELSE {<<"memory", s>>}
  IN  \/ /\ plan' \in Plans /\ walk' = NoWalk
         /\ asked' = asked \cup memory \cup {<<"plan", plan'>>}
      \/ /\ Guided
         /\ plan' = <<>> /\ walk' = NewWalk
         /\ asked' = asked \cup memory \cup {<<"walk", plan'>>}

\* The trials of the shards that measured s, on this corpus too.
Measured(s) == {[tune |-> t, bytes |-> Cost[t]] : t \in s}

\* Mutant: a launch does not read the log.
LaunchBlind ==
  /\ pc \in {"off", "done"}
  /\ runs < MaxRuns
  /\ runs' = runs + 1
  /\ \E s \in Shards : Ask(s) /\ all' = Measured(s)
  /\ pos' = 0 /\ batch' = NoTrials
  /\ pc' = "plan"
  /\ UNCHANGED <<blind, log, open, paid, lost, best, ends>>

\* A launch reads the log first, its last line included if it is open, and the
\* logs of other shards.  A log that cannot be read (no permission, a byte that
\* is not UTF-8) is taken for an empty one, without a word.
Launch ==
  /\ pc \in {"off", "done"}
  /\ runs < MaxRuns
  /\ runs' = runs + 1
  /\ \E s \in Shards :
       /\ Ask(s)
       /\ \/ /\ all' = TrialsIn(log) \cup Measured(s)
             /\ blind' = blind
          \/ /\ "unread" \in Faults /\ log # <<>>
             /\ all' = Measured(s)
             /\ blind' = blind + 1
  /\ pos' = 0 /\ batch' = NoTrials
  /\ pc' = "plan"
  /\ UNCHANGED <<log, open, paid, lost, best, ends>>

\* plan.chunks(jobs): the last one may be shorter.
ChunkAt(p, from) == SubSeq(p, from + 1, Min({from + Jobs, Len(p)}))
Chunk == ChunkAt(plan, pos)

Times(t, seq) == Cardinality({i \in DOMAIN seq : seq[i] = t})

\* What of the chunk is not yet known.  It is not compared with itself.
Todo == [t \in Tunes |-> IF t \in Tried THEN 0 ELSE Times(t, Chunk)]

\* Measuring, or losing, what of each tune n says.
Plus(count, n) == [t \in Tunes |-> count[t] + n[t]]

\* Mutant: a chunk that is known already is not passed over.
TakeChunkStuck ==
  /\ pc = "plan"
  /\ pos < Len(plan)
  /\ batch' = Todo
  /\ paid' = Plus(paid, Todo)
  /\ pc' = IF Todo = NoTrials THEN "plan" ELSE "encode"
  /\ pos' = IF Todo = NoTrials THEN pos ELSE pos + Jobs
  /\ UNCHANGED <<runs, plan, asked, blind, all, log, open, lost, best, walk, ends>>

\* Cut the next chunk off the plan and start encoding its Todo.
TakeChunk ==
  /\ pc = "plan"
  /\ pos < Len(plan)
  /\ batch' = Todo
  /\ paid' = Plus(paid, Todo)
  /\ pc' = IF Todo = NoTrials THEN "plan" ELSE "encode"
  /\ pos' = pos + Jobs
  /\ UNCHANGED <<runs, plan, asked, blind, all, log, open, lost, best, walk, ends>>

\* All encodes of the chunk have ended.
EncodeChunk ==
  /\ pc = "encode"
  /\ pc' = "write"
  /\ UNCHANGED <<runs, plan, asked, blind, pos, batch, all, log, open, paid, lost, best,
                 walk, ends>>

\* The trials are sorted by tune: the smallest is receipted next.
NextTune == Min({t \in Tunes : batch[t] > 0})
Rest == [batch EXCEPT ![NextTune] = @ - 1]

WriteObject ==
  /\ pc = "write"
  /\ AddObject(Receipt(NextTune))
  /\ open' = TRUE
  /\ pc' = "newline"
  /\ UNCHANGED <<runs, plan, asked, blind, pos, batch, all, paid, lost, best, walk, ends>>

\* The receipt is complete; the trial becomes known to this launch.
WriteNewline ==
  /\ pc = "newline"
  /\ open' = FALSE
  /\ all' = all \cup {[tune |-> NextTune, bytes |-> Cost[NextTune]]}
  /\ batch' = Rest
  /\ pc' = IF Rest = NoTrials THEN "plan" ELSE "write"
  /\ UNCHANGED <<runs, plan, asked, blind, pos, log, paid, lost, best, walk, ends>>

\* The smallest archive known of each tune: min_archive().
KnownBytes ==
  [t \in Tunes |-> Min({u.bytes : u \in {u \in all : u.tune = t}} \cup {Unmeasured})]

\* run() with the next point of the walk: a known one is passed over, and
\* any other is encoded and receipted like a chunk of its own.
WalkPoint ==
  /\ pc = "plan"
  /\ WantsPoint(walk)
  /\ walk' = PointKnown(walk)
  /\ IF Point(walk) \in Tried
     THEN UNCHANGED <<pc, batch, paid>>
     ELSE /\ batch' = [NoTrials EXCEPT ![Point(walk)] = 1]
          /\ paid' = [paid EXCEPT ![Point(walk)] = @ + 1]
          /\ pc' = "encode"
  /\ UNCHANGED <<runs, plan, asked, blind, pos, all, log, open, lost, best, ends>>

\* All levels of the axis are known.
WalkAxis ==
  /\ pc = "plan"
  /\ walk.stage = "descent" /\ walk.level = Levels
  /\ walk' = AxisDone(walk, KnownBytes)
  /\ UNCHANGED <<pc, runs, plan, asked, blind, pos, batch, all, log, open, paid, lost,
                 best, ends>>

\* The candidate of the climb is known.
WalkCompare ==
  /\ pc = "plan"
  /\ walk.stage = "compare"
  /\ walk' = CandidateKnown(walk, KnownBytes)
  /\ UNCHANGED <<pc, runs, plan, asked, blind, pos, batch, all, log, open, paid, lost,
                 best, ends>>

Report ==
  /\ pc = "plan"
  /\ pos >= Len(plan)
  /\ walk.stage \in {"none", "climb"} /\ ~WantsPoint(walk)
  /\ best' = BestOf(all)
  /\ ends' = IF walk.stage = "climb" THEN ends \cup {walk.at} ELSE ends
  /\ pc' = "done"
  /\ UNCHANGED <<runs, plan, asked, blind, pos, batch, all, log, open, paid, lost, walk>>

-----------------------------------------------------------------------------
(* The environment ends a launch, unless it is the last one. *)

\* The trials of a chunk are lost with the process, except a receipt whose
\* object is in the log.
Die(unwritten) ==
  /\ runs < MaxRuns
  /\ pc' = "off"
  /\ lost' = Plus(lost, unwritten)
  /\ batch' = NoTrials
  /\ UNCHANGED <<runs, plan, asked, blind, pos, all, paid, best, walk, ends>>

\* The process is killed, but not between the two writes of a receipt.
Kill ==
  /\ "kill" \in Faults
  /\ pc \in {"plan", "encode", "write"}
  /\ Die(batch)
  /\ UNCHANGED <<log, open>>

\* The process is killed between the object and its newline.
KillInGap ==
  /\ "gap" \in Faults
  /\ pc = "newline"
  /\ Die(Rest)
  /\ UNCHANGED <<log, open>>

\* The disk is full: part of the object is written, and the launch fails.
DiskFull ==
  /\ "full" \in Faults
  /\ pc = "write"
  /\ \E cut \in CutShort(Receipt(NextTune)) : AddObject(cut)
  /\ open' = TRUE
  /\ Die(batch)

Next ==
  \/ Launch \/ TakeChunk \/ EncodeChunk \/ WriteObject \/ WriteNewline
  \/ WalkPoint \/ WalkAxis \/ WalkCompare \/ Report \/ Kill \/ KillInGap \/ DiskFull

Spec == Init /\ [][Next]_vars

\* A launched campaign runs, and one that did not finish is launched again.
Work ==
  TakeChunk \/ EncodeChunk \/ WriteObject \/ WriteNewline \/ WalkPoint \/ WalkAxis
    \/ WalkCompare \/ Report
Relaunch == pc = "off" /\ Launch

FairSpec == Spec /\ WF_vars(Work) /\ WF_vars(Relaunch)

-----------------------------------------------------------------------------
\* No object of the log was cut short.
Untorn == \A i \in 1 .. Len(log) : \A k \in 1 .. Len(log[i]) :
            /\ log[i][k].corpus \in {Here, Elsewhere}
            /\ log[i][k].method \in {Here, Elsewhere}
            /\ log[i][k].bytes \in Nat /\ log[i][k].tune \in Tunes

\* "One object per line" (evidence/mod.rs:14), and none cut short.
Intact == Untorn /\ \A i \in 1 .. Len(log) : Len(log[i]) = 1

\* How often one chunk may encode tune t: as often as a chunk of a plan that
\* was asked for names it; and a point of a walk is a chunk of its own.
AtOnce(t) ==
  {1} \cup UNION { {Times(t, ChunkAt(a[2], j * Jobs)) : j \in 0 .. Len(a[2])} :
                    a \in {a \in asked : a[1] = "plan"} }

\* "A campaign never pays twice for the same configuration"
\* (search/mod.rs:15-17; zentropy.rs:1391-1393) is true only between chunks,
\* and of a log that is read.  While the log is as the code means it to be, a
\* tune is encoded by one chunk only, as often as that chunk names it (a chunk
\* is not compared with itself: --schedule fuzz steps forth and back, and the
\* two sweeps of coord share the accepted tune); once more for every encode
\* that died before its receipt; and all over again for every launch that
\* could not read the log.
PaidOnce ==
  Intact => \A t \in Tunes : \E m \in AtOnce(t) :
              paid[t] <= lost[t] + (1 + blind) * m

\* "Lines that are not search trials are ignored" (search/mod.rs:283-284):
\* every trial that is read from the log is one that was made, the tune with
\* the bytes its own archive had.
MemoryHonest == \A t \in TrialsIn(log) : t.bytes = Cost[t.tune] /\ paid[t.tune] > 0

\* So it is as long as no write was cut short: the lines that a kill between
\* a receipt and its newline merges lose trials and never invent one.
HonestUnlessTorn == Untorn => MemoryHonest

\* The receipts that are still to be written.
Pending == IF pc = "newline" THEN Rest ELSE batch

\* Where in the log a whole receipt of t is: the line and the object in it.
Places == UNION {{i} \X DOMAIN log[i] : i \in DOMAIN log}
Kept(t) == {p \in Places : log[p[1]][p[2]] = Receipt(t)}

\* "Never forget" (evidence/mod.rs:9): every encode is accounted for.  It was
\* interrupted, or its receipt is still to be written, or the log holds its
\* whole receipt, however damaged the lines around it are.
NothingForgotten ==
  \A t \in Tunes : paid[t] = lost[t] + Pending[t] + Cardinality(Kept(t))

\* The order in which a campaign that is never interrupted, with one job,
\* writes the receipts of plan p.
SerialOrder(p) ==
  FoldLeft(LAMBDA done, t : IF Contains(done, t) THEN done ELSE Append(done, t),
           <<>>, p)

Ascending(p) == \A i \in 2 .. Len(p) : p[i - 1] < p[i]

IsOwn(line) == Field(line, "corpus") = Here /\ Field(line, "method") = Here

OwnLines ==
  FoldLeft(LAMBDA own, line : IF IsOwn(line) THEN Append(own, line) ELSE own,
           <<>>, log)

\* Parallel encodes keep "the log byte-identical to a serial campaign"
\* (zentropy.rs:1414-1416): however often the campaign for one ascending plan
\* was interrupted, if every launch read the log and no other, its log is the
\* beginning of the one an uninterrupted serial campaign writes, and all of it
\* at the end.
LogIsSerial ==
  LET order == [i \in 1 .. Len(OwnLines) |-> Field(OwnLines[i], "tune")]
  IN  Intact /\ blind = 0 /\ asked = {<<"plan", plan>>} /\ Ascending(plan) =>
        /\ IsPrefix(order, SerialOrder(plan))
        /\ pc = "done" => order = SerialOrder(plan)

\* The trial a finished launch reports is a real one, and no tune of its plan
\* does better, whichever launches measured them and whatever was lost.
BestReported ==
  Untorn /\ pc = "done" /\ plan # <<>> =>
    /\ best.tune \in Tunes /\ best.bytes = Cost[best.tune]
    /\ \A t \in ToSet(plan) : ~Better([tune |-> t, bytes |-> Cost[t]], best)

\* A guided walk is a function of what the archives cost: however the campaign
\* was interrupted, and whatever its log held of other launches, it ends at
\* the same point, and unless the bound on the rounds cut the descent short,
\* no point that differs from it in one axis has a smaller archive.
WalkReproducible ==
  Untorn =>
    /\ Cardinality(ends) <= 1
    /\ pc = "done" /\ walk.stage = "climb" /\ ~walk.improved =>
         \A i \in 1 .. Len(Axes) : \A v \in 0 .. Levels - 1 :
           Cost[walk.at] <= Cost[AtLevel(walk.at, Axes[i], v)]

\* However often it is interrupted, the campaign ends with a report.
Completes == <>[](pc = "done")
=============================================================================
