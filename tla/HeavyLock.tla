----------------------------- MODULE HeavyLock ------------------------------
(***************************************************************************)
(* The serialisation of heavy runs in tools/run_guarded.sh: wrapper        *)
(* scripts on one machine share the directory $TMPDIR/zentropy-heavy.lock  *)
(* and its file pid.  Each action is one system call of the script, so     *)
(* that every interleaving of two wrappers is a behaviour.                 *)
(*                                                                         *)
(* Each element of Procs is one invocation: pids are not reused, except    *)
(* that Ghost is the pid of a crashed run that now belongs to a living     *)
(* process which has nothing to do with the lock.                          *)
(***************************************************************************)
EXTENDS Naturals, FiniteSets

CONSTANTS
  Procs,     \* the wrappers, named by their pids ($$)
  Sharded,   \* those invoked with ZENTROPY_ALLOW_CONCURRENT=1
  Schedules, \* what the environment may do (below)
  Absent,    \* no lock directory
  Empty,     \* a lock directory without a pid
  Stale,     \* the pid of a crashed run, not in use
  Ghost      \* the pid of a crashed run, in use by some other process

ASSUME ShardedAssumption == Sharded \subseteq Procs
\* starts: the wrappers that are started.  overlap: may one start, or a command
\* end, while another is in its Window (below)?  faults: what may happen to one.
ASSUME SchedulesAssumption ==
  Schedules \subseteq
    [starts : SUBSET Procs, overlap : BOOLEAN,
     faults : SUBSET {"kill", "term", "early_term", "late_term", "orphan"}]
ASSUME LockValuesAssumption ==
  /\ {Absent, Empty, Stale, Ghost} \cap Procs = {}
  /\ Absent # Empty /\ Absent # Stale /\ Absent # Ghost
  /\ Empty # Stale /\ Empty # Ghost /\ Stale # Ghost

VARIABLES
  sched,  \* the schedule this machine follows
  lock,   \* the directory: Absent, Empty, or the pid its file names
  pc,     \* where each wrapper is
  held,   \* HELD
  seen,   \* what cat "$LOCK/pid" printed; Empty if nothing
  ret,    \* where release() returns to
  termed  \* a TERM waits for the rm of release() to end

vars == <<sched, lock, pc, held, seen, ret, termed>>

-----------------------------------------------------------------------------
\* Between these a wrapper reads the lock and acts on what it read.
Window == {"cat", "probe", "take_unlink", "take_rmdir", "take_mkdir",
           "write_pid", "launch", "rel_unlink", "rel_rmdir"}

\* The heavy command is running: in the foreground, in the foreground of a
\* wrapper with a TERM to handle, or left behind by a killed wrapper.
Commanding == {"run", "run_termed", "orphan"}

Ended == {"done", "refused", "failed", "killed"}

PCs == {"idle"} \cup Window \cup Commanding \cup Ended

\* kill -0 succeeds: the wrapper itself is a living process.
Living(p) == pc[p] \in Window \cup {"run", "run_termed"}
\* Mutant: a pid on record is taken for a stale one.
NeverAlive(pid) == FALSE

Alive(pid) == pid = Ghost \/ (pid \in Procs /\ Living(pid))

Quiet(p) == sched.overlap \/ \A q \in Procs \ {p} : pc[q] \notin Window

Goto(p, from, to) == pc[p] = from /\ pc' = [pc EXCEPT ![p] = to]

\* rm -rf "$LOCK" lists the directory and removes the pid file it finds ...
UnlinkPid == lock' = IF lock = Absent THEN Absent ELSE Empty

\* ... and then the directory, which fails if a pid file has come back.
RmdirFails == lock \notin {Absent, Empty}
Rmdir == lock' = IF RmdirFails THEN lock ELSE Absent

-----------------------------------------------------------------------------
(* Taking the lock, lines 39-57. *)

Start(p) ==
  /\ p \in sched.starts
  /\ Quiet(p)
  /\ IF p \in Sharded
     THEN Goto(p, "idle", "launch") /\ UNCHANGED <<lock, held>>
     ELSE IF lock = Absent
     THEN /\ Goto(p, "idle", "write_pid")
          /\ lock' = Empty
          /\ held' = [held EXCEPT ![p] = TRUE]
     ELSE Goto(p, "idle", "cat") /\ UNCHANGED <<lock, held>>
  /\ UNCHANGED <<seen, ret, termed>>

Cat(p) ==
  /\ Goto(p, "cat", "probe")
  /\ seen' = [seen EXCEPT ![p] = IF lock = Absent THEN Empty ELSE lock]
  /\ UNCHANGED <<lock, held, ret, termed>>

\* Mutant: any pid on record refuses the run.
ProbeTrusting(p) ==
  /\ Goto(p, "probe", IF seen[p] # Empty THEN "refused" ELSE "take_unlink")
  /\ UNCHANGED <<lock, held, seen, ret, termed>>

\* Mutant: a lock without a pid refuses the run, its owner may yet write it.
ProbeCautious(p) ==
  /\ Goto(p, "probe",
          IF seen[p] = Empty \/ Alive(seen[p]) THEN "refused" ELSE "take_unlink")
  /\ UNCHANGED <<lock, held, seen, ret, termed>>

Probe(p) ==
  /\ Goto(p, "probe", IF Alive(seen[p]) THEN "refused" ELSE "take_unlink")
  /\ UNCHANGED <<lock, held, seen, ret, termed>>

TakeUnlink(p) ==
  /\ Goto(p, "take_unlink", "take_rmdir")
  /\ UnlinkPid
  /\ UNCHANGED <<held, seen, ret, termed>>

\* Under set -e a failing rm ends the script; no trap is set yet.
TakeRmdir(p) ==
  /\ Goto(p, "take_rmdir", IF RmdirFails THEN "failed" ELSE "take_mkdir")
  /\ Rmdir
  /\ UNCHANGED <<held, seen, ret, termed>>

\* When this mkdir fails, HELD stays 0 and the script goes on all the same.
TakeMkdir(p) ==
  /\ IF lock = Absent
     THEN /\ Goto(p, "take_mkdir", "write_pid")
          /\ lock' = Empty
          /\ held' = [held EXCEPT ![p] = TRUE]
     ELSE Goto(p, "take_mkdir", "launch") /\ UNCHANGED <<lock, held>>
  /\ UNCHANGED <<seen, ret, termed>>

\* Mutant: the holder does not sign the lock.
WritePidForgotten(p) ==
  /\ Goto(p, "write_pid", IF lock = Absent THEN "failed" ELSE "launch")
  /\ UNCHANGED <<lock, held, seen, ret, termed>>

\* The redirection fails, and set -e ends the script, without the directory.
WritePid(p) ==
  /\ Goto(p, "write_pid", IF lock = Absent THEN "failed" ELSE "launch")
  /\ lock' = IF lock = Absent THEN Absent ELSE p
  /\ UNCHANGED <<held, seen, ret, termed>>

-----------------------------------------------------------------------------
(* The command and the release, lines 58-79. *)

Launch(p) ==
  /\ Goto(p, "launch", "run")
  /\ UNCHANGED <<lock, held, seen, ret, termed>>

\* The EXIT trap is running.
Exiting == {"exit_done", "exit_failed"}

\* Where a wrapper goes on after release(), given what called it.
ExitTo(r) ==
  IF r = "exit_failed" THEN "failed" ELSE IF r = "run" THEN "run" ELSE "done"

\* Call release() and go on at r afterwards; it does nothing unless HELD.
CallRelease(p, from, r) ==
  IF held[p]
  THEN Goto(p, from, "rel_unlink") /\ ret' = [ret EXCEPT ![p] = r]
  ELSE Goto(p, from, ExitTo(r)) /\ UNCHANGED ret

\* Mutant: the wrapper exits without calling release().
CommandEndsHolding(p) ==
  /\ Quiet(p)
  /\ Goto(p, "run", "done")
  /\ UNCHANGED <<lock, held, seen, ret, termed>>

\* The command ends and line 77 releases the lock.
CommandEnds(p) ==
  /\ Quiet(p)
  /\ CallRelease(p, "run", "done")
  /\ UNCHANGED <<lock, held, seen, termed>>

\* The trap runs once the command has ended; line 77 comes after it.
TermedCommandEnds(p) ==
  /\ Quiet(p)
  /\ CallRelease(p, "run_termed", "again")
  /\ UNCHANGED <<lock, held, seen, termed>>

RelUnlink(p) ==
  /\ Goto(p, "rel_unlink", "rel_rmdir")
  /\ UnlinkPid
  /\ UNCHANGED <<held, seen, ret, termed>>

\* A failing rm ends the script, whose EXIT trap calls release() once more.
AfterFailure(r) ==
  IF r \in Exiting THEN r ELSE IF r = "run" THEN "exit_failed" ELSE "exit_done"

\* The removal ends one run of release().  A failing one ends the script; a
\* TERM that has come meanwhile is handled now, by one more run, unless the
\* EXIT trap is already the last one; and then the wrapper goes on, with line 77
\* after the trap of a TERM during the command.
RelRmdir(p) ==
  /\ Rmdir
  /\ \/ /\ RmdirFails /\ ret[p] \notin Exiting
        /\ Goto(p, "rel_rmdir", "rel_unlink")
        /\ ret' = [ret EXCEPT ![p] = AfterFailure(ret[p])]
        /\ UNCHANGED termed
     \/ /\ termed[p] /\ (RmdirFails => ret[p] \in Exiting)
        /\ Goto(p, "rel_rmdir", "rel_unlink")
        /\ termed' = [termed EXCEPT ![p] = FALSE]
        /\ UNCHANGED ret
     \/ /\ ret[p] = "again" /\ ~RmdirFails /\ ~termed[p]
        /\ Goto(p, "rel_rmdir", "rel_unlink")
        /\ ret' = [ret EXCEPT ![p] = "done"]
        /\ UNCHANGED termed
     \/ /\ ret[p] \in Exiting \/ (ret[p] # "again" /\ ~RmdirFails /\ ~termed[p])
        /\ Goto(p, "rel_rmdir", ExitTo(ret[p]))
        /\ termed' = [termed EXCEPT ![p] = FALSE]
        /\ UNCHANGED ret
  /\ UNCHANGED <<held, seen>>

-----------------------------------------------------------------------------
(* The environment. *)

\* SIGKILL (or the OOM killer) takes the wrapper and its command.
Kill(p) ==
  /\ "kill" \in sched.faults
  /\ Living(p)
  /\ pc' = [pc EXCEPT ![p] = "killed"]
  /\ UNCHANGED <<lock, held, seen, ret, termed>>

\* SIGKILL takes the wrapper alone: the command keeps running.
KillWrapper(p) ==
  /\ "orphan" \in sched.faults
  /\ pc[p] \in {"run", "run_termed"}
  /\ pc' = [pc EXCEPT ![p] = "orphan"]
  /\ UNCHANGED <<lock, held, seen, ret, termed>>

OrphanEnds(p) ==
  /\ Goto(p, "orphan", "killed")
  /\ UNCHANGED <<lock, held, seen, ret, termed>>

\* INT or TERM while the command runs: the shell waits for the command.
Term(p) ==
  /\ "term" \in sched.faults
  /\ Goto(p, "run", "run_termed")
  /\ UNCHANGED <<lock, held, seen, ret, termed>>

\* INT or TERM after line 62 and before the command: the trap releases the
\* lock, and the script goes on to line 76.
EarlyTerm(p) ==
  /\ "early_term" \in sched.faults
  /\ CallRelease(p, "launch", "run")
  /\ UNCHANGED <<lock, held, seen, termed>>

\* INT or TERM while release() runs: the shell waits for its rm.
LateTerm(p) ==
  /\ "late_term" \in sched.faults
  /\ pc[p] \in {"rel_unlink", "rel_rmdir"}
  /\ termed' = [termed EXCEPT ![p] = TRUE]
  /\ UNCHANGED <<lock, pc, held, seen, ret>>

-----------------------------------------------------------------------------
Init ==
  /\ sched \in Schedules
  /\ lock \in {Absent, Empty, Stale, Ghost}
  /\ pc = [p \in Procs |-> "idle"]
  /\ held = [p \in Procs |-> FALSE]
  /\ seen = [p \in Procs |-> Empty]
  /\ ret = [p \in Procs |-> "done"]
  /\ termed = [p \in Procs |-> FALSE]

Acquire(p) ==
  Cat(p) \/ Probe(p) \/ TakeUnlink(p) \/ TakeRmdir(p) \/ TakeMkdir(p)
    \/ WritePid(p) \/ Launch(p)

Finish(p) ==
  CommandEnds(p) \/ TermedCommandEnds(p) \/ RelUnlink(p) \/ RelRmdir(p)

Fault(p) == Kill(p) \/ KillWrapper(p) \/ Term(p) \/ EarlyTerm(p) \/ LateTerm(p)

Next ==
  /\ \E p \in Procs :
       Start(p) \/ Acquire(p) \/ Finish(p) \/ OrphanEnds(p) \/ Fault(p)
  /\ UNCHANGED sched

Spec == Init /\ [][Next]_vars

\* The system runs every script, and every command comes to an end.
Fairness ==
  \A p \in Procs :
    /\ WF_vars(Acquire(p) /\ UNCHANGED sched)
    /\ WF_vars(Finish(p) /\ UNCHANGED sched)

FairSpec == Spec /\ Fairness

-----------------------------------------------------------------------------
TypeOK ==
  /\ lock \in {Absent, Empty, Stale, Ghost} \cup Procs
  /\ pc \in [Procs -> PCs]
  /\ held \in [Procs -> BOOLEAN]
  /\ seen \in [Procs -> {Empty, Stale, Ghost} \cup Procs]
  /\ ret \in [Procs -> {"done", "again", "run"} \cup Exiting]
  /\ termed \in [Procs -> BOOLEAN]

\* No wrapper starts, and no command ends, while another one is between
\* reading the lock and acting on it, and a wrapper dies with its command.
Serial == ~sched.overlap /\ sched.faults \subseteq {"kill", "term", "late_term"}

\* "One heavy run at a time is the default" (lines 14-17): two wrappers that
\* did not opt out never have their commands running at the same time.
MutualExclusion ==
  \A p, q \in Procs \ Sharded :
    pc[p] \in Commanding /\ pc[q] \in Commanding => p = q

\* Where wrappers do not overlap, that is what they do.
ExclusiveWhenSerial == Serial => MutualExclusion

\* "The lock must be released when the command finishes" (line 74), and not
\* before: while the command of a wrapper that took the lock is running, the
\* lock is there and names the wrapper, so the next one will refuse.
LockedWhileRunning ==
  Serial => \A p \in Procs : pc[p] \in {"run", "run_termed"} /\ held[p] => lock = p

\* A wrapper that has ended without being killed leaves no lock of its own
\* behind, whatever it was doing, and whoever it raced with.
NothingLeaked == \A p \in Procs : lock = p => pc[p] \notin Ended \ {"killed"}

\* The race for the lock is never lost by everyone: when all wrappers have
\* ended on their own and the lock they found was not in use, at least one
\* of them ran its command.
SomeoneRan ==
  /\ lock # Ghost
  /\ \A p \in sched.starts : pc[p] \in Ended \ {"killed"}
  => \E p \in sched.starts : pc[p] = "done"

\* "Stale lock from a crashed run: take it over" (line 50): a wrapper that
\* has no other in its way and finds a lock nobody alive holds gets to run
\* its command, unless it is killed first.
StaleTakenOver ==
  \A p \in Procs :
    Serial /\ pc[p] = "cat" /\ ~Alive(lock) ~> pc[p] \in Commanding \cup {"killed"}

-----------------------------------------------------------------------------
(* The inductive invariant behind MutualExclusion, in a serial schedule     *)
(* (HeavyLockProofs).                                                       *)

OneInWindow ==
  \A p, q \in Procs : pc[p] \in Window /\ pc[q] \in Window => p = q

\* What the lock is while p is at each point of the script.
LockAt(p) ==
  /\ pc[p] = "probe" => seen[p] = IF lock = Absent THEN Empty ELSE lock
  /\ pc[p] = "take_unlink" => ~Alive(lock)
  /\ pc[p] \in {"take_rmdir", "rel_rmdir"} => lock \in {Absent, Empty}
  /\ pc[p] = "take_mkdir" => lock = Absent
  /\ pc[p] = "write_pid" => lock = Empty
  /\ pc[p] \in {"launch", "run", "run_termed"} /\ p \notin Sharded => lock = p
  /\ pc[p] = "rel_unlink" => lock \in {p, Absent}

\* A wrapper has HELD = 1 from the moment it has made the directory, unless
\* it opted out, in which case it never comes near the lock.
HeldAt(p) ==
  /\ pc[p] # "orphan"
  /\ held[p] => p \notin Sharded
  /\ pc[p] \in Window \ {"launch"} => p \notin Sharded
  /\ pc[p] \in {"write_pid", "rel_unlink", "rel_rmdir"} => held[p]
  /\ pc[p] \in {"rel_unlink", "rel_rmdir"} => ret[p] \in {"done", "again"}

IInv ==
  /\ TypeOK
  /\ OneInWindow
  /\ \A p \in Procs : LockAt(p) /\ HeldAt(p)
=============================================================================
