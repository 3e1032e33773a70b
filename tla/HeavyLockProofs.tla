-------------------------- MODULE HeavyLockProofs ---------------------------
(***************************************************************************)
(* One heavy run at a time, for any number of wrappers, provided that they *)
(* do not overlap while they take or release the lock, and that a wrapper  *)
(* is only killed with its command (Serial).  HeavyLockRace shows what     *)
(* happens when they do overlap; and even then no wrapper that ends by     *)
(* itself leaves its lock behind, and the race for it is won by somebody.  *)
(***************************************************************************)
EXTENDS HeavyLock, TLAPS

(* The faults that move a wrapper. *)
Struck(p) == Kill(p) \/ KillWrapper(p) \/ Term(p) \/ EarlyTerm(p)

(* The initial states: nobody has started, and a crash has left anything.  *)
LEMMA InitIInv == Init => IInv
  BY LockValuesAssumption
  DEF Init, IInv, TypeOK, OneInWindow, LockAt, HeldAt, PCs, Window, Alive,
      Living, Exiting

(* A step that leaves one wrapper p in the Window, or takes it there while *)
(* nobody else is, keeps OneInWindow.                                      *)
LEMMA WindowKept ==
  ASSUME TypeOK, OneInWindow,
         NEW p \in Procs, NEW to,
         pc' = [pc EXCEPT ![p] = to],
         \/ pc[p] \in Window
         \/ to \notin Window
         \/ \A q \in Procs \ {p} : pc[q] \notin Window
  PROVE  OneInWindow'
  BY DEF TypeOK, OneInWindow

(* What a step of p has to establish: the clauses of p itself, and that it *)
(* takes the lock from nobody who is entitled to it.                       *)
LEMMA StepKeeps ==
  ASSUME IInv, Serial, TypeOK', OneInWindow',
         NEW p \in Procs, NEW to,
         pc' = [pc EXCEPT ![p] = to],
         \A q \in Procs \ {p} :
           /\ seen'[q] = seen[q] /\ held'[q] = held[q] /\ ret'[q] = ret[q],
         \/ lock' = lock
         \/ /\ \A q \in Procs \ {p} : pc[q] \notin Window
            /\ \A q \in Procs \ {p} : Living(q) => lock # q,
         \/ pc[p] \in Window
         \/ to = "killed" \/ (Living(p) /\ to \notin Window)
         \/ \A q \in Procs \ {p} : pc[q] \notin Window,
         (LockAt(p) /\ HeldAt(p))'
  PROVE  IInv'
PROOF
  <1>1. SUFFICES ASSUME NEW q \in Procs \ {p} PROVE (LockAt(q) /\ HeldAt(q))'
    BY DEF IInv
  <1>2. pc'[q] = pc[q] /\ LockAt(q) /\ HeldAt(q)
    BY DEF IInv, TypeOK
  <1>3. HeldAt(q)'
    BY <1>2 DEF HeldAt
  <1>4. CASE lock' = lock
    <2>1. pc[q] = "take_unlink" => ~Alive(lock)'
      <3>1. SUFFICES ASSUME pc[q] = "take_unlink" PROVE ~Alive(lock)'
        OBVIOUS
      <3>2. ~Alive(lock) /\ pc[q] \in Window
        BY <1>2, <3>1 DEF LockAt, Window
      <3>3. pc[p] \notin Window
        BY <3>2 DEF IInv, OneInWindow
      <3>4. to = "killed" \/ Living(p)
        BY <3>2, <3>3
      <3>5. \A r \in Procs : Living(r)' => Living(r)
        BY <3>4 DEF Living, IInv, TypeOK, Window
      <3> QED  BY <3>2, <3>5, <1>4 DEF Alive
    <2> QED  BY <1>2, <1>3, <1>4, <2>1 DEF LockAt
  <1>5. CASE lock' # lock
    BY <1>2, <1>3, <1>5 DEF LockAt, Living, Window, HeldAt
  <1> QED  BY <1>4, <1>5

-----------------------------------------------------------------------------
(* Every step of a wrapper keeps the invariant.                            *)

\* Nobody but p is in the Window.
Alone(p) == \A q \in Procs \ {p} : pc[q] \notin Window

(* The wrapper in the Window is alone there. *)
LEMMA WindowAlone ==
  ASSUME IInv, NEW p \in Procs, pc[p] \in Window
  PROVE  Alone(p)
  BY DEF IInv, OneInWindow, Alone

(* The wrapper that changes the lock found it its own or nobody's.         *)
LEMMA StartKeeps ==
  ASSUME IInv, Serial, NEW p \in Procs, Start(p)
  PROVE  IInv'
PROOF
  <1> USE LockValuesAssumption
  <1>1. LockAt(p) /\ HeldAt(p) /\ TypeOK /\ OneInWindow
    BY DEF IInv
  <1>2. Alone(p)
    BY DEF Start, Quiet, Serial, Alone
  <1>3. PICK to : pc' = [pc EXCEPT ![p] = to]
    BY DEF Start, Goto
  <1>4. TypeOK'
    BY <1>1 DEF Start, Goto, TypeOK, PCs, Window
  <1>5. OneInWindow'
    BY <1>1, <1>2, <1>3, WindowKept DEF Alone
  <1>6. (LockAt(p) /\ HeldAt(p))'
    BY <1>1 DEF Start, Goto, LockAt, HeldAt, TypeOK, Window
  <1>7. lock' = lock \/ \A q \in Procs : lock # q
    BY DEF Start
  <1>8. \A q \in Procs \ {p} :
          seen'[q] = seen[q] /\ held'[q] = held[q] /\ ret'[q] = ret[q]
    BY <1>1 DEF Start, TypeOK
  <1> QED  BY <1>1, <1>2, <1>3, <1>4, <1>5, <1>6, <1>7, <1>8, StepKeeps DEF Alone

LEMMA AcquireKeeps ==
  ASSUME IInv, Serial, NEW p \in Procs, Acquire(p)
  PROVE  IInv'
PROOF
  <1> USE LockValuesAssumption
  <1>1. LockAt(p) /\ HeldAt(p) /\ TypeOK /\ OneInWindow
    BY DEF IInv
  <1>2. pc[p] \in Window
    BY DEF Acquire, Cat, Probe, TakeUnlink, TakeRmdir, TakeMkdir, WritePid,
           Launch, Goto, Window
  <1>3. Alone(p)
    BY <1>2, WindowAlone
  <1>4. PICK to : pc' = [pc EXCEPT ![p] = to]
    BY DEF Acquire, Cat, Probe, TakeUnlink, TakeRmdir, TakeMkdir, WritePid,
           Launch, Goto
  <1>5. TypeOK'
    <2>1. CASE Cat(p) \/ Probe(p)
      BY <1>1, <2>1 DEF Cat, Probe, Goto, TypeOK, PCs, Window, Ended
    <2>2. CASE TakeUnlink(p) \/ TakeRmdir(p) \/ TakeMkdir(p)
      BY <1>1, <2>2 DEF TakeUnlink, TakeRmdir, TakeMkdir, UnlinkPid, Rmdir,
                        RmdirFails, Goto, TypeOK, PCs, Window, Ended
    <2>3. CASE WritePid(p) \/ Launch(p)
      BY <1>1, <2>3 DEF WritePid, Launch, Goto, TypeOK, PCs, Window, Ended,
                        Commanding
    <2> QED  BY <2>1, <2>2, <2>3 DEF Acquire
  <1>6. OneInWindow'
    BY <1>1, <1>2, <1>4, WindowKept
  <1>7. (LockAt(p) /\ HeldAt(p))'
    <2>1. CASE Cat(p)
      BY <1>1, <2>1 DEF Cat, Goto, LockAt, HeldAt, TypeOK, Window
    <2>2. CASE Probe(p)
      BY <1>1, <2>2 DEF Probe, Goto, LockAt, HeldAt, TypeOK, Window, Alive,
                        Living
    <2>3. CASE TakeUnlink(p)
      BY <1>1, <2>3 DEF TakeUnlink, UnlinkPid, Goto, LockAt, HeldAt, TypeOK,
                        Window
    <2>4. CASE TakeRmdir(p)
      BY <1>1, <2>4 DEF TakeRmdir, Rmdir, RmdirFails, Goto, LockAt, HeldAt,
                        TypeOK, Window
    <2>5. CASE TakeMkdir(p)
      BY <1>1, <2>5 DEF TakeMkdir, Goto, LockAt, HeldAt, TypeOK, Window
    <2>6. CASE WritePid(p)
      BY <1>1, <2>6 DEF WritePid, Goto, LockAt, HeldAt, TypeOK, Window
    <2>7. CASE Launch(p)
      BY <1>1, <2>7 DEF Launch, Goto, LockAt, HeldAt, TypeOK, Window
    <2> QED  BY <2>1, <2>2, <2>3, <2>4, <2>5, <2>6, <2>7 DEF Acquire
  <1>8. lock' = lock \/ \A q \in Procs \ {p} : Living(q) => lock # q
    <2>1. CASE Cat(p) \/ Probe(p) \/ Launch(p)
      BY <2>1 DEF Cat, Probe, Launch
    <2>2. CASE TakeUnlink(p)
      BY <1>1, <2>2 DEF TakeUnlink, Goto, LockAt, Alive
    <2>3. CASE TakeRmdir(p) \/ TakeMkdir(p) \/ WritePid(p)
      BY <1>1, <2>3 DEF TakeRmdir, TakeMkdir, WritePid, Goto, LockAt
    <2> QED  BY <2>1, <2>2, <2>3 DEF Acquire
  <1>9. \A q \in Procs \ {p} :
          seen'[q] = seen[q] /\ held'[q] = held[q] /\ ret'[q] = ret[q]
    BY <1>1 DEF Acquire, Cat, Probe, TakeUnlink, TakeRmdir, TakeMkdir,
                WritePid, Launch, TypeOK
  <1> QED  BY <1>1, <1>2, <1>3, <1>4, <1>5, <1>6, <1>7, <1>8, <1>9, StepKeeps
           DEF Alone

LEMMA CommandEndKeeps ==
  ASSUME IInv, Serial, NEW p \in Procs, CommandEnds(p) \/ TermedCommandEnds(p)
  PROVE  IInv'
PROOF
  <1> USE LockValuesAssumption
  <1>1. LockAt(p) /\ HeldAt(p) /\ TypeOK /\ OneInWindow
    BY DEF IInv
  <1>2. Alone(p)
    BY DEF CommandEnds, TermedCommandEnds, Quiet, Serial, Alone
  <1>3. PICK to : pc' = [pc EXCEPT ![p] = to]
    BY DEF CommandEnds, TermedCommandEnds, CallRelease, Goto
  <1>4. TypeOK'
    BY <1>1 DEF CommandEnds, TermedCommandEnds, CallRelease, ExitTo, Exiting,
                Goto, TypeOK, PCs, Window, Ended
  <1>5. OneInWindow'
    BY <1>1, <1>2, <1>3, WindowKept DEF Alone
  <1>6. (LockAt(p) /\ HeldAt(p))'
    BY <1>1 DEF CommandEnds, TermedCommandEnds, CallRelease, ExitTo, Exiting,
                Goto, LockAt, HeldAt, TypeOK, Window
  <1>7. lock' = lock
    BY DEF CommandEnds, TermedCommandEnds
  <1>8. \A q \in Procs \ {p} :
          seen'[q] = seen[q] /\ held'[q] = held[q] /\ ret'[q] = ret[q]
    BY <1>1 DEF CommandEnds, TermedCommandEnds, CallRelease, TypeOK
  <1> QED  BY <1>1, <1>2, <1>3, <1>4, <1>5, <1>6, <1>7, <1>8, StepKeeps DEF Alone

LEMMA ReleaseKeeps ==
  ASSUME IInv, Serial, NEW p \in Procs, RelUnlink(p) \/ RelRmdir(p)
  PROVE  IInv'
PROOF
  <1> USE LockValuesAssumption
  <1>1. LockAt(p) /\ HeldAt(p) /\ TypeOK /\ OneInWindow
    BY DEF IInv
  <1>2. pc[p] \in Window
    BY DEF RelUnlink, RelRmdir, Goto, Window
  <1>3. Alone(p)
    BY <1>2, WindowAlone
  <1>4. PICK to : pc' = [pc EXCEPT ![p] = to]
    BY DEF RelUnlink, RelRmdir, Goto
  <1>5. RelRmdir(p) => ~RmdirFails
    BY <1>1 DEF RelRmdir, RmdirFails, Goto, LockAt
  <1>6. TypeOK'
    <2>1. CASE RelUnlink(p)
      BY <1>1, <2>1 DEF RelUnlink, UnlinkPid, Goto, TypeOK, PCs, Window
    <2>2. CASE RelRmdir(p)
      BY <1>1, <1>5, <2>2 DEF RelRmdir, Rmdir, ExitTo, Exiting, HeldAt, Goto, TypeOK,
                              PCs, Window, Ended
    <2> QED  BY <2>1, <2>2
  <1>7. OneInWindow'
    BY <1>1, <1>2, <1>4, WindowKept
  <1>8. (LockAt(p) /\ HeldAt(p))'
    <2>1. CASE RelUnlink(p)
      BY <1>1, <2>1 DEF RelUnlink, UnlinkPid, Goto, LockAt, HeldAt, TypeOK,
                        Window
    <2>2. CASE RelRmdir(p)
      BY <1>1, <1>5, <2>2 DEF RelRmdir, Rmdir, ExitTo, Exiting, Goto, LockAt,
                              HeldAt, TypeOK, Window
    <2> QED  BY <2>1, <2>2
  <1>9. \A q \in Procs \ {p} : lock # q
    BY <1>1 DEF RelUnlink, RelRmdir, Goto, LockAt
  <1>10. \A q \in Procs \ {p} :
          seen'[q] = seen[q] /\ held'[q] = held[q] /\ ret'[q] = ret[q]
    BY <1>1 DEF RelUnlink, RelRmdir, TypeOK
  <1> QED  BY <1>1, <1>2, <1>3, <1>4, <1>6, <1>7, <1>8, <1>9, <1>10, StepKeeps
           DEF Alone

(* The faults that Serial allows leave the lock as it is. *)
LEMMA FaultKeeps ==
  ASSUME IInv, Serial, NEW p \in Procs, OrphanEnds(p) \/ Struck(p)
  PROVE  IInv'
PROOF
  <1>1. LockAt(p) /\ HeldAt(p) /\ TypeOK /\ OneInWindow
    BY DEF IInv
  <1>2. Kill(p) \/ Term(p)
    BY <1>1 DEF OrphanEnds, Struck, KillWrapper, EarlyTerm, Serial, Goto, HeldAt
  <1>3. PICK to : /\ pc' = [pc EXCEPT ![p] = to]
                  /\ to = "killed" \/ (Living(p) /\ to = "run_termed")
    BY <1>2 DEF Kill, Term, Goto, Living
  <1>4. to \notin Window
    BY <1>3 DEF Window
  <1>5. TypeOK'
    BY <1>1, <1>2 DEF Kill, Term, Goto, TypeOK, PCs, Ended, Commanding
  <1>6. OneInWindow'
    BY <1>1, <1>3, <1>4, WindowKept
  <1>7. (LockAt(p) /\ HeldAt(p))'
    BY <1>1, <1>2 DEF Kill, Term, Goto, LockAt, HeldAt, TypeOK, Window
  <1>8. UNCHANGED <<lock, held, seen, ret>>
    BY <1>2 DEF Kill, Term
  <1> QED  BY <1>1, <1>3, <1>4, <1>5, <1>6, <1>7, <1>8, StepKeeps

(* A TERM that has to wait leaves everything else as it is. *)
LEMMA LateTermKeeps ==
  ASSUME IInv, NEW p \in Procs, LateTerm(p)
  PROVE  IInv'
PROOF
  <1>1. UNCHANGED <<lock, pc, held, seen, ret>> /\ TypeOK'
    BY DEF LateTerm, IInv, TypeOK
  <1> QED  BY <1>1 DEF IInv, OneInWindow, LockAt, HeldAt, Alive, Living

LEMMA StutterKeeps == IInv /\ UNCHANGED vars => IInv'
  BY DEF IInv, TypeOK, OneInWindow, LockAt, HeldAt, Alive, Living, vars

-----------------------------------------------------------------------------
(* A machine keeps its schedule. *)
SerialInv == Serial => IInv

THEOREM Invariance == Spec => []SerialInv
PROOF
  <1>1. Init => SerialInv
    BY InitIInv DEF SerialInv
  <1>2. SerialInv /\ [Next]_vars => SerialInv'
    <2>1. SUFFICES ASSUME SerialInv, [Next]_vars, Serial' PROVE IInv'
      BY DEF SerialInv
    <2>2. Serial /\ IInv
      BY <2>1 DEF Serial, SerialInv, Next, vars
    <2> QED
      BY <2>1, <2>2, StartKeeps, AcquireKeeps, CommandEndKeeps, ReleaseKeeps,
         FaultKeeps, LateTermKeeps, StutterKeeps
      DEF Next, Finish, Fault, Struck
  <1> QED  BY <1>1, <1>2, PTL DEF Spec

(* Without overlap and with no orphans, two wrappers that did not opt out   *)
(* never run their commands at the same time (run_guarded.sh:14-17).        *)
THEOREM OneHeavyRun == Spec => []ExclusiveWhenSerial
PROOF
  <1>1. IInv => MutualExclusion
    BY DEF IInv, LockAt, HeldAt, MutualExclusion, Commanding
  <1>2. SerialInv => ExclusiveWhenSerial
    BY <1>1 DEF SerialInv, ExclusiveWhenSerial
  <1> QED  BY Invariance, <1>2, PTL

(* Under the same assumptions the lock is there, and signed, for as long as *)
(* the command of the wrapper that took it runs (run_guarded.sh:74).        *)
THEOREM LockOutlivesCommand == Spec => []LockedWhileRunning
PROOF
  <1>1. SerialInv => LockedWhileRunning
    BY DEF SerialInv, IInv, LockAt, HeldAt, LockedWhileRunning
  <1> QED  BY Invariance, <1>1, PTL

-----------------------------------------------------------------------------
(* A lock that a wrapper has signed is its own to remove, however many      *)
(* others overlap with it: until it has removed its pid, it is not past its *)
(* release.                                                                 *)
Signed(p) ==
  /\ pc[p] = "write_pid" => held[p]
  /\ lock = p => /\ held[p]
                 /\ pc[p] \in {"launch", "run", "run_termed", "rel_unlink", "orphan", "killed"}

SignedInv == TypeOK /\ \A p \in Procs : Signed(p)

LEMMA SignedInit == Init => SignedInv
  BY InitIInv, LockValuesAssumption DEF Init, IInv, SignedInv, Signed

(* A step of p that changes the lock leaves it to nobody or to p.           *)
LEMMA SignedKept ==
  ASSUME SignedInv, TypeOK', NEW p \in Procs, NEW to,
         pc' = [pc EXCEPT ![p] = to],
         \A q \in Procs \ {p} : held'[q] = held[q],
         lock' \in {lock, Absent, Empty, p},
         Signed(p)'
  PROVE  SignedInv'
  BY LockValuesAssumption DEF SignedInv, Signed, TypeOK

LEMMA SignedStep == SignedInv /\ [Next]_vars => SignedInv'
PROOF
  <1> USE LockValuesAssumption
  <1> SUFFICES ASSUME SignedInv, [Next]_vars PROVE SignedInv'
    OBVIOUS
  <1>1. CASE UNCHANGED vars
    BY <1>1 DEF vars, SignedInv, Signed, TypeOK
  <1>2. ASSUME NEW p \in Procs, Start(p) PROVE SignedInv'
    <2>1. TypeOK'
      BY <1>2 DEF Start, Goto, SignedInv, TypeOK, PCs, Window
    <2>2. Signed(p)'
      BY <1>2 DEF Start, Goto, SignedInv, Signed, TypeOK
    <2>3. PICK to : pc' = [pc EXCEPT ![p] = to]
      BY <1>2 DEF Start, Goto
    <2> QED
      BY <1>2, <2>1, <2>2, <2>3, SignedKept DEF Start, SignedInv, TypeOK
  <1>3. ASSUME NEW p \in Procs, Acquire(p) PROVE SignedInv'
    <2>1. TypeOK'
      <3>1. CASE Cat(p) \/ Probe(p)
        BY <3>1 DEF Cat, Probe, Goto, SignedInv, TypeOK, PCs, Window, Ended
      <3>2. CASE TakeUnlink(p) \/ TakeRmdir(p)
        BY <3>2 DEF TakeUnlink, TakeRmdir, UnlinkPid, Rmdir, Goto, SignedInv, TypeOK, PCs,
                    Window, Ended
      <3>3. CASE TakeMkdir(p)
        BY <3>3 DEF TakeMkdir, Goto, SignedInv, TypeOK, PCs, Window
      <3>4. CASE WritePid(p) \/ Launch(p)
        BY <3>4 DEF WritePid, Launch, Goto, SignedInv, TypeOK, PCs, Window, Ended, Commanding
      <3> QED
        BY <1>3, <3>1, <3>2, <3>3, <3>4 DEF Acquire
    <2>2. Signed(p)'
      BY <1>3 DEF Acquire, Cat, Probe, TakeUnlink, TakeRmdir, TakeMkdir, WritePid, Launch,
                  Rmdir, UnlinkPid, RmdirFails, Goto, SignedInv, Signed, TypeOK
    <2>3. PICK to : pc' = [pc EXCEPT ![p] = to]
      BY <1>3 DEF Acquire, Cat, Probe, TakeUnlink, TakeRmdir, TakeMkdir, WritePid, Launch, Goto
    <2>4. lock' \in {lock, Absent, Empty, p} /\ \A q \in Procs \ {p} : held'[q] = held[q]
      BY <1>3 DEF Acquire, Cat, Probe, TakeUnlink, TakeRmdir, TakeMkdir, WritePid, Launch,
                  Rmdir, UnlinkPid, SignedInv, TypeOK
    <2> QED
      BY <2>1, <2>2, <2>3, <2>4, SignedKept
  <1>4. ASSUME NEW p \in Procs,
               Finish(p) \/ OrphanEnds(p) \/ Struck(p)
        PROVE  SignedInv'
    <2>1. TypeOK'
      <3>1. CASE CommandEnds(p) \/ TermedCommandEnds(p) \/ EarlyTerm(p)
        BY <3>1 DEF CommandEnds, TermedCommandEnds, EarlyTerm, CallRelease, ExitTo, Goto,
                    SignedInv, TypeOK, PCs, Window, Ended, Commanding
      <3>2. CASE RelUnlink(p)
        BY <3>2 DEF RelUnlink, UnlinkPid, Goto, SignedInv, TypeOK, PCs, Window
      <3>3. CASE RelRmdir(p)
        BY <3>3 DEF RelRmdir, Rmdir, ExitTo, AfterFailure, Exiting, Goto, SignedInv, TypeOK,
                    PCs, Window, Ended, Commanding
      <3>4. CASE OrphanEnds(p) \/ Kill(p) \/ KillWrapper(p) \/ Term(p)
        BY <3>4 DEF OrphanEnds, Kill, KillWrapper, Term, Goto, SignedInv, TypeOK, PCs,
                    Window, Ended, Commanding
      <3> QED
        BY <1>4, <3>1, <3>2, <3>3, <3>4 DEF Finish, Struck
    <2>2. Signed(p)'
      BY <1>4 DEF Finish, CommandEnds, TermedCommandEnds, RelUnlink, RelRmdir, CallRelease,
                  OrphanEnds, Struck, Kill, KillWrapper, Term, EarlyTerm, Living, Window,
                  ExitTo, Rmdir, RmdirFails, UnlinkPid, Goto, SignedInv, Signed, TypeOK
    <2>3. PICK to : pc' = [pc EXCEPT ![p] = to]
      BY <1>4 DEF Finish, CommandEnds, TermedCommandEnds, RelUnlink, RelRmdir, CallRelease,
                  OrphanEnds, Struck, Kill, KillWrapper, Term, EarlyTerm, Goto
    <2>4. lock' \in {lock, Absent, Empty, p} /\ \A q \in Procs \ {p} : held'[q] = held[q]
      BY <1>4 DEF Finish, CommandEnds, TermedCommandEnds, RelUnlink, RelRmdir, CallRelease,
                  OrphanEnds, Struck, Kill, KillWrapper, Term, EarlyTerm, Rmdir, UnlinkPid
    <2> QED
      BY <2>1, <2>2, <2>3, <2>4, SignedKept
  <1>5. ASSUME NEW p \in Procs, LateTerm(p) PROVE SignedInv'
    BY <1>5 DEF LateTerm, SignedInv, Signed, TypeOK
  <1> QED
    BY <1>1, <1>2, <1>3, <1>4, <1>5 DEF Next, Fault, Struck

(* A wrapper that has ended on its own has removed its lock, whoever it     *)
(* raced with and whatever signal it was sent on the way.                   *)
THEOREM NoLockIsLeaked == Spec => []NothingLeaked
PROOF
  <1>1. SignedInv => NothingLeaked
    BY DEF SignedInv, Signed, NothingLeaked, Ended
  <1> QED  BY SignedInit, SignedStep, <1>1, PTL DEF Spec

-----------------------------------------------------------------------------
(* The race for the lock is never lost by everyone, in any interleaving.    *)

\* What a wrapper knows of the lock it reads, and that a pid left by a crash
\* is gone once somebody has begun to take the lock over.
LockKnown ==
  /\ lock = Ghost => \A p \in Procs : pc[p] # "take_unlink" /\ (pc[p] = "probe" => seen[p] = Ghost)
  /\ lock \in {Stale, Ghost} => \A p \in Procs : ~held[p] /\ pc[p] \notin {"take_rmdir", "take_mkdir"}
  /\ \A p \in Procs :
       /\ pc[p] \in {"write_pid", "rel_unlink", "rel_rmdir"} => held[p]
       /\ pc[p] = "probe" => seen[p] # p /\ (seen[p] = Ghost => lock = Ghost)
       /\ pc[p] # "idle" => p \in sched.starts
       /\ lock = p => ~(pc[p] = "rel_unlink" /\ ret[p] = "exit_failed")

\* A wrapper that was terminated early and whose rm has failed.
Doomed(p) == pc[p] \in {"rel_unlink", "rel_rmdir"} /\ ret[p] = "exit_failed"

\* A wrapper that will have run its command, unless it is killed or doomed.
Hopeful(p) ==
  \/ pc[p] = "done"
  \/ pc[p] \in {"launch", "run", "run_termed", "rel_unlink", "rel_rmdir"} /\ ~Doomed(p)

Hope == \E p \in Procs : Hopeful(p)

Unharmed == \A p \in Procs : pc[p] \notin {"killed", "orphan"}

Lost(p) == pc[p] \in {"refused", "failed"}

\* Whoever loses the race has lost it to somebody who is still in it.
Chances ==
  /\ \A p \in Procs : Doomed(p) => Hope
  /\ \A p \in Procs : pc[p] = "write_pid" /\ lock = Absent =>
       Hope \/ \E r \in Procs \ {p} : pc[r] = "take_mkdir"
  /\ \A p \in Procs : Lost(p) => lock = Ghost \/ Hope \/ \E q \in Procs : Living(q)

RaceInv == SignedInv /\ LockKnown /\ (Unharmed => Chances)

LEMMA LockKnownInit == Init => LockKnown
  BY LockValuesAssumption DEF Init, LockKnown

LEMMA LockKnownStep ==
  ASSUME SignedInv, LockKnown, [Next]_vars
  PROVE  LockKnown'
PROOF
  <1> USE LockValuesAssumption
  <1>0. CASE UNCHANGED vars
    BY <1>0 DEF vars, LockKnown
  <1>1. ASSUME NEW p \in Procs, Start(p), UNCHANGED sched PROVE LockKnown'
    BY <1>1 DEF Start, Goto, LockKnown, SignedInv, TypeOK
  <1>2. ASSUME NEW p \in Procs, Cat(p), UNCHANGED sched PROVE LockKnown'
    BY <1>2 DEF Cat, Goto, LockKnown, SignedInv, Signed, TypeOK
  <1>3. ASSUME NEW p \in Procs, Probe(p), UNCHANGED sched PROVE LockKnown'
    BY <1>3 DEF Probe, Goto, Alive, LockKnown, SignedInv, TypeOK
  <1>4. ASSUME NEW p \in Procs, TakeUnlink(p), UNCHANGED sched PROVE LockKnown'
    BY <1>4 DEF TakeUnlink, UnlinkPid, Goto, LockKnown, SignedInv, TypeOK
  <1>5. ASSUME NEW p \in Procs, TakeRmdir(p), UNCHANGED sched PROVE LockKnown'
    BY <1>5 DEF TakeRmdir, Rmdir, RmdirFails, Goto, LockKnown, SignedInv, TypeOK
  <1>6. ASSUME NEW p \in Procs, TakeMkdir(p), UNCHANGED sched PROVE LockKnown'
    BY <1>6 DEF TakeMkdir, Goto, LockKnown, SignedInv, TypeOK
  <1>7. ASSUME NEW p \in Procs, WritePid(p), UNCHANGED sched PROVE LockKnown'
    BY <1>7 DEF WritePid, Goto, LockKnown, SignedInv, TypeOK
  <1>8. ASSUME NEW p \in Procs, UNCHANGED sched,
               CommandEnds(p) \/ TermedCommandEnds(p) \/ EarlyTerm(p)
        PROVE  LockKnown'
    BY <1>8 DEF CommandEnds, TermedCommandEnds, EarlyTerm, CallRelease, ExitTo, Goto,
                LockKnown, SignedInv, TypeOK
  <1>9. ASSUME NEW p \in Procs, RelUnlink(p), UNCHANGED sched PROVE LockKnown'
    BY <1>9 DEF RelUnlink, UnlinkPid, Goto, LockKnown, SignedInv, TypeOK
  <1>10. ASSUME NEW p \in Procs, RelRmdir(p), UNCHANGED sched PROVE LockKnown'
    BY <1>10 DEF RelRmdir, Rmdir, RmdirFails, ExitTo, Goto, LockKnown, SignedInv, Signed, TypeOK
  <1>11. ASSUME NEW p \in Procs, UNCHANGED sched,
                Launch(p) \/ Kill(p) \/ KillWrapper(p) \/ OrphanEnds(p) \/ Term(p)
         PROVE  LockKnown'
    BY <1>11 DEF Launch, Kill, KillWrapper, OrphanEnds, Term, Living, Window, Goto,
                 LockKnown, SignedInv, TypeOK
  <1>12. ASSUME NEW p \in Procs, LateTerm(p), UNCHANGED sched PROVE LockKnown'
    BY <1>12 DEF LateTerm, LockKnown
  <1> QED
    BY <1>0, <1>1, <1>2, <1>3, <1>4, <1>5, <1>6, <1>7, <1>8, <1>9, <1>10, <1>11, <1>12
    DEF Next, Acquire, Finish, Fault

(* A pid that keeps rm from removing the directory is that of a wrapper     *)
(* which has come to its command.                                           *)
LEMMA HolderHopes ==
  ASSUME SignedInv, LockKnown, Unharmed, RmdirFails, lock \notin {Stale, Ghost}
  PROVE  lock \in Procs /\ Hopeful(lock)
  BY DEF SignedInv, Signed, TypeOK, LockKnown, Unharmed, RmdirFails, Hopeful, Doomed

(* A step of the machine is a step of one wrapper, and moves no other, but  *)
(* for a TERM that has to wait, which moves none.                           *)
Step(p) == Start(p) \/ Acquire(p) \/ Finish(p) \/ OrphanEnds(p) \/ Struck(p)

LEMMA OthersStay ==
  ASSUME TypeOK, NEW p \in Procs, Step(p)
  PROVE  \A q \in Procs \ {p} : pc'[q] = pc[q] /\ ret'[q] = ret[q]
PROOF
  <1>1. CASE Start(p)
    BY <1>1 DEF Start, Goto, TypeOK
  <1>2. CASE Acquire(p)
    BY <1>2 DEF Acquire, Cat, Probe, TakeUnlink, TakeRmdir, TakeMkdir, WritePid, Launch,
                Goto, TypeOK
  <1>3. CASE Finish(p) \/ OrphanEnds(p) \/ Struck(p)
    BY <1>3 DEF Finish, CommandEnds, TermedCommandEnds, RelUnlink, RelRmdir, CallRelease,
                OrphanEnds, Struck, Kill, KillWrapper, Term, EarlyTerm, Goto, TypeOK
  <1> QED
    BY <1>1, <1>2, <1>3 DEF Step

(* What one step can make of a wrapper that is on its way.                  *)
LEMMA Moves ==
  ASSUME TypeOK, NEW p \in Procs, Step(p), pc'[p] \notin {"killed", "orphan"}
  PROVE  /\ pc[p] \notin Ended
         /\ pc[p] = "launch" => pc'[p] \in {"run", "rel_unlink"}
         /\ pc[p] \in {"run", "run_termed"} => pc'[p] \in {"run_termed", "rel_unlink", "done"}
         /\ pc[p] \in {"launch", "run", "run_termed"} /\ pc'[p] = "rel_unlink" =>
              ret'[p] \in {"done", "again", "run"}
         /\ pc[p] = "rel_unlink" => pc'[p] = "rel_rmdir" /\ ret'[p] = ret[p]
         /\ pc[p] = "rel_rmdir" => RelRmdir(p)
         /\ pc[p] = "take_mkdir" => lock' # Absent
         /\ pc[p] \in Window /\ pc'[p] \notin Window => pc'[p] \in {"run", "done", "refused", "failed"}
PROOF
  <1>1. CASE Start(p)
    BY <1>1 DEF Start, Goto, TypeOK, Ended, Window
  <1>2. CASE Acquire(p)
    BY <1>2, LockValuesAssumption
    DEF Acquire, Cat, Probe, TakeUnlink, TakeRmdir, TakeMkdir, WritePid, Launch,
        Goto, TypeOK, Ended, Window
  <1>3. CASE OrphanEnds(p) \/ Kill(p) \/ KillWrapper(p) \/ Term(p)
    BY <1>3 DEF OrphanEnds, Kill, KillWrapper, Term, Goto, TypeOK, Ended, Window
  <1>4. CASE CommandEnds(p) \/ TermedCommandEnds(p) \/ EarlyTerm(p)
    BY <1>4 DEF CommandEnds, TermedCommandEnds, EarlyTerm, CallRelease, ExitTo, Goto, TypeOK,
                Ended, Window
  <1>5. CASE RelUnlink(p)
    BY <1>5 DEF RelUnlink, Goto, TypeOK, Ended, Window
  <1>6. CASE RelRmdir(p)
    BY <1>6 DEF RelRmdir, ExitTo, Exiting, Goto, TypeOK, Ended, Window
  <1> QED
    BY <1>1, <1>2, <1>3, <1>4, <1>5, <1>6 DEF Step, Finish, Struck

(* Hope is never lost: it is handed on by those who are doomed.             *)
LEMMA HopeStays ==
  ASSUME SignedInv, LockKnown, Unharmed, Unharmed', Hope,
         NEW r \in Procs, Step(r)
  PROVE  Hope'
PROOF
  <1>1. PICK p \in Procs : Hopeful(p)
    BY DEF Hope
  <1>2. CASE p = r /\ RelRmdir(p) /\ RmdirFails /\ ret[p] = "run"
    <2>1. lock \notin {Stale, Ghost}
      BY <1>2 DEF RelRmdir, Goto, LockKnown
    <2>2. lock \in Procs /\ Hopeful(lock) /\ lock # p
      BY <1>2, <2>1, HolderHopes DEF RelRmdir, Goto, SignedInv, Signed
    <2>3. Hopeful(lock)'
      BY <1>2, <2>2 DEF RelRmdir, Goto, Rmdir, Hopeful, Doomed, SignedInv, TypeOK
    <2> QED
      BY <2>2, <2>3, <1>2 DEF Hope, RelRmdir, Rmdir
  <1>3. CASE p = r /\ RelRmdir(p) /\ ~(RmdirFails /\ ret[p] = "run")
    <2>1. Hopeful(p)'
      BY <1>1, <1>3 DEF RelRmdir, Goto, Hopeful, Doomed, SignedInv, TypeOK, ExitTo,
                        AfterFailure, Exiting
    <2> QED
      BY <2>1 DEF Hope
  <1>4. CASE p = r /\ ~RelRmdir(p)
    <2>1. Hopeful(p)'
      BY <1>1, <1>4, Moves DEF Unharmed, Hopeful, Doomed, SignedInv, Ended
    <2> QED
      BY <2>1 DEF Hope
  <1>5. CASE p # r
    <2>1. Hopeful(p)'
      BY <1>1, <1>5, OthersStay DEF SignedInv, Hopeful, Doomed
    <2> QED
      BY <2>1 DEF Hope
  <1> QED
    BY <1>2, <1>3, <1>4, <1>5

(* Somebody is still in the race, or it cannot be won.                      *)
Open == lock = Ghost \/ Hope \/ \E q \in Procs : Living(q)

LEMMA ChancesStep ==
  ASSUME SignedInv, LockKnown, Chances, Unharmed, Unharmed', LockKnown',
         NEW r \in Procs, Step(r)
  PROVE  Chances'
PROOF
  <1> USE LockValuesAssumption
  <1>1. Hope => Hope'
    BY HopeStays
  <1>2. \A q \in Procs \ {r} : pc'[q] = pc[q] /\ ret'[q] = ret[q]
    BY OthersStay DEF SignedInv
  <1>3. pc'[r] \notin {"killed", "orphan"}
    BY DEF Unharmed
  <1>4. ASSUME NEW p \in Procs, Doomed(p)' PROVE Hope'
    <2>1. CASE Doomed(p)
      BY <1>1, <2>1 DEF Chances
    <2>2. CASE ~Doomed(p) /\ p # r
      BY <1>2, <1>4, <2>2 DEF Doomed
    <2>3. CASE ~Doomed(p) /\ p = r
      <3>1. RelRmdir(p) /\ RmdirFails /\ ret[p] = "run"
        <4>1. CASE RelRmdir(p)
          BY <1>4, <2>3, <4>1 DEF RelRmdir, Goto, Doomed, AfterFailure, Exiting, SignedInv, TypeOK
        <4>2. CASE ~RelRmdir(p)
          <5>1. pc'[p] \in {"rel_unlink", "rel_rmdir"} /\ ret'[p] = "exit_failed"
            BY <1>4 DEF Doomed
          <5>2. CASE Start(p) \/ Acquire(p) \/ OrphanEnds(p) \/ Kill(p) \/ KillWrapper(p) \/ Term(p)
            BY <5>1, <5>2 DEF Start, Acquire, Cat, Probe, TakeUnlink, TakeRmdir, TakeMkdir,
               WritePid, Launch, OrphanEnds, Kill, KillWrapper, Term, Goto, SignedInv, TypeOK
          <5>3. CASE CommandEnds(p) \/ TermedCommandEnds(p) \/ EarlyTerm(p)
            BY <5>1, <5>3 DEF CommandEnds, TermedCommandEnds, EarlyTerm, CallRelease, ExitTo,
               Goto, SignedInv, TypeOK
          <5>4. CASE RelUnlink(p)
            BY <2>3, <5>1, <5>4 DEF RelUnlink, Goto, Doomed
          <5> QED
            BY <2>3, <4>2, <5>2, <5>3, <5>4 DEF Step, Finish, Struck
        <4> QED
          BY <4>1, <4>2
      <3>2. lock \notin {Stale, Ghost}
        BY <3>1 DEF RelRmdir, Goto, LockKnown
      <3>3. Hope
        BY <3>1, <3>2, HolderHopes DEF Hope
      <3> QED
        BY <1>1, <3>3
    <2> QED
      BY <2>1, <2>2, <2>3
  <1>5. ASSUME NEW p \in Procs, pc'[p] = "write_pid", lock' = Absent
        PROVE  Hope' \/ \E s \in Procs \ {p} : pc'[s] = "take_mkdir"
    <2>1. p # r
      <3>1. SUFFICES ASSUME p = r PROVE FALSE
        OBVIOUS
      <3>2. CASE Start(r) \/ Acquire(r)
        BY <1>5, <3>1, <3>2 DEF Start, Acquire, Cat, Probe, TakeUnlink, TakeRmdir, TakeMkdir,
           WritePid, Launch, Goto, SignedInv, TypeOK
      <3>3. CASE Finish(r) \/ OrphanEnds(r) \/ Struck(r)
        BY <1>5, <3>1, <3>3 DEF Finish, CommandEnds, TermedCommandEnds, RelUnlink, RelRmdir,
           CallRelease, ExitTo, OrphanEnds, Struck, Kill, KillWrapper, Term, EarlyTerm, Goto,
           SignedInv, TypeOK
      <3> QED
        BY <3>2, <3>3 DEF Step
    <2>2. pc[p] = "write_pid"
      BY <1>2, <1>5, <2>1
    <2>3. CASE lock = Absent
      <3>1. CASE Hope
        BY <1>1, <3>1
      <3>2. CASE \E s \in Procs \ {p} : pc[s] = "take_mkdir"
        <4>1. PICK s \in Procs \ {p} : pc[s] = "take_mkdir"
          BY <3>2
        <4>2. s # r
          BY <1>3, <1>5, <4>1, Moves DEF SignedInv
        <4> QED
          BY <1>2, <4>1, <4>2
      <3> QED
        BY <2>2, <2>3, <3>1, <3>2 DEF Chances
    <2>4. CASE lock # Absent
      <3>1. TakeRmdir(r) \/ (RelRmdir(r) /\ ~RmdirFails)
        <4>1. CASE Start(r) \/ Acquire(r)
          BY <1>5, <2>4, <4>1 DEF Start, Acquire, Cat, Probe, TakeUnlink, UnlinkPid, TakeMkdir,
             WritePid, Launch, SignedInv, TypeOK
        <4>2. CASE Finish(r) \/ OrphanEnds(r) \/ Struck(r)
          BY <1>5, <2>4, <4>2 DEF Finish, CommandEnds, TermedCommandEnds, RelUnlink, UnlinkPid,
             RelRmdir, Rmdir, OrphanEnds, Struck, Kill, KillWrapper, Term, EarlyTerm
        <4> QED
          BY <4>1, <4>2 DEF Step
      <3>2. CASE TakeRmdir(r)
        <4>1. ~RmdirFails
          BY <1>5, <2>4, <3>2 DEF TakeRmdir, Rmdir
        <4>2. pc'[r] = "take_mkdir"
          BY <3>2, <4>1 DEF TakeRmdir, Goto, SignedInv, TypeOK
        <4> QED
          BY <2>1, <4>2
      <3>3. CASE RelRmdir(r) /\ ~RmdirFails
        <4>1. CASE Doomed(r)
          BY <1>1, <4>1 DEF Chances
        <4>2. CASE ~Doomed(r)
          <5>1. Hopeful(r)'
            BY <3>3, <4>2 DEF RelRmdir, Goto, Hopeful, Doomed, SignedInv, TypeOK, ExitTo, Exiting
          <5> QED
            BY <5>1 DEF Hope
        <4> QED
          BY <4>1, <4>2
      <3> QED
        BY <3>1, <3>2, <3>3
    <2> QED
      BY <2>3, <2>4
  <1>6. ASSUME pc'[r] \in {"refused", "failed"}, ~Lost(r)
        PROVE  Open'
    <2>1. CASE Probe(r)
      <3>1. Alive(seen[r]) /\ pc[r] = "probe" /\ lock' = lock
        BY <1>6, <2>1 DEF Probe, Goto, SignedInv, TypeOK
      <3>2. CASE seen[r] = Ghost
        BY <3>1, <3>2 DEF LockKnown, Open
      <3>3. CASE seen[r] # Ghost
        <4>1. PICK q \in Procs : q = seen[r] /\ Living(q)
          BY <3>1, <3>3 DEF Alive
        <4>2. q # r
          BY <3>1, <4>1 DEF LockKnown
        <4>3. Living(q)'
          BY <1>2, <4>1, <4>2 DEF Living
        <4> QED
          BY <4>3 DEF Open
      <3> QED
        BY <3>2, <3>3
    <2>2. CASE TakeRmdir(r)
      <3>1. RmdirFails /\ lock' = lock /\ pc[r] = "take_rmdir"
        BY <1>6, <2>2 DEF TakeRmdir, Rmdir, Goto, SignedInv, TypeOK
      <3>2. lock \notin {Stale, Ghost}
        BY <3>1 DEF LockKnown
      <3>3. Hope
        BY <3>1, <3>2, HolderHopes DEF Hope
      <3> QED
        BY <1>1, <3>3 DEF Open
    <2>3. CASE WritePid(r)
      <3>1. lock = Absent /\ pc[r] = "write_pid"
        BY <1>6, <2>3 DEF WritePid, Goto, SignedInv, TypeOK
      <3>2. CASE Hope
        BY <1>1, <3>2 DEF Open
      <3>3. CASE \E s \in Procs \ {r} : pc[s] = "take_mkdir"
        <4>1. PICK s \in Procs \ {r} : pc[s] = "take_mkdir"
          BY <3>3
        <4>2. Living(s)'
          BY <1>2, <4>1 DEF Living, Window
        <4> QED
          BY <4>2 DEF Open
      <3> QED
        BY <3>1, <3>2, <3>3 DEF Chances
    <2>4. CASE RelRmdir(r)
      <3>1. Doomed(r)
        BY <1>6, <2>4 DEF RelRmdir, Goto, Doomed, SignedInv, TypeOK, ExitTo
      <3> QED
        BY <1>1, <3>1 DEF Chances, Open
    <2>5. CASE ~(Probe(r) \/ TakeRmdir(r) \/ WritePid(r) \/ RelRmdir(r))
      <3>1. CASE Start(r) \/ Acquire(r)
        BY <1>6, <2>5, <3>1 DEF Start, Acquire, Cat, TakeUnlink, TakeMkdir, Launch, Goto,
           SignedInv, TypeOK
      <3>2. CASE Finish(r) \/ OrphanEnds(r) \/ Struck(r)
        BY <1>6, <2>5, <3>2 DEF Finish, CommandEnds, TermedCommandEnds, RelUnlink, CallRelease,
           ExitTo, OrphanEnds, Struck, Kill, KillWrapper, Term, EarlyTerm, Goto, SignedInv,
           TypeOK, LockKnown
      <3> QED
        BY <3>1, <3>2 DEF Step
    <2> QED
      BY <2>1, <2>2, <2>3, <2>4, <2>5
  <1>7. lock = Ghost => lock' = Ghost
    <2>1. CASE Start(r) \/ Acquire(r)
      BY <2>1 DEF Start, Acquire, Cat, Probe, TakeUnlink, UnlinkPid, TakeRmdir, Rmdir, RmdirFails,
         TakeMkdir, WritePid, Launch, Goto, LockKnown
    <2>2. CASE Finish(r) \/ OrphanEnds(r) \/ Struck(r)
      BY <2>2 DEF Finish, CommandEnds, TermedCommandEnds, RelUnlink, UnlinkPid, RelRmdir, Rmdir,
         RmdirFails, OrphanEnds, Struck, Kill, KillWrapper, Term, EarlyTerm, Goto, LockKnown
    <2> QED
      BY <2>1, <2>2 DEF Step
  <1>8. Open => Open'
    <2>1. ASSUME NEW q \in Procs, Living(q) PROVE Open'
      <3>1. CASE q # r
        <4>1. Living(q)'
          BY <1>2, <2>1, <3>1 DEF Living
        <4> QED
          BY <4>1 DEF Open
      <3>2. CASE q = r /\ pc'[r] = "done"
        <4>1. Hopeful(r)'
          BY <3>2 DEF Hopeful
        <4> QED
          BY <4>1 DEF Open, Hope
      <3>3. CASE q = r /\ pc'[r] \in {"refused", "failed"}
        BY <1>6, <2>1, <3>3 DEF Living, Lost, Window
      <3>4. CASE q = r /\ pc'[r] \notin {"done", "refused", "failed"}
        <4>1. pc'[r] \in Window \cup {"run", "run_termed"}
          BY <1>3, <2>1, <3>4, Moves DEF Living, Window, SignedInv
        <4>2. Living(r)'
          BY <4>1 DEF Living
        <4> QED
          BY <4>2 DEF Open
      <3> QED
        BY <3>1, <3>2, <3>3, <3>4
    <2> QED
      BY <1>1, <1>7, <2>1 DEF Open
  <1>9. ASSUME NEW p \in Procs, Lost(p)' PROVE Open'
    <2>1. CASE Lost(p)
      BY <1>8, <2>1 DEF Chances, Open
    <2>2. CASE ~Lost(p)
      BY <1>2, <1>6, <1>9, <2>2 DEF Lost
    <2> QED
      BY <2>1, <2>2
  <1> QED
    BY <1>4, <1>5, <1>9 DEF Chances, Open

LEMMA RaceStep == RaceInv /\ [Next]_vars => RaceInv'
PROOF
  <1> SUFFICES ASSUME RaceInv, [Next]_vars PROVE RaceInv'
    OBVIOUS
  <1>1. SignedInv /\ SignedInv' /\ LockKnown /\ LockKnown'
    BY SignedStep, LockKnownStep DEF RaceInv
  <1>2. CASE UNCHANGED vars
    BY <1>1, <1>2 DEF RaceInv, vars, Unharmed, Chances, Doomed, Hope, Hopeful, Lost, Living
  <1>3. ASSUME NEW p \in Procs, LateTerm(p) PROVE RaceInv'
    BY <1>1, <1>3 DEF RaceInv, LateTerm, Unharmed, Chances, Doomed, Hope, Hopeful, Lost, Living
  <1>4. ASSUME NEW r \in Procs, Step(r) PROVE RaceInv'
    <2>1. SUFFICES ASSUME Unharmed' PROVE Chances'
      BY <1>1 DEF RaceInv
    <2>2. Unharmed
      <3>1. \A q \in Procs \ {r} : pc'[q] = pc[q]
        BY <1>1, <1>4, OthersStay DEF SignedInv
      <3>2. pc'[r] \notin {"killed", "orphan"}
        BY <2>1 DEF Unharmed
      <3>3. pc[r] \notin {"killed", "orphan"}
        <4>1. pc[r] \notin Ended
          BY <1>1, <1>4, <3>2, Moves DEF SignedInv
        <4>2. pc[r] # "orphan"
          <5>1. CASE OrphanEnds(r)
            BY <1>1, <3>2, <5>1 DEF OrphanEnds, Goto, SignedInv, TypeOK
          <5>2. CASE Start(r) \/ Acquire(r)
            BY <5>2 DEF Start, Acquire, Cat, Probe, TakeUnlink, TakeRmdir, TakeMkdir, WritePid,
               Launch, Goto
          <5>3. CASE Finish(r) \/ Struck(r)
            BY <5>3 DEF Finish, CommandEnds, TermedCommandEnds, RelUnlink, RelRmdir, CallRelease,
               Struck, Kill, KillWrapper, Term, EarlyTerm, Living, Window, Goto
          <5> QED
            BY <1>4, <5>1, <5>2, <5>3 DEF Step
        <4> QED
          BY <4>1, <4>2 DEF Ended
      <3> QED
        BY <2>1, <3>1, <3>3 DEF Unharmed
    <2> QED
      BY <1>1, <1>4, <2>1, <2>2, ChancesStep DEF RaceInv
  <1> QED
    BY <1>2, <1>3, <1>4 DEF Next, Step, Fault, Struck

LEMMA RaceInit == Init => RaceInv
  BY SignedInit, LockKnownInit, LockValuesAssumption
  DEF RaceInv, Init, Unharmed, Chances, Doomed, Lost

(* However many wrappers race for a lock that is free or stale, and however *)
(* their system calls and signals interleave: when all have ended and none  *)
(* was killed, one of them has run its command.                             *)
THEOREM RaceIsWon ==
  ASSUME \A s \in Schedules : s.starts # {}
  PROVE  Spec => []SomeoneRan
PROOF
  <1>1. Init => sched \in Schedules
    BY DEF Init
  <1>2. sched \in Schedules /\ [Next]_vars => (sched \in Schedules)'
    BY DEF Next, vars
  <1>3. RaceInv /\ sched \in Schedules => SomeoneRan
    <2>1. SUFFICES ASSUME RaceInv, sched \in Schedules, lock # Ghost,
                          \A p \in sched.starts : pc[p] \in Ended \ {"killed"}
                   PROVE  \E p \in sched.starts : pc[p] = "done"
      BY DEF SomeoneRan
    <2>2. sched.starts \subseteq Procs /\ sched.starts # {}
      BY <2>1, SchedulesAssumption
    <2>3. \A p \in Procs : pc[p] # "idle" => p \in sched.starts
      BY <2>1 DEF RaceInv, LockKnown
    <2>4. Unharmed
      BY <2>1, <2>3 DEF Unharmed, Ended
    <2>5. Chances
      BY <2>1, <2>4 DEF RaceInv
    <2>6. PICK p \in sched.starts : TRUE
      BY <2>2
    <2>7. CASE pc[p] = "done"
      BY <2>7
    <2>8. CASE pc[p] # "done"
      <3>1. Lost(p)
        BY <2>1, <2>8 DEF Lost, Ended
      <3>2. Hope \/ \E q \in Procs : Living(q)
        BY <2>1, <2>2, <2>5, <3>1 DEF Chances
      <3>3. ASSUME NEW q \in Procs, Living(q) PROVE FALSE
        BY <2>1, <2>3, <3>3 DEF Living, Window, Ended
      <3>4. PICK q \in Procs : Hopeful(q)
        BY <3>2, <3>3 DEF Hope
      <3>5. pc[q] = "done" /\ q \in sched.starts
        BY <2>1, <2>3, <3>4 DEF Hopeful, Ended
      <3> QED
        BY <3>5
    <2> QED
      BY <2>7, <2>8
  <1> QED
    BY <1>1, <1>2, <1>3, RaceInit, RaceStep, PTL DEF Spec
=============================================================================
