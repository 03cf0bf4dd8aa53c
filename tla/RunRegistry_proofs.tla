------------------------- MODULE RunRegistry_proofs -------------------------
(***************************************************************************)
(* The lock excludes, for any number of objects and processes; and the run *)
(* registry uses it as it is meant to be used, and what it has built on it *)
(* holds for any number of requests and terminal commands.                 *)
(***************************************************************************)
EXTENDS RunRegistry, TLAPS

-----------------------------------------------------------------------------
(* The lock                                                                *)

(***************************************************************************)
(* The inductive invariant.  Objects that hold or acquire the lock live in *)
(* running processes.  Without a race there is one of them at most, and if *)
(* it holds the lock the file carries its pid; without a failed removal    *)
(* the file carries a running process's pid only while the lock is held,   *)
(* and without a write cut short it is empty only while it is written.     *)
(***************************************************************************)
HoldersRun == \A x \in held \cup Acquiring : PidOf[x] \in alive
OneAtMost == ~raced => \A x, y \in held \cup Acquiring : x = y
Apart == ~raced => held \cap Acquiring = {} /\ between \cap writing = {}
FileNamesHolder == ~raced => \A x \in held : lockFile = PidOf[x]
FileIsHeld ==
  ~raced /\ ~stuck /\ lockFile \in alive => \E x \in held : PidOf[x] = lockFile
EmptyIsWritten == ~raced /\ ~torn /\ lockFile = Empty => writing # {}

LockInv ==
  /\ LockTypeOK /\ HoldersRun /\ OneAtMost /\ Apart
  /\ FileNamesHolder /\ FileIsHeld /\ EmptyIsWritten

\* The invariant holds while there is no file.
LEMMA LockInvInit == LockInit => LockInv
  BY LockAssumption
     DEF LockInit, LockInv, LockTypeOK, HoldersRun, OneAtMost, Apart, FileNamesHolder,
         FileIsHeld, EmptyIsWritten, Acquiring

\* Without a race, the check passes only when nobody holds the lock.
LEMMA BeginKeepsLockInv ==
  ASSUME NEW o \in Objs, LockInv, BeginAcquire(o)
  PROVE  LockInv'
<1> USE LockAssumption DEF LockInv, BeginAcquire, Acquiring
<1>1. LockTypeOK'
  BY DEF LockTypeOK
<1>2. HoldersRun'
  BY DEF HoldersRun, Runs
<1>3. ~raced' => held = {} /\ between = {} /\ writing = {}
  <2> SUFFICES ASSUME ~raced' PROVE held = {} /\ between = {} /\ writing = {}
    OBVIOUS
  <2>1. ~raced /\ between = {} /\ writing = {} /\ \A x \in held : PidOf[x] # PidOf[o]
    BY DEF LockTypeOK
  <2>2. \A x \in held : PidOf[x] = lockFile /\ PidOf[x] \in alive
    BY <2>1 DEF FileNamesHolder, HoldersRun
  <2>3. held = {}
    BY <2>1, <2>2 DEF Blocked, isAlive, LockTypeOK
  <2> QED BY <2>1, <2>3
<1>4. OneAtMost' /\ Apart' /\ FileNamesHolder'
  BY <1>3 DEF OneAtMost, Apart, FileNamesHolder
<1>5. FileIsHeld' /\ EmptyIsWritten'
  BY DEF FileIsHeld, EmptyIsWritten, LockTypeOK
<1> QED BY <1>1, <1>2, <1>4, <1>5

\* Without a race, whoever empties the file is alone and about to write it.
LEMMA TruncateKeepsLockInv ==
  ASSUME NEW o \in Objs, LockInv, TruncateLock(o)
  PROVE  LockInv'
<1> USE LockAssumption DEF LockInv, TruncateLock, Acquiring
<1>1. LockTypeOK'
  BY DEF LockTypeOK
<1>2. HoldersRun'
  BY DEF HoldersRun
<1>3. ~raced => held = {} /\ writing = {} /\ between = {o}
  BY DEF OneAtMost, Apart
<1>4. OneAtMost' /\ Apart' /\ FileNamesHolder'
  BY <1>3 DEF OneAtMost, Apart, FileNamesHolder
<1>5. FileIsHeld' /\ EmptyIsWritten'
  BY DEF FileIsHeld, EmptyIsWritten, LockTypeOK
<1> QED BY <1>1, <1>2, <1>4, <1>5

\* Whoever fails to write the file is gone; a file it emptied was torn.
LEMMA FailKeepsLockInv ==
  ASSUME NEW o \in Objs, LockInv, FailAcquire(o)
  PROVE  LockInv'
<1> USE LockAssumption DEF LockInv, FailAcquire, Acquiring
<1>1. LockTypeOK'
  BY DEF LockTypeOK
<1>2. HoldersRun'
  BY DEF HoldersRun
<1>3. ~raced => held = {}
  BY DEF OneAtMost, Apart
<1>4. OneAtMost' /\ Apart' /\ FileNamesHolder'
  BY <1>3 DEF OneAtMost, Apart, FileNamesHolder
<1>5. FileIsHeld' /\ EmptyIsWritten'
  BY DEF FileIsHeld, EmptyIsWritten, LockTypeOK
<1> QED BY <1>1, <1>2, <1>4, <1>5

\* The write makes its object the holder the file names.
LEMMA FinishKeepsLockInv ==
  ASSUME NEW o \in Objs, LockInv, FinishAcquire(o)
  PROVE  LockInv'
<1> USE LockAssumption DEF LockInv, FinishAcquire, Acquiring
<1>1. LockTypeOK'
  BY DEF LockTypeOK
<1>2. HoldersRun'
  BY DEF HoldersRun
<1>3. ~raced => held = {} /\ writing = {o} /\ between = {}
  BY DEF OneAtMost, Apart
<1>4. OneAtMost' /\ Apart' /\ FileNamesHolder'
  BY <1>3 DEF OneAtMost, Apart, FileNamesHolder
<1>5. FileIsHeld' /\ EmptyIsWritten'
  BY DEF FileIsHeld, EmptyIsWritten
<1> QED BY <1>1, <1>2, <1>4, <1>5

\* The holder goes, with the file or, if it is stuck, without it.
LEMMA ReleaseKeepsLockInv ==
  ASSUME NEW o \in Objs, LockInv, Release(o)
  PROVE  LockInv'
<1> USE LockAssumption DEF LockInv, Release, Acquiring
<1>1. LockTypeOK'
  BY DEF LockTypeOK
<1>2. HoldersRun'
  BY DEF HoldersRun
<1>3. ~raced => held = {o} /\ between = {} /\ writing = {}
  BY DEF OneAtMost, Apart
<1>4. OneAtMost' /\ Apart' /\ FileNamesHolder'
  BY <1>3 DEF OneAtMost, Apart, FileNamesHolder
<1>5. FileIsHeld' /\ EmptyIsWritten'
  BY DEF FileIsHeld, EmptyIsWritten, LockTypeOK
<1> QED BY <1>1, <1>2, <1>4, <1>5

\* A dead process holds nothing; its file names nobody alive.
LEMMA DeathKeepsLockInv ==
  ASSUME NEW p \in Pids, LockInv, ProcessDies(p)
  PROVE  LockInv'
<1> USE LockAssumption DEF LockInv, ProcessDies, Acquiring
<1>1. LockTypeOK'
  BY DEF LockTypeOK
<1>2. HoldersRun'
  BY DEF HoldersRun
<1>3. OneAtMost' /\ Apart' /\ FileNamesHolder'
  BY DEF OneAtMost, Apart, FileNamesHolder
<1>4. FileIsHeld' /\ EmptyIsWritten'
  BY DEF FileIsHeld, EmptyIsWritten
<1> QED BY <1>1, <1>2, <1>3, <1>4

\* The invariant is inductive.
LEMMA LockInvStep == LockInv /\ [LockNext]_lockVars => LockInv'
<1> SUFFICES ASSUME LockInv, [LockNext]_lockVars PROVE LockInv'
  OBVIOUS
<1>1. ASSUME NEW o \in Objs, BeginAcquire(o) PROVE LockInv'
  BY <1>1, BeginKeepsLockInv
<1>2. ASSUME NEW o \in Objs, FinishAcquire(o) PROVE LockInv'
  BY <1>2, FinishKeepsLockInv
<1>3. ASSUME NEW o \in Objs, Release(o) PROVE LockInv'
  BY <1>3, ReleaseKeepsLockInv
<1>4. ASSUME NEW p \in Pids, ProcessDies(p) PROVE LockInv'
  BY <1>4, DeathKeepsLockInv
<1>5. ASSUME UNCHANGED lockVars PROVE LockInv'
  BY <1>5 DEF lockVars, LockInv, LockTypeOK, HoldersRun, OneAtMost, Apart,
              FileNamesHolder, FileIsHeld, EmptyIsWritten, Acquiring
<1>6. ASSUME NEW o \in Objs, TruncateLock(o) \/ FailAcquire(o) PROVE LockInv'
  BY <1>6, TruncateKeepsLockInv, FailKeepsLockInv
<1> QED BY <1>1, <1>2, <1>3, <1>4, <1>5, <1>6 DEF LockNext, RefuseAcquire

\* Holders are alive, alone, and named by the file, in every reachable state.
THEOREM LockInvariance == LockSpec => []LockInv
  BY LockInvInit, LockInvStep, PTL DEF LockSpec

(***************************************************************************)
(* As long as no acquires met, one object at most holds the lock of a      *)
(* project (the class comment of ProjectLock).                             *)
(***************************************************************************)
THEOREM LockSafety == LockSpec => []LockExcludes
<1>1. LockInv => LockExcludes
  BY DEF LockInv, OneAtMost, LockExcludes
<1> QED BY <1>1, LockInvariance, PTL

(***************************************************************************)
(* acquire() throws LockError only while the process named in the file     *)
(* holds the lock, or somebody is writing the file: pids of killed         *)
(* processes refuse nobody, as long as no write was cut short.             *)
(***************************************************************************)
THEOREM LockJustice == LockSpec => []RefusalsAreJustified
<1>1. LockInv => RefusalsAreJustified
  BY DEF LockInv, LockTypeOK, FileIsHeld, EmptyIsWritten, RefusalsAreJustified, Blocked, isAlive
<1> QED BY <1>1, LockInvariance, PTL

-----------------------------------------------------------------------------
(* The registry                                                            *)

\* On the variables of the lock, every step is a step of the lock or none.
LEMMA RegistryStepsAreLockSteps ==
  ASSUME [Next]_vars
  PROVE  [LockNext]_lockVars
<1> USE RegistryAssumption DEF LockNext
<1>1. ASSUME NEW r \in Requests,
             Ask(r) \/ RefuseAsk(r) \/ BeginStart(r) \/ LockedOut(r)
               \/ Launch(r) \/ Cancel(r) \/ Settle(r)
      PROVE  [LockNext]_lockVars
  BY <1>1 DEF Ask, RefuseAsk, BeginStart, LockedOut, Launch, Cancel, Settle
<1>2. ASSUME NEW c \in Commands, BeginCommand(c) \/ OpenCommand(c) \/ CloseCommand(c)
      PROVE  [LockNext]_lockVars
  BY <1>2 DEF BeginCommand, OpenCommand, CloseCommand
<1>3. ASSUME NEW p \in Pids, Die(p)
      PROVE  [LockNext]_lockVars
  BY <1>3 DEF Die
<1>4. ASSUME UNCHANGED vars PROVE [LockNext]_lockVars
  BY <1>4 DEF vars
<1>5. ASSUME NEW o \in Objs, OpenLockFile(o) \/ LockFileFails(o)
      PROVE  [LockNext]_lockVars
  BY <1>5 DEF OpenLockFile, LockFileFails
<1> QED BY <1>1, <1>2, <1>3, <1>4, <1>5 DEF Next

(***************************************************************************)
(* Requests and commands acquire and release the lock in the order the     *)
(* lock expects: every behaviour of the registry is one of the lock.       *)
(***************************************************************************)
THEOREM RegistryImplementsLock == Spec => LockSpec
<1>1. Init => LockInit
  BY DEF Init
<1>2. [Next]_vars => [LockNext]_lockVars
  BY RegistryStepsAreLockSteps
<1> QED BY <1>1, <1>2, PTL DEF Spec, LockSpec

\* So the invariant of the lock holds in the registry.
COROLLARY RegistryKeepsLockInv == Spec => []LockInv
  BY RegistryImplementsLock, LockInvariance

(***************************************************************************)
(* What every run and command is at, by the state of its lock object; and, *)
(* without a race, that the run under way is the one in `live`.            *)
(***************************************************************************)
PhasesMatch ==
  \A o \in Objs : /\ o \in held <=> phase[o] = "running"
                  /\ o \in Acquiring <=> phase[o] = "locking"
                  /\ o \notin between \cap writing
LiveIsTheRun ==
  ~raced => /\ \A r \in RunsGoing : live = r
            /\ live # NoRun => live \in RunsGoing

RegistryInv == TypeOK /\ PhasesMatch /\ LiveIsTheRun

\* At first everybody is idle.
LEMMA RegistryInvInit == Init => RegistryInv
  BY LockInvInit, RegistryAssumption
     DEF Init, LockInit, LockInv, RegistryInv, TypeOK, PhasesMatch, LiveIsTheRun,
         RunsGoing, Phases, Acquiring

\* A step that changes neither lock nor `live`, nor who is at work.
LEMMA QuietSteps ==
  ASSUME RegistryInv, NEW o \in Objs, UNCHANGED <<lockVars, live>>,
         NEW p \in {"idle", "previewing", "refused"}, To(o, p),
         phase[o] \notin {"running", "locking"}, stopping' \subseteq Requests
  PROVE  RegistryInv'
  BY RegistryAssumption
     DEF RegistryInv, TypeOK, LockTypeOK, PhasesMatch, LiveIsTheRun, RunsGoing, Phases,
         lockVars, To, Acquiring

\* The steps of the requests; Launch and Settle move `live`.
LEMMA RequestsKeepRegistryInv ==
  ASSUME LockInv, LockInv', RegistryInv, NEW r \in Requests,
         Ask(r) \/ RefuseAsk(r) \/ BeginStart(r) \/ LockedOut(r)
           \/ Launch(r) \/ Cancel(r) \/ Settle(r)
  PROVE  RegistryInv'
<1> USE RegistryAssumption DEF To, Phases, Acquiring
<1>0. r \in Objs /\ LockTypeOK'
  BY DEF LockInv
<1>1. CASE Ask(r)
  BY <1>0, <1>1, QuietSteps DEF Ask, AtRest, RegistryInv, TypeOK
<1>2. CASE RefuseAsk(r)
  BY <1>0, <1>2, QuietSteps DEF RefuseAsk, RegistryInv, TypeOK
<1>3. CASE BeginStart(r)
  <2>1. TypeOK' /\ PhasesMatch'
    BY <1>0, <1>3 DEF BeginStart, BeginAcquire, RegistryInv, TypeOK, PhasesMatch
  <2>2. LiveIsTheRun'
    BY <1>0, <1>3
    DEF BeginStart, BeginAcquire, RegistryInv, TypeOK, LiveIsTheRun, RunsGoing, LockTypeOK
  <2> QED BY <2>1, <2>2 DEF RegistryInv
<1>4. CASE LockedOut(r)
  BY <1>0, <1>4, QuietSteps DEF LockedOut, RefuseAcquire, RegistryInv, TypeOK
<1>5. CASE Launch(r)
  <2>1. TypeOK' /\ PhasesMatch'
    BY <1>0, <1>5 DEF Launch, FinishAcquire, RegistryInv, TypeOK, PhasesMatch
  <2>2. ~raced' => held' = {r}
    BY <1>5 DEF Launch, FinishAcquire, LockInv, OneAtMost, Apart
  <2>3. LiveIsTheRun'
    BY <1>0, <1>5, <2>1, <2>2
    DEF Launch, RegistryInv, TypeOK, LiveIsTheRun, RunsGoing, PhasesMatch
  <2> QED BY <2>1, <2>3 DEF RegistryInv
<1>6. CASE Cancel(r)
  BY <1>0, <1>6
  DEF Cancel, RegistryInv, TypeOK, PhasesMatch, LiveIsTheRun, RunsGoing, lockVars
<1>7. CASE Settle(r)
  <2>1. TypeOK' /\ PhasesMatch'
    BY <1>0, <1>7 DEF Settle, Release, RegistryInv, TypeOK, PhasesMatch
  <2>2. ~raced' => held' = {}
    BY <1>7 DEF Settle, Release, LockInv, OneAtMost
  <2>3. LiveIsTheRun'
    BY <1>0, <1>7, <2>1, <2>2
    DEF Settle, RegistryInv, TypeOK, LiveIsTheRun, RunsGoing, PhasesMatch
  <2> QED BY <2>1, <2>3 DEF RegistryInv
<1> QED BY <1>1, <1>2, <1>3, <1>4, <1>5, <1>6, <1>7

\* The steps of the terminal commands.
LEMMA CommandsKeepRegistryInv ==
  ASSUME LockInv, LockInv', RegistryInv, NEW c \in Commands,
         BeginCommand(c) \/ OpenCommand(c) \/ CloseCommand(c)
  PROVE  RegistryInv'
<1> USE RegistryAssumption DEF To, Phases, Acquiring
<1>0. c \in Objs /\ c \notin Requests /\ LockTypeOK'
  BY DEF LockInv
<1>1. TypeOK'
  BY <1>0 DEF BeginCommand, OpenCommand, CloseCommand, RegistryInv, TypeOK
<1>2. PhasesMatch'
  <2>1. CASE BeginCommand(c)
    BY <1>0, <2>1 DEF BeginCommand, AtRest, BeginAcquire, RefuseAcquire, lockVars,
                      RegistryInv, TypeOK, PhasesMatch
  <2>2. CASE OpenCommand(c)
    BY <1>0, <2>2 DEF OpenCommand, FinishAcquire, RegistryInv, TypeOK, PhasesMatch
  <2>3. CASE CloseCommand(c)
    BY <1>0, <2>3 DEF CloseCommand, Release, RegistryInv, TypeOK, PhasesMatch
  <2> QED BY <2>1, <2>2, <2>3
<1>3. RunsGoing' = RunsGoing /\ live' = live /\ (raced => raced')
  BY <1>0 DEF BeginCommand, OpenCommand, CloseCommand, BeginAcquire, RefuseAcquire,
              FinishAcquire, Release, lockVars, RunsGoing, RegistryInv, TypeOK, LockTypeOK
<1>4. LiveIsTheRun'
  BY <1>1, <1>3 DEF LiveIsTheRun, RegistryInv, TypeOK, LockTypeOK
<1> QED BY <1>1, <1>2, <1>4 DEF RegistryInv

\* The steps of the write of the lock file, of whichever object.
LEMMA WritesKeepRegistryInv ==
  ASSUME LockInv, LockInv', RegistryInv, NEW o \in Objs,
         OpenLockFile(o) \/ LockFileFails(o)
  PROVE  RegistryInv'
<1> USE RegistryAssumption DEF To, Phases, Acquiring
<1>1. TypeOK'
  BY DEF OpenLockFile, LockFileFails, LockInv, RegistryInv, TypeOK
<1>2. PhasesMatch'
  BY DEF OpenLockFile, LockFileFails, TruncateLock, FailAcquire, RegistryInv, TypeOK, PhasesMatch
<1>3. RunsGoing' = RunsGoing /\ live' = live /\ raced' = raced
  BY DEF OpenLockFile, LockFileFails, TruncateLock, FailAcquire, RunsGoing, RegistryInv, TypeOK
<1> QED BY <1>1, <1>2, <1>3 DEF LiveIsTheRun, RegistryInv

\* The death of a process, the server or another.
LEMMA DeathKeepsRegistryInv ==
  ASSUME LockInv, LockInv', RegistryInv, NEW p \in Pids, Die(p)
  PROVE  RegistryInv'
<1> USE RegistryAssumption, LockAssumption DEF Phases, Die, ProcessDies, Acquiring
<1>1. TypeOK'
  BY DEF RegistryInv, TypeOK, LockInv
<1>2. PhasesMatch'
  BY DEF RegistryInv, TypeOK, LockTypeOK, PhasesMatch
<1>3. CASE p = Server
  <2>1. RunsGoing' = {} /\ live' = NoRun
    BY <1>3 DEF RunsGoing, RegistryInv, TypeOK
  <2> QED BY <1>1, <1>2, <2>1 DEF LiveIsTheRun, RegistryInv
<1>4. CASE p # Server
  <2>1. RunsGoing' = RunsGoing /\ live' = live
    BY <1>4 DEF RunsGoing, RegistryInv, TypeOK
  <2> QED BY <1>1, <1>2, <2>1 DEF LiveIsTheRun, RegistryInv
<1> QED BY <1>3, <1>4

\* The invariant is inductive, given that of the lock.
LEMMA RegistryInvStep ==
  LockInv /\ LockInv' /\ RegistryInv /\ [Next]_vars => RegistryInv'
<1> SUFFICES ASSUME LockInv, LockInv', RegistryInv, [Next]_vars PROVE RegistryInv'
  OBVIOUS
<1>1. ASSUME UNCHANGED vars PROVE RegistryInv'
  BY <1>1 DEF vars, lockVars, RegistryInv, TypeOK, LockTypeOK, PhasesMatch, LiveIsTheRun,
              RunsGoing, Acquiring
<1> QED
  BY <1>1, RequestsKeepRegistryInv, CommandsKeepRegistryInv, WritesKeepRegistryInv,
     DeathKeepsRegistryInv DEF Next

\* Phase, lock and `live` go together in every reachable state.
THEOREM RegistryInvariance == Spec => []RegistryInv
<1>1. Spec => []LockInv
  BY RegistryKeepsLockInv
<1> QED BY <1>1, RegistryInvInit, RegistryInvStep, PTL DEF Spec

(***************************************************************************)
(* Every value the registry keeps has its type.                            *)
(***************************************************************************)
THEOREM RegistryTypes == Spec => []TypeOK
<1>1. RegistryInv => TypeOK
  BY DEF RegistryInv
<1> QED BY <1>1, RegistryInvariance, PTL

(***************************************************************************)
(* Unless two acquires met, one run at most is going, it is the run that   *)
(* can be cancelled, and no terminal command works beside it.              *)
(***************************************************************************)
THEOREM RunsOwnTheProject == Spec => []RunOwnsTheProject
<1>1. LockInv /\ RegistryInv => RunOwnsTheProject
  <2> SUFFICES ASSUME LockInv, RegistryInv, ~raced, NEW r \in RunsGoing
               PROVE  live = r /\ \A o \in Objs \ {r} : phase[o] # "running"
    BY DEF RunOwnsTheProject
  <2>1. r \in Objs /\ r \in held /\ live = r
    BY RegistryAssumption DEF RegistryInv, PhasesMatch, LiveIsTheRun, RunsGoing
  <2>2. \A o \in Objs \ {r} : o \notin held
    BY <2>1 DEF LockInv, OneAtMost
  <2> QED BY <2>1, <2>2 DEF RegistryInv, PhasesMatch
<1> QED BY <1>1, RegistryKeepsLockInv, RegistryInvariance, PTL

(***************************************************************************)
(* Unless two acquires met, what cancel() can reach is a run under way.    *)
(***************************************************************************)
THEOREM WhatIsLiveIsGoing == Spec => []LiveIsGoing
<1>1. RegistryInv => LiveIsGoing
  BY DEF RegistryInv, LiveIsTheRun, LiveIsGoing, RunsGoing
<1> QED BY <1>1, RegistryInvariance, PTL

(***************************************************************************)
(* Unless two acquires met, nobody takes the lock file from a command or   *)
(* run that is at work, neither by settling nor by being refused.          *)
(***************************************************************************)
THEOREM TheLockStays == Spec => LockStaysWithItsOwner
<1>1. LockInv /\ LockInv' /\ RegistryInv /\ RegistryInv' /\ [Next]_vars
        => [\A o \in Objs :
              ~raced' /\ phase[o] = "running" /\ phase'[o] = "running"
                => lockFile = PidOf[o] /\ lockFile' = PidOf[o]]_vars
  <2> SUFFICES ASSUME LockInv, LockInv', RegistryInv, RegistryInv', [LockNext]_lockVars,
                      NEW o \in Objs, ~raced', phase[o] = "running", phase'[o] = "running"
               PROVE  lockFile = PidOf[o] /\ lockFile' = PidOf[o]
    BY RegistryStepsAreLockSteps
  <2>1. ~raced
    BY DEF LockNext, BeginAcquire, RefuseAcquire, TruncateLock, FinishAcquire, FailAcquire,
           Release, ProcessDies, lockVars
  <2>2. o \in held /\ o \in held'
    BY DEF RegistryInv, PhasesMatch
  <2> QED BY <2>1, <2>2 DEF LockInv, FileNamesHolder
<1> QED
  BY <1>1, RegistryKeepsLockInv, RegistryInvariance, PTL DEF Spec, LockStaysWithItsOwner
=============================================================================
