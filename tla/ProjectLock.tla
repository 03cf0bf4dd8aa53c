----------------------------- MODULE ProjectLock -----------------------------
(***************************************************************************)
(* The per-project lock file `.veriflow/lock` of packages/workspace.        *)
(*                                                                         *)
(* A ProjectLock object belongs to one operating system process and goes   *)
(* through acquire() and release().  acquire() reads the file, decides,    *)
(* and then writes the file, which empties it first: three steps, because  *)
(* another process can run between them, the process can be killed between *)
(* them, and each call on the file can throw.  Within one process they     *)
(* cannot be separated: the code is synchronous, and Node runs one         *)
(* callback at a time.                                                     *)
(*                                                                         *)
(* `raced`, `stuck` and `torn` are history variables.  No action reads     *)
(* them; they let the properties say in which executions the lock may be   *)
(* relied on.                                                              *)
(***************************************************************************)
EXTENDS FiniteSets

CONSTANTS
  Objs,      \* ProjectLock objects
  Pids,      \* the processes they live in
  PidOf,     \* PidOf[o] is the process of object o
  NoPid,     \* the file does not exist
  Empty      \* the file is there and has no text

ASSUME LockAssumption ==
  /\ PidOf \in [Objs -> Pids]
  /\ NoPid \notin Pids
  /\ Empty \notin Pids \cup {NoPid}

VARIABLES
  lockFile,  \* the pid written in the lock file, Empty, or NoPid
  alive,     \* the processes that are running
  between,   \* objects past the check in acquire() and before its write
  writing,   \* objects that emptied the file and have not written it yet
  held,      \* objects whose `held` flag is set
  raced,     \* history: an acquire overlapped another one, or re-entered
  stuck,     \* history: a release could not remove the file
  torn       \* history: a write was cut short after it emptied the file

lockVars == <<lockFile, alive, between, writing, held, raced, stuck, torn>>

Acquiring == between \cup writing

LockTypeOK ==
  /\ lockFile \in Pids \cup {NoPid, Empty}
  /\ alive \subseteq Pids
  /\ between \subseteq Objs
  /\ writing \subseteq Objs
  /\ held \subseteq Objs
  /\ raced \in BOOLEAN
  /\ stuck \in BOOLEAN
  /\ torn \in BOOLEAN

LockInit ==
  /\ lockFile = NoPid
  /\ alive = Pids
  /\ between = {}
  /\ writing = {}
  /\ held = {}
  /\ raced = FALSE
  /\ stuck = FALSE
  /\ torn = FALSE

(***************************************************************************)
(* The object's process is running and is not inside another acquire().    *)
(***************************************************************************)
Runs(o) ==
  /\ PidOf[o] \in alive
  /\ \A x \in Acquiring : PidOf[x] # PidOf[o]

(***************************************************************************)
(* isAlive(): process.kill(pid, 0) does not throw.  The text of an empty   *)
(* file is converted to the number 0, and the signal to process 0 is the   *)
(* one to the caller's own process group, which always arrives.            *)
(***************************************************************************)
isAlive(owner) == owner = Empty \/ owner \in alive

\* Faulty variants of Blocked: the liveness test inverted, and left out.
BlockedByTheDead(o) == lockFile \in Pids \ (alive \cup {PidOf[o]})
BlockedByAnyFile(o) == lockFile \in (Pids \cup {Empty}) \ {PidOf[o]}

(***************************************************************************)
(* The file names a process other than o's own that counts as alive.  No   *)
(* file, o's own pid and the pid of a dead process all let o through.      *)
(***************************************************************************)
Blocked(o) == lockFile \notin {NoPid, PidOf[o]} /\ isAlive(lockFile)

\* acquire(): the check passed, the write is still to come.
BeginAcquire(o) ==
  /\ Runs(o)
  /\ o \notin held
  /\ ~Blocked(o)
  /\ between' = between \cup {o}
  /\ raced' = (raced \/ Acquiring # {} \/ \E x \in held : PidOf[x] = PidOf[o])
  /\ UNCHANGED <<lockFile, alive, writing, held, stuck, torn>>

\* acquire(): another live process is named, so LockError is thrown.
RefuseAcquire(o) ==
  /\ Runs(o)
  /\ o \notin held
  /\ Blocked(o)
  /\ UNCHANGED lockVars

\* acquire(), writeFileSync: the file is opened, and thereby emptied.
TruncateLock(o) ==
  /\ o \in between
  /\ PidOf[o] \in alive
  /\ lockFile' = Empty
  /\ between' = between \ {o}
  /\ writing' = writing \cup {o}
  /\ UNCHANGED <<alive, held, raced, stuck, torn>>

(***************************************************************************)
(* acquire(), writeFileSync: the file now carries this process's pid,      *)
(* whoever wrote it last.                                                  *)
(***************************************************************************)
FinishAcquire(o) ==
  /\ o \in writing
  /\ PidOf[o] \in alive
  /\ lockFile' = PidOf[o]
  /\ writing' = writing \ {o}
  /\ held' = held \cup {o}
  /\ UNCHANGED <<alive, between, raced, stuck, torn>>

(***************************************************************************)
(* acquire(), writeFileSync throws: the file cannot be opened and stays as *)
(* it is, or it was emptied and its text cannot be written.  acquire()     *)
(* throws, and nobody takes the empty file back.                           *)
(***************************************************************************)
FailAcquire(o) ==
  /\ o \in Acquiring
  /\ PidOf[o] \in alive
  /\ between' = between \ {o}
  /\ writing' = writing \ {o}
  /\ torn' = (torn \/ o \in writing)
  /\ UNCHANGED <<lockFile, alive, held, raced, stuck>>

(***************************************************************************)
(* release(): the file is removed whatever pid it carries; a failure to    *)
(* remove it is swallowed, and the object counts as released all the same. *)
(***************************************************************************)
Release(o) ==
  /\ Runs(o)
  /\ o \in held
  /\ held' = held \ {o}
  /\ \/ lockFile' = NoPid /\ UNCHANGED stuck
     \/ lockFile # NoPid /\ stuck' = TRUE /\ UNCHANGED lockFile
  /\ UNCHANGED <<alive, between, writing, raced, torn>>

\* A process is killed: its objects are gone, the file stays as it is.
ProcessDies(p) ==
  /\ p \in alive
  /\ alive' = alive \ {p}
  /\ between' = {x \in between : PidOf[x] # p}
  /\ writing' = {x \in writing : PidOf[x] # p}
  /\ held' = {x \in held : PidOf[x] # p}
  /\ torn' = (torn \/ \E x \in writing : PidOf[x] = p)
  /\ UNCHANGED <<lockFile, raced, stuck>>

LockNext ==
  \/ \E o \in Objs : \/ BeginAcquire(o)
                     \/ RefuseAcquire(o)
                     \/ TruncateLock(o)
                     \/ FinishAcquire(o)
                     \/ FailAcquire(o)
                     \/ Release(o)
  \/ \E p \in Pids : ProcessDies(p)

LockSpec == LockInit /\ [][LockNext]_lockVars

(***************************************************************************)
(* "One VeriFlow process per project at a time": as long as no acquire     *)
(* ran into another one and no process acquired twice, at most one object  *)
(* holds the lock.  Stale files, failed removals and killed processes do   *)
(* not break this.                                                         *)
(***************************************************************************)
LockExcludes == ~raced => \A x, y \in held : x = y

(***************************************************************************)
(* A refused process is refused by a process that really holds the lock,   *)
(* or that is writing the file at this moment: the pid of a killed process *)
(* never turns anybody away.  The exceptions are a race, a file that       *)
(* release() failed to remove while its process lives on, and a write that *)
(* was cut short.                                                          *)
(***************************************************************************)
RefusalsAreJustified ==
  ~raced /\ ~stuck /\ ~torn =>
    \A o \in Objs :
      Blocked(o) => \/ \E x \in held : PidOf[x] = lockFile
                    \/ lockFile = Empty /\ writing # {}

(***************************************************************************)
(* "The lock carries the owning pid so a stale file from a killed process  *)
(* can be reclaimed instead of blocking the user forever" (the class       *)
(* comment of ProjectLock): when a process is killed and nobody else holds *)
(* or acquires the lock, nobody is refused from then on, unless a removal  *)
(* or a write had failed before.                                           *)
(***************************************************************************)
StaleFilesAreReclaimed ==
  [][ alive' # alive /\ held' \cup Acquiring' = {} /\ ~stuck /\ ~torn
        => \A o \in Objs : ~Blocked(o)' ]_lockVars
=============================================================================
