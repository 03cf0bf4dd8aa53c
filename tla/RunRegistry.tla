----------------------------- MODULE RunRegistry -----------------------------
(***************************************************************************)
(* The browser's run registry (apps/server/src/runs.ts) beside the         *)
(* terminal commands that work on the same project (open() in              *)
(* apps/cli/src/main.ts), all of them behind the project lock.             *)
(*                                                                         *)
(* The server is one process with many requests in flight.  `start` reads  *)
(* `live`, awaits the client preview, and only then takes the lock and     *)
(* sets `live`: another request can pass the first test during the await.  *)
(* Every request creates its own ProjectLock object in the same process.   *)
(***************************************************************************)
EXTENDS ProjectLock

CONSTANTS
  Requests,  \* POST /ask handlers; a request stands for its run once started
  Commands,  \* terminal commands, each a process of its own
  Server,    \* the process of the console server
  NoRun

ASSUME RegistryAssumption ==
  /\ Objs = Requests \cup Commands
  /\ Requests \cap Commands = {}
  /\ NoRun \notin Requests
  /\ \A r \in Requests : PidOf[r] = Server
  /\ \A c \in Commands : PidOf[c] # Server

VARIABLES
  phase,     \* phase[o]: how far the request or the command has come
  live,      \* RunRegistry.live: the run this process can still cancel
  stopping   \* runs whose agent was told to stop by cancel()

vars == <<lockVars, phase, live, stopping>>

Phases ==
  {"idle", "previewing", "locking", "running", "settled", "refused", "dead"}

TypeOK ==
  /\ LockTypeOK
  /\ phase \in [Objs -> Phases]
  /\ live \in Requests \cup {NoRun}
  /\ stopping \subseteq Requests

Init ==
  /\ LockInit
  /\ phase = [o \in Objs |-> "idle"]
  /\ live = NoRun
  /\ stopping = {}

To(o, p) == phase' = [phase EXCEPT ![o] = p]

AtRest(o) == phase[o] \in {"idle", "settled", "refused"}

(***************************************************************************)
(* start(), up to the first await: refused while a run is live.            *)
(***************************************************************************)
Ask(r) ==
  /\ AtRest(r)
  /\ Runs(r)
  /\ IF live # NoRun THEN To(r, "refused") ELSE To(r, "previewing")
  /\ UNCHANGED <<lockVars, live, stopping>>

(***************************************************************************)
(* The preview, the plan or the superseded answer's prefix is refused:     *)
(* nothing was locked and nothing was started.                             *)
(***************************************************************************)
RefuseAsk(r) ==
  /\ phase[r] = "previewing"
  /\ Runs(r)
  /\ To(r, "refused")
  /\ UNCHANGED <<lockVars, live, stopping>>

\* start(), after the await: the lock's check passes.  `live` is not read again.
BeginStart(r) ==
  /\ phase[r] = "previewing"
  /\ BeginAcquire(r)
  /\ To(r, "locking")
  /\ UNCHANGED <<live, stopping>>

\* Faulty variant: a `finally` that releases the lock it was refused.
LockedOutReleasing(r) ==
  /\ phase[r] = "previewing"
  /\ Runs(r) /\ r \notin held /\ Blocked(r)
  /\ lockFile' = NoPid
  /\ To(r, "refused")
  /\ UNCHANGED <<alive, between, writing, held, raced, stuck, torn, live, stopping>>

\* start(), after the await: another live process is named in the lock file.
LockedOut(r) ==
  /\ phase[r] = "previewing"
  /\ RefuseAcquire(r)
  /\ To(r, "refused")
  /\ UNCHANGED <<live, stopping>>

\* Of a request or a command: the lock file is opened for writing.
OpenLockFile(o) ==
  /\ phase[o] = "locking"
  /\ TruncateLock(o)
  /\ UNCHANGED <<phase, live, stopping>>

\* The lock file cannot be written: the request is refused, the command exits.
LockFileFails(o) ==
  /\ phase[o] = "locking"
  /\ FailAcquire(o)
  /\ To(o, "refused")
  /\ UNCHANGED <<live, stopping>>

\* Faulty variant: the run is started but not remembered.
LaunchUnremembered(r) ==
  /\ phase[r] = "locking"
  /\ FinishAcquire(r)
  /\ To(r, "running")
  /\ UNCHANGED <<live, stopping>>

\* start(), to its end: lock file written, run created, `live` set.
Launch(r) ==
  /\ phase[r] = "locking"
  /\ FinishAcquire(r)
  /\ To(r, "running")
  /\ live' = r
  /\ UNCHANGED stopping

\* cancel(): only the run in `live` can be reached.
Cancel(r) ==
  /\ live = r
  /\ Runs(r)
  /\ stopping' = stopping \cup {r}
  /\ UNCHANGED <<lockVars, phase, live>>

\* Faulty variant of Settle: `live` is kept.
SettleKeepingLive(r) ==
  /\ phase[r] = "running"
  /\ Release(r)
  /\ To(r, "settled")
  /\ UNCHANGED live
  /\ stopping' = stopping \ {r}

(***************************************************************************)
(* The session's promise settles, whatever its outcome: `live` is cleared  *)
(* without asking whose run it names, and the lock is released.            *)
(***************************************************************************)
Settle(r) ==
  /\ phase[r] = "running"
  /\ Release(r)
  /\ To(r, "settled")
  /\ live' = NoRun
  /\ stopping' = stopping \ {r}

\* open() of a terminal command: the lock's check passes, or it exits.
BeginCommand(c) ==
  /\ AtRest(c)
  /\ \/ BeginAcquire(c) /\ To(c, "locking")
     \/ RefuseAcquire(c) /\ To(c, "refused")
  /\ UNCHANGED <<live, stopping>>

OpenCommand(c) ==
  /\ phase[c] = "locking"
  /\ FinishAcquire(c)
  /\ To(c, "running")
  /\ UNCHANGED <<live, stopping>>

\* close() at the end of a command, or its exit handler.
CloseCommand(c) ==
  /\ phase[c] = "running"
  /\ Release(c)
  /\ To(c, "settled")
  /\ UNCHANGED <<live, stopping>>

\* A process is killed; no exit handler runs.
Die(p) ==
  /\ ProcessDies(p)
  /\ phase' = [o \in Objs |-> IF PidOf[o] = p THEN "dead" ELSE phase[o]]
  /\ IF p = Server THEN live' = NoRun /\ stopping' = {}
                   ELSE UNCHANGED <<live, stopping>>

Next ==
  \/ \E r \in Requests : \/ Ask(r)
                         \/ RefuseAsk(r)
                         \/ BeginStart(r)
                         \/ LockedOut(r)
                         \/ Launch(r)
                         \/ Cancel(r)
                         \/ Settle(r)
  \/ \E c \in Commands : \/ BeginCommand(c)
                         \/ OpenCommand(c)
                         \/ CloseCommand(c)
  \/ \E o \in Objs : OpenLockFile(o) \/ LockFileFails(o)
  \/ \E p \in Pids : Die(p)

Spec == Init /\ [][Next]_vars

-----------------------------------------------------------------------------

RunsGoing == {r \in Requests : phase[r] = "running"}

(***************************************************************************)
(* "One run at a time, per project." (the class comment of RunRegistry).   *)
(***************************************************************************)
OneRunAtATime == \A r, s \in RunsGoing : r = s

(***************************************************************************)
(* What is left of it: unless two acquires met, there is one run at most,  *)
(* no terminal command works beside it, and it is the run in `live`, so    *)
(* the person who started it can still cancel it.                          *)
(***************************************************************************)
RunOwnsTheProject ==
  ~raced =>
    \A r \in RunsGoing :
      /\ live = r
      /\ \A o \in Objs \ {r} : phase[o] # "running"

(***************************************************************************)
(* A run that can be cancelled is going, and a run told to stop is not     *)
(* forgotten by anybody: it is going until it settles.                     *)
(***************************************************************************)
LiveIsGoing == ~raced => live = NoRun \/ phase[live] = "running"

(***************************************************************************)
(* Settling or refusing a run never takes the project away from a command  *)
(* that is at work: as long as no acquires met, the lock file keeps the    *)
(* pid of the process whose command or run is going.                       *)
(***************************************************************************)
LockStaysWithItsOwner ==
  [][\A o \in Objs :
       ~raced' /\ phase[o] = "running" /\ phase'[o] = "running"
         => lockFile = PidOf[o] /\ lockFile' = PidOf[o]]_vars
=============================================================================
