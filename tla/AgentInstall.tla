---------------------------- MODULE AgentInstall ----------------------------
(***************************************************************************)
(* `veriflow install-agent`: a plan of the files an agent client needs, a  *)
(* preview a person agrees to, and applyAgentInstallPlan(), which promises *)
(* that all of them are written or none.  Each file is checked and staged  *)
(* in a sibling, then each is moved away and its successor moved in; what  *)
(* fails after that is unwound.                                            *)
(*                                                                         *)
(* A file is what people wrote in it and what it has of ours.  Every file  *)
(* operation may throw, the process may be killed between any two of them, *)
(* and people edit the files meanwhile.                                    *)
(***************************************************************************)
EXTENDS Naturals, Sequences, FiniteSets, SequencesExt

CONSTANTS
  Targets,       \* the files of the client, in the order they are listed
  Merged,        \* those we keep a block or an entry in; the others are ours
  Registration,  \* the file that registers the server
  Absent,        \* there is no such file
  MaxTouches,    \* bound: how often people edit
  MaxFaults      \* bound: how many file operations throw

ASSUME InstallAssumption ==
  /\ Targets \in Seq(ToSet(Targets)) /\ IsInjective(Targets)
  /\ Registration \in ToSet(Targets)
  /\ Absent \notin [own : {"none", "mine", "more"}, ours : {"none", "stale", "exact"}]

VARIABLES
  target,     \* each file
  temporary,  \* its successor, staged beside it
  backup,     \* the file that was moved away
  install,    \* the plan, where the command is, and what each round has still to do
  touched,    \* the files people wrote since the preview
  touches,    \* how often they did
  faults      \* how many file operations threw

installVars == <<target, temporary, backup, install, touched, touches, faults>>

Names == ToSet(Targets)

Content == [own : {"none", "mine", "more"}, ours : {"none", "stale", "exact"}]

Nothing == [n \in Names |-> Absent]

NoInstall == [at |-> "idle", before |-> Nothing, after |-> Nothing, changes |-> {},
              todo |-> {}, committed |-> {}, refused |-> FALSE]

InstallInit ==
  /\ target \in [Names -> {Absent} \cup [own : {"none", "mine"}, ours : {"none", "stale", "exact"}]]
  /\ temporary = Nothing
  /\ backup = Nothing
  /\ install = NoInstall
  /\ touched = {}
  /\ touches = 0
  /\ faults = 0

\* desiredFiles(): our part in what is there, or our file.
desired(n) ==
  [own |-> IF n \in Merged /\ target[n] # Absent THEN target[n].own ELSE "none",
   ours |-> "exact"]

\* diagnoseAgentIntegration(), of the files as they are.
diagnose(files) ==
  LET check(n) == IF files[n] = Absent THEN "missing"
                  ELSE IF n \notin Merged THEN IF files[n] = [own |-> "none", ours |-> "exact"]
                                               THEN "exact" ELSE "stale"
                  ELSE IF files[n].ours = "exact" THEN "exact" ELSE "stale"
  IN IF \A n \in Names : check(n) = "exact" THEN "registered"
     ELSE IF \A n \in Names : check(n) = "missing" THEN "missing"
     ELSE IF check(Registration) = "stale" THEN "stale"
     ELSE "partial"

-----------------------------------------------------------------------------

\* buildAgentInstallPlan(): the files that would change, as they are.
BuildPlan ==
  /\ install.at = "idle"
  /\ install' = [NoInstall EXCEPT
                   !.at = "previewed", !.before = target,
                   !.after = [n \in Names |-> desired(n)],
                   !.changes = {n \in Names : target[n] # desired(n)}]
  /\ touched' = {}
  /\ UNCHANGED <<target, temporary, backup, touches, faults>>

\* A person agrees to the diff, or does not.
Reply(yes) ==
  /\ install.at = "previewed"
  /\ install' = IF yes /\ install.changes # {}
                THEN [install EXCEPT !.at = "staging", !.todo = install.changes]
                ELSE NoInstall
  /\ UNCHANGED <<target, temporary, backup, touched, touches, faults>>

\* The files of a round are taken in the order of Targets, and the committed
\* ones in the opposite order.
Precedes(m, n) == \E i, j \in DOMAIN Targets : i < j /\ Targets[i] = m /\ Targets[j] = n

Current(n) == n \in install.todo /\ \A m \in install.todo : ~Precedes(m, n)

Latest(n) == n \in install.committed /\ \A m \in install.committed : ~Precedes(n, m)

Throws(place) ==
  /\ faults < MaxFaults
  /\ faults' = faults + 1
  /\ install' = [install EXCEPT !.at = place]
  /\ UNCHANGED <<target, temporary, backup, touched, touches>>

\* The next file of the same round, or the first of the next one.
Forward(n, round, next) ==
  IF install.todo # {n} THEN [install EXCEPT !.at = round, !.todo = @ \ {n}]
  ELSE [install EXCEPT !.at = next, !.todo = install.changes]

\* A file is compared with the preview, and its successor is written.
StageFile(n) ==
  /\ install.at = "staging" /\ Current(n)
  /\ IF target[n] = install.before[n]
     THEN /\ temporary' = [temporary EXCEPT ![n] = install.after[n]]
          /\ install' = Forward(n, "staging", "moving")
     ELSE /\ install' = [install EXCEPT !.at = "unwinding"]
          /\ UNCHANGED temporary
  /\ UNCHANGED <<target, backup, touched, touches, faults>>

\* A file that was there is renamed to its backup, whatever it says by now.
MoveAway(n) ==
  /\ install.at = "moving" /\ Current(n)
  /\ IF install.before[n] = Absent
     THEN /\ install' = [install EXCEPT !.at = "empty"]
          /\ UNCHANGED <<target, backup>>
     ELSE IF target[n] = Absent
     THEN /\ install' = [install EXCEPT !.at = "unwinding"]
          /\ UNCHANGED <<target, backup>>
     ELSE /\ backup' = [backup EXCEPT ![n] = target[n]]
          /\ target' = [target EXCEPT ![n] = Absent]
          /\ install' = [install EXCEPT !.at = "empty"]
  /\ UNCHANGED <<temporary, touched, touches, faults>>

Committed(n) == [Forward(n, "moving", "cleaning") EXCEPT !.committed = @ \cup {n}]

\* Slip: the backup goes as soon as its successor is there.
MoveInAndForget(n) ==
  /\ install.at = "empty" /\ Current(n)
  /\ target' = [target EXCEPT ![n] = temporary[n]]
  /\ temporary' = [temporary EXCEPT ![n] = Absent]
  /\ backup' = [backup EXCEPT ![n] = Absent]
  /\ install' = Committed(n)
  /\ UNCHANGED <<touched, touches, faults>>

MoveIn(n) ==
  /\ install.at = "empty" /\ Current(n)
  /\ target' = [target EXCEPT ![n] = temporary[n]]
  /\ temporary' = [temporary EXCEPT ![n] = Absent]
  /\ install' = Committed(n)
  /\ UNCHANGED <<backup, touched, touches, faults>>

CanPutBack(n) == install.before[n] # Absent /\ backup[n] # Absent

\* The rename throws: what was moved away is put back first, or that throws too.
MoveInThrows(n) ==
  /\ install.at = "empty" /\ Current(n)
  /\ faults < MaxFaults
  /\ \/ /\ faults' = faults + 1
        /\ install' = [install EXCEPT !.at = "unwinding"]
        /\ IF CanPutBack(n)
           THEN /\ target' = [target EXCEPT ![n] = backup[n]]
                /\ backup' = [backup EXCEPT ![n] = Absent]
           ELSE UNCHANGED <<target, backup>>
     \/ /\ faults + 1 < MaxFaults
        /\ CanPutBack(n)
        /\ faults' = faults + 2
        /\ install' = [install EXCEPT !.at = "unwinding", !.refused = TRUE]
        /\ UNCHANGED <<target, backup>>
  /\ UNCHANGED <<temporary, touched, touches>>

\* Everything is committed: the backups go, as far as they can be removed.
CleanUp(n, removed) ==
  /\ install.at = "cleaning" /\ Current(n)
  /\ IF removed THEN UNCHANGED faults ELSE faults < MaxFaults /\ faults' = faults + 1
  /\ backup' = IF removed THEN [backup EXCEPT ![n] = Absent] ELSE backup
  /\ install' = Forward(n, "cleaning", "installed")
  /\ UNCHANGED <<target, temporary, touched, touches>>

\* The last file that was committed is removed ...
Unwind(n) ==
  /\ install.at = "unwinding" /\ Latest(n)
  /\ target' = [target EXCEPT ![n] = Absent]
  /\ install' = [install EXCEPT !.at = "unwound"]
  /\ UNCHANGED <<temporary, backup, touched, touches, faults>>

\* ... and its original is moved back.
PutBack(n) ==
  /\ install.at = "unwound" /\ Latest(n)
  /\ IF CanPutBack(n)
     THEN /\ target' = [target EXCEPT ![n] = backup[n]]
          /\ backup' = [backup EXCEPT ![n] = Absent]
     ELSE UNCHANGED <<target, backup>>
  /\ install' = [install EXCEPT !.at = "unwinding", !.committed = @ \ {n}]
  /\ UNCHANGED <<temporary, touched, touches, faults>>

\* An operation of the unwinding throws: the rest is not unwound.
UnwindingThrows(n) ==
  /\ Latest(n)
  /\ install.at = "unwinding" \/ (install.at = "unwound" /\ CanPutBack(n))
  /\ faults < MaxFaults
  /\ faults' = faults + 1
  /\ install' = [install EXCEPT !.at = "unwinding", !.committed = {}, !.refused = TRUE]
  /\ UNCHANGED <<target, temporary, backup, touched, touches>>

\* finally: what was staged and not moved is removed.
Fail ==
  /\ install.at = "unwinding"
  /\ install.committed = {}
  /\ temporary' = Nothing
  /\ install' = [install EXCEPT !.at = "failed"]
  /\ UNCHANGED <<target, backup, touched, touches, faults>>

InstallerDies ==
  /\ install.at \notin {"idle", "previewed", "installed", "failed", "killed"}
  /\ install' = [install EXCEPT !.at = "killed"]
  /\ UNCHANGED <<target, temporary, backup, touched, touches, faults>>

\* Somebody writes a file, keeps what it has of ours, or deletes it.
EditFile(n, content) ==
  /\ touches < MaxTouches
  /\ install.at # "idle"
  /\ content # target[n]
  /\ target' = [target EXCEPT ![n] = content]
  /\ touched' = touched \cup {n}
  /\ touches' = touches + 1
  /\ UNCHANGED <<temporary, backup, install, faults>>

InstallNext ==
  \/ BuildPlan
  \/ \E yes \in BOOLEAN : Reply(yes)
  \/ install.at \in {"staging", "moving"} /\ Throws("unwinding")
  \/ \E n \in Names :
       \/ StageFile(n)
       \/ MoveAway(n)
       \/ MoveIn(n)
       \/ MoveInThrows(n)
       \/ \E removed \in BOOLEAN : CleanUp(n, removed)
       \/ Unwind(n)
       \/ PutBack(n)
       \/ UnwindingThrows(n)
       \/ \E content \in {Absent, [own |-> "more", ours |-> IF target[n] = Absent THEN "none"
                                                          ELSE target[n].ours]} :
            EditFile(n, content)
  \/ Fail
  \/ InstallerDies

InstallSpec == InstallInit /\ [][InstallNext]_installVars

-----------------------------------------------------------------------------

\* All or nothing, whichever operation throws: an install that succeeds has
\* written every previewed file and is diagnosed as registered, one that fails
\* leaves every file as it was, unless an operation of the unwinding was refused
\* as well.  Whatever happens, a kill included, an original that is not in its
\* place is in its backup until everything is committed.  It is promised of the
\* files nobody writes between preview and end.
InstallsAllOrNothing ==
  install.at \notin {"idle", "previewed"} =>
    /\ \A n \in Names \ touched :
         /\ install.at = "installed" => target[n] = install.after[n]
         /\ (install.at = "failed" /\ ~install.refused) => target[n] = install.before[n]
         /\ (install.at \notin {"cleaning", "installed"} /\ install.before[n] # Absent) =>
              \/ install.before[n] \in {target[n], backup[n]}
              \/ install.at = "killed" /\ \A m \in Names \ touched : target[m] = install.after[m]
    /\ (install.at = "installed" /\ touched = {}) => diagnose(target) = "registered"
    /\ (install.at = "failed" /\ ~install.refused /\ touched = {}) =>
         diagnose(target) = diagnose(install.before)
=============================================================================
