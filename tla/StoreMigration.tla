--------------------------- MODULE StoreMigration ---------------------------
(***************************************************************************)
(* Opening veriflow.db: the constructor of Store and its migrate().        *)
(*                                                                         *)
(* The database is what its version stamp says it is and what shape it     *)
(* really has: the set of versions whose tables and columns are there.     *)
(* Its rows are the facts this build or an older one recorded in columns   *)
(* that a migration added, since those are what a step that runs twice can *)
(* destroy.  A process opens the file without any lock: a console and the  *)
(* MCP servers do not take the project lock.                               *)
(*                                                                         *)
(* One action per transaction: SQLite makes each of them atomic, a crash   *)
(* falls between two.                                                      *)
(***************************************************************************)
EXTENDS Naturals, FiniteSets

CONSTANTS
  Procs,       \* the processes that open the file
  Stamps,      \* the versions the file may be found at; 0 is no file
  NewVersion,  \* a version later than this build's
  MaxOpens,    \* bound: how often the file is opened
  MaxRows      \* bound: the rows of the counted tables

SchemaVersion == 12

ASSUME StampsAssumption ==
  /\ Stamps \subseteq 0 .. SchemaVersion \cup {NewVersion}
  /\ NewVersion \in Nat /\ NewVersion > SchemaVersion
  /\ MaxOpens \in Nat
  /\ MaxRows \in Nat

VARIABLES
  stamp,    \* meta.schemaVersion; 0: no row
  shape,    \* the versions whose tables and columns exist
  facts,    \* what the rows say in columns a migration added
  rows,     \* how many rows the counted tables have
  backups,  \* of a version: what is in veriflow.db.v<version>.bak
  proc,     \* of a process: where its opening is
  opens,    \* how often the file was opened
  recorded, \* what was recorded by whoever had the file open
  overlap   \* two processes were opening an older or an empty file at once

storeVars ==
  <<stamp, shape, facts, rows, backups, proc, opens, recorded, overlap>>

Versions == 1 .. SchemaVersion
Steps == 2 .. SchemaVersion

\* The steps that say CREATE TABLE without IF NOT EXISTS.
CreatingSteps == {3, 4, 6}

\* The base schema: its tables are created in the shape of these versions.
BaseShape == {1, 2, 5, 7}

\* A fact lives in a column that came with a version: the module a citation
\* names, an explicit follow-up, the profile a run was asked for.
FactOf == [citedModule |-> 2, followUp |-> 5, runProfile |-> 7]
Facts == DOMAIN FactOf

\* What a step's statements leave of the facts: step 2 copies the citations
\* without the columns it adds, steps 5 and 7 set theirs in every row, the
\* copy of step 10 names every column.
KeptBy(k) == {f \in Facts : FactOf[f] # k}

Closed == [at |-> "closed"]

Opening(p) == proc[p].at \in {"fresh", "older", "copying", "migrating"}

StoreInit ==
  /\ stamp \in Stamps
  /\ shape = {v \in Versions : v <= stamp}
  /\ facts \in SUBSET {f \in Facts : FactOf[f] <= stamp}
  /\ recorded = facts
  /\ rows = IF stamp = 0 THEN 0 ELSE 1
  /\ backups = [v \in Versions |-> "none"]
  /\ proc = [p \in Procs |-> Closed]
  /\ opens = 0
  /\ overlap = FALSE

At(p, place) == [proc EXCEPT ![p].at = place]

\* The base schema, whose tables are created where there are none, and what
\* the constructor finds in meta.  A file without a table is this build's.
Look(p) ==
  /\ proc[p] = Closed
  /\ opens < MaxOpens
  /\ opens' = opens + 1
  /\ LET place == CASE stamp = 0 -> "fresh"
                    [] stamp > SchemaVersion -> "refused"
                    [] stamp = SchemaVersion -> "open"
                    [] OTHER -> "older"
     IN  /\ proc' = [proc EXCEPT ![p] = [at |-> place, found |-> stamp]]
         /\ shape' = CASE place = "fresh" -> shape \cup BaseShape
                       [] place = "open" -> Versions
                       [] OTHER -> shape
         /\ overlap' = (overlap \/ \E q \in Procs \ {p} : Opening(q))
  /\ UNCHANGED <<stamp, facts, rows, backups, recorded>>

\* The later tables and the first row of meta.  A second process that found no
\* row meets the primary key.
Create(p) ==
  /\ proc[p].at = "fresh"
  /\ shape' = Versions
  /\ \/ /\ stamp = 0
        /\ stamp' = SchemaVersion
        /\ proc' = At(p, "open")
     \/ /\ stamp # 0
        /\ proc' = At(p, "failed")
        /\ UNCHANGED stamp
  /\ UNCHANGED <<facts, rows, backups, opens, recorded, overlap>>

\* Slip: the steps are not filtered by the version found.
CountedFromTheFirst(p, copied) ==
  proc' = [proc EXCEPT ![p] =
             [at |-> "migrating", found |-> @.found, next |-> 2,
              before |-> rows, copied |-> copied]]

\* rowCounts() before the first step, and where the copy is said to be.
Counted(p, copied) ==
  proc' = [proc EXCEPT ![p] =
             [at |-> "migrating", found |-> @.found, next |-> @.found + 1,
              before |-> rows, copied |-> copied]]

\* VACUUM INTO begins to write the copy, unless there is one of that name.
BeginBackup(p) ==
  /\ proc[p].at = "older"
  /\ backups[proc[p].found] = "none"
  /\ backups' = [backups EXCEPT ![proc[p].found] = "partial"]
  /\ proc' = At(p, "copying")
  /\ UNCHANGED <<stamp, shape, facts, rows, opens, recorded, overlap>>

EndBackup(p) ==
  /\ proc[p].at = "copying"
  /\ backups' = [backups EXCEPT ![proc[p].found] = "whole"]
  /\ Counted(p, TRUE)
  /\ UNCHANGED <<stamp, shape, facts, rows, opens, recorded, overlap>>

\* A copy that cannot be written is said to be missing and stops nothing; a
\* file that has the name already is taken for the copy.
SkipBackup(p) ==
  /\ proc[p].at = "older"
  /\ IF backups[proc[p].found] = "none"
     THEN Counted(p, FALSE)
     ELSE Counted(p, TRUE)
  /\ UNCHANGED <<stamp, shape, facts, rows, backups, opens, recorded, overlap>>

StepFails(k) == k \in CreatingSteps /\ k \in shape

\* Slip: every step stamps the last version.
MigrateStampingLast(p) ==
  /\ proc[p].at = "migrating"
  /\ proc[p].next <= SchemaVersion
  /\ ~StepFails(proc[p].next)
  /\ shape' = shape \cup {proc[p].next}
  /\ facts' = facts \cap KeptBy(proc[p].next)
  /\ stamp' = SchemaVersion
  /\ proc' = [proc EXCEPT ![p].next = @ + 1]
  /\ UNCHANGED <<rows, backups, opens, recorded, overlap>>

\* BEGIN, the statements of the next step, its stamp, COMMIT.
Migrate(p) ==
  /\ proc[p].at = "migrating"
  /\ proc[p].next <= SchemaVersion
  /\ ~StepFails(proc[p].next)
  /\ shape' = shape \cup {proc[p].next}
  /\ facts' = facts \cap KeptBy(proc[p].next)
  /\ stamp' = proc[p].next
  /\ proc' = [proc EXCEPT ![p].next = @ + 1]
  /\ UNCHANGED <<rows, backups, opens, recorded, overlap>>

\* A statement throws, because of what it finds or for a reason of the machine:
\* ROLLBACK, and the constructor closes the file and throws.
RollBack(p) ==
  /\ proc[p].at = "migrating"
  /\ proc[p].next <= SchemaVersion
  /\ proc' = At(p, "failed")
  /\ UNCHANGED <<stamp, shape, facts, rows, backups, opens, recorded, overlap>>

\* The row counts are compared after the last step has been committed.
FinishMigration(p) ==
  /\ proc[p].at = "migrating"
  /\ proc[p].next > SchemaVersion
  /\ proc' = At(p, IF rows = proc[p].before THEN "open" ELSE "failed")
  /\ UNCHANGED <<stamp, shape, facts, rows, backups, opens, recorded, overlap>>

\* Whoever has the file open adds rows, with facts in the newer columns.
Record(p) ==
  /\ proc[p].at = "open"
  /\ rows < MaxRows
  /\ \E f \in Facts :
       /\ facts' = facts \cup {f}
       /\ recorded' = recorded \cup {f}
  /\ rows' = rows + 1
  /\ UNCHANGED <<stamp, shape, backups, proc, opens, overlap>>

\* The process closes the file or is killed, wherever it is.
Leave(p) ==
  /\ proc[p] # Closed
  /\ proc' = [proc EXCEPT ![p] = Closed]
  /\ UNCHANGED <<stamp, shape, facts, rows, backups, opens, recorded, overlap>>

StoreNext ==
  \E p \in Procs :
    \/ Look(p)
    \/ Create(p)
    \/ BeginBackup(p)
    \/ EndBackup(p)
    \/ SkipBackup(p)
    \/ Migrate(p)
    \/ RollBack(p)
    \/ FinishMigration(p)
    \/ Record(p)
    \/ Leave(p)

StoreSpec == StoreInit /\ [][StoreNext]_storeVars

-----------------------------------------------------------------------------
\* The stamp names the shape, after any crash and any failed step: the next
\* process to open the file runs the steps that are missing, and none of them
\* trips over a table that is there already.  (A file without a stamp may have
\* any of the tables: they are created where they are missing.)
StampNamesTheShape ==
  ~overlap =>
    \/ stamp = 0
    \/ shape = {v \in Versions : v <= stamp}

\* A migration destroys nothing: what was recorded in a column some version
\* added is still there after any number of openings, crashes and failures.
NothingRecordedIsLost == ~overlap => recorded \subseteq facts

\* "A migration that throws leaves the database [where it was] ... and the file
\* opens afterwards" (docs/product/design-and-review-loop-plan.md:467), without
\* the condition that nobody else is opening it.
FileOpensAfterwards ==
  \A k \in Steps : k > stamp /\ stamp > 0 => ~StepFails(k)
=============================================================================
