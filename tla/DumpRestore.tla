---------------------------- MODULE DumpRestore ----------------------------
(***************************************************************************)
(* The portable dump: dumpStore(), and restoreDump() into the database of  *)
(* another workspace, one transaction per table in an order that must put  *)
(* parents before children, while a console may be writing to it.          *)
(*                                                                         *)
(* The database is the origin of each table's rows.  Rows themselves are   *)
(* looked at where an older dump lacks a column: the parent of an answer   *)
(* and the profile of a run.                                               *)
(***************************************************************************)
EXTENDS Naturals, Sequences, FiniteSets, SequencesExt, FiniteSetsExt

CONSTANTS
  Sources,      \* what the databases that are dumped may hold
  Dumped,       \* the versions of the databases that are dumped
  MaxRestores   \* bound: how often a restore is tried

BuildVersion == 12

CoreTables ==
  << "projects", "prd_documents", "prd_revisions", "prd_update_proposals",
     "prd_edits", "declared_architecture_revisions",
     "declared_architecture_heads", "snapshots", "file_hashes", "plans",
     "questions", "runs", "run_events", "run_questions", "answers",
     "answer_citations", "plan_proposals", "answer_corrections",
     "verifications", "verification_results", "flow_metrics",
     "runtime_coverage_runs", "exports" >>

IndexTables ==
  << "symbols", "call_sites", "modules", "entry_points", "call_nodes",
     "call_edges", "call_graph_meta" >>

\* What the schema has and no dump does.
UndumpedTables ==
  { "prd_flow_relevance", "prd_requirement_assessments",
    "prd_requirement_citations", "prd_evidence_proposals" }

DumpedTables == ToSet(CoreTables) \cup ToSet(IndexTables)
AllTables == DumpedTables \cup UndumpedTables

\* REFERENCES in the schema: the tables a row of the table points into.
ParentsOf(t) ==
  CASE t \in {"snapshots", "questions", "prd_documents", "plans",
              "declared_architecture_revisions", "declared_architecture_heads"} ->
         {"projects"} \cup (IF t = "plans" THEN {"snapshots"} ELSE {})
    [] t \in {"prd_revisions"} -> {"prd_documents"}
    [] t = "prd_edits" -> {"prd_documents", "prd_update_proposals"}
    [] t \in {"file_hashes", "symbols", "call_sites", "modules", "entry_points",
              "prd_requirement_assessments"} -> {"snapshots"}
    [] t = "run_events" -> {"runs"}
    [] t = "verification_results" -> {"verifications"}
    [] t = "plan_proposals" -> {"plans", "answers", "snapshots"}
    [] t \in {"answer_citations", "answer_corrections", "verifications",
              "exports", "flow_metrics", "runtime_coverage_runs"} -> {"answers"}
    [] t \in {"prd_flow_relevance", "prd_evidence_proposals"} ->
         {"answers", "snapshots"}
    [] OTHER -> {}

\* The version of the schema that brought a table.
VersionOf(t) ==
  CASE t \in {"declared_architecture_revisions", "declared_architecture_heads"} -> 3
    [] t = "runtime_coverage_runs" -> 4
    [] t \in {"plans", "plan_proposals"} -> 6
    [] t \in {"prd_documents", "prd_revisions"} -> 8
    [] t \in {"prd_update_proposals", "prd_edits"} -> 9
    [] t \in UndumpedTables -> IF t = "prd_evidence_proposals" THEN 12 ELSE 11
    [] OTHER -> 1

\* What is dumped has a version, and the schema's references hold in it.
ASSUME DumpAssumption ==
  /\ Dumped \subseteq Nat \ {0}
  /\ \A rows \in Sources :
       rows \subseteq AllTables /\ \A t \in rows : ParentsOf(t) \subseteq rows

-----------------------------------------------------------------------------
\* A column that a database, or a dump of it, does not have reads as this.
NULL == "null"

Relationships == {"follow_up", "supersedes", "proposes_change_to"}

\* Slip: a parent without a relationship reads as a follow-up.
relationshipOfNew(row) ==
  IF row.parent = NULL THEN NULL
  ELSE IF row.relationship \in Relationships THEN row.relationship
  ELSE IF row.kind = "proposed" THEN "proposes_change_to" ELSE "follow_up"

\* relationshipOf(): what an answer's row says of its parent.
relationshipOf(row) ==
  IF row.parent = NULL THEN NULL
  ELSE IF row.relationship \in Relationships THEN row.relationship
  ELSE IF row.kind = "proposed" THEN "proposes_change_to" ELSE "supersedes"

\* What the step to version 5 writes into that column.
MigratedRelationship(row) ==
  IF row.parent = NULL THEN NULL
  ELSE IF row.kind = "proposed" THEN "proposes_change_to" ELSE "supersedes"

OrElse(value, other) == IF value = NULL THEN other ELSE value

\* readRunProfile(): the profile of a run, whatever its row has of it.
readRunProfile(row) ==
  [ requested |-> OrElse(row.requestedClient, row.client),
    effective |-> OrElse(row.effectiveClient, row.client),
    model     |-> OrElse(row.effectiveModel, "client-default") ]

\* What the step to version 7 writes into every row.
MigratedRun(row) ==
  [row EXCEPT !.requestedClient = row.client,
              !.effectiveClient = row.client,
              !.effectiveModel = "client-default"]

Answers ==
  [kind : {"observed", "proposed"}, parent : {NULL, "a0"},
   relationship : Relationships \cup {NULL}]
Runs ==
  [client : {"claude", "codex"}, requestedClient : {"claude", "codex", NULL},
   effectiveClient : {"claude", "codex", NULL},
   effectiveModel : {"opus", "client-default", NULL}]

\* The rows a database of that version can have.
AnswersAt(v) ==
  {a \in Answers :
     IF v < 5 THEN a.relationship = NULL
     ELSE (a.relationship = NULL) <=> (a.parent = NULL)}
RunsAt(v) ==
  {r \in Runs :
     IF v < 7
     THEN {r.requestedClient, r.effectiveClient, r.effectiveModel} = {NULL}
     ELSE NULL \notin {r.requestedClient, r.effectiveClient, r.effectiveModel}}

-----------------------------------------------------------------------------
VARIABLES
  dump,      \* the file: version, tables, and whether index and transcripts
  source,    \* the tables with rows in the database that was dumped
  target,    \* of a table of this database: where its rows came from
  restore,   \* where the restore is, and the tables it has left
  tries,     \* how often it was tried
  disturbed  \* somebody else wrote into this database

dumpVars == <<dump, source, target, restore, tries, disturbed>>

NoDump == [version |-> 0, all |-> FALSE, transcripts |-> FALSE, tables |-> {}]

Stopped(how) == [at |-> how, left |-> {}]

DumpInit ==
  /\ source = {}
  /\ dump = NoDump
  /\ target = [t \in AllTables |-> "empty"]
  /\ restore = Stopped("idle")
  /\ tries = 0
  /\ disturbed = FALSE

\* dumpStore(): the core tables, without the transcripts if so asked, with the
\* index if so asked.
dumpStore ==
  /\ dump = NoDump
  /\ \E v \in Dumped, rows \in Sources, all \in BOOLEAN, transcripts \in BOOLEAN :
       LET tables == {t \in ToSet(CoreTables) : transcripts \/ t # "run_events"}
                       \cup (IF all THEN ToSet(IndexTables) ELSE {})
       IN /\ source' = {t \in rows : VersionOf(t) <= v}
          /\ dump' = [version |-> v, all |-> all, transcripts |-> transcripts,
                      tables |-> source' \cap tables]
  /\ UNCHANGED <<target, restore, tries, disturbed>>

\* Slip: a database is empty when it has no answer.
isEmptyOfAnswers == target["answers"] = "empty"

isEmpty == \A t \in AllTables : target[t] = "empty"

\* Slip: the tables of the index are not restored.
BeginRestoreCore ==
  /\ dump # NoDump
  /\ restore.at \in {"idle", "failed", "refused", "done"}
  /\ tries < MaxRestores
  /\ tries' = tries + 1
  /\ restore' = IF dump.version > BuildVersion \/ ~isEmpty
                THEN Stopped("refused")
                ELSE [at |-> "restoring", left |-> dump.tables \cap ToSet(CoreTables)]
  /\ UNCHANGED <<dump, source, target, disturbed>>

\* restoreDump(), up to its first table: a newer dump and a database with a
\* row in it are refused.
BeginRestore ==
  /\ dump # NoDump
  /\ restore.at \in {"idle", "failed", "refused", "done"}
  /\ tries < MaxRestores
  /\ tries' = tries + 1
  /\ restore' = IF dump.version > BuildVersion \/ ~isEmpty
                THEN Stopped("refused")
                ELSE [at |-> "restoring", left |-> dump.tables]
  /\ UNCHANGED <<dump, source, target, disturbed>>

\* The tables are restored in the order in which they are listed, those of the
\* index last.
Listed(order, t, u) == \E i, j \in DOMAIN order : i < j /\ order[i] = t /\ order[j] = u

Precedes(t, u) ==
  \/ Listed(CoreTables, t, u)
  \/ t \in ToSet(CoreTables) /\ u \in ToSet(IndexTables)
  \/ Listed(IndexTables, t, u)

\* restoreTable(): every row of a table in one transaction.  A key that is
\* taken, or a row that points at nothing, undoes the table.
TableFits(t) ==
  /\ target[t] = "empty"
  /\ \A parent \in ParentsOf(t) : target[parent] = "dump"

restoreTable(t) ==
  /\ restore.at = "restoring"
  /\ t \in restore.left
  /\ \A u \in restore.left : ~Precedes(u, t)
  /\ IF TableFits(t)
     THEN /\ target' = [target EXCEPT ![t] = "dump"]
          /\ restore' = [restore EXCEPT !.left = @ \ {t}]
     ELSE /\ restore' = Stopped("failed")
          /\ UNCHANGED target
  /\ UNCHANGED <<dump, source, tries, disturbed>>

Restored ==
  /\ restore.at = "restoring"
  /\ restore.left = {}
  /\ restore' = Stopped("done")
  /\ UNCHANGED <<dump, source, target, tries, disturbed>>

\* The command is killed between two tables.
RestoreDies ==
  /\ restore.at = "restoring"
  /\ restore' = Stopped("idle")
  /\ UNCHANGED <<dump, source, target, tries, disturbed>>

\* A console is started on the same workspace: its first write is the project.
ConsoleWrites ==
  /\ target["projects"] = "empty"
  /\ target' = [target EXCEPT !["projects"] = "console"]
  /\ disturbed' = TRUE
  /\ UNCHANGED <<dump, source, restore, tries>>

DumpNext ==
  \/ dumpStore
  \/ BeginRestore
  \/ \E t \in DumpedTables : restoreTable(t)
  \/ Restored
  \/ RestoreDies
  \/ ConsoleWrites

DumpSpec == DumpInit /\ [][DumpNext]_dumpVars

-----------------------------------------------------------------------------
\* A restore that is not disturbed never fails on a row whose parent is not
\* there: the order of the tables agrees with the references of the schema,
\* whichever tables the dump has; and a second restore into what a killed one
\* left behind is refused before it can meet a row of the first.
OrderSuffices == ~disturbed => restore.at # "failed"

\* A restore that says it is done brought back everything that a re-index
\* would not, but for the tables no dump has and the transcripts left out.
DoneMeansComplete ==
  restore.at = "done" =>
    \A t \in source :
      \/ target[t] # "empty"
      \/ t \in UndumpedTables
      \/ t \in ToSet(IndexTables) /\ ~dump.all
      \/ t = "run_events" /\ ~dump.transcripts

\* A row of an older dump reads as the same row does after the migrations: the
\* compatibility readers and the migration's statements are two tellings of one
\* history.
OldRowsReadAsMigrated ==
  dump # NoDump =>
    /\ dump.version < 5 =>
         \A row \in AnswersAt(dump.version) :
           relationshipOf(row) =
             relationshipOf([row EXCEPT !.relationship = MigratedRelationship(row)])
    /\ dump.version < 7 =>
         \A row \in RunsAt(dump.version) :
           readRunProfile(row) = readRunProfile(MigratedRun(row))

\* A restored database is the dumped one: in every table, with every row, and
\* with what the rows of an older release mean.
RestoredIsTheDump == OrderSuffices /\ DoneMeansComplete /\ OldRowsReadAsMigrated
=============================================================================
