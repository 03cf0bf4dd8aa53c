------------------------ MODULE StoreMigration_proofs ------------------------
(***************************************************************************)
(* The version stamp of veriflow.db and what its migrations keep, for any  *)
(* number of processes that open the file, from any version, with a crash, *)
(* a failed statement or a new opening at any moment; what a restored dump *)
(* brings back (RestoredIsTheDump); and, of what an index puts into it,    *)
(* which files the hashes and the evidence are about (EvidenceIsHashed)    *)
(* and what the stored call graph is (DoorsReachTheGraph).                 *)
(***************************************************************************)
EXTENDS StoreMigration, DumpRestore, IgnoreRules, CallGraph,
        FiniteSetTheorems, WellFoundedInduction, TLAPS

\* The facts and the versions their columns came with.
LEMMA FactsHaveVersions == \A f \in Facts : FactOf[f] \in 2 .. 7
  BY DEF Facts, FactOf

-----------------------------------------------------------------------------
(* Types.                                                                  *)

Looked ==
  [at : {"fresh", "older", "copying", "refused", "open", "failed"}, found : Nat]

Counting ==
  [at : {"migrating", "open", "failed"}, found : 1 .. 11, next : 2 .. 13,
   before : Nat, copied : BOOLEAN]

StoreTypes ==
  /\ stamp \in 0 .. SchemaVersion \cup {NewVersion}
  /\ shape \in SUBSET Versions
  /\ rows \in Nat
  /\ overlap \in BOOLEAN
  /\ proc \in [Procs -> {Closed} \cup Looked \cup Counting]
  /\ \A p \in Procs :
       /\ proc[p].at \in {"older", "copying"} => proc[p] \in Looked /\ proc[p].found \in 1 .. 11
       /\ proc[p].at = "migrating" => proc[p] \in Counting

-----------------------------------------------------------------------------
(* The inductive invariant.                                                *)

\* One process is opening the file, unless there was an overlap.
OneOpens == \A p, q \in Procs : Opening(p) /\ Opening(q) => p = q

\* Where an opening stands is what the stamp says.
PlaceFits ==
  \A p \in Procs :
    /\ proc[p].at = "fresh" => stamp = 0
    /\ proc[p].at \in {"older", "copying"} => stamp = proc[p].found
    /\ proc[p].at = "migrating" => stamp = proc[p].next - 1
    /\ proc[p].at = "open" => stamp = SchemaVersion

ShapeFits == stamp = 0 \/ shape = {v \in Versions : v <= stamp}

\* What is recorded is there, and no step to come is the one of its column.
FactsFit == recorded \subseteq facts /\ \A f \in recorded : f \in Facts /\ FactOf[f] <= stamp

StoreInv ==
  /\ StoreTypes
  /\ ~overlap => OneOpens /\ PlaceFits /\ ShapeFits /\ FactsFit

\* The invariant of a process p that goes to r while the others stay.
LEMMA ProcMoves ==
  ASSUME StoreTypes, NEW p \in Procs, NEW r \in {Closed} \cup Looked \cup Counting,
         r.at \in {"older", "copying"} => r \in Looked /\ r.found \in 1 .. 11,
         r.at = "migrating" => r \in Counting,
         proc' = [proc EXCEPT ![p] = r]
  PROVE  /\ proc' \in [Procs -> {Closed} \cup Looked \cup Counting]
         /\ \A q \in Procs :
              /\ proc'[q].at \in {"older", "copying"} =>
                   proc'[q] \in Looked /\ proc'[q].found \in 1 .. 11
              /\ proc'[q].at = "migrating" => proc'[q] \in Counting
         /\ proc'[p] = r
         /\ \A q \in Procs \ {p} : proc'[q] = proc[q]
<1>1. proc \in [Procs -> {Closed} \cup Looked \cup Counting]
  BY DEF StoreTypes
<1>2. proc' \in [Procs -> {Closed} \cup Looked \cup Counting]
  BY <1>1
<1>3. proc'[p] = r /\ \A q \in Procs \ {p} : proc'[q] = proc[q]
  BY <1>1
<1> QED BY <1>2, <1>3 DEF StoreTypes

\* Of an opening that is ready to count rows, or counts and migrates them.
LEMMA PlacesDiffer ==
  /\ Closed.at = "closed"
  /\ \A r \in Looked : [r EXCEPT !.at = "open"] \in Looked /\ [r EXCEPT !.at = "open"].at = "open"
  /\ \A r \in Looked : [r EXCEPT !.at = "failed"] \in Looked /\ [r EXCEPT !.at = "failed"].at = "failed"
  /\ \A r \in Looked :
       /\ [r EXCEPT !.at = "copying"] \in Looked
       /\ [r EXCEPT !.at = "copying"].at = "copying"
       /\ [r EXCEPT !.at = "copying"].found = r.found
  /\ \A r \in Counting : [r EXCEPT !.at = "open"] \in Counting /\ [r EXCEPT !.at = "open"].at = "open"
  /\ \A r \in Counting : [r EXCEPT !.at = "failed"] \in Counting /\ [r EXCEPT !.at = "failed"].at = "failed"
  BY DEF Closed, Looked, Counting

\* The constructor looks at the file: nobody else is opening it, or they overlap.
LEMMA LookKeeps == ASSUME StoreInv, NEW p \in Procs, Look(p) PROVE StoreInv'
<1> DEFINE place == CASE stamp = 0 -> "fresh"
                      [] stamp > SchemaVersion -> "refused"
                      [] stamp = SchemaVersion -> "open"
                      [] OTHER -> "older"
           r == [at |-> place, found |-> stamp]
<1>1. /\ proc' = [proc EXCEPT ![p] = r] /\ proc[p] = Closed
      /\ shape' = CASE place = "fresh" -> shape \cup BaseShape
                    [] place = "open" -> Versions
                    [] OTHER -> shape
      /\ overlap' = (overlap \/ \E q \in Procs \ {p} : Opening(q))
      /\ UNCHANGED <<stamp, facts, rows, recorded>>
  BY DEF Look
<1>2. /\ StoreTypes /\ stamp \in Nat
      /\ stamp \in 0 .. 12 \/ stamp > 12
  BY StampsAssumption DEF StoreInv, StoreTypes, SchemaVersion
<1>3. /\ stamp = 0 => place = "fresh"
      /\ stamp \in 1 .. 11 => place = "older"
      /\ stamp = 12 => place = "open"
      /\ stamp > 12 => place = "refused"
  BY <1>2 DEF SchemaVersion
<1> HIDE DEF place
<1>4. r \in Looked /\ (r.at \in {"older", "copying"} => r.found \in 1 .. 11) /\ r.at # "migrating"
  BY <1>2, <1>3 DEF Looked
<1>5. /\ proc' \in [Procs -> {Closed} \cup Looked \cup Counting]
      /\ \A q \in Procs :
           /\ proc'[q].at \in {"older", "copying"} =>
                proc'[q] \in Looked /\ proc'[q].found \in 1 .. 11
           /\ proc'[q].at = "migrating" => proc'[q] \in Counting
      /\ proc'[p] = r
      /\ \A q \in Procs \ {p} : proc'[q] = proc[q]
  BY <1>1, <1>2, <1>4, ProcMoves
<1>6. StoreTypes'
  BY <1>1, <1>2, <1>3, <1>5 DEF StoreTypes, BaseShape, Versions, SchemaVersion
<1>7. ASSUME ~overlap' PROVE OneOpens' /\ PlaceFits' /\ ShapeFits' /\ FactsFit'
  <2>1. OneOpens /\ PlaceFits /\ ShapeFits /\ FactsFit /\ \A q \in Procs \ {p} : ~Opening(q)
    BY <1>1, <1>7 DEF StoreInv
  <2>2. OneOpens'
    BY <1>5, <2>1 DEF OneOpens, Opening
  <2>3. PlaceFits'
    BY <1>1, <1>2, <1>3, <1>5, <2>1 DEF PlaceFits, SchemaVersion
  <2>4. ShapeFits'
    BY <1>1, <1>2, <1>3, <2>1 DEF ShapeFits, Versions, SchemaVersion
  <2> QED BY <1>1, <2>1, <2>2, <2>3, <2>4 DEF FactsFit
<1> QED BY <1>6, <1>7 DEF StoreInv

\* A step of an opening that changes neither stamp nor shape nor facts, and
\* takes the opening of p to r, which is no later than it was.
LEMMA OpeningMoves ==
  ASSUME StoreInv, NEW p \in Procs, NEW r \in {Closed} \cup Looked \cup Counting,
         r.at \in {"older", "copying"} => r \in Looked /\ r.found \in 1 .. 11,
         r.at = "migrating" => r \in Counting,
         proc' = [proc EXCEPT ![p] = r],
         r.at \in {"fresh", "older", "copying", "migrating"} => Opening(p),
         PlaceFits =>
           /\ r.at = "fresh" => stamp = 0
           /\ r.at \in {"older", "copying"} => stamp = r.found
           /\ r.at = "migrating" => stamp = r.next - 1
           /\ r.at = "open" => stamp = SchemaVersion,
         UNCHANGED <<stamp, shape, facts, rows, recorded, overlap>>
  PROVE  StoreInv'
<1>1. StoreTypes
  BY DEF StoreInv
<1>2. /\ proc' \in [Procs -> {Closed} \cup Looked \cup Counting]
      /\ \A q \in Procs :
           /\ proc'[q].at \in {"older", "copying"} =>
                proc'[q] \in Looked /\ proc'[q].found \in 1 .. 11
           /\ proc'[q].at = "migrating" => proc'[q] \in Counting
      /\ proc'[p] = r
      /\ \A q \in Procs \ {p} : proc'[q] = proc[q]
  BY <1>1, ProcMoves
<1>3. StoreTypes'
  BY <1>1, <1>2 DEF StoreTypes
<1>4. ASSUME ~overlap' PROVE OneOpens' /\ PlaceFits' /\ ShapeFits' /\ FactsFit'
  <2>1. OneOpens /\ PlaceFits /\ ShapeFits /\ FactsFit
    BY <1>4 DEF StoreInv
  <2>2. OneOpens'
    BY <1>2, <2>1 DEF OneOpens, Opening
  <2>3. PlaceFits'
    BY <1>2, <2>1 DEF PlaceFits
  <2> QED BY <2>1, <2>2, <2>3 DEF ShapeFits, FactsFit
<1> QED BY <1>3, <1>4 DEF StoreInv

\* A file without a stamp becomes this build's at once.
LEMMA CreateKeeps == ASSUME StoreInv, NEW p \in Procs, Create(p) PROVE StoreInv'
<1>1. /\ StoreTypes /\ proc[p].at = "fresh" /\ shape' = Versions
      /\ UNCHANGED <<facts, rows, recorded, overlap>>
  BY DEF Create, StoreInv
<1>2. proc[p] \in Looked
  BY <1>1 DEF StoreTypes, Closed, Counting
<1>3. PICK how \in {"open", "failed"} :
        /\ proc' = At(p, how)
        /\ how = "open" => stamp = 0 /\ stamp' = SchemaVersion
        /\ how = "failed" => stamp # 0 /\ stamp' = stamp
  BY DEF Create
<1> DEFINE r == [proc[p] EXCEPT !.at = how]
<1>4. r \in Looked /\ r.at = how
  BY <1>2, PlacesDiffer
<1>5. proc' = [proc EXCEPT ![p] = r]
  BY <1>1, <1>3 DEF At
<1> HIDE DEF r
<1>6. /\ proc' \in [Procs -> {Closed} \cup Looked \cup Counting]
      /\ \A q \in Procs :
           /\ proc'[q].at \in {"older", "copying"} =>
                proc'[q] \in Looked /\ proc'[q].found \in 1 .. 11
           /\ proc'[q].at = "migrating" => proc'[q] \in Counting
      /\ proc'[p] = r
      /\ \A q \in Procs \ {p} : proc'[q] = proc[q]
  BY <1>1, <1>4, <1>5, ProcMoves
<1>7. StoreTypes'
  BY <1>1, <1>3, <1>6 DEF StoreTypes, SchemaVersion
<1>8. ASSUME ~overlap' PROVE OneOpens' /\ PlaceFits' /\ ShapeFits' /\ FactsFit'
  <2>1. OneOpens /\ PlaceFits /\ ShapeFits /\ FactsFit /\ stamp = 0
    BY <1>1, <1>8 DEF StoreInv, PlaceFits
  <2>2. how = "open" /\ stamp' = 12
    BY <1>3, <2>1 DEF SchemaVersion
  <2>3. \A q \in Procs \ {p} : ~Opening(q) /\ proc[q].at # "open"
    BY <1>1, <2>1 DEF OneOpens, Opening, PlaceFits, SchemaVersion
  <2>4. OneOpens' /\ PlaceFits'
    BY <1>4, <1>6, <2>2, <2>3 DEF OneOpens, Opening, PlaceFits, SchemaVersion
  <2>5. ShapeFits'
    BY <1>1, <2>2 DEF ShapeFits, Versions, SchemaVersion
  <2>6. FactsFit'
    BY <1>1, <2>1, <2>2, FactsHaveVersions DEF FactsFit
  <2> QED BY <2>4, <2>5, <2>6
<1> QED BY <1>7, <1>8 DEF StoreInv

\* The copy of an older file, written, found or done without.
LEMMA BackupKeeps ==
  ASSUME StoreInv, NEW p \in Procs, BeginBackup(p) \/ EndBackup(p) \/ SkipBackup(p)
  PROVE  StoreInv'
<1>1. /\ StoreTypes /\ proc[p].at \in {"older", "copying"} /\ rows \in Nat
      /\ UNCHANGED <<stamp, shape, facts, rows, recorded, overlap>>
  BY DEF BeginBackup, EndBackup, SkipBackup, StoreInv, StoreTypes
<1>2. proc[p] \in Looked /\ proc[p].found \in 1 .. 11 /\ Opening(p)
  BY <1>1 DEF StoreTypes, Opening
<1>3. CASE BeginBackup(p)
  <2> DEFINE r == [proc[p] EXCEPT !.at = "copying"]
  <2>1. r \in Looked /\ r.at = "copying" /\ r.found = proc[p].found
    BY <1>2, PlacesDiffer
  <2>2. proc' = [proc EXCEPT ![p] = r]
    BY <1>3 DEF BeginBackup, At
  <2> HIDE DEF r
  <2> QED BY <1>1, <1>2, <2>1, <2>2, OpeningMoves DEF PlaceFits
<1>4. ASSUME NEW copied \in BOOLEAN, Counted(p, copied) PROVE StoreInv'
  <2> DEFINE r == [at |-> "migrating", found |-> proc[p].found,
                   next |-> proc[p].found + 1, before |-> rows, copied |-> copied]
  <2>1. /\ r \in Counting /\ r.at = "migrating"
        /\ proc[p].found = r.next - 1
    BY <1>1, <1>2, <1>4 DEF Counting
  <2>2. proc' = [proc EXCEPT ![p] = r]
    BY <1>4 DEF Counted
  <2> HIDE DEF r
  <2> QED BY <1>1, <1>2, <2>1, <2>2, OpeningMoves DEF PlaceFits
<1> QED BY <1>3, <1>4 DEF EndBackup, SkipBackup

\* One migration: the shape and the stamp move on together, and what it resets
\* nobody can have recorded yet.
LEMMA MigrateKeeps == ASSUME StoreInv, NEW p \in Procs, Migrate(p) PROVE StoreInv'
<1> DEFINE k == proc[p].next
           r == [proc[p] EXCEPT !.next = @ + 1]
<1>1. /\ StoreTypes /\ proc[p].at = "migrating" /\ k <= 12
      /\ shape' = shape \cup {k} /\ facts' = facts \cap KeptBy(k) /\ stamp' = k
      /\ proc' = [proc EXCEPT ![p] = r]
      /\ UNCHANGED <<rows, recorded, overlap>>
  BY DEF Migrate, StoreInv, SchemaVersion
<1>2. proc[p] \in Counting
  BY <1>1 DEF StoreTypes
<1>3. k \in 2 .. 12
  BY <1>1, <1>2 DEF Counting
<1>4. r \in Counting /\ r.at = "migrating" /\ r.next = k + 1
  BY <1>1, <1>2, <1>3 DEF Counting
<1> HIDE DEF r, k
<1>5. /\ proc' \in [Procs -> {Closed} \cup Looked \cup Counting]
      /\ \A q \in Procs :
           /\ proc'[q].at \in {"older", "copying"} =>
                proc'[q] \in Looked /\ proc'[q].found \in 1 .. 11
           /\ proc'[q].at = "migrating" => proc'[q] \in Counting
      /\ proc'[p] = r
      /\ \A q \in Procs \ {p} : proc'[q] = proc[q]
  BY <1>1, <1>4, ProcMoves
<1>6. StoreTypes'
  BY <1>1, <1>3, <1>5 DEF StoreTypes, Versions, SchemaVersion
<1>7. ASSUME ~overlap' PROVE OneOpens' /\ PlaceFits' /\ ShapeFits' /\ FactsFit'
  <2>1. OneOpens /\ PlaceFits /\ ShapeFits /\ FactsFit /\ stamp = k - 1
    BY <1>1, <1>7 DEF StoreInv, PlaceFits, k
  <2>2. stamp \in 1 .. 11
    BY <1>3, <2>1
  <2>3. \A q \in Procs \ {p} : ~Opening(q) /\ proc[q].at # "open"
    BY <1>1, <2>1, <2>2 DEF OneOpens, Opening, PlaceFits, SchemaVersion
  <2>4. OneOpens'
    BY <1>5, <2>3 DEF OneOpens, Opening
  <2>5. PlaceFits'
    BY <1>1, <1>3, <1>4, <1>5, <2>3 DEF PlaceFits, Opening
  <2>6. ShapeFits'
    BY <1>1, <1>3, <2>1, <2>2 DEF ShapeFits, Versions, SchemaVersion
  <2>7. FactsFit'
    BY <1>1, <1>3, <2>1, FactsHaveVersions DEF FactsFit, KeptBy
  <2> QED BY <2>4, <2>5, <2>6, <2>7
<1> QED BY <1>6, <1>7 DEF StoreInv

\* A migration that is rolled back, or done: what it did stays as it is.
LEMMA EndKeeps ==
  ASSUME StoreInv, NEW p \in Procs, RollBack(p) \/ FinishMigration(p)
  PROVE  StoreInv'
<1>1. PICK how \in {"open", "failed"} :
        /\ proc[p].at = "migrating" /\ proc' = At(p, how)
        /\ how = "open" => proc[p].next > 12
        /\ UNCHANGED <<stamp, shape, facts, rows, recorded, overlap>>
  BY DEF RollBack, FinishMigration, SchemaVersion
<1>2. proc[p] \in Counting /\ Opening(p) /\ proc[p].next \in 2 .. 13
  BY <1>1 DEF StoreInv, StoreTypes, Opening, Counting
<1> DEFINE r == [proc[p] EXCEPT !.at = how]
<1>3. r \in Counting /\ r.at = how
  BY <1>2, PlacesDiffer
<1>4. proc' = [proc EXCEPT ![p] = r]
  BY <1>1 DEF At
<1>5. PlaceFits /\ how = "open" => stamp = SchemaVersion
  BY <1>1, <1>2 DEF PlaceFits, SchemaVersion
<1> HIDE DEF r
<1> QED BY <1>1, <1>2, <1>3, <1>4, <1>5, OpeningMoves

\* Whoever has the file open records at this build's version.
LEMMA RecordKeeps == ASSUME StoreInv, NEW p \in Procs, Record(p) PROVE StoreInv'
<1>1. /\ proc[p].at = "open" /\ rows' = rows + 1
      /\ UNCHANGED <<stamp, shape, proc, overlap>>
  BY DEF Record
<1>2. PICK f \in Facts : facts' = facts \cup {f} /\ recorded' = recorded \cup {f}
  BY DEF Record
<1>3. StoreTypes'
  BY <1>1 DEF StoreInv, StoreTypes
<1>4. ASSUME ~overlap' PROVE OneOpens' /\ PlaceFits' /\ ShapeFits' /\ FactsFit'
  <2>1. OneOpens /\ PlaceFits /\ ShapeFits /\ FactsFit /\ stamp = 12
    BY <1>1, <1>4 DEF StoreInv, PlaceFits, SchemaVersion
  <2>2. FactsFit'
    BY <1>1, <1>2, <2>1, FactsHaveVersions DEF FactsFit
  <2> QED BY <1>1, <2>1, <2>2 DEF OneOpens, Opening, PlaceFits, ShapeFits
<1> QED BY <1>3, <1>4 DEF StoreInv

\* A process that goes leaves the file as it is.
LEMMA LeaveKeeps == ASSUME StoreInv, NEW p \in Procs, Leave(p) PROVE StoreInv'
  BY OpeningMoves, PlacesDiffer DEF Leave, PlaceFits, SchemaVersion

\* The invariant is inductive.
LEMMA StoreInvStep == StoreInv /\ [StoreNext]_storeVars => StoreInv'
<1> SUFFICES ASSUME StoreInv, [StoreNext]_storeVars PROVE StoreInv'
  OBVIOUS
<1>1. CASE UNCHANGED storeVars
  BY <1>1
  DEF storeVars, StoreInv, StoreTypes, OneOpens, Opening, PlaceFits, ShapeFits, FactsFit
<1> QED
  BY <1>1, LookKeeps, CreateKeeps, BackupKeeps, MigrateKeeps, EndKeeps, RecordKeeps,
     LeaveKeeps
  DEF StoreNext

(***************************************************************************)
(* Stamp, shape, facts and openings go together in every reachable state,  *)
(* as long as two processes did not open an older or an empty file at once.*)
(***************************************************************************)
THEOREM StoreInvariance == StoreSpec => []StoreInv
<1>1. StoreInit => StoreInv
  <2> SUFFICES ASSUME StoreInit PROVE StoreInv
    OBVIOUS
  <2>1. stamp \in 0 .. 12 \cup {NewVersion} /\ stamp \in Nat
    BY StampsAssumption DEF StoreInit, SchemaVersion
  <2>2. proc = [p \in Procs |-> Closed] /\ Closed.at = "closed"
    BY DEF StoreInit, Closed
  <2>3. StoreTypes
    BY <2>1, <2>2 DEF StoreInit, StoreTypes, Versions, SchemaVersion
  <2>4. OneOpens /\ PlaceFits
    BY <2>2 DEF OneOpens, PlaceFits, Opening
  <2>5. ShapeFits /\ FactsFit
    BY DEF StoreInit, ShapeFits, FactsFit
  <2> QED BY <2>3, <2>4, <2>5 DEF StoreInv
<1> QED BY <1>1, StoreInvStep, PTL DEF StoreSpec

(***************************************************************************)
(* The stamp names the shape after any crash and any failed step, so the   *)
(* next opening runs the steps that are missing and no other (the          *)
(* constructor of Store and migrate()).                                    *)
(***************************************************************************)
THEOREM TheStampIsTrue == StoreSpec => []StampNamesTheShape
<1>1. StoreInv => StampNamesTheShape
  BY DEF StoreInv, ShapeFits, StampNamesTheShape
<1> QED BY <1>1, StoreInvariance, PTL

(***************************************************************************)
(* What was recorded in a column some version added survives every later   *)
(* migration: no step that resets its column runs again.                   *)
(***************************************************************************)
THEOREM MigrationsKeepFacts == StoreSpec => []NothingRecordedIsLost
<1>1. StoreInv => NothingRecordedIsLost
  BY DEF StoreInv, FactsFit, NothingRecordedIsLost
<1> QED BY <1>1, StoreInvariance, PTL

(***************************************************************************)
(* A file that is left at any version opens afterwards: no step to come    *)
(* trips over a table that is there.  The condition that nobody else was   *)
(* opening it is the one the plan leaves out (docs/product/                *)
(* design-and-review-loop-plan.md:467).                                    *)
(***************************************************************************)
THEOREM OpensAfterwardsAlone == StoreSpec => [](~overlap => FileOpensAfterwards)
<1>1. StoreInv => (~overlap => FileOpensAfterwards)
  <2> SUFFICES ASSUME StoreInv, ~overlap, NEW k \in Steps, k > stamp, stamp > 0
               PROVE  ~StepFails(k)
    BY DEF FileOpensAfterwards
  <2>1. stamp \in Nat /\ shape = {v \in Versions : v <= stamp} /\ k \in Nat
    BY StampsAssumption
    DEF StoreInv, StoreTypes, ShapeFits, SchemaVersion, Steps
  <2> QED BY <2>1 DEF StepFails
<1> QED BY <1>1, StoreInvariance, PTL

-----------------------------------------------------------------------------
(* A dump and its restore                                                  *)

\* The tables that are restored, by name.
LEMMA TablesByName ==
  /\ ToSet(CoreTables) = 
       {"projects", "prd_documents", "prd_revisions", "prd_update_proposals",
        "prd_edits", "declared_architecture_revisions",
        "declared_architecture_heads", "snapshots", "file_hashes", "plans",
        "questions", "runs", "run_events", "run_questions", "answers",
        "answer_citations", "plan_proposals", "answer_corrections",
        "verifications", "verification_results", "flow_metrics",
        "runtime_coverage_runs", "exports"}
  /\ ToSet(IndexTables) =
       {"symbols", "call_sites", "modules", "entry_points", "call_nodes",
        "call_edges", "call_graph_meta"}
BY DEF CoreTables, IndexTables, ToSet

\* And the places of the core tables that others point into.
LEMMA CoreOrder ==
  /\ DOMAIN CoreTables = 1..23
  /\ CoreTables[1] = "projects" /\ CoreTables[2] = "prd_documents"
  /\ CoreTables[3] = "prd_revisions" /\ CoreTables[4] = "prd_update_proposals"
  /\ CoreTables[5] = "prd_edits" /\ CoreTables[6] = "declared_architecture_revisions"
  /\ CoreTables[7] = "declared_architecture_heads" /\ CoreTables[8] = "snapshots"
  /\ CoreTables[9] = "file_hashes" /\ CoreTables[10] = "plans"
  /\ CoreTables[11] = "questions" /\ CoreTables[12] = "runs"
  /\ CoreTables[13] = "run_events" /\ CoreTables[15] = "answers"
  /\ CoreTables[16] = "answer_citations" /\ CoreTables[17] = "plan_proposals"
  /\ CoreTables[18] = "answer_corrections" /\ CoreTables[19] = "verifications"
  /\ CoreTables[20] = "verification_results" /\ CoreTables[21] = "flow_metrics"
  /\ CoreTables[22] = "runtime_coverage_runs" /\ CoreTables[23] = "exports"
BY DEF CoreTables

\* A table listed before another one is restored before it.
LEMMA ListedByPlace ==
  ASSUME NEW i \in 1..23, NEW j \in 1..23, i < j
  PROVE  Precedes(CoreTables[i], CoreTables[j])
BY CoreOrder DEF Precedes, Listed

\* The references of the schema agree with the order of a restore, and a dump
\* that has a table has the tables it points into.
LEMMA ParentsComeFirst ==
  ASSUME NEW t \in DumpedTables, NEW p \in ParentsOf(t)
  PROVE  /\ Precedes(p, t)
         /\ p \in ToSet(CoreTables) /\ p # "run_events"
         /\ VersionOf(p) <= VersionOf(t)
<1>1. /\ Precedes("projects", "snapshots") /\ Precedes("projects", "questions")
      /\ Precedes("projects", "prd_documents") /\ Precedes("projects", "plans")
      /\ Precedes("projects", "declared_architecture_revisions")
      /\ Precedes("projects", "declared_architecture_heads")
  BY CoreOrder, ListedByPlace
<1>2. /\ Precedes("snapshots", "plans") /\ Precedes("prd_documents", "prd_revisions")
      /\ Precedes("prd_documents", "prd_edits") /\ Precedes("prd_update_proposals", "prd_edits")
      /\ Precedes("snapshots", "file_hashes") /\ Precedes("runs", "run_events")
      /\ Precedes("verifications", "verification_results")
  BY CoreOrder, ListedByPlace
<1>3. /\ Precedes("plans", "plan_proposals") /\ Precedes("answers", "plan_proposals")
      /\ Precedes("snapshots", "plan_proposals") /\ Precedes("answers", "answer_citations")
      /\ Precedes("answers", "answer_corrections") /\ Precedes("answers", "verifications")
      /\ Precedes("answers", "exports") /\ Precedes("answers", "flow_metrics")
      /\ Precedes("answers", "runtime_coverage_runs")
  BY CoreOrder, ListedByPlace
<1>4. \A u \in ToSet(IndexTables) : Precedes("snapshots", u)
  BY TablesByName DEF Precedes
<1>5. t \in ToSet(CoreTables) \/ t \in ToSet(IndexTables)
  BY DEF DumpedTables
<1>6. Precedes(p, t)
  BY <1>1, <1>2, <1>3, <1>4, <1>5, TablesByName DEF ParentsOf
<1>7. p \in ToSet(CoreTables) /\ p # "run_events"
  BY <1>5, TablesByName DEF ParentsOf
<1>8. VersionOf(p) <= VersionOf(t)
  BY <1>5, TablesByName DEF ParentsOf, VersionOf, UndumpedTables
<1>9. QED  BY <1>6, <1>7, <1>8

\* A table that a dump does not take.
LeftOut(t) ==
  \/ t \in UndumpedTables
  \/ t \in ToSet(IndexTables) /\ dump.all = FALSE
  \/ t = "run_events" /\ dump.transcripts = FALSE

DumpTypes ==
  /\ dump \in [version : Nat, all : BOOLEAN, transcripts : BOOLEAN, tables : SUBSET DumpedTables]
  /\ target \in [AllTables -> {"empty", "dump", "console"}]
  /\ disturbed \in BOOLEAN
  /\ restore \in [at : {"idle", "refused", "restoring", "failed", "done"}, left : SUBSET DumpedTables]

\* The dump has every table with rows, but for those that are left out, and
\* with a table those it points into.
DumpHasItsTables ==
  /\ source \subseteq dump.tables \cup {t \in AllTables : LeftOut(t)}
  /\ \A t \in dump.tables : ParentsOf(t) \subseteq dump.tables

\* What the restore has come to is there; what it has left is not, unless
\* somebody else writes.
RestoreFollows ==
  /\ dump = NoDump => restore.at = "idle"
  /\ restore.at = "restoring" =>
       /\ restore.left \subseteq dump.tables
       /\ \A t \in dump.tables \ restore.left : target[t] = "dump"
       /\ disturbed = FALSE => \A t \in restore.left : target[t] = "empty"
  /\ restore.at = "done" => \A t \in dump.tables : target[t] = "dump"
  /\ restore.at = "failed" => disturbed = TRUE

DumpInv == DumpTypes /\ DumpHasItsTables /\ RestoreFollows

\* A dump takes every table with rows that is not left out (dumpStore()).
LEMMA DumpStoreStep ==
  ASSUME DumpInv, dumpStore
  PROVE  DumpInv'
<1>1. PICK v \in Dumped, had \in Sources, all \in BOOLEAN, transcripts \in BOOLEAN :
        LET tables == {t \in ToSet(CoreTables) : transcripts \/ t # "run_events"}
                        \cup (IF all THEN ToSet(IndexTables) ELSE {})
        IN /\ source' = {t \in had : VersionOf(t) <= v}
           /\ dump' = [version |-> v, all |-> all, transcripts |-> transcripts,
                       tables |-> source' \cap tables]
  BY DEF dumpStore
<1> DEFINE tables == {t \in ToSet(CoreTables) : transcripts \/ t # "run_events"}
                       \cup (IF all THEN ToSet(IndexTables) ELSE {})
<1>2. /\ source' = {t \in had : VersionOf(t) <= v}
      /\ dump' = [version |-> v, all |-> all, transcripts |-> transcripts,
                  tables |-> source' \cap tables]
  BY <1>1
<1>3. tables \subseteq DumpedTables
  BY DEF DumpedTables
<1>4. \A t \in AllTables \ tables :
        \/ t \in UndumpedTables
        \/ t \in ToSet(IndexTables) /\ all = FALSE
        \/ t = "run_events" /\ transcripts = FALSE
  BY DEF AllTables, DumpedTables
<1>5. \A t \in ToSet(CoreTables) : t # "run_events" => t \in tables
  OBVIOUS
<1> HIDE DEF tables
<1>6. /\ dump' \in [version : Nat, all : BOOLEAN, transcripts : BOOLEAN, tables : SUBSET DumpedTables]
      /\ dump'.version = v /\ dump'.all = all /\ dump'.transcripts = transcripts
      /\ dump'.tables = source' \cap tables
  BY <1>2, <1>3, DumpAssumption
<1>7. target' = target /\ restore' = restore /\ disturbed' = disturbed /\ dump = NoDump
  BY DEF dumpStore
<1>8. DumpTypes'
  BY <1>6, <1>7 DEF DumpInv, DumpTypes
<1>9. source' \subseteq dump'.tables \cup {t \in AllTables : LeftOut(t)'}
  <2>1. source' \subseteq AllTables
    BY <1>2, DumpAssumption
  <2>2. \A t \in AllTables \ tables : LeftOut(t)'
    BY <1>4, <1>6 DEF LeftOut
  <2>3. QED  BY <1>6, <2>1, <2>2
<1>10. \A t \in dump'.tables : ParentsOf(t) \subseteq dump'.tables
  <2>1. SUFFICES ASSUME NEW t \in dump'.tables, NEW p \in ParentsOf(t)
                 PROVE  p \in dump'.tables
    OBVIOUS
  <2>2. t \in DumpedTables /\ t \in had /\ VersionOf(t) <= v
    BY <1>2, <1>3, <1>6
  <2>3. p \in had
    BY <2>2, DumpAssumption
  <2>4. p \in ToSet(CoreTables) /\ p # "run_events" /\ VersionOf(p) <= VersionOf(t)
    BY <2>2, ParentsComeFirst
  <2>5. VersionOf(p) \in Nat /\ VersionOf(t) \in Nat /\ v \in Nat
    BY DumpAssumption DEF VersionOf
  <2>6. VersionOf(p) <= v
    BY <2>2, <2>4, <2>5
  <2>7. QED  BY <1>2, <1>5, <1>6, <2>3, <2>4, <2>6
<1>11. RestoreFollows'
  <2>1. restore.at = "idle"
    BY <1>7 DEF DumpInv, RestoreFollows
  <2>2. QED  BY <1>7, <2>1 DEF RestoreFollows
<1>12. DumpHasItsTables'
  BY <1>9, <1>10 DEF DumpHasItsTables
<1>13. QED  BY <1>8, <1>11, <1>12 DEF DumpInv

\* A restore begins with all tables to do and all of them empty, or is refused.
LEMMA BeginRestoreStep ==
  ASSUME DumpInv, BeginRestore
  PROVE  DumpInv'
<1>1. /\ dump' = dump /\ source' = source /\ target' = target /\ disturbed' = disturbed
      /\ dump # NoDump
      /\ \/ restore' = Stopped("refused")
         \/ isEmpty /\ restore' = [at |-> "restoring", left |-> dump.tables]
  BY DEF BeginRestore
<1>2. DumpTypes'
  BY <1>1 DEF DumpInv, DumpTypes, Stopped
<1>3. DumpHasItsTables'
  BY <1>1 DEF DumpInv, DumpHasItsTables, LeftOut
<1>4. RestoreFollows'
  <2>1. CASE restore' = Stopped("refused")
    <3>1. restore'.at = "refused"
      BY <2>1 DEF Stopped
    <3>2. QED  BY <1>1, <3>1 DEF RestoreFollows
  <2>2. CASE isEmpty /\ restore' = [at |-> "restoring", left |-> dump.tables]
    <3>1. restore'.at = "restoring" /\ restore'.left = dump.tables
      BY <2>2
    <3>2. \A t \in dump.tables : target[t] = "empty"
      BY <2>2 DEF DumpInv, DumpTypes, isEmpty, AllTables
    <3>3. QED  BY <1>1, <3>1, <3>2 DEF RestoreFollows
  <2>3. QED  BY <1>1, <2>1, <2>2
<1>5. QED  BY <1>2, <1>3, <1>4 DEF DumpInv

\* A table whose turn it is fits, unless somebody else has written.
LEMMA RestoreTableStep ==
  ASSUME DumpInv, NEW t \in DumpedTables, restoreTable(t)
  PROVE  DumpInv'
<1>1. /\ dump' = dump /\ source' = source /\ disturbed' = disturbed
      /\ restore.at = "restoring" /\ t \in restore.left
      /\ \A u \in restore.left : ~Precedes(u, t)
  BY DEF restoreTable
<1>2. /\ restore.left \subseteq dump.tables
      /\ \A u \in dump.tables \ restore.left : target[u] = "dump"
      /\ disturbed = FALSE => \A u \in restore.left : target[u] = "empty"
      /\ dump # NoDump
  BY <1>1 DEF DumpInv, RestoreFollows
<1>3. DumpHasItsTables'
  BY <1>1 DEF DumpInv, DumpHasItsTables, LeftOut
<1>4. CASE TableFits(t)
  <2>1. /\ target' = [target EXCEPT ![t] = "dump"]
        /\ restore' = [restore EXCEPT !.left = @ \ {t}]
    BY <1>4 DEF restoreTable
  <2>2. restore'.at = "restoring" /\ restore'.left = restore.left \ {t}
    BY <1>1, <2>1 DEF DumpInv, DumpTypes
  <2>3. DumpTypes'
    BY <1>1, <2>1 DEF DumpInv, DumpTypes
  <2>4. t \in AllTables /\ \A u \in DumpedTables : u \in AllTables
    BY DEF AllTables
  <2>5. \A u \in DumpedTables : target'[u] = IF u = t THEN "dump" ELSE target[u]
    BY <2>1, <2>4 DEF DumpInv, DumpTypes
  <2>6. dump.tables \subseteq DumpedTables
    BY DEF DumpInv, DumpTypes
  <2>7. RestoreFollows'
    BY <1>1, <1>2, <2>2, <2>5, <2>6 DEF RestoreFollows
  <2>8. QED  BY <1>3, <2>3, <2>7 DEF DumpInv
<1>5. CASE ~TableFits(t)
  <2>1. target' = target /\ restore' = Stopped("failed")
    BY <1>5 DEF restoreTable
  <2>2. restore'.at = "failed"
    BY <2>1 DEF Stopped
  <2>3. disturbed = TRUE
    <3>1. PICK p : (p \in ParentsOf(t) /\ target[p] # "dump") \/ target[t] # "empty"
      BY <1>5 DEF TableFits
    <3>2. CASE p \in ParentsOf(t) /\ target[p] # "dump"
      <4>1. p \in dump.tables
        BY <1>1, <1>2, <3>2 DEF DumpInv, DumpHasItsTables
      <4>2. p \notin restore.left
        BY <1>1, <3>2, ParentsComeFirst
      <4>3. QED  BY <1>2, <3>2, <4>1, <4>2
    <3>3. CASE target[t] # "empty"
      BY <1>1, <1>2, <3>3 DEF DumpInv, DumpTypes
    <3>4. QED  BY <3>1, <3>2, <3>3
  <2>4. DumpTypes'
    BY <1>1, <2>1 DEF DumpInv, DumpTypes, Stopped
  <2>5. RestoreFollows'
    BY <1>1, <1>2, <2>2, <2>3 DEF RestoreFollows
  <2>6. QED  BY <1>3, <2>4, <2>5 DEF DumpInv
<1>6. QED  BY <1>4, <1>5

\* A restore ends when nothing is left, or is killed.
LEMMA RestoreEndsStep ==
  ASSUME DumpInv, Restored \/ RestoreDies
  PROVE  DumpInv'
<1>1. /\ dump' = dump /\ source' = source /\ target' = target /\ disturbed' = disturbed
      /\ restore.at = "restoring"
      /\ \/ restore' = Stopped("idle")
         \/ restore.left = {} /\ restore' = Stopped("done")
  BY DEF Restored, RestoreDies
<1>2. dump # NoDump
  BY <1>1 DEF DumpInv, RestoreFollows
<1>3. \/ restore'.at = "idle"
      \/ restore.left = {} /\ restore'.at = "done"
  BY <1>1 DEF Stopped
<1>4. DumpTypes'
  BY <1>1 DEF DumpInv, DumpTypes, Stopped
<1>5. DumpHasItsTables'
  BY <1>1 DEF DumpInv, DumpHasItsTables, LeftOut
<1>6. RestoreFollows'
  BY <1>1, <1>2, <1>3 DEF DumpInv, RestoreFollows
<1>7. QED  BY <1>4, <1>5, <1>6 DEF DumpInv

\* A console only writes where nothing was restored.
LEMMA ConsoleWritesStep ==
  ASSUME DumpInv, ConsoleWrites
  PROVE  DumpInv'
<1>1. /\ dump' = dump /\ source' = source /\ restore' = restore /\ disturbed' = TRUE
      /\ target["projects"] = "empty"
      /\ target' = [target EXCEPT !["projects"] = "console"]
  BY DEF ConsoleWrites
<1>2. "projects" \in AllTables
  BY TablesByName DEF AllTables, DumpedTables
<1>3. DumpTypes'
  BY <1>1, <1>2 DEF DumpInv, DumpTypes
<1>4. DumpHasItsTables'
  BY <1>1 DEF DumpInv, DumpHasItsTables, LeftOut
<1>5. \A t \in DumpedTables : target[t] = "dump" => target'[t] = "dump"
  BY <1>1 DEF DumpInv, DumpTypes, AllTables
<1>6. dump.tables \subseteq DumpedTables
  BY DEF DumpInv, DumpTypes
<1>7. RestoreFollows'
  BY <1>1, <1>5, <1>6 DEF DumpInv, RestoreFollows
<1>8. QED  BY <1>3, <1>4, <1>7 DEF DumpInv

(***************************************************************************)
(* In every reachable state the dump has the tables it should have, and    *)
(* the restore has put back what it has come to (dumpStore(),              *)
(* restoreDump()).                                                         *)
(***************************************************************************)
THEOREM DumpInvariance == DumpSpec => []DumpInv
<1>1. DumpInit => DumpInv
  <2>1. SUFFICES ASSUME DumpInit PROVE DumpInv
    OBVIOUS
  <2>2. /\ dump = NoDump /\ source = {} /\ restore = Stopped("idle") /\ disturbed = FALSE
        /\ target = [t \in AllTables |-> "empty"]
    BY <2>1 DEF DumpInit
  <2>3. restore.at = "idle" /\ dump.tables = {}
    BY <2>2 DEF Stopped, NoDump
  <2>4. DumpTypes
    BY <2>2 DEF DumpTypes, NoDump, Stopped
  <2>5. QED  BY <2>2, <2>3, <2>4 DEF DumpInv, DumpHasItsTables, RestoreFollows
<1>2. DumpInv /\ [DumpNext]_dumpVars => DumpInv'
  <2>1. SUFFICES ASSUME DumpInv, [DumpNext]_dumpVars PROVE DumpInv'
    OBVIOUS
  <2>2. CASE UNCHANGED dumpVars
    BY <2>1, <2>2 DEF dumpVars, DumpInv, DumpTypes, DumpHasItsTables, LeftOut, RestoreFollows
  <2>3. CASE DumpNext
    BY <2>1, <2>3, DumpStoreStep, BeginRestoreStep, RestoreTableStep, RestoreEndsStep,
       ConsoleWritesStep DEF DumpNext
  <2>4. QED  BY <2>1, <2>2, <2>3
<1> QED BY <1>1, <1>2, PTL DEF DumpSpec

\* A row of an older release reads as the same row does after the migrations.
LEMMA OldRowsRead ==
  ASSUME dump.version \in Nat
  PROVE  OldRowsReadAsMigrated
<1>1. ASSUME NEW v \in Nat, v < 5, NEW row \in AnswersAt(v)
      PROVE  relationshipOf(row) =
               relationshipOf([row EXCEPT !.relationship = MigratedRelationship(row)])
  <2>1. row \in Answers /\ row.relationship = NULL
    BY <1>1 DEF AnswersAt
  <2> DEFINE migrated == [row EXCEPT !.relationship = MigratedRelationship(row)]
  <2>2. migrated.parent = row.parent /\ migrated.kind = row.kind
        /\ migrated.relationship = MigratedRelationship(row)
    BY <2>1 DEF Answers
  <2> HIDE DEF migrated
  <2>3. relationshipOf(row) = relationshipOf(migrated)
    BY <2>1, <2>2 DEF relationshipOf, MigratedRelationship, Relationships, NULL
  <2>4. QED  BY <2>3 DEF migrated
<1>2. ASSUME NEW v \in Nat, v < 7, NEW row \in RunsAt(v)
      PROVE  readRunProfile(row) = readRunProfile(MigratedRun(row))
  <2>1. /\ row \in Runs /\ row.requestedClient = NULL
        /\ row.effectiveClient = NULL /\ row.effectiveModel = NULL
    BY <1>2 DEF RunsAt
  <2>2. /\ row.client # NULL /\ "client-default" # NULL
        /\ MigratedRun(row).client = row.client
        /\ MigratedRun(row).requestedClient = row.client
        /\ MigratedRun(row).effectiveClient = row.client
        /\ MigratedRun(row).effectiveModel = "client-default"
    BY <2>1 DEF MigratedRun, Runs, NULL
  <2>3. QED  BY <2>1, <2>2 DEF readRunProfile, OrElse
<1>3. QED  BY <1>1, <1>2 DEF OldRowsReadAsMigrated

(***************************************************************************)
(* A restore that nobody disturbs never fails on a reference, one that is  *)
(* done brought back every dumped table, and the rows of an older release  *)
(* mean what the migrations would have made of them (dumpStore(),          *)
(* restoreDump()).                                                         *)
(***************************************************************************)
THEOREM RestoresTheDump == DumpSpec => []RestoredIsTheDump
<1>1. DumpInv => RestoredIsTheDump
  <2>1. SUFFICES ASSUME DumpInv PROVE RestoredIsTheDump
    OBVIOUS
  <2>2. OrderSuffices
    BY <2>1 DEF DumpInv, RestoreFollows, OrderSuffices
  <2>3. DoneMeansComplete
    BY <2>1 DEF DumpInv, DumpTypes, DumpHasItsTables, RestoreFollows, LeftOut, DoneMeansComplete
  <2>4. OldRowsReadAsMigrated
    BY <2>1, OldRowsRead DEF DumpInv, DumpTypes
  <2>5. QED  BY <2>2, <2>3, <2>4 DEF RestoredIsTheDump
<1> QED BY <1>1, DumpInvariance, PTL

-----------------------------------------------------------------------------
(* What an index takes in                                                  *)

\* A file of the list that no rule ignores has been hashed, or is still to be:
\* it, or a directory above it, waits to be visited, or could not be read.  What
\* is hashed is not ignored, and the evidence is filtered by the same rules.
IgnoreInv ==
  /\ hashed \subseteq {f \in Indexable \ Secrets : ~matches(f, FALSE)}
  /\ \A f \in Indexable \ Secrets :
       ~matches(f, FALSE) => f \in hashed \/ PathsTo(f) \cap (toVisit \cup unread) # {}
  /\ evidence.read =>
       /\ toVisit = {}
       /\ evidence.symbols = {f \in Parsed : ~matches(f, FALSE)}
       /\ evidence.sites = {c \in CallSites : {c[1], c[2]} \subseteq evidence.symbols}

\* The path above a path, down from the root.
LEMMA PathsAbove ==
  ASSUME NEW f \in TreeFiles, NEW n \in 1..Len(f)
  PROVE  LET p == SubSeq(f, 1, n)
         IN /\ Len(f) \in Nat \ {0}
            /\ Len(p) = n
            /\ n = Len(f) => p = f
            /\ \A i \in 1..n : SubSeq(p, 1, i) = SubSeq(f, 1, i)
            /\ n < Len(f) => p # f
<1> DEFINE S == {f[i] : i \in DOMAIN f}
<1>1. f \in Seq(S) /\ f # <<>>
  BY IgnoreAssumption
<1> HIDE DEF S
<1>2. Len(f) \in Nat \ {0} /\ DOMAIN f = 1..Len(f)
  BY <1>1
<1> DEFINE p == SubSeq(f, 1, n)
<1>3. p \in Seq(S) /\ Len(p) = n /\ \A i \in 1..n : p[i] = f[i]
  BY <1>1, <1>2
<1>4. n = Len(f) => p = f
  BY <1>1, <1>2, <1>3
<1>5. ASSUME NEW i \in 1..n
      PROVE  SubSeq(p, 1, i) = SubSeq(f, 1, i)
  <2>1. i \in Nat /\ n \in Nat /\ i <= n /\ i <= Len(f)
    BY <1>2
  <2>2. SubSeq(p, 1, i) \in Seq(S) /\ Len(SubSeq(p, 1, i)) = i
        /\ \A k \in 1..i : SubSeq(p, 1, i)[k] = p[k]
    BY <1>3, <2>1
  <2>3. SubSeq(f, 1, i) \in Seq(S) /\ Len(SubSeq(f, 1, i)) = i
        /\ \A k \in 1..i : SubSeq(f, 1, i)[k] = f[k]
    BY <1>1, <1>2, <2>1
  <2>4. \A k \in 1..i : SubSeq(p, 1, i)[k] = SubSeq(f, 1, i)[k]
    BY <1>3, <2>1, <2>2, <2>3
  <2>5. QED  BY <2>2, <2>3, <2>4
<1>6. n < Len(f) => p # f
  <2>1. p = f => Len(f) = n
    BY <1>3, Zenon
  <2>2. ~(n < n)
    OBVIOUS
  <2>3. QED  BY <2>1, <2>2, Zenon
<1>7. \A i \in 1..n : SubSeq(p, 1, i) = SubSeq(f, 1, i)
  BY <1>5
<1>8. QED  BY <1>2, <1>3, <1>4, <1>6, <1>7, Zenon

\* The walk comes to the path one below a directory it enters.
LEMMA EnteredBelow ==
  ASSUME NEW f \in TreeFiles, NEW n \in Nat, n < Len(f)
  PROVE  SubSeq(f, 1, n + 1) \in EntriesOf(SubSeq(f, 1, n)) \cap PathsTo(f)
<1>1. Len(f) \in Nat
  <2>1. f \in Seq({f[i] : i \in DOMAIN f})
    BY IgnoreAssumption
  <2>2. QED  BY <2>1
<1>2. n + 1 \in 1..Len(f)
  BY <1>1
<1> DEFINE q == SubSeq(f, 1, n + 1)
<1>3. Len(q) = n + 1 /\ (n + 1 = Len(f) => q = f)
      /\ \A i \in 1..(n + 1) : SubSeq(q, 1, i) = SubSeq(f, 1, i)
      /\ (n + 1 < Len(f) => q # f)
  BY <1>2, PathsAbove
<1>4. q \in PathsTo(f)
  BY <1>2 DEF PathsTo
<1>5. q \in TreeFiles \cup Directories
  <2>1. CASE n + 1 = Len(f)
    BY <1>3, <2>1
  <2>2. CASE n + 1 # Len(f)
    <3>1. n + 1 < Len(f)
      BY <1>1, <2>2
    <3>2. q \in PathsTo(f) \ {f}
      BY <1>3, <1>4, <3>1
    <3>3. q \in Directories
      BY <3>2, Zenon DEF Directories
    <3>4. QED  BY <3>3
  <2>3. QED  BY <2>1, <2>2
<1>6. Len(SubSeq(f, 1, n)) = n /\ SubSeq(q, 1, n) = SubSeq(f, 1, n)
  <2>1. CASE n = 0
    <3>1. f \in Seq({f[i] : i \in DOMAIN f})
      BY IgnoreAssumption
    <3>2. SubSeq(f, 1, 0) = <<>>
      BY <3>1
    <3>3. q \in Seq({f[i] : i \in DOMAIN f})
      BY <1>1, <1>2, <3>1
    <3>4. SubSeq(q, 1, 0) = <<>>
      BY <3>3
    <3>5. QED  BY <2>1, <3>2, <3>4
  <2>2. CASE n # 0
    <3>1. n \in 1..Len(f) /\ n \in 1..(n + 1)
      BY <1>1, <2>2
    <3>2. QED  BY <1>3, <3>1, PathsAbove
  <2>3. QED  BY <2>1, <2>2
<1>7. q \in EntriesOf(SubSeq(f, 1, n))
  BY <1>3, <1>5, <1>6 DEF EntriesOf
<1>8. QED  BY <1>4, <1>7

\* A file that is not ignored lies in no ignored directory.
LEMMA NothingAboveIsIgnored ==
  ASSUME NEW f \in TreeFiles, ~matches(f, FALSE), NEW p \in PathsTo(f), p # f
  PROVE  ~matches(p, TRUE)
<1>1. PICK n \in 1..Len(f) : p = SubSeq(f, 1, n)
  BY DEF PathsTo
<1>2. Len(p) = n /\ (n = Len(f) => p = f) /\ Len(f) \in Nat
      /\ \A i \in 1..n : SubSeq(p, 1, i) = SubSeq(f, 1, i)
  BY <1>1, PathsAbove
<1>3. SUFFICES ASSUME NEW q \in PathsTo(p), decideOne(q, TRUE)
               PROVE  FALSE
  BY DEF matches
<1>4. PICK i \in 1..Len(p) : q = SubSeq(p, 1, i)
  BY DEF PathsTo
<1>5. i \in 1..n /\ i \in 1..Len(f) /\ i < Len(f)
  BY <1>1, <1>2, <1>4
<1>6. q = SubSeq(f, 1, i) /\ q \in PathsTo(f)
  BY <1>2, <1>4, <1>5 DEF PathsTo
<1>7. q # f
  BY <1>5, <1>6, PathsAbove
<1>8. QED  BY <1>3, <1>6, <1>7 DEF matches

\* A directory is never a file, nor is a file above another one.
LEMMA FilesAreNoDirectories ==
  ASSUME NEW f \in TreeFiles, NEW p \in PathsTo(f)
  PROVE  p = f \/ p \notin TreeFiles
BY IgnoreAssumption DEF PathsTo

\* Each step of the walk, and the filter, keeps it.
LEMMA IgnoreStep ==
  ASSUME IgnoreInv, [IgnoreNext]_ignoreVars
  PROVE  IgnoreInv'
<1>1. rules' = rules
  BY DEF IgnoreNext, EnterDirectory, HashFile, FilterEvidence, ignoreVars
<1>2. \A p : \A d \in BOOLEAN : matches(p, d)' <=> matches(p, d)
  BY <1>1 DEF matches, decideOne, test, PathsTo
<1> DEFINE Waits(f) == f \in hashed \/ PathsTo(f) \cap (toVisit \cup unread) # {}
<1> USE IgnoreAssumption
<1>3. ASSUME NEW p \in TreeFiles \cup Directories, EnterDirectory(p)
      PROVE  IgnoreInv'
  <2>1. /\ p \in toVisit /\ p \in Directories
        /\ toVisit \ {p} \subseteq toVisit' /\ unread \subseteq unread'
        /\ matches(p, TRUE) \/ p \in unread' \/ EntriesOf(p) \subseteq toVisit'
        /\ hashed' = hashed /\ evidence' = evidence
    BY <1>3 DEF EnterDirectory
  <2>2. ASSUME NEW f \in Indexable \ Secrets, ~matches(f, FALSE)
        PROVE  Waits(f)'
    <3>0. f \in TreeFiles
      BY <2>2
    <3>1. Waits(f)
      BY <2>2 DEF IgnoreInv
    <3>2. CASE f \in hashed \/ PathsTo(f) \cap ((toVisit \ {p}) \cup unread) # {}
      BY <2>1, <3>2 DEF PathsTo
    <3>3. CASE p \in PathsTo(f) /\ p # f
      <4>1. ~matches(p, TRUE)
        BY <2>2, <3>0, <3>3, NothingAboveIsIgnored
      <4>2. PICK n \in 1..Len(f) : p = SubSeq(f, 1, n)
        BY <3>3 DEF PathsTo
      <4>3. n \in Nat /\ n < Len(f)
        BY <3>0, <3>3, <4>2, PathsAbove
      <4>4. SubSeq(f, 1, n + 1) \in EntriesOf(p) \cap PathsTo(f)
        BY <3>0, <4>2, <4>3, EnteredBelow
      <4>5. SubSeq(f, 1, n + 1) \in toVisit' \/ p \in unread'
        BY <2>1, <4>1, <4>4
      <4>6. QED  BY <3>3, <4>4, <4>5 DEF PathsTo
    <3>4. CASE p = f
      <4>1. PICK g \in TreeFiles : f \in PathsTo(g) \ {g}
        BY <2>1, <3>4 DEF Directories
      <4>2. QED  BY <3>0, <4>1, FilesAreNoDirectories
    <3>5. QED  BY <3>1, <3>2, <3>3, <3>4
  <2>3. ~evidence.read
    BY <2>1 DEF IgnoreInv
  <2>4. QED  BY <1>2, <2>1, <2>2, <2>3 DEF IgnoreInv
<1>4. ASSUME NEW p \in TreeFiles \cup Directories, HashFile(p)
      PROVE  IgnoreInv'
  <2>1. /\ p \in toVisit /\ p \in TreeFiles
        /\ toVisit' = toVisit \ {p}
        /\ hashed \subseteq hashed' /\ hashed' \subseteq hashed \cup {p}
        /\ unread \subseteq unread'
        /\ LET wanted == p \in Indexable \ Secrets /\ ~matches(p, FALSE)
           IN /\ wanted => p \in hashed' \cup unread'
              /\ hashed' # hashed => wanted
        /\ evidence' = evidence
    BY <1>4 DEF HashFile
  <2>2. ASSUME NEW f \in Indexable \ Secrets, ~matches(f, FALSE)
        PROVE  Waits(f)'
    <3>0. f \in TreeFiles
      BY <2>2
    <3>1. Waits(f)
      BY <2>2 DEF IgnoreInv
    <3>2. CASE f \in hashed \/ PathsTo(f) \cap ((toVisit \ {p}) \cup unread) # {}
      BY <2>1, <3>2 DEF PathsTo
    <3>3. CASE p \in PathsTo(f)
      <4>1. p = f
        BY <2>1, <3>0, <3>3, FilesAreNoDirectories
      <4>2. f \in hashed' \cup unread'
        BY <2>1, <2>2, <4>1
      <4> QED BY <3>3, <4>1, <4>2 DEF PathsTo
    <3>4. QED  BY <3>1, <3>2, <3>3
  <2>3. hashed' \subseteq {f \in Indexable \ Secrets : ~matches(f, FALSE)}
    BY <2>1 DEF IgnoreInv
  <2>4. ~evidence.read
    BY <2>1 DEF IgnoreInv
  <2>5. QED  BY <1>2, <2>1, <2>2, <2>3, <2>4 DEF IgnoreInv
<1>5. CASE FilterEvidence
  <2> DEFINE kept == {f \in Parsed : ~matches(f, FALSE)}
  <2>1. /\ toVisit = {} /\ toVisit' = toVisit /\ hashed' = hashed /\ unread' = unread
        /\ evidence' = [read |-> TRUE, symbols |-> kept,
                        sites |-> {c \in CallSites : {c[1], c[2]} \subseteq kept}]
    BY <1>5 DEF FilterEvidence
  <2>2. kept' = kept
    BY <1>2
  <2> HIDE DEF kept
  <2>3. evidence'.symbols = kept
        /\ evidence'.sites = {c \in CallSites : {c[1], c[2]} \subseteq kept}
    BY <2>1
  <2>4. kept' = {f \in Parsed : ~matches(f, FALSE)'}
    BY DEF kept
  <2>5. QED  BY <1>2, <2>1, <2>2, <2>3, <2>4 DEF IgnoreInv, PathsTo
<1>6. CASE UNCHANGED ignoreVars
  BY <1>2, <1>6 DEF IgnoreInv, ignoreVars, PathsTo
<1>7. QED  BY <1>3, <1>4, <1>5, <1>6 DEF IgnoreNext

(***************************************************************************)
(* Whatever the rules say, and in whatever order the tree is walked, the   *)
(* symbols of a file that both the walk and the provider know, that is no  *)
(* secret and could be read, are kept exactly when the file is hashed      *)
(* (walkTree(), hashTree(), applyIgnore()).                                *)
(***************************************************************************)
THEOREM EvidenceMatchesHashes == IgnoreSpec => []EvidenceIsHashed
<1>1. IgnoreInit => IgnoreInv
  <2>1. SUFFICES ASSUME IgnoreInit PROVE IgnoreInv
    OBVIOUS
  <2>2. toVisit = EntriesOf(<<>>) /\ hashed = {} /\ unread = {} /\ evidence.read = FALSE
    BY <2>1 DEF IgnoreInit, NoEvidence
  <2>3. ASSUME NEW f \in TreeFiles
        PROVE  PathsTo(f) \cap toVisit # {}
    <3>1. f \in Seq({f[i] : i \in DOMAIN f}) /\ f # <<>>
      BY IgnoreAssumption
    <3>2. Len(f) \in Nat /\ 0 < Len(f) /\ SubSeq(f, 1, 0) = <<>>
      BY <3>1
    <3>3. SubSeq(f, 1, 0 + 1) \in EntriesOf(<<>>) \cap PathsTo(f)
      BY <3>2, EnteredBelow
    <3>4. QED  BY <2>2, <3>3
  <2>4. QED  BY <2>2, <2>3, IgnoreAssumption DEF IgnoreInv
<1>2. IgnoreInv /\ [IgnoreNext]_ignoreVars => IgnoreInv'
  BY IgnoreStep
<1>3. IgnoreInv => EvidenceIsHashed
  <2>1. SUFFICES ASSUME IgnoreInv, evidence.read
                 PROVE  EvidenceIsHashed
    BY DEF EvidenceIsHashed
  <2>2. toVisit = {} /\ evidence.symbols = {f \in Parsed : ~matches(f, FALSE)}
        /\ evidence.sites = {c \in CallSites : {c[1], c[2]} \subseteq evidence.symbols}
    BY <2>1 DEF IgnoreInv
  <2>3. \A f \in Indexable \ Secrets :
          ~matches(f, FALSE) => f \in hashed \/ PathsTo(f) \cap unread # {}
    BY <2>1, <2>2 DEF IgnoreInv
  <2>4. hashed \subseteq {f \in Indexable \ Secrets : ~matches(f, FALSE)}
    BY <2>1 DEF IgnoreInv
  <2>5. ASSUME NEW f \in Parsed \cap (Indexable \ Secrets), PathsTo(f) \cap unread = {}
        PROVE  f \in evidence.symbols <=> f \in hashed
    BY <2>2, <2>3, <2>4, <2>5
  <2>6. hashed \cap Parsed \subseteq evidence.symbols
    BY <2>2, <2>4
  <2>7. QED  BY <2>2, <2>5, <2>6 DEF EvidenceIsHashed
<1> QED BY <1>1, <1>2, <1>3, PTL DEF IgnoreSpec

-----------------------------------------------------------------------------
(* Hops of the call graph                                                  *)

\* A nonempty set of numbers has a least one: what takes the place of an
\* induction below.
LEMMA LeastNumber ==
  ASSUME NEW T \in SUBSET Nat, T # {}
  PROVE  \E x \in T : \A y \in T : x <= y
<1>1. PICK x \in T : \A y \in T : <<y, x>> \notin OpToRel(<, Nat)
  BY NatLessThanWellFounded, WFMin
<1>2. \A y \in T : x <= y
  <2>1. TAKE y \in T
  <2>2. x \in Nat /\ y \in Nat  OBVIOUS
  <2>3. ~(y < x)
    BY <1>1, <2>2, Zenon DEF OpToRel
  <2>4. QED  BY <2>2, <2>3
<1>3. QED  BY <1>2

\* One hop: along edges, and to the node of the top level of a file of which
\* something was seen.
Spread(edges, tops, seen) ==
  seen \cup {e[2] : e \in {d \in edges : d[1] \in seen}}
       \cup {n.id : n \in {m \in tops :
               m.kind = "module-init" /\ pathOf(m.id) \in {pathOf(i) : i \in seen}}}

\* Hop after hop from where it begins.
Spreads(hop, n, first, edges, tops) ==
  hop = [k \in 0..n |-> IF k = 0 THEN first ELSE Spread(edges, tops, hop[k - 1])]

\* There are such hops: of the numbers up to which there are none, there would
\* be a least.
LEMMA SpreadsExist ==
  ASSUME NEW n \in Nat, NEW first, NEW edges, NEW tops
  PROVE  \E hop : Spreads(hop, n, first, edges, tops)
<1> DEFINE missing == {k \in Nat : ~\E hop : Spreads(hop, k, first, edges, tops)}
<1>1. SUFFICES ASSUME missing # {} PROVE FALSE
  OBVIOUS
<1>2. PICK m \in missing : \A k \in missing : m <= k
  <2>1. missing \in SUBSET Nat  OBVIOUS
  <2> HIDE DEF missing
  <2>2. QED  BY <1>1, <2>1, LeastNumber
<1>3. m # 0
  <2>1. SUFFICES ASSUME m = 0 PROVE FALSE
    OBVIOUS
  <2> DEFINE hop == [k \in 0..0 |-> first]
  <2>2. \A k \in 0..0 : hop[k] = IF k = 0 THEN first ELSE Spread(edges, tops, hop[k - 1])
    OBVIOUS
  <2>3. hop = [k \in 0..0 |-> IF k = 0 THEN first ELSE Spread(edges, tops, hop[k - 1])]
    BY <2>2
  <2>4. Spreads(hop, 0, first, edges, tops)
    BY <2>3 DEF Spreads
  <2>5. QED  BY <2>1, <2>4
<1>4. m \in Nat /\ m - 1 \in Nat /\ m - 1 \notin missing
  BY <1>2, <1>3
<1>5. PICK hop : Spreads(hop, m - 1, first, edges, tops)
  BY <1>4
<1> DEFINE more == [k \in 0..m |-> IF k = m THEN Spread(edges, tops, hop[m - 1]) ELSE hop[k]]
<1>6. \A k \in 0..(m - 1) :
        hop[k] = IF k = 0 THEN first ELSE Spread(edges, tops, hop[k - 1])
  BY <1>5 DEF Spreads
<1>7. \A k \in 0..m : more[k] = IF k = 0 THEN first ELSE Spread(edges, tops, more[k - 1])
  <2>1. TAKE k \in 0..m
  <2>2. CASE k = m
    <3>1. m - 1 \in 0..m /\ m - 1 # m
      BY <1>4
    <3>2. more[k - 1] = hop[m - 1]
      BY <2>2, <3>1
    <3>3. QED  BY <1>3, <2>2, <3>2
  <2>3. CASE k = 0
    <3>1. more[k] = hop[0] /\ 0 \in 0..(m - 1)
      BY <1>3, <1>4, <2>3
    <3>2. QED  BY <1>6, <2>3, <3>1
  <2>4. CASE k # 0 /\ k # m
    <3>1. k \in 0..(m - 1) /\ k - 1 \in 0..m /\ k - 1 # m
      BY <1>4, <2>4
    <3>2. more[k] = hop[k] /\ more[k - 1] = hop[k - 1]
      BY <2>4, <3>1
    <3>3. QED  BY <1>6, <2>4, <3>1, <3>2
  <2>5. QED  BY <2>2, <2>3, <2>4
<1>8. more = [k \in 0..m |-> IF k = 0 THEN first ELSE Spread(edges, tops, more[k - 1])]
  BY <1>7
<1>9. Spreads(more, m, first, edges, tops)
  BY <1>8 DEF Spreads
<1>10. QED  BY <1>2, <1>9

\* What was seen stays seen.
LEMMA SeenStaysSeen ==
  ASSUME NEW n \in Nat, NEW first, NEW edges, NEW tops, NEW hop,
         Spreads(hop, n, first, edges, tops),
         NEW j \in 0..n, NEW k \in 0..n, j <= k
  PROVE  hop[j] \subseteq hop[k]
<1> DEFINE wrong == {m \in Nat : m \in j..n /\ ~(hop[j] \subseteq hop[m])}
<1>1. SUFFICES ASSUME wrong # {} PROVE FALSE
  OBVIOUS
<1>2. PICK m \in wrong : \A i \in wrong : m <= i
  <2>1. wrong \in SUBSET Nat  OBVIOUS
  <2> HIDE DEF wrong
  <2>2. QED  BY <1>1, <2>1, LeastNumber
<1>3. m # j
  BY <1>2
<1>4. m \in 1..n /\ m - 1 \in j..n /\ m - 1 \in Nat /\ m - 1 \notin wrong
  BY <1>2, <1>3
<1>5. hop[j] \subseteq hop[m - 1]
  BY <1>4
<1>6. hop[m] = Spread(edges, tops, hop[m - 1])
  BY <1>4 DEF Spreads
<1>7. QED  BY <1>2, <1>5, <1>6 DEF Spread

\* What no hop leads out of is not left.
LEMMA HopsStayInside ==
  ASSUME NEW n \in Nat, NEW first, NEW edges, NEW tops, NEW hop,
         Spreads(hop, n, first, edges, tops),
         NEW U, first \subseteq U,
         \A X \in SUBSET U : Spread(edges, tops, X) \subseteq U,
         NEW k \in 0..n
  PROVE  hop[k] \subseteq U
<1> DEFINE wrong == {m \in Nat : m \in 0..n /\ ~(hop[m] \subseteq U)}
<1>1. SUFFICES ASSUME wrong # {} PROVE FALSE
  OBVIOUS
<1>2. PICK m \in wrong : \A i \in wrong : m <= i
  <2>1. wrong \in SUBSET Nat  OBVIOUS
  <2> HIDE DEF wrong
  <2>2. QED  BY <1>1, <2>1, LeastNumber
<1>3. m # 0
  BY <1>2 DEF Spreads
<1>4. m \in 1..n /\ m - 1 \in 0..n /\ m - 1 \in Nat /\ m - 1 \notin wrong
  BY <1>2, <1>3
<1>5. hop[m] = Spread(edges, tops, hop[m - 1])
  BY <1>4 DEF Spreads
<1>6. QED  BY <1>2, <1>4, <1>5

\* As many hops as there is something to see are enough.
LEMMA EnoughHops ==
  ASSUME NEW n \in Nat, NEW first, NEW edges, NEW tops, NEW hop,
         Spreads(hop, n, first, edges, tops),
         NEW U, IsFiniteSet(U), Cardinality(U) <= n, first \subseteq U, first # {},
         \A X \in SUBSET U : Spread(edges, tops, X) \subseteq U
  PROVE  Spread(edges, tops, hop[n]) = hop[n]
<1>1. SUFFICES ASSUME Spread(edges, tops, hop[n]) # hop[n] PROVE FALSE
  OBVIOUS
<1>2. \A k \in 0..n : hop[k] \subseteq U
  BY HopsStayInside
<1>3. \A k \in 0..n : IsFiniteSet(hop[k]) /\ Cardinality(hop[k]) \in Nat
  BY <1>2, FS_Subset, FS_CardinalityType
<1>4. \A k \in 1..n : k - 1 \in 0..n /\ hop[k] = Spread(edges, tops, hop[k - 1])
  BY DEF Spreads
<1>5. \A k \in 0..n : Spread(edges, tops, hop[k]) # hop[k]
  <2>1. SUFFICES ASSUME NEW k \in 0..n, Spread(edges, tops, hop[k]) = hop[k] PROVE FALSE
    OBVIOUS
  <2> DEFINE moved == {m \in Nat : m \in k..n /\ hop[m] # hop[k]}
  <2>2. moved # {}
    BY <1>1, <2>1
  <2>3. PICK m \in moved : \A i \in moved : m <= i
    <3>1. moved \in SUBSET Nat  OBVIOUS
    <3> HIDE DEF moved
    <3>2. QED  BY <2>2, <3>1, LeastNumber
  <2>4. m \in 1..n /\ m - 1 \in k..n /\ m - 1 \in Nat /\ m - 1 \notin moved
    BY <2>3
  <2>5. hop[m - 1] = hop[k]
    BY <2>4
  <2>6. hop[m] = hop[k]
    BY <1>4, <2>1, <2>4, <2>5
  <2>7. QED  BY <2>3, <2>6
<1>6. \A k \in 0..n : Cardinality(hop[k]) >= k + 1
  <2> DEFINE small == {m \in Nat : m \in 0..n /\ ~(Cardinality(hop[m]) >= m + 1)}
  <2>1. SUFFICES ASSUME small # {} PROVE FALSE
    OBVIOUS
  <2>2. PICK m \in small : \A i \in small : m <= i
    <3>1. small \in SUBSET Nat  OBVIOUS
    <3> HIDE DEF small
    <3>2. QED  BY <2>1, <3>1, LeastNumber
  <2>3. m # 0
    <3>1. hop[0] = first
      BY DEF Spreads
    <3>2. Cardinality(first) \in Nat /\ Cardinality(first) # 0
      BY <1>3, <3>1, FS_EmptySet
    <3>3. QED  BY <2>2, <3>1, <3>2
  <2>4. m \in 1..n /\ m - 1 \in 0..n /\ m - 1 \in Nat /\ m - 1 \notin small
    BY <2>2, <2>3
  <2>5. Cardinality(hop[m - 1]) >= m
    BY <2>4
  <2>6. hop[m - 1] \subseteq hop[m] /\ hop[m - 1] # hop[m]
    BY <1>4, <1>5, <2>4 DEF Spread
  <2>7. /\ Cardinality(hop[m - 1]) <= Cardinality(hop[m])
        /\ Cardinality(hop[m - 1]) # Cardinality(hop[m])
    <3>1. hop[m - 1] \in SUBSET hop[m] /\ IsFiniteSet(hop[m])
      BY <1>3, <2>4, <2>6
    <3>2. QED  BY <2>6, <3>1, FS_Subset
  <2>8. Cardinality(hop[m]) \in Nat /\ Cardinality(hop[m - 1]) \in Nat
    BY <1>3, <2>4
  <2>9. QED  BY <2>2, <2>5, <2>7, <2>8
<1>7. Cardinality(hop[n]) <= Cardinality(U) /\ Cardinality(U) \in Nat /\ Cardinality(hop[n]) \in Nat
  BY <1>2, <1>3, FS_Subset, FS_CardinalityType
<1>8. QED  BY <1>6, <1>7

-----------------------------------------------------------------------------
(* What the doors reach                                                    *)

\* The hops of computeReachability().
Hops(hop, edges) ==
  hop = [n \in 0..DepthBound |->
           IF n = 0 THEN doors
           ELSE hop[n - 1] \cup {e[2] : e \in {d \in edges : d[1] \in hop[n - 1]}}]

\* They are such hops, along edges alone.
LEMMA HopsSpread ==
  ASSUME NEW hop, NEW edges
  PROVE  Hops(hop, edges) <=> Spreads(hop, DepthBound, doors, edges, {})
<1>1. \A X : Spread(edges, {}, X) = X \cup {e[2] : e \in {d \in edges : d[1] \in X}}
  BY DEF Spread
<1>2. QED  BY <1>1 DEF Hops, Spreads

\* What is reached holds the doors; the rest was reached along an edge from
\* what was; if one more hop would have reached no more, it is closed.
LEMMA Reached ==
  ASSUME NEW edges, \A e \in edges : e[1] \in Symbols /\ e[2] \in Symbols,
         doors \subseteq Symbols
  PROVE  LET r == Reachability(edges)
         IN /\ r.reached \subseteq Symbols
            /\ doors \subseteq r.reached
            /\ ~r.bounded => \A e \in edges : e[1] \in r.reached => e[2] \in r.reached
            /\ \A S : /\ doors \subseteq S
                      /\ \A e \in edges : ({e[1], e[2]} \subseteq r.reached /\ e[1] \in S) => e[2] \in S
                      => r.reached \subseteq S
<1> DEFINE hop == CHOOSE h : Hops(h, edges)
           D == DepthBound
<1>1. D \in Nat /\ D - 1 \in 0..D /\ D \in 0..D /\ D # 0 /\ 0 \in 0..D
  BY CallGraphAssumption
<1>2. Hops(hop, edges) /\ Spreads(hop, D, doors, edges, {})
  <2>1. \E h : Hops(h, edges)
    BY <1>1, SpreadsExist, HopsSpread
  <2>2. Hops(hop, edges)
    BY <2>1
  <2>3. QED  BY <2>2, HopsSpread
<1>3. Reachability(edges) = [reached |-> hop[D], bounded |-> hop[D] # hop[D - 1]]
  BY DEF Reachability, Hops
<1> HIDE DEF hop
<1>4. hop[0] = doors
  BY <1>1, <1>2 DEF Hops
<1>5. \A k \in 1..D : k - 1 \in 0..D /\ k \in 0..D
                       /\ hop[k] = hop[k - 1] \cup {e[2] : e \in {d \in edges : d[1] \in hop[k - 1]}}
  <2>1. TAKE k \in 1..D
  <2>2. k - 1 \in 0..D /\ k \in 0..D /\ k # 0
    BY <1>1
  <2>3. hop[k] = IF k = 0 THEN doors
                 ELSE hop[k - 1] \cup {e[2] : e \in {d \in edges : d[1] \in hop[k - 1]}}
    BY <1>2, <2>2 DEF Hops
  <2>4. QED  BY <2>2, <2>3
<1>6. \A k \in 0..D : hop[k] \subseteq hop[D]
  BY <1>1, <1>2, SeenStaysSeen
<1>7. hop[D] \subseteq Symbols
  <2>1. \A X \in SUBSET Symbols : Spread(edges, {}, X) \subseteq Symbols
    BY DEF Spread
  <2>2. QED  BY <1>1, <1>2, <2>1, HopsStayInside
<1>8. hop[D] = hop[D - 1] => \A e \in edges : e[1] \in hop[D] => e[2] \in hop[D]
  <2>1. D \in 1..D
    BY <1>1
  <2>2. QED  BY <1>5, <2>1
<1>9. ASSUME NEW S, doors \subseteq S,
             \A e \in edges : ({e[1], e[2]} \subseteq hop[D] /\ e[1] \in S) => e[2] \in S
      PROVE  hop[D] \subseteq S
  <2> DEFINE outside == {k \in Nat : k \in 0..D /\ ~(hop[k] \subseteq S)}
  <2>1. SUFFICES ASSUME outside # {} PROVE FALSE
    BY <1>1
  <2>2. PICK k \in outside : \A i \in outside : k <= i
    <3>1. outside \in SUBSET Nat  OBVIOUS
    <3> HIDE DEF outside
    <3>2. QED  BY <2>1, <3>1, LeastNumber
  <2>3. k # 0
    BY <1>4, <1>9, <2>2
  <2>4. k \in 1..D /\ k - 1 \in Nat /\ k - 1 \notin outside
    BY <1>1, <2>2, <2>3
  <2>5. hop[k - 1] \subseteq S
    BY <1>5, <2>4
  <2>6. hop[k] \subseteq S
    <3>1. SUFFICES ASSUME NEW e \in edges, e[1] \in hop[k - 1] PROVE e[2] \in S
      BY <1>5, <2>4, <2>5
    <3>2. e[1] \in hop[D] /\ e[2] \in hop[D]
      BY <1>5, <1>6, <2>4, <3>1
    <3>3. QED  BY <1>9, <2>5, <3>1, <3>2
  <2>7. QED  BY <2>2, <2>6
<1>10. /\ Reachability(edges).reached = hop[D]
       /\ ~Reachability(edges).bounded => hop[D] = hop[D - 1]
  <2>1. \A x, y : [reached |-> x, bounded |-> y].reached = x /\ [reached |-> x, bounded |-> y].bounded = y
    OBVIOUS
  <2>2. QED  BY <1>3, <2>1, Zenon
<1>11. doors \subseteq hop[D]
  BY <1>1, <1>4, <1>6
<1>12. QED  BY <1>7, <1>8, <1>9, <1>10, <1>11, Zenon

\* What every state has: what is reached is the reachability over the calls and
\* the edges inferred so far, and the stored graph is made of both.
CallInv ==
  /\ sites \in SiteSets /\ doors \in DoorSets
  /\ inferred \subseteq Symbols \X Symbols
  /\ reach.reached = {} => inferred = {}
  /\ reach.reached # {} => reach = Reachability(Calls \cup inferred)
  /\ graph # NoGraph =>
       /\ reach.reached = {} => doors = {}
       /\ graph = [state |-> "stored", nodes |-> Nodes, edges |-> Edges,
                   whole |-> ~reach.bounded /\ Fresh = {}]

\* Before the doors are followed all of this holds.
LEMMA CallsStart == CallsInit => CallInv
BY DEF CallsInit, CallInv

\* Sites, calls and what can be inferred are between symbols.
LEMMA SitesAre ==
  ASSUME sites \in SiteSets
  PROVE  /\ \A c \in sites : c.from \in Symbols /\ c.to \in Symbols
         /\ Calls \subseteq Symbols \X Symbols
         /\ Inferable \subseteq Symbols \X Symbols
<1>1. \A c \in sites : c.from \in Symbols /\ c.to \in Symbols
  BY CallGraphAssumption
<1>2. QED  BY <1>1 DEF Calls, Inferable

\* Every step keeps it: the edges inferred in a round are those the next
\* reachability is computed over.
LEMMA CallsStep ==
  ASSUME CallInv, [CallsNext]_callVars
  PROVE  CallInv'
<1>1. CASE UNCHANGED callVars
  BY <1>1 DEF callVars, CallInv, Nodes, Edges, Fresh, Inferable, Calls, Joined, kindOf, Reachability
<1>2. CASE FirstReach
  <2>1. reach' = Reachability(Calls) /\ reach.reached = {} /\ inferred = {}
    BY <1>2 DEF FirstReach, CallInv
  <2>2. Calls \cup inferred = Calls
    BY <2>1
  <2>3. Calls' = Calls /\ Reachability(Calls \cup inferred)' = Reachability(Calls \cup inferred)
    BY <1>2 DEF FirstReach, Calls, Reachability
  <2>4. QED  BY <1>2, <2>1, <2>2, <2>3 DEF FirstReach, CallInv
<1>3. CASE InferRound
  <2>1. inferred' \subseteq Symbols \X Symbols
    BY <1>3, SitesAre DEF InferRound, CallInv, Fresh
  <2>2. reach' = Reachability(Calls \cup inferred') /\ Calls' = Calls
    BY <1>3 DEF InferRound, Calls
  <2>3. Reachability(Calls \cup inferred)' = Reachability(Calls \cup inferred')
    BY <1>3 DEF InferRound, Calls, Reachability
  <2>4. reach'.reached # {}
    <3>1. /\ doors \subseteq Symbols
          /\ \A e \in Calls \cup inferred : e[1] \in Symbols /\ e[2] \in Symbols
          /\ \A e \in Calls \cup inferred' : e[1] \in Symbols /\ e[2] \in Symbols
      BY <2>1, SitesAre, CallGraphAssumption DEF CallInv
    <3>2. reach.reached # {} /\ reach = Reachability(Calls \cup inferred)
      BY <1>3 DEF InferRound, CallInv
    <3>3. doors # {}
      <4>1. ASSUME doors \subseteq {}
            PROVE  reach.reached \subseteq {}
        BY <3>1, <3>2, <4>1, Reached
      <4>2. QED  BY <3>2, <4>1
    <3>4. doors \subseteq reach'.reached
      BY <2>2, <3>1, Reached
    <3>5. QED  BY <3>3, <3>4
  <2>5. QED  BY <1>3, <2>1, <2>2, <2>3, <2>4 DEF InferRound, CallInv
<1>4. CASE SaveCallGraph
  <2>1. UNCHANGED <<sites, doors, reach, inferred>>
    BY <1>4 DEF SaveCallGraph
  <2>2. /\ Nodes' = Nodes /\ Edges' = Edges /\ Fresh' = Fresh
        /\ Reachability(Calls \cup inferred)' = Reachability(Calls \cup inferred)
    BY <2>1 DEF Nodes, Edges, Fresh, Inferable, Calls, Joined, kindOf, Reachability
  <2>3. reach.reached = {} => doors = {}
    BY <1>4 DEF SaveCallGraph
  <2>4. graph' = [state |-> "stored", nodes |-> Nodes, edges |-> Edges,
                   whole |-> ~reach.bounded /\ Fresh = {}]
    BY <1>4 DEF SaveCallGraph
  <2>5. QED  BY <2>1, <2>2, <2>3, <2>4 DEF CallInv
<1>5. QED  BY <1>1, <1>2, <1>3, <1>4 DEF CallsNext

\* In every reachable state the stored graph is of what the doors reach.
THEOREM CallInvariance == CallsSpec => []CallInv
BY CallsStart, CallsStep, PTL DEF CallsSpec

\* What was reached, in a state in which the graph is stored.
LEMMA WhatIsReached ==
  ASSUME CallInv, graph # NoGraph
  PROVE  /\ reach.reached \subseteq Symbols /\ doors \subseteq reach.reached
         /\ ~reach.bounded => \A e \in Calls \cup inferred : e[1] \in reach.reached => e[2] \in reach.reached
         /\ \A S : /\ doors \subseteq S
                   /\ \A e \in Calls \cup inferred :
                        ({e[1], e[2]} \subseteq reach.reached /\ e[1] \in S) => e[2] \in S
                   => reach.reached \subseteq S
<1>1. CASE reach.reached = {}
  <2>1. doors = {} /\ inferred = {}
    BY <1>1 DEF CallInv
  <2>2. QED  BY <1>1, <2>1
<1>2. CASE reach.reached # {}
  <2>1. doors \subseteq Symbols /\ \A e \in Calls \cup inferred : e[1] \in Symbols /\ e[2] \in Symbols
    BY SitesAre, CallGraphAssumption DEF CallInv
  <2>2. reach = Reachability(Calls \cup inferred)
    BY <1>2 DEF CallInv
  <2>3. QED  BY <2>1, <2>2, Reached
<1>3. QED  BY <1>1, <1>2

\* The files of which something was reached, and the nodes of their top levels.
ReachedPaths == {pathOf(id) : id \in reach.reached}
ReachedTops == {InitOf(p) : p \in {q \in ReachedPaths : FileOf(q) \notin reach.reached}}

\* The stored nodes are what was reached and the top levels of its files.
LEMMA NodesAre ==
  ASSUME reach.reached \subseteq Symbols
  PROVE  /\ {n.id : n \in Nodes} = reach.reached \cup ReachedTops
         /\ \A p : InitOf(p) \notin reach.reached /\ pathOf(InitOf(p)) = p
         /\ \A n \in Nodes : n.id \in ReachedTops => n.kind = "module-init"
         /\ \A n \in Nodes : pathOf(n.id) \in ReachedPaths
         /\ IsFiniteSet(Nodes) /\ IsFiniteSet({n.id : n \in Nodes})
         /\ Cardinality({n.id : n \in Nodes}) <= Cardinality(Nodes)
<1>1. Nodes = {[id |-> s, kind |-> kindOf(s)] : s \in reach.reached}
                \cup {[id |-> t, kind |-> "module-init"] : t \in ReachedTops}
  BY DEF Nodes, ReachedTops, ReachedPaths
<1>2. {n.id : n \in Nodes} = reach.reached \cup ReachedTops
  <2>1. ASSUME NEW s \in reach.reached
        PROVE  \E n \in Nodes : n.id = s
    <3>1. [id |-> s, kind |-> kindOf(s)] \in Nodes
      BY <1>1
    <3>2. QED  BY <3>1
  <2>2. ASSUME NEW t \in ReachedTops
        PROVE  \E n \in Nodes : n.id = t
    <3>1. [id |-> t, kind |-> "module-init"] \in Nodes
      BY <1>1
    <3>2. QED  BY <3>1
  <2>3. ASSUME NEW n \in Nodes
        PROVE  n.id \in reach.reached \cup ReachedTops
    BY <1>1
  <2>4. QED  BY <2>1, <2>2, <2>3
<1>3. \A p : InitOf(p) \notin reach.reached /\ pathOf(InitOf(p)) = p
  BY CallGraphAssumption DEF InitOf, pathOf
<1>4. \A n \in Nodes : n.id \in ReachedTops => n.kind = "module-init"
  BY <1>1, <1>3 DEF ReachedTops
<1>5. \A n \in Nodes : pathOf(n.id) \in ReachedPaths
  BY <1>1, <1>3 DEF ReachedTops, ReachedPaths
<1>6. IsFiniteSet(Nodes)
  <2>1. IsFiniteSet(reach.reached)
    BY FS_Subset, CallGraphAssumption
  <2>2. IsFiniteSet({[id |-> s, kind |-> kindOf(s)] : s \in reach.reached})
    <3> DEFINE T == {[id |-> s, kind |-> kindOf(s)] : s \in reach.reached}
               f == [s \in reach.reached |-> [id |-> s, kind |-> kindOf(s)]]
    <3>1. f \in Surjection(reach.reached, T)
      BY DEF Surjection
    <3>2. QED  BY <2>1, <3>1, FS_Surjection
  <2>3. IsFiniteSet(ReachedPaths)
    <3> DEFINE f == [s \in reach.reached |-> pathOf(s)]
    <3>1. f \in Surjection(reach.reached, ReachedPaths)
      BY DEF Surjection, ReachedPaths
    <3>2. QED  BY <2>1, <3>1, FS_Surjection
  <2>4. IsFiniteSet({[id |-> t, kind |-> "module-init"] : t \in ReachedTops})
    <3> DEFINE P == {q \in ReachedPaths : FileOf(q) \notin reach.reached}
               T == {[id |-> t, kind |-> "module-init"] : t \in ReachedTops}
               f == [q \in P |-> [id |-> InitOf(q), kind |-> "module-init"]]
    <3>1. IsFiniteSet(P)
      BY <2>3, FS_Subset
    <3>2. f \in Surjection(P, T)
      BY DEF Surjection, ReachedTops
    <3>3. QED  BY <3>1, <3>2, FS_Surjection
  <2>5. QED  BY <1>1, <2>2, <2>4, FS_Union
<1>7. /\ IsFiniteSet({n.id : n \in Nodes})
      /\ Cardinality({n.id : n \in Nodes}) <= Cardinality(Nodes)
  <2> DEFINE f == [n \in Nodes |-> n.id]
  <2>1. f \in Surjection(Nodes, {n.id : n \in Nodes})
    BY DEF Surjection
  <2>2. QED  BY <1>6, <2>1, FS_Surjection
<1>8. QED  BY <1>2, <1>3, <1>4, <1>5, <1>6, <1>7

\* Out of the stored edges, what some doors reach: as many hops as there are
\* nodes, so one more adds nothing.
LEMMA Closure ==
  ASSUME NEW roots, roots \subseteq {n.id : n \in graph.nodes}, roots # {},
         IsFiniteSet(graph.nodes), IsFiniteSet({n.id : n \in graph.nodes}),
         Cardinality({n.id : n \in graph.nodes}) <= Cardinality(graph.nodes),
         \A e \in graph.edges : e[2] \in {n.id : n \in graph.nodes}
  PROVE  /\ roots \subseteq closureFrom(roots)
         /\ closureFrom(roots) \subseteq {n.id : n \in graph.nodes}
         /\ Spread(graph.edges, graph.nodes, closureFrom(roots)) = closureFrom(roots)
<1> DEFINE N == Cardinality(graph.nodes)
           ids == {n.id : n \in graph.nodes}
           Seen(hop) == hop = [n \in 0..N |->
                          IF n = 0 THEN roots
                          ELSE hop[n - 1] \cup {e[2] : e \in {d \in graph.edges : d[1] \in hop[n - 1]}}
                                 \cup {top.id : top \in {m \in graph.nodes :
                                    m.kind = "module-init"
                                      /\ pathOf(m.id) \in {pathOf(i) : i \in hop[n - 1]}}}]
           seen == CHOOSE hop : Seen(hop)
<1>1. N \in Nat /\ 0 \in 0..N /\ N \in 0..N
  BY FS_CardinalityType
<1>2. \A hop : Seen(hop) <=> Spreads(hop, N, roots, graph.edges, graph.nodes)
  BY DEF Spreads, Spread
<1>3. closureFrom(roots) = seen[N]
  BY DEF closureFrom
<1>4. Spreads(seen, N, roots, graph.edges, graph.nodes)
  <2>1. \E hop : Seen(hop)
    BY <1>1, <1>2, SpreadsExist
  <2> HIDE DEF Seen
  <2>2. QED  BY <1>2, <2>1
<1> HIDE DEF seen
<1>5. seen[0] = roots
  BY <1>1, <1>4 DEF Spreads
<1>6. roots \subseteq seen[N]
  BY <1>1, <1>4, <1>5, SeenStaysSeen
<1>7. \A X \in SUBSET ids : Spread(graph.edges, graph.nodes, X) \subseteq ids
  BY DEF Spread
<1>8. seen[N] \subseteq ids
  <2>1. roots \subseteq ids
    OBVIOUS
  <2> HIDE DEF ids
  <2>2. QED  BY <1>1, <1>4, <1>7, <2>1, HopsStayInside
<1>9. Spread(graph.edges, graph.nodes, seen[N]) = seen[N]
  BY <1>1, <1>4, <1>7, EnoughHops
<1>10. QED  BY <1>3, <1>6, <1>8, <1>9

\* Read door by door out of its stored edges, the graph has every node and
\* nothing else; it is closed if no bound was met; and each of its files has its
\* top level in it once.
THEOREM TheGraphIsReached == CallsSpec => []DoorsReachTheGraph
<1>1. CallInv => DoorsReachTheGraph
  <2> SUFFICES ASSUME CallInv, graph # NoGraph
               PROVE  LET ids == {n.id : n \in graph.nodes}
                          tops(p) == ids \cap {FileOf(p), InitOf(p)}
                      IN /\ UNION {closureFrom({d}) : d \in doors} = ids
                         /\ graph.whole =>
                              \A c \in sites : (c.from \in ids /\ c.from # c.to) =>
                                <<c.from, c.to>> \in graph.edges
                         /\ \A n \in graph.nodes : Cardinality(tops(pathOf(n.id))) = 1
    BY DEF DoorsReachTheGraph
  <2> DEFINE ids == {n.id : n \in graph.nodes}
             R == reach.reached
             seen == UNION {closureFrom({d}) : d \in doors}
  <2>1. /\ graph.nodes = Nodes /\ graph.edges = Edges
        /\ graph.whole => ~reach.bounded /\ Fresh = {}
    <3>1. graph = [state |-> "stored", nodes |-> Nodes, edges |-> Edges,
                   whole |-> ~reach.bounded /\ Fresh = {}]
      BY DEF CallInv
    <3>2. \A x, y, z, w : LET g == [state |-> x, nodes |-> y, edges |-> z, whole |-> w]
                          IN g.nodes = y /\ g.edges = z /\ g.whole = w
      OBVIOUS
    <3>3. QED  BY <3>1, <3>2, Zenon
  <2>2. R \subseteq Symbols /\ doors \subseteq R
    BY WhatIsReached
  <2>3. /\ ids = R \cup ReachedTops
        /\ \A p : InitOf(p) \notin R /\ pathOf(InitOf(p)) = p
        /\ \A n \in graph.nodes : n.id \in ReachedTops => n.kind = "module-init"
        /\ \A n \in graph.nodes : pathOf(n.id) \in ReachedPaths
        /\ IsFiniteSet(graph.nodes) /\ IsFiniteSet(ids)
        /\ Cardinality(ids) <= Cardinality(graph.nodes)
    BY <2>1, <2>2, NodesAre
  <2>4. \A e \in Calls \cup inferred : {e[1], e[2]} \subseteq R => e \in graph.edges
    BY <2>1 DEF Edges, Joined
  <2>5. \A e \in graph.edges : e[1] \in R /\ e[2] \in R
    BY <2>1 DEF Edges, Joined
  <2>6. \A d \in doors : /\ d \in closureFrom({d}) /\ closureFrom({d}) \subseteq ids
                         /\ Spread(graph.edges, graph.nodes, closureFrom({d})) = closureFrom({d})
    <3>1. TAKE d \in doors
    <3>2. {d} \subseteq ids /\ {d} # {} /\ \A e \in graph.edges : e[2] \in ids
      BY <2>2, <2>3, <2>5
    <3> HIDE DEF ids
    <3>3. QED  BY <2>3, <3>2, Closure DEF ids
  <2>7. seen \subseteq ids
    BY <2>6
  <2>8. R \subseteq seen
    <3>1. doors \subseteq seen
      BY <2>6
    <3>2. ASSUME NEW e \in Calls \cup inferred, {e[1], e[2]} \subseteq R, e[1] \in seen
          PROVE  e[2] \in seen
      <4>1. PICK d \in doors : e[1] \in closureFrom({d})
        BY <3>2
      <4>2. e \in graph.edges
        BY <2>4, <3>2
      <4>3. e[2] \in Spread(graph.edges, graph.nodes, closureFrom({d}))
        BY <4>1, <4>2 DEF Spread
      <4>4. QED  BY <2>6, <4>3
    <3>3. QED  BY <3>1, <3>2, WhatIsReached
  <2>9. ReachedTops \subseteq seen
    <3>1. SUFFICES ASSUME NEW t \in ReachedTops PROVE t \in seen
      OBVIOUS
    <3>2. PICK i \in R : t = InitOf(pathOf(i))
      BY <3>1 DEF ReachedTops, ReachedPaths
    <3>3. PICK d \in doors : i \in closureFrom({d})
      BY <2>8, <3>2
    <3>4. PICK n \in graph.nodes : n.id = t /\ n.kind = "module-init"
      BY <2>3, <3>1
    <3>5. pathOf(n.id) = pathOf(i)
      BY <2>3, <3>2, <3>4
    <3>6. t \in Spread(graph.edges, graph.nodes, closureFrom({d}))
      BY <3>3, <3>4, <3>5 DEF Spread
    <3>7. QED  BY <2>6, <3>6
  <2>10. seen = ids
    BY <2>3, <2>7, <2>8, <2>9
  <2>11. ASSUME graph.whole, NEW c \in sites, c.from \in ids, c.from # c.to
         PROVE  <<c.from, c.to>> \in graph.edges
    <3>1. c.from \in R
      <4>1. c.from \in Symbols
        BY SitesAre DEF CallInv
      <4>2. \A t \in ReachedTops : t \notin Symbols
        BY CallGraphAssumption DEF ReachedTops, InitOf
      <4>3. QED  BY <2>3, <2>11, <4>1, <4>2
    <3>2. <<c.from, c.to>> \in Calls \cup inferred
      <4>1. CASE c.how = "call"
        BY <4>1 DEF Calls
      <4>2. CASE c.how # "call"
        <5>1. <<c.from, c.to>> \in Inferable
          BY <2>11, <3>1, <4>2 DEF Inferable
        <5>2. QED  BY <2>1, <2>11, <5>1 DEF Fresh
      <4>3. QED  BY <4>1, <4>2
    <3>3. c.to \in R
      BY <2>1, <2>11, <3>1, <3>2, WhatIsReached
    <3>4. QED  BY <2>4, <3>1, <3>2, <3>3
  <2>12. ASSUME NEW n \in graph.nodes
         PROVE  Cardinality(ids \cap {FileOf(pathOf(n.id)), InitOf(pathOf(n.id))}) = 1
    <3> DEFINE p == pathOf(n.id)
    <3>1. p \in ReachedPaths
      BY <2>3
    <3>2. FileOf(p) # InitOf(p) /\ \A q : FileOf(p) # InitOf(q)
      BY DEF FileOf, InitOf
    <3>3. \A q : InitOf(q) = InitOf(p) => q = p
      BY DEF InitOf
    <3>4. FileOf(p) \in ids <=> FileOf(p) \in R
      BY <2>3, <3>2 DEF ReachedTops
    <3>5. InitOf(p) \in ids <=> FileOf(p) \notin R
      BY <2>3, <3>1, <3>3 DEF ReachedTops
    <3>6. \E x : ids \cap {FileOf(p), InitOf(p)} = {x}
      <4> HIDE DEF ids, p
      <4>1. QED  BY <3>2, <3>4, <3>5
    <3>7. QED  BY <3>6, FS_Singleton
  <2>13. QED  BY <2>10, <2>11, <2>12
<1>2. QED  BY <1>1, CallInvariance, PTL
=============================================================================
