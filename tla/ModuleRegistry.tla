--------------------------- MODULE ModuleRegistry ---------------------------
(***************************************************************************)
(* Modules are derived from paths: the index derives the registry from the *)
(* files it finds, a proposal derives the module it would add from the     *)
(* path it plans, and a plan does the same for the paths it names.  The    *)
(* project view counts the answers that reach a module; the question queue *)
(* suggests what none has reached.                                         *)
(*                                                                         *)
(* A path is the sequence of its segments, the last one the file.  A       *)
(* module id is the sequence of the words in its root: letter case and     *)
(* what separates words are lost, as in the ids the code makes.            *)
(* A segment is a whole: a name that is a part of an earlier segment is    *)
(* left out.                                                               *)
(*                                                                         *)
(* An index is written in six transactions and its process may die between *)
(* them: the latest snapshot is then one without hashes, without symbols,  *)
(* or with symbols and no modules, until somebody indexes again.  Call     *)
(* sites and the call graph are left out: nothing here reads them.         *)
(* Answers, plans and the index are written by commands that hold the      *)
(* project's lock; files change at any time.                               *)
(***************************************************************************)
EXTENDS Naturals, Sequences, FiniteSets, SequencesExt, FiniteSetsExt

CONSTANTS
  Paths,       \* the paths files may have
  WordsOf(_),  \* the words of a segment, in lower case
  Layers,      \* LAYER_NAMES
  Doors,       \* the paths that hold an entry point when they are indexed
  MaxAnswers,  \* bound: answers in the store
  MaxPlans,    \* bound: saved plans
  MaxWrites    \* bound: how often a file is written or deleted

ASSUME RegistryAssumption == \A p \in Paths : p \in Seq(STRING) /\ p # <<>>

VARIABLES
  files,     \* the files of the project
  indexed,   \* the files the latest snapshot has hashes of
  ingested,  \* the files it has symbols of
  registry,  \* its modules: the root of each module id
  doors,     \* its entry points
  committed, \* the last of its parts that was committed
  indexing,  \* an index that is being made: the files its provider read, and
             \* those that were hashed
  answers,   \* the stored answers
  plans,     \* the saved plans
  writes     \* how often a file was written or deleted

registryVars ==
  <<files, indexed, ingested, registry, doors, committed, indexing, answers, plans,
    writes>>

-----------------------------------------------------------------------------
(* The rules                                                               *)

Prefix(p, n) == SubSeq(p, 1, n)

\* Where a segment is in a path for the first time.
FirstAt(p, segment) == Min({i \in DOMAIN p : p[i] = segment})

isWorkspacePackage(p) == Len(p) >= 3 /\ p[1] \in {"packages", "apps"}

isModuleRoot(p) ==
  \/ Len(p) >= 3 /\ p[1] = "modules"
  \/ Len(p) >= 4 /\ p[1] = "src" /\ p[2] = "modules"

moduleName(p) == IF p[1] = "modules" THEN p[2] ELSE p[3]

isAppRoute(p) == Len(p) >= 3 /\ p[1] = "src" /\ p[2] = "app"

features(p) == {i \in 1..(Len(p) - 1) : WordsOf(p[i]) = <<"features">>}

isLayer(p) == Len(p) >= 3 /\ p[1] = "src" /\ p[2] \in Layers

\* moduleRootForPath(): the first rule that matches; <<>> when none does.  The
\* explicit rule cuts the path after the first place that reads like the name.
moduleRootForPath(p) ==
  CASE isWorkspacePackage(p) -> Prefix(p, 2)
    [] ~isWorkspacePackage(p) /\ isModuleRoot(p) -> Prefix(p, FirstAt(p, moduleName(p)))
    [] OTHER ->
         IF isAppRoute(p) THEN Prefix(p, 2)
         ELSE IF features(p) # {} THEN Prefix(p, Min(features(p)) + 1)
         ELSE IF isLayer(p) THEN Prefix(p, 2)
         ELSE IF Len(p) > 1 THEN Prefix(p, 1) ELSE <<>>

moduleIdFromPath(root) == FlattenSeq([i \in DOMAIN root |-> WordsOf(root[i])])

\* Slip: the directory of the file, not the root its module would have.
moduleIdOfDirectory(p) == moduleIdFromPath(Prefix(p, Len(p) - 1))

\* moduleIdForPath(), <<>> for none
moduleIdForPath(p) == moduleIdFromPath(moduleRootForPath(p))

\* deriveModules()
deriveModules(fs) == {moduleRootForPath(p) : p \in fs} \ {<<>>}

\* insertModules(): of roots with one id, the row that is written last stands.
Registries(fs) ==
  LET roots == deriveModules(fs)
      ids == {moduleIdFromPath(r) : r \in roots}
  IN {reg \in [ids -> roots] : \A id \in ids : moduleIdFromPath(reg[id]) = id}

\* moduleOwning(): the module with the longest root above the path, <<>> for none.
moduleOwning(p) ==
  LET owners == {id \in DOMAIN registry : IsPrefix(registry[id], p)}
  IN IF owners = {} THEN <<>>
     ELSE CHOOSE id \in owners : \A o \in owners : Len(registry[o]) <= Len(registry[id])

\* intentModuleOf(), of a citation that names no module itself
intentModuleOf(p) == moduleIdForPath(p)

-----------------------------------------------------------------------------
(* The project, read from the answers                                      *)

\* An answer that was superseded is not coverage, and neither is a proposal.
live == {a \in answers : a.status # "superseded"}
liveObserved == {a \in live : a.kind = "observed"}
proposals == {a \in live : a.kind = "proposed"}

\* projectView(): the answers that cite a line in a module, and how far it is
\* reached by them.
citing(id) == {a \in liveObserved : moduleOwning(a.path) = id}

reach(id) ==
  CASE Cardinality(citing(id)) > 1 -> "shared"
    [] Cardinality(citing(id)) = 1 -> "cited"
    [] citing(id) = {} -> "unreached"

\* proposedModulesOf(), over all proposals: what the registry does not have.
\* validateStructure() refused the paths no module can be derived from.
proposedModules == {intentModuleOf(a.path) : a \in proposals} \ DOMAIN registry

-----------------------------------------------------------------------------
(* Plans                                                                   *)

\* resolvePlanPath(): a path as it is written, then the one indexed file that
\* ends with it; a path nothing ends with is planned.
resolvePlanPath(written) ==
  LET matches == {k \in indexed : IsSuffix(written, k)}
      found == IF Cardinality(matches) = 1 THEN CHOOSE k \in matches : TRUE ELSE written
  IN [path |-> IF written \in files THEN written ELSE found,
      outcome |-> IF written \in files THEN "located"
                  ELSE IF Cardinality(matches) > 1 THEN "unanchored"
                  ELSE IF matches = {} THEN "planned"
                  ELSE IF found \in files THEN "located" ELSE "missing"]

\* The module of a plan reference: the one that owns the path, else the one
\* that would.
planModule(ref) ==
  LET owner == moduleOwning(ref.path)
      planned == IF ref.outcome = "planned" THEN intentModuleOf(ref.path) ELSE <<>>
  IN IF owner # <<>> THEN [id |-> owner, state |-> "existing"]
     ELSE [id |-> planned, state |-> IF planned # <<>> THEN "planned" ELSE "none"]

\* inspectPlan(), of a plan that names one path
inspectPlan(written) ==
  LET ref == resolvePlanPath(written)
      module == planModule(ref)
  IN [path |-> ref.path, outcome |-> ref.outcome, module |-> module,
      unreached |-> \/ module.state = "planned"
                    \/ module.state = "existing" /\ reach(module.id) = "unreached"]

\* Slip: what a saved plan did not reach is suggested for good.
SavedAsUnreached == {p.module.id : p \in {q \in plans : q.unreached}}

\* planCandidates(): what a saved plan touches and no answer reaches today.
planCandidates ==
  {p.module.id : p \in {q \in plans :
     q.unreached /\ (q.module.id \in DOMAIN registry => reach(q.module.id) = "unreached")}}

moduleCandidates == {id \in DOMAIN registry : reach(id) = "unreached"}

entryPointCandidates == {d \in doors : \A a \in liveObserved : a.path # d}

-----------------------------------------------------------------------------
(* The steps                                                               *)

Idling == [at |-> "idle", graph |-> {}, hashed |-> {}]

snapshotVars == <<indexed, ingested, registry, doors, committed>>

RegistryInit ==
  /\ files = {}
  /\ indexed = {}
  /\ ingested = {}
  /\ registry = [id \in {} |-> <<>>]
  /\ doors = {}
  /\ committed = "none"
  /\ indexing = Idling
  /\ answers = {}
  /\ plans = {}
  /\ writes = 0

\* A file is not a directory of another one.
Apart(fs) == \A p, q \in fs : p # q => ~IsPrefix(p, q)

WriteFile(p) ==
  /\ p \notin files /\ Apart(files \cup {p})
  /\ writes < MaxWrites
  /\ writes' = writes + 1
  /\ files' = files \cup {p}
  /\ UNCHANGED <<snapshotVars, indexing, answers, plans>>

DeleteFile(p) ==
  /\ p \in files
  /\ writes < MaxWrites
  /\ writes' = writes + 1
  /\ files' = files \ {p}
  /\ UNCHANGED <<snapshotVars, indexing, answers, plans>>

\* veriflow index: the provider reads the tree before it is hashed.
UpdateProvider ==
  /\ indexing = Idling
  /\ indexing' = [at |-> "provider", graph |-> files, hashed |-> {}]
  /\ UNCHANGED <<files, snapshotVars, answers, plans, writes>>

\* captureSnapshot() and insertSnapshot(): the new snapshot is the latest one,
\* and has nothing.
InsertSnapshot ==
  /\ indexing.at = "provider"
  /\ indexing' = [indexing EXCEPT !.at = "storing", !.hashed = files]
  /\ committed' = "snapshot"
  /\ indexed' = {}
  /\ ingested' = {}
  /\ registry' = [id \in {} |-> <<>>]
  /\ doors' = {}
  /\ UNCHANGED <<files, answers, plans, writes>>

\* The parts of a snapshot are committed one after the other.
Store(after, part) ==
  /\ indexing.at = "storing"
  /\ committed = after
  /\ committed' = part
  /\ UNCHANGED <<files, answers, plans, writes>>

InsertFileHashes ==
  /\ Store("snapshot", "hashes")
  /\ indexed' = indexing.hashed
  /\ UNCHANGED <<ingested, registry, doors, indexing>>

\* What the provider read.
InsertSymbols ==
  /\ Store("hashes", "symbols")
  /\ ingested' = indexing.graph
  /\ UNCHANGED <<indexed, registry, doors, indexing>>

InsertModules ==
  /\ Store("symbols", "modules")
  /\ registry' \in Registries(indexing.graph)
  /\ UNCHANGED <<indexed, ingested, doors, indexing>>

InsertEntryPoints ==
  /\ Store("modules", "entry points")
  /\ doors' = Doors \cap indexing.graph
  /\ indexing' = Idling
  /\ UNCHANGED <<indexed, ingested, registry>>

\* What was committed stays, and is the latest snapshot.
IndexDies ==
  /\ indexing # Idling
  /\ indexing' = Idling
  /\ UNCHANGED <<files, snapshotVars, answers, plans, writes>>

\* submit_flow_answer: an observed answer cites a line of a file; a proposal a
\* path without a line, which is refused when no module can be derived from it.
SubmitAnswer(kind, p) ==
  /\ indexing = Idling
  /\ Cardinality(answers) < MaxAnswers
  /\ IF kind = "observed" THEN p \in files ELSE intentModuleOf(p) # <<>>
  /\ answers' = answers \cup
       {[id |-> Cardinality(answers) + 1, kind |-> kind, path |-> p, status |-> "current"]}
  /\ UNCHANGED <<files, snapshotVars, indexing, plans, writes>>

SupersedeAnswer(a) ==
  /\ indexing = Idling
  /\ a.status = "current"
  /\ answers' = (answers \ {a}) \cup {[a EXCEPT !.status = "superseded"]}
  /\ UNCHANGED <<files, snapshotVars, indexing, plans, writes>>

\* veriflow plan --save
SavePlan(written) ==
  /\ indexing = Idling
  /\ committed # "none"
  /\ Cardinality(plans) < MaxPlans
  /\ plans' = plans \cup {inspectPlan(written)}
  /\ UNCHANGED <<files, snapshotVars, indexing, answers, writes>>

RegistryNext ==
  \/ \E p \in Paths : WriteFile(p) \/ DeleteFile(p)
  \/ UpdateProvider \/ InsertSnapshot \/ InsertFileHashes \/ InsertSymbols
  \/ InsertModules \/ InsertEntryPoints \/ IndexDies
  \/ \E p \in Paths, kind \in {"observed", "proposed"} : SubmitAnswer(kind, p)
  \/ \E a \in answers : SupersedeAnswer(a)
  \/ \E p \in Paths : \E n \in 1..Len(p) : SavePlan(SubSeq(p, n, Len(p)))

RegistrySpec == RegistryInit /\ [][RegistryNext]_registryVars

-----------------------------------------------------------------------------
(* Properties                                                              *)

\* The name of a module reads like no segment before it.
InPlace(p) ==
  isModuleRoot(p) => FirstAt(p, moduleName(p)) = IF p[1] = "modules" THEN 2 ELSE 3

\* The root of a path and the roots above it are where the names are, no other
\* indexed root shares its id, and no indexed file lies below the path.
Regular(p) ==
  /\ InPlace(p)
  /\ \A q \in ingested :
       /\ IsPrefix(moduleRootForPath(q), p) => InPlace(q)
       /\ moduleIdForPath(q) = moduleIdForPath(p) =>
            moduleRootForPath(q) = moduleRootForPath(p)
       /\ q # p => ~IsPrefix(p, q)

\* The latest snapshot has its modules.
ModulesWritten == committed \in {"modules", "entry points"}

\* A module that is proposed becomes real when its code lands: once an index
\* that found the planned file has written its modules, whichever indexes died
\* before it or dies after them, the id the proposal derived is in the registry,
\* it owns the file, and the project view calls it proposed no more.  It is
\* promised of regular paths; two roots with one id overwrite each other in the
\* registry.
PlannedModuleBecomesReal ==
  \A a \in proposals :
    (a.path \in ingested /\ ModulesWritten /\ Regular(a.path)) =>
      /\ intentModuleOf(a.path) \in DOMAIN registry \ proposedModules
      /\ moduleOwning(a.path) = intentModuleOf(a.path)

\* What is suggested as unreached was not reached.  Wherever an index died, no
\* question asks about an entry point or about a module of the registry into
\* which a live observed answer cites a line, whether the index has the file or
\* not and whenever the plan was saved that named the module; and none asks about
\* a module of a plan once an index that found the cited file has written its
\* modules.  (Until then, and for ever if it dies, the module counts as planned,
\* and the saved plan's suggestion stands.)
UnaskedMeansUncited ==
  \A a \in liveObserved :
    LET id == moduleIdForPath(a.path)
    IN /\ a.path \notin entryPointCandidates
       /\ Regular(a.path) =>
            /\ id \notin moduleCandidates
            /\ id \in DOMAIN registry \/ (a.path \in ingested /\ ModulesWritten) =>
                 id \notin planCandidates
=============================================================================
