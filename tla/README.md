# VeriFlow Architect: a verification project

VeriFlow indexes a repository, lets a person ask how a flow of the code works, drives a coding agent
(Claude Code or Codex) that answers with citations, and keeps the answers in a SQLite file that
terminal commands, a local web console and MCP servers share. This directory holds TLA+ models of
the parts where something can go wrong that a unit test would hardly reach, the TLC configurations
that check them, and proofs of the properties of the core. Paths are relative to the repository.

    tlc -config MCAgentRun.cfg MCAgentRun       # one run of the model checker
    tlapm AgentRun_proofs.tla                   # the proofs of one module

## 1. Inventory

| part | state it keeps | operations | who it meets |
|---|---|---|---|
| project lock (`packages/workspace`) | `.veriflow/lock`, a `held` flag per object | `acquire`, `release` | every locking terminal command, every browser run |
| run registry (`apps/server/src/runs.ts`) | `live`, settled runs, probed clients, waiters | `start`, `answer`, `cancel`, the settled promise | requests in flight, the lock, the session, the store |
| agent session (`packages/agent-session`: `session.ts`, `stream.ts`) | the event buffer, parked questions | `run`, `cancel` | driver, store, sink |
| drivers (`claude-code.ts`, `fake-client.ts`) | child process, timer, cancel reason | `start`, `answer`, `cancel`, child events | the agent client |
| run server (`packages/mcp-server/src/run-server.ts`) | nothing but its tables | `ask_user`, `record_open_question`, `submit_flow_answer`, PRD proposals, reads | the agent, the store |
| terminal questions (`apps/cli/src/run-questions.ts`) | what was seen, the prompt, whether stdin is closed | poll, prompt, abort, stop | the store, the session |
| console page and stream (`apps/server/src/index.ts`, `views.ts`) | one cursor per connection; lines in the browser | render, follow, answer, cancel | the store, the browser |
| store (`packages/store`) | SQLite, WAL, no busy timeout | opening and migration, about a hundred reads and writes | everybody |
| answers (`packages/answers`) | corrections, declared architecture, lineage, verifications | compare-and-set saves, freshness, impact, diffs, plans, queue | the store, the tree |
| flow answers (`packages/flow-answer`) | none | validation, citation checks, intent | the run server |
| PRD documents (`packages/prd`) | Markdown files and their rows | register, prepare, apply, create, resolve, assess | files, people, the store |
| export (`packages/export`) | one document and its sibling; dumps | prepare, commit, abort; dump, restore | files, the store |
| index (`packages/snapshot`, `callgraph`, `provider-*`, `apps/cli`) | a snapshot with hashes, symbols, modules, call graph | capture, ignore, ingest, derive | the tree, the store |
| metrics (`packages/metrics`) | imported coverage runs | import cycles, coverage import, counts | the store |
| agent integration (`packages/agent-integration`) | configuration files of clients | plan, apply, roll back, diagnose | files, people |
| ask, diagrams, plan sources, contracts, read server | none | pure functions, reads | - |

How a run goes: a request or a command takes the lock, creates session and row, and starts the
client; the client starts an MCP server of its own, in a third process, which writes questions and
answers into the store; the session stores every event it is told of; consoles read the store, and
write a person's answers into it. Nothing but the store and the lock file connects these processes.

What is hard is listed at its line under `hazards` in `PROJECT.json`: a test before an `await` and
its use after it; a lock whose check and write are two file operations; several processes writing the
record of one run; a cancel, a timer, an exit and a person's answer that race; streams that are
dropped and opened again; migrations by two processes at once; renames and rows that are recorded in
separate steps; compare-and-set over hashes; indexes and restores that die between transactions; and
algorithms whose boundary cases decide what is called fresh, paired, reachable or covered.

What makes the parts correct: the lock keeps two processes apart and turns nobody away for a dead
one; a run's record is true, only grows and is closed once; a parked run can be escaped; a console
shows the record; a database can be opened after a crash with all that was recorded; a file is what
its row says; an answer's state never claims more than the code supports; nothing is dropped, paired
or measured by guessing.

## 2. Modules

The core, a run and the processes around it:

| module | models | state corresponds to |
|---|---|---|
| `ProjectLock` | `ProjectLock.acquire/release` | `lockFile` = the file, `held` = the flags, `between` and `writing` = inside `acquire`, before and after the write has emptied the file, `alive` = processes; `raced`, `stuck`, `torn` are history |
| `RunRegistry` (extends it) | `RunRegistry.start/cancel`, the settled promise; `open()`/`close()` of commands | `live` = `this.live`, `phase` = how far a handler or command is |
| `RunRecord` | the abstract record of a run: what the store promises | `status`, `transcript`, `answers` |
| `AgentRun` | `AgentSession.run`, `driveChild`, the MCP tools that write, `applySupersede`, people's answers | `session` = program counter of the session; `child`, `timedOut`, `cancelled`, `outcome` = locals of `driveChild`; `row`, `stored`, `question`, `landed`, `superseded` = tables; `tool`, `answering` = calls in progress |
| `LiveConsole` (extends `RunRecord`) | the run page, its script and the event stream | `page` = the browser, `conn` = locals of the stream's loop, `wire` = messages under way |
| `TerminalQuestions` | the terminal's question pump | `rows` = `run_questions`, `pump` = its locals, `input` = readline |
| `FlowSubmission` | `submit_flow_answer` and the comparison with PRDs | `handler` = how far the call is, the tables it writes, `replies` |

The database and what is put into it:

| module | models | state corresponds to |
|---|---|---|
| `StoreMigration` | constructor of `Store`, backup, `migrate()` | `stamp` = `schemaVersion`, `shape` = the tables there are, `backups`, `proc` = locals of each opening |
| `DumpRestore` | `dumpStore`, `restoreDump` | the origin of each table's rows, where the restore is |
| `CallGraph` | `buildCallGraph` and the page that reads it | sites and doors of a program, rounds, the stored edges |
| `IgnoreRules` | `.veriflowignore`, `walkTree`, filtered evidence | rules; the tree; what was hashed and ingested |
| `RuntimeCoverage` | `importRuntimeCoverage`, `buildRuntimeCoverageRun`, the Cobertura reader | `artifact` = the report on disk, `coverageRuns` = the table, `imported` = replies |
| `ModuleRegistry` | the `index` command, module detection, plan inspection, question queue | `files` = the tree; `indexed`, `ingested`, `registry`, `doors` = the hashes, symbols, modules and entry points of the latest snapshot, `committed` = the last of them that was committed |

Files:

| module | models | state corresponds to |
|---|---|---|
| `DocumentWrite` | `prepareWrite`, `commit`, `abort` | `file`, its sibling `tmp`, `job` = the locals of each writer; `left`, `torn` are history |
| `ExportDocument` (extends it) | `veriflow export --doc` | `exported` = what the last export recorded |
| `PrdUpdate` (extends it) | registration, proposals, their application, creations, evidence | the PRD tables; `renamed`, `crossed`, `maker`, `overtaken` are history |
| `AgentInstall` | `applyAgentInstallPlan` and its rollback | `target`, `temporary`, `backup` of each file; `install` = the plan, where the command is, the files still to do and those committed |

Answers and what is read from them:

| module | models |
|---|---|
| `AnswerRecord` | corrections and decisions of several people over one answer |
| `DeclaredArchitecture` | saves by compare-and-set, heads, revisions |
| `Freshness` | citation checks, the estimate, verification, stored verifications |
| `ChangeImpact` | `changeImpact` over the hunks of one changed file |
| `AnswerDiff`, `PlanReview` (on top of it) | `diffAnswers`; `buildPlanReview` |
| `AnswerLineage`, `Conformance`, `ImportCycles` | `buildAnswerLineage`; the comparison with the declared architecture; `findCycles` |

Proofs are in eight modules:

| proofs | of |
|---|---|
| `RunRegistry_proofs` | `ProjectLock`, `RunRegistry` |
| `AgentRun_proofs`, `LiveConsole_proofs` | the module of that name |
| `StoreMigration_proofs` | `StoreMigration`, `DumpRestore`, `IgnoreRules`, `CallGraph` |
| `Documents_proofs` | `DocumentWrite`, `ExportDocument`, `PrdUpdate`, `AgentInstall`, `FlowSubmission` |
| `Answers_proofs` | `AnswerRecord`, `DeclaredArchitecture`, `Freshness`, `ChangeImpact`, `Conformance`, `ModuleRegistry` |
| `Comparison_proofs` | `AnswerDiff`, `PlanReview`, `RuntimeCoverage` |
| `Walks_proofs` | `ImportCycles`, `AnswerLineage` |

`MCRunRegistry` and
`MCAgentRun` instantiate one component each. `MCLiveConsole`, `MCStore`, `MCDocuments` and
`MCAnswers` put several components side by side: a variable `story` says which one a behaviour is
about, and the variables of the others keep their first values. The components of a story interact
only where a module extends another one (`ExportDocument` and `PrdUpdate` over `DocumentWrite`,
`PlanReview` over `AnswerDiff`), so nothing is lost by it; it only saves runs.

Steps. Node runs one callback at a time, so inside one process everything between two `await`s is one
action, except where another *process* may come in between: then every file operation, transaction
or store call of interest is an action. An SQLite transaction is atomic; a death falls between two.
Operators called slips (or faulty variants) are small plausible bugs of the operator they precede;
no specification uses them, they show that the properties can fail.

What was abstracted:

- Event payloads, texts, lines and answers are model values, told apart as far as the properties
  need it. A hash of something is the thing. Paths are sequences of segments.
- A list that is sorted by a strict order is written as what it is: at place `k` stands the one with
  `k - 1` before it (`NewestFirst`, `InIdOrder`, `InOrder`, `Ascending`). Edges still to follow in
  their order are a set of which the least is taken.
- A prompt that a client puts on its own stream is modelled with the session code that parks on it;
  of the repository's clients only the fake one emits it.
- Every run of `AgentRun` is taken to be a re-answer. A run that is none is the same without the mark.
- A run that cannot write its row or start its client ends in `StartThrows`, a store call that throws
  (there is no busy timeout, so any write may) in `StoreFails`; the process dies in `HostDies`.
  The agent lives on after all three: nothing in the code stops it.
- The registry's promise that clears `live` and releases the lock is `Settle`; what the session does
  before is `AgentRun`. The two modules share no variable but the meaning of `Cancel`.
- The console is written for a run of another process (a terminal run watched in the browser), the
  more hostile case: each store read of the server sees a later state.
- `StoreMigration` keeps of the tables which version made them, and of the rows those facts that a
  step repeated could destroy.
- `DocumentWrite` keeps one document; its sibling's fixed name is what two writers share. The claim of
  a name, the bytes of the sibling and the rename are steps of their own, and each may fail or be cut
  short; `Blank` is a file without its bytes. Mixed bytes of two writes of the sibling at the same
  moment are left out.
- `ProjectLock` has the lock file empty between the two halves of its write. Of `Number()` of the
  file's text it keeps the three cases a write can leave: no file, a pid, and the empty text, which
  is 0 and counts as alive. Half a pid, and the pids of two writers mixed, are left out; so is a
  signal that is refused for lack of permission, which the code takes for a dead process.
- `IgnoreRules` has two lists of languages, the extensions that are hashed (`Indexable`) and the files
  the provider knows (`Parsed`), which need not agree; any file or directory may be unreadable.
- `ModuleRegistry` leaves out the call sites and the saved call graph, transactions of an index that
  none of its properties reads.
- In `PlanReview` an answer has one list of steps as the matcher sees it, its own first and then those
  of its branches; `main` says how many are its own, which are the ones that are drawn.
- In `AgentRun` the look at the submitted answer and the write of the outcome are one step, `Finish`:
  only a run whose client exited with 0 is looked at, and such a client has no tool call in progress.
- `Freshness` keeps of a line which line it was and whether it names the cited symbol.
- In `AnswerDiff` how alike two labels are is a constant; the scores are those of the code, counted
  in ten-thousandths.
- `**`, `?` and malformed lines of ignore rules, the merge of one configuration format, drives and
  UNC names of coverage paths are left out, each with a comment in its module.

## 3. What TLC checks

| run | bounds | checked |
|---|---|---|
| `registry` | 2 questions, 2 commands, 3 processes; no other bound | `LockExcludes`, `RefusalsAreJustified`, `RunOwnsTheProject`, `LiveIsGoing`, `LockStaysWithItsOwner` |
| `agent_run` | a question of each kind, one value, two consoles, `MaxOutput` = 1, `MaxAnswers` = 1 | `StoredIsWhatHappened`, `TranscriptReads`, `RowTellsTheTruth`, `SupersededBySomething`, `RunSettles`, `ImplementsRecord` |
| `console` | page: `MaxEvents` = 3, one question, `MaxDrops` = 2; prompt: two questions and a note, one typed and one clicked value | `PageFollows`, `SettledComesLast`, `PageEndsComplete`, `TerminalNeverParks` |
| `store` (2.5 M states) | opening: 2 processes, versions 0, 1, 4, 12, 13, 3 openings, 2 rows; restoring: 6 dump versions, 4 contents, 2 restores; calling: 3 functions, up to 3 sites, 2 rounds; ignoring: 5 files, of which one is not hashed and one not parsed, 2 rules of 28, anything unreadable; measuring: 130 reports, 10 provenances, 3 answers, 2 imports | `StampNamesTheShape`, `NothingRecordedIsLost`, `RestoredIsTheDump`, `DoorsReachTheGraph`, `EvidenceIsHashed`, `NothingMeasuredIsGuessed` |
| `documents` (4.2 M) | export and prd: 2 writers, 2 valid texts and one that is none, 1 edit by a person, 2 jobs, 2 proposals; install: 3 files, 1 touch, 2 faults; submission: 2 answers, 2 assessments, 1 change, PRDs of two revisions | `NoLeftovers`, `RegistryFollowsTheFile`, `WritesWhatWasShown`, `InstallsAllOrNothing`, `AssessmentsAreGrounded` |
| `answers` (2.4 M) | corrections: 2 people, 3 rows, 2 questions of which one was handed in decided, a clock of two ticks set back once; declared: 2 authors, 3 models, 4 saves; verification: 2 files of 2 lines, 2 edits, 1 check; comparison: all pairs of flows with up to 3 of 4 steps each and 5 together, in those of up to 2 also with the last one a branch's, and all sketches of one lane and up to two edges; modules: 4 paths, 2 writes and 2 answers but 3 of both together (`MaxTold`), an index that dies anywhere; lineage: 4 rows with any parents; conformance: 3 elements, 2 rules; cycles: every graph of 3 files, self-imports included, and of 4 files with up to 5 imports | `OriginalIsWhatWasServed`, `ServedIsCurrent`, `RevisionsStand`, `OnlyEscalates`, `VouchedForIsThere`, `EditedEvidenceIsReported`, `PairingIsMutual`, `NothingIsDropped`, `PlannedModuleBecomesReal`, `UnaskedMeansUncited`, `NoAnswerIsSwallowed`, `ListsAgree`, `CyclesAreMutual` |
| `registry_race`, `lock_torn`, `agent_waiter`, `console_drop`, `store_race`, `export_preview` | as above | one property each, which the code violates |

Three of the properties are conjunctions whose parts are defined beside them: `RestoredIsTheDump`
(order suffices, done means complete, old rows read as migrated), `RegistryFollowsTheFile` (applied
means written, changed means edited), `ServedIsCurrent` (last row is served, counts agree). The type
invariants of `ProjectLock`, `RunRegistry` and `AgentRun` are theorems and are not checked again.

Why the bounds are enough.

- A race of the lock needs two objects inside `acquire` and a third to profit from it. A run meets
  every interleaving with one question of each kind; more output only repeats
  `ChildWrites`/`Consume`; `MaxAnswers` = 1 keeps `landed > 0` apart from `landed = 0`, all that a
  guard looks at. A page needs a line before it, one on the wire and one to come; a second drop shows
  that the first left nothing behind. Two asks put one prompt behind another.
- A migration race needs two processes and a file that is older by at least one repeatable step; a
  third opening shows what the race left. The versions are an empty file, the first one, one before
  and one after each kind of step, and the build's own.
- A restore meets an older dump, a newer parent and a second attempt. Two rounds of inference are
  enough for an edge that is only found through another inferred one; the code's own bound is four.
- Two writers, an editor and two jobs give every overlap of check, rename and rows; a third writer
  meets one of the two. Two faults are a failure and a failure of its rollback.
- Corrections need a row under the form, one beside it, and a third of equal time. Four saves are
  A, B, A and one more. Two edits are a change and its return.
- A pairing with a runner-up needs two steps on one side and a second pair of equal score needs
  three. Four rows are a circle with a tail, and a row whose parent is gone.
- An observed step paired with a branch's needs one step in the flow and one in a branch.
- Two names of a coverage report can be one file, two, or either, depending on roots and mappings.

`documents` uses symmetry over writers and valid texts, `answers` over people: none of them is compared
with a literal, and no liveness is checked there. Deadlock is not checked: handlers finish, runs settle and
a page that has shown the end stays.

Six disagreements between the code and its documentation came out of it (`findings`):

1. `registry_race`: "One run at a time, per project" does not hold for two questions posted during
   the first probe of the clients. Both find `live` empty; the lock lets its own process through.
2. `agent_waiter`: `ask_user` gives up after its deadline and leaves the question pending, so the
   console still asks it and accepts an answer nobody reads.
3. `console_drop`: after a dropped connection the browser asks again from where the page began, and
   appends lines a second time; the page is right again only after the reload at the end.
4. `store_race`: two processes open an older database; the slower one repeats a step and stamps its
   version over the newer shape, and from then on a `CREATE TABLE` throws at every opening.
5. `export_preview`: an export approved by a person overwrites what was edited while it waited.
6. `lock_torn`: a process that is killed while it writes the lock file leaves it empty, and an empty
   file counts as the pid of a live process: everybody is refused until a person removes it.

Because of the first, what the registry promises is stated under `~raced`: no two acquires met, and no
process acquired twice. Crashes, stale files and failed removals are *not* excluded by it; that a
refusal is justified is stated for executions without a failed removal and, because of the sixth,
without a write of the lock file that was cut short. Because of the fourth, `StampNamesTheShape` and `NothingRecordedIsLost` are stated for openings that did not
overlap; `RegistryFollowsTheFile` excuses a document whose late registration overtook a newer one, and
the record of a proposal whose writer somebody else had passed between its look and its rename: two
writers share the sibling, and the text in place may then be the other one's. `PageFollows` exempts
line 0 on a page that was rendered before the run had a line; only the reload at the end shows it,
which `PageEndsComplete` does not exempt.

Fairness. `RunRegistry` has none: that a cancelled run settles is a matter of the session, and is
`RunSettles` of `AgentRun`; the registry does the rest in the same callback. `AgentRun`: the host runs its callbacks and its timer (the commands and the console set 15 minutes
unless told otherwise; with a timeout of 0 there is no timer and a hanging agent is not cut off), and
the operating system reports the end of a process that ended. Nothing is assumed of the agent, its
MCP server or of people. `LiveConsole`: page and server go on with what they began; the run need not
go on and nobody need answer. `TerminalQuestions`: the interval and the pump's promises go on, a
cancelled run ends (`RunSettles` again), and the command stops its pump; nobody need type, click or
close the input. The other modules state no fairness and no liveness.

## 4. What is proved

For all values of the constants, by TLAPS. None of the properties is inductive as it stands; each
theorem rests on an invariant that was first checked by TLC on a small instance, and then proved to
hold first, to be kept by every action, and to imply the property.

The core.

- `LockSafety`, `LockJustice`: exclusion, and that refusals are justified. `LockInv` says who may be
  *inside* `acquire` (`OneAtMost` over `held`, `between` and `writing`), that the file names the holder or
  is empty under the one that writes it, and that it counts as live only then, unless a removal or a
  write failed.
- `RegistryImplementsLock`: the registry is a behaviour of the lock, so `LockInv` is inherited;
  `RegistryTypes`, `RunsOwnTheProject`, `WhatIsLiveIsGoing`, `TheLockStays` follow from
  `RegistryInv`, which ties each phase to the state of its lock object and `live` to the run under
  way.
- `RunTypes`, `NeverSupersededByNothing`, `TheRowIsTrue`, `TheTranscriptIsTrue`: of one run.
  `RunInv` ties session, child and row together. Its heart is that a child can exit with 0 only
  between tool calls: hence no answer can land after a quiet end, and the outcome stored is final.
  `StoredInv` adds that what is stored is a beginning of what was emitted, that the last event is
  the outcome, and that nothing is missing once the row is closed.
- `TheTranscriptReads`: start first, nothing after the end, an answer only after its question and
  once. A transcript that reads well says nothing about what may still be appended, so `ReadingInv`
  speaks of the buffer and not of the rows: a question is in it and unanswered as long as it is
  parked.
- `RunImplementsRecord`: the tables of a run implement `RunRecord`, which `LiveConsole` builds on.
- `ThePageFollows`, `TheSettledNoticeIsLast`: of a page and its stream. `ConsoleInv` says that page,
  wire and cursor meet: the first line on the wire follows the page, lines on the wire follow each
  other, the cursor is where the wire ends, and nothing is before the line the page began with.
  After a drop the first of these is only `<=`, hence `Covered`: a page that goes back has all
  before.

The database and files.

- `TheStampIsTrue`, `MigrationsKeepFacts`, `OpensAfterwardsAlone`: of openings that did not overlap.
  `StoreInv` says that of such openings at most one is inside, that what it read of the stamp is
  still the stamp, and that shape and facts are those of the step it has reached, a death at any
  place included. The third is the other half of the finding `store_race`.
- `ExportsLeaveNothing`, `ExportsWriteWhatWasShown`, and of PRDs `UpdatesLeaveNothing`,
  `UpdatesWriteWhatWasShown`: both modules extend `DocumentWrite`, so `WriteInv` is proved once, for
  any set `E` of extra fields in a job. It says who owns the sibling with its fixed name (somebody
  staged, or somebody was killed or gave up, or a write of it failed half-way), who owns a claimed
  name, and what a writer nobody passed still sees.
- `TheRegistryFollows`: `PrdInv` says what a writer has behind it at each of its places (`Trail`:
  its own text renamed unless somebody else was there, the revision stored, the history row written), and that a document which differs
  from its row was left so by a person, by a writer that has yet to register it, or by one that
  died.
- `AllOrNothing`: of an install, and what a person may do to the files meanwhile. `InstallInv` says
  of every file nobody touched, at each place of the transaction, whether it is as it was, set aside
  in its backup, replaced, or put back, from whether it is committed or still to do.
- `RestoresTheDump`: `DumpInv` says that a dump has with a table those it points into, that what the
  restore has come to is there, and what it has left is not. The order of `CORE_TABLES` and
  `INDEX_TABLES` agrees with the foreign keys, so a reference is never missing.
- `EvidenceMatchesHashes`: `IgnoreInv` says that a file no rule ignores is hashed, or it or a
  directory above it waits to be visited or could not be read. It needs that a rule that lets a file through lets its
  directories through, and that a file is not a directory.
- `TheGraphIsReached`: `CallInv` says that what is reached is the reachability over the calls and
  what was inferred so far. The page walks as many hops as the graph has nodes: a walk that still
  moved would have seen more nodes than there are (`EnoughHops`), so it has seen all its door
  reaches; and what the rounds reached was reached along edges that are stored.
- `ClaimsAreGrounded`: `SubmissionInv` keeps what the handler holds in step with the tables it
  wrote, across a repeated submission and a store that throws.

Answers.

- `SignedStaysSigned`: the head names a stored revision, and a stored one keeps its author.
- `VerificationEscalates`, `VerdictsHold`: `FreshInv` says that the hash of a citation handed in
  over the indexed tree is a line of the indexed file (`HashIsOfTheIndex`), and that a stored
  verdict of fresh or drifted names files in which each of its citations can be located (`Backed`);
  the served verdict names the files of today.
- `CorrectionsAreTruthful`, `ReadersAreCurrent`: `AnswerInv` numbers the rows and says what the
  writer of a form `Knows`: as long as the revision it was opened with is the latest, what it shows
  is what is served, and counts what SQL counts (`Counts`). A revision is the number of a row and rows are only appended, so one that moved
  on never comes back, whatever the clock does.
- `ImpactIsReported`: wherever `locate()` places a citation, it is a line of its evidence or none.
  Citations that are not located, because the snapshot has the ref's commit, are of that line too
  unless the tree was dirty.
- `PlansBecomeReal`, `TheUnaskedIsUncited`: `RegistryInv` says which parts the latest snapshot has,
  from the last one that was committed, and that they are those of one index. The rest is about paths: a root that lies above a path is no longer than
  the root the rules give the path itself (`NoRootBelow`), so the owner with the longest root is its
  own module.
- `ComparisonIsOneStory`: no two declared elements resolve to one module, so a cell of the matrix
  has one rule; without it the list of rules and the matrix could disagree. `MeaningIsOwn`: what an
  element is shown as is the module it means and no other element means.

Comparisons and measurements.

- `ComparisonsAreMutual`: `matchSteps` goes through the candidates in one order and keeps what meets
  no rival and has no runner-up. Proved first is what that comes to: a candidate is kept exactly
  when it is not ambiguous and no rival that comes sooner is kept (`Kernel`), and two sets of which
  this holds are the same (`OneKernel`). Scores and rivals are mutual, and two rivals share a step,
  so that one position decides between them whichever answer is first. Hence a kernel, turned round,
  is the kernel of the other direction (`KernelsMirror`). An answer compared with itself has its own
  steps as candidates that nothing beats.
- `DrawingsDropNothing`: of a review. The overlay has each step of the translation itself once and
  behind them, in ascending order, the observed ones of the flow itself that were left over; since matches pair each step once, what is
  unmatched on either side is even (`SidesAreEven`), and the counts add up. The boxes are unions of
  sides, so each line finds both its ends drawn (`EdgesHaveEnds`).
- `CoverageIsMeasured`: `CoverageInv` says that a stored import is the reply to some answer, report
  and provenance, and that every such reply is right. For the latter, `MapsAsSpelled`: what
  `mapArtifactPath` makes of a name (a walk over its segments) is the files of which the name, made
  normal, is one of the ways to write them, a relation that is stated from the file's side. And
  merging lines in any order gives a line each of whose counters is the highest one (`MergeTops`).

Walks.

- `CyclesAreCircles`: Tarjan's algorithm, step by step. `WalkInv` says how files are numbered
  (`Numbered`), that stack and work list are in the order of the numbers (`InOrderSeen`), that
  nothing leads out of what was cut off (`Followings`), that a file on the work list reaches all
  that was put on the stack since (`Subtrees`), that a low link names a file of the stack that is
  reached and is no later than anything followed from below (`LowLinks`), and that what was found is
  what was cut off, whole classes of it (`Components`). The last needs all the others: when a file
  leaves whose low link is its own, all above it on the stack is reached from it and leads back to
  it, and nothing above it leads below it.
- `AnswersAreAllShown`: two walks. That of the circles passes at least one more row each time and
  finds the circle it ends in (`Sorted`, over `OnTheWay` for the rows of one walk); that of the
  forest has every row either placed or waiting or below one that waits (`Shared`), each under its
  parent with nothing but the parent's subtree in between (`Layered`). A row that were never shown
  would have parents without end, or lead into a circle of rows that are all promoted.
- `Reached` and `Above`, which these two theorems speak of, are least closed sets: they do not
  repeat the walks they are compared with.

Induction over data. The prover cannot do one, but a nonempty set of numbers has a least element
(`LeastNumber`, from the library's well-founded relations), and a least counterexample serves where
one runs over numbers: which of several hits is nearest, which row is the last of its field, how far
a number of hops leads, which candidate is the first of which two passes differ, and that the
recursive functions for hops (`SpreadsExist`), for `applyCorrections` (`BodiesApply`, `OneSolution`)
and for the walks (`RecursionExists`, `IterationExists`) are defined. `Ranking` says once that a
strict order of a finite set puts exactly one element at each place.

Assumptions, each checked by TLC where the module is run.

| assumption | says | because |
|---|---|---|
| `LockAssumption`, `RegistryAssumption` | every object has a process; requests live in the server; no file, and a file without text, are no pids | one lock object per command or request |
| `RunAssumption` | the kinds of question are disjoint, marks are no questions | they are ids of rows |
| `ConsoleAssumption` | the bounds are numbers, with room for an event | - |
| `StampsAssumption` | a file has a version up to the build's own, or one above it | a later build may have written it |
| `SubmissionAssumption` | `MaxCited` is a number | - |
| `DeclaredAssumption` | the marks for "none" are no models or authors | absent rows |
| `FreshnessAssumption` | "no hash" is no line; citations are of files | a hash is hex digits, or null |
| `AnswerAssumption` | texts, questions and "not found" are apart, the blank is no word, the questions are finite | one column names the field, or the question by its id; `HandedIn` may give any question a decision |
| `InstallAssumption` | the files are listed once, the registration among them | the plan names its paths |
| `DumpAssumption` | where a row is, those it points into are | foreign keys are enforced while rows are written |
| `IgnoreAssumption` | secrets, hashed and parsed files are files, and calls join parsed ones; a file is not a directory | the file system |
| `CallGraphAssumption` | doors, callers and callees are among finitely many symbols, none of them the node `<module>` | that id is made by `buildCallGraph` alone |
| `RegistryAssumption` of paths | a path has segments | - |
| `AnswerDiffAssumption` | steps are a list; how alike two labels are is mutual, at most 100, and 100 of a label with itself | `labelSimilarity` is made of an edit distance and a token overlap |
| `ReviewAssumption` | no step has the number that stands for none, no lane or line end the name that does; an answer's own steps come before those of its branches | absent fields; `stepsOf` |
| `CoverageAssumption` | the repository is an absolute path; a report names finitely many lines, with counts; an answer's files are not the empty path | one XML file, whose hits are parsed with `nonNegativeInteger` |
| `LineageAssumption` | finitely many rows, with dates | one table |
| `ProjectsAssumption` | finitely many imports | one index |
| `ConformanceAssumption` | the kinds of match and of rule; a finite index | enumerations of the schema |

Proving changed the models. Several decisions had been written as a `CASE` whose guards overlap (an
unhashed file with a missing entry citation is "broken" and "changed = 0" at once). TLC takes the
first that holds; in the logic any of them may be taken, so nothing could be proved. They are chains
of `IF` now, as they are in the code (`classifyFreshness`, `changeImpact`, the migrated rows of
`DumpRestore`, the walk of `RuntimeCoverage`, `diagnose` of `AgentInstall`). The work an install or
a restore has left is a set with an order, no longer a sequence that shrinks: the states are the
same, one for one. Folds over a sequence became functions of the number of steps (`matchSteps`,
`Forest`, `Circles`, `normalizeLexical`), with the step an operator of its own, and sorting became
ranking: the prover has no facts of either. `LinesAgreeWithBoxes` let a line of a plan review that
was proposed twice have any ends; that it has none that is removed holds of every line that stays or
is added, and is said now. To prove that `Spellings`, the names a file of a report may have, are
those the code accepts showed that a mapping of `.` stands for `/` (section 5), which TLC is now
given too. And two claims were too strong. A file could be a directory of another one in
`ModuleRegistry`. And the module of a regular path did not own it where the root of another one is
cut short: the code looks for the name of a module from the beginning of the path, so that
`src/modules/modules/f` has the root `src/modules`, which then owns `src/modules/g` in place of
`src`. `Regular` excludes the paths below such a root, and only those.

Only model-checked: the three properties with `~>` (`RunSettles`, `PageEndsComplete`,
`TerminalNeverParks`). Liveness under fairness is out of the prover's reach. The
six disagreements are counterexamples and have no theorem, but for `store_race`, whose other half is
`OpensAfterwardsAlone`. Every invariant and every action property of a passing run is a theorem.

## 5. Observations

Behaviours met while modelling that contradict no promise of the repository, or that are not modelled;
the models take those steps that belong to their scope.

- Runs. A note of `record_open_question` is pending between its two statements: a poll of the terminal
  between them prompts for it or, with stdin closed, cancels a healthy run. A question answered in
  the browser stays prompted at the terminal, and what is typed there overwrites. A `session.cancel`
  that throws is not retried.
- Lock. A process of another user counts as dead, because the signal to it is refused. What else two
  racing writers may leave in the file (half a pid, two of them mixed) is not modelled.
- Console. A page that was rendered before the run had a line never shows line 0 while it follows (the
  stream sends what is greater than 0), although "resumes after the last event already on it"
  (`apps/server/src/index.ts:1537-1540`, `views.ts:3386`); the reload at the end brings it.
- Submissions. `submit_flow_answer` lets an agent submit a `decision`; a list then counts the question
  as open until a person decides it, and the answer's own count does not
  (`answers/src/read.ts:97-107`). A question whose row cannot be written is swallowed
  (`session.ts:143`): the transcript has it, and nobody is asked. A requirement assessed twice in
  one submission keeps its first row and gets the second's surplus citations (`INSERT OR IGNORE` by
  seq), and both are reported as stored. A store error after `insertAnswer` leaves an observed run
  that can hand in a second answer. Step ids are not checked to be unique: a plan review then draws
  the first step of an id twice.
- Store. A partial backup is taken for a whole one. Four PRD tables are not part of dumps.
- Answers. A correction stamped by a clock that was set back is not served. A declared model that
  returns to an earlier one keeps its first author. Verification hashes a file and reads it again:
  an edit in between is vouched for until the next change. An unhashed file with a missing citation
  counts as fresh. The drift of the whole tree is cached for a minute. The lines a dirty
  snapshot cites are read as those of its commit (`diff-impact.ts:376`). A removed line beginning with
  `-- ` is taken for a file name of a diff. A self-linked answer lists its children as its siblings.
- Index. A snapshot whose process died is the latest one. The name of a module is looked for from the
  beginning of its path: `src/modules/m/f` has the root `src/m`, which is above no file. Two roots can
  share a module id, and a module claimed by two declared elements is also reported as observed only.
  The call graph stops after four rounds, where its comment speaks of a fixpoint; a file's own symbol
  is added after the traversal. Symbols of a secret
  path, and of a file whose language only the provider knows (`.ps1`), are ingested although it is
  never hashed. After an index that died the queue suggests a saved plan's module as unreached though
  a live answer cites it, until the next index (`question-queue.ts:416`, `451`).
- Plans. A planned file of a module that is not in the registry is drawn as part of an existing one
  whose root contains it (`plan.ts:196-206`), beside `plan-review.ts:25-26`: "*Planned is never drawn
  as indexed.*" A step of the observed flow that the matcher pairs with a step of a branch of the
  translation is neither drawn nor counted (`answer-diff.ts:195-198`, `plan-review.ts:517`,
  `546-548`), beside the words of `plan-review.ts:29-31` that nothing is dropped: the pairing is not
  `onlyFrom`, and branches are not drawn. Of two proposed module edges with one key the second is drawn as unchanged.
- Documents. A write of the sibling that fails half-way leaves it (`write.ts:167-172` takes back the
  claim alone). When two writers share the sibling, the first to rename may put the other one's text
  in place and record its own proposal as applied (`prd/src/index.ts:852-892`). A late registration overtakes a newer one. Applying a proposal over a document that has
  meanwhile returned to its base answers with success. A writer killed inside a create leaves a claim
  that stops later creates. A rollback stops at the first removal that throws. Hooks are recognised
  by their command, and a user's other hooks in the same group go with them.
- Coverage. The execution summary counts the hits of stale lines too, beside the words that say so.
  `--map .=prefix` matches absolute paths and not relative ones: `.` and `/` both have no text. The
  tree is measured before the tests run; what is edited while they run is not noticed.
- Read server. Offset cursors skip a row when one before it leaves the list between two pages.

## 6. Not modelled, and what is left

Not modelled: rendering (`views.ts`, diagrams, exporters, terminal output) and the mockups, which turn
data into text; the read server, `get_*` tools and list pages, which only read; providers (a request
to an external program and its reply); plan sources and the PRD parser, which turn one text into
records; workspace initialisation, one sequential pass over files; metrics that count; schemas and
contracts. `components` in `PROJECT.json` gives the status of every part.

Left to do, the most important first:

1. `veriflow coverage run`, whose command may fail, leave an old report, or run over files that change.
2. The classification and ranking of a question (`packages/ask`), and the structural validation of a
   flow answer as a predicate with a reference definition.
3. An abstract register for saves by compare-and-set that `AnswerRecord` and `DeclaredArchitecture`
   both implement.
