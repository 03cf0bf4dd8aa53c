--------------------------- MODULE RuntimeCoverage ---------------------------
(***************************************************************************)
(* Imported coverage of the lines an answer cites: importRuntimeCoverage() *)
(* (packages/answers/src/runtime-coverage.ts) reads what a test run        *)
(* reported, buildRuntimeCoverageRun() maps it to the answer's snapshot    *)
(* (packages/metrics/src/runtime-coverage.ts), and the store keeps one     *)
(* immutable run per content.                                              *)
(*                                                                         *)
(* A path is a sequence of segments that is absolute or not; drives, UNC   *)
(* names and the letter case of Windows are left out.  A line without      *)
(* branches reports none of none.  The fingerprint of an artifact stands   *)
(* for its content, and is the artifact here.                              *)
(***************************************************************************)
EXTENDS Naturals, Sequences, FiniteSets, SequencesExt, FiniteSetsExt

CONSTANTS
  Measured,    \* answers: [commit, dirty, paths : snapshot, cites : <<path, line>>]
  Artifacts,   \* [roots : paths, lines : {[path, line, hits, covered, total]}]
  Reruns,      \* artifacts of a later test run
  Provenances, \* [named, commit, dirty, complete, roots : sequence of paths,
               \* mappings : sequence of [from : path, to : segments]]
  Repository,  \* where the snapshot was taken
  NoCommit,
  MaxImports

Paths == [absolute : BOOLEAN, at : Seq(STRING)]
Files == Seq(STRING) \ {<<>>}

ASSUME CoverageAssumption ==
  /\ Repository \in Paths /\ Repository.absolute
  /\ \A a \in Measured : a.paths \subseteq Files /\ IsFiniteSet(a.cites)
  /\ \A report \in Artifacts \cup Reruns :
       /\ report.roots \subseteq Paths /\ IsFiniteSet(report.lines)
       /\ \A l \in report.lines : /\ l.path \in Paths
                                  /\ {l.hits, l.covered, l.total} \subseteq Nat
  /\ \A given \in Provenances :
       /\ given.roots \in Seq(Paths)
       /\ given.mappings \in Seq([from : Paths, to : Seq(STRING)])

VARIABLES
  artifact,      \* the file a test run left behind
  coverageRuns,  \* runtime_coverage_runs
  imported       \* replies, each with what was handed in

coverageVars == <<artifact, coverageRuns, imported>>

CoverageInit == artifact \in Artifacts /\ coverageRuns = {} /\ imported = <<>>

-----------------------------------------------------------------------------
(* Paths.  What may fail to be a path is a set of at most one.             *)

\* "." and empty segments go, ".." takes one back; none below the root.
Onto(walk, segment) ==
  IF ~walk.safe \/ segment = "." THEN walk
  ELSE IF segment # ".." THEN [walk EXCEPT !.at = Append(@, segment)]
  ELSE IF walk.at = <<>> THEN [walk EXCEPT !.safe = FALSE]
  ELSE [walk EXCEPT !.at = Front(@)]

normalizeLexical(path) ==
  LET walked[n \in 0..Len(path.at)] ==
        IF n = 0 THEN [safe |-> TRUE, at |-> <<>>] ELSE Onto(walked[n - 1], path.at[n])
      end == walked[Len(path.at)]
  IN IF end.safe THEN {[absolute |-> path.absolute, at |-> end.at]} ELSE {}

\* Both "/" and "." are a root of no text, and "/" is put behind it.
FromSlash(path) == path.absolute \/ path.at = <<>>

\* What follows a beginning.
After(beginning, at) ==
  IF IsPrefix(beginning, at) THEN {SubSeq(at, Len(beginning) + 1, Len(at))} ELSE {}

relativeWithin(root, path) ==
  IF FromSlash(root) = FromSlash(path) THEN After(root.at, path.at) ELSE {}

InRepository(path) ==
  IF path.absolute THEN relativeWithin(Repository, path) ELSE {path.at}

\* The empty path names nothing.
Names(path) == path.absolute \/ path.at # <<>>

\* Slip: a file that is known by the end of its path is taken for it.
mapBySuffix(path, roots, mappings, paths) ==
  {p \in paths : IsSuffix(<<Last(path.at)>>, p)}

\* mapArtifactPath(): the files of the snapshot that the path may stand for.
Mapped(raw, mappings) ==
  UNION {UNION {{m.to \o s : s \in relativeWithin(root, raw)} :
                  root \in normalizeLexical(m.from)} : m \in mappings}

Lexical(written) == UNION {normalizeLexical(w) : w \in written}

Rooted(raw, roots) ==
  IF raw.absolute THEN {raw}
  ELSE {[absolute |-> root.absolute, at |-> root.at \o raw.at] : root \in Lexical(roots)}

mapArtifactPath(path, roots, mappings, paths) ==
  paths \cap
    UNION {InRepository(raw) \cup Mapped(raw, mappings)
             \cup UNION {InRepository(joined) : joined \in Rooted(raw, roots)} :
             raw \in {r \in normalizeLexical(path) : Names(r)}}

-----------------------------------------------------------------------------
(* One run.                                                                *)

compareTrees(answer, from) ==
  /\ NoCommit \notin {answer.commit, from.commit}
  /\ ~answer.dirty /\ ~from.dirty
  /\ answer.commit = from.commit

mergeLine(reports) ==
  [hits |-> Max({r.hits : r \in reports}),
   covered |-> Max({r.covered : r \in reports}),
   total |-> Max({r.total : r \in reports})]

\* A file of several classes may report a line several times; a line with
\* more covered branches than branches is refused, and the report with it.
parseCoberturaXml(report) ==
  LET Of(f) == {l \in report.lines : l.path = f}
  IN IF \E l \in report.lines : l.covered > l.total THEN {}
     ELSE {[roots |-> report.roots,
            files |-> [f \in {l.path : l \in report.lines} |->
                         [n \in {l.line : l \in Of(f)} |->
                            mergeLine({l \in Of(f) : l.line = n})]]]}

\* What the files that map to a path alone report of a line, and the best of it.
Reported(files, candidates, key) ==
  {files[f][key[2]] :
     f \in {g \in DOMAIN files : candidates[g] = {key[1]} /\ key[2] \in DOMAIN files[g]}}

Executed(line) == line.hits > 0 /\ line.covered = line.total

\* The state of a cited line: the trees are compared first.
StateOf(current, reports) ==
  IF ~current THEN "stale"
  ELSE IF reports = {} THEN "missing-source"
  ELSE IF Executed(mergeLine(reports)) THEN "covered" ELSE "uncovered"

ElsewhereState(current, candidates) ==
  IF ~current THEN "stale"
  ELSE IF Cardinality(candidates) = 1 THEN "out-of-scope" ELSE "missing-source"

EvidenceStates == {"covered", "uncovered", "stale", "missing-source", "out-of-scope"}

\* The artifact's lines that no cited line stands for.
Elsewhere(files, candidates, cites) ==
  {l \in UNION {{f} \X DOMAIN files[f] : f \in DOMAIN files} :
     \A p \in candidates[l[1]] : candidates[l[1]] = {p} => <<p, l[2]>> \notin cites}

totalsOf(citations, elsewhere) ==
  [s \in EvidenceStates |-> Cardinality({c \in citations : c.state = s})
                              + Cardinality({e \in elsewhere : e.state = s})]

buildRuntimeCoverageRun(answer, report, from) ==
  LET current == compareTrees(answer, from)
      candidates ==
        [f \in DOMAIN report.files |->
           mapArtifactPath(f, from.roots \cup report.roots, from.mappings, answer.paths)]
      Reports(key) == Reported(report.files, candidates, key)
      citations ==
        {[at |-> key, state |-> StateOf(current, Reports(key)), reports |-> Reports(key)] :
           key \in answer.cites}
      elsewhere ==
        {[at |-> l, state |-> ElsewhereState(current, candidates[l[1]])] :
           l \in Elsewhere(report.files, candidates, answer.cites)}
  IN [current |-> current, candidates |-> candidates,
      citations |-> citations, elsewhere |-> elsewhere,
      totals |-> totalsOf(citations, elsewhere)]

\* summarizeRuntimeCoverageExecution(): the raw counters, of stale lines too.
execution(run) ==
  LET reported == {c \in run.citations : c.reports # {}}
      executed == {c \in reported : Executed(mergeLine(c.reports))}
  IN [covered |-> Cardinality(executed),
      uncovered |-> Cardinality(reported \ executed),
      unreported |-> Cardinality(run.citations \ reported)]

\* Roots and mappings are sorted: the order they are given in makes no difference.
validateRuntimeCoverageProvenance(given) ==
  [named |-> given.named, commit |-> given.commit, dirty |-> given.dirty,
   complete |-> given.complete, roots |-> ToSet(given.roots),
   mappings |-> ToSet(given.mappings)]

\* Slip: who measured, and from where, is not part of what is hashed.
runIdOfContent(answer, from) == <<answer, artifact>>

runId(answer, from) == <<answer, artifact, from>>

-----------------------------------------------------------------------------

\* INSERT OR IGNORE, and the row that is there then.
insertRuntimeCoverageRun(built) ==
  LET rows == {r \in coverageRuns : r.id = built.id}
  IN IF rows = {} THEN built ELSE CHOOSE r \in rows : TRUE

\* importRuntimeCoverage()
Import(answer, given) ==
  LET from == validateRuntimeCoverageProvenance(given)
      Row(parsed) ==
        insertRuntimeCoverageRun(
          [id |-> runId(answer, from), importedAt |-> Len(imported),
           run |-> buildRuntimeCoverageRun(answer, parsed, from)])
  IN /\ Len(imported) < MaxImports
     /\ Cardinality(given.named) = 1
     /\ \E parsed \in parseCoberturaXml(artifact) :
          /\ coverageRuns' = coverageRuns \cup {Row(parsed)}
          /\ imported' = Append(imported, [answer |-> answer, artifact |-> artifact,
                                           from |-> from, run |-> Row(parsed).run])
     /\ UNCHANGED artifact

RunTests ==
  /\ artifact' \in Reruns \ {artifact}
  /\ UNCHANGED <<coverageRuns, imported>>

CoverageNext ==
  \/ \E answer \in Measured, given \in Provenances : Import(answer, given)
  \/ RunTests

CoverageSpec == CoverageInit /\ [][CoverageNext]_coverageVars

-----------------------------------------------------------------------------

\* The ways to write a file of the repository, seen from the file: from where it
\* is, below what is mapped to a directory of it ("." stands for "/" there), or
\* below one of the roots.
FromHere(path) ==
  {[absolute |-> FALSE, at |-> path], [absolute |-> TRUE, at |-> Repository.at \o path]}

BelowMapped(path, m) ==
  UNION {{[absolute |-> FromSlash(root), at |-> root.at \o s] : s \in After(m.to, path)} :
           root \in normalizeLexical(m.from)}

BelowRoot(path, root) ==
  UNION {{[absolute |-> FALSE, at |-> s] : s \in After(root.at, h.at)} :
           h \in {f \in FromHere(path) : f.absolute = root.absolute}}

Spellings(path, roots, mappings) ==
  FromHere(path)
    \cup (UNION {BelowMapped(path, m) : m \in mappings})
    \cup (UNION {BelowRoot(path, root) : root \in Lexical(roots)})

\* What is reported of a line under names that can stand for its file alone.
Measurements(i, key) ==
  LET roots == i.from.roots \cup i.artifact.roots
      StandsFor(f) ==
        {p \in i.answer.paths :
           \E raw \in normalizeLexical(f) :
             Names(raw) /\ raw \in Spellings(p, roots, i.from.mappings)}
  IN {l \in i.artifact.lines : l.line = key[2] /\ StandsFor(l.path) = {key[1]}}

\* What an import says of its lines is what was measured.
IsMeasured(i) ==
  LET run == i.run
      same == i.answer.commit = i.from.commit /\ i.from.commit # NoCommit
                /\ ~i.answer.dirty /\ ~i.from.dirty
      Ran(facts) == /\ \E f \in facts : f.hits > 0
                    /\ \E f \in facts :
                         f.covered = f.total /\ \A g \in facts : g.total <= f.total
  IN /\ \A c \in run.citations :
          LET facts == Measurements(i, c.at)
          IN /\ c.state = "covered" <=> same /\ Ran(facts)
             /\ c.state = "uncovered" <=> same /\ facts # {} /\ ~Ran(facts)
     /\ {c.at : c \in run.citations} = i.answer.cites
     /\ Cardinality(run.citations) = Cardinality(i.answer.cites)
     /\ same =>
          /\ execution(run).covered = run.totals["covered"]
          /\ execution(run).uncovered = run.totals["uncovered"]
     /\ ~same =>
          run.totals["stale"] = Cardinality(run.citations) + Cardinality(run.elsewhere)

\* A cited line is covered or uncovered only by what was measured on the same
\* clean commit, under names that can be no other file, and all that was
\* measured so speaks; no line is counted twice or left out; and an import is
\* answered with its own run, also when the same report was imported before.
NothingMeasuredIsGuessed == \A k \in DOMAIN imported : IsMeasured(imported[k])
=============================================================================
