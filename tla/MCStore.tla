------------------------------ MODULE MCStore ------------------------------
(***************************************************************************)
(* The database file: opened by two processes at any version, or restored  *)
(* from a dump; and what is put into it: the evidence the ignore rules     *)
(* leave, the call graph, and the coverage of a test run.  A behaviour is  *)
(* about one of the five; the variables of the others keep their first     *)
(* values.                                                                 *)
(***************************************************************************)
EXTENDS StoreMigration, DumpRestore, CallGraph, IgnoreRules, RuntimeCoverage

VARIABLE story

MCSources ==
  { AllTables,
    {"projects", "snapshots", "file_hashes", "questions", "runs", "answers",
     "run_events", "answer_citations"},
    {"projects", "snapshots", "plans", "answers", "plan_proposals"},
    {"projects", "prd_documents", "prd_update_proposals", "prd_edits"} }

\* Two files, three functions and a file's own symbol.
MCFunctions == {<<"f", "a">>, <<"f", "b">>, <<"g", "c">>}
MCSymbols == MCFunctions \cup {<<"f", "file">>}

MCSites ==
  {s \in [from : MCSymbols, to : MCFunctions, how : {"call", "callback"}] :
     s.from # s.to}

MCSiteSets == UNION {kSubset(k, MCSites) : k \in 0..3}
MCDoorSets == SUBSET {<<"f", "a">>, <<"f", "file">>}

\* a/x, a/b/x, a/b/p (a script only the provider reads), b (a document of a
\* directory's name, which only the walk reads) and a secret.
MCTreeFiles ==
  {<<"a", "x">>, <<"a", "b", "x">>, <<"a", "b", "p">>, <<"b">>, <<"a", "s">>}
MCSecrets == {<<"a", "s">>}
MCIndexable == MCTreeFiles \ {<<"a", "b", "p">>}
MCParsed == MCTreeFiles \ {<<"b">>}
MCCallSites ==
  {<<<<"a", "x">>, <<"a", "b", "x">>>>, <<<<"a", "b", "p">>, <<"a", "b", "p">>>>}

Pattern(segments, anchored) ==
  [segments : {segments}, anchored : {anchored},
   directoryOnly : BOOLEAN, negated : BOOLEAN]

MCWrittenRules ==
  UNION {Pattern(<<n>>, FALSE) : n \in {"a", "b", "x", "*"}}
    \cup Pattern(<<"b">>, TRUE) \cup Pattern(<<"a", "b">>, TRUE)
    \cup Pattern(<<"a", "*">>, TRUE)

MCBuiltIn ==
  <<[segments |-> <<"b">>, anchored |-> FALSE, directoryOnly |-> TRUE,
     negated |-> FALSE]>>

\* Paths: of the repository, and of the machine that ran the tests.
Rel(at) == [absolute |-> FALSE, at |-> at]
Abs(at) == [absolute |-> TRUE, at |-> at]
MCRepository == Abs(<<"r">>)
MCPaths == {<<"a", "x">>, <<"x">>, <<"b", "x">>}

MCMeasured ==
  {[commit |-> c, dirty |-> d, paths |-> MCPaths,
    cites |-> {<<<<"a", "x">>, 1>>, <<<<"a", "x">>, 2>>, <<<<"x">>, 1>>}] :
     <<c, d>> \in {<<"c1", FALSE>>, <<"c1", TRUE>>, <<NoCommit, FALSE>>}}

Line(path, n, counted) ==
  [path |-> path, line |-> n, hits |-> counted[1], covered |-> counted[2],
   total |-> counted[3]]

MCCounted == {<<0, 0, 0>>, <<1, 0, 0>>, <<1, 1, 2>>, <<0, 2, 2>>}

\* Line 1 of one file, or of two names that may be the same; line 3 is cited nowhere.
MCFileNames ==
  {{Rel(<<"a", "x">>)}, {Rel(<<"x">>)}, {Rel(<<"..", "x">>)}, {Abs(<<"w", "x">>)},
   {Rel(<<"x">>), Abs(<<"r", "a", "x">>)},
   {Rel(<<"a", "x">>), Rel(<<".", "b", "..", "a", "x">>)},
   {Rel(<<"a", "x">>), Abs(<<"w", "x">>)}}

MCLines ==
  UNION {{{Line(f, 1, counted[f]) : f \in names}
            \cup {Line(f, 3, <<1, 0, 0>>) : f \in names} :
            counted \in [names -> MCCounted]} :
         names \in MCFileNames}

\* Two classes of one file, and a report that contradicts itself.
MCArtifacts ==
  [roots : {{}, {Abs(<<"r", "a">>), Abs(<<"q">>)}}, lines : MCLines]
    \cup [roots : {{}},
          lines : {{Line(Rel(<<"a", "x">>), 1, <<1, 1, 2>>),
                    Line(Rel(<<"a", "x">>), 1, <<0, 2, 2>>)},
                   {Line(Rel(<<"a", "x">>), 1, <<1, 3, 2>>)}}]

MCReruns == {[roots |-> {}, lines |-> {Line(Rel(<<"a", "x">>), 1, <<0, 0, 0>>)}]}

MCProvenances ==
  LET measured == [named |-> {"label"}, commit |-> "c1", dirty |-> FALSE,
                   complete |-> TRUE, roots |-> <<>>, mappings |-> <<>>]
      toA == [from |-> Abs(<<"w">>), to |-> <<"a">>]
      toB == [from |-> Abs(<<"w">>), to |-> <<"b">>]
  IN {measured,
      [measured EXCEPT !.named = {}],
      [measured EXCEPT !.commit = "c2"],
      [measured EXCEPT !.commit = NoCommit],
      [measured EXCEPT !.dirty = TRUE],
      [measured EXCEPT !.roots = <<Rel(<<"a">>), Rel(<<"b">>)>>],
      [measured EXCEPT !.roots = <<Rel(<<".">>)>>],
      [measured EXCEPT !.mappings = <<toA>>],
      [measured EXCEPT !.mappings = <<[from |-> Rel(<<".">>), to |-> <<>>]>>],
      [measured EXCEPT !.mappings = <<toA, toB>>]}

Stories == {"opening", "restoring", "calling", "ignoring", "measuring"}

\* What the stories that are not told start from.
NotOpening == stamp = SchemaVersion /\ facts = {}
NotCalling == sites = {} /\ doors = {}
NotIgnoring == rules = MCBuiltIn
NotMeasuring == artifact = CHOOSE a \in MCArtifacts : TRUE

Init ==
  /\ story \in Stories
  /\ (story = "opening" \/ NotOpening) /\ StoreInit
  /\ DumpInit
  /\ (story = "calling" \/ NotCalling) /\ CallsInit
  /\ (story = "ignoring" \/ NotIgnoring) /\ IgnoreInit
  /\ (story = "measuring" \/ NotMeasuring) /\ CoverageInit

Next ==
  \/ /\ story = "opening" /\ StoreNext
     /\ UNCHANGED <<story, dumpVars, callVars, ignoreVars, coverageVars>>
  \/ /\ story = "restoring" /\ DumpNext
     /\ UNCHANGED <<story, storeVars, callVars, ignoreVars, coverageVars>>
  \/ /\ story = "calling" /\ CallsNext
     /\ UNCHANGED <<story, storeVars, dumpVars, ignoreVars, coverageVars>>
  \/ /\ story = "ignoring" /\ IgnoreNext
     /\ UNCHANGED <<story, storeVars, dumpVars, callVars, coverageVars>>
  \/ /\ story = "measuring" /\ CoverageNext
     /\ UNCHANGED <<story, storeVars, dumpVars, callVars, ignoreVars>>

Spec ==
  Init
  /\ [][Next]_<<story, storeVars, dumpVars, callVars, ignoreVars, coverageVars>>
=============================================================================
