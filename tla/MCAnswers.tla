----------------------------- MODULE MCAnswers ------------------------------
(***************************************************************************)
(* What is kept about a project and what is read from it: corrections of   *)
(* an answer, a declared architecture, verification against files that     *)
(* change, the impact of a change, the comparison of two answers, the      *)
(* module registry with what is read from it, the forest of answers, the   *)
(* comparison with the declared architecture, and import cycles.  A        *)
(* behaviour is about one of these; the variables of the others keep their *)
(* first values.                                                           *)
(***************************************************************************)
EXTENDS AnswerRecord, DeclaredArchitecture, ChangeImpact, PlanReview,
        ModuleRegistry, AnswerLineage, Conformance, ImportCycles, TLC

CONSTANTS f, g, was, names, other, q2, A

VARIABLE story

\* Bound: writes of files and answers together, in the story of the modules.
MaxTold == 3

\* One question was handed in decided.
MCHandedIn == [q \in Questions |-> IF q = q2 THEN A ELSE Blank]

MCOriginals == {<<was, other>>, <<was, names>>}

Cite(file, line, symbol, entry) ==
  [path |-> file, line |-> line, symbol |-> symbol, entry |-> entry]

MCCitable ==
  {Cite(f, 1, TRUE, TRUE), Cite(f, 2, FALSE, FALSE),
   Cite(g, 1, TRUE, FALSE), Cite(g, 0, FALSE, TRUE)}

Lane(n) == [module |-> "none", kind |-> "person", name |-> n]

PlannedLane == [module |-> "m", kind |-> "module", name |-> "x"]

Step(id, from, phase, label) ==
  [id |-> id, from |-> from, to |-> Lane("y"), phase |-> phase,
   label |-> label, kind |-> "call"]

MCSteps ==
  {Step(1, Lane("x"), 1, "p"), Step(2, Lane("x"), 1, "p"),
   Step(2, PlannedLane, 1, "q"), Step(3, Lane("x"), 2, "q")}

MCStart == [steps |-> <<Step(1, Lane("x"), 1, "p")>>, main |-> 1]

\* Up to three steps, or up to two of which the last one is a branch's.
MCComparable ==
  {[steps |-> s, main |-> Len(s)] : s \in UNION {[1..n -> MCSteps] : n \in 1..3}} \cup
  {[steps |-> s, main |-> Len(s) - 1] : s \in UNION {[1..n -> MCSteps] : n \in 1..2}}

\* A lane of one participant, whatever it is, and the contracts it may have.
MCSketches ==
  LET Participant(kind, module) == <<[id |-> "l", kind |-> kind, module |-> module]>>
      Contract(from, to) == [from |-> from, to |-> to, what |-> "call"]
  IN [lanes : {<<>>, Participant("person", "none"), Participant("module", "none"),
               Participant("module", "pay"), Participant("service", "new")},
      edges : {<<>>, <<Contract("l", "pay")>>, <<Contract("pay", "new")>>,
               <<Contract("l", "new")>>,
               <<Contract("pay", "new"), Contract("l", "new")>>}]

MCModuleNamed ==
  [r1 |-> "pay", r2 |-> "new", r3 |-> "none"]

Linked == [r \in 1..3 |-> IF r = 2 THEN {} ELSE {"r1"}]
Sketched == CHOOSE s \in MCSketches : s.lanes = <<>> /\ s.edges = <<>>
FromOneStep == <<MCStart, MCStart>>

\* Every two flows of five steps together, or every two sketches, or every way
\* to link.
ComparisonInit ==
  /\ \/ /\ compared \in {c \in Comparable \X Comparable :
                          Len(c[1].steps) + Len(c[2].steps) <= 5}
        /\ sketch = <<Sketched, Sketched>>
        /\ stored = "translated" /\ links = Linked
     \/ /\ compared = FromOneStep
        /\ sketch \in Sketches \X Sketches
        /\ stored \in {"translated", "flow", "nothing"} /\ links = Linked
     \/ /\ compared = FromOneStep /\ sketch = <<Sketched, Sketched>>
        /\ stored = "translated"
        /\ links \in [1..3 -> SUBSET {"r1", "r3"}]
  /\ ReviewInit

MCAlike(l, m) == IF l = m THEN 100 ELSE 65

\* Two roots with one id, and paths of three rules.
MCPaths ==
  {<<"src", "modules", "pay", "api", "a">>, <<"src", "main">>,
   <<"back", "Features", "Img", "x">>, <<"back", "features", "Img", "y">>}

MCWordsOf(s) == IF s = "Features" THEN <<"features">> ELSE <<s>>

\* Every graph of three files, and those of four with a circle and one import
\* more at most.
MCProjects ==
  LET four == {p \in (1..4) \X (1..4) : p[1] # p[2]}
  IN {p \in SUBSET four : Cardinality(p) <= 5} \cup SUBSET ((1..3) \X (1..3))

By(how, what) == [by |-> how, of |-> what]

\* A module under another one's root, and a path that owns both.
MCIndexes ==
  LET two == ("pay" :> {<<"src", "pay">>}) @@ ("lib" :> {<<"lib">>})
  IN {two, two @@ ("api" :> {<<"src", "pay", "api">>})}

MCMatches ==
  {NoMatch, By("module", "pay"), By("module", "api"), By("path", <<"src">>),
   By("path", <<"src", "pay", "api">>), By("path", <<"lib">>)}

MCRuleSets ==
  LET written == [from : {"a", "b"}, to : {"c"},
                  expectation : {"allowed", "forbidden", "required"}]
  IN {rs \in SUBSET written : Cardinality(rs) <= 2}

MCTraffics ==
  SUBSET {<<"pay", "lib">>, <<"lib", "pay">>} \cup {{<<"api", "lib">>}, NoTraffic}

-----------------------------------------------------------------------------

Stories ==
  {"corrections", "declared", "verification", "impact", "comparison", "modules",
   "lineage", "conformance", "cycles"}

\* The first values of a story that is not told.
First(name, told, first) == IF story = name THEN told ELSE first

Init ==
  /\ story \in Stories
  /\ AnswerInit
  /\ DeclaredInit
  /\ First("verification", FreshInit,
           FreshInit /\ tree = [x \in Files |-> <<was, names>>] /\ recorded = tree)
  /\ First("impact", ImpactInit({t \in Texts : Len(t) = MaxLength}, Texts),
           change = [kind |-> "none"] /\ impact = "not asked")
  /\ First("comparison", ComparisonInit,
           /\ compared = <<>> /\ diff = <<NotDiffed, NotDiffed>>
           /\ sketch = <<>> /\ stored = "nothing" /\ links = Linked
           /\ review = NotDrawnYet)
  /\ RegistryInit
  /\ First("lineage", LineageInit,
           /\ parents = [r \in RowIds |-> 0] /\ createdAt = parents
           /\ lineage = NotDrawn)
  /\ First("conformance", ConformanceInit,
           /\ match = [e \in Elements |-> NoMatch] /\ rules = {}
           /\ modules = <<>> /\ traffic = NoTraffic
           /\ comparison = NotCompared)
  /\ First("cycles", CyclesInit, imports = {} /\ CyclesInit)

vars ==
  <<answerVars, declaredVars, freshVars, impactVars, reviewVars, registryVars,
    lineageVars, conformanceVars, cycleVars>>

Next ==
  /\ UNCHANGED story
  /\ \/ /\ story = "corrections" /\ AnswerNext
        /\ UNCHANGED <<declaredVars, freshVars, impactVars, reviewVars>>
        /\ UNCHANGED <<registryVars, lineageVars, conformanceVars, cycleVars>>
     \/ /\ story = "declared" /\ DeclaredNext
        /\ UNCHANGED <<answerVars, freshVars, impactVars, reviewVars>>
        /\ UNCHANGED <<registryVars, lineageVars, conformanceVars, cycleVars>>
     \/ /\ story = "verification" /\ FreshNext
        /\ UNCHANGED <<answerVars, declaredVars, impactVars, reviewVars>>
        /\ UNCHANGED <<registryVars, lineageVars, conformanceVars, cycleVars>>
     \/ /\ story = "impact" /\ AskImpact
        /\ UNCHANGED <<answerVars, declaredVars, freshVars, reviewVars>>
        /\ UNCHANGED <<registryVars, lineageVars, conformanceVars, cycleVars>>
     \/ /\ story = "comparison" /\ ReviewNext
        /\ UNCHANGED <<answerVars, declaredVars, freshVars, impactVars>>
        /\ UNCHANGED <<registryVars, lineageVars, conformanceVars, cycleVars>>
     \/ /\ story = "modules" /\ RegistryNext
        /\ writes' + Cardinality(answers') <= MaxTold
        /\ UNCHANGED <<answerVars, declaredVars, freshVars, impactVars, reviewVars>>
        /\ UNCHANGED <<lineageVars, conformanceVars, cycleVars>>
     \/ /\ story = "lineage" /\ LineageNext
        /\ UNCHANGED <<answerVars, declaredVars, freshVars, impactVars, reviewVars>>
        /\ UNCHANGED <<registryVars, conformanceVars, cycleVars>>
     \/ /\ story = "conformance" /\ ConformanceNext
        /\ UNCHANGED <<answerVars, declaredVars, freshVars, impactVars, reviewVars>>
        /\ UNCHANGED <<registryVars, lineageVars, cycleVars>>
     \/ /\ story = "cycles" /\ CyclesNext
        /\ UNCHANGED <<answerVars, declaredVars, freshVars, impactVars, reviewVars>>
        /\ UNCHANGED <<registryVars, lineageVars, conformanceVars>>

\* People are alike.
Symmetry == Permutations(People)

Spec == Init /\ [][Next]_<<story, vars>>
=============================================================================
