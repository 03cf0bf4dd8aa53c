----------------------------- MODULE PlanReview -----------------------------
(***************************************************************************)
(* One saved plan drawn against the architecture: buildPlanReview()        *)
(* (packages/answers/src/plan-review.ts).  The flow layer lays the         *)
(* plan's translation over the observed flow, as AnswerDiff pairs their    *)
(* steps; the module layer draws the modules both answers and the plan     *)
(* name, and the contracts between them; every claim of the plan lists the *)
(* steps it supports.                                                      *)
(*                                                                         *)
(* compared[1] is the observed flow and compared[2] the translation.  The  *)
(* matcher sees the steps of a flow and of its branches, in that order; of *)
(* an answer the first a.main ones are its own, and they are drawn.        *)
(* Labels, citations and the sentences about what is left out are not      *)
(* modelled.                                                               *)
(***************************************************************************)
EXTENDS AnswerDiff

CONSTANTS
  Sketches,     \* [lanes : sequence of [id, kind, module], edges : sequence of
                \* [from, to, what]]; an edge ends at a lane or at a module
  RegistryIds,  \* the modules of the plan's snapshot
  ModuleNamed   \* reference of the plan -> the module it names, or "none"

VARIABLES
  sketch,  \* lanes and module edges of the two answers
  stored,  \* "translated", "flow" (one the claims land in), or "nothing"
  links,   \* step of the translation -> the plan's references behind it
  review   \* what is drawn

reviewVars == <<diffVars, sketch, stored, links, review>>

NotDrawnYet == [layer |-> "not asked"]
References == DOMAIN ModuleNamed
Compared == stored = "translated"

-----------------------------------------------------------------------------
(* The flow layer.                                                         *)

Ids(steps) == {steps[i].id : i \in DOMAIN steps}

\* No step has the number that stands for no step, and nothing is called "none".
ASSUME ReviewAssumption ==
  /\ \A a \in Comparable : 0 \notin Ids(a.steps)
  /\ \A s \in Sketches :
       /\ s.lanes \in Seq(ToSet(s.lanes)) /\ s.edges \in Seq(ToSet(s.edges))
       /\ \A i \in DOMAIN s.lanes : s.lanes[i].id # "none"
       /\ \A i \in DOMAIN s.edges : "none" \notin {s.edges[i].from, s.edges[i].to}
  /\ \A a \in Comparable : a.main \in 0..Len(a.steps)

observedSteps == compared[1].steps
proposedSteps == compared[2].steps

\* Where the steps of the answer itself are, those of its branches left out.
mainPlaces(answer) == 1..answer.main

\* matchByProposal: the last match whose translated step has this id.
matchOf(d, id) ==
  LET mine == {m \in d.matched : proposedSteps[m[1][2]].id = id}
  IN {m \in mine : \A n \in mine : m[1][1] >= n[1][1]}

\* A step of the translation, as it is drawn; 0 is no step.
ProposedStep(d, step) ==
  LET match == matchOf(d, step.id)
  IN [proposal |-> step.id,
      observed |-> IF match = {} THEN 0
                   ELSE observedSteps[(CHOOSE m \in match : TRUE)[1][1]].id,
      change |-> IF match = {} THEN "added"
                 ELSE IF \E m \in match : m[2] # {} THEN "moved" ELSE "unchanged",
      refs |-> links[step.id]]

ObservedStep(step, change) ==
  [proposal |-> 0, observed |-> step.id, change |-> change, refs |-> {}]

\* Slip: the observed steps that the translation does not restate are left out.
overlayOfProposal(d) ==
  [i \in mainPlaces(compared[2]) |-> ProposedStep(d, proposedSteps[i])]

\* The places of a set, the first one first.
Ascending(places) ==
  [k \in 1..Cardinality(places) |->
     CHOOSE i \in places : Cardinality({j \in places : j < i}) = k - 1]

\* The unpaired observed steps, but for those whose id only a branch has.
removedPlaces(d) ==
  {i \in d.onlyFrom :
     \E j \in mainPlaces(compared[1]) : observedSteps[j].id = observedSteps[i].id}

overlay(d) ==
  [i \in mainPlaces(compared[2]) |-> ProposedStep(d, proposedSteps[i])] \o
  [k \in 1..Cardinality(removedPlaces(d)) |->
     ObservedStep(observedSteps[Ascending(removedPlaces(d))[k]], "removed")]

flowLayer ==
  CASE stored = "nothing" -> <<>>
    [] stored = "flow" -> [j \in mainPlaces(compared[1]) |->
                           ObservedStep(observedSteps[j], "unknown")]
    [] stored = "translated" -> overlay(diffAnswers(compared[1], compared[2]))

Changes == {"added", "removed", "moved", "unchanged", "unknown"}

\* What a drawn step is counted as.
CountsAs(step, what) ==
  \/ what = step.change
  \/ what = "unmatched" /\ (step.proposal = 0 \/ step.observed = 0)
  \/ what = "unanchored" /\ step.proposal # 0 /\ step.refs = {}
  \/ what = "linked" /\ step.refs # {}

counts(steps) ==
  [what \in Changes \cup {"unmatched", "unanchored", "linked"} |->
     Cardinality({i \in DOMAIN steps : CountsAs(steps[i], what)})]

-----------------------------------------------------------------------------
(* The module layer.                                                       *)

Box(id, state) == [id |-> id, state |-> state]

\* A registry id names a module, a lane id a participant; a participant that a
\* module backs is that module's box.
endpoint(id, s) ==
  LET Lanes(P(_)) == {i \in DOMAIN s.lanes : P(s.lanes[i])}
      owners == IF Lanes(LAMBDA l : l.id = id) # {} THEN Lanes(LAMBDA l : l.id = id)
                ELSE Lanes(LAMBDA l : l.module = id)
      lane == s.lanes[Min(owners)]
  IN IF id \in RegistryIds THEN Box(id, "existing")
     ELSE IF owners = {} THEN Box(id, "planned")
     ELSE IF lane.module \in RegistryIds THEN Box(lane.module, "existing")
     ELSE IF lane.module = "none" THEN Box(lane.id, "planned")
     ELSE Box(lane.module, "planned")

participantIds(s) ==
  (UNION {{s.edges[i].from, s.edges[i].to} : i \in DOMAIN s.edges}) \cup
  {s.lanes[i].id : i \in {j \in DOMAIN s.lanes :
                            s.lanes[j].kind = "module" \/ s.lanes[j].module # "none"}}

Boxes(s) == {endpoint(id, s) : id \in participantIds(s)}
ObservedBoxes == IF stored = "nothing" THEN {} ELSE Boxes(sketch[1])
ProposedBoxes == IF Compared THEN Boxes(sketch[2]) ELSE {}
NamedBoxes ==
  {Box(ModuleNamed[r], IF ModuleNamed[r] \in RegistryIds THEN "existing" ELSE "planned") :
     r \in {q \in References : ModuleNamed[q] # "none"}}

IdsOf(boxes) == {b.id : b \in boxes}

\* put(): the first side that names a box decides its state, and the first that
\* knows of a change its change.
Node(id) ==
  LET first == IF id \in IdsOf(ObservedBoxes) THEN ObservedBoxes
               ELSE IF id \in IdsOf(ProposedBoxes) THEN ProposedBoxes ELSE NamedBoxes
  IN [id |-> id,
      state |-> (CHOOSE b \in first : b.id = id).state,
      change |-> IF ~Compared \/ id \notin IdsOf(ObservedBoxes \cup ProposedBoxes) THEN "unknown"
                 ELSE IF id \notin IdsOf(ObservedBoxes) THEN "added"
                 ELSE IF id \notin IdsOf(ProposedBoxes) THEN "removed" ELSE "unchanged",
      refs |-> {r \in References : ModuleNamed[r] = id}]

Nodes == {Node(id) : id \in IdsOf(ObservedBoxes \cup ProposedBoxes \cup NamedBoxes)}

Between(s, i) ==
  <<endpoint(s.edges[i].from, s).id, endpoint(s.edges[i].to, s).id, s.edges[i].what>>
ObservedEdges ==
  IF stored = "nothing" THEN {}
  ELSE {Between(sketch[1], i) : i \in DOMAIN sketch[1].edges}
ProposedEdges ==
  IF Compared THEN {Between(sketch[2], i) : i \in DOMAIN sketch[2].edges} ELSE {}
Repeated == {k \in ProposedEdges :
               Cardinality({i \in DOMAIN sketch[2].edges : Between(sketch[2], i) = k}) > 1}

\* moduleEdges(): one line per key; a translation that repeats a key finds the
\* line that it drew itself.
moduleEdges ==
  {[key |-> k,
    change |-> IF k \in ProposedEdges
                 THEN IF k \in ObservedEdges \cup Repeated THEN "unchanged" ELSE "added"
                 ELSE IF Compared THEN "removed" ELSE "unknown",
    planned |-> \E n \in Nodes : n.id \in {k[1], k[2]} /\ n.state = "planned"] :
     k \in ObservedEdges \cup ProposedEdges}

-----------------------------------------------------------------------------

\* The claim ledger: the drawn steps a reference of the plan supports.
claims(steps) ==
  [r \in References |-> {i \in DOMAIN steps : r \in steps[i].refs}]

buildPlanReview ==
  LET steps == flowLayer
  IN [layer |-> stored, steps |-> steps, counts |-> counts(steps),
      nodes |-> Nodes, edges |-> moduleEdges, claims |-> claims(steps)]

ReviewInit ==
  /\ DiffInit
  /\ sketch \in Sketches \X Sketches
  /\ stored \in {"translated", "flow", "nothing"}
  /\ links \in [UNION {Ids(a.steps) : a \in Comparable} -> SUBSET References]
  /\ review = NotDrawnYet

DrawReview ==
  /\ review = NotDrawnYet
  /\ review' = buildPlanReview
  /\ UNCHANGED <<diffVars, sketch, stored, links>>

CompareAnswers == AskDiff /\ UNCHANGED <<sketch, stored, links, review>>

ReviewNext == CompareAnswers \/ DrawReview

ReviewSpec == ReviewInit /\ [][ReviewNext]_reviewVars

-----------------------------------------------------------------------------

Distinct(steps) == Cardinality(Ids(steps)) = Len(steps)
Times(end, id) == Cardinality({k \in DOMAIN review.steps : review.steps[k][end] = id})

\* The observed steps that are to be drawn: those the answer itself has, unless
\* the matcher has paired one with a step of a branch of the translation, and
\* those of a branch that it has paired with a step of the translation itself.
expectedPlaces ==
  LET pairs == matchSteps(compared[1], compared[2])
      beside(i) == {c[2] : c \in {d \in pairs : d[1] = i}}
  IN IF ~Compared THEN mainPlaces(compared[1])
     ELSE {i \in DOMAIN observedSteps :
             \/ i \in mainPlaces(compared[1]) /\ beside(i) = {}
             \/ beside(i) \cap mainPlaces(compared[2]) # {}}

\* Every step of the translation and every expected step of the observed flow
\* is drawn once, a pair as one, and no other step is; the counts beside the
\* drawing add up to both flows.  Steps that share an id are not promised.
StepsAreAllDrawn ==
  Distinct(observedSteps) /\ Distinct(proposedSteps) =>
    /\ stored # "nothing" =>
         \A i \in DOMAIN observedSteps :
           Times("observed", observedSteps[i].id) = IF i \in expectedPlaces THEN 1 ELSE 0
    /\ Compared =>
         LET c == review.counts
             paired == c["moved"] + c["unchanged"]
         IN /\ c["added"] + paired = compared[2].main
            /\ c["removed"] + paired = Cardinality(expectedPlaces)
            /\ c["linked"] + c["unanchored"] = compared[2].main
            /\ \A i \in mainPlaces(compared[2]) :
                 LET id == proposedSteps[i].id
                 IN /\ Times("proposal", id) = 1
                    /\ \A r \in References :
                         r \in links[id] <=>
                           \E k \in review.claims[r] : review.steps[k].proposal = id

\* Boxes and lines agree: a line is drawn between boxes that are drawn, only
\* what the registry has is drawn as existing, and no line outlives a box that
\* is removed or precedes one that is added.
LinesAgreeWithBoxes ==
  LET Ends(e) == {n \in review.nodes : n.id \in {e.key[1], e.key[2]}}
  IN /\ \A n \in review.nodes : n.state = "existing" <=> n.id \in RegistryIds
     /\ \A e \in review.edges :
          /\ {e.key[1], e.key[2]} = {n.id : n \in Ends(e)}
          /\ e.change \in {"added", "unchanged"} =>
               \A n \in Ends(e) : n.change # "removed"
          /\ (e.change = "removed" \/ (e.change = "unchanged" /\ e.key \notin Repeated)) =>
               \A n \in Ends(e) : n.change # "added"

\* Nothing is dropped from either layer and nothing is drawn twice.  The code
\* promises it of every unmatched step (plan-review.ts, the comment on the
\* artifact's two rules); what is drawn of branches, and the one step of the
\* flow itself that may be missing, is what expectedPlaces says.
NothingIsDropped ==
  review # NotDrawnYet => StepsAreAllDrawn /\ LinesAgreeWithBoxes
=============================================================================
