---------------------------- MODULE Conformance -----------------------------
(***************************************************************************)
(* The declared architecture compared with the indexed one: each declared  *)
(* element is resolved to an indexed module, and each declared dependency  *)
(* is judged by the call traffic that was stored between two modules.      *)
(*                                                                         *)
(* A path is the sequence of its segments.                                 *)
(***************************************************************************)
EXTENDS Naturals, Sequences, FiniteSets, SequencesExt

CONSTANTS
  Elements,    \* the ids of declared elements
  Matches,     \* what an element may declare as its match, and NoMatch
  RuleSets,    \* sets of dependency rules that may be written
  Indexes,     \* registries: the roots of each module id
  Traffics     \* sets of pairs of module ids, and NoTraffic

NoMatch == [by |-> "nothing"]

NoRule == [from |-> "none", to |-> "none", expectation |-> "none"]

\* The snapshot has no call graph.
NoTraffic == {<<"no", "traffic">>}

\* What DeclaredArchitectureSchema lets an author write, of a finite index.
ASSUME ConformanceAssumption ==
  /\ \A m \in Matches : m = NoMatch \/ m.by \in {"module", "path"}
  /\ \A rs \in RuleSets : \A r \in rs :
       r.expectation \in {"allowed", "forbidden", "required"}
  /\ \A index \in Indexes : IsFiniteSet(DOMAIN index)

VARIABLES
  match,       \* the match each element declares
  rules,       \* the declared dependencies
  modules,    \* the modules of the snapshot
  traffic,     \* the stored traffic
  comparison   \* what compareDeclaredArchitecture() returns

conformanceVars == <<match, rules, modules, traffic, comparison>>

NotCompared == [state |-> "not asked"]

\* DeclaredArchitectureSchema: endpoints exist, and no pair has two rules.
Accepted ==
  /\ \A r \in rules : r.from \in Elements /\ r.to \in Elements
  /\ \A r, s \in rules : <<r.from, r.to>> = <<s.from, s.to>> => r = s

\* pathCandidates(): the modules that own the path or lie under it.
pathCandidates(path) ==
  {m \in DOMAIN modules : \E root \in modules[m] :
     IsPrefix(root, path) \/ IsPrefix(path, root)}

candidatesOf(e) ==
  CASE match[e] = NoMatch -> {}
    [] match[e].by = "module" -> {match[e].of} \cap DOMAIN modules
    [] match[e].by = "path" -> pathCandidates(match[e].of)

\* resolveElement(): the one module an element matches, as a set.
resolveElement(e) ==
  {m \in candidatesOf(e) : Cardinality(candidatesOf(e)) = 1}

\* Slip: every element that resolves keeps what it resolved to.
ResolvedAlone(e) == resolveElement(e)

\* Two elements that claim one module are both ambiguous.
Resolved(e) ==
  IF \E d \in Elements \ {e} : resolveElement(d) \cap resolveElement(e) # {}
  THEN {} ELSE resolveElement(e)

stateOf(e) ==
  CASE Resolved(e) # {} -> "matched"
    [] Resolved(e) = {} /\ candidatesOf(e) # {} -> "ambiguous"
    [] candidatesOf(e) = {} -> "declared-only"

\* The pair of modules a rule is about, as a set.
pairOf(r) == Resolved(r.from) \X Resolved(r.to)

verdict(r) ==
  LET seen == pairOf(r) \cap traffic # {}
      WhenSeen(yes, no) == IF seen THEN yes ELSE no
  IN IF pairOf(r) = {} \/ traffic = NoTraffic THEN "unknown"
     ELSE CASE r.expectation = "forbidden" -> WhenSeen("violated", "matched")
            [] r.expectation = "required" -> WhenSeen("matched", "declared-only")
            [] r.expectation = "allowed" -> WhenSeen("matched", "unknown")

\* The cells the comparison is given.
storedTraffic == IF traffic = NoTraffic THEN {} ELSE traffic

\* relationshipByObservedPair: the rule a cell of the traffic is shown with,
\* of several for one pair the last one that is written.
ruleOf(cell) == {r \in rules : pairOf(r) = {cell}}

compareDeclaredArchitecture ==
  LET shown(c) == IF ruleOf(c) = {} THEN NoRule ELSE CHOOSE r \in ruleOf(c) : TRUE
      claimed == UNION {Resolved(e) : e \in Elements}
      unclaimed == DOMAIN modules \ claimed
  IN [state |-> "compared",
      elements |->
        {[declared |-> {e}, observed |-> Resolved(e), state |-> stateOf(e)] :
           e \in Elements}
        \cup {[declared |-> {}, observed |-> {m}, state |-> "observed-only"] :
                m \in unclaimed},
      relationships |-> {[rule |-> r, state |-> verdict(r)] : r \in rules},
      observedRelationships |->
        {[cell |-> c, rule |-> shown(c),
          state |-> IF shown(c) = NoRule THEN "observed-only" ELSE verdict(shown(c))] :
           c \in storedTraffic}]

-----------------------------------------------------------------------------

ConformanceInit ==
  /\ match \in [Elements -> Matches]
  /\ rules \in RuleSets
  /\ modules \in Indexes
  /\ traffic \in Traffics
  /\ comparison = NotCompared

\* `veriflow architecture-compare`, of a declaration that was accepted.
Compare ==
  /\ comparison = NotCompared
  /\ Accepted
  /\ comparison' = compareDeclaredArchitecture
  /\ UNCHANGED <<match, rules, modules, traffic>>

\* One that is not accepted is never stored.
RefuseDeclaration ==
  /\ comparison = NotCompared
  /\ ~Accepted
  /\ comparison' = [state |-> "refused"]
  /\ UNCHANGED <<match, rules, modules, traffic>>

ConformanceNext == Compare \/ RefuseDeclaration

ConformanceSpec == ConformanceInit /\ [][ConformanceNext]_conformanceVars

-----------------------------------------------------------------------------

\* The module a comparison shows a declared element as, as a set.
ShownAs(c, e) == UNION {x.observed : x \in {y \in c.elements : y.declared = {e}}}

\* The cells of the matrix between what a rule's two ends are shown as.
CellsOf(c, r) == ShownAs(c, r.from) \X ShownAs(c, r.to)

\* An element is shown as a module exactly when that module is all it may
\* mean and no other element means it alone too.
MeantByOne(c) ==
  \A e \in Elements, m \in DOMAIN modules :
    m \in ShownAs(c, e) <=> {d \in Elements : candidatesOf(d) = {m}} = {e}

\* A rule is violated exactly when it forbids traffic that was stored between
\* what its ends are shown as; one with an end that is shown as no module, or
\* of a snapshot without traffic, has no verdict.
ForbiddenAndSeen(c) ==
  \A v \in c.relationships :
    /\ v.state = "violated" <=>
         /\ v.rule.expectation = "forbidden"
         /\ CellsOf(c, v.rule) \cap storedTraffic # {}
    /\ (traffic = NoTraffic \/ CellsOf(c, v.rule) = {}) => v.state = "unknown"

\* A cell is shown with the one rule between its modules, and with the verdict
\* of the list of rules; without a rule when there is none.
CellsTellTheRules(c) ==
  \A o \in c.observedRelationships :
    /\ {r \in rules : o.cell \in CellsOf(c, r)} = {o.rule} \ {NoRule}
    /\ IF o.rule = NoRule THEN o.state = "observed-only"
       ELSE /\ [rule |-> o.rule, state |-> o.state] \in c.relationships
            /\ o.state \in {"matched", "violated"}

\* The lists of a comparison tell one story: each indexed module is listed
\* once, and belongs to the one element that means it and it alone; a rule is
\* violated exactly when it forbids what is seen between its modules, and has
\* no verdict when either end is unresolved; and the matrix shows every seen
\* cell, with the rule between its modules and that rule's own verdict.
ListsAgree ==
  comparison.state = "compared" =>
    /\ MeantByOne(comparison)
    /\ \A m \in DOMAIN modules :
         Cardinality({x \in comparison.elements : x.observed = {m}}) = 1
    /\ {v.rule : v \in comparison.relationships} = rules
    /\ ForbiddenAndSeen(comparison)
    /\ {o.cell : o \in comparison.observedRelationships} = storedTraffic
    /\ CellsTellTheRules(comparison)
=============================================================================
