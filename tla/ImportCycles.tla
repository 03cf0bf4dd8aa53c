---------------------------- MODULE ImportCycles ----------------------------
(***************************************************************************)
(* Import cycles of the structure metrics: findCycles() walks the import   *)
(* graph once, with a work list in place of recursion, and cuts a strongly *)
(* connected component off its stack whenever a file's low link is its own *)
(* index; structureOf() reports those of several files.                    *)
(*                                                                         *)
(* A file is a number, its place in the order of paths.                    *)
(***************************************************************************)
EXTENDS Naturals, Sequences, FiniteSets, SequencesExt, FiniteSetsExt

CONSTANTS Projects  \* import relations: sets of pairs <<importer, target>>

ASSUME ProjectsAssumption ==
  \A p \in Projects : IsFiniteSet(p) /\ \A i \in p : i[1] \in Nat /\ i[2] \in Nat

VARIABLES
  imports,    \* what the files of the snapshot import of each other
  index,      \* of a file that was visited: when it was
  low,        \* of the same files: the low link
  pile,       \* `stack`
  work,       \* the files being visited, each with what is left to follow
  found,      \* the components of several files, as they were found
  structure   \* what structureOf() returns

cycleVars == <<imports, index, low, pile, work, found, structure>>

NoStructure == [cycles |-> {}, metrics |-> {}, state |-> "not asked"]

\* buildImportGraph(): a file that imports itself adds no edge.
out(f) == {i[2] : i \in {j \in imports : j[1] = f}} \ {f}
in(f) == {i[1] : i \in {j \in imports : j[2] = f}} \ {f}

\* The files that import or are imported.
nodes == {f \in {i[1] : i \in imports} \cup {i[2] : i \in imports} :
            out(f) \cup in(f) # {}}

\* A file that is visited, and what is left to follow: the first one first.
Frame(f) == [node |-> f, edges |-> out(f)]

visited == DOMAIN index

CyclesInit ==
  /\ imports \in Projects
  /\ index = <<>> /\ low = <<>>
  /\ pile = <<>> /\ work = <<>>
  /\ found = <<>>
  /\ structure = NoStructure

\* A file is seen for the first time.
Visit(f, frames) ==
  /\ LET next == Cardinality(visited)
     IN /\ index' = [x \in visited \cup {f} |-> IF x = f THEN next ELSE index[x]]
        /\ low' = [x \in visited \cup {f} |-> IF x = f THEN next ELSE low[x]]
  /\ pile' = Append(pile, f)
  /\ work' = Append(frames, Frame(f))
  /\ UNCHANGED <<imports, found, structure>>

StartRoot ==
  /\ work = <<>>
  /\ nodes \ visited # {}
  /\ Visit(Min(nodes \ visited), <<>>)

Top == work[Len(work)]
Child == Min(Top.edges)

Followed == [work EXCEPT ![Len(work)].edges = @ \ {Child}]

EnterChild ==
  /\ work # <<>> /\ Top.edges # {}
  /\ Child \notin visited
  /\ Visit(Child, Followed)

\* Slip: any file that was visited before lowers the link.
LowThrough(f, child) == [low EXCEPT ![f] = Min({@, index[child]})]

\* A file on the stack lowers the link; one that was cut off it does not.
LowAfter(f, child) ==
  IF child \in ToSet(pile)
  THEN [low EXCEPT ![f] = Min({@, index[child]})]
  ELSE low

MeetChild ==
  /\ work # <<>> /\ Top.edges # {}
  /\ Child \in visited
  /\ low' = LowAfter(Top.node, Child)
  /\ work' = Followed
  /\ UNCHANGED <<imports, index, pile, found, structure>>

\* The frame is popped, its parent's link lowered, and the component of a file
\* whose link is its own index is cut off the stack.
LeaveFile ==
  /\ work # <<>> /\ Top.edges = {}
  /\ work' = Front(work)
  /\ low' = IF Len(work) = 1 THEN low
            ELSE LET parent == work[Len(work) - 1].node
                 IN [low EXCEPT ![parent] = Min({@, low[Top.node]})]
  /\ IF low[Top.node] = index[Top.node]
     THEN LET from == CHOOSE i \in DOMAIN pile : pile[i] = Top.node
              component == {pile[i] : i \in from..Len(pile)}
          IN /\ pile' = SubSeq(pile, 1, from - 1)
             /\ found' = IF Cardinality(component) > 1
                         THEN Append(found, component) ELSE found
     ELSE UNCHANGED <<pile, found>>
  /\ UNCHANGED <<imports, index, structure>>

\* The largest component first, then by its first file.
Larger(b, c) ==
  \/ Cardinality(b) > Cardinality(c)
  \/ Cardinality(b) = Cardinality(c) /\ Min(b) < Min(c)

InIdOrder(cs) ==
  [k \in 1..Cardinality(cs) |->
     CHOOSE c \in cs : Cardinality({b \in cs : Larger(b, c)}) = k - 1]

\* structureOf(), of the files of a flow: the cycle each of them is in, 0 for
\* none, and the cycles that touch the flow.
Report(flow) ==
  /\ structure = NoStructure
  /\ work = <<>> /\ nodes \subseteq visited
  /\ LET ordered == InIdOrder(ToSet(found))
         touching == {k \in DOMAIN ordered : ordered[k] \cap flow # {}}
         cycleOf(f) == {k \in DOMAIN ordered : f \in ordered[k]}
         metric(f) ==
           [path |-> f, fanIn |-> Cardinality(in(f)), fanOut |-> Cardinality(out(f)),
            cycle |-> IF cycleOf(f) = {} THEN 0 ELSE Max(cycleOf(f))]
     IN structure' =
          [state |-> "reported",
           cycles |-> {[id |-> k, members |-> ordered[k]] : k \in touching},
           metrics |-> {metric(f) : f \in flow}]
  /\ UNCHANGED <<imports, index, low, pile, work, found>>

CyclesNext ==
  \/ StartRoot
  \/ EnterChild
  \/ MeetChild
  \/ LeaveFile
  \/ \E flow \in SUBSET nodes : Report(flow)

CyclesSpec == CyclesInit /\ [][CyclesNext]_cycleVars

-----------------------------------------------------------------------------

\* What a file imports, directly or not, and itself: what is in every set of
\* files that holds it and all that its members import.
Reached(f) ==
  LET closed == {s \in SUBSET nodes : f \in s /\ \A x \in s : out(x) \subseteq s}
  IN {x \in nodes : \A s \in closed : x \in s}

Together(f) == {x \in Reached(f) : f \in Reached(x)}

\* A cycle that is reported is a circle and a whole one: its files import each
\* other, directly or not, and no file that imports one of them and is imported
\* by one is left out.  A file of the flow is said to be in a cycle exactly when
\* it is in one, and the cycle it names is listed.
CyclesAreMutual ==
  structure # NoStructure =>
    /\ \A m \in structure.metrics :
         /\ (m.cycle = 0) = (Together(m.path) = {m.path})
         /\ m.cycle # 0 =>
              [id |-> m.cycle, members |-> Together(m.path)]
                \in structure.cycles
    /\ \A c \in structure.cycles :
         \E m \in structure.metrics : m.cycle = c.id
=============================================================================
