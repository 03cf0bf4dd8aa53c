----------------------------- MODULE CallGraph ------------------------------
(***************************************************************************)
(* The call graph an index stores: what the doors of a program reach       *)
(* through its call sites, grown in rounds because an inferred edge may be *)
(* the only way to a function, and what a page later reads out of the      *)
(* stored edges, one door at a time.                                       *)
(*                                                                         *)
(* A symbol is <<path, name>>.  A site is a call whose target the provider *)
(* bound, or a reference whose target can be inferred: by its unique name  *)
(* through an interface, or passed as an argument.                         *)
(***************************************************************************)
EXTENDS Naturals, FiniteSets

CONSTANTS
  Symbols,     \* the indexed symbols
  SiteSets,    \* sets of sites [from, to, how]
  DoorSets,    \* sets of symbols that are entry points
  DepthBound,  \* depthBound: 25 unless told otherwise
  MaxRounds    \* MAX_INFERENCE_ROUNDS: 4

ASSUME CallGraphAssumption ==
  /\ IsFiniteSet(Symbols) /\ \A s \in Symbols : s[2] # "<module>"
  /\ \A ds \in DoorSets : ds \subseteq Symbols
  /\ DepthBound \in Nat \ {0} /\ MaxRounds \in Nat
  /\ \A s \in SiteSets : \A c \in s :
       {c.from, c.to} \subseteq Symbols /\ c.how \in {"call", "port", "callback"}

VARIABLES
  sites,     \* call sites
  doors,     \* entry points
  reach,     \* computeReachability(): what is reached, and whether the bound was hit
  inferred,  \* the edges inferred so far
  round,     \* how many rounds have found something
  graph      \* the stored graph

callVars == <<sites, doors, reach, inferred, round, graph>>

NoGraph == [state |-> "growing"]

\* A file's own symbol, and the node that stands for its top level otherwise.
FileOf(path) == <<path, "file">>
InitOf(path) == <<path, "<module>">>
pathOf(id) == id[1]

Calls == {<<c.from, c.to>> : c \in {d \in sites : d.how = "call"}}

\* computeReachability()
Reachability(edges) ==
  LET hop[n \in 0..DepthBound] ==
        IF n = 0 THEN doors
        ELSE hop[n - 1] \cup {e[2] : e \in {d \in edges : d[1] \in hop[n - 1]}}
  IN [reached |-> hop[DepthBound],
      bounded |-> hop[DepthBound] # hop[DepthBound - 1]]

\* inferPortEdges() and inferCallbackEdges(): only from what was reached.
Inferable ==
  {<<c.from, c.to>> : c \in {d \in sites :
     d.how # "call" /\ d.from # d.to /\ d.from \in reach.reached}}

Fresh == Inferable \ inferred

\* Slip: an edge that was inferred is kept wherever it leads.
JoinedAnyway(edges) == edges

\* An inferred edge joins the graph when both of its ends were reached.
Joined(edges) == {e \in edges : {e[1], e[2]} \subseteq reach.reached}

kindOf(id) ==
  IF id \in doors THEN "entry"
  ELSE IF id = FileOf(pathOf(id)) THEN "module-init" ELSE "function"

\* buildCallGraph(): importing a module runs it, so each file that is reached
\* has a node for its top level, once.
Nodes ==
  LET paths == {pathOf(id) : id \in reach.reached}
      tops == {InitOf(p) : p \in {q \in paths : FileOf(q) \notin reach.reached}}
  IN {[id |-> s, kind |-> kindOf(s)] : s \in reach.reached}
       \cup {[id |-> t, kind |-> "module-init"] : t \in tops}

Edges ==
  {e \in Calls : {e[1], e[2]} \subseteq reach.reached} \cup Joined(inferred)

\* closureFrom(): what some doors reach in a stored graph, as callgraph-page
\* narrows it to one of them.
closureFrom(roots) ==
  LET next(ids) ==
        ids \cup {e[2] : e \in {d \in graph.edges : d[1] \in ids}}
            \cup {n.id : n \in {m \in graph.nodes :
                    m.kind = "module-init" /\ pathOf(m.id) \in {pathOf(i) : i \in ids}}}
      seen[n \in 0..Cardinality(graph.nodes)] ==
        IF n = 0 THEN roots ELSE next(seen[n - 1])
  IN seen[Cardinality(graph.nodes)]

-----------------------------------------------------------------------------

CallsInit ==
  /\ sites \in SiteSets
  /\ doors \in DoorSets
  /\ reach = [reached |-> {}, bounded |-> FALSE]
  /\ inferred = {}
  /\ round = 0
  /\ graph = NoGraph

FirstReach ==
  /\ graph = NoGraph /\ reach.reached = {} /\ doors # {}
  /\ reach' = Reachability(Calls)
  /\ UNCHANGED <<sites, doors, inferred, round, graph>>

\* A round that finds something new is folded into the calls.
InferRound ==
  /\ graph = NoGraph /\ reach.reached # {}
  /\ round < MaxRounds /\ Fresh # {}
  /\ round' = round + 1
  /\ inferred' = inferred \cup Fresh
  /\ reach' = Reachability(Calls \cup inferred')
  /\ UNCHANGED <<sites, doors, graph>>

\* saveCallGraph() replaces the graph of the snapshot in one transaction.
SaveCallGraph ==
  /\ graph = NoGraph
  /\ IF doors = {} THEN reach.reached = {}
     ELSE reach.reached # {} /\ (Fresh = {} \/ round = MaxRounds)
  /\ graph' = [state |-> "stored", nodes |-> Nodes, edges |-> Edges,
               whole |-> ~reach.bounded /\ Fresh = {}]
  /\ UNCHANGED <<sites, doors, reach, inferred, round>>

CallsNext == FirstReach \/ InferRound \/ SaveCallGraph

CallsSpec == CallsInit /\ [][CallsNext]_callVars

-----------------------------------------------------------------------------

\* The stored graph is what its doors reach: read door by door out of the
\* stored edges, it has every node and nothing else, although it was grown in
\* rounds over other data.  If neither bound was met, it is closed: whatever
\* its functions call or hand on is in it.  And the top level of a file is in
\* it once for each file that has something in it.
DoorsReachTheGraph ==
  graph # NoGraph =>
    LET ids == {n.id : n \in graph.nodes}
        tops(p) == ids \cap {FileOf(p), InitOf(p)}
    IN /\ UNION {closureFrom({d}) : d \in doors} = ids
       /\ graph.whole =>
            \A c \in sites : (c.from \in ids /\ c.from # c.to) =>
              <<c.from, c.to>> \in graph.edges
       /\ \A n \in graph.nodes : Cardinality(tops(pathOf(n.id))) = 1
=============================================================================
