--------------------------- MODULE AnswerLineage ----------------------------
(***************************************************************************)
(* The forest of answers a page shows.  An answer names at most one parent *)
(* and nothing in the store constrains the name, so the rows may point at  *)
(* themselves, at each other in a circle, or at an answer that is gone;    *)
(* buildAnswerLineage() flattens them, root first, without recursion.      *)
(***************************************************************************)
EXTENDS Naturals, Sequences, FiniteSets, SequencesExt, FiniteSetsExt

CONSTANTS
  RowIds,  \* the ids of the rows, in their order
  Unkept,  \* the id of an answer that is not among the rows
  Dates    \* when an answer may have been written

ASSUME LineageAssumption ==
  /\ IsFiniteSet(RowIds) /\ RowIds \subseteq Nat \ {0} /\ Dates \subseteq Nat
  /\ Unkept \in Nat \ (RowIds \cup {0})

VARIABLES
  parents,  \* parent_answer_id of each row, 0 for none
  createdAt,  \* created_at of each row
  lineage   \* the flattened forest, or the context of one answer

lineageVars == <<parents, createdAt, lineage>>

NotDrawn == [state |-> "not drawn"]

\* The parent a walk goes on to, 0 for none.
Onward(r) == IF parents[r] \in RowIds \ {r} THEN parents[r] ELSE 0

\* Slip: everything on the way into a circle is taken for the circle.
WholePath(path, r) == ToSet(path)

\* The part of the path that comes round to r.
Circle(path, r) ==
  LET at == CHOOSE i \in DOMAIN path : path[i] = r
  IN {path[i] : i \in at..Len(path)}

\* One step of a walk: it stops where a parent is not valid, where an earlier
\* walk has been, or where it meets itself.
Further(w, settled) ==
  IF w.at \in settled \cup {0} \/ w.circle # {} THEN w
  ELSE IF w.at \in ToSet(w.path) THEN [w EXCEPT !.circle = Circle(w.path, w.at)]
  ELSE [w EXCEPT !.path = Append(@, w.at), !.at = Onward(w.at)]

Walk(start, settled) ==
  LET walk[n \in 0..Cardinality(RowIds) + 1] ==
        IF n = 0 THEN [path |-> <<>>, at |-> start, circle |-> {}]
        ELSE Further(walk[n - 1], settled)
  IN walk[Cardinality(RowIds) + 1]

\* The circles, found by walks from each row that no earlier walk has passed.
WalkOn(s) ==
  IF RowIds \subseteq s.settled THEN s
  ELSE LET w == Walk(Min(RowIds \ s.settled), s.settled)
       IN [settled |-> s.settled \cup ToSet(w.path),
           circles |-> s.circles \cup ({w.circle} \ {{}})]

Circles ==
  LET walked[n \in 0..Cardinality(RowIds)] ==
        IF n = 0 THEN [settled |-> {}, circles |-> {}] ELSE WalkOn(walked[n - 1])
  IN walked[Cardinality(RowIds)].circles

diagnostics(r) ==
       (IF parents[r] = r THEN {<<"self_link">>} ELSE {})
  \cup (IF parents[r] = Unkept THEN {<<"missing_parent", Unkept>>} ELSE {})
  \cup {<<"cycle", c>> : c \in {d \in Circles : r \in d}}

\* compareRows(): the newest first, then by id.
Newer(a, b) ==
  createdAt[a] > createdAt[b] \/ (createdAt[a] = createdAt[b] /\ a < b)

NewestFirst(rows) ==
  [k \in 1..Cardinality(rows) |->
     CHOOSE r \in rows : Cardinality({x \in rows : Newer(x, r)}) = k - 1]

\* A row of a circle and a row without a valid parent are roots.
roots == {r \in RowIds : Onward(r) = 0 \/ \E c \in Circles : r \in c}

children(r) == {x \in RowIds \ roots : parents[x] = r}

\* buildAnswerLineage(): the forest in the order in which it is read, children
\* below their parent; the top of the stack is its head here.
AtDepth(rows, depth) ==
  [i \in DOMAIN rows |-> [row |-> rows[i], depth |-> depth]]

Unfold(s) ==
  IF s.stack = <<>> THEN s
  ELSE LET top == Head(s.stack)
       IN [nodes |-> Append(s.nodes, [row |-> top.row, depth |-> top.depth,
                                      diagnostics |-> diagnostics(top.row)]),
           stack |-> AtDepth(NewestFirst(children(top.row)), top.depth + 1) \o Tail(s.stack)]

Forest ==
  LET flat[n \in 0..Cardinality(RowIds)] ==
        IF n = 0 THEN [nodes |-> <<>>, stack |-> AtDepth(NewestFirst(roots), 0)]
        ELSE Unfold(flat[n - 1])
  IN flat[Cardinality(RowIds)]

-----------------------------------------------------------------------------

LineageInit ==
  /\ parents \in [RowIds -> RowIds \cup {0, Unkept}]
  /\ createdAt \in [RowIds -> Dates]
  /\ lineage = NotDrawn

\* The list of answers.
DrawForest ==
  /\ lineage = NotDrawn
  /\ lineage' = [state |-> "drawn", nodes |-> Forest.nodes]
  /\ UNCHANGED <<parents, createdAt>>

\* answerLineageContext(): the page of one answer.
Related(r) == {x \in RowIds \ {r} : parents[r] # 0 /\ parents[x] = parents[r]}

ShowContext(r) ==
  /\ lineage = NotDrawn
  /\ lineage' = [state |-> "shown", row |-> r,
                 parent |-> Onward(r),
                 children |-> {x \in RowIds \ {r} : parents[x] = r},
                 siblings |-> Related(r),
                 diagnostics |-> diagnostics(r)]
  /\ UNCHANGED <<parents, createdAt>>

LineageNext == DrawForest \/ \E r \in RowIds : ShowContext(r)

LineageSpec == LineageInit /\ [][LineageNext]_lineageVars

-----------------------------------------------------------------------------

\* The rows r leads to through its parents, r itself only round a circle: what
\* is in every set that holds the parent of r and of each of its members.
Above(r) ==
  LET closed == {s \in SUBSET RowIds : \A y \in s \cup {r} : Onward(y) \in s \cup {0}}
  IN {x \in RowIds : \A s \in closed : x \in s}

\* Whatever the rows point at, the list holds every answer once; each stands
\* right under the subtree of its parent, one level deeper, and only a row in a
\* circle or without a valid parent is promoted.  A circle is reported for its
\* own members, all of them and nobody who merely leads into it.  And the page of
\* an answer lists none as its child and its sibling, unless it says the answer
\* is its own parent.
NoAnswerIsSwallowed ==
  /\ lineage.state = "drawn" =>
       LET nodes == lineage.nodes
           above(i) ==
             Max({k \in 1..(i - 1) : nodes[k].depth < nodes[i].depth})
       IN /\ Len(nodes) = Cardinality(RowIds)
          /\ {nodes[i].row : i \in DOMAIN nodes} = RowIds
          /\ \A i \in DOMAIN nodes :
               LET r == nodes[i].row
               IN /\ (nodes[i].depth = 0) = (Onward(r) = 0 \/ r \in Above(r))
                  /\ nodes[i].depth > 0 =>
                       /\ nodes[above(i)].row = parents[r]
                       /\ nodes[above(i)].depth = nodes[i].depth - 1
                  /\ {d \in nodes[i].diagnostics : d[1] = "cycle"} =
                       IF r \in Above(r) THEN {<<"cycle", Above(r)>>} ELSE {}
  /\ (lineage.state = "shown" /\ lineage.children \cap lineage.siblings # {}) =>
       <<"self_link">> \in lineage.diagnostics
=============================================================================
