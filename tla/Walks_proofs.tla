---------------------------- MODULE Walks_proofs ----------------------------
(***************************************************************************)
(* What a walk through a relation finds: the circles of imports, each file in *)
(* the one it is in (CyclesAreMutual), by Tarjan's walk; and every answer of a *)
(* question's history, shown once and under the answer it was made from    *)
(* (NoAnswerIsSwallowed), whatever circles the parents go in.              *)
(***************************************************************************)
EXTENDS ImportCycles, AnswerLineage, Comparison_proofs

-----------------------------------------------------------------------------
(* What files reach                                                        *)

\* The files are finitely many, and are numbers.
LEMMA ImportsAreFinite ==
  ASSUME imports \in Projects
  PROVE  IsFiniteSet(nodes) /\ nodes \subseteq Nat
<1> DEFINE A == {i[1] : i \in imports}
           B == {i[2] : i \in imports}
<1>1. IsFiniteSet(imports) /\ \A i \in imports : i[1] \in Nat /\ i[2] \in Nat
  BY ProjectsAssumption
<1>2. IsFiniteSet(A) /\ IsFiniteSet(B)
  <2> DEFINE from == [i \in imports |-> i[1]]
             to == [i \in imports |-> i[2]]
  <2>1. from \in Surjection(imports, A) /\ to \in Surjection(imports, B)
    BY DEF Surjection
  <2> HIDE DEF A, B, from, to
  <2>2. QED  BY <1>1, <2>1, FS_Surjection
<1>3. IsFiniteSet(A \cup B)
  BY <1>2, FS_Union
<1>4. nodes \subseteq A \cup B /\ A \cup B \subseteq Nat
  BY <1>1 DEF nodes
<1> HIDE DEF A, B
<1>5. QED  BY <1>3, <1>4, FS_Subset

\* An import joins two files of the graph.
LEMMA ImportsStayInside ==
  ASSUME NEW x, NEW y \in out(x)
  PROVE  y \in nodes /\ x # y
<1>1. PICK i \in imports : i[1] = x /\ i[2] = y /\ x # y
  BY DEF out
<1>2. x \in in(y)
  BY <1>1 DEF in
<1>3. QED  BY <1>1, <1>2 DEF nodes

\* What a file reaches is the least set that it is in and that imports stay in.
LEMMA ReachedFacts ==
  ASSUME NEW x \in nodes
  PROVE  /\ Reached(x) \subseteq nodes
         /\ x \in Reached(x)
         /\ \A y \in Reached(x) : out(y) \subseteq Reached(x)
         /\ \A s \in SUBSET nodes : x \in s /\ (\A y \in s : out(y) \subseteq s) => Reached(x) \subseteq s
         /\ \A y \in Reached(x) : Reached(y) \subseteq Reached(x)
<1>1. Reached(x) \subseteq nodes /\ x \in Reached(x)
  BY DEF Reached
<1>2. ASSUME NEW y \in Reached(x), NEW z \in out(y) PROVE z \in Reached(x)
  <2>1. z \in nodes
    BY ImportsStayInside
  <2>2. ASSUME NEW s \in SUBSET nodes, x \in s, \A v \in s : out(v) \subseteq s PROVE z \in s
    BY <2>2 DEF Reached
  <2>3. QED  BY <2>1, <2>2 DEF Reached
<1>3. \A s \in SUBSET nodes : x \in s /\ (\A y \in s : out(y) \subseteq s) => Reached(x) \subseteq s
  BY DEF Reached
<1>4. ASSUME NEW y \in Reached(x) PROVE Reached(y) \subseteq Reached(x)
  BY <1>1, <1>2 DEF Reached
<1>5. QED  BY <1>1, <1>2, <1>3, <1>4

\* While the imports stay, so does what files reach.
LEMMA ImportsStand ==
  ASSUME imports' = imports
  PROVE  /\ nodes' = nodes
         /\ \A x : out(x)' = out(x) /\ in(x)' = in(x)
         /\ \A x : Reached(x)' = Reached(x) /\ Together(x)' = Together(x)
<1>1. \A x : out(x)' = out(x) /\ in(x)' = in(x)
  BY DEF out, in
<1>2. nodes' = nodes
  BY DEF nodes, out, in
<1>3. \A x : Reached(x)' = Reached(x)
  BY DEF Reached, nodes, out, in
<1>4. \A x : Together(x)' = Together(x)
  BY <1>3 DEF Together
<1>5. QED  BY <1>1, <1>2, <1>3, <1>4

-----------------------------------------------------------------------------
(* The walk                                                                *)

Piled == ToSet(pile)
Cut == visited \ Piled
Walked(k) == work[k].node
OnWork == {Walked(k) : k \in DOMAIN work}
Finished == Piled \ OnWork
\* The file of the work list below which x was visited.
Under(k, x) ==
  /\ index[Walked(k)] <= index[x]
  /\ k = Len(work) \/ index[x] < index[Walked(k + 1)]

\* Files are counted as they are first seen.
Numbered ==
  /\ imports \in Projects
  /\ visited \subseteq nodes /\ DOMAIN low = visited
  /\ \A x \in visited : index[x] \in 0..(Cardinality(visited) - 1)
  /\ \A x, y \in visited : index[x] = index[y] => x = y

\* Both lists hold files in the order in which they were seen.
InOrderSeen ==
  /\ pile \in Seq(nodes) /\ Piled \subseteq visited
  /\ \A i, j \in DOMAIN pile : i < j => index[pile[i]] < index[pile[j]]
  /\ work \in Seq([node : nodes, edges : SUBSET nodes])
  /\ \A k \in DOMAIN work : Walked(k) \in Piled
  /\ \A j, k \in DOMAIN work : j < k => index[Walked(j)] < index[Walked(k)]

\* What was followed has been seen, and nothing leads out of what was cut off.
Followings ==
  /\ \A k \in DOMAIN work :
       /\ work[k].edges \subseteq out(Walked(k))
       /\ \A y \in out(Walked(k)) : y \in work[k].edges \/ y \in visited
  /\ \A x \in visited : x \in OnWork \/ out(x) \subseteq visited
  /\ \A x \in Cut : out(x) \subseteq Cut

\* A file on the work list reaches all that was put on the stack since.
Subtrees ==
  /\ \A x \in Piled : \E k \in DOMAIN work : index[Walked(k)] <= index[x]
  /\ \A k \in DOMAIN work : \A x \in Piled :
       index[Walked(k)] <= index[x] => x \in Reached(Walked(k))

\* A low link names a file of the stack that is reached, and none that is
\* followed from below comes sooner.
LowLinks ==
  /\ \A x \in Piled : /\ low[x] \in Nat /\ low[x] <= index[x]
                      /\ \E y \in Piled : index[y] = low[x] /\ y \in Reached(x)
  /\ \A x \in Finished : low[x] < index[x]
  /\ \A k \in DOMAIN work : \A x \in Finished : Under(k, x) => low[Walked(k)] <= low[x]
  /\ \A x \in Finished : \A y \in out(x) : y \in Piled => low[x] <= index[y]
  /\ \A k \in DOMAIN work : \A y \in out(Walked(k)) :
       y \notin work[k].edges /\ y \in Piled => low[Walked(k)] <= index[y]

\* What was found is what was cut off.
Components ==
  \A c : c \in ToSet(found) <=> Cardinality(c) > 1 /\ \E x \in Cut : c = Together(x)

WalkInv ==
  /\ Numbered /\ InOrderSeen /\ Followings /\ Subtrees /\ LowLinks /\ Components
  /\ found \in Seq(SUBSET nodes)

CyclesInv ==
  /\ WalkInv
  /\ structure # NoStructure => work = <<>> /\ nodes \subseteq visited
  /\ CyclesAreMutual

\* A file is seen for the first time.
LEMMA VisitStep ==
  ASSUME WalkInv, NEW f \in nodes, f \notin visited,
         NEW frames \in Seq([node : nodes, edges : SUBSET nodes]),
         Len(frames) = Len(work),
         \A k \in DOMAIN work :
           /\ frames[k].node = Walked(k) /\ frames[k].edges \subseteq work[k].edges
           /\ \A y \in work[k].edges : y \in frames[k].edges \/ y = f
           /\ f \in Reached(Walked(k)),
         Visit(f, frames)
  PROVE  WalkInv'
<1> DEFINE N == Cardinality(visited)
<1>0. PICK L : L = Len(work)
  OBVIOUS
<1>1. /\ nodes' = nodes
      /\ \A x : out(x)' = out(x)
      /\ \A x : Reached(x)' = Reached(x) /\ Together(x)' = Together(x)
  BY ImportsStand DEF Visit
<1>2. N \in Nat /\ visited' = visited \cup {f} /\ Cardinality(visited') = N + 1
  <2>1. IsFiniteSet(visited)
    BY ImportsAreFinite, FS_Subset DEF WalkInv, Numbered
  <2>2. visited' = visited \cup {f}
    BY DEF Visit, visited
  <2>3. QED  BY <2>1, <2>2, FS_CardinalityType, FS_AddElement
<1>3. /\ \A x \in visited : /\ index'[x] = index[x] /\ low'[x] = low[x]
                            /\ index[x] \in Nat /\ index[x] < N
      /\ index'[f] = N /\ low'[f] = N /\ DOMAIN low' = visited \cup {f}
  BY <1>2 DEF Visit, WalkInv, Numbered
<1>4. /\ L \in Nat /\ DOMAIN work = 1..L /\ DOMAIN work' = 1..(L + 1) /\ Len(work') = L + 1
      /\ \A k \in 1..L : work'[k] = frames[k]
      /\ work'[L + 1] = [node |-> f, edges |-> out(f)]
      /\ work' \in Seq([node : nodes, edges : SUBSET nodes])
  <2>1. L \in Nat /\ DOMAIN work = 1..L
    BY <1>0 DEF WalkInv, InOrderSeen
  <2>2. out(f) \subseteq nodes
    BY ImportsStayInside
  <2>3. work' = Append(frames, [node |-> f, edges |-> out(f)])
    BY DEF Visit, Frame
  <2>4. [node |-> f, edges |-> out(f)] \in [node : nodes, edges : SUBSET nodes]
    BY <2>2
  <2>5. QED  BY <1>0, <2>1, <2>3, <2>4
<1>5. /\ Len(pile) \in Nat /\ DOMAIN pile = 1..Len(pile) /\ DOMAIN pile' = 1..(Len(pile) + 1)
      /\ \A i \in 1..Len(pile) : pile'[i] = pile[i]
      /\ pile'[Len(pile) + 1] = f
      /\ pile' \in Seq(nodes)
  BY DEF Visit, WalkInv, InOrderSeen
<1>6. Piled' = Piled \cup {f} /\ Piled \subseteq visited
  <2>1. Piled' = {pile'[i] : i \in DOMAIN pile'}
    BY DEF Piled, ToSet
  <2>2. \A i \in DOMAIN pile' : i \in DOMAIN pile \/ i = Len(pile) + 1
    BY <1>5
  <2>3. QED  BY <1>5, <2>1, <2>2 DEF Piled, ToSet, WalkInv, InOrderSeen
<1>7. /\ \A k \in 1..L : Walked(k)' = Walked(k)
      /\ Walked(L + 1)' = f
      /\ OnWork' = OnWork \cup {f}
  <2>1. /\ \A k \in 1..L : Walked(k)' = Walked(k)
        /\ Walked(L + 1)' = f
    BY <1>4 DEF Walked
  <2>2. OnWork' = {Walked(k)' : k \in DOMAIN work'}
    BY DEF OnWork, Walked
  <2>3. \A k \in DOMAIN work' : k \in 1..L \/ k = L + 1
    BY <1>4
  <2>4. 1..L \subseteq DOMAIN work' /\ L + 1 \in DOMAIN work'
    BY <1>4
  <2>5. QED  BY <1>4, <2>1, <2>2, <2>3, <2>4 DEF OnWork
<1>8. Finished' = Finished /\ Cut' = Cut
  BY <1>2, <1>6, <1>7 DEF Finished, Cut
<1>9. \A k \in 1..L : Walked(k) \in Piled /\ Walked(k) \in visited /\ Walked(k) # f
  BY <1>4, <1>6 DEF WalkInv, InOrderSeen
<1> HIDE DEF N
<1>10. Numbered'
  <2>1. \A x \in visited' : index'[x] \in 0..(Cardinality(visited') - 1)
    BY <1>2, <1>3
  <2>2. \A x, y \in visited' : index'[x] = index'[y] => x = y
    BY <1>2, <1>3 DEF WalkInv, Numbered
  <2>3. visited' \subseteq nodes' /\ DOMAIN low' = visited' /\ imports' \in Projects
    BY <1>1, <1>2, <1>3 DEF WalkInv, Numbered, Visit
  <2>4. QED  BY <2>1, <2>2, <2>3 DEF Numbered
<1>11. InOrderSeen'
  <2>1. \A i, j \in DOMAIN pile' : i < j => index'[pile'[i]] < index'[pile'[j]]
    <3>1. \A i \in 1..Len(pile) : pile[i] \in Piled
      BY <1>5 DEF Piled, ToSet
    <3>2. TAKE i, j \in DOMAIN pile'
    <3>3. HAVE i < j
    <3>4. CASE j \in 1..Len(pile)
      BY <1>3, <1>5, <1>6, <3>1, <3>3, <3>4 DEF WalkInv, InOrderSeen
    <3>5. CASE j = Len(pile) + 1
      BY <1>3, <1>5, <1>6, <3>1, <3>3, <3>5
    <3>6. QED  BY <1>5, <3>4, <3>5
  <2>2. \A k \in DOMAIN work' : Walked(k)' \in Piled'
    BY <1>4, <1>6, <1>7, <1>9
  <2>3. \A j, k \in DOMAIN work' : j < k => index'[Walked(j)'] < index'[Walked(k)']
    <3>1. TAKE j, k \in DOMAIN work'
    <3>2. HAVE j < k
    <3>3. CASE k \in 1..L
      BY <1>3, <1>4, <1>7, <1>9, <3>2, <3>3 DEF WalkInv, InOrderSeen
    <3>4. CASE k = L + 1
      BY <1>3, <1>4, <1>7, <1>9, <3>2, <3>4
    <3>5. QED  BY <1>4, <3>3, <3>4
  <2>4. QED  BY <1>1, <1>2, <1>4, <1>5, <1>6, <2>1, <2>2, <2>3 DEF InOrderSeen
<1>12. Followings'
  <2>1. ASSUME NEW k \in DOMAIN work'
        PROVE  /\ work'[k].edges \subseteq out(Walked(k)')
               /\ \A y \in out(Walked(k)') : y \in work'[k].edges \/ y \in visited'
    <3>1. CASE k \in 1..L
      BY <1>2, <1>4, <1>7, <3>1 DEF WalkInv, Followings
    <3>2. CASE k = L + 1
      BY <1>4, <1>7, <3>2
    <3>3. QED  BY <1>4, <3>1, <3>2
  <2>2. \A x \in visited' : x \in OnWork' \/ out(x) \subseteq visited'
    BY <1>2, <1>7 DEF WalkInv, Followings
  <2>3. \A x \in Cut' : out(x) \subseteq Cut'
    BY <1>8 DEF WalkInv, Followings
  <2>4. QED  BY <1>1, <2>1, <2>2, <2>3 DEF Followings
<1>13. Subtrees'
  <2>1. ASSUME NEW x \in Piled' PROVE \E k \in DOMAIN work' : index'[Walked(k)'] <= index'[x]
    <3>1. CASE x = f
      BY <1>2, <1>3, <1>4, <1>7, <3>1
    <3>2. CASE x \in Piled
      <4>1. PICK k \in DOMAIN work : index[Walked(k)] <= index[x]
        BY <3>2 DEF WalkInv, Subtrees
      <4>2. k \in 1..L /\ k \in DOMAIN work'
        BY <1>4
      <4>3. QED  BY <1>3, <1>6, <1>7, <1>9, <3>2, <4>1, <4>2
    <3>3. QED  BY <1>6, <3>1, <3>2
  <2>2. ASSUME NEW k \in DOMAIN work', NEW x \in Piled', index'[Walked(k)'] <= index'[x]
        PROVE  x \in Reached(Walked(k)')
    <3>1. CASE k \in 1..L /\ x = f
      BY <1>4, <1>7, <3>1
    <3>2. CASE k \in 1..L /\ x # f
      BY <1>3, <1>4, <1>6, <1>7, <1>9, <2>2, <3>2 DEF WalkInv, Subtrees
    <3>3. CASE k = L + 1
      <4>1. x = f
        BY <1>2, <1>3, <1>6, <1>7, <2>2, <3>3
      <4>2. QED  BY <1>7, <3>3, <4>1, ReachedFacts
    <3>4. QED  BY <1>4, <3>1, <3>2, <3>3
  <2>3. \A k \in DOMAIN work' : \A x \in Piled' :
          index'[Walked(k)'] <= index'[x] => x \in (Reached(Walked(k)))'
    <3>1. \A k : (Reached(Walked(k)))' = Reached(Walked(k)')
      BY DEF Reached, nodes, out, in, Visit
    <3>2. QED  BY <2>2, <3>1
  <2>4. QED  BY <2>1, <2>3 DEF Subtrees
<1>14. LowLinks'
  <2>1. ASSUME NEW x \in Piled'
        PROVE  /\ low'[x] \in Nat /\ low'[x] <= index'[x]
               /\ \E y \in Piled' : index'[y] = low'[x] /\ y \in Reached(x)
    <3>1. CASE x = f
      BY <1>2, <1>3, <1>6, <3>1, ReachedFacts
    <3>2. CASE x \in Piled
      BY <1>3, <1>6, <3>2 DEF WalkInv, LowLinks
    <3>3. QED  BY <1>6, <3>1, <3>2
  <2>2. \A x \in Finished : x \in Piled /\ x \in visited
    BY <1>6 DEF Finished
  <2>3. \A x \in Finished' : low'[x] < index'[x]
    BY <1>3, <1>8, <2>2 DEF WalkInv, LowLinks
  <2>4. ASSUME NEW k \in DOMAIN work', NEW x \in Finished', Under(k, x)'
        PROVE  low'[Walked(k)'] <= low'[x]
    <3>1. /\ index'[Walked(k)'] <= index'[x]
          /\ k = L + 1 \/ index'[x] < index'[Walked(k + 1)']
      BY <1>4, <2>4 DEF Under, Walked
    <3>2. x \in visited /\ x \in Finished /\ index'[x] = index[x] /\ low'[x] = low[x] /\ index[x] < N
          /\ index[x] \in Nat
      BY <1>3, <1>8, <2>2
    <3>3. k \in 1..L
      BY <1>2, <1>3, <1>4, <1>7, <3>1, <3>2
    <3>4. Under(k, x)
      <4>1. index[Walked(k)] <= index[x]
        BY <1>3, <1>7, <1>9, <3>1, <3>2, <3>3
      <4>2. k = Len(work) \/ (k + 1 \in 1..L /\ index[x] < index[Walked(k + 1)])
        BY <1>0, <1>3, <1>4, <1>7, <1>9, <3>1, <3>2, <3>3
      <4>3. QED  BY <4>1, <4>2 DEF Under
    <3>5. low[Walked(k)] <= low[x]
      BY <1>4, <3>2, <3>3, <3>4 DEF WalkInv, LowLinks
    <3>6. QED  BY <1>3, <1>7, <1>9, <3>2, <3>3, <3>5
  <2>5. ASSUME NEW x \in Finished', NEW y \in out(x), y \in Piled' PROVE low'[x] <= index'[y]
    <3>1. x \in Finished /\ x \in visited /\ x \notin OnWork
      BY <1>8, <2>2 DEF Finished
    <3>2. y \in visited /\ y # f
      BY <3>1 DEF WalkInv, Followings
    <3>3. low[x] <= index[y]
      BY <1>6, <2>5, <3>1, <3>2 DEF WalkInv, LowLinks
    <3>4. QED  BY <1>3, <3>1, <3>2, <3>3
  <2>6. ASSUME NEW k \in DOMAIN work', NEW y \in out(Walked(k)'), y \notin work'[k].edges, y \in Piled'
        PROVE  low'[Walked(k)'] <= index'[y]
    <3>1. k \in 1..L
      BY <1>4, <1>7, <2>6
    <3>2. Walked(k)' = Walked(k) /\ low'[Walked(k)] = low[Walked(k)] /\ index[Walked(k)] < N
          /\ low[Walked(k)] \in Nat /\ index[Walked(k)] \in Nat /\ low[Walked(k)] <= index[Walked(k)]
      BY <1>3, <1>7, <1>9, <3>1 DEF WalkInv, LowLinks
    <3>3. CASE y = f
      BY <1>2, <1>3, <3>2, <3>3
    <3>4. CASE y # f
      <4>1. y \notin work[k].edges /\ y \in Piled /\ y \in visited /\ index'[y] = index[y]
        BY <1>3, <1>4, <1>6, <2>6, <3>1, <3>4
      <4>2. low[Walked(k)] <= index[y]
        BY <1>4, <2>6, <3>1, <3>2, <4>1 DEF WalkInv, LowLinks
      <4>3. QED  BY <3>2, <4>1, <4>2
    <3>5. QED  BY <3>3, <3>4
  <2>7. \A k : out(Walked(k))' = out(Walked(k)')
    BY DEF out, Visit
  <2>8. QED  BY <1>1, <2>1, <2>3, <2>4, <2>5, <2>6, <2>7 DEF LowLinks
<1>15. Components' /\ found' \in Seq(SUBSET nodes')
  BY <1>1, <1>8 DEF Components, Visit, WalkInv
<1>16. QED  BY <1>10, <1>11, <1>12, <1>13, <1>14, <1>15 DEF WalkInv

\* What is on top of the work list, and the list once its next import is taken.
LEMMA TopFacts ==
  ASSUME WalkInv, work # <<>>
  PROVE  /\ Len(work) \in Nat /\ Len(work) \in DOMAIN work /\ DOMAIN work = 1..Len(work)
         /\ Top = work[Len(work)] /\ Top.node = Walked(Len(work))
         /\ Top.node \in Piled /\ Top.node \in visited /\ Top.node \in nodes
         /\ Top.edges \subseteq out(Top.node)
         /\ \A k \in DOMAIN work : /\ Walked(k) \in Piled /\ Walked(k) \in visited
                                   /\ Walked(k) \in nodes
                                   /\ index[Walked(k)] <= index[Top.node]
                                   /\ Top.node \in Reached(Walked(k))
<1>1. Len(work) \in Nat /\ Len(work) \in DOMAIN work /\ DOMAIN work = 1..Len(work)
  BY DEF WalkInv, InOrderSeen
<1>2. \A k \in DOMAIN work : Walked(k) \in Piled /\ Walked(k) \in visited /\ Walked(k) \in nodes
                             /\ index[Walked(k)] \in Nat
  BY DEF WalkInv, InOrderSeen, Numbered
<1>3. Top.node = Walked(Len(work)) /\ Top = work[Len(work)]
  BY DEF Walked, Top
<1>4. Top.edges \subseteq out(Top.node)
  BY <1>1, <1>3 DEF WalkInv, Followings
<1>5. \A k \in DOMAIN work : index[Walked(k)] <= index[Top.node]
  <2>1. TAKE k \in DOMAIN work
  <2>2. k = Len(work) \/ k < Len(work)
    BY <1>1
  <2>3. QED  BY <1>1, <1>2, <1>3, <2>2 DEF WalkInv, InOrderSeen
<1>6. \A k \in DOMAIN work : Top.node \in Reached(Walked(k))
  BY <1>1, <1>2, <1>3, <1>5 DEF WalkInv, Subtrees
<1>7. QED  BY <1>1, <1>2, <1>3, <1>4, <1>5, <1>6

\* What following an import does to the work that is left.
LEMMA FollowedFacts ==
  ASSUME WalkInv, work # <<>>, Top.edges # {}
  PROVE  /\ Child \in Top.edges /\ Child \in out(Top.node) /\ Child \in nodes
         /\ Followed \in Seq([node : nodes, edges : SUBSET nodes])
         /\ Len(Followed) = Len(work) /\ DOMAIN Followed = DOMAIN work
         /\ \A k \in DOMAIN work :
              /\ Followed[k].node = Walked(k) /\ Followed[k].edges \subseteq work[k].edges
              /\ \A y \in work[k].edges : y \in Followed[k].edges \/ y = Child
         /\ \A k \in DOMAIN work : k # Len(work) => Followed[k] = work[k]
<1>1. Child \in Top.edges
  <2>1. Top.edges \in SUBSET Nat
    BY TopFacts, ImportsStayInside, ImportsAreFinite DEF WalkInv, Numbered
  <2>2. \E x \in Top.edges : \A y \in Top.edges : x <= y
    BY <2>1, LeastNumber
  <2>3. QED  BY <2>2 DEF Child, Min
<1>2. work \in Seq([node : nodes, edges : SUBSET nodes])
  BY DEF WalkInv, InOrderSeen
<1>3. Followed = [work EXCEPT ![Len(work)] = [work[Len(work)] EXCEPT !.edges = Top.edges \ {Child}]]
  BY DEF Followed, Top
<1>4. work[Len(work)] \in [node : nodes, edges : SUBSET nodes]
  <2>1. Len(work) \in 1..Len(work)
    BY TopFacts
  <2> DEFINE S == [node : nodes, edges : SUBSET nodes]
  <2> HIDE DEF S
  <2>2. work \in Seq(S)
    BY <1>2 DEF S
  <2>3. work[Len(work)] \in S
    BY <2>1, <2>2
  <2>4. QED  BY <2>3 DEF S
<1> DEFINE less == [work[Len(work)] EXCEPT !.edges = Top.edges \ {Child}]
<1>5. less \in [node : nodes, edges : SUBSET nodes] /\ less.node = Top.node
      /\ less.edges = Top.edges \ {Child}
  BY <1>4 DEF Top
<1> HIDE DEF less
<1>6. Followed = [work EXCEPT ![Len(work)] = less]
  BY <1>3 DEF less
<1>7. /\ Followed \in Seq([node : nodes, edges : SUBSET nodes])
      /\ Len(Followed) = Len(work) /\ DOMAIN Followed = DOMAIN work
      /\ Followed[Len(work)] = less
      /\ \A k \in DOMAIN work : k # Len(work) => Followed[k] = work[k]
  BY <1>2, <1>5, <1>6, TopFacts
<1>8. \A k \in DOMAIN work :
        /\ Followed[k].node = Walked(k) /\ Followed[k].edges \subseteq work[k].edges
        /\ \A y \in work[k].edges : y \in Followed[k].edges \/ y = Child
  <2>1. TAKE k \in DOMAIN work
  <2>2. CASE k = Len(work)
    BY <1>5, <1>7, <2>2, TopFacts
  <2>3. CASE k # Len(work)
    BY <1>7, <2>3 DEF Walked
  <2>4. QED  BY <2>2, <2>3
<1>9. Child \in out(Top.node) /\ Child \in nodes
  BY <1>1, TopFacts, ImportsStayInside
<1>10. QED  BY <1>1, <1>7, <1>8, <1>9

\* The next import has been seen before.
LEMMA MeetStep ==
  ASSUME WalkInv, MeetChild
  PROVE  WalkInv'
<1> DEFINE t == Top.node
<1>0. /\ work # <<>> /\ Top.edges # {} /\ Child \in visited
      /\ low' = LowAfter(t, Child) /\ work' = Followed
      /\ imports' = imports /\ index' = index /\ pile' = pile /\ found' = found
  BY DEF MeetChild
<1>1. PICK L, c : L = Len(work) /\ c = Child
  OBVIOUS
<1>2. /\ nodes' = nodes
      /\ \A x : out(x)' = out(x)
      /\ \A x : Reached(x)' = Reached(x) /\ Together(x)' = Together(x)
  BY <1>0, ImportsStand
<1>3. /\ L \in Nat /\ L \in 1..L /\ DOMAIN work = 1..L /\ t = Walked(L) /\ t \in Piled /\ t \in visited
      /\ t \in nodes /\ c \in work[L].edges /\ c \in out(t) /\ c \in nodes /\ c \in visited
  BY <1>0, <1>1, TopFacts, FollowedFacts
<1>4. /\ work' \in Seq([node : nodes, edges : SUBSET nodes])
      /\ Len(work') = L /\ DOMAIN work' = 1..L
      /\ \A k \in 1..L :
           /\ work'[k].node = Walked(k) /\ work'[k].edges \subseteq work[k].edges
           /\ \A y \in work[k].edges : y \in work'[k].edges \/ y = c
           /\ k # L => work'[k] = work[k]
  BY <1>0, <1>1, <1>3, FollowedFacts
<1>5. /\ visited' = visited /\ Piled' = Piled /\ Cut' = Cut
      /\ \A k \in 1..L : Walked(k)' = Walked(k)
      /\ OnWork' = OnWork /\ Finished' = Finished
  <2>1. visited' = visited /\ Piled' = Piled /\ Cut' = Cut
    BY <1>0 DEF visited, Piled, Cut
  <2>2. \A k \in 1..L : Walked(k)' = Walked(k)
    BY <1>4 DEF Walked
  <2>3. OnWork' = OnWork
    BY <1>3, <1>4 DEF OnWork, Walked
  <2>4. QED  BY <2>1, <2>2, <2>3 DEF Finished
<1>6. \A x \in visited : index[x] \in Nat
  BY DEF WalkInv, Numbered
<1>7. \A x \in Piled : x \in visited /\ low[x] \in Nat /\ low[x] <= index[x]
  BY DEF WalkInv, InOrderSeen, LowLinks
<1>8. /\ DOMAIN low' = visited
      /\ \A x \in visited : x # t => low'[x] = low[x]
      /\ low'[t] \in Nat /\ low'[t] <= low[t]
      /\ low'[t] = low[t] \/ (c \in Piled /\ low'[t] = index[c])
      /\ c \in Piled => low'[t] <= index[c]
  <2>1. DOMAIN low = visited
    BY DEF WalkInv, Numbered
  <2>2. CASE c \notin Piled
    <3>1. low' = low
      BY <1>0, <1>1, <2>2 DEF LowAfter, Piled
    <3>2. QED  BY <1>3, <1>7, <2>1, <2>2, <3>1
  <2>3. CASE c \in Piled
    <3> DEFINE lower == Min({low[t], index[c]})
    <3>1. lower \in {low[t], index[c]} /\ lower <= low[t] /\ lower <= index[c]
      <4>1. {low[t], index[c]} \in SUBSET Nat /\ {low[t], index[c]} # {}
        BY <1>3, <1>6, <1>7
      <4>2. \E x \in {low[t], index[c]} : \A y \in {low[t], index[c]} : x <= y
        BY <4>1, LeastNumber
      <4>3. QED  BY <4>2 DEF Min
    <3>2. low' = [low EXCEPT ![t] = lower]
      BY <1>0, <1>1, <2>3 DEF LowAfter, Piled
    <3> HIDE DEF lower, t
    <3>3. QED  BY <1>3, <1>6, <1>7, <2>1, <2>3, <3>1, <3>2
  <2>4. QED  BY <2>2, <2>3
<1> HIDE DEF t
<1>9. \A x \in Piled : low'[x] \in Nat /\ low'[x] <= low[x]
  BY <1>7, <1>8
<1>10. Numbered'
  BY <1>0, <1>2, <1>5, <1>8 DEF Numbered, WalkInv
<1>11. InOrderSeen'
  BY <1>0, <1>2, <1>3, <1>4, <1>5 DEF InOrderSeen, WalkInv
<1>12. Followings'
  <2>1. ASSUME NEW k \in 1..L
        PROVE  /\ work'[k].edges \subseteq out(Walked(k))
               /\ \A y \in out(Walked(k)) : y \in work'[k].edges \/ y \in visited
    BY <1>3, <1>4 DEF WalkInv, Followings
  <2>2. \A k \in DOMAIN work' : /\ work'[k].edges \subseteq out(Walked(k)')
                                /\ \A y \in out(Walked(k)') : y \in work'[k].edges \/ y \in visited'
    BY <1>4, <1>5, <2>1
  <2>3. QED  BY <1>2, <1>5, <2>2 DEF Followings, WalkInv
<1>13. Subtrees'
  <2>1. \A x \in Piled' : \E k \in DOMAIN work' : index'[Walked(k)'] <= index'[x]
    BY <1>0, <1>3, <1>4, <1>5 DEF Subtrees, WalkInv
  <2>2. \A k \in DOMAIN work' : \A x \in Piled' :
          index'[Walked(k)'] <= index'[x] => x \in Reached(Walked(k)')
    BY <1>0, <1>3, <1>4, <1>5 DEF Subtrees, WalkInv
  <2>3. \A k : (Reached(Walked(k)))' = Reached(Walked(k)')
    BY <1>0 DEF Reached, nodes, out, in
  <2>4. QED  BY <2>1, <2>2, <2>3 DEF Subtrees
<1>14. LowLinks'
  <2>1. \A x \in Piled' : /\ low'[x] \in Nat /\ low'[x] <= index'[x]
                          /\ \E y \in Piled' : index'[y] = low'[x] /\ y \in Reached(x)
    <3>1. TAKE x \in Piled'
    <3>2. x \in Piled /\ low'[x] \in Nat /\ low'[x] <= index[x] /\ x \in visited
      BY <1>5, <1>6, <1>7, <1>9
    <3>3. CASE low'[x] = low[x]
      BY <1>0, <1>5, <3>2, <3>3 DEF WalkInv, LowLinks
    <3>4. CASE low'[x] # low[x]
      <4>1. x = t /\ c \in Piled /\ low'[x] = index[c]
        BY <1>8, <3>2, <3>4
      <4>2. c \in Reached(t)
        BY <1>3, ReachedFacts
      <4>3. QED  BY <1>0, <1>5, <3>2, <4>1, <4>2
    <3>5. QED  BY <3>3, <3>4
  <2>2. \A x \in Finished : x \in Piled /\ x \in visited /\ x # t /\ low'[x] = low[x]
    BY <1>3, <1>7, <1>8 DEF Finished, OnWork
  <2>3. \A x \in Finished' : low'[x] < index'[x]
    BY <1>0, <1>5, <2>2 DEF WalkInv, LowLinks
  <2>4. ASSUME NEW k \in DOMAIN work', NEW x \in Finished', Under(k, x)'
        PROVE  low'[Walked(k)'] <= low'[x]
    <3>1. k \in 1..L /\ x \in Finished /\ Walked(k)' = Walked(k) /\ Walked(k) \in Piled
      BY <1>3, <1>4, <1>5 DEF WalkInv, InOrderSeen
    <3>2. Under(k, x)
      <4>1. /\ index'[Walked(k)'] <= index'[x]
            /\ k = L \/ index'[x] < index'[Walked(k + 1)']
        BY <1>4, <2>4 DEF Under, Walked
      <4>2. k = L \/ Walked(k + 1)' = Walked(k + 1)
        <5>1. k = L \/ k + 1 \in 1..L
          BY <1>3, <3>1
        <5>2. QED  BY <1>4, <5>1 DEF Walked
      <4>3. QED  BY <1>0, <1>1, <3>1, <4>1, <4>2 DEF Under
    <3>3. low[Walked(k)] <= low[x]
      BY <1>3, <3>1, <3>2 DEF WalkInv, LowLinks
    <3>4. low[x] \in Nat /\ low'[x] = low[x] /\ low[Walked(k)] \in Nat
      BY <1>7, <2>2, <3>1
    <3>5. low'[Walked(k)] \in Nat /\ low'[Walked(k)] <= low[Walked(k)]
      BY <1>9, <3>1
    <3>6. QED  BY <3>1, <3>3, <3>4, <3>5
  <2>5. \A x \in Finished' : \A y \in out(x) : y \in Piled' => low'[x] <= index'[y]
    BY <1>0, <1>5, <2>2 DEF WalkInv, LowLinks
  <2>6. ASSUME NEW k \in DOMAIN work', NEW y \in out(Walked(k)'), y \notin work'[k].edges, y \in Piled'
        PROVE  low'[Walked(k)'] <= index'[y]
    <3>1. k \in 1..L /\ Walked(k)' = Walked(k) /\ Walked(k) \in Piled /\ y \in Piled /\ y \in visited
          /\ y \in out(Walked(k))
      BY <1>3, <1>4, <1>5, <1>7, <2>6 DEF WalkInv, InOrderSeen
    <3>2. /\ low'[Walked(k)] \in Nat /\ low'[Walked(k)] <= low[Walked(k)] /\ low[Walked(k)] \in Nat
          /\ index[y] \in Nat
      BY <1>6, <1>7, <1>9, <3>1
    <3>3. CASE y \notin work[k].edges
      <4>1. low[Walked(k)] <= index[y]
        BY <1>3, <3>1, <3>3 DEF WalkInv, LowLinks
      <4>2. QED  BY <1>0, <3>1, <3>2, <4>1
    <3>4. CASE y \in work[k].edges
      <4>1. y = c /\ k = L
        BY <1>4, <2>6, <3>1, <3>4
      <4>2. QED  BY <1>0, <1>3, <1>8, <3>1, <4>1
    <3>5. QED  BY <3>3, <3>4
  <2>7. \A k : out(Walked(k))' = out(Walked(k)')
    BY <1>0 DEF out
  <2>8. QED  BY <1>2, <2>1, <2>3, <2>4, <2>5, <2>6, <2>7 DEF LowLinks
<1>15. Components' /\ found' \in Seq(SUBSET nodes')
  BY <1>0, <1>2, <1>5 DEF Components, WalkInv
<1>16. QED  BY <1>10, <1>11, <1>12, <1>13, <1>14, <1>15 DEF WalkInv

\* What becomes of the lists when the file on top is left.
LEMMA LeaveFacts ==
  ASSUME WalkInv, LeaveFile, NEW L, L = Len(work), NEW t, t = Top.node
  PROVE  /\ work # <<>> /\ imports' = imports /\ index' = index /\ structure' = structure
         /\ L \in Nat /\ L \in 1..L /\ DOMAIN work = 1..L /\ t = Walked(L)
         /\ t \in Piled /\ t \in visited /\ t \in nodes
         /\ work' \in Seq([node : nodes, edges : SUBSET nodes])
         /\ Len(work') = L - 1 /\ DOMAIN work' = 1..(L - 1)
         /\ \A k \in 1..(L - 1) : work'[k] = work[k] /\ Walked(k)' = Walked(k)
         /\ \A k \in 1..(L - 1) : index[Walked(k)] < index[t]
         /\ \A x : x \in OnWork <=> x = t \/ x \in OnWork'
         /\ t \notin OnWork'
         /\ out(t) \subseteq visited
         /\ \A y \in out(t) : y \in Piled => low[t] <= index[y]
         /\ DOMAIN low' = visited
         /\ \A x \in visited : low'[x] = low[x] \/ (L > 1 /\ x = Walked(L - 1))
         /\ L > 1 => /\ low'[Walked(L - 1)] \in {low[Walked(L - 1)], low[t]}
                     /\ low'[Walked(L - 1)] <= low[Walked(L - 1)]
                     /\ low'[Walked(L - 1)] <= low[t]
<1>0. /\ work # <<>> /\ Top.edges = {} /\ work' = Front(work)
      /\ imports' = imports /\ index' = index /\ structure' = structure
  BY DEF LeaveFile
<1>1. /\ L \in Nat /\ L \in 1..L /\ DOMAIN work = 1..L /\ t = Walked(L)
      /\ t \in Piled /\ t \in visited /\ t \in nodes
  BY <1>0, TopFacts
<1>2. /\ work' \in Seq([node : nodes, edges : SUBSET nodes])
      /\ Len(work') = L - 1 /\ DOMAIN work' = 1..(L - 1)
      /\ \A k \in 1..(L - 1) : work'[k] = work[k]
  <2> DEFINE S == [node : nodes, edges : SUBSET nodes]
  <2>1. work \in Seq(S)
    BY DEF WalkInv, InOrderSeen
  <2>2. work' = SubSeq(work, 1, L - 1)
    BY <1>0 DEF Front
  <2> HIDE DEF S
  <2>3. /\ work' \in Seq(S) /\ Len(work') = L - 1 /\ DOMAIN work' = 1..(L - 1)
        /\ \A k \in 1..(L - 1) : work'[k] = work[k]
    BY <1>1, <2>1, <2>2
  <2>4. QED  BY <2>3 DEF S
<1>3. \A k \in 1..(L - 1) : Walked(k)' = Walked(k)
  BY <1>2 DEF Walked
<1>4. \A k \in 1..(L - 1) : index[Walked(k)] < index[t]
  BY <1>1 DEF WalkInv, InOrderSeen
<1>5. (\A x : x \in OnWork <=> x = t \/ x \in OnWork') /\ t \notin OnWork'
  <2>1. OnWork' = {Walked(k) : k \in 1..(L - 1)}
    BY <1>2, <1>3 DEF OnWork, Walked
  <2>2. \A k \in 1..L : k = L \/ k \in 1..(L - 1)
    BY <1>1
  <2>3. \A k \in 1..(L - 1) : k \in 1..L /\ Walked(k) # t
    <3>1. \A k \in 1..(L - 1) : k \in 1..L
      BY <1>1
    <3>2. index[t] \in Nat
      BY <1>1 DEF WalkInv, Numbered
    <3>3. QED  BY <1>4, <3>1, <3>2
  <2>4. QED  BY <1>1, <2>1, <2>2, <2>3 DEF OnWork
<1>6. out(t) \subseteq visited /\ \A y \in out(t) : y \in Piled => low[t] <= index[y]
  <2>1. work[L].edges = {}
    BY <1>0 DEF Top
  <2>2. QED  BY <1>1, <2>1 DEF WalkInv, Followings, LowLinks
<1>7. \A x \in Piled : x \in visited /\ low[x] \in Nat
  BY DEF WalkInv, InOrderSeen, LowLinks
<1>8. DOMAIN low = visited
  BY DEF WalkInv, Numbered
<1>9. /\ DOMAIN low' = visited
      /\ \A x \in visited : low'[x] = low[x] \/ (L > 1 /\ x = Walked(L - 1))
      /\ L > 1 => /\ low'[Walked(L - 1)] \in {low[Walked(L - 1)], low[t]}
                  /\ low'[Walked(L - 1)] <= low[Walked(L - 1)]
                  /\ low'[Walked(L - 1)] <= low[t]
  <2>1. CASE L = 1
    BY <1>8, <2>1 DEF LeaveFile
  <2>2. CASE L # 1
    <3> DEFINE p == Walked(L - 1)
               both == {low[p], low[t]}
               lower == Min(both)
    <3>1. L > 1 /\ p \in Piled
      <4>1. L - 1 \in DOMAIN work
        BY <1>1, <2>2
      <4>2. Walked(L - 1) \in Piled
        BY <4>1 DEF WalkInv, InOrderSeen
      <4>3. QED  BY <1>1, <2>2, <4>2
    <3>2. lower \in both /\ lower <= low[p] /\ lower <= low[t]
      <4>1. both \in SUBSET Nat /\ both # {}
        BY <1>1, <1>7, <3>1
      <4>2. \E x \in both : \A y \in both : x <= y
        BY <4>1, LeastNumber
      <4>3. QED  BY <4>2 DEF Min
    <3>3. low' = [low EXCEPT ![p] = lower]
      BY <2>2 DEF LeaveFile, Walked
    <3>4. p \in visited
      BY <1>7, <3>1
    <3> HIDE DEF p, lower
    <3>5. /\ DOMAIN low' = visited /\ low'[p] = lower
          /\ \A x \in visited : x # p => low'[x] = low[x]
      BY <1>8, <3>3, <3>4
    <3>6. QED  BY <3>1, <3>2, <3>5 DEF p
  <2>3. QED  BY <2>1, <2>2
<1>10. QED  BY <1>0, <1>1, <1>2, <1>3, <1>4, <1>5, <1>6, <1>9

\* The file on top reaches one that was seen before it: it stays on the stack.
LEMMA LeaveOpen ==
  ASSUME WalkInv, LeaveFile, low[Top.node] # index[Top.node]
  PROVE  WalkInv'
<1>0. PICK L, t : L = Len(work) /\ t = Top.node
  OBVIOUS
<1>1. /\ imports' = imports /\ index' = index /\ pile' = pile /\ found' = found
  BY DEF LeaveFile
<1>2. /\ nodes' = nodes
      /\ \A x : out(x)' = out(x)
      /\ \A x : Reached(x)' = Reached(x) /\ Together(x)' = Together(x)
  BY <1>1, ImportsStand
<1>3. /\ work # <<>> /\ L \in Nat /\ L \in 1..L /\ DOMAIN work = 1..L /\ t = Walked(L)
      /\ t \in Piled /\ t \in visited /\ t \in nodes
      /\ work' \in Seq([node : nodes, edges : SUBSET nodes])
      /\ Len(work') = L - 1 /\ DOMAIN work' = 1..(L - 1)
      /\ \A k \in 1..(L - 1) : work'[k] = work[k] /\ Walked(k)' = Walked(k)
      /\ \A k \in 1..(L - 1) : index[Walked(k)] < index[t]
      /\ \A x : x \in OnWork <=> x = t \/ x \in OnWork'
      /\ t \notin OnWork'
      /\ out(t) \subseteq visited
      /\ \A y \in out(t) : y \in Piled => low[t] <= index[y]
      /\ DOMAIN low' = visited
      /\ \A x \in visited : low'[x] = low[x] \/ (L > 1 /\ x = Walked(L - 1))
      /\ L > 1 => /\ low'[Walked(L - 1)] \in {low[Walked(L - 1)], low[t]}
                  /\ low'[Walked(L - 1)] <= low[Walked(L - 1)]
                  /\ low'[Walked(L - 1)] <= low[t]
  BY <1>0, LeaveFacts
<1>4. visited' = visited /\ Piled' = Piled /\ Cut' = Cut
  BY <1>1 DEF visited, Piled, Cut
<1>5. /\ \A x \in visited : index[x] \in Nat
      /\ \A x \in Piled : x \in visited /\ low[x] \in Nat /\ low[x] <= index[x]
  BY DEF WalkInv, InOrderSeen, LowLinks, Numbered
<1>6. low[t] < index[t]
  BY <1>0, <1>3, <1>5
<1>7. \A k \in 1..(L - 1) : k \in 1..L /\ Walked(k) \in Piled
  <2>1. \A k \in 1..(L - 1) : k \in 1..L
    BY <1>3
  <2>2. QED  BY <1>3, <2>1 DEF WalkInv, InOrderSeen
<1>8. L > 1 => L - 1 \in 1..(L - 1)
  BY <1>3
<1>9. \A x : x \in Finished' <=> x = t \/ x \in Finished
  <2>1. \A x : x \in Finished' <=> x \in Piled' /\ x \notin OnWork'
    BY DEF Finished
  <2>2. QED  BY <1>3, <1>4, <2>1 DEF Finished
<1>10. \A x \in Piled : low'[x] \in Nat /\ low'[x] <= low[x]
  BY <1>3, <1>5, <1>7, <1>8
<1>11. low'[t] = low[t] /\ \A x \in Finished : low'[x] = low[x]
  <2>1. L > 1 => Walked(L - 1) \in OnWork /\ Walked(L - 1) # t
    <3>1. \A k \in 1..(L - 1) : Walked(k) \in OnWork
      BY <1>3, <1>7 DEF OnWork
    <3>2. L > 1 => index[Walked(L - 1)] < index[t] /\ index[t] \in Nat
      BY <1>3, <1>5, <1>8
    <3>3. QED  BY <1>8, <3>1, <3>2
  <2>2. QED  BY <1>3, <1>5, <2>1 DEF Finished
<1>12. Numbered'
  BY <1>1, <1>2, <1>3, <1>4 DEF Numbered, WalkInv
<1>13. InOrderSeen'
  <2>1. \A k \in DOMAIN work' : Walked(k)' \in Piled'
    BY <1>3, <1>4, <1>7
  <2>2. \A j, k \in DOMAIN work' : j < k => index'[Walked(j)'] < index'[Walked(k)']
    BY <1>1, <1>3, <1>7 DEF InOrderSeen, WalkInv
  <2>3. QED  BY <1>1, <1>2, <1>3, <1>4, <2>1, <2>2 DEF InOrderSeen, WalkInv
<1>14. Followings'
  <2>1. \A k \in DOMAIN work' : /\ work'[k].edges \subseteq out(Walked(k)')
                                /\ \A y \in out(Walked(k)') : y \in work'[k].edges \/ y \in visited'
    BY <1>3, <1>4, <1>7 DEF Followings, WalkInv
  <2>2. \A x \in visited' : x \in OnWork' \/ out(x) \subseteq visited'
    BY <1>3, <1>4 DEF Followings, WalkInv
  <2>3. QED  BY <1>2, <1>4, <2>1, <2>2 DEF Followings, WalkInv
<1>15. Subtrees'
  <2>1. ASSUME NEW x \in Piled PROVE \E k \in 1..(L - 1) : index[Walked(k)] <= index[x]
    <3>1. PICK k \in 1..L : index[Walked(k)] <= index[x]
      BY <1>3 DEF Subtrees, WalkInv
    <3>2. CASE k # L
      <4>1. k \in 1..(L - 1)
        BY <1>3, <3>2
      <4>2. QED  BY <3>1, <4>1
    <3>3. CASE k = L
      <4>1. PICK y \in Piled : index[y] = low[t]
        BY <1>3 DEF LowLinks, WalkInv
      <4>2. PICK j \in 1..L : index[Walked(j)] <= index[y]
        BY <1>3 DEF Subtrees, WalkInv
      <4>3. index[Walked(j)] \in Nat /\ index[y] \in Nat /\ index[t] \in Nat /\ index[x] \in Nat
        BY <1>3, <1>5 DEF InOrderSeen, WalkInv
      <4>4. j # L /\ index[Walked(j)] <= index[x]
        BY <1>3, <1>6, <3>1, <3>3, <4>1, <4>2, <4>3
      <4>5. j \in 1..(L - 1)
        BY <1>3, <4>4
      <4>6. QED  BY <4>4, <4>5
    <3>4. QED  BY <3>2, <3>3
  <2>2. \A x \in Piled' : \E k \in DOMAIN work' : index'[Walked(k)'] <= index'[x]
    BY <1>1, <1>3, <1>4, <2>1
  <2>3. \A k \in DOMAIN work' : \A x \in Piled' :
          index'[Walked(k)'] <= index'[x] => x \in Reached(Walked(k)')
    BY <1>1, <1>3, <1>4, <1>7 DEF Subtrees, WalkInv
  <2>4. \A k : (Reached(Walked(k)))' = Reached(Walked(k)')
    BY <1>1 DEF Reached, nodes, out, in
  <2>5. QED  BY <2>2, <2>3, <2>4 DEF Subtrees
<1>16. LowLinks'
  <2>1. \A x \in Piled' : /\ low'[x] \in Nat /\ low'[x] <= index'[x]
                          /\ \E y \in Piled' : index'[y] = low'[x] /\ y \in Reached(x)
    <3>1. TAKE x \in Piled'
    <3>2. x \in Piled /\ low'[x] \in Nat /\ low'[x] <= index[x] /\ x \in visited
      BY <1>4, <1>5, <1>10
    <3>3. CASE low'[x] = low[x]
      BY <1>1, <1>4, <3>2, <3>3 DEF WalkInv, LowLinks
    <3>4. CASE low'[x] # low[x]
      <4>1. L > 1 /\ x = Walked(L - 1) /\ low'[x] = low[t]
        BY <1>3, <3>2, <3>4
      <4>2. PICK y \in Piled : index[y] = low[t] /\ y \in Reached(t)
        BY <1>3 DEF LowLinks, WalkInv
      <4>3. t \in Reached(x)
        <5>1. x \in visited /\ index[x] <= index[t]
          BY <1>3, <1>5, <1>8, <3>2, <4>1
        <5>2. QED  BY <1>3, <1>7, <1>8, <4>1, <5>1 DEF Subtrees, WalkInv
      <4>4. x \in nodes
        BY <3>2 DEF Numbered, WalkInv
      <4>5. y \in Reached(x)
        BY <4>2, <4>3, <4>4, ReachedFacts
      <4>6. QED  BY <1>1, <1>4, <3>2, <4>1, <4>2, <4>5
    <3>5. QED  BY <3>3, <3>4
  <2>2. \A x \in Finished' : low'[x] < index'[x]
    BY <1>1, <1>6, <1>9, <1>11 DEF LowLinks, WalkInv
  <2>3. ASSUME NEW k \in DOMAIN work', NEW x \in Finished', Under(k, x)'
        PROVE  low'[Walked(k)'] <= low'[x]
    <3>1. k \in 1..(L - 1) /\ k \in 1..L /\ Walked(k)' = Walked(k) /\ Walked(k) \in Piled
      BY <1>3, <1>7
    <3>2. /\ index[Walked(k)] <= index[x]
          /\ k = L - 1 \/ index[x] < index[Walked(k + 1)']
      BY <1>1, <1>3, <2>3 DEF Under, Walked
    <3>3. x \in Piled /\ x \in visited /\ low'[x] = low[x] /\ low[x] \in Nat /\ index[x] \in Nat
      BY <1>5, <1>9, <1>11, <1>3 DEF Finished
    <3>4. low'[Walked(k)] \in Nat /\ low'[Walked(k)] <= low[Walked(k)] /\ low[Walked(k)] \in Nat
      BY <1>5, <1>10, <3>1
    <3>5. CASE Under(k, x) /\ x # t
      <4>1. low[Walked(k)] <= low[x]
        BY <1>3, <1>9, <3>1, <3>5 DEF LowLinks, WalkInv
      <4>2. QED  BY <3>1, <3>3, <3>4, <4>1
    <3>6. CASE k # L - 1
      <4>1. k + 1 \in 1..(L - 1)
        BY <1>3, <3>1, <3>6
      <4>2. index[x] < index[Walked(k + 1)]
        BY <1>3, <3>2, <3>6, <4>1
      <4>3. Under(k, x)
        BY <3>2, <4>2 DEF Under
      <4>4. index[Walked(k + 1)] < index[t] /\ index[Walked(k + 1)] \in Nat /\ index[t] \in Nat
        BY <1>3, <1>5, <1>7, <4>1
      <4>5. x # t
        BY <3>3, <4>2, <4>4
      <4>6. QED  BY <3>5, <4>3, <4>5
    <3>7. CASE k = L - 1
      <4>1. L > 1 /\ low'[Walked(k)] <= low[t] /\ k + 1 = L
        BY <1>3, <3>1, <3>7
      <4>2. CASE x = t
        BY <3>1, <3>3, <4>1, <4>2
      <4>3. CASE x # t /\ index[x] < index[t]
        <5>1. Under(k, x)
          BY <1>3, <3>2, <4>1, <4>3 DEF Under
        <5>2. QED  BY <3>5, <4>3, <5>1
      <4>4. CASE x # t /\ ~(index[x] < index[t])
        <5>1. index[t] <= index[x] /\ index[t] \in Nat
          BY <1>3, <1>5, <3>3, <4>4
        <5>2. Under(L, x)
          BY <1>0, <1>3, <5>1 DEF Under
        <5>3. low[t] <= low[x]
          BY <1>3, <1>9, <4>4, <5>2 DEF LowLinks, WalkInv
        <5>4. low[t] \in Nat
          BY <1>3, <1>5
        <5>5. QED  BY <3>1, <3>3, <3>4, <4>1, <5>3, <5>4
      <4>5. QED  BY <4>2, <4>3, <4>4
    <3>8. QED  BY <3>6, <3>7
  <2>4. \A x \in Finished' : \A y \in out(x) : y \in Piled' => low'[x] <= index'[y]
    BY <1>1, <1>3, <1>4, <1>9, <1>11 DEF LowLinks, WalkInv
  <2>5. ASSUME NEW k \in DOMAIN work', NEW y \in out(Walked(k)'), y \notin work'[k].edges, y \in Piled'
        PROVE  low'[Walked(k)'] <= index'[y]
    <3>1. /\ k \in 1..L /\ Walked(k)' = Walked(k) /\ Walked(k) \in Piled /\ y \in Piled
          /\ y \in out(Walked(k)) /\ y \notin work[k].edges
      BY <1>3, <1>4, <1>7, <2>5
    <3>2. low[Walked(k)] <= index[y]
      BY <1>3, <3>1 DEF LowLinks, WalkInv
    <3>3. QED  BY <1>1, <1>5, <1>10, <3>1, <3>2
  <2>6. \A k : out(Walked(k))' = out(Walked(k)')
    BY <1>1 DEF out
  <2>7. QED  BY <1>2, <2>1, <2>2, <2>3, <2>4, <2>5, <2>6 DEF LowLinks
<1>17. Components' /\ found' \in Seq(SUBSET nodes')
  BY <1>1, <1>2, <1>4 DEF Components, WalkInv
<1>18. QED  BY <1>12, <1>13, <1>14, <1>15, <1>16, <1>17 DEF WalkInv

\* What is cut off the stack: the file on top and all that was seen after it.
LEMMA CutFacts ==
  ASSUME WalkInv, LeaveFile, low[Top.node] = index[Top.node], NEW t, t = Top.node
  PROVE  \E C \in SUBSET Piled :
           /\ \A x \in Piled : x \in C <=> index[t] <= index[x]
           /\ \A x \in Piled : x \in Piled' <=> index[x] < index[t]
           /\ Piled' \subseteq Piled
           /\ pile' \in Seq(nodes) /\ \A i \in DOMAIN pile' : i \in DOMAIN pile /\ pile'[i] = pile[i]
           /\ found' = IF Cardinality(C) > 1 THEN Append(found, C) ELSE found
<1> DEFINE from == CHOOSE i \in DOMAIN pile : pile[i] = Top.node
           C == {pile[i] : i \in from..Len(pile)}
<1>1. pile' = SubSeq(pile, 1, from - 1) /\ found' = IF Cardinality(C) > 1 THEN Append(found, C) ELSE found
  BY DEF LeaveFile
<1>2. t \in Piled /\ work # <<>>
  BY TopFacts DEF LeaveFile
<1>3. from \in DOMAIN pile /\ pile[from] = t
  BY <1>2 DEF Piled, ToSet
<1> HIDE DEF from
<1>4. pile \in Seq(nodes) /\ DOMAIN pile = 1..Len(pile) /\ Len(pile) \in Nat
  BY DEF WalkInv, InOrderSeen
<1>5. from \in 1..Len(pile)
  BY <1>3, <1>4
<1>6. /\ pile' \in Seq(nodes) /\ Len(pile') = from - 1 /\ DOMAIN pile' = 1..(from - 1)
      /\ \A i \in 1..(from - 1) : pile'[i] = pile[i]
  BY <1>1, <1>4, <1>5
<1>7. /\ \A i, j \in DOMAIN pile : i < j => index[pile[i]] < index[pile[j]]
      /\ \A i \in DOMAIN pile : index[pile[i]] \in Nat
  BY DEF WalkInv, InOrderSeen, Numbered, Piled, ToSet
<1>8. \A i \in DOMAIN pile : (i \in from..Len(pile) <=> index[t] <= index[pile[i]])
                             /\ (i \in 1..(from - 1) <=> index[pile[i]] < index[t])
  <2>1. TAKE i \in DOMAIN pile
  <2>2. i \in 1..Len(pile) /\ (i < from \/ i = from \/ i > from)
    BY <1>4, <1>5
  <2>3. i < from => index[pile[i]] < index[t]
    BY <1>3, <1>7
  <2>4. from < i => index[t] < index[pile[i]]
    BY <1>3, <1>7
  <2>5. index[t] \in Nat /\ index[pile[i]] \in Nat
    BY <1>3, <1>7
  <2>6. QED  BY <1>3, <1>5, <2>2, <2>3, <2>4, <2>5
<1>9. Piled = {pile[i] : i \in DOMAIN pile} /\ Piled' = {pile[i] : i \in 1..(from - 1)}
  BY <1>6 DEF Piled, ToSet
<1>10. \A x \in Piled : x \in C <=> index[t] <= index[x]
  <2>1. TAKE x \in Piled
  <2>2. PICK i \in DOMAIN pile : x = pile[i]
    BY <1>9
  <2>3. ASSUME x \in C PROVE index[t] <= index[x]
    <3>1. PICK j \in from..Len(pile) : x = pile[j]
      BY <2>3
    <3>2. j \in DOMAIN pile
      BY <1>4, <1>5
    <3>3. QED  BY <1>8, <3>1, <3>2
  <2>4. ASSUME index[t] <= index[x] PROVE x \in C
    BY <1>8, <2>2, <2>4
  <2>5. QED  BY <2>3, <2>4
<1>11. \A x \in Piled : x \in Piled' <=> index[x] < index[t]
  <2>1. TAKE x \in Piled
  <2>2. PICK i \in DOMAIN pile : x = pile[i]
    BY <1>9
  <2>3. ASSUME x \in Piled' PROVE index[x] < index[t]
    <3>1. PICK j \in 1..(from - 1) : x = pile[j]
      BY <1>9, <2>3
    <3>2. j \in DOMAIN pile
      BY <1>4, <1>5
    <3>3. QED  BY <1>8, <3>1, <3>2
  <2>4. ASSUME index[x] < index[t] PROVE x \in Piled'
    BY <1>8, <1>9, <2>2, <2>4
  <2>5. QED  BY <2>3, <2>4
<1>12. \A i \in 1..(from - 1) : i \in DOMAIN pile
  BY <1>4, <1>5
<1>13. C \subseteq Piled /\ Piled' \subseteq Piled
  <2>1. \A i \in from..Len(pile) : i \in DOMAIN pile
    BY <1>4, <1>5
  <2>2. QED  BY <1>9, <1>12, <2>1
<1> HIDE DEF C
<1>14. QED  BY <1>1, <1>6, <1>10, <1>11, <1>12, <1>13

\* A file that reaches none that was seen before it is left: what is cut off
\* the stack with it is all that it reaches and that reaches it.
LEMMA LeaveCut ==
  ASSUME WalkInv, LeaveFile, low[Top.node] = index[Top.node]
  PROVE  WalkInv'
<1>0. PICK L, t : L = Len(work) /\ t = Top.node
  OBVIOUS
<1>1. /\ imports' = imports /\ index' = index
  BY DEF LeaveFile
<1>2. /\ nodes' = nodes
      /\ \A x : out(x)' = out(x)
      /\ \A x : Reached(x)' = Reached(x) /\ Together(x)' = Together(x)
  BY <1>1, ImportsStand
<1>3. /\ work # <<>> /\ L \in Nat /\ L \in 1..L /\ DOMAIN work = 1..L /\ t = Walked(L)
      /\ t \in Piled /\ t \in visited /\ t \in nodes
      /\ work' \in Seq([node : nodes, edges : SUBSET nodes])
      /\ Len(work') = L - 1 /\ DOMAIN work' = 1..(L - 1)
      /\ \A k \in 1..(L - 1) : work'[k] = work[k] /\ Walked(k)' = Walked(k)
      /\ \A k \in 1..(L - 1) : index[Walked(k)] < index[t]
      /\ \A x : x \in OnWork <=> x = t \/ x \in OnWork'
      /\ t \notin OnWork'
      /\ out(t) \subseteq visited
      /\ \A y \in out(t) : y \in Piled => low[t] <= index[y]
      /\ DOMAIN low' = visited
      /\ \A x \in visited : low'[x] = low[x] \/ (L > 1 /\ x = Walked(L - 1))
      /\ L > 1 => /\ low'[Walked(L - 1)] \in {low[Walked(L - 1)], low[t]}
                  /\ low'[Walked(L - 1)] <= low[Walked(L - 1)]
                  /\ low'[Walked(L - 1)] <= low[t]
  BY <1>0, LeaveFacts
<1>4. PICK C \in SUBSET Piled :
        /\ \A x \in Piled : x \in C <=> index[t] <= index[x]
        /\ \A x \in Piled : x \in Piled' <=> index[x] < index[t]
        /\ Piled' \subseteq Piled
        /\ pile' \in Seq(nodes) /\ \A i \in DOMAIN pile' : i \in DOMAIN pile /\ pile'[i] = pile[i]
        /\ found' = IF Cardinality(C) > 1 THEN Append(found, C) ELSE found
  BY <1>0, CutFacts
<1>5. /\ \A x \in visited : index[x] \in Nat /\ x \in nodes
      /\ \A x \in Piled : x \in visited /\ low[x] \in Nat /\ low[x] <= index[x]
      /\ low[t] = index[t]
  BY <1>0 DEF WalkInv, InOrderSeen, LowLinks, Numbered
<1>6. \A k \in 1..(L - 1) : k \in 1..L /\ Walked(k) \in Piled /\ Walked(k) \in Piled'
  <2>1. \A k \in 1..(L - 1) : k \in 1..L
    BY <1>3
  <2>2. \A k \in 1..(L - 1) : Walked(k) \in Piled
    BY <1>3, <2>1 DEF WalkInv, InOrderSeen
  <2>3. QED  BY <1>3, <1>4, <2>1, <2>2
<1>7. \A x \in visited : low'[x] = low[x]
  <2>1. ASSUME L > 1 PROVE low'[Walked(L - 1)] = low[Walked(L - 1)]
    <3> DEFINE p == Walked(L - 1)
    <3>1. L - 1 \in 1..(L - 1)
      BY <1>3, <2>1
    <3>2. low[p] \in Nat /\ low[p] <= index[p] /\ index[p] < index[t] /\ index[p] \in Nat /\ index[t] \in Nat
      BY <1>3, <1>5, <1>6, <3>1
    <3>3. QED  BY <1>3, <1>5, <2>1, <3>2
  <2>2. QED  BY <1>3, <2>1
<1>8. /\ visited' = visited
      /\ \A x : x \in Cut' <=> x \in Cut \/ x \in C
      /\ \A x \in Piled : x \in C \/ x \in Piled'
      /\ \A x \in Piled' : x \notin C
  <2>1. visited' = visited
    BY <1>1 DEF visited
  <2>2. \A x \in Piled : index[x] \in Nat /\ index[t] \in Nat
    BY <1>3, <1>5
  <2>3. \A x \in Piled : x \in C <=> x \notin Piled'
    BY <1>4, <2>2
  <2>4. QED  BY <1>4, <1>5, <2>1, <2>3 DEF Cut
<1>9. t \in C
  BY <1>3, <1>4, <1>5
<1>10. ASSUME NEW x \in C, x # t
       PROVE  x \in Finished /\ low[t] <= low[x]
  <2>1. x \in Piled /\ x \in visited /\ index[t] <= index[x] /\ index[t] \in Nat /\ index[x] \in Nat
    BY <1>3, <1>4, <1>5
  <2>2. ASSUME x \in OnWork PROVE FALSE
    <3>1. PICK k \in 1..L : x = Walked(k)
      BY <1>3, <2>2 DEF OnWork
    <3>2. k \in 1..(L - 1)
      BY <1>3, <1>10, <3>1
    <3>3. QED  BY <1>3, <2>1, <3>1, <3>2
  <2>3. Under(L, x)
    BY <1>0, <1>3, <2>1 DEF Under
  <2>4. QED  BY <1>3, <2>1, <2>2, <2>3 DEF Finished, LowLinks, WalkInv
<1>11. ASSUME NEW x \in C, NEW y \in out(x) PROVE y \in C \/ y \in Cut
  <2>1. y \in visited /\ (y \in Piled => index[t] <= index[y])
    <3>1. CASE x = t
      BY <1>3, <1>5, <3>1
    <3>2. CASE x # t
      <4>1. x \in Finished /\ low[t] <= low[x] /\ x \in Piled /\ x \in visited /\ x \notin OnWork
        BY <1>4, <1>5, <1>10, <3>2 DEF Finished
      <4>2. y \in visited
        BY <4>1 DEF Followings, WalkInv
      <4>3. y \in Piled => low[x] <= index[y]
        BY <4>1 DEF LowLinks, WalkInv
      <4>4. low[t] \in Nat /\ low[x] \in Nat /\ index[y] \in Nat
        BY <1>3, <1>5, <4>1, <4>2
      <4>5. QED  BY <1>5, <4>1, <4>2, <4>3, <4>4
    <3>3. QED  BY <3>1, <3>2
  <2>2. QED  BY <1>4, <2>1 DEF Cut
<1>12. C \subseteq Reached(t) /\ C \subseteq nodes
  <2>1. \A x \in C : x \in Piled /\ index[t] <= index[x] /\ x \in visited
    BY <1>4, <1>5
  <2>2. QED  BY <1>3, <1>5, <2>1 DEF Subtrees, WalkInv
<1>13. ASSUME NEW x \in C PROVE t \in Reached(x)
  <2> DEFINE lost == {i \in Nat : \E y \in C : index[y] = i /\ t \notin Reached(y)}
  <2>1. SUFFICES ASSUME lost # {} PROVE FALSE
    <3>1. index[x] \in Nat
      BY <1>4, <1>5
    <3>2. QED  BY <2>1, <3>1
  <2>2. PICK i \in lost : \A j \in lost : i <= j
    <3>1. lost \in SUBSET Nat  OBVIOUS
    <3> HIDE DEF lost
    <3>2. QED  BY <2>1, <3>1, LeastNumber
  <2>3. PICK y \in C : index[y] = i /\ t \notin Reached(y)
    BY <2>2
  <2>4. y \in nodes /\ y \in Piled /\ y # t
    BY <1>4, <1>12, <2>3, ReachedFacts
  <2>5. y \in Finished /\ low[t] <= low[y]
    BY <1>10, <2>4
  <2>6. PICK z \in Piled : index[z] = low[y] /\ z \in Reached(y)
    BY <2>4 DEF LowLinks, WalkInv
  <2>7. index[z] < index[y] /\ index[z] \in Nat /\ index[y] \in Nat
    BY <1>5, <2>4, <2>5, <2>6 DEF LowLinks, WalkInv
  <2>8. z \in C
    BY <1>4, <1>5, <2>5, <2>6
  <2>9. t \in Reached(z)
    <3>1. index[z] \notin lost
      <4>1. ~(i <= index[z])
        BY <2>3, <2>7
      <4> HIDE DEF lost
      <4>2. QED  BY <2>2, <4>1
    <3>2. QED  BY <2>7, <2>8, <3>1
  <2>10. QED  BY <2>3, <2>4, <2>6, <2>9, ReachedFacts
<1>14. Reached(t) \subseteq C \cup Cut
  <2>1. C \cup Cut \subseteq nodes
    BY <1>5, <1>12 DEF Cut
  <2>2. \A x \in C \cup Cut : out(x) \subseteq C \cup Cut
    BY <1>11 DEF Followings, WalkInv
  <2> DEFINE s == C \cup Cut
  <2> HIDE DEF s
  <2>3. s \in SUBSET nodes /\ t \in s /\ \A x \in s : out(x) \subseteq s
    BY <1>9, <2>1, <2>2 DEF s
  <2>4. Reached(t) \subseteq s
    BY <1>3, <2>3, ReachedFacts
  <2>5. QED  BY <2>4 DEF s
<1>15. ASSUME NEW y \in Cut PROVE Reached(y) \subseteq Cut
  <2>1. Cut \in SUBSET nodes /\ y \in nodes /\ \A x \in Cut : out(x) \subseteq Cut
    BY <1>5 DEF Cut, Followings, WalkInv
  <2>2. QED  BY <2>1, ReachedFacts
<1>16. ASSUME NEW x \in C PROVE Together(x) = C
  <2>1. x \in nodes /\ x \in Reached(t) /\ t \in Reached(x) /\ Reached(x) \subseteq Reached(t)
        /\ Reached(t) \subseteq Reached(x)
    BY <1>3, <1>12, <1>13, ReachedFacts
  <2>2. ASSUME NEW y \in Together(x) PROVE y \in C
    <3>1. y \in Reached(x) /\ x \in Reached(y)
      BY DEF Together
    <3>2. y \in C \/ y \in Cut
      BY <1>14, <2>1, <3>1
    <3>3. x \notin Cut
      BY <1>4 DEF Cut
    <3>4. QED  BY <1>15, <3>1, <3>2, <3>3
  <2>3. ASSUME NEW y \in C PROVE y \in Together(x)
    <3>1. y \in Reached(x)
      BY <1>12, <2>1
    <3>2. y \in nodes /\ t \in Reached(y) /\ Reached(t) \subseteq Reached(y)
      BY <1>12, <1>13, ReachedFacts
    <3>3. QED  BY <2>1, <3>1, <3>2 DEF Together
  <2>4. QED  BY <2>2, <2>3
<1>17. \A x : x \in Finished' <=> x \in Finished /\ x \in Piled'
  <2>1. \A x : x \in Finished' <=> x \in Piled' /\ x \notin OnWork'
    BY DEF Finished
  <2>2. QED  BY <1>3, <1>4, <1>8, <1>9, <2>1 DEF Finished
<1>18. Numbered'
  BY <1>1, <1>2, <1>3, <1>8 DEF Numbered, WalkInv
<1>19. InOrderSeen'
  <2>1. \A k \in DOMAIN work' : Walked(k)' \in Piled'
    BY <1>3, <1>6
  <2>2. \A j, k \in DOMAIN work' : j < k => index'[Walked(j)'] < index'[Walked(k)']
    BY <1>1, <1>3, <1>6 DEF InOrderSeen, WalkInv
  <2>3. \A i, j \in DOMAIN pile' : i < j => index'[pile'[i]] < index'[pile'[j]]
    BY <1>1, <1>4 DEF InOrderSeen, WalkInv
  <2>4. QED  BY <1>2, <1>3, <1>4, <1>5, <1>8, <2>1, <2>2, <2>3 DEF InOrderSeen
<1>20. Followings'
  <2>1. \A k \in DOMAIN work' : /\ work'[k].edges \subseteq out(Walked(k)')
                                /\ \A y \in out(Walked(k)') : y \in work'[k].edges \/ y \in visited'
    BY <1>3, <1>6, <1>8 DEF Followings, WalkInv
  <2>2. \A x \in visited' : x \in OnWork' \/ out(x) \subseteq visited'
    BY <1>3, <1>8 DEF Followings, WalkInv
  <2>3. \A x \in Cut' : out(x) \subseteq Cut'
    BY <1>8, <1>11 DEF Followings, WalkInv
  <2>4. QED  BY <1>2, <2>1, <2>2, <2>3 DEF Followings
<1>21. Subtrees'
  <2>1. ASSUME NEW x \in Piled' PROVE \E k \in 1..(L - 1) : index[Walked(k)] <= index[x]
    <3>1. x \in Piled /\ x \in visited /\ index[x] < index[t] /\ index[x] \in Nat /\ index[t] \in Nat
      BY <1>3, <1>4, <1>5
    <3>2. PICK k \in 1..L : index[Walked(k)] <= index[x]
      BY <1>3, <3>1 DEF Subtrees, WalkInv
    <3>3. k # L
      BY <1>3, <3>1, <3>2
    <3>4. k \in 1..(L - 1)
      BY <1>3, <3>3
    <3>5. QED  BY <3>2, <3>4
  <2>2. \A x \in Piled' : \E k \in DOMAIN work' : index'[Walked(k)'] <= index'[x]
    BY <1>1, <1>3, <2>1
  <2>3. \A k \in DOMAIN work' : \A x \in Piled' :
          index'[Walked(k)'] <= index'[x] => x \in Reached(Walked(k)')
    BY <1>1, <1>3, <1>4, <1>6 DEF Subtrees, WalkInv
  <2>4. \A k : (Reached(Walked(k)))' = Reached(Walked(k)')
    BY <1>1 DEF Reached, nodes, out, in
  <2>5. QED  BY <2>2, <2>3, <2>4 DEF Subtrees
<1>22. LowLinks'
  <2>1. \A x \in Piled' : /\ low'[x] \in Nat /\ low'[x] <= index'[x]
                          /\ \E y \in Piled' : index'[y] = low'[x] /\ y \in Reached(x)
    <3>1. TAKE x \in Piled'
    <3>2. x \in Piled /\ x \in visited /\ low'[x] = low[x] /\ low[x] \in Nat /\ low[x] <= index[x]
          /\ index[x] < index[t] /\ index[x] \in Nat /\ index[t] \in Nat
      BY <1>3, <1>4, <1>5, <1>7
    <3>3. PICK y \in Piled : index[y] = low[x] /\ y \in Reached(x)
      BY <3>2 DEF LowLinks, WalkInv
    <3>4. y \in Piled'
      BY <1>4, <3>2, <3>3
    <3>5. QED  BY <1>1, <3>2, <3>3, <3>4
  <2>2. \A x \in Finished' : x \in Finished /\ x \in Piled /\ x \in visited /\ low'[x] = low[x]
    BY <1>5, <1>7, <1>17 DEF Finished
  <2>3. \A x \in Finished' : low'[x] < index'[x]
    BY <1>1, <2>2 DEF LowLinks, WalkInv
  <2>4. ASSUME NEW k \in DOMAIN work', NEW x \in Finished', Under(k, x)'
        PROVE  low'[Walked(k)'] <= low'[x]
    <3>1. k \in 1..(L - 1) /\ k \in 1..L /\ Walked(k)' = Walked(k) /\ Walked(k) \in Piled
          /\ low'[Walked(k)] = low[Walked(k)]
      BY <1>3, <1>5, <1>6, <1>7
    <3>2. /\ index[Walked(k)] <= index[x]
          /\ k = L - 1 \/ index[x] < index[Walked(k + 1)']
      BY <1>1, <1>3, <2>4 DEF Under, Walked
    <3>3. Under(k, x)
      <4>1. CASE k = L - 1
        <5>1. k + 1 = L /\ index[x] < index[t]
          BY <1>3, <1>4, <1>17, <2>2, <4>1
        <5>2. QED  BY <1>3, <3>2, <5>1 DEF Under
      <4>2. CASE k # L - 1
        <5>1. k + 1 \in 1..(L - 1)
          BY <1>3, <3>1, <4>2
        <5>2. QED  BY <1>3, <3>2, <4>2, <5>1 DEF Under
      <4>3. QED  BY <4>1, <4>2
    <3>4. low[Walked(k)] <= low[x]
      BY <1>3, <2>2, <3>1, <3>3 DEF LowLinks, WalkInv
    <3>5. QED  BY <2>2, <3>1, <3>4
  <2>5. \A x \in Finished' : \A y \in out(x) : y \in Piled' => low'[x] <= index'[y]
    BY <1>1, <1>4, <2>2 DEF LowLinks, WalkInv
  <2>6. ASSUME NEW k \in DOMAIN work', NEW y \in out(Walked(k)'), y \notin work'[k].edges, y \in Piled'
        PROVE  low'[Walked(k)'] <= index'[y]
    <3>1. /\ k \in 1..L /\ Walked(k)' = Walked(k) /\ Walked(k) \in Piled /\ y \in Piled
          /\ y \in out(Walked(k)) /\ y \notin work[k].edges /\ low'[Walked(k)] = low[Walked(k)]
      BY <1>3, <1>4, <1>5, <1>6, <1>7, <2>6
    <3>2. low[Walked(k)] <= index[y]
      BY <1>3, <3>1 DEF LowLinks, WalkInv
    <3>3. QED  BY <1>1, <3>1, <3>2
  <2>7. \A k : out(Walked(k))' = out(Walked(k)')
    BY <1>1 DEF out
  <2>8. QED  BY <1>2, <2>1, <2>3, <2>4, <2>5, <2>6, <2>7 DEF LowLinks
<1>23. found' \in Seq(SUBSET nodes')
  BY <1>2, <1>4, <1>12 DEF WalkInv
<1>24. Components'
  <2>1. found \in Seq(SUBSET nodes) /\ C \in SUBSET nodes
    BY <1>12 DEF WalkInv
  <2>2. ToSet(found') = ToSet(found) \cup (IF Cardinality(C) > 1 THEN {C} ELSE {})
    <3>1. CASE Cardinality(C) > 1
      <4>1. found' = Append(found, C)
        BY <1>4, <3>1
      <4>2. /\ DOMAIN found' = 1..(Len(found) + 1) /\ Len(found) \in Nat /\ DOMAIN found = 1..Len(found)
            /\ found'[Len(found) + 1] = C /\ \A i \in 1..Len(found) : found'[i] = found[i]
        BY <2>1, <4>1
      <4>3. \A i \in DOMAIN found' : i \in DOMAIN found \/ i = Len(found) + 1
        BY <4>2
      <4>4. ToSet(found') = {found'[i] : i \in DOMAIN found'} /\ ToSet(found) = {found[i] : i \in DOMAIN found}
        BY DEF ToSet
      <4>5. \A i \in DOMAIN found : i \in DOMAIN found'
        BY <4>2
      <4>6. Len(found) + 1 \in DOMAIN found'
        BY <4>2
      <4>7. QED  BY <3>1, <4>2, <4>3, <4>4, <4>5, <4>6
    <3>2. CASE ~(Cardinality(C) > 1)
      BY <1>4, <3>2
    <3>3. QED  BY <3>1, <3>2
  <2>3. \A c : (\E x \in Cut' : c = Together(x)) <=> (\E x \in Cut : c = Together(x)) \/ c = C
    BY <1>8, <1>9, <1>16
  <2>4. \A c : c \in ToSet(found') <=> Cardinality(c) > 1 /\ \E x \in Cut' : c = Together(x)
    BY <2>2, <2>3 DEF Components, WalkInv
  <2>5. QED  BY <1>2, <2>4 DEF Components
<1>25. QED  BY <1>18, <1>19, <1>20, <1>21, <1>22, <1>23, <1>24 DEF WalkInv

-----------------------------------------------------------------------------
(* The report                                                              *)

CountsOff(s, D, R) ==
  /\ DOMAIN s = 1..Cardinality(D)
  /\ \A k \in DOMAIN s : (\E x \in D : Rank(D, R, x) = k - 1) =>
                          s[k] \in D /\ Rank(D, R, s[k]) = k - 1

\* A set that is counted off along an order of it: each of its members has a
\* place, and one of its own.
LEMMA CountedOff ==
  ASSUME NEW D, IsFiniteSet(D), NEW R, Orders(R, D),
         NEW s, CountsOff(s, D, R)
  PROVE  /\ Cardinality(D) \in Nat /\ DOMAIN s = 1..Cardinality(D)
         /\ \A k \in DOMAIN s : s[k] \in D
         /\ \A j, k \in DOMAIN s : s[j] = s[k] => j = k
         /\ \A x \in D : \E k \in DOMAIN s : s[k] = x
<1> DEFINE N == Cardinality(D)
<1>1. /\ N \in Nat
      /\ \A x \in D : Rank(D, R, x) \in 0..(N - 1)
      /\ \A x, y \in D : Rank(D, R, x) = Rank(D, R, y) => x = y
      /\ \A k \in 0..(N - 1) : \E x \in D : Rank(D, R, x) = k
  BY Ranking
<1>2. DOMAIN s = 1..N
  BY DEF CountsOff
<1>3. \A k \in 1..N : s[k] \in D /\ Rank(D, R, s[k]) = k - 1
  <2>1. TAKE k \in 1..N
  <2>2. k - 1 \in 0..(N - 1)
    BY <1>1
  <2>3. \E x \in D : Rank(D, R, x) = k - 1
    BY <1>1, <2>2
  <2>4. QED  BY <1>2, <2>3 DEF CountsOff
<1> HIDE DEF N
<1>4. \A j, k \in 1..N : s[j] = s[k] => j = k
  BY <1>1, <1>3
<1>5. \A x \in D : \E k \in 1..N : s[k] = x
  <2>1. TAKE x \in D
  <2>2. Rank(D, R, x) \in 0..(N - 1)
    BY <1>1
  <2> DEFINE k == Rank(D, R, x) + 1
  <2>3. k \in 1..N /\ k - 1 = Rank(D, R, x)
    BY <1>1, <2>2
  <2> HIDE DEF k
  <2>4. s[k] = x
    BY <1>1, <1>3, <2>3
  <2>5. QED  BY <2>3, <2>4
<1>6. QED  BY <1>1, <1>2, <1>3, <1>4, <1>5 DEF N

\* Files that import each other make up one component, whichever one asks of.
LEMMA TogetherFacts ==
  ASSUME imports \in Projects, NEW x \in nodes
  PROVE  /\ x \in Together(x) /\ Together(x) \subseteq nodes
         /\ IsFiniteSet(Together(x)) /\ Cardinality(Together(x)) \in Nat
         /\ \A y \in Together(x) : Together(y) = Together(x)
         /\ Cardinality(Together(x)) > 1 <=> Together(x) # {x}
<1>1. x \in Together(x) /\ Together(x) \subseteq nodes
  BY ReachedFacts DEF Together
<1>2. IsFiniteSet(Together(x)) /\ Cardinality(Together(x)) \in Nat
  BY <1>1, ImportsAreFinite, FS_Subset, FS_CardinalityType
<1>3. ASSUME NEW y \in Together(x) PROVE Together(y) = Together(x)
  <2>1. y \in Reached(x) /\ x \in Reached(y) /\ y \in nodes
    BY <1>1 DEF Together
  <2>2. Reached(x) = Reached(y)
    <3>1. Reached(y) \subseteq Reached(x)
      BY <2>1, ReachedFacts
    <3>2. Reached(x) \subseteq Reached(y)
      BY <2>1, ReachedFacts
    <3>3. QED  BY <3>1, <3>2
  <2>3. \A z \in nodes : x \in Reached(z) <=> y \in Reached(z)
    BY <2>1, ReachedFacts
  <2>4. \A z : z \in Reached(x) => z \in nodes
    BY ReachedFacts
  <2>5. QED  BY <2>2, <2>3, <2>4 DEF Together
<1>4. Cardinality(Together(x)) > 1 <=> Together(x) # {x}
  <2>1. IsFiniteSet({x}) /\ Cardinality({x}) = 1
    BY FS_Singleton
  <2>2. {x} \subseteq Together(x)
    BY <1>1
  <2>3. ASSUME Together(x) # {x} PROVE Cardinality(Together(x)) > 1
    <3> DEFINE S == Together(x)
               U == {x}
    <3>1. IsFiniteSet(S) /\ U \subseteq S /\ U # S /\ Cardinality(U) = 1 /\ Cardinality(S) \in Nat
      BY <1>2, <2>1, <2>2, <2>3
    <3> HIDE DEF S, U
    <3>2. Cardinality(U) <= Cardinality(S) /\ Cardinality(U) # Cardinality(S)
      BY <3>1, FS_Subset
    <3>3. Cardinality(S) > 1
      BY <3>1, <3>2
    <3>4. QED  BY <3>3 DEF S
  <2>4. QED  BY <2>1, <2>3
<1>5. QED  BY <1>1, <1>2, <1>3, <1>4

\* The components of a project, in the order of their ids.
LEMMA IdsAreGiven ==
  ASSUME imports \in Projects, NEW cs, IsFiniteSet(cs),
         \A c \in cs : \E x \in nodes : c = Together(x)
  PROVE  /\ DOMAIN InIdOrder(cs) = 1..Cardinality(cs) /\ Cardinality(cs) \in Nat
         /\ \A k \in DOMAIN InIdOrder(cs) : InIdOrder(cs)[k] \in cs
         /\ \A j, k \in DOMAIN InIdOrder(cs) : InIdOrder(cs)[j] = InIdOrder(cs)[k] => j = k
         /\ \A c \in cs : \E k \in DOMAIN InIdOrder(cs) : InIdOrder(cs)[k] = c
<1> DEFINE R == {p \in cs \X cs : Larger(p[1], p[2])}
<1>1. \A b, c \in cs : <<b, c>> \in R <=> Larger(b, c)
  OBVIOUS
<1>2. \A c \in cs : Cardinality(c) \in Nat /\ Min(c) \in Nat /\ Min(c) \in c
  <2>1. TAKE c \in cs
  <2>2. PICK x \in nodes : c = Together(x)
    OBVIOUS
  <2>3. c \in SUBSET Nat /\ c # {} /\ Cardinality(c) \in Nat
    BY <2>2, TogetherFacts, ImportsAreFinite
  <2>4. \E y \in c : \A z \in c : y <= z
    BY <2>3, LeastNumber
  <2>5. QED  BY <2>3, <2>4 DEF Min
<1>3. \A b, c \in cs : Min(b) = Min(c) => b = c
  <2>1. TAKE b, c \in cs
  <2>2. HAVE Min(b) = Min(c)
  <2>3. PICK x \in nodes, y \in nodes : b = Together(x) /\ c = Together(y)
    OBVIOUS
  <2>4. Together(Min(b)) = b /\ Together(Min(b)) = c
    BY <1>2, <2>2, <2>3, TogetherFacts
  <2>5. QED  BY <2>4
<1>4. Orders(R, cs)
  <2> HIDE DEF R
  <2>1. \A b, c, d \in cs : /\ ~Larger(b, b)
                            /\ b # c => Larger(b, c) \/ Larger(c, b)
                            /\ Larger(b, c) /\ Larger(c, d) => Larger(b, d)
    BY <1>2, <1>3 DEF Larger
  <2>2. QED  BY <1>1, <2>1 DEF Orders
<1>5. \A c \in cs : Rank(cs, R, c) = Cardinality({b \in cs : Larger(b, c)})
  <2>1. TAKE c \in cs
  <2>2. {b \in cs : <<b, c>> \in R} = {b \in cs : Larger(b, c)}
    BY <1>1
  <2>3. QED  BY <2>2 DEF Rank
<1> HIDE DEF R
<1> DEFINE s == InIdOrder(cs)
<1>6. DOMAIN s = 1..Cardinality(cs)
  BY DEF InIdOrder
<1>7. ASSUME NEW k \in DOMAIN s, \E c \in cs : Rank(cs, R, c) = k - 1
      PROVE  s[k] \in cs /\ Rank(cs, R, s[k]) = k - 1
  <2>1. s[k] = CHOOSE c \in cs : Cardinality({b \in cs : Larger(b, c)}) = k - 1
    BY <1>6 DEF InIdOrder
  <2>2. \E c \in cs : Cardinality({b \in cs : Larger(b, c)}) = k - 1
    BY <1>5, <1>7
  <2>3. QED  BY <1>5, <2>1, <2>2
<1> HIDE DEF s
<1>8. /\ Cardinality(cs) \in Nat /\ DOMAIN s = 1..Cardinality(cs)
      /\ \A k \in DOMAIN s : s[k] \in cs
      /\ \A j, k \in DOMAIN s : s[j] = s[k] => j = k
      /\ \A x \in cs : \E k \in DOMAIN s : s[k] = x
  <2>1. CountsOff(s, cs, R)
    BY <1>6, <1>7 DEF CountsOff
  <2>2. QED  BY <1>4, <2>1, CountedOff
<1>9. QED  BY <1>8 DEF s

\* With the walk at its end, what is reported of a flow is mutual.
LEMMA ReportIsMutual ==
  ASSUME WalkInv, NEW flow \in SUBSET nodes, Report(flow)
  PROVE  CyclesAreMutual'
<1> DEFINE F == ToSet(found)
           ordered == InIdOrder(F)
           cycleOf(f) == {k \in DOMAIN ordered : f \in ordered[k]}
           metric(f) ==
             [path |-> f, fanIn |-> Cardinality(in(f)), fanOut |-> Cardinality(out(f)),
              cycle |-> IF cycleOf(f) = {} THEN 0 ELSE Max(cycleOf(f))]
           touching == {k \in DOMAIN ordered : ordered[k] \cap flow # {}}
<1>1. /\ structure'.metrics = {metric(f) : f \in flow}
      /\ structure'.cycles = {[id |-> k, members |-> ordered[k]] : k \in touching}
      /\ imports' = imports /\ work = <<>> /\ nodes \subseteq visited
  BY DEF Report
<1>2. imports \in Projects /\ visited = nodes
  BY <1>1 DEF WalkInv, Numbered
<1>3. Cut = nodes
  <2>1. Piled = {}
    <3>1. DOMAIN work = {}
      BY <1>1
    <3>2. QED  BY <3>1 DEF WalkInv, Subtrees
  <2>2. QED  BY <1>2, <2>1 DEF Cut
<1>4. \A c : c \in F <=> Cardinality(c) > 1 /\ \E x \in nodes : c = Together(x)
  BY <1>3 DEF WalkInv, Components
<1>5. IsFiniteSet(F)
  <2>1. DOMAIN found = 1..Len(found) /\ Len(found) \in Nat
    BY DEF WalkInv
  <2>2. IsFiniteSet(1..Len(found))
    BY <2>1, FS_Interval
  <2> DEFINE D == 1..Len(found)
             f == [i \in D |-> found[i]]
  <2>3. f \in Surjection(D, F)
    BY <2>1 DEF ToSet, Surjection
  <2> HIDE DEF D, f, F
  <2>4. IsFiniteSet(D)
    BY <2>2 DEF D
  <2>5. QED  BY <2>3, <2>4, FS_Surjection
<1> HIDE DEF F
<1>6. /\ DOMAIN ordered \subseteq Nat \ {0}
      /\ \A k \in DOMAIN ordered : ordered[k] \in F
      /\ \A j, k \in DOMAIN ordered : ordered[j] = ordered[k] => j = k
      /\ \A c \in F : \E k \in DOMAIN ordered : ordered[k] = c
  <2>1. \A c \in F : \E x \in nodes : c = Together(x)
    BY <1>4
  <2>2. /\ DOMAIN ordered = 1..Cardinality(F) /\ Cardinality(F) \in Nat
        /\ \A k \in DOMAIN ordered : ordered[k] \in F
        /\ \A j, k \in DOMAIN ordered : ordered[j] = ordered[k] => j = k
        /\ \A c \in F : \E k \in DOMAIN ordered : ordered[k] = c
    BY <1>2, <1>5, <2>1, IdsAreGiven
  <2>3. QED  BY <2>2
<1> HIDE DEF ordered
<1>7. \A f \in nodes : \A k \in DOMAIN ordered : f \in ordered[k] <=> ordered[k] = Together(f)
  <2>1. TAKE f \in nodes
  <2>2. TAKE k \in DOMAIN ordered
  <2>3. PICK x \in nodes : ordered[k] = Together(x)
    BY <1>4, <1>6
  <2>4. f \in Together(x) => Together(f) = Together(x)
    BY <1>2, <2>3, TogetherFacts
  <2>5. f \in Together(f)
    BY <1>2, TogetherFacts
  <2>6. QED  BY <2>3, <2>4, <2>5
<1>8. \A f \in nodes :
        /\ (metric(f).cycle = 0) = (Together(f) = {f})
        /\ metric(f).cycle # 0 =>
             metric(f).cycle \in DOMAIN ordered /\ ordered[metric(f).cycle] = Together(f)
  <2>1. TAKE f \in nodes
  <2>2. CASE Together(f) = {f}
    <3>1. Together(f) \notin F
      BY <1>2, <1>4, <2>2, TogetherFacts
    <3>2. cycleOf(f) = {}
      BY <1>6, <1>7, <3>1
    <3>3. QED  BY <2>2, <3>2
  <2>3. CASE Together(f) # {f}
    <3>1. Together(f) \in F
      BY <1>2, <1>4, <2>3, TogetherFacts
    <3>2. PICK k \in DOMAIN ordered : ordered[k] = Together(f)
      BY <1>6, <3>1
    <3>3. cycleOf(f) = {k}
      BY <1>6, <1>7, <3>2
    <3>4. Max({k}) = k
      <4>1. k <= k
        BY <1>6
      <4>2. QED  BY <4>1 DEF Max
    <3>5. metric(f).cycle = k /\ k # 0
      BY <1>6, <3>3, <3>4
    <3>6. QED  BY <2>3, <3>2, <3>5
  <2>4. QED  BY <2>2, <2>3
<1>9. \A f \in flow : metric(f).path = f
  OBVIOUS
<1> HIDE DEF metric
<1>10. ASSUME NEW m \in structure'.metrics
       PROVE  /\ (m.cycle = 0) = (Together(m.path) = {m.path})
              /\ m.cycle # 0 =>
                   [id |-> m.cycle, members |-> Together(m.path)] \in structure'.cycles
  <2>1. PICK f \in flow : m = metric(f)
    BY <1>1
  <2>2. (m.cycle = 0) = (Together(f) = {f}) /\ m.path = f
    BY <1>8, <1>9, <2>1
  <2>3. ASSUME m.cycle # 0 PROVE [id |-> m.cycle, members |-> Together(f)] \in structure'.cycles
    <3>1. m.cycle \in DOMAIN ordered /\ ordered[m.cycle] = Together(f)
      BY <1>8, <2>1, <2>3
    <3>2. f \in Together(f)
      BY <1>2, TogetherFacts
    <3>3. m.cycle \in touching
      BY <3>1, <3>2
    <3>4. QED  BY <1>1, <3>1, <3>3
  <2>4. QED  BY <2>2, <2>3
<1>11. ASSUME NEW c \in structure'.cycles PROVE \E m \in structure'.metrics : m.cycle = c.id
  <2>1. PICK k \in touching : c = [id |-> k, members |-> ordered[k]]
    BY <1>1
  <2>2. PICK f \in flow : f \in ordered[k]
    BY <2>1
  <2>3. k \in DOMAIN ordered /\ ordered[k] = Together(f)
    BY <1>7, <2>1, <2>2
  <2>4. f \in nodes /\ Together(f) # {f}
    <3>1. Together(f) \in F
      BY <1>6, <2>3
    <3>2. QED  BY <1>2, <1>4, <3>1, TogetherFacts
  <2>5. metric(f).cycle \in DOMAIN ordered /\ ordered[metric(f).cycle] = Together(f)
    BY <1>8, <2>4
  <2>6. metric(f).cycle = k
    BY <1>6, <2>3, <2>5
  <2>7. QED  BY <1>1, <2>1, <2>6
<1>12. \A x : Together(x)' = Together(x)
  BY <1>1, ImportsStand
<1>13. ASSUME NEW m \in structure'.metrics PROVE (Together(m.path))' = Together(m.path)
  BY <1>1 DEF Together, Reached, nodes, out, in
<1>14. QED
  <2>1. \A m : (Together(m.path))' = Together(m.path)
    BY <1>1 DEF Together, Reached, nodes, out, in
  <2>2. QED  BY <1>10, <1>11, <2>1 DEF CyclesAreMutual

\* The walk stands while its variables do.
LEMMA WalkStands ==
  ASSUME WalkInv, imports' = imports, index' = index, low' = low, pile' = pile,
         work' = work, found' = found
  PROVE  WalkInv'
<1>1. /\ nodes' = nodes
      /\ \A x : out(x)' = out(x)
      /\ \A x : Reached(x)' = Reached(x) /\ Together(x)' = Together(x)
  BY ImportsStand
<1>2. /\ visited' = visited /\ Piled' = Piled /\ Cut' = Cut
      /\ OnWork' = OnWork /\ Finished' = Finished
  BY DEF visited, Piled, Cut, OnWork, Finished, Walked
<1>3. \A k : /\ Walked(k)' = Walked(k)
             /\ (Reached(Walked(k)))' = Reached(Walked(k))
             /\ (out(Walked(k)))' = out(Walked(k))
             /\ \A x : Under(k, x)' = Under(k, x)
  BY DEF Walked, Reached, nodes, out, in, Under
<1>4. Numbered' /\ InOrderSeen'
  BY <1>1, <1>2, <1>3 DEF WalkInv, Numbered, InOrderSeen
<1>5. Followings'
  BY <1>1, <1>2, <1>3 DEF WalkInv, Followings
<1>6. Subtrees'
  BY <1>1, <1>2, <1>3 DEF WalkInv, Subtrees
<1>7. LowLinks'
  BY <1>1, <1>2, <1>3 DEF WalkInv, LowLinks
<1>8. Components' /\ found' \in Seq(SUBSET nodes')
  BY <1>1, <1>2 DEF WalkInv, Components
<1>9. QED  BY <1>4, <1>5, <1>6, <1>7, <1>8 DEF WalkInv

\* The invariant of the walk and of what is reported of it.
THEOREM CyclesInvariance == CyclesSpec => []CyclesInv
<1>1. CyclesInit => CyclesInv
  <2> SUFFICES ASSUME CyclesInit PROVE CyclesInv
    OBVIOUS
  <2>1. /\ imports \in Projects /\ visited = {} /\ Piled = {} /\ DOMAIN low = {} /\ ToSet(found) = {}
        /\ pile = <<>> /\ work = <<>> /\ found = <<>> /\ structure = NoStructure
    BY DEF CyclesInit, visited, Piled, ToSet
  <2>2. Cut = {} /\ Finished = {}
    BY <2>1 DEF Cut, Finished
  <2>3. Numbered
    BY <2>1 DEF Numbered
  <2>4. InOrderSeen
    BY <2>1 DEF InOrderSeen
  <2>5. Followings /\ Subtrees
    BY <2>1, <2>2 DEF Followings, Subtrees
  <2>6. LowLinks
    BY <2>1, <2>2 DEF LowLinks
  <2>7. Components /\ found \in Seq(SUBSET nodes)
    BY <2>1, <2>2 DEF Components
  <2>8. QED  BY <2>1, <2>3, <2>4, <2>5, <2>6, <2>7 DEF CyclesInv, WalkInv, CyclesAreMutual
<1>2. CyclesInv /\ [CyclesNext]_cycleVars => CyclesInv'
  <2> SUFFICES ASSUME CyclesInv, [CyclesNext]_cycleVars PROVE CyclesInv'
    OBVIOUS
  <2>1. WalkInv /\ (structure # NoStructure => work = <<>> /\ nodes \subseteq visited)
    BY DEF CyclesInv
  <2>2. ASSUME WalkInv', imports' = imports, structure' = structure, structure = NoStructure
        PROVE  CyclesInv'
    BY <2>2 DEF CyclesInv, CyclesAreMutual
  <2>3. CASE StartRoot
    <3> DEFINE f == Min(nodes \ visited)
    <3>1. f \in nodes \ visited
      <4>1. nodes \ visited \in SUBSET Nat /\ nodes \ visited # {}
        BY <2>1, <2>3, ImportsAreFinite DEF StartRoot, WalkInv, Numbered
      <4>2. \E x \in nodes \ visited : \A y \in nodes \ visited : x <= y
        BY <4>1, LeastNumber
      <4>3. QED  BY <4>2 DEF Min
    <3> HIDE DEF f
    <3>2. work = <<>> /\ Visit(f, <<>>)
      BY <2>3 DEF StartRoot, f
    <3>3. structure = NoStructure
      BY <2>1, <3>1
    <3>4. WalkInv'
      <4>1. <<>> \in Seq([node : nodes, edges : SUBSET nodes]) /\ Len(<<>>) = Len(work)
            /\ DOMAIN work = {}
        BY <3>2
      <4>2. QED  BY <2>1, <3>1, <3>2, <4>1, VisitStep
    <3>5. imports' = imports /\ structure' = structure
      BY <3>2 DEF Visit
    <3>6. QED  BY <2>2, <3>3, <3>4, <3>5
  <2>4. CASE EnterChild
    <3>1. work # <<>> /\ Top.edges # {} /\ Child \notin visited /\ Visit(Child, Followed)
      BY <2>4 DEF EnterChild
    <3>2. structure = NoStructure
      BY <2>1, <3>1
    <3>3. /\ Child \in out(Top.node) /\ Child \in nodes
          /\ Followed \in Seq([node : nodes, edges : SUBSET nodes])
          /\ Len(Followed) = Len(work)
          /\ \A k \in DOMAIN work :
               /\ Followed[k].node = Walked(k) /\ Followed[k].edges \subseteq work[k].edges
               /\ \A y \in work[k].edges : y \in Followed[k].edges \/ y = Child
      BY <2>1, <3>1, FollowedFacts
    <3>4. \A k \in DOMAIN work : Child \in Reached(Walked(k))
      <4>1. TAKE k \in DOMAIN work
      <4>2. Walked(k) \in nodes /\ Top.node \in Reached(Walked(k))
        BY <2>1, <3>1, TopFacts
      <4>3. QED  BY <3>3, <4>2, ReachedFacts
    <3>5. WalkInv'
      BY <2>1, <3>1, <3>3, <3>4, VisitStep
    <3>6. imports' = imports /\ structure' = structure
      BY <3>1 DEF Visit
    <3>7. QED  BY <2>2, <3>2, <3>5, <3>6
  <2>5. CASE MeetChild
    <3>1. work # <<>> /\ imports' = imports /\ structure' = structure
      BY <2>5 DEF MeetChild
    <3>2. QED  BY <2>1, <2>2, <2>5, <3>1, MeetStep
  <2>6. CASE LeaveFile
    <3>1. work # <<>> /\ imports' = imports /\ structure' = structure
      BY <2>6 DEF LeaveFile
    <3>2. QED  BY <2>1, <2>2, <2>6, <3>1, LeaveOpen, LeaveCut
  <2>7. CASE \E flow \in SUBSET nodes : Report(flow)
    <3>1. PICK flow \in SUBSET nodes : Report(flow)
      BY <2>7
    <3>2. CyclesAreMutual'
      BY <2>1, <3>1, ReportIsMutual
    <3>3. /\ imports' = imports /\ index' = index /\ low' = low /\ pile' = pile
          /\ work' = work /\ found' = found /\ work = <<>> /\ nodes \subseteq visited
      BY <3>1 DEF Report
    <3>4. WalkInv'
      BY <2>1, <3>3, WalkStands
    <3>5. nodes' \subseteq visited'
      BY <3>3 DEF nodes, out, in, visited
    <3>6. QED  BY <3>2, <3>3, <3>4, <3>5 DEF CyclesInv
  <2>8. CASE UNCHANGED cycleVars
    <3>1. /\ imports' = imports /\ index' = index /\ low' = low /\ pile' = pile
          /\ work' = work /\ found' = found /\ structure' = structure
      BY <2>8 DEF cycleVars
    <3>2. WalkInv'
      BY <2>1, <3>1, WalkStands
    <3>3. nodes' \subseteq visited' <=> nodes \subseteq visited
      BY <3>1 DEF nodes, out, in, visited
    <3>4. CyclesAreMutual'
      <4>1. \A m : (Together(m.path))' = Together(m.path)
        BY <3>1 DEF Together, Reached, nodes, out, in
      <4>2. QED  BY <3>1, <4>1 DEF CyclesInv, CyclesAreMutual
    <3>5. QED  BY <2>1, <3>1, <3>2, <3>3, <3>4 DEF CyclesInv
  <2>9. QED  BY <2>3, <2>4, <2>5, <2>6, <2>7, <2>8 DEF CyclesNext
<1>3. QED  BY <1>1, <1>2, PTL DEF CyclesSpec

\* What is reported as a cycle is a circle of imports, and a whole one.
THEOREM CyclesAreCircles == CyclesSpec => []CyclesAreMutual
<1>1. CyclesInv => CyclesAreMutual
  BY DEF CyclesInv
<1>2. QED  BY <1>1, CyclesInvariance, PTL

-----------------------------------------------------------------------------
(* Where parents lead                                                      *)

RowsKept == parents \in [RowIds -> RowIds \cup {0, Unkept}]

\* A row leads to another row or to none.
LEMMA OnwardIs ==
  ASSUME RowsKept
  PROVE  /\ 0 \notin RowIds
         /\ \A r \in RowIds : Onward(r) \in RowIds \cup {0} /\ Onward(r) # r
         /\ \A r \in RowIds : Onward(r) # 0 => Onward(r) = parents[r]
BY LineageAssumption DEF RowsKept, Onward

\* What is above a row is the least set that it leads into and that is led out of
\* by none.
LEMMA AboveFacts ==
  ASSUME RowsKept, NEW r \in RowIds
  PROVE  /\ Above(r) \subseteq RowIds
         /\ Onward(r) # 0 => Onward(r) \in Above(r)
         /\ \A y \in Above(r) : Onward(y) # 0 => Onward(y) \in Above(r)
         /\ \A s \in SUBSET RowIds :
              Onward(r) \in s \cup {0} /\ (\A y \in s : Onward(y) \in s \cup {0}) => Above(r) \subseteq s
<1>1. Above(r) \subseteq RowIds
  BY DEF Above
<1>2. Onward(r) # 0 => Onward(r) \in Above(r)
  BY OnwardIs DEF Above
<1>3. ASSUME NEW y \in Above(r), Onward(y) # 0 PROVE Onward(y) \in Above(r)
  <2>1. Onward(y) \in RowIds
    BY <1>1, <1>3, OnwardIs
  <2>2. ASSUME NEW s \in SUBSET RowIds, Onward(r) \in s \cup {0}, \A z \in s : Onward(z) \in s \cup {0}
        PROVE  Onward(y) \in s
    BY <1>3, <2>2 DEF Above
  <2>3. QED  BY <2>1, <2>2 DEF Above
<1>4. \A s \in SUBSET RowIds :
        Onward(r) \in s \cup {0} /\ (\A y \in s : Onward(y) \in s \cup {0}) => Above(r) \subseteq s
  BY DEF Above
<1>5. QED  BY <1>1, <1>2, <1>3, <1>4

\* What is above r is its parent and what is above that.
LEMMA AboveUnfolds ==
  ASSUME RowsKept, NEW r \in RowIds
  PROVE  /\ \A y \in Above(r) : Above(y) \subseteq Above(r)
         /\ Onward(r) = 0 => Above(r) = {}
         /\ Onward(r) # 0 => Above(r) = {Onward(r)} \cup Above(Onward(r))
<1>1. Above(r) \subseteq RowIds
  BY AboveFacts
<1>2. ASSUME NEW y \in Above(r) PROVE Above(y) \subseteq Above(r)
  <2>1. \A z \in Above(r) : Onward(z) \in Above(r) \cup {0}
    BY AboveFacts
  <2>2. QED  BY <1>1, <2>1, AboveFacts
<1>3. ASSUME Onward(r) = 0 PROVE Above(r) = {}
  <2>1. {} \in SUBSET RowIds /\ Onward(r) \in {} \cup {0} /\ \A y \in {} : Onward(y) \in {} \cup {0}
    BY <1>3
  <2>2. Above(r) \subseteq {}
    BY <2>1, AboveFacts
  <2>3. QED  BY <2>2
<1>4. ASSUME Onward(r) # 0 PROVE Above(r) = {Onward(r)} \cup Above(Onward(r))
  <2> DEFINE p == Onward(r)
             s == {p} \cup Above(p)
  <2>1. p \in RowIds /\ p \in Above(r)
    BY <1>4, OnwardIs, AboveFacts
  <2>2. s \in SUBSET RowIds /\ p \in s
    BY <2>1, AboveFacts
  <2>3. \A y \in s : Onward(y) \in s \cup {0}
    BY <2>1, AboveFacts
  <2>4. Above(r) \subseteq s
    <3> HIDE DEF s
    <3>1. QED  BY <2>2, <2>3, AboveFacts
  <2>5. s \subseteq Above(r)
    BY <1>2, <2>1
  <2>6. QED  BY <2>4, <2>5
<1>5. QED  BY <1>2, <1>3, <1>4

\* A row that leads to itself is in a circle, and its circle is that of each
\* row in it.
LEMMA RoundFacts ==
  ASSUME RowsKept, NEW x \in RowIds, x \in Above(x), NEW r \in Above(x)
  PROVE  r \in Above(r) /\ Above(r) = Above(x)
<1> DEFINE T == {y \in Above(x) : x \in Above(y)}
<1>1. Above(x) \subseteq RowIds
  BY AboveFacts
<1>2. ASSUME NEW y \in Above(x), x \in Above(y)
      PROVE  Onward(y) # 0 /\ Onward(y) \in Above(x) /\ x \in Above(Onward(y))
  <2>1. y \in RowIds
    BY <1>1
  <2>2. Onward(y) # 0
    BY <1>2, <2>1, AboveUnfolds
  <2>3. Onward(y) \in Above(x) /\ Onward(y) \in RowIds
    BY <1>1, <2>2, AboveFacts
  <2>4. x = Onward(y) \/ x \in Above(Onward(y))
    BY <1>2, <2>1, <2>2, AboveUnfolds
  <2>5. QED  BY <2>2, <2>3, <2>4
<1>3. T \in SUBSET RowIds
  BY <1>1
<1>4. Onward(x) \in T \cup {0} /\ \A y \in T : Onward(y) \in T \cup {0}
  BY <1>2
<1> HIDE DEF T
<1>5. Above(x) \subseteq T
  BY <1>3, <1>4, AboveFacts
<1>6. x \in Above(r)
  BY <1>5 DEF T
<1>7. QED  BY <1>1, <1>6, AboveUnfolds

-----------------------------------------------------------------------------
(* A walk                                                                  *)

Travels == [path : Seq(RowIds), at : RowIds \cup {0}, circle : SUBSET RowIds]

Stopped(w, settled) == w.at \in settled \cup {0} \/ w.circle # {}

\* Rows one after another, none of them passed before, and round at the end if
\* the walk has met itself.
OnTheWay(w, start, settled) ==
  /\ w \in Travels
  /\ \A i \in DOMAIN w.path : w.path[i] \notin settled
  /\ \A i, j \in DOMAIN w.path : w.path[i] = w.path[j] => i = j
  /\ \A i \in DOMAIN w.path : i < Len(w.path) => w.path[i + 1] = Onward(w.path[i])
  /\ w.path = <<>> => w.at = start /\ w.circle = {}
  /\ w.path # <<>> => w.path[1] = start /\ w.at = Onward(w.path[Len(w.path)])
  /\ w.circle # {} => \E j \in DOMAIN w.path :
                        w.path[j] = w.at /\ w.circle = {w.path[i] : i \in j..Len(w.path)}

\* A walk that has not stopped takes one row more, and stays on the way.
LEMMA FurtherStep ==
  ASSUME RowsKept, NEW start \in RowIds, NEW settled \in SUBSET RowIds,
         NEW w, OnTheWay(w, start, settled), NEW n \in Nat,
         Stopped(w, settled) \/ Len(w.path) = n
  PROVE  LET v == Further(w, settled)
         IN OnTheWay(v, start, settled) /\ (Stopped(v, settled) \/ Len(v.path) = n + 1)
<1> DEFINE v == Further(w, settled)
           L == Len(w.path)
<1>1. /\ w \in Travels /\ w.path \in Seq(RowIds) /\ w.at \in RowIds \cup {0}
      /\ L \in Nat /\ DOMAIN w.path = 1..L
  BY DEF OnTheWay, Travels
<1>2. CASE Stopped(w, settled)
  BY <1>2 DEF Further, Stopped
<1>3. CASE ~Stopped(w, settled) /\ w.at \in ToSet(w.path)
  <2> DEFINE at == CHOOSE i \in DOMAIN w.path : w.path[i] = w.at
             c == {w.path[i] : i \in at..L}
  <2>1. at \in 1..L /\ w.path[at] = w.at
    BY <1>1, <1>3 DEF ToSet
  <2>2. v = [w EXCEPT !.circle = c]
    BY <1>3 DEF Further, Stopped, Circle
  <2>3. c \in SUBSET RowIds /\ w.at \in c
    <3> HIDE DEF at
    <3>1. at \in at..L /\ \A i \in at..L : i \in 1..L
      BY <1>1, <2>1
    <3>2. \A i \in 1..L : w.path[i] \in RowIds
      BY <1>1
    <3>3. QED  BY <2>1, <3>1, <3>2
  <2> HIDE DEF at, c, v
  <2>4. v \in Travels /\ v.path = w.path /\ v.at = w.at /\ v.circle = c
    BY <1>1, <2>2, <2>3 DEF Travels
  <2>5. v.path # <<>>
    BY <1>1, <2>1, <2>4
  <2>6. \E j \in DOMAIN v.path : v.path[j] = v.at /\ v.circle = {v.path[i] : i \in j..Len(v.path)}
    BY <1>1, <2>1, <2>4 DEF c
  <2>7. OnTheWay(v, start, settled)
    BY <2>4, <2>5, <2>6 DEF OnTheWay
  <2>8. Stopped(v, settled)
    BY <2>3, <2>4 DEF Stopped
  <2>9. QED  BY <2>7, <2>8 DEF v
<1>4. CASE ~Stopped(w, settled) /\ w.at \notin ToSet(w.path)
  <2>1. v = [w EXCEPT !.path = Append(w.path, w.at), !.at = Onward(w.at)]
    BY <1>4 DEF Further, Stopped
  <2>2. w.at \in RowIds /\ w.at \notin settled /\ w.circle = {} /\ Len(w.path) = n
    BY <1>1, <1>4 DEF Stopped
  <2> DEFINE p == Append(w.path, w.at)
  <2>3. /\ p \in Seq(RowIds) /\ Len(p) = L + 1 /\ DOMAIN p = 1..(L + 1) /\ p # <<>>
        /\ \A i \in 1..L : p[i] = w.path[i]
        /\ p[L + 1] = w.at
    <3> DEFINE q == w.path
               a == w.at
    <3>1. q \in Seq(RowIds) /\ a \in RowIds /\ L = Len(q)
      BY <1>1, <2>2
    <3>2. p = Append(q, a)
      OBVIOUS
    <3> HIDE DEF p, q, a, L
    <3>3. /\ p \in Seq(RowIds) /\ Len(p) = L + 1 /\ DOMAIN p = 1..(L + 1)
          /\ \A i \in 1..L : p[i] = q[i]
          /\ p[L + 1] = a
      BY <3>1, <3>2
    <3>4. p # <<>>
      BY <1>1, <3>3
    <3>5. QED  BY <3>3, <3>4 DEF q, a
  <2>4. Onward(w.at) \in RowIds \cup {0}
    BY <2>2, OnwardIs
  <2> HIDE DEF p, v
  <2>5. v \in Travels /\ v.path = p /\ v.at = Onward(w.at) /\ v.circle = {}
    BY <1>1, <2>1, <2>2, <2>3, <2>4 DEF Travels, p
  <2>6. \A i \in 1..L : w.path[i] # w.at
    BY <1>1, <1>4 DEF ToSet
  <2>7. \A i \in DOMAIN p : p[i] \notin settled
    BY <1>1, <2>2, <2>3 DEF OnTheWay
  <2>8. \A i, j \in DOMAIN p : p[i] = p[j] => i = j
    <3>1. TAKE i, j \in DOMAIN p
    <3>2. CASE i \in 1..L /\ j \in 1..L
      BY <1>1, <2>3, <3>2 DEF OnTheWay
    <3>3. CASE i = L + 1 \/ j = L + 1
      BY <1>1, <2>3, <2>6, <3>3
    <3>4. QED  BY <1>1, <2>3, <3>1, <3>2, <3>3
  <2>9. \A i \in DOMAIN p : i < Len(p) => p[i + 1] = Onward(p[i])
    <3>1. TAKE i \in DOMAIN p
    <3>2. HAVE i < Len(p)
    <3>3. i \in 1..L
      BY <1>1, <2>3, <3>2
    <3>4. CASE i < L
      <4>1. i + 1 \in 1..L
        BY <1>1, <3>3, <3>4
      <4>2. QED  BY <1>1, <2>3, <3>3, <3>4, <4>1 DEF OnTheWay
    <3>5. CASE i = L
      <4>1. w.path # <<>>
        BY <1>1, <3>3
      <4>2. QED  BY <1>1, <2>3, <3>3, <3>5, <4>1 DEF OnTheWay
    <3>6. QED  BY <1>1, <3>3, <3>4, <3>5
  <2>10. p[1] = start
    <3>1. CASE L = 0
      <4>1. w.path = <<>>
        BY <1>1, <3>1
      <4>2. QED  BY <2>3, <3>1, <4>1 DEF OnTheWay
    <3>2. CASE L # 0
      <4>1. w.path # <<>> /\ 1 \in 1..L
        BY <1>1, <3>2
      <4>2. QED  BY <2>3, <4>1 DEF OnTheWay
    <3>3. QED  BY <3>1, <3>2
  <2>11. OnTheWay(v, start, settled)
    BY <2>3, <2>5, <2>7, <2>8, <2>9, <2>10 DEF OnTheWay
  <2>12. Len(v.path) = n + 1
    BY <2>2, <2>3, <2>5
  <2>13. QED  BY <2>11, <2>12 DEF v
<1>5. QED  BY <1>2, <1>3, <1>4

\* No more rows than there are can be passed, each once.
LEMMA PassedOnce ==
  ASSUME NEW p \in Seq(RowIds), \A i, j \in DOMAIN p : p[i] = p[j] => i = j
  PROVE  Len(p) <= Cardinality(RowIds)
<1>1. DOMAIN p = 1..Len(p) /\ Len(p) \in Nat
  OBVIOUS
<1>2. IsFiniteSet(1..Len(p)) /\ Cardinality(1..Len(p)) = Len(p)
  BY <1>1, FS_Interval
<1>3. p \in Injection(1..Len(p), RowIds)
  <2>1. p \in [1..Len(p) -> RowIds]
    BY <1>1
  <2>2. QED  BY <1>1, <2>1 DEF Injection, IsInjective
<1>4. IsFiniteSet(RowIds)
  BY LineageAssumption
<1>5. QED  BY <1>2, <1>3, <1>4, FS_Injection

Steps(walk, start, settled) ==
  walk = [n \in 0..(Cardinality(RowIds) + 1) |->
            IF n = 0 THEN [path |-> <<>>, at |-> start, circle |-> {}]
            ELSE Further(walk[n - 1], settled)]

\* A walk has stopped when it may have passed every row: it meets itself, something
\* settled, or the end.
LEMMA WalkEnds ==
  ASSUME RowsKept, NEW start \in RowIds, NEW settled \in SUBSET RowIds
  PROVE  OnTheWay(Walk(start, settled), start, settled) /\ Stopped(Walk(start, settled), settled)
<1> DEFINE N == Cardinality(RowIds)
           init == [path |-> <<>>, at |-> start, circle |-> {}]
           S == {w \in Travels : OnTheWay(w, start, settled)}
           next == [w \in Travels |-> Further(w, settled)]
<1>1. N \in Nat /\ N + 1 \in Nat
  BY LineageAssumption, FS_CardinalityType
<1>2. init \in Travels /\ init.path = <<>> /\ init.at = start /\ init.circle = {}
  BY DEF Travels
<1>3. OnTheWay(init, start, settled) /\ Len(init.path) = 0
  BY <1>2 DEF OnTheWay
<1>4. \A w \in Travels : Further(w, settled) \in Travels
  <2>1. TAKE w \in Travels
  <2>2. w.path \in Seq(RowIds) /\ w.at \in RowIds \cup {0} /\ w.circle \in SUBSET RowIds
    BY DEF Travels
  <2>3. CASE w.at \in settled \cup {0} \/ w.circle # {}
    BY <2>3 DEF Further
  <2>4. CASE ~(w.at \in settled \cup {0} \/ w.circle # {}) /\ w.at \in ToSet(w.path)
    <3>1. Further(w, settled) = [w EXCEPT !.circle = Circle(w.path, w.at)]
      BY <2>4 DEF Further
    <3>2. Circle(w.path, w.at) \in SUBSET RowIds
      <4> DEFINE at == CHOOSE i \in DOMAIN w.path : w.path[i] = w.at
      <4>1. at \in DOMAIN w.path /\ DOMAIN w.path = 1..Len(w.path) /\ Len(w.path) \in Nat
        BY <2>2, <2>4 DEF ToSet
      <4>2. Circle(w.path, w.at) = {w.path[i] : i \in at..Len(w.path)}
        BY DEF Circle
      <4> HIDE DEF at
      <4>3. \A i \in at..Len(w.path) : i \in DOMAIN w.path
        BY <4>1
      <4>4. \A i \in DOMAIN w.path : w.path[i] \in RowIds
        BY <2>2
      <4>5. QED  BY <4>2, <4>3, <4>4
    <3> DEFINE c == Circle(w.path, w.at)
    <3> HIDE DEF c
    <3>3. QED  BY <3>1, <3>2 DEF Travels, c
  <2>5. CASE ~(w.at \in settled \cup {0} \/ w.circle # {}) /\ w.at \notin ToSet(w.path)
    <3>1. Further(w, settled) = [w EXCEPT !.path = Append(w.path, w.at), !.at = Onward(w.at)]
      BY <2>5 DEF Further
    <3>2. w.at \in RowIds /\ Onward(w.at) \in RowIds \cup {0}
      BY <2>2, <2>5, OnwardIs
    <3>3. Append(w.path, w.at) \in Seq(RowIds)
      BY <2>2, <3>2
    <3> DEFINE p == Append(w.path, w.at)
               o == Onward(w.at)
    <3> HIDE DEF p, o
    <3>4. QED  BY <3>1, <3>2, <3>3 DEF Travels, p, o
  <2>6. QED  BY <2>3, <2>4, <2>5
<1>5. next \in [Travels -> Travels]
  BY <1>4
<1>6. PICK f \in [0..(N + 1) -> Travels] : Iterates(f, N + 1, init, next)
  <2> HIDE DEF N, init, next
  <2>1. QED  BY <1>1, <1>2, <1>5, IterationExists
<1>7. \A k \in 0..(N + 1) : f[k] = IF k = 0 THEN init ELSE Further(f[k - 1], settled)
  <2> HIDE DEF N, init
  <2>1. TAKE k \in 0..(N + 1)
  <2>2. CASE k = 0
    BY <1>6, <2>2 DEF Iterates
  <2>3. CASE k # 0
    <3>1. k - 1 \in 0..(N + 1)
      BY <1>1, <2>3
    <3>2. f[k - 1] \in Travels
      BY <1>6, <3>1
    <3>3. QED  BY <1>6, <2>3, <3>2 DEF Iterates
  <2>4. QED  BY <2>2, <2>3
<1>8. Steps(f, start, settled)
  <2>1. f = [k \in 0..(N + 1) |-> f[k]]
    BY <1>6
  <2>2. f = [k \in 0..(N + 1) |-> IF k = 0 THEN init ELSE Further(f[k - 1], settled)]
    BY <1>7, <2>1
  <2>3. QED  BY <2>2 DEF Steps
<1>9. \A g : Steps(g, start, settled) =>
              /\ OnTheWay(g[N + 1], start, settled) /\ Stopped(g[N + 1], settled)
  <2>1. SUFFICES ASSUME NEW g, Steps(g, start, settled)
                 PROVE OnTheWay(g[N + 1], start, settled) /\ Stopped(g[N + 1], settled)
    OBVIOUS
  <2> DEFINE P == {k \in Nat : k <= N + 1 => OnTheWay(g[k], start, settled)
                                             /\ (Stopped(g[k], settled) \/ Len(g[k].path) = k)}
  <2>2. g[0] = init /\ \A k \in 0..N : g[k + 1] = Further(g[k], settled)
    <3>1. 0 \in 0..(N + 1) /\ \A k \in 0..N : k + 1 \in 0..(N + 1) /\ k + 1 # 0 /\ (k + 1) - 1 = k
      BY <1>1
    <3> HIDE DEF N
    <3>2. QED  BY <2>1, <3>1 DEF Steps, N
  <2>3. 0 \in P
    <3> HIDE DEF init
    <3>1. QED  BY <1>3, <2>2
  <2>4. ASSUME NEW k \in Nat, k < N + 1, k \in P PROVE k + 1 \in P
    <3> HIDE DEF init
    <3>1. k \in 0..N
      BY <1>1, <2>4
    <3>2. OnTheWay(g[k], start, settled) /\ (Stopped(g[k], settled) \/ Len(g[k].path) = k)
      BY <1>1, <2>4
    <3>3. g[k + 1] = Further(g[k], settled)
      BY <2>2, <3>1
    <3> HIDE DEF P
    <3>4. OnTheWay(g[k + 1], start, settled) /\ (Stopped(g[k + 1], settled) \/ Len(g[k + 1].path) = k + 1)
      BY <3>2, <3>3, FurtherStep
    <3>5. QED  BY <3>4 DEF P
  <2>5. N + 1 \in P
    <3> HIDE DEF P, N
    <3>1. \A k \in 0..(N + 1) : k \in P
      BY <1>1, <2>3, <2>4, UpTo
    <3>2. QED  BY <1>1, <3>1
  <2>6. OnTheWay(g[N + 1], start, settled) /\ (Stopped(g[N + 1], settled) \/ Len(g[N + 1].path) = N + 1)
    BY <1>1, <2>5
  <2>7. Len(g[N + 1].path) <= N
    BY <2>6, PassedOnce DEF OnTheWay, Travels
  <2>8. QED  BY <1>1, <2>6, <2>7
<1>10. Walk(start, settled) = (CHOOSE g : Steps(g, start, settled))[N + 1]
  BY DEF Walk, Steps
<1>11. QED
  <2> HIDE DEF N
  <2>1. QED  BY <1>8, <1>9, <1>10

LeadsIn(s) == \A x \in s : Onward(x) \in s \cup {0}

\* What a walk passes is followed as far as it goes, and the circle it meets is
\* what each row of the circle has above it; no other row of it is in a circle.
LEMMA WalkFacts ==
  ASSUME RowsKept, NEW settled \in SUBSET RowIds, LeadsIn(settled),
         NEW start \in RowIds \ settled
  PROVE  LET w == Walk(start, settled)
         IN /\ start \in ToSet(w.path)
            /\ ToSet(w.path) \subseteq RowIds \ settled
            /\ LeadsIn(settled \cup ToSet(w.path))
            /\ w.circle # {} => \E x \in ToSet(w.path) : x \in Above(x) /\ w.circle = Above(x)
            /\ \A x \in ToSet(w.path) : x \in Above(x) => w.circle = Above(x)
<1> DEFINE w == Walk(start, settled)
           p == w.path
           L == Len(p)
           Later(i) == settled \cup {p[j] : j \in (i + 1)..L}
<1>1. OnTheWay(w, start, settled) /\ Stopped(w, settled)
  BY WalkEnds
<1> HIDE DEF w
<1>2. /\ p \in Seq(RowIds) /\ L \in Nat /\ DOMAIN p = 1..L
      /\ \A i \in 1..L : p[i] \in RowIds \ settled
      /\ \A i, j \in 1..L : p[i] = p[j] => i = j
      /\ \A i \in 1..L : i < L => p[i + 1] = Onward(p[i])
      /\ w.at \in RowIds \cup {0}
  BY <1>1 DEF OnTheWay, Travels
<1>3. p # <<>>
  <2>1. SUFFICES ASSUME p = <<>> PROVE FALSE
    OBVIOUS
  <2>2. w.at = start /\ w.circle = {}
    BY <1>1, <2>1 DEF OnTheWay
  <2>3. w.at \in settled \cup {0}
    BY <1>1, <2>2 DEF Stopped
  <2>4. QED  BY <2>2, <2>3, LineageAssumption
<1>4. L > 0 /\ p[1] = start /\ w.at = Onward(p[L])
  BY <1>1, <1>2, <1>3 DEF OnTheWay
<1>5. w.circle # {} => \E j \in 1..L : p[j] = w.at /\ w.circle = {p[i] : i \in j..L}
  BY <1>1, <1>2 DEF OnTheWay
<1>6. ToSet(p) = {p[i] : i \in 1..L}
  BY <1>2 DEF ToSet
<1> HIDE DEF p, L
<1>7. start \in ToSet(p)
  BY <1>2, <1>4, <1>6
<1>8. ToSet(p) \subseteq RowIds \ settled
  BY <1>2, <1>6
<1>9. w.at \in settled \cup ToSet(p) \cup {0}
  <2>1. CASE w.circle = {}
    BY <1>1, <2>1 DEF Stopped
  <2>2. CASE w.circle # {}
    BY <1>2, <1>5, <1>6, <2>2
  <2>3. QED  BY <2>1, <2>2
<1>10. \A i \in 1..L : Onward(p[i]) \in {p[j] : j \in (i + 1)..L} \/ i = L
  <2>1. TAKE i \in 1..L
  <2>2. SUFFICES ASSUME i # L PROVE Onward(p[i]) \in {p[j] : j \in (i + 1)..L}
    OBVIOUS
  <2>3. i + 1 \in (i + 1)..L /\ p[i + 1] = Onward(p[i])
    BY <1>2, <2>2
  <2>4. QED  BY <2>3
<1>11. LeadsIn(settled \cup ToSet(p))
  <2>1. ASSUME NEW i \in 1..L PROVE Onward(p[i]) \in settled \cup ToSet(p) \cup {0}
    <3>1. CASE i = L
      BY <1>4, <1>9, <3>1
    <3>2. CASE i # L
      <4>1. \A j \in (i + 1)..L : j \in 1..L
        BY <1>2
      <4>2. QED  BY <1>6, <1>10, <3>2, <4>1
    <3>3. QED  BY <3>1, <3>2
  <2>2. \A x \in settled : Onward(x) \in settled \cup {0}
    BY DEF LeadsIn
  <2>3. QED  BY <1>6, <2>1, <2>2 DEF LeadsIn
\* A row from which no step of the path leads back has only later rows above it.
<1>12. ASSUME NEW k \in 1..L,
              \A i \in k..L : Onward(p[i]) \in Later(k) \cup {0}
       PROVE  p[k] \notin Above(p[k])
  <2>1. p[k] \notin Later(k)
    BY <1>2
  <2>2. Later(k) \in SUBSET RowIds
    <3>1. \A j \in (k + 1)..L : j \in 1..L
      BY <1>2
    <3>2. QED  BY <1>2, <3>1
  <2>3. Onward(p[k]) \in Later(k) \cup {0}
    <3>1. k \in k..L
      BY <1>2
    <3>2. QED  BY <1>12, <3>1
  <2>4. \A y \in Later(k) : Onward(y) \in Later(k) \cup {0}
    <3>1. \A j \in (k + 1)..L : j \in k..L
      BY <1>2
    <3>2. \A x \in settled : Onward(x) \in Later(k) \cup {0}
      BY DEF LeadsIn
    <3>3. QED  BY <1>12, <3>1, <3>2
  <2> HIDE DEF Later
  <2>5. p[k] \in RowIds
    BY <1>2
  <2>6. Above(p[k]) \subseteq Later(k)
    BY <2>2, <2>3, <2>4, <2>5, AboveFacts
  <2>7. QED  BY <2>1, <2>6
<1>13. \A k \in 1..L : \A i \in k..L : i < L => Onward(p[i]) \in Later(k)
  <2>1. TAKE k \in 1..L
  <2>2. TAKE i \in k..L
  <2>3. HAVE i < L
  <2>4. i \in 1..L /\ i + 1 \in (k + 1)..L
    BY <1>2, <2>3
  <2>5. p[i + 1] = Onward(p[i])
    BY <1>2, <2>3, <2>4
  <2>6. QED  BY <2>4, <2>5
<1>14. CASE w.circle = {}
  <2>1. w.at \in settled \cup {0}
    BY <1>1, <1>14 DEF Stopped
  <2>2. ASSUME NEW k \in 1..L PROVE p[k] \notin Above(p[k])
    <3>1. ASSUME NEW i \in k..L PROVE Onward(p[i]) \in Later(k) \cup {0}
      <4>1. CASE i = L
        BY <1>4, <2>1, <4>1
      <4>2. CASE i # L
        <5>1. i < L
          BY <1>2, <4>2
        <5>2. QED  BY <1>13, <5>1
      <4>3. QED  BY <4>1, <4>2
    <3> HIDE DEF Later
    <3>2. QED  BY <1>12, <3>1
  <2>3. QED  BY <1>6, <1>7, <1>8, <1>11, <1>14, <2>2 DEF w, p
<1>15. CASE w.circle # {}
  <2>1. PICK j \in 1..L : p[j] = w.at /\ w.circle = {p[i] : i \in j..L}
    BY <1>5, <1>15
  <2> DEFINE C == w.circle
  <2>2. C \in SUBSET RowIds
    <3>1. \A i \in j..L : i \in 1..L
      BY <1>2
    <3>2. QED  BY <1>2, <2>1, <3>1
  <2>3. ASSUME NEW k \in j..L PROVE Above(p[k]) = C
    <3>1. k \in 1..L /\ p[k] \in RowIds
      BY <1>2
    <3>2. \A i \in j..L : Onward(p[i]) \in C
      <4>1. TAKE i \in j..L
      <4>2. i \in 1..L
        BY <1>2
      <4>3. CASE i = L
        <5>1. j \in j..L
          BY <1>2
        <5>2. QED  BY <1>4, <2>1, <4>3, <5>1
      <4>4. CASE i # L
        <5>1. i + 1 \in j..L /\ p[i + 1] = Onward(p[i])
          BY <1>2, <4>2, <4>4
        <5>2. QED  BY <2>1, <5>1
      <4>5. QED  BY <4>3, <4>4
    <3>3. Above(p[k]) \subseteq C
      <4>1. \A y \in C : Onward(y) \in C \cup {0}
        BY <2>1, <3>2
      <4>2. Onward(p[k]) \in C \cup {0}
        BY <3>2
      <4> HIDE DEF C
      <4>3. QED  BY <2>2, <3>1, <4>1, <4>2, AboveFacts
    <3>4. \A i \in 1..L : p[i] # 0
      BY <1>2, OnwardIs
    <3>5. \A m \in Nat : m <= L - k => p[k + m] \in Above(p[k]) \cup {p[k]}
      <4> DEFINE P == {m \in Nat : m <= L - k => p[k + m] \in Above(p[k]) \cup {p[k]}}
      <4>1. 0 \in P
        BY <3>1, <1>2
      <4>2. ASSUME NEW m \in Nat, m < L - k, m \in P PROVE m + 1 \in P
        <5>1. k + m \in 1..L /\ k + m < L /\ (k + m) + 1 = k + (m + 1) /\ k + (m + 1) \in 1..L /\ m <= L - k
          BY <1>2, <3>1, <4>2
        <5>2. p[k + (m + 1)] = Onward(p[k + m])
          BY <1>2, <5>1
        <5>3. p[k + m] \in Above(p[k]) \cup {p[k]}
          BY <4>2, <5>1
        <5>4. Onward(p[k + m]) # 0
          BY <3>4, <5>1, <5>2
        <5>5. Onward(p[k + m]) \in Above(p[k])
          BY <3>1, <5>3, <5>4, AboveFacts
        <5>6. QED  BY <5>2, <5>5
      <4>3. L - k \in Nat
        BY <1>2, <3>1
      <4> HIDE DEF P
      <4>4. \A m \in 0..(L - k) : m \in P
        <5> DEFINE d == L - k
        <5> HIDE DEF d
        <5>1. d \in Nat /\ \A m \in Nat : m < d /\ m \in P => m + 1 \in P
          BY <4>2, <4>3 DEF d
        <5>2. \A m \in 0..d : m \in P
          BY <4>1, <5>1, UpTo
        <5>3. QED  BY <5>2 DEF d
      <4>5. TAKE m \in Nat
      <4>6. HAVE m <= L - k
      <4>7. m \in 0..(L - k)
        BY <4>3, <4>6
      <4>8. m \in P
        BY <4>4, <4>7
      <4>9. QED  BY <4>6, <4>8 DEF P
    <3>6. p[L] \in Above(p[k]) \cup {p[k]}
      <4>1. L - k \in Nat /\ k + (L - k) = L
        BY <1>2, <3>1
      <4>2. QED  BY <3>5, <4>1
    <3>7. p[j] \in Above(p[k])
      <4>1. Onward(p[L]) = p[j] /\ p[j] # 0
        BY <1>4, <2>1, <3>4
      <4>2. QED  BY <3>1, <3>6, <4>1, AboveFacts
    <3>8. \A m \in Nat : m <= L - j => p[j + m] \in Above(p[k])
      <4> DEFINE P == {m \in Nat : m <= L - j => p[j + m] \in Above(p[k])}
      <4>1. 0 \in P
        BY <3>7, <1>2
      <4>2. ASSUME NEW m \in Nat, m < L - j, m \in P PROVE m + 1 \in P
        <5>1. j + m \in 1..L /\ j + m < L /\ (j + m) + 1 = j + (m + 1) /\ j + (m + 1) \in 1..L /\ m <= L - j
          BY <1>2, <4>2
        <5>2. p[j + (m + 1)] = Onward(p[j + m])
          BY <1>2, <5>1
        <5>3. p[j + m] \in Above(p[k])
          BY <4>2, <5>1
        <5>4. Onward(p[j + m]) # 0
          BY <3>4, <5>1, <5>2
        <5>5. Onward(p[j + m]) \in Above(p[k])
          BY <3>1, <5>3, <5>4, AboveFacts
        <5>6. QED  BY <5>2, <5>5
      <4>3. L - j \in Nat
        BY <1>2
      <4> HIDE DEF P
      <4>4. \A m \in 0..(L - j) : m \in P
        <5> DEFINE d == L - j
        <5> HIDE DEF d
        <5>1. d \in Nat /\ \A m \in Nat : m < d /\ m \in P => m + 1 \in P
          BY <4>2, <4>3 DEF d
        <5>2. \A m \in 0..d : m \in P
          BY <4>1, <5>1, UpTo
        <5>3. QED  BY <5>2 DEF d
      <4>5. TAKE m \in Nat
      <4>6. HAVE m <= L - j
      <4>7. m \in 0..(L - j)
        BY <4>3, <4>6
      <4>8. m \in P
        BY <4>4, <4>7
      <4>9. QED  BY <4>6, <4>8 DEF P
    <3>9. \A i \in j..L : p[i] \in Above(p[k])
      <4>1. TAKE i \in j..L
      <4>2. i - j \in Nat /\ i - j <= L - j /\ j + (i - j) = i
        BY <1>2
      <4>3. QED  BY <3>8, <4>2
    <3>10. C \subseteq Above(p[k])
      BY <2>1, <3>9
    <3>11. QED  BY <3>3, <3>10
  <2>4. ASSUME NEW k \in 1..L, k < j PROVE p[k] \notin Above(p[k])
    <3>1. ASSUME NEW i \in k..L PROVE Onward(p[i]) \in Later(k) \cup {0}
      <4>1. CASE i = L
        <5>1. j \in (k + 1)..L
          BY <1>2, <2>4
        <5>2. QED  BY <1>4, <2>1, <4>1, <5>1
      <4>2. CASE i # L
        <5>1. i < L
          BY <1>2, <4>2
        <5>2. QED  BY <1>13, <5>1
      <4>3. QED  BY <4>1, <4>2
    <3> HIDE DEF Later
    <3>2. QED  BY <1>12, <3>1
  <2>5. \A x \in ToSet(p) : x \in Above(x) => C = Above(x)
    <3>1. TAKE x \in ToSet(p)
    <3>2. HAVE x \in Above(x)
    <3>3. PICK k \in 1..L : p[k] = x
      BY <1>6
    <3>4. k \in j..L
      BY <1>2, <2>4, <3>2, <3>3
    <3>5. QED  BY <2>3, <3>3, <3>4
  <2>6. p[j] \in Above(p[j]) /\ C = Above(p[j]) /\ p[j] \in ToSet(p)
    <3>1. j \in j..L
      BY <1>2
    <3>2. Above(p[j]) = C
      BY <2>3, <3>1
    <3>3. p[j] \in C
      BY <2>1, <3>1
    <3>4. QED  BY <1>6, <3>2, <3>3
  <2>7. QED  BY <1>7, <1>8, <1>11, <2>5, <2>6 DEF w, p
<1>16. QED  BY <1>14, <1>15

-----------------------------------------------------------------------------
(* All walks                                                               *)

RoundsOf(s) == {Above(x) : x \in {y \in s : y \in Above(y)}}

Settles == [settled : SUBSET RowIds, circles : SUBSET (SUBSET RowIds)]

\* After so many walks, at least as many rows have been passed, and the circles
\* found are those of the rows passed.
Sorted(s, n) ==
  /\ s \in Settles /\ LeadsIn(s.settled) /\ s.circles = RoundsOf(s.settled)
  /\ RowIds \subseteq s.settled \/ n <= Cardinality(s.settled)

\* A walk from the next row settles all it passes, and finds the circle it ends in.
LEMMA WalkOnStep ==
  ASSUME RowsKept, NEW s, NEW n \in Nat, Sorted(s, n)
  PROVE  Sorted(WalkOn(s), n + 1)
<1>1. s \in Settles /\ s.settled \in SUBSET RowIds /\ LeadsIn(s.settled) /\ s.circles = RoundsOf(s.settled)
  BY DEF Sorted, Settles
<1>2. CASE RowIds \subseteq s.settled
  BY <1>1, <1>2 DEF WalkOn, Sorted
<1>3. CASE ~(RowIds \subseteq s.settled)
  <2> DEFINE left == RowIds \ s.settled
             start == Min(left)
             w == Walk(start, s.settled)
             path == ToSet(w.path)
             v == WalkOn(s)
  <2>1. start \in RowIds \ s.settled
    <3>1. left \in SUBSET Nat /\ left # {}
      BY <1>3, LineageAssumption
    <3> HIDE DEF left
    <3>2. PICK x \in left : \A y \in left : x <= y
      BY <3>1, LeastNumber
    <3>3. Min(left) \in left
      BY <3>2 DEF Min
    <3>4. QED  BY <3>3 DEF left
  <2>2. v = [settled |-> s.settled \cup path, circles |-> s.circles \cup ({w.circle} \ {{}})]
    BY <1>3 DEF WalkOn
  <2> HIDE DEF start, v, left
  <2>3. /\ start \in path
        /\ path \subseteq RowIds \ s.settled
        /\ LeadsIn(s.settled \cup path)
        /\ w.circle # {} => \E x \in path : x \in Above(x) /\ w.circle = Above(x)
        /\ \A x \in path : x \in Above(x) => w.circle = Above(x)
    <3> DEFINE settled == s.settled
    <3>1. settled \in SUBSET RowIds /\ LeadsIn(settled) /\ start \in RowIds \ settled
      BY <1>1, <2>1
    <3> HIDE DEF settled
    <3>2. LET u == Walk(start, settled)
          IN /\ start \in ToSet(u.path)
             /\ ToSet(u.path) \subseteq RowIds \ settled
             /\ LeadsIn(settled \cup ToSet(u.path))
             /\ u.circle # {} => \E x \in ToSet(u.path) : x \in Above(x) /\ u.circle = Above(x)
             /\ \A x \in ToSet(u.path) : x \in Above(x) => u.circle = Above(x)
      BY <3>1, WalkFacts
    <3>3. QED  BY <3>2 DEF settled
  <2> HIDE DEF path, w
  <2>4. v.settled = s.settled \cup path /\ v.circles = s.circles \cup ({w.circle} \ {{}})
    BY <2>2
  <2>5. s.circles \cup ({w.circle} \ {{}}) = RoundsOf(s.settled \cup path)
    <3>1. \A c \in s.circles \cup ({w.circle} \ {{}}) : c \in RoundsOf(s.settled \cup path)
      BY <1>1, <2>3 DEF RoundsOf
    <3>2. \A x \in s.settled : x \in Above(x) => Above(x) \in s.circles
      BY <1>1 DEF RoundsOf
    <3>3. \A x \in path : x \in Above(x) => Above(x) \in {w.circle} \ {{}}
      <4>1. TAKE x \in path
      <4>2. HAVE x \in Above(x)
      <4>3. w.circle = Above(x)
        BY <2>3, <4>2
      <4>4. Above(x) # {}
        BY <4>2
      <4>5. QED  BY <4>3, <4>4
    <3>4. QED  BY <3>1, <3>2, <3>3 DEF RoundsOf
  <2>6. v \in Settles
    <3>1. RoundsOf(s.settled \cup path) \in SUBSET (SUBSET RowIds)
      BY DEF RoundsOf, Above
    <3>2. s.settled \cup path \in SUBSET RowIds
      BY <1>1, <2>3
    <3> DEFINE a == s.settled \cup path
               b == s.circles \cup ({w.circle} \ {{}})
    <3>3. v = [settled |-> a, circles |-> b] /\ a \in SUBSET RowIds /\ b \in SUBSET (SUBSET RowIds)
      BY <2>2, <2>5, <3>1, <3>2
    <3> HIDE DEF a, b
    <3>4. QED  BY <3>3 DEF Settles
  <2>7. n + 1 <= Cardinality(s.settled \cup path)
    <3> DEFINE a == s.settled
               b == s.settled \cup {start}
               c == s.settled \cup path
    <3>1. IsFiniteSet(a) /\ IsFiniteSet(b) /\ IsFiniteSet(c)
      <4>1. a \subseteq RowIds /\ b \subseteq RowIds /\ c \subseteq RowIds
        BY <1>1, <2>1, <2>3
      <4> HIDE DEF a, b, c
      <4>2. QED  BY <4>1, FS_Subset, LineageAssumption
    <3>2. Cardinality(b) = Cardinality(a) + 1
      <4>1. start \notin a
        BY <2>1
      <4> HIDE DEF a
      <4>2. QED  BY <3>1, <4>1, FS_AddElement DEF a
    <3>3. Cardinality(b) <= Cardinality(c)
      <4>1. b \subseteq c
        BY <2>3
      <4> HIDE DEF b, c
      <4>2. QED  BY <3>1, <4>1, FS_Subset
    <3>4. n <= Cardinality(a)
      BY <1>3 DEF Sorted
    <3> HIDE DEF a, b, c
    <3>5. Cardinality(a) \in Nat /\ Cardinality(b) \in Nat /\ Cardinality(c) \in Nat
      BY <3>1, FS_CardinalityType
    <3>6. n + 1 <= Cardinality(c)
      BY <3>2, <3>3, <3>4, <3>5
    <3>7. QED  BY <3>6 DEF c
  <2>8. LeadsIn(v.settled) /\ v.circles = RoundsOf(v.settled) /\ n + 1 <= Cardinality(v.settled)
    BY <2>3, <2>4, <2>5, <2>7
  <2>9. Sorted(v, n + 1)
    BY <2>6, <2>8 DEF Sorted
  <2>10. QED  BY <2>9 DEF v
<1>4. QED  BY <1>2, <1>3

WalksOn(walked) ==
  walked = [n \in 0..Cardinality(RowIds) |->
              IF n = 0 THEN [settled |-> {}, circles |-> {}] ELSE WalkOn(walked[n - 1])]

\* The walks find the circles there are: what a row has above it that is above
\* itself.
LEMMA CirclesAre ==
  ASSUME RowsKept
  PROVE  Circles = {Above(r) : r \in {x \in RowIds : x \in Above(x)}}
<1> DEFINE N == Cardinality(RowIds)
           init == [settled |-> {}, circles |-> {}]
           S == {s \in Settles : Sorted(s, 0)}
           next == [s \in S |-> WalkOn(s)]
<1>1. N \in Nat
  BY LineageAssumption, FS_CardinalityType
<1>2. Sorted(init, 0)
  <2>1. init \in Settles /\ init.settled = {} /\ init.circles = {}
    BY DEF Settles
  <2>2. LeadsIn({}) /\ RoundsOf({}) = {}
    BY DEF LeadsIn, RoundsOf
  <2>3. 0 <= Cardinality({})
    BY FS_EmptySet
  <2> HIDE DEF init
  <2>4. QED  BY <2>1, <2>2, <2>3 DEF Sorted
<1>3. next \in [S -> S]
  <2>1. ASSUME NEW s \in S PROVE WalkOn(s) \in S
    <3>1. Sorted(WalkOn(s), 0 + 1)
      BY WalkOnStep
    <3>2. WalkOn(s) \in Settles /\ Cardinality(WalkOn(s).settled) \in Nat
      <4>1. WalkOn(s) \in Settles /\ WalkOn(s).settled \in SUBSET RowIds
        BY <3>1 DEF Sorted, Settles
      <4>2. QED  BY <4>1, FS_Subset, FS_CardinalityType, LineageAssumption
    <3>3. Sorted(WalkOn(s), 0)
      BY <3>1, <3>2 DEF Sorted
    <3>4. QED  BY <3>2, <3>3
  <2>2. QED  BY <2>1
<1>4. init \in S
  BY <1>2 DEF Sorted
<1>5. PICK f \in [0..N -> S] : Iterates(f, N, init, next)
  <2> HIDE DEF N, init, next, S
  <2>1. QED  BY <1>1, <1>3, <1>4, IterationExists
<1>6. WalksOn(f)
  <2> HIDE DEF N, init
  <2>1. \A k \in 0..N : f[k] = IF k = 0 THEN init ELSE WalkOn(f[k - 1])
    <3>1. TAKE k \in 0..N
    <3>2. CASE k = 0
      BY <1>5, <3>2 DEF Iterates
    <3>3. CASE k # 0
      <4>1. k - 1 \in 0..N
        BY <1>1, <3>3
      <4>2. f[k - 1] \in S
        BY <1>5, <4>1
      <4>3. QED  BY <1>5, <3>3, <4>2 DEF Iterates
    <3>4. QED  BY <3>2, <3>3
  <2>2. f = [k \in 0..N |-> f[k]]
    BY <1>5
  <2>3. f = [k \in 0..N |-> IF k = 0 THEN init ELSE WalkOn(f[k - 1])]
    BY <2>1, <2>2
  <2>4. QED  BY <2>3 DEF WalksOn, N, init
<1>7. \A g : WalksOn(g) => Sorted(g[N], N)
  <2>1. SUFFICES ASSUME NEW g, WalksOn(g) PROVE Sorted(g[N], N)
    OBVIOUS
  <2> DEFINE P == {k \in Nat : k <= N => Sorted(g[k], k)}
  <2> HIDE DEF N
  <2>2. g[0] = init
    BY <1>1, <2>1 DEF WalksOn, N
  <2>3. 0 \in P
    <3> HIDE DEF init
    <3>1. QED  BY <1>2, <2>2
  <2>4. ASSUME NEW k \in Nat, k < N, k \in P PROVE k + 1 \in P
    <3>1. k + 1 \in 0..N /\ k + 1 # 0 /\ (k + 1) - 1 = k
      BY <1>1, <2>4
    <3>2. g[k + 1] = WalkOn(g[k])
      BY <2>1, <3>1 DEF WalksOn, N
    <3>3. Sorted(g[k], k)
      BY <1>1, <2>4
    <3> HIDE DEF P
    <3>4. Sorted(g[k + 1], k + 1)
      BY <3>2, <3>3, WalkOnStep
    <3>5. QED  BY <3>4 DEF P
  <2> HIDE DEF P
  <2>5. \A k \in 0..N : k \in P
    BY <1>1, <2>3, <2>4, UpTo
  <2>6. N \in P
    BY <1>1, <2>5
  <2>7. QED  BY <1>1, <2>6 DEF P
<1>8. \A g : WalksOn(g) => g[N].circles = RoundsOf(RowIds)
  <2>1. SUFFICES ASSUME NEW g, WalksOn(g) PROVE g[N].circles = RoundsOf(RowIds)
    OBVIOUS
  <2> DEFINE T == g[N].settled
  <2>2. /\ g[N].circles = RoundsOf(T) /\ T \in SUBSET RowIds
        /\ RowIds \subseteq T \/ N <= Cardinality(T)
    BY <1>7, <2>1 DEF Sorted, Settles
  <2>3. T = RowIds
    <3>1. CASE RowIds \subseteq T
      BY <2>2, <3>1
    <3>2. CASE N <= Cardinality(T)
      <4> HIDE DEF T
      <4>1. Cardinality(T) <= N /\ Cardinality(T) \in Nat /\ (Cardinality(T) = N => T = RowIds)
        BY <2>2, LineageAssumption, FS_Subset, FS_CardinalityType
      <4>2. QED  BY <1>1, <3>2, <4>1
    <3>3. QED  BY <2>2, <3>1, <3>2
  <2>4. QED  BY <2>2, <2>3
<1>9. Circles = (CHOOSE g : WalksOn(g))[N].circles
  BY DEF Circles, WalksOn
<1>10. Circles = RoundsOf(RowIds)
  <2> HIDE DEF N
  <2>1. QED  BY <1>6, <1>8, <1>9
<1>11. QED  BY <1>10 DEF RoundsOf

\* So a row is told that it is in a circle, and of which, only if it is.
LEMMA CirclesTold ==
  ASSUME RowsKept, NEW r \in RowIds
  PROVE  /\ (\E c \in Circles : r \in c) <=> r \in Above(r)
         /\ {d \in diagnostics(r) : d[1] = "cycle"} =
              IF r \in Above(r) THEN {<<"cycle", Above(r)>>} ELSE {}
<1>1. ASSUME NEW c \in Circles, r \in c PROVE r \in Above(r) /\ c = Above(r)
  <2>1. PICK x \in RowIds : x \in Above(x) /\ c = Above(x)
    BY CirclesAre
  <2>2. QED  BY <1>1, <2>1, RoundFacts
<1>2. r \in Above(r) => Above(r) \in Circles
  BY CirclesAre
<1>3. {d \in Circles : r \in d} = IF r \in Above(r) THEN {Above(r)} ELSE {}
  BY <1>1, <1>2
<1>4. QED
  <2>1. {<<"cycle", c>> : c \in {d \in Circles : r \in d}} =
          IF r \in Above(r) THEN {<<"cycle", Above(r)>>} ELSE {}
    BY <1>3
  <2>2. \A d \in diagnostics(r) : d[1] = "cycle" <=> d \in {<<"cycle", c>> : c \in {e \in Circles : r \in e}}
    BY DEF diagnostics
  <2>3. {<<"cycle", c>> : c \in {d \in Circles : r \in d}} \subseteq diagnostics(r)
    BY DEF diagnostics
  <2>4. QED  BY <1>1, <1>2, <2>1, <2>2, <2>3

-----------------------------------------------------------------------------
(* The forest                                                              *)

DatesKept == createdAt \in [RowIds -> Dates]

\* Newest first, every row of a set is there once.
LEMMA NewestFirstIs ==
  ASSUME DatesKept, NEW rows \in SUBSET RowIds
  PROVE  /\ Cardinality(rows) \in Nat /\ DOMAIN NewestFirst(rows) = 1..Cardinality(rows)
         /\ \A k \in DOMAIN NewestFirst(rows) : NewestFirst(rows)[k] \in rows
         /\ \A j, k \in DOMAIN NewestFirst(rows) : NewestFirst(rows)[j] = NewestFirst(rows)[k] => j = k
         /\ \A r \in rows : \E k \in DOMAIN NewestFirst(rows) : NewestFirst(rows)[k] = r
<1> DEFINE R == {p \in rows \X rows : Newer(p[1], p[2])}
<1>1. \A a, b \in rows : <<a, b>> \in R <=> Newer(a, b)
  OBVIOUS
<1>2. \A a \in rows : a \in Nat /\ createdAt[a] \in Nat
  BY LineageAssumption DEF DatesKept
<1>3. Orders(R, rows)
  <2> HIDE DEF R
  <2>1. \A a, b, c \in rows : /\ ~Newer(a, a)
                              /\ a # b => Newer(a, b) \/ Newer(b, a)
                              /\ Newer(a, b) /\ Newer(b, c) => Newer(a, c)
    BY <1>2 DEF Newer
  <2>2. QED  BY <1>1, <2>1 DEF Orders
<1>4. \A r \in rows : Rank(rows, R, r) = Cardinality({x \in rows : Newer(x, r)})
  <2>1. TAKE r \in rows
  <2>2. {x \in rows : <<x, r>> \in R} = {x \in rows : Newer(x, r)}
    BY <1>1
  <2>3. QED  BY <2>2 DEF Rank
<1> HIDE DEF R
<1> DEFINE s == NewestFirst(rows)
<1>5. DOMAIN s = 1..Cardinality(rows)
  BY DEF NewestFirst
<1>6. ASSUME NEW k \in DOMAIN s, \E r \in rows : Rank(rows, R, r) = k - 1
      PROVE  s[k] \in rows /\ Rank(rows, R, s[k]) = k - 1
  <2>1. s[k] = CHOOSE r \in rows : Cardinality({x \in rows : Newer(x, r)}) = k - 1
    BY <1>5 DEF NewestFirst
  <2>2. \E r \in rows : Cardinality({x \in rows : Newer(x, r)}) = k - 1
    BY <1>4, <1>6
  <2>3. QED  BY <1>4, <2>1, <2>2
<1> HIDE DEF s
<1>7. IsFiniteSet(rows)
  BY LineageAssumption, FS_Subset
<1>8. /\ Cardinality(rows) \in Nat /\ DOMAIN s = 1..Cardinality(rows)
      /\ \A k \in DOMAIN s : s[k] \in rows
      /\ \A j, k \in DOMAIN s : s[j] = s[k] => j = k
      /\ \A x \in rows : \E k \in DOMAIN s : s[k] = x
  <2>1. CountsOff(s, rows, R)
    BY <1>5, <1>6 DEF CountsOff
  <2>2. QED  BY <1>3, <1>7, <2>1, CountedOff
<1>9. QED  BY <1>8 DEF s

\* The roots are the rows that lead nowhere or round, and the children of a row are
\* the others that lead to it.
LEMMA RootsAre ==
  ASSUME RowsKept
  PROVE  /\ roots = {r \in RowIds : Onward(r) = 0 \/ r \in Above(r)}
         /\ \A r \in RowIds : children(r) = {x \in RowIds \ roots : Onward(x) = r}
<1>1. roots = {r \in RowIds : Onward(r) = 0 \/ r \in Above(r)}
  BY CirclesTold DEF roots
<1>2. \A r \in RowIds : \A x \in RowIds \ roots : parents[x] = r <=> Onward(x) = r
  <2>1. \A x \in RowIds \ roots : Onward(x) # 0
    BY <1>1
  <2>2. QED  BY <2>1, OnwardIs
<1>3. QED  BY <1>1, <1>2 DEF children

Waiting == [row : RowIds, depth : Nat]
Placed == [row : RowIds, depth : Nat, diagnostics : {diagnostics(r) : r \in RowIds}]
Layouts == [nodes : Seq(Placed), stack : Seq(Waiting)]

\* A row right under the subtree of its parent, which is placed at k, when the
\* first n nodes are above it.
Below(shown, n, row, depth) ==
  \E k \in 1..n : /\ shown[k].row = Onward(row) /\ shown[k].depth + 1 = depth
                  /\ \A m \in (k + 1)..n : shown[m].depth >= depth

\* Nobody is placed or waits twice, and who waits is a root or a child of
\* somebody placed.
Shared(shown, stack) ==
  LET done == {shown[i].row : i \in DOMAIN shown}
      left == {stack[i].row : i \in DOMAIN stack}
  IN /\ \A i, j \in DOMAIN shown : shown[i].row = shown[j].row => i = j
     /\ \A i, j \in DOMAIN stack : stack[i].row = stack[j].row => i = j
     /\ \A i \in DOMAIN shown, j \in DOMAIN stack : shown[i].row # stack[j].row
     /\ roots \subseteq done \cup left
     /\ \A x \in RowIds \ roots : x \in done \cup left <=> Onward(x) \in done

\* Each depth is that of a root or one more than the parent's, and nothing but
\* the subtree of the parent stands in between.
Layered(shown, stack) ==
  /\ \A i \in DOMAIN shown : shown[i].depth = 0 <=> shown[i].row \in roots
  /\ \A i \in DOMAIN stack : stack[i].depth = 0 <=> stack[i].row \in roots
  /\ \A i, j \in DOMAIN stack : i < j => stack[j].depth <= stack[i].depth
  /\ \A i \in DOMAIN shown : shown[i].depth > 0 => Below(shown, i - 1, shown[i].row, shown[i].depth)
  /\ \A i \in DOMAIN stack : stack[i].depth > 0 => Below(shown, Len(shown), stack[i].row, stack[i].depth)

LaidOut(s, n) ==
  /\ s \in Layouts
  /\ Shared(s.nodes, s.stack) /\ Layered(s.nodes, s.stack)
  /\ \A i \in DOMAIN s.nodes : s.nodes[i].diagnostics = diagnostics(s.nodes[i].row)
  /\ s.stack = <<>> \/ Len(s.nodes) = n

\* The stack before the first step and the rows a step puts on it.
LEMMA AtDepthIs ==
  ASSUME DatesKept, NEW rows \in SUBSET RowIds, NEW depth \in Nat
  PROVE  LET t == AtDepth(NewestFirst(rows), depth)
         IN /\ t \in Seq(Waiting)
            /\ \A i \in DOMAIN t : t[i].row \in rows /\ t[i].depth = depth
            /\ \A i, j \in DOMAIN t : t[i].row = t[j].row => i = j
            /\ \A r \in rows : \E i \in DOMAIN t : t[i].row = r
<1> DEFINE s == NewestFirst(rows)
           c == Cardinality(rows)
           t == AtDepth(s, depth)
<1>1. /\ c \in Nat /\ DOMAIN s = 1..c
      /\ \A k \in DOMAIN s : s[k] \in rows
      /\ \A j, k \in DOMAIN s : s[j] = s[k] => j = k
      /\ \A r \in rows : \E k \in DOMAIN s : s[k] = r
  BY NewestFirstIs
<1> HIDE DEF s, c
<1>2. t = [i \in 1..c |-> [row |-> s[i], depth |-> depth]]
  BY <1>1 DEF AtDepth
<1>3. \A i \in 1..c : [row |-> s[i], depth |-> depth] \in Waiting
  BY <1>1 DEF Waiting
<1>4. t \in Seq(Waiting)
  BY <1>1, <1>2, <1>3
<1> HIDE DEF t
<1>5. DOMAIN t = 1..c /\ \A i \in 1..c : t[i].row = s[i] /\ t[i].depth = depth
  BY <1>2
<1>6. QED  BY <1>1, <1>4, <1>5 DEF s, t

\* The first of a sequence is replaced by others.
LEMMA Restacked ==
  ASSUME NEW S, NEW t \in Seq(S), NEW u \in Seq(S), u # <<>>
  PROVE  LET v == t \o Tail(u)
         IN /\ v \in Seq(S) /\ Len(t) \in Nat /\ Len(u) \in Nat /\ Len(u) > 0
            /\ DOMAIN t = 1..Len(t) /\ DOMAIN u = 1..Len(u) /\ DOMAIN v = 1..Len(v)
            /\ Len(v) = Len(t) + Len(u) - 1
            /\ \A i \in 1..Len(t) : v[i] = t[i]
            /\ \A i \in (Len(t) + 1)..Len(v) : i - Len(t) + 1 \in 2..Len(u) /\ v[i] = u[i - Len(t) + 1]
            /\ \A i \in 2..Len(u) : i - 1 + Len(t) \in DOMAIN v /\ v[i - 1 + Len(t)] = u[i]
<1> DEFINE w == Tail(u)
           v == t \o w
<1>1. /\ Len(t) \in Nat /\ Len(u) \in Nat /\ Len(u) > 0
      /\ DOMAIN t = 1..Len(t) /\ DOMAIN u = 1..Len(u)
  OBVIOUS
<1>2. w \in Seq(S) /\ Len(w) = Len(u) - 1 /\ \A i \in 1..Len(w) : w[i] = u[i + 1]
  OBVIOUS
<1> HIDE DEF w
<1>3. /\ v \in Seq(S) /\ Len(v) = Len(t) + Len(w) /\ DOMAIN v = 1..Len(v)
      /\ \A i \in 1..Len(v) : v[i] = IF i <= Len(t) THEN t[i] ELSE w[i - Len(t)]
  <2>1. v \in Seq(S) /\ Len(v) = Len(t) + Len(w) /\ DOMAIN v = 1..Len(v)
    <3>1. v \in Seq(S)
      BY <1>2
    <3>2. Len(v) = Len(t) + Len(w)
      <4>1. t \in Seq(S) /\ w \in Seq(S)
        BY <1>2
      <4>2. QED  BY <4>1, SMTT(30)
    <3> HIDE DEF v
    <3>3. DOMAIN v = 1..Len(v)
      BY <3>1
    <3>4. QED  BY <3>1, <3>2, <3>3
  <2>2. \A i \in 1..(Len(t) + Len(w)) : v[i] = IF i <= Len(t) THEN t[i] ELSE w[i - Len(t)]
    BY <1>2
  <2> HIDE DEF v
  <2>3. QED  BY <2>1, <2>2
<1> HIDE DEF v
<1>4. Len(v) = Len(t) + Len(u) - 1
  BY <1>1, <1>2, <1>3
<1>5. \A i \in 1..Len(t) : v[i] = t[i]
  BY <1>1, <1>3, <1>4
<1>6. \A i \in (Len(t) + 1)..Len(v) : i - Len(t) + 1 \in 2..Len(u) /\ v[i] = u[i - Len(t) + 1]
  <2>1. TAKE i \in (Len(t) + 1)..Len(v)
  <2>2. /\ i \in 1..Len(v) /\ ~(i <= Len(t)) /\ i - Len(t) \in 1..Len(w)
        /\ i - Len(t) + 1 \in 2..Len(u)
    BY <1>1, <1>2, <1>4
  <2>3. v[i] = w[i - Len(t)]
    BY <1>3, <2>2
  <2>4. QED  BY <1>2, <2>2, <2>3
<1>7. \A i \in 2..Len(u) : i - 1 + Len(t) \in DOMAIN v /\ v[i - 1 + Len(t)] = u[i]
  <2>1. TAKE i \in 2..Len(u)
  <2>2. /\ i - 1 + Len(t) \in (Len(t) + 1)..Len(v)
        /\ (i - 1 + Len(t)) - Len(t) + 1 = i
        /\ i - 1 + Len(t) \in 1..Len(v)
    BY <1>1, <1>4
  <2>3. QED  BY <1>3, <1>6, <2>2
<1>8. QED  BY <1>1, <1>3, <1>4, <1>5, <1>6, <1>7 DEF v, w

\* The first that waits is placed, and its children wait in its stead.
Moves(old, rest, new, stack, top, fresh) ==
  /\ old \in Seq(Placed) /\ rest \in Seq(Waiting) /\ rest # <<>> /\ top = rest[1]
  /\ new \in Seq(Placed) /\ stack \in Seq(Waiting) /\ fresh \in Seq(Waiting)
  /\ Len(new) = Len(old) + 1
  /\ \A i \in DOMAIN old : new[i] = old[i]
  /\ new[Len(new)].row = top.row /\ new[Len(new)].depth = top.depth
  /\ new[Len(new)].diagnostics = diagnostics(top.row)
  /\ stack = fresh \o Tail(rest)
  /\ \A i \in DOMAIN fresh : fresh[i].row \in children(top.row) /\ fresh[i].depth = top.depth + 1
  /\ \A i, j \in DOMAIN fresh : fresh[i].row = fresh[j].row => i = j
  /\ \A r \in children(top.row) : \E i \in DOMAIN fresh : fresh[i].row = r

\* What a step leaves on the stack is new or was on it, and the other way round.
LEMMA MovesFacts ==
  ASSUME NEW old, NEW rest, NEW new, NEW stack, NEW top, NEW fresh,
         Moves(old, rest, new, stack, top, fresh)
  PROVE  /\ Len(old) \in Nat /\ DOMAIN old = 1..Len(old)
         /\ DOMAIN new = 1..(Len(old) + 1) /\ Len(new) = Len(old) + 1
         /\ Len(rest) \in Nat /\ Len(rest) > 0 /\ DOMAIN rest = 1..Len(rest)
         /\ DOMAIN stack = 1..Len(stack) /\ Len(stack) \in Nat
         /\ Len(fresh) \in Nat /\ DOMAIN fresh = 1..Len(fresh)
         /\ Len(stack) = Len(fresh) + Len(rest) - 1
         /\ \A i \in 1..Len(fresh) : stack[i] = fresh[i] /\ i \in DOMAIN stack
         /\ \A i \in DOMAIN stack : i \in 1..Len(fresh)
              \/ (~(i <= Len(fresh)) /\ i - Len(fresh) + 1 \in 2..Len(rest) /\ stack[i] = rest[i - Len(fresh) + 1])
         /\ \A i \in 2..Len(rest) : i - 1 + Len(fresh) \in DOMAIN stack /\ stack[i - 1 + Len(fresh)] = rest[i]
         /\ top.row \in RowIds /\ top.depth \in Nat /\ 1 \in DOMAIN rest
<1>1. /\ old \in Seq(Placed) /\ rest \in Seq(Waiting) /\ rest # <<>> /\ top = rest[1]
      /\ new \in Seq(Placed) /\ fresh \in Seq(Waiting) /\ stack = fresh \o Tail(rest)
      /\ Len(new) = Len(old) + 1
  BY DEF Moves
<1>2. /\ stack \in Seq(Waiting) /\ Len(fresh) \in Nat /\ Len(rest) \in Nat /\ Len(rest) > 0
      /\ DOMAIN fresh = 1..Len(fresh) /\ DOMAIN rest = 1..Len(rest) /\ DOMAIN stack = 1..Len(stack)
      /\ Len(stack) = Len(fresh) + Len(rest) - 1
      /\ \A i \in 1..Len(fresh) : stack[i] = fresh[i]
      /\ \A i \in (Len(fresh) + 1)..Len(stack) : i - Len(fresh) + 1 \in 2..Len(rest) /\ stack[i] = rest[i - Len(fresh) + 1]
      /\ \A i \in 2..Len(rest) : i - 1 + Len(fresh) \in DOMAIN stack /\ stack[i - 1 + Len(fresh)] = rest[i]
  BY <1>1, Restacked
<1>3. Len(old) \in Nat /\ DOMAIN old = 1..Len(old) /\ DOMAIN new = 1..(Len(old) + 1) /\ Len(stack) \in Nat
  BY <1>1, <1>2
<1>4. \A i \in 1..Len(fresh) : i \in DOMAIN stack
  BY <1>2
<1>5. \A i \in DOMAIN stack : i \in 1..Len(fresh) \/ (~(i <= Len(fresh)) /\ i \in (Len(fresh) + 1)..Len(stack))
  BY <1>2, <1>3
<1>6. 1 \in DOMAIN rest /\ top \in Waiting
  BY <1>1, <1>2
<1>7. top.row \in RowIds /\ top.depth \in Nat
  BY <1>6 DEF Waiting
<1>8. QED  BY <1>1, <1>2, <1>3, <1>4, <1>5, <1>6, <1>7

\* A move that shows a row and puts its children before the rest keeps every row in
\* one place.
LEMMA SharedStep ==
  ASSUME RowsKept, NEW old, NEW rest, NEW new, NEW stack, NEW top, NEW fresh,
         Moves(old, rest, new, stack, top, fresh), Shared(old, rest)
  PROVE  Shared(new, stack)
<1> DEFINE done == {old[i].row : i \in DOMAIN old}
           left == {rest[i].row : i \in DOMAIN rest}
           n == Len(old)
           f == Len(fresh)
           after == {new[i].row : i \in DOMAIN new}
           then == {stack[i].row : i \in DOMAIN stack}
<1>1. /\ n \in Nat /\ DOMAIN old = 1..n /\ DOMAIN new = 1..(n + 1) /\ Len(new) = n + 1
      /\ Len(rest) \in Nat /\ Len(rest) > 0 /\ DOMAIN rest = 1..Len(rest)
      /\ f \in Nat /\ DOMAIN fresh = 1..f
      /\ \A i \in 1..f : stack[i] = fresh[i] /\ i \in DOMAIN stack
      /\ \A i \in DOMAIN stack : i \in 1..f
           \/ (~(i <= f) /\ i - f + 1 \in 2..Len(rest) /\ stack[i] = rest[i - f + 1])
      /\ \A i \in 2..Len(rest) : i - 1 + f \in DOMAIN stack /\ stack[i - 1 + f] = rest[i]
      /\ top.row \in RowIds /\ 1 \in DOMAIN rest /\ DOMAIN stack \subseteq Nat
  BY MovesFacts
<1>2. /\ \A i \in 1..n : new[i] = old[i]
      /\ new[n + 1].row = top.row /\ top = rest[1]
      /\ \A i \in 1..f : fresh[i].row \in children(top.row)
      /\ \A i, j \in 1..f : fresh[i].row = fresh[j].row => i = j
      /\ \A r \in children(top.row) : \E i \in 1..f : fresh[i].row = r
  BY <1>1 DEF Moves
<1>3. /\ \A i, j \in 1..n : old[i].row = old[j].row => i = j
      /\ \A i, j \in DOMAIN rest : rest[i].row = rest[j].row => i = j
      /\ \A i \in 1..n, j \in DOMAIN rest : old[i].row # rest[j].row
      /\ roots \subseteq done \cup left
      /\ \A x \in RowIds \ roots : x \in done \cup left <=> Onward(x) \in done
  BY <1>1 DEF Shared
<1> HIDE DEF n, f
<1>4. after = done \cup {top.row} /\ top.row \in left /\ top.row \notin done
  <2>1. \A i \in 1..(n + 1) : i \in 1..n \/ i = n + 1
    BY <1>1
  <2>2. \A i \in 1..n : i \in 1..(n + 1)
    BY <1>1
  <2>3. n + 1 \in 1..(n + 1)
    BY <1>1
  <2>4. \A y : y \in after <=> y \in done \cup {top.row}
    BY <1>1, <1>2, <2>1, <2>2, <2>3
  <2>5. top.row \in left
    BY <1>1, <1>2
  <2>6. ASSUME NEW i \in DOMAIN old PROVE top.row # old[i].row
    <3>1. i \in 1..n /\ 1 \in DOMAIN rest
      BY <1>1
    <3>2. old[i].row # rest[1].row
      BY <1>3, <3>1
    <3>3. QED  BY <1>2, <3>2
  <2>7. top.row \notin done
    BY <2>6
  <2> HIDE DEF after, done, left
  <2>8. QED  BY <2>4, <2>5, <2>7
<1>5. then = children(top.row) \cup (left \ {top.row})
  <2>1. ASSUME NEW i \in DOMAIN stack PROVE stack[i].row \in children(top.row) \cup (left \ {top.row})
    <3>1. CASE i \in 1..f
      BY <1>1, <1>2, <3>1
    <3>2. CASE i \notin 1..f
      <4> DEFINE j == i - f + 1
      <4>1. j \in 2..Len(rest) /\ stack[i] = rest[j]
        BY <1>1, <3>2
      <4> HIDE DEF j
      <4>2. j \in DOMAIN rest /\ j # 1
        BY <1>1, <4>1
      <4>3. rest[j].row # top.row
        BY <1>1, <1>2, <1>3, <4>2
      <4>4. QED  BY <4>1, <4>2, <4>3
    <3>3. QED  BY <3>1, <3>2
  <2>2. ASSUME NEW y \in children(top.row) PROVE y \in then
    <3>1. PICK i \in 1..f : fresh[i].row = y
      BY <1>2
    <3>2. i \in DOMAIN stack /\ stack[i].row = y
      BY <1>1, <3>1
    <3>3. QED  BY <3>2
  <2>3. ASSUME NEW y \in left, y # top.row PROVE y \in then
    <3>1. PICK i \in DOMAIN rest : rest[i].row = y
      OBVIOUS
    <3>2. i \in 2..Len(rest)
      BY <1>1, <1>2, <2>3, <3>1
    <3>3. i - 1 + f \in DOMAIN stack /\ stack[i - 1 + f] = rest[i]
      BY <1>1, <3>2
    <3>4. QED  BY <3>1, <3>3
  <2> HIDE DEF left
  <2>4. QED  BY <2>1, <2>2, <2>3
<1>6. children(top.row) = {x \in RowIds \ roots : Onward(x) = top.row}
  BY <1>1, RootsAre
<1> HIDE DEF done, left, after, then
<1>7. \A x \in children(top.row) : x \notin done \cup left
  BY <1>3, <1>4, <1>6
<1>8. \A i, j \in DOMAIN new : new[i].row = new[j].row => i = j
  <2>1. TAKE i, j \in DOMAIN new
  <2>2. \A k \in 1..n : new[k].row # new[n + 1].row
    <3>1. TAKE k \in 1..n
    <3>2. old[k].row \in done
      BY <1>1 DEF done
    <3>3. QED  BY <1>2, <1>4, <3>2
  <2>3. (i \in 1..n \/ i = n + 1) /\ (j \in 1..n \/ j = n + 1)
    BY <1>1
  <2>4. QED  BY <1>2, <1>3, <2>2, <2>3
<1>9. \A i, j \in DOMAIN stack : stack[i].row = stack[j].row => i = j
  <2>1. TAKE i, j \in DOMAIN stack
  <2>2. HAVE stack[i].row = stack[j].row
  <2>3. \A k \in DOMAIN stack : k \in 1..f \/ stack[k].row \in left
    <3>1. \A m \in 2..Len(rest) : m \in DOMAIN rest
      BY <1>1
    <3>2. QED  BY <1>1, <3>1 DEF left
  <2>4. \A k \in 1..f : stack[k].row \notin left
    BY <1>1, <1>2, <1>7
  <2>5. CASE i \in 1..f /\ j \in 1..f
    BY <1>1, <1>2, <2>2, <2>5
  <2>6. CASE i \notin 1..f /\ j \notin 1..f
    <3>1. /\ i - f + 1 \in 2..Len(rest) /\ stack[i] = rest[i - f + 1]
          /\ j - f + 1 \in 2..Len(rest) /\ stack[j] = rest[j - f + 1]
      BY <1>1, <2>6
    <3>2. \A m \in 2..Len(rest) : m \in DOMAIN rest
      BY <1>1
    <3>3. i - f + 1 = j - f + 1
      BY <1>3, <2>2, <3>1, <3>2
    <3>4. i \in Nat /\ j \in Nat
      BY <1>1
    <3>5. QED  BY <1>1, <3>3, <3>4
  <2>7. QED  BY <2>2, <2>3, <2>4, <2>5, <2>6
<1>10. \A i \in DOMAIN new, j \in DOMAIN stack : new[i].row # stack[j].row
  <2>1. after \cap then = {}
    <3>1. done \cap left = {}
      BY <1>1, <1>3 DEF done, left
    <3>2. top.row \notin children(top.row)
      BY <1>4, <1>7
    <3>3. QED  BY <1>4, <1>5, <1>7, <3>1, <3>2
  <2>2. QED  BY <2>1 DEF after, then
<1>11. roots \subseteq after \cup then
  BY <1>3, <1>4, <1>5
<1>12. \A x \in RowIds \ roots : x \in after \cup then <=> Onward(x) \in after
  BY <1>3, <1>4, <1>5, <1>6
<1>13. QED  BY <1>8, <1>9, <1>10, <1>11, <1>12 DEF Shared, after, then

\* And keeps every shown row under its parent.
LEMMA LayeredStep ==
  ASSUME RowsKept, NEW old, NEW rest, NEW new, NEW stack, NEW top, NEW fresh,
         Moves(old, rest, new, stack, top, fresh), Layered(old, rest)
  PROVE  Layered(new, stack)
<1> DEFINE n == Len(old)
           f == Len(fresh)
<1>1. /\ n \in Nat /\ DOMAIN old = 1..n /\ DOMAIN new = 1..(n + 1) /\ Len(new) = n + 1
      /\ Len(rest) \in Nat /\ Len(rest) > 0 /\ DOMAIN rest = 1..Len(rest)
      /\ f \in Nat /\ DOMAIN fresh = 1..f
      /\ \A i \in 1..f : stack[i] = fresh[i] /\ i \in DOMAIN stack
      /\ \A i \in DOMAIN stack : i \in 1..f
           \/ (~(i <= f) /\ i - f + 1 \in 2..Len(rest) /\ stack[i] = rest[i - f + 1])
      /\ top.row \in RowIds /\ top.depth \in Nat /\ 1 \in DOMAIN rest /\ DOMAIN stack \subseteq Nat
  BY MovesFacts
<1>2. /\ \A i \in 1..n : new[i] = old[i]
      /\ new[n + 1].row = top.row /\ new[n + 1].depth = top.depth /\ top = rest[1]
      /\ \A i \in 1..f : fresh[i].row \in children(top.row) /\ fresh[i].depth = top.depth + 1
  BY <1>1 DEF Moves
<1>3. \A i \in DOMAIN rest : rest[i].depth \in Nat
  <2>1. \A e \in Waiting : e.depth \in Nat
    BY DEF Waiting
  <2>2. rest \in Seq(Waiting)
    BY DEF Moves
  <2>3. QED  BY <2>1, <2>2
<1>4. \A i \in 1..n : old[i].depth \in Nat
  <2>1. \A e \in Placed : e.depth \in Nat
    BY DEF Placed
  <2>2. old \in Seq(Placed)
    BY DEF Moves
  <2>3. QED  BY <1>1, <2>1, <2>2
<1>5. /\ \A i \in 1..n : old[i].depth = 0 <=> old[i].row \in roots
      /\ \A i \in DOMAIN rest : rest[i].depth = 0 <=> rest[i].row \in roots
      /\ \A i, j \in DOMAIN rest : i < j => rest[j].depth <= rest[i].depth
      /\ \A i \in 1..n : old[i].depth > 0 => Below(old, i - 1, old[i].row, old[i].depth)
      /\ \A i \in DOMAIN rest : rest[i].depth > 0 => Below(old, n, rest[i].row, rest[i].depth)
  BY <1>1 DEF Layered
<1>6. children(top.row) = {x \in RowIds \ roots : Onward(x) = top.row}
  BY <1>1, RootsAre
<1> HIDE DEF n, f
<1>7. \A i \in 1..(n + 1) : i \in 1..n \/ i = n + 1
  BY <1>1
<1>8. ASSUME NEW i \in DOMAIN stack
      PROVE  \/ i \in 1..f /\ stack[i].row \in children(top.row) /\ stack[i].depth = top.depth + 1
             \/ \E j \in 2..Len(rest) : ~(i <= f) /\ j = i - f + 1 /\ stack[i] = rest[j]
  <2>1. CASE i \in 1..f
    BY <1>1, <1>2, <2>1
  <2>2. CASE i \notin 1..f
    BY <1>1, <2>2
  <2>3. QED  BY <2>1, <2>2
<1>9. \A j \in 2..Len(rest) : j \in DOMAIN rest /\ j \in Nat /\ 1 < j /\ rest[j].depth <= top.depth /\ rest[j].depth \in Nat
  BY <1>1, <1>2, <1>3, <1>5
\* What was below a row of the first nodes still is.
<1>10. ASSUME NEW m \in 0..n, NEW row, NEW depth, Below(old, m, row, depth) PROVE Below(new, m, row, depth)
  <2>1. PICK k \in 1..m : /\ old[k].row = Onward(row) /\ old[k].depth + 1 = depth
                          /\ \A l \in (k + 1)..m : old[l].depth >= depth
    BY <1>10 DEF Below
  <2>2. k \in 1..n /\ \A l \in (k + 1)..m : l \in 1..n
    BY <1>1
  <2>3. new[k] = old[k] /\ \A l \in (k + 1)..m : new[l] = old[l]
    BY <1>2, <2>2
  <2>4. QED  BY <2>1, <2>3 DEF Below
\* And still if what is placed next is at least as deep.
<1>11. ASSUME NEW row, NEW depth \in Nat, Below(old, n, row, depth), depth <= top.depth
       PROVE  Below(new, n + 1, row, depth)
  <2>1. PICK k \in 1..n : /\ old[k].row = Onward(row) /\ old[k].depth + 1 = depth
                          /\ \A l \in (k + 1)..n : old[l].depth >= depth
    BY <1>11 DEF Below
  <2>2. k \in 1..(n + 1) /\ \A l \in (k + 1)..(n + 1) : l \in (k + 1)..n \/ l = n + 1
    BY <1>1
  <2>3. \A l \in (k + 1)..n : l \in 1..n
    BY <1>1
  <2>4. \A l \in (k + 1)..(n + 1) : new[l].depth >= depth
    BY <1>1, <1>2, <1>11, <2>1, <2>2, <2>3
  <2>5. new[k] = old[k]
    BY <1>2
  <2>6. QED  BY <2>1, <2>2, <2>4, <2>5 DEF Below
<1>12. \A i \in DOMAIN new : new[i].depth = 0 <=> new[i].row \in roots
  BY <1>1, <1>2, <1>5, <1>7
<1>13. \A i \in DOMAIN stack : stack[i].depth = 0 <=> stack[i].row \in roots
  <2>1. TAKE i \in DOMAIN stack
  <2>2. CASE i \in 1..f /\ stack[i].row \in children(top.row) /\ stack[i].depth = top.depth + 1
    BY <1>1, <1>6, <2>2
  <2>3. CASE \E j \in 2..Len(rest) : ~(i <= f) /\ j = i - f + 1 /\ stack[i] = rest[j]
    BY <1>5, <1>9, <2>3
  <2>4. QED  BY <1>8, <2>2, <2>3
<1>14. \A i, j \in DOMAIN stack : i < j => stack[j].depth <= stack[i].depth
  <2>1. TAKE i, j \in DOMAIN stack
  <2>2. HAVE i < j
  <2>3. i \in Nat /\ j \in Nat
    BY <1>1
  <2>4. CASE j \in 1..f /\ stack[j].depth = top.depth + 1
    <3>1. i \in 1..f
      <4>1. ~(~(i <= f))
        BY <1>1, <2>2, <2>3, <2>4
      <4>2. QED  BY <1>8, <4>1
    <3>2. stack[i].depth = top.depth + 1
      BY <1>1, <1>2, <3>1
    <3>3. QED  BY <1>1, <2>4, <3>2
  <2>5. ASSUME NEW b \in 2..Len(rest), ~(j <= f), b = j - f + 1, stack[j] = rest[b]
        PROVE  stack[j].depth <= stack[i].depth
    <3>1. rest[b].depth <= top.depth /\ rest[b].depth \in Nat /\ b \in DOMAIN rest
      BY <1>9
    <3>2. CASE i \in 1..f /\ stack[i].depth = top.depth + 1
      BY <1>1, <2>5, <3>1, <3>2
    <3>3. ASSUME NEW a \in 2..Len(rest), a = i - f + 1, stack[i] = rest[a]
          PROVE  stack[j].depth <= stack[i].depth
      <4>1. a < b /\ a \in DOMAIN rest
        BY <1>1, <1>9, <2>2, <2>3, <2>5, <3>3
      <4>2. rest[b].depth <= rest[a].depth
        BY <1>5, <3>1, <4>1
      <4>3. QED  BY <2>5, <3>3, <4>2
    <3>4. QED  BY <1>8, <3>2, <3>3
  <2>6. QED  BY <1>8, <2>4, <2>5
<1>15. \A i \in DOMAIN new : new[i].depth > 0 => Below(new, i - 1, new[i].row, new[i].depth)
  <2>1. TAKE i \in DOMAIN new
  <2>2. HAVE new[i].depth > 0
  <2>3. CASE i \in 1..n
    <3>1. new[i] = old[i] /\ i - 1 \in 0..n
      BY <1>1, <1>2, <2>3
    <3>2. Below(old, i - 1, old[i].row, old[i].depth)
      BY <1>5, <2>2, <2>3, <3>1
    <3>3. QED  BY <1>10, <3>1, <3>2
  <2>4. CASE i = n + 1
    <3>1. i - 1 = n /\ n \in 0..n
      BY <1>1, <2>4
    <3>2. Below(old, n, rest[1].row, rest[1].depth)
      BY <1>1, <1>2, <1>5, <2>2, <2>4
    <3>3. new[i].row = rest[1].row /\ new[i].depth = rest[1].depth
      BY <1>2, <2>4
    <3>4. QED  BY <1>10, <3>1, <3>2, <3>3
  <2>5. QED  BY <1>1, <1>7, <2>3, <2>4
<1>16. \A i \in DOMAIN stack : stack[i].depth > 0 => Below(new, Len(new), stack[i].row, stack[i].depth)
  <2>1. TAKE i \in DOMAIN stack
  <2>2. HAVE stack[i].depth > 0
  <2>3. CASE i \in 1..f /\ stack[i].row \in children(top.row) /\ stack[i].depth = top.depth + 1
    <3>1. Onward(stack[i].row) = top.row
      BY <1>6, <2>3
    <3>2. n + 1 \in 1..(n + 1) /\ \A m \in ((n + 1) + 1)..(n + 1) : FALSE
      BY <1>1
    <3>3. Below(new, n + 1, stack[i].row, stack[i].depth)
      BY <1>2, <2>3, <3>1, <3>2 DEF Below
    <3>4. QED  BY <1>1, <3>3
  <2>4. ASSUME NEW j \in 2..Len(rest), stack[i] = rest[j]
        PROVE  Below(new, Len(new), stack[i].row, stack[i].depth)
    <3>1. j \in DOMAIN rest /\ rest[j].depth <= top.depth /\ rest[j].depth \in Nat
      BY <1>9
    <3>2. Below(old, n, rest[j].row, rest[j].depth)
      BY <1>5, <2>2, <2>4, <3>1
    <3>3. Below(new, n + 1, rest[j].row, rest[j].depth)
      BY <1>11, <3>1, <3>2
    <3>4. QED  BY <1>1, <2>4, <3>3
  <2>5. QED  BY <1>8, <2>3, <2>4
<1>17. QED  BY <1>12, <1>13, <1>14, <1>15, <1>16 DEF Layered

\* The step as buildAnswerLineage() takes it.
LEMMA UnfoldMoves ==
  ASSUME RowsKept, DatesKept, NEW s \in Layouts, s.stack # <<>>
  PROVE  /\ Unfold(s) \in Layouts
         /\ \E fresh : Moves(s.nodes, s.stack, Unfold(s).nodes, Unfold(s).stack, Head(s.stack), fresh)
<1> DEFINE top == Head(s.stack)
           node == [row |-> top.row, depth |-> top.depth, diagnostics |-> diagnostics(top.row)]
           kids == children(top.row)
           fresh == AtDepth(NewestFirst(kids), top.depth + 1)
           new == Append(s.nodes, node)
           stack == fresh \o Tail(s.stack)
           old == s.nodes
           rest == s.stack
<1>1. s.nodes \in Seq(Placed) /\ s.stack \in Seq(Waiting)
  BY DEF Layouts
<1>2. top \in Waiting /\ top = s.stack[1]
  BY <1>1
<1>3. top.row \in RowIds /\ top.depth \in Nat /\ top.depth + 1 \in Nat
  BY <1>2 DEF Waiting
<1>4. Unfold(s) = [nodes |-> new, stack |-> stack]
  BY DEF Unfold
<1>5. node \in Placed /\ node.row = top.row /\ node.depth = top.depth /\ node.diagnostics = diagnostics(top.row)
  BY <1>3 DEF Placed
<1>6. kids \in SUBSET RowIds
  BY DEF children
<1>7. /\ fresh \in Seq(Waiting)
      /\ \A i \in DOMAIN fresh : fresh[i].row \in kids /\ fresh[i].depth = top.depth + 1
      /\ \A i, j \in DOMAIN fresh : fresh[i].row = fresh[j].row => i = j
      /\ \A r \in kids : \E i \in DOMAIN fresh : fresh[i].row = r
  <2> DEFINE d == top.depth + 1
  <2>1. d \in Nat
    BY <1>3
  <2> HIDE DEF kids, d
  <2>2. LET t == AtDepth(NewestFirst(kids), d)
        IN /\ t \in Seq(Waiting)
           /\ \A i \in DOMAIN t : t[i].row \in kids /\ t[i].depth = d
           /\ \A i, j \in DOMAIN t : t[i].row = t[j].row => i = j
           /\ \A r \in kids : \E i \in DOMAIN t : t[i].row = r
    BY <1>6, <2>1, AtDepthIs
  <2>3. QED  BY <2>2 DEF d
<1>8. /\ new \in Seq(Placed) /\ Len(new) = Len(old) + 1
      /\ \A i \in DOMAIN old : new[i] = old[i]
      /\ new[Len(new)] = node
  <2> HIDE DEF node, old
  <2>1. old \in Seq(Placed) /\ new = Append(old, node)
    BY <1>1 DEF old
  <2> HIDE DEF new
  <2>2. QED  BY <1>5, <2>1
<1>9. stack \in Seq(Waiting)
  <2>1. Tail(s.stack) \in Seq(Waiting)
    BY <1>1
  <2> HIDE DEF fresh
  <2>2. QED  BY <1>7, <2>1
<1> HIDE DEF node, fresh, new, stack
<1>10. Unfold(s).nodes = new /\ Unfold(s).stack = stack
  BY <1>4
<1>11. Unfold(s) \in Layouts
  BY <1>4, <1>8, <1>9 DEF Layouts
<1>12. Moves(s.nodes, s.stack, new, stack, top, fresh)
  <2> HIDE DEF top
  <2>1. stack = fresh \o Tail(rest)
    BY DEF stack
  <2>2. new[Len(new)].row = top.row /\ new[Len(new)].depth = top.depth
        /\ new[Len(new)].diagnostics = diagnostics(top.row)
    BY <1>5, <1>8
  <2>3. QED  BY <1>1, <1>2, <1>7, <1>8, <1>9, <2>1, <2>2 DEF Moves
<1>13. QED  BY <1>10, <1>11, <1>12

\* Unfolding the row that is next keeps the forest laid out.
LEMMA UnfoldStep ==
  ASSUME RowsKept, DatesKept, NEW s, NEW n \in Nat, LaidOut(s, n)
  PROVE  LaidOut(Unfold(s), n + 1)
<1>1. CASE s.stack = <<>>
  BY <1>1 DEF Unfold, LaidOut
<1>2. CASE s.stack # <<>>
  <2> DEFINE u == Unfold(s)
             top == Head(s.stack)
             old == s.nodes
             new == u.nodes
  <2>1. s \in Layouts
    BY DEF LaidOut
  <2>2. u \in Layouts
    BY <1>2, <2>1, UnfoldMoves
  <2>3. PICK fresh : Moves(s.nodes, s.stack, u.nodes, u.stack, top, fresh)
    BY <1>2, <2>1, UnfoldMoves
  <2> HIDE DEF u, top
  <2>4. Shared(u.nodes, u.stack)
    BY <2>3, SharedStep DEF LaidOut
  <2>5. Layered(u.nodes, u.stack)
    BY <2>3, LayeredStep DEF LaidOut
  <2>6. \A i \in DOMAIN new : new[i].diagnostics = diagnostics(new[i].row)
    <3> HIDE DEF old, new
    <3>1. Moves(old, s.stack, new, u.stack, top, fresh)
      BY <2>3 DEF old, new
    <3>2. Len(old) \in Nat /\ DOMAIN old = 1..Len(old) /\ DOMAIN new = 1..(Len(old) + 1) /\ Len(new) = Len(old) + 1
      BY <3>1, MovesFacts
    <3>3. \A i \in DOMAIN old : old[i].diagnostics = diagnostics(old[i].row)
      BY DEF LaidOut, old
    <3>4. TAKE i \in DOMAIN new
    <3>5. CASE i \in DOMAIN old
      BY <3>1, <3>3, <3>5 DEF Moves
    <3>6. CASE i = Len(new)
      BY <3>1, <3>6 DEF Moves
    <3>7. QED  BY <3>2, <3>5, <3>6
  <2>7. Len(u.nodes) = n + 1
    BY <1>2, <2>3 DEF Moves, LaidOut
  <2>8. LaidOut(u, n + 1)
    BY <2>2, <2>4, <2>5, <2>6, <2>7 DEF LaidOut
  <2>9. QED  BY <2>8 DEF u
<1>3. QED  BY <1>1, <1>2

Unfolds(flat) ==
  flat = [n \in 0..Cardinality(RowIds) |->
            IF n = 0 THEN [nodes |-> <<>>, stack |-> AtDepth(NewestFirst(roots), 0)]
            ELSE Unfold(flat[n - 1])]

\* The forest is laid out before any row is shown.
LEMMA FirstLaidOut ==
  ASSUME RowsKept, DatesKept
  PROVE  LaidOut([nodes |-> <<>>, stack |-> AtDepth(NewestFirst(roots), 0)], 0)
<1> DEFINE t == AtDepth(NewestFirst(roots), 0)
           init == [nodes |-> <<>>, stack |-> t]
<1>1. roots \in SUBSET RowIds
  BY DEF roots
<1>2. /\ t \in Seq(Waiting)
      /\ \A i \in DOMAIN t : t[i].row \in roots /\ t[i].depth = 0
      /\ \A i, j \in DOMAIN t : t[i].row = t[j].row => i = j
      /\ \A r \in roots : \E i \in DOMAIN t : t[i].row = r
  BY <1>1, AtDepthIs
<1> HIDE DEF t
<1>3. init \in Layouts /\ init.nodes = <<>> /\ init.stack = t /\ Len(init.nodes) = 0 /\ DOMAIN init.nodes = {}
  BY <1>2 DEF Layouts
<1>4. Shared(<<>>, t)
  <2>1. {t[i].row : i \in DOMAIN t} = roots /\ DOMAIN <<>> = {}
    BY <1>2
  <2>2. {(<<>>)[i].row : i \in DOMAIN <<>>} = {}
    BY <2>1
  <2>3. QED  BY <1>2, <2>1, <2>2 DEF Shared
<1>5. Layered(<<>>, t)
  BY <1>2 DEF Layered
<1> HIDE DEF init
<1>6. LaidOut(init, 0)
  BY <1>3, <1>4, <1>5 DEF LaidOut
<1>7. QED  BY <1>6 DEF init, t

\* And when as many rows have been unfolded as there are.
LEMMA ForestIsLaidOut ==
  ASSUME RowsKept, DatesKept
  PROVE  LaidOut(Forest, Cardinality(RowIds))
<1> DEFINE N == Cardinality(RowIds)
           init == [nodes |-> <<>>, stack |-> AtDepth(NewestFirst(roots), 0)]
           next == [s \in Layouts |-> Unfold(s)]
<1>1. N \in Nat
  BY LineageAssumption, FS_CardinalityType
<1>2. LaidOut(init, 0)
  BY FirstLaidOut
<1>3. next \in [Layouts -> Layouts]
  <2>1. ASSUME NEW s \in Layouts PROVE Unfold(s) \in Layouts
    <3>1. CASE s.stack = <<>>
      BY <3>1 DEF Unfold
    <3>2. CASE s.stack # <<>>
      BY <3>2, UnfoldMoves
    <3>3. QED  BY <3>1, <3>2
  <2>2. QED  BY <2>1
<1>4. init \in Layouts
  <2> HIDE DEF init
  <2>1. QED  BY <1>2 DEF LaidOut
<1>5. PICK f \in [0..N -> Layouts] : Iterates(f, N, init, next)
  <2> HIDE DEF N, init, next
  <2>1. QED  BY <1>1, <1>3, <1>4, IterationExists
<1>6. Unfolds(f)
  <2> HIDE DEF N, init
  <2>1. \A k \in 0..N : f[k] = IF k = 0 THEN init ELSE Unfold(f[k - 1])
    <3>1. TAKE k \in 0..N
    <3>2. CASE k = 0
      BY <1>5, <3>2 DEF Iterates
    <3>3. CASE k # 0
      <4>1. k - 1 \in 0..N
        BY <1>1, <3>3
      <4>2. f[k - 1] \in Layouts
        BY <1>5, <4>1
      <4>3. QED  BY <1>5, <3>3, <4>2 DEF Iterates
    <3>4. QED  BY <3>2, <3>3
  <2>2. f = [k \in 0..N |-> f[k]]
    BY <1>5
  <2>3. f = [k \in 0..N |-> IF k = 0 THEN init ELSE Unfold(f[k - 1])]
    BY <2>1, <2>2
  <2>4. QED  BY <2>3 DEF Unfolds, N, init
<1>7. \A g : Unfolds(g) => LaidOut(g[N], N)
  <2>1. SUFFICES ASSUME NEW g, Unfolds(g) PROVE LaidOut(g[N], N)
    OBVIOUS
  <2> DEFINE P == {k \in Nat : k <= N => LaidOut(g[k], k)}
  <2> HIDE DEF N
  <2>2. g[0] = init
    BY <1>1, <2>1 DEF Unfolds, N
  <2>3. 0 \in P
    <3> HIDE DEF init
    <3>1. QED  BY <1>2, <2>2
  <2>4. ASSUME NEW k \in Nat, k < N, k \in P PROVE k + 1 \in P
    <3>1. k + 1 \in 0..N /\ k + 1 # 0 /\ (k + 1) - 1 = k
      BY <1>1, <2>4
    <3>2. g[k + 1] = Unfold(g[k])
      BY <2>1, <3>1 DEF Unfolds, N
    <3>3. LaidOut(g[k], k)
      BY <1>1, <2>4
    <3> HIDE DEF P
    <3>4. LaidOut(g[k + 1], k + 1)
      BY <3>2, <3>3, UnfoldStep
    <3>5. QED  BY <3>4 DEF P
  <2> HIDE DEF P
  <2>5. \A k \in 0..N : k \in P
    BY <1>1, <2>3, <2>4, UpTo
  <2>6. N \in P
    BY <1>1, <2>5
  <2>7. QED  BY <1>1, <2>6 DEF P
<1>8. Forest = (CHOOSE g : Unfolds(g))[N]
  BY DEF Forest, Unfolds
<1>9. QED
  <2> HIDE DEF N
  <2>1. LaidOut(Forest, N)
    BY <1>6, <1>7, <1>8
  <2>2. QED  BY <2>1 DEF N

\* No rows lead only to each other without one of them being in a circle: the
\* row with the least above it would have to be.
LEMMA SomebodyIsRound ==
  ASSUME RowsKept, NEW T \in SUBSET RowIds, T # {}, \A x \in T : Onward(x) \in T
  PROVE  \E x \in T : x \in Above(x)
<1> DEFINE size == [x \in RowIds |-> Cardinality(Above(x))]
           sizes == {size[x] : x \in T}
<1>1. \A x \in RowIds : IsFiniteSet(Above(x)) /\ size[x] \in Nat
  <2>1. \A x \in RowIds : Above(x) \subseteq RowIds
    BY AboveFacts
  <2>2. \A x \in RowIds : IsFiniteSet(Above(x))
    BY <2>1, LineageAssumption, FS_Subset
  <2>3. QED  BY <2>2, FS_CardinalityType
<1>2. PICK x \in T : \A y \in T : size[x] <= size[y]
  <2>1. sizes \in SUBSET Nat /\ sizes # {}
    BY <1>1
  <2> HIDE DEF sizes
  <2>2. PICK m \in sizes : \A z \in sizes : m <= z
    BY <2>1, LeastNumber
  <2>3. QED  BY <2>2 DEF sizes
<1> DEFINE y == Onward(x)
<1>3. x \in RowIds /\ y \in T /\ y \in RowIds /\ y # 0
  BY OnwardIs
<1>4. y \in Above(x) /\ Above(y) \subseteq Above(x)
  <2>1. y \in Above(x)
    BY <1>3, AboveFacts
  <2>2. QED  BY <1>3, <2>1, AboveUnfolds
<1> HIDE DEF y
<1>5. Cardinality(Above(x)) <= Cardinality(Above(y))
  <2>1. size[x] <= size[y] /\ size[x] = Cardinality(Above(x)) /\ size[y] = Cardinality(Above(y))
    BY <1>2, <1>3
  <2>2. QED  BY <2>1
<1>6. Above(y) = Above(x)
  <2>1. IsFiniteSet(Above(x)) /\ Cardinality(Above(x)) \in Nat
    BY <1>1, <1>3, FS_CardinalityType
  <2>2. Cardinality(Above(y)) <= Cardinality(Above(x)) /\ Cardinality(Above(y)) \in Nat
        /\ (Cardinality(Above(y)) = Cardinality(Above(x)) => Above(y) = Above(x))
    BY <1>4, <2>1, FS_Subset, FS_CardinalityType
  <2>3. QED  BY <1>5, <2>1, <2>2
<1>7. QED  BY <1>3, <1>4, <1>6

\* With nobody waiting, everybody is placed.
LEMMA NobodyIsLeftOut ==
  ASSUME RowsKept, NEW shown \in Seq(Placed), Shared(shown, <<>>)
  PROVE  {shown[i].row : i \in DOMAIN shown} = RowIds
<1> DEFINE done == {shown[i].row : i \in DOMAIN shown}
           T == RowIds \ done
<1>1. done \subseteq RowIds
  <2>1. \A e \in Placed : e.row \in RowIds
    BY DEF Placed
  <2>2. QED  BY <2>1
<1>2. roots \subseteq done /\ \A x \in RowIds \ roots : x \in done <=> Onward(x) \in done
  <2>1. {(<<>>)[i].row : i \in DOMAIN <<>>} = {}
    OBVIOUS
  <2>2. QED  BY <2>1 DEF Shared
<1> HIDE DEF done
<1>3. SUFFICES ASSUME T # {} PROVE FALSE
  BY <1>1 DEF done
<1>4. \A x \in T : x \notin roots /\ x \notin Above(x) /\ Onward(x) \in T
  BY <1>2, RootsAre, OnwardIs
<1>5. \E x \in T : x \in Above(x)
  <2>1. T \in SUBSET RowIds /\ \A x \in T : Onward(x) \in T
    BY <1>4
  <2> HIDE DEF T
  <2>2. QED  BY <1>3, <2>1, SomebodyIsRound
<1>6. QED  BY <1>4, <1>5

\* As many rows as places, each in one.
LEMMA PlacesCount ==
  ASSUME NEW shown \in Seq(Placed), \A i, j \in DOMAIN shown : shown[i].row = shown[j].row => i = j
  PROVE  LET done == {shown[i].row : i \in DOMAIN shown}
         IN done \subseteq RowIds /\ Cardinality(done) = Len(shown)
<1> DEFINE done == {shown[i].row : i \in DOMAIN shown}
           n == Len(shown)
           at == [i \in 1..n |-> shown[i].row]
<1>1. DOMAIN shown = 1..n /\ n \in Nat
  OBVIOUS
<1>2. done \subseteq RowIds
  <2>1. \A e \in Placed : e.row \in RowIds
    BY DEF Placed
  <2>2. QED  BY <2>1
<1>3. IsFiniteSet(1..n) /\ Cardinality(1..n) = n
  BY <1>1, FS_Interval
<1>4. at \in [1..n -> done] /\ (\A i, j \in 1..n : at[i] = at[j] => i = j) /\ \A y \in done : \E i \in 1..n : at[i] = y
  BY <1>1
<1> HIDE DEF done, at, n
<1>5. at \in Injection(1..n, done) /\ at \in Surjection(1..n, done)
  BY <1>4 DEF Injection, IsInjective, Surjection
<1>6. Cardinality(done) = n
  BY <1>3, <1>5, FS_Surjection
<1>7. QED  BY <1>2, <1>6 DEF done, n

\* The whole forest: all rows, each under its parent, the promoted ones at the
\* top.
WellRead(shown) ==
  LET above(i) == Max({k \in 1..(i - 1) : shown[k].depth < shown[i].depth})
  IN /\ Len(shown) = Cardinality(RowIds)
     /\ {shown[i].row : i \in DOMAIN shown} = RowIds
     /\ \A i \in DOMAIN shown :
          LET r == shown[i].row
          IN /\ (shown[i].depth = 0) = (Onward(r) = 0 \/ r \in Above(r))
             /\ shown[i].depth > 0 =>
                  /\ shown[above(i)].row = parents[r]
                  /\ shown[above(i)].depth = shown[i].depth - 1
             /\ {d \in shown[i].diagnostics : d[1] = "cycle"} =
                  IF r \in Above(r) THEN {<<"cycle", Above(r)>>} ELSE {}

\* So every row is shown once, under its parent, and as what it is.
LEMMA ForestIsWellRead ==
  ASSUME RowsKept, DatesKept
  PROVE  WellRead(Forest.nodes)
<1> DEFINE shown == Forest.nodes
           stack == Forest.stack
           N == Cardinality(RowIds)
           done == {shown[i].row : i \in DOMAIN shown}
           above(i) == Max({k \in 1..(i - 1) : shown[k].depth < shown[i].depth})
<1>1. /\ Forest \in Layouts /\ Shared(shown, stack) /\ Layered(shown, stack)
      /\ \A i \in DOMAIN shown : shown[i].diagnostics = diagnostics(shown[i].row)
      /\ stack = <<>> \/ Len(shown) = N
  BY ForestIsLaidOut DEF LaidOut
<1>2. shown \in Seq(Placed) /\ stack \in Seq(Waiting)
  BY <1>1 DEF Layouts
<1> HIDE DEF shown, stack
<1>3. \A i, j \in DOMAIN shown : shown[i].row = shown[j].row => i = j
  BY <1>1 DEF Shared
<1>4. done \subseteq RowIds /\ Cardinality(done) = Len(shown)
  BY <1>2, <1>3, PlacesCount
<1>5. done = RowIds
  <2>1. CASE stack = <<>>
    BY <1>1, <1>2, <2>1, NobodyIsLeftOut
  <2>2. CASE Len(shown) = N
    <3> HIDE DEF done
    <3>1. QED  BY <1>4, <2>2, LineageAssumption, FS_Subset
  <2>3. QED  BY <1>1, <2>1, <2>2
<1>6. Len(shown) = N
  BY <1>4, <1>5
<1>7. DOMAIN shown = 1..Len(shown) /\ Len(shown) \in Nat
  BY <1>2
<1>8. \A i \in DOMAIN shown : shown[i].row \in RowIds /\ shown[i].depth \in Nat
  <2>1. \A e \in Placed : e.row \in RowIds /\ e.depth \in Nat
    BY DEF Placed
  <2>2. QED  BY <1>2, <2>1
<1>9. ASSUME NEW i \in DOMAIN shown
      PROVE  (shown[i].depth = 0) = (Onward(shown[i].row) = 0 \/ shown[i].row \in Above(shown[i].row))
  <2>1. shown[i].depth = 0 <=> shown[i].row \in roots
    BY <1>1 DEF Layered
  <2>2. QED  BY <1>8, <2>1, RootsAre
<1>10. ASSUME NEW i \in DOMAIN shown, shown[i].depth > 0
       PROVE  shown[above(i)].row = parents[shown[i].row] /\ shown[above(i)].depth = shown[i].depth - 1
  <2> DEFINE r == shown[i].row
             d == shown[i].depth
  <2>1. Below(shown, i - 1, r, d)
    BY <1>1, <1>10 DEF Layered
  <2>2. PICK k \in 1..(i - 1) : /\ shown[k].row = Onward(r) /\ shown[k].depth + 1 = d
                                /\ \A m \in (k + 1)..(i - 1) : shown[m].depth >= d
    BY <2>1 DEF Below
  <2>3. i \in Nat /\ k \in DOMAIN shown /\ k \in Nat /\ \A m \in 1..(i - 1) : m \in DOMAIN shown /\ m \in Nat
    BY <1>7
  <2>4. shown[k].depth < d /\ shown[k].depth = d - 1 /\ d \in Nat
    BY <1>8, <2>2, <2>3
  <2>5. \A m \in 1..(i - 1) : shown[m].depth < d => k >= m
    <3>1. TAKE m \in 1..(i - 1)
    <3>2. HAVE shown[m].depth < d
    <3>3. shown[m].depth \in Nat
      BY <1>8, <2>3
    <3>4. m \notin (k + 1)..(i - 1)
      BY <2>2, <2>4, <3>2, <3>3
    <3>5. QED  BY <2>3, <3>4
  <2>6. above(i) = k
    <3> DEFINE sooner == {m \in 1..(i - 1) : shown[m].depth < d}
    <3>1. k \in sooner /\ \A m \in sooner : k >= m /\ m \in Nat
      BY <2>3, <2>4, <2>5
    <3> HIDE DEF sooner
    <3>2. Max(sooner) \in sooner /\ \A m \in sooner : Max(sooner) >= m
      BY <3>1 DEF Max
    <3>3. Max(sooner) = k
      BY <2>3, <3>1, <3>2
    <3>4. QED  BY <3>3 DEF sooner
  <2>7. Onward(r) = parents[r]
    <3>1. ~(shown[i].depth = 0)
      BY <1>10
    <3>2. Onward(r) # 0
      BY <1>9, <3>1
    <3>3. QED  BY <1>8, <3>2, OnwardIs
  <2> HIDE DEF above
  <2>8. QED  BY <2>2, <2>4, <2>6, <2>7
<1>11. ASSUME NEW i \in DOMAIN shown
       PROVE  {d \in shown[i].diagnostics : d[1] = "cycle"} =
                IF shown[i].row \in Above(shown[i].row) THEN {<<"cycle", Above(shown[i].row)>>} ELSE {}
  BY <1>1, <1>8, CirclesTold
<1>12. WellRead(shown)
  BY <1>5, <1>6, <1>9, <1>10, <1>11, Zenon DEF WellRead
<1>13. QED  BY <1>12 DEF shown

-----------------------------------------------------------------------------
(* The specification                                                       *)

\* The rows are as the store has them, and what is shown is not yet there or
\* right.
LineageInv == RowsKept /\ DatesKept /\ NoAnswerIsSwallowed

\* While the rows stay, so does where they lead.
LEMMA RowsStand ==
  ASSUME parents' = parents
  PROVE  /\ \A r : Onward(r)' = Onward(r)
         /\ \A r : Above(r)' = Above(r)
<1>1. \A r : Onward(r)' = Onward(r)
  BY DEF Onward
<1>2. \A r : Above(r)' = Above(r)
  BY <1>1 DEF Above
<1>3. QED  BY <1>1, <1>2

\* And so does what is well read.
LEMMA ReadingStands ==
  ASSUME parents' = parents, NEW shown, WellRead(shown)
  PROVE  WellRead(shown)'
<1> DEFINE above(i) == Max({k \in 1..(i - 1) : shown[k].depth < shown[i].depth})
<1>1. Len(shown) = Cardinality(RowIds) /\ {shown[i].row : i \in DOMAIN shown} = RowIds
  BY Zenon DEF WellRead
<1>2. ASSUME NEW i \in DOMAIN shown
      PROVE  /\ (shown[i].depth = 0) = (Onward(shown[i].row)' = 0 \/ shown[i].row \in Above(shown[i].row)')
             /\ shown[i].depth > 0 =>
                  /\ shown[above(i)].row = parents'[shown[i].row]
                  /\ shown[above(i)].depth = shown[i].depth - 1
             /\ {d \in shown[i].diagnostics : d[1] = "cycle"} =
                  IF shown[i].row \in Above(shown[i].row)' THEN {<<"cycle", Above(shown[i].row)'>>} ELSE {}
  <2>1. /\ (shown[i].depth = 0) = (Onward(shown[i].row) = 0 \/ shown[i].row \in Above(shown[i].row))
        /\ shown[i].depth > 0 =>
             /\ shown[above(i)].row = parents[shown[i].row]
             /\ shown[above(i)].depth = shown[i].depth - 1
        /\ {d \in shown[i].diagnostics : d[1] = "cycle"} =
             IF shown[i].row \in Above(shown[i].row) THEN {<<"cycle", Above(shown[i].row)>>} ELSE {}
    BY Zenon DEF WellRead
  <2>2. Onward(shown[i].row)' = Onward(shown[i].row) /\ Above(shown[i].row)' = Above(shown[i].row)
    BY RowsStand
  <2> HIDE DEF above
  <2>3. QED  BY <2>1, <2>2
<1>3. QED  BY <1>1, <1>2, Zenon DEF WellRead

\* Drawing the forest swallows no answer.
LEMMA ForestIsRight ==
  ASSUME LineageInv, DrawForest
  PROVE  LineageInv'
<1>1. /\ parents' = parents /\ createdAt' = createdAt
      /\ lineage' = [state |-> "drawn", nodes |-> Forest.nodes]
  BY DEF DrawForest
<1>2. PICK shown : shown = Forest.nodes
  OBVIOUS
<1>3. lineage'.state = "drawn" /\ lineage'.nodes = shown
  BY <1>1, <1>2
<1>4. WellRead(shown)
  BY <1>2, ForestIsWellRead DEF LineageInv
<1>5. WellRead(shown)'
  BY <1>1, <1>4, ReadingStands
<1>6. WellRead(lineage.nodes)'
  BY <1>3, <1>5, Zenon
<1>7. NoAnswerIsSwallowed'
  <2>1. lineage'.state # "shown"
    BY <1>3
  <2>2. QED  BY <1>3, <1>6, <2>1, Zenon DEF NoAnswerIsSwallowed, WellRead
<1>8. QED  BY <1>1, <1>7 DEF LineageInv, RowsKept, DatesKept

\* Nor does showing the context of one.
LEMMA ContextIsRight ==
  ASSUME LineageInv, NEW r \in RowIds, ShowContext(r)
  PROVE  LineageInv'
<1>1. /\ parents' = parents /\ createdAt' = createdAt
      /\ lineage'.state = "shown"
      /\ lineage'.children = {x \in RowIds \ {r} : parents[x] = r}
      /\ lineage'.siblings = {x \in RowIds \ {r} : parents[r] # 0 /\ parents[x] = parents[r]}
      /\ lineage'.diagnostics = diagnostics(r)
  BY DEF ShowContext, Related
<1>2. ASSUME lineage'.children \cap lineage'.siblings # {}
      PROVE  <<"self_link">> \in lineage'.diagnostics
  <2>1. parents[r] = r
    BY <1>1, <1>2
  <2>2. <<"self_link">> \in diagnostics(r)
    BY <2>1 DEF diagnostics
  <2>3. QED  BY <1>1, <2>2
<1>3. lineage'.state # "drawn"
  BY <1>1
<1>4. NoAnswerIsSwallowed'
  BY <1>2, <1>3, Zenon DEF NoAnswerIsSwallowed
<1>5. QED  BY <1>1, <1>4 DEF LineageInv, RowsKept, DatesKept

\* Nor doing nothing.
LEMMA LineageStands ==
  ASSUME LineageInv, UNCHANGED lineageVars
  PROVE  LineageInv'
<1>1. parents' = parents /\ createdAt' = createdAt /\ lineage' = lineage
  BY DEF lineageVars
<1>2. PICK shown : shown = lineage.nodes
  OBVIOUS
<1>3. ASSUME lineage.state = "drawn" PROVE WellRead(shown)'
  <2>1. WellRead(lineage.nodes)
    BY <1>3, Zenon DEF LineageInv, NoAnswerIsSwallowed, WellRead
  <2>2. WellRead(shown)
    BY <1>2, <2>1, Zenon
  <2>3. QED  BY <1>1, <2>2, ReadingStands
<1>4. lineage'.state = "drawn" => WellRead(lineage.nodes)'
  <2>1. lineage'.nodes = shown
    BY <1>1, <1>2
  <2>2. QED  BY <1>1, <1>3, <2>1, Zenon
<1>5. (lineage.state = "shown" /\ lineage.children \cap lineage.siblings # {}) =>
        <<"self_link">> \in lineage.diagnostics
  BY Zenon DEF LineageInv, NoAnswerIsSwallowed
<1>6. (lineage'.state = "shown" /\ lineage'.children \cap lineage'.siblings # {}) =>
        <<"self_link">> \in lineage'.diagnostics
  BY <1>1, <1>5
<1>7. NoAnswerIsSwallowed'
  BY <1>4, <1>6, Zenon DEF NoAnswerIsSwallowed, WellRead
<1>8. QED  BY <1>1, <1>7 DEF LineageInv, RowsKept, DatesKept

\* Whatever the rows point at, and for any number of them, every list and every
\* page of answers is right.
THEOREM LineageInvariance == LineageSpec => []LineageInv
<1>1. LineageInit => LineageInv
  <2>1. SUFFICES ASSUME LineageInit PROVE LineageInv
    OBVIOUS
  <2>2. lineage.state # "drawn" /\ lineage.state # "shown"
    BY <2>1 DEF LineageInit, NotDrawn
  <2>3. NoAnswerIsSwallowed
    BY <2>2, Zenon DEF NoAnswerIsSwallowed
  <2>4. QED  BY <2>1, <2>3 DEF LineageInit, LineageInv, RowsKept, DatesKept
<1>2. LineageInv /\ [LineageNext]_lineageVars => LineageInv'
  <2>1. SUFFICES ASSUME LineageInv, [LineageNext]_lineageVars PROVE LineageInv'
    OBVIOUS
  <2>2. CASE DrawForest
    BY <2>1, <2>2, ForestIsRight
  <2>3. CASE \E r \in RowIds : ShowContext(r)
    BY <2>1, <2>3, ContextIsRight
  <2>4. CASE UNCHANGED lineageVars
    BY <2>1, <2>4, LineageStands
  <2>5. QED  BY <2>1, <2>2, <2>3, <2>4 DEF LineageNext
<1>3. QED  BY <1>1, <1>2, PTL DEF LineageSpec

\* So no answer is lost in the list, shown twice, or shown under another than
\* its parent, however the rows refer to each other.
THEOREM AnswersAreAllShown == LineageSpec => []NoAnswerIsSwallowed
<1>1. LineageInv => NoAnswerIsSwallowed
  BY DEF LineageInv
<1>2. QED  BY <1>1, LineageInvariance, PTL
=============================================================================
