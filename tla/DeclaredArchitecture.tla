------------------------ MODULE DeclaredArchitecture ------------------------
(***************************************************************************)
(* The architecture people declare: revisions that are never changed, and  *)
(* a head that names one of them.  A revision is the hash of the model it  *)
(* holds, so here it is the model; an author replaces the head he names.   *)
(***************************************************************************)
EXTENDS Naturals

CONSTANTS
  Authors,   \* who declares, each from a terminal of his own
  Models,    \* what may be declared
  NoModel,   \* nothing is declared
  MaxSaves   \* bound: how many saves are tried

VARIABLES
  revisions,  \* declared_architecture_revisions: the author of each stored model
  head,       \* declared_architecture_heads
  reading,    \* of an author: the head he read, and edits
  saves       \* how many saves were tried

declaredVars == <<revisions, head, reading, saves>>

NoAuthor == "nobody"

\* Nothing declared is not a model, and a stored revision has an author.
ASSUME DeclaredAssumption == NoModel \notin Models /\ NoAuthor \notin Authors

DeclaredInit ==
  /\ revisions = [m \in Models |-> NoAuthor]
  /\ head = NoModel
  /\ reading = [a \in Authors |-> NoModel]
  /\ saves = 0

\* `veriflow architecture-compare` shows the revision that is current.
ReadHead(a) ==
  /\ reading' = [reading EXCEPT ![a] = head]
  /\ UNCHANGED <<revisions, head, saves>>

\* Slip: INSERT OR REPLACE.
StoredAgain(a, m) == [revisions EXCEPT ![m] = a]

\* INSERT OR IGNORE: a model that was declared before keeps its first author.
Stored(a, m) ==
  [revisions EXCEPT ![m] = IF @ = NoAuthor THEN a ELSE @]

\* saveDeclaredArchitecture(): one transaction.  The author names the revision
\* he read, or none.
Save(a, m) ==
  /\ saves < MaxSaves
  /\ saves' = saves + 1
  /\ IF reading[a] = head
     THEN /\ revisions' = Stored(a, m)
          /\ head' = m
     ELSE UNCHANGED <<revisions, head>>
  /\ UNCHANGED reading

DeclaredNext ==
  \E a \in Authors : ReadHead(a) \/ \E m \in Models : Save(a, m)

DeclaredSpec == DeclaredInit /\ [][DeclaredNext]_declaredVars

\* What was signed stays signed: once a revision is stored, its author is its
\* author, and the head always names a revision that is stored.
RevisionsStand ==
  [][/\ \A m \in Models : revisions[m] # NoAuthor => revisions'[m] = revisions[m]
     /\ head' # NoModel => revisions'[head'] # NoAuthor]_declaredVars
=============================================================================
