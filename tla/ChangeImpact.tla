---------------------------- MODULE ChangeImpact ----------------------------
(***************************************************************************)
(* Which described flows a change lands in: changeImpact() places every    *)
(* citation into a changed file in the base ref's copy of that file, and   *)
(* intersects it with the lines the change removed or replaced there.      *)
(*                                                                         *)
(* One file, one change of it and one citation into it.  The file is       *)
(* "here" now; a renamed one was "before" at the ref.                      *)
(***************************************************************************)
EXTENDS Freshness

CONSTANTS
  Dashed,   \* the lines that begin with two dashes and a space
  Ghost     \* a path no file has

VARIABLES
  change,   \* the change and the citation that is looked at
  impact    \* what changeImpact() says of it

impactVars == <<change, impact>>

Infinity == MaxLength + 1

\* What git prints of one change: `from` and `count` are the old lines that are
\* removed, `new` the lines that are written in their place.
Hunks(base) ==
  {h \in [from : 0..Len(base), count : 0..Len(base), new : Texts \cup {<<>>}] :
     /\ h.count + Len(h.new) > 0
     /\ h.count > 0 => h.from > 0 /\ h.from + h.count - 1 <= Len(base)
     /\ (h.count > 0 /\ h.new # <<>>) =>
          /\ base[h.from] # h.new[1]
          /\ base[h.from + h.count - 1] # Last(h.new)}

Kinds == {"modified", "renamed", "moved", "added", "deleted"}

removed(c) == {i \in DOMAIN c.base : \E h \in c.hunks : i >= h.from /\ i < h.from + h.count}

\* Slip: the lines the change wrote, as if they were lines of the ref.
newSpan(h) ==
  IF h.new = <<>> THEN [from |-> IF h.from = 0 THEN 1 ELSE h.from, to |-> h.from + 1]
                  ELSE [from |-> h.from + 1, to |-> h.from + Len(h.new)]

\* The old lines of a hunk; of an insertion, the two it was made between.
oldSpan(h) ==
  IF h.count = 0 THEN [from |-> IF h.from = 0 THEN 1 ELSE h.from, to |-> h.from + 1]
                 ELSE [from |-> h.from, to |-> h.from + h.count - 1]

kindOf(h) == IF h.count = 0 THEN "added" ELSE IF h.new = <<>> THEN "deleted" ELSE "changed"

\* changedFilesSince(): a deleted file is one hunk over all of it.  The parser
\* reads every line that begins with "--- " as the name of the old file, also
\* the removal of a line that begins with "-- ": such a file counts as renamed.
wasPath(c) ==
  CASE c.kind \in {"renamed", "moved"} -> "before"
    [] c.kind = "modified" /\ \E i \in removed(c) : c.base[i] \in Dashed -> Ghost
    [] OTHER -> "none"

changedFile(c) ==
  [path |-> "here", was |-> wasPath(c), deleted |-> c.kind = "deleted",
   hunks |-> IF c.kind = "deleted"
             THEN {[from |-> 1, to |-> Infinity, kind |-> "deleted"]}
             ELSE {[from |-> oldSpan(h).from, to |-> oldSpan(h).to, kind |-> kindOf(h)] :
                     h \in c.hunks}]

\* The ref's copy of a path.
atRefCopy(c, path) ==
  CASE path = "before" /\ c.kind \in {"renamed", "moved"} -> c.base
    [] path = "here" /\ c.kind \in {"modified", "deleted"} -> c.base
    [] OTHER -> Gone

\* An answer whose snapshot names the ref's commit is taken to speak its
\* coordinates, also when the tree was dirty; any other citation is located in
\* the ref's copy, 0 when it is not there.
refLine(c) ==
  LET file == changedFile(c)
      before == atRefCopy(c, IF file.was = "none" THEN file.path ELSE file.was)
  IN IF c.atRef THEN c.cited.line ELSE IF before = Gone THEN 0 ELSE locate(before, c.cited)

\* changeImpact(), for one citation of one answer.
changeImpact(c) ==
  LET file == changedFile(c)
      hit == {h \in file.hunks : refLine(c) >= h.from /\ refLine(c) <= h.to}
  IN IF c.cited.path \notin {file.path, file.was} \/ isIntent(c.cited) THEN "not concerned"
     ELSE IF file.deleted THEN "file-deleted"
     ELSE IF refLine(c) = 0 THEN "unplaceable"
     ELSE IF hit = {} THEN "nearby"
     ELSE IF \E h \in hit : h.kind = "added" THEN "adjacent" ELSE "hit"

\* The cases: a citation that held when it was stored, over some state of the
\* file; the snapshot may have the ref's commit (atRef), its tree clean or not.
Cases(bases, origins) ==
  {c \in [kind : Kinds, base : bases, origin : origins, line : 1..MaxLength,
          symbol : BOOLEAN, atRef : BOOLEAN] :
     /\ c.line \in DOMAIN c.origin
     /\ c.symbol => c.origin[c.line] \in Naming}

ImpactInit(bases, origins) ==
  /\ \E c \in Cases(bases, origins), p \in {"here", "before"} :
       \E hs \in IF c.kind \in {"modified", "renamed"}
                 THEN {{h} : h \in Hunks(c.base)} ELSE {{}} :
         change = [kind |-> c.kind, base |-> c.base, atRef |-> c.atRef, hunks |-> hs,
                   cited |-> [path |-> p, line |-> c.line, symbol |-> c.symbol,
                              hash |-> c.origin[c.line]]]
  /\ impact = "not asked"

AskImpact ==
  /\ impact = "not asked"
  /\ impact' = changeImpact(change)
  /\ UNCHANGED change

ImpactSpec(bases, origins) == ImpactInit(bases, origins) /\ [][AskImpact]_impactVars

\* The answer has the ref's commit, but its tree had another line there.
fromDirtyTree ==
  /\ change.atRef
  /\ \/ change.cited.line \notin DOMAIN change.base
     \/ change.base[change.cited.line] # change.cited.hash

\* Where the cited line is in the ref's copy, for a reader who has both.
evidence ==
  IF change.atRef THEN {change.cited.line}
  ELSE {i \in DOMAIN change.base : change.base[i] = change.cited.hash}

\* A change of cited evidence is never passed over: a citation of the file, by
\* the name it had at the ref, is a hit when its line was removed or replaced,
\* only nearby when the change leaves its line and the neighbours alone, and
\* otherwise said to be adjacent or impossible to place.  Of a line of a dirty
\* tree whose snapshot has the ref's commit nothing is promised: it is looked up
\* by its number.
EditedEvidenceIsReported ==
  ( /\ impact # "not asked"
    /\ ~fromDirtyTree
    /\ change.kind # "added"
    /\ change.cited.path = IF change.kind \in {"renamed", "moved"} THEN "before" ELSE "here") =>
    /\ change.kind = "deleted" => impact = "file-deleted"
    /\ (change.kind # "deleted" /\ evidence # {} /\ evidence \subseteq removed(change)) =>
         impact \in {"hit", "unplaceable"}
    /\ (change.kind # "deleted" /\ evidence # {}
         /\ \A i \in evidence, h \in change.hunks :
              IF h.count = 0 THEN i \notin {h.from, h.from + 1}
              ELSE i < h.from \/ i >= h.from + h.count) =>
         impact \in {"nearby", "unplaceable"}
    /\ impact = "unplaceable" => ~change.atRef
=============================================================================
