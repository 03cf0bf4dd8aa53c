---------------------------- MODULE Answers_proofs ----------------------------
(***************************************************************************)
(* What is kept about a stored answer can be relied on: the declared       *)
(* architecture it is compared with (RevisionsStand), what a verification  *)
(* says of its citations (OnlyEscalates, VouchedForIsThere), the           *)
(* corrections made to it (OriginalIsWhatWasServed, ServedIsCurrent), what *)
(* a change does to its evidence (EditedEvidenceIsReported), how the index *)
(* compares with what was declared (ListsAgree), and which modules are     *)
(* planned, real, or still to ask about (PlannedModuleBecomesReal,         *)
(* UnaskedMeansUncited).                                                   *)
(***************************************************************************)
EXTENDS AnswerRecord, DeclaredArchitecture, ChangeImpact, Conformance,
        ModuleRegistry, FiniteSetTheorems, WellFoundedInduction, TLAPS

-----------------------------------------------------------------------------
(* Least and greatest numbers                                              *)

\* A nonempty set of numbers has a least one: what takes the place of an
\* induction below.
LEMMA LeastNumber ==
  ASSUME NEW T \in SUBSET Nat, T # {}
  PROVE  \E x \in T : \A y \in T : x <= y
<1>1. PICK x \in T : \A y \in T : <<y, x>> \notin OpToRel(<, Nat)
  BY NatLessThanWellFounded, WFMin
<1>2. \A y \in T : x <= y
  <2>1. TAKE y \in T
  <2>2. x \in Nat /\ y \in Nat  OBVIOUS
  <2>3. ~(y < x)
    BY <1>1, <2>2, Zenon DEF OpToRel
  <2>4. QED  BY <2>2, <2>3
<1>3. QED  BY <1>2

\* And a greatest one, if it has a bound.
LEMMA GreatestNumber ==
  ASSUME NEW n \in Nat, NEW T \in SUBSET (0..n), T # {}
  PROVE  \E x \in T : \A y \in T : y <= x
<1> DEFINE Mirror == {n - x : x \in T}
<1>1. Mirror \in SUBSET Nat /\ Mirror # {}
  <2>1. \A x \in T : n - x \in Nat  OBVIOUS
  <2>2. QED  BY <2>1
<1>2. PICK m \in Mirror : \A k \in Mirror : m <= k
  BY ONLY <1>1, LeastNumber
<1>3. PICK x \in T : m = n - x  OBVIOUS
<1>4. \A y \in T : y <= x
  <2>1. TAKE y \in T
  <2>2. n - y \in Mirror  OBVIOUS
  <2>3. QED  BY <1>2, <1>3, <2>2
<1>5. QED  BY <1>4

-----------------------------------------------------------------------------
(* The declared architecture                                               *)

\* What every state of the declared architecture has: a head that is stored.
DeclaredInv ==
  /\ revisions \in [Models -> Authors \cup {NoAuthor}]
  /\ head \in Models \cup {NoModel}
  /\ head # NoModel => revisions[head] # NoAuthor

\* One step of saveDeclaredArchitecture() or of reading the head keeps it, and
\* no stored revision changes its author.
LEMMA DeclaredStep ==
  ASSUME DeclaredInv, [DeclaredNext]_declaredVars
  PROVE  /\ DeclaredInv'
         /\ \A m \in Models : revisions[m] # NoAuthor => revisions'[m] = revisions[m]
<1>1. CASE UNCHANGED declaredVars
  BY <1>1 DEF DeclaredInv, declaredVars
<1>2. ASSUME NEW a \in Authors, ReadHead(a)
      PROVE  /\ DeclaredInv'
             /\ \A m \in Models : revisions[m] # NoAuthor => revisions'[m] = revisions[m]
  BY <1>2 DEF DeclaredInv, ReadHead
<1>3. ASSUME NEW a \in Authors, NEW m \in Models, Save(a, m)
      PROVE  /\ DeclaredInv'
             /\ \A k \in Models : revisions[k] # NoAuthor => revisions'[k] = revisions[k]
  BY <1>3, DeclaredAssumption DEF DeclaredInv, Save, Stored
<1>4. QED  BY <1>1, <1>2, <1>3 DEF DeclaredNext

\* In every reachable state the head names a stored revision.
THEOREM DeclaredInvariance == DeclaredSpec => []DeclaredInv
<1>1. DeclaredInit => DeclaredInv
  BY DEF DeclaredInit, DeclaredInv
<1>2. DeclaredInv /\ [DeclaredNext]_declaredVars => DeclaredInv'
  BY DeclaredStep
<1>3. QED  BY <1>1, <1>2, PTL DEF DeclaredSpec

\* What was signed stays signed, whoever saves after whom, and nobody moves
\* the head to a revision that is not stored: saveDeclaredArchitecture().
THEOREM SignedStaysSigned == DeclaredSpec => RevisionsStand
<1> DEFINE Stands ==
      /\ \A m \in Models : revisions[m] # NoAuthor => revisions'[m] = revisions[m]
      /\ head' # NoModel => revisions'[head'] # NoAuthor
<1>1. DeclaredInv /\ [DeclaredNext]_declaredVars => Stands
  BY DeclaredStep DEF DeclaredInv
<1>2. DeclaredInv /\ [DeclaredNext]_declaredVars => [Stands]_declaredVars
  BY <1>1
<1>3. RevisionsStand <=> [][Stands]_declaredVars
  BY DEF RevisionsStand
<1> HIDE DEF Stands
<1>4. QED  BY <1>2, <1>3, DeclaredInvariance, PTL DEF DeclaredSpec

-----------------------------------------------------------------------------
(* Locating a citation                                                     *)

\* Of the hits of an anchor one is taken, and never a line that is no hit.
LEMMA NearestIsAHit ==
  ASSUME NEW hits \in SUBSET Nat, hits # {}, NEW line \in Nat
  PROVE  Nearest(hits, line) \in hits
<1> DEFINE Far(k) == IF k < line THEN 2 * (line - k) ELSE 2 * (k - line) + 1
           Away == {Far(k) : k \in hits}
<1>1. \A k \in hits : Far(k) \in Nat  OBVIOUS
<1>2. Away \in SUBSET Nat /\ Away # {}
  BY <1>1
<1> HIDE DEF Far
<1>3. PICK least \in Away : \A n \in Away : least <= n
  BY ONLY <1>2, LeastNumber
<1>4. PICK i \in hits : least = Far(i)  OBVIOUS
<1>5. \E k \in hits : \A j \in hits : Far(k) <= Far(j)
  BY <1>3, <1>4
<1>6. Nearest(hits, line) = CHOOSE k \in hits : \A j \in hits : Far(k) <= Far(j)
  BY DEF Nearest, Far
<1>7. QED  BY <1>5, <1>6

\* locate(): a text that has the line a citation was hashed from has the
\* citation, wherever the line stands now.
LEMMA HashedLineIsFound ==
  ASSUME NEW text \in Texts, NEW c, c.line \in Nat,
         \E i \in DOMAIN text : text[i] = c.hash
  PROVE  locate(text, c) # 0
<1> DEFINE byHash == {i \in DOMAIN text : text[i] = c.hash}
<1>1. PICK n \in 1..MaxLength : text \in [1..n -> Lines]
  BY DEF Texts
<1>2. DOMAIN text \subseteq Nat \ {0}
  BY <1>1
<1>3. byHash \in SUBSET Nat /\ byHash # {} /\ 0 \notin byHash
  BY <1>2
<1>4. locate(text, c) = Nearest(byHash, c.line)
  BY <1>3 DEF locate
<1> HIDE DEF byHash
<1>5. Nearest(byHash, c.line) \in byHash
  BY <1>3, NearestIsAHit
<1>6. QED  BY <1>3, <1>4, <1>5

-----------------------------------------------------------------------------
(* The invariant of verification                                           *)

Snapshots == UNION {[P -> Texts \cup {Gone}] : P \in SUBSET Files}

Verdicts ==
  [fingerprint : Snapshots, state : {"fresh", "drifted", "stale", "broken"},
   torn : BOOLEAN]

FreshTypes ==
  /\ tree \in [Files -> Texts \cup {Gone}]
  /\ recorded \in [Files -> Originals \cup {Unhashed}]
  /\ IsFiniteSet(answer)
  /\ \A c \in answer : c.path \in Files /\ c.line \in Nat
  /\ astray \in BOOLEAN
  /\ \/ check = NoCheck
     \/ check \in [at : {"hashed"}, seen : [paths(answer) -> Texts \cup {Gone}],
                   full : BOOLEAN]
  /\ verified \in Seq(Verdicts)

\* The line a citation is kept with is the line that was indexed.
HashIsOfTheIndex ==
  ~astray => \A c \in answer :
    (c.state = "verified" /\ recorded[c.path] # Unhashed) =>
      /\ c.line \in DOMAIN recorded[c.path]
      /\ c.hash = recorded[c.path][c.line]

\* Nobody verifies before there is an answer.
NothingBefore == answer = {} => check = NoCheck /\ verified = <<>>

\* The citation is in its file, as these files are.
IsIn(seen, c) == seen[c.path] # Gone /\ locate(seen[c.path], c) # 0

\* What a kept verification vouched for was in the files it names.
Backed ==
  \A i \in DOMAIN verified :
    (verified[i].state \in {"fresh", "drifted"} /\ ~verified[i].torn /\ ~astray) =>
      \A c \in observed(answer) :
        (c.state = "verified" /\ recorded[c.path] # Unhashed) =>
          IsIn(verified[i].fingerprint, c)

FreshInv ==
  /\ FreshTypes
  /\ HashIsOfTheIndex
  /\ NothingBefore
  /\ Backed

-----------------------------------------------------------------------------
(* What a verdict says                                                     *)

\* The files of finitely many citations are finitely many.
LEMMA PathsAreFinite ==
  ASSUME NEW cited, IsFiniteSet(cited)
  PROVE  IsFiniteSet({c.path : c \in cited})
<1> DEFINE Cited == {c.path : c \in cited}
           pathOf == [c \in cited |-> c.path]
<1>1. pathOf \in Surjection(cited, Cited)
  BY DEF Surjection
<1>2. QED  BY <1>1, FS_Surjection

\* A finite set with no elements is the empty one, and a subset as large as the
\* set is the set.
LEMMA Counting ==
  ASSUME NEW S, IsFiniteSet(S), NEW T, T \subseteq S
  PROVE  /\ IsFiniteSet(T)
         /\ Cardinality(S) \in Nat /\ Cardinality(T) \in Nat
         /\ Cardinality(T) = 0 <=> T = {}
         /\ Cardinality(T) >= Cardinality(S) => T = S
<1>1. T \in SUBSET S  OBVIOUS
<1>2. /\ IsFiniteSet(T)
      /\ Cardinality(T) <= Cardinality(S)
      /\ Cardinality(S) = Cardinality(T) => S = T
  BY <1>1, FS_Subset
<1>3. Cardinality(S) \in Nat /\ Cardinality(T) \in Nat
  BY <1>2, FS_CardinalityType
<1>4. Cardinality(T) = 0 <=> T = {}
  BY <1>2, FS_EmptySet
<1>5. QED  BY <1>2, <1>3, <1>4

\* fileStates(), field by field.
LEMMA FileStateFields ==
  ASSUME NEW x, NEW now
  PROVE  /\ fileState(x, now).missing <=> now = Gone
         /\ fileState(x, now).changed <=>
              now = Gone \/ (recorded[x] # Unhashed /\ recorded[x] # now)
         /\ fileState(x, now).unknown <=> now # Gone /\ recorded[x] = Unhashed
  BY DEF fileState

States == {"fresh", "drifted", "stale", "broken"}

LEMMA Ranks ==
  /\ Rank("fresh") = 0 /\ Rank("drifted") = 1
  /\ Rank("stale") = 2 /\ Rank("broken") = 3
  BY DEF Rank

\* The rung of classifyFreshness() that counts stand on.
Rung(said, changed, missing, units, gone) ==
  /\ said \in States
  /\ said = "broken" <=> units > 0 /\ gone >= units
  /\ said = "fresh" => changed = 0
  /\ said = "drifted" => missing = 0 /\ changed > 0
  /\ said = "stale" => missing > 0 /\ changed > 0

LEMMA Ladder ==
  ASSUME NEW changed \in Nat, NEW missing \in Nat, NEW units \in Nat, NEW gone \in Nat
  PROVE  Rung(classifyFreshness([changed |-> changed, missing |-> missing,
                                 entryUnits |-> units, entryMissing |-> gone]),
              changed, missing, units, gone)
<1> DEFINE counts == [changed |-> changed, missing |-> missing,
                      entryUnits |-> units, entryMissing |-> gone]
<1>1. /\ counts.changed = changed /\ counts.missing = missing
      /\ counts.entryUnits = units /\ counts.entryMissing = gone
  OBVIOUS
<1>2. QED  BY <1>1 DEF classifyFreshness, Rung, States

\* A citation whose file is gone is lost.
LEMMA LostWithItsFile ==
  ASSUME NEW c, NEW state, NEW text, NEW full, state.missing
  PROVE  outcome(c, state, text, full) \in Lost
  BY DEF outcome, Lost

\* The sets that verifyAnswer() counts.
ChangedIn(seen) == {x \in DOMAIN seen : fileState(x, seen[x]).changed}

MissingIn(seen) == {x \in DOMAIN seen : fileState(x, seen[x]).missing}

LostIn(citations, seen, text, full) ==
  {c \in observed(citations) :
     outcome(c, fileState(c.path, seen[c.path]), text[c.path], full) \in Lost}

Entries(citations) == {c \in observed(citations) : c.entry}

\* The verification on its ladder.
LEMMA VerdictOf ==
  ASSUME NEW cited, NEW seen, NEW text, NEW full,
         Cardinality(ChangedIn(seen)) \in Nat,
         Cardinality(LostIn(cited, seen, text, full)) \in Nat,
         Cardinality(Entries(cited)) \in Nat,
         Cardinality(Entries(cited) \cap LostIn(cited, seen, text, full)) \in Nat
  PROVE  Rung(verifyAnswer(cited, seen, text, full),
              Cardinality(ChangedIn(seen)),
              Cardinality(LostIn(cited, seen, text, full)),
              Cardinality(Entries(cited)),
              Cardinality(Entries(cited) \cap LostIn(cited, seen, text, full)))
<1>1. verifyAnswer(cited, seen, text, full) =
        classifyFreshness(
          [changed |-> Cardinality(ChangedIn(seen)),
           missing |-> Cardinality(LostIn(cited, seen, text, full)),
           entryUnits |-> Cardinality(Entries(cited)),
           entryMissing |-> Cardinality(Entries(cited) \cap LostIn(cited, seen, text, full))])
  BY DEF verifyAnswer, ChangedIn, LostIn, Entries
<1>2. QED  BY <1>1, Ladder

\* And the estimate on its own.
LEMMA EstimateOf ==
  ASSUME NEW cited, NEW seen,
         Cardinality(ChangedIn(seen)) \in Nat,
         Cardinality(MissingIn(seen)) \in Nat,
         Cardinality(entryPathsOf(cited)) \in Nat,
         Cardinality(entryPathsOf(cited) \cap MissingIn(seen)) \in Nat
  PROVE  Rung(estimate(cited, seen),
              Cardinality(ChangedIn(seen)),
              Cardinality(MissingIn(seen)),
              Cardinality(entryPathsOf(cited)),
              Cardinality(entryPathsOf(cited) \cap MissingIn(seen)))
<1>1. estimate(cited, seen) =
        classifyFreshness(
          [changed |-> Cardinality(ChangedIn(seen)),
           missing |-> Cardinality(MissingIn(seen)),
           entryUnits |-> Cardinality(entryPathsOf(cited)),
           entryMissing |-> Cardinality(entryPathsOf(cited) \cap MissingIn(seen))])
  BY DEF estimate, ChangedIn, MissingIn
<1>2. QED  BY <1>1, Ladder

\* What is counted is finite.
LEMMA CountedIsFinite ==
  ASSUME NEW cited, IsFiniteSet(cited), NEW seen, DOMAIN seen = paths(cited),
         NEW text, NEW full
  PROVE  /\ IsFiniteSet(paths(cited))
         /\ IsFiniteSet(observed(cited)) /\ IsFiniteSet(Entries(cited))
         /\ IsFiniteSet(entryPathsOf(cited))
         /\ IsFiniteSet(LostIn(cited, seen, text, full))
         /\ ChangedIn(seen) \subseteq paths(cited)
         /\ MissingIn(seen) \subseteq paths(cited)
<1>1. observed(cited) \subseteq cited  BY DEF observed
<1>2. IsFiniteSet(observed(cited))  BY <1>1, FS_Subset
<1>3. Entries(cited) \subseteq observed(cited)  BY DEF Entries
<1>4. IsFiniteSet(Entries(cited))  BY <1>2, <1>3, FS_Subset
<1>5. IsFiniteSet(paths(cited))  BY <1>2, PathsAreFinite DEF paths
<1>6. entryPathsOf(cited) = {c.path : c \in Entries(cited)}
  BY DEF entryPathsOf, Entries
<1>7. IsFiniteSet(entryPathsOf(cited))  BY <1>4, <1>6, PathsAreFinite
<1>8. LostIn(cited, seen, text, full) \subseteq observed(cited)  BY DEF LostIn
<1>9. IsFiniteSet(LostIn(cited, seen, text, full))  BY <1>2, <1>8, FS_Subset
<1>10. QED  BY <1>2, <1>4, <1>5, <1>7, <1>9 DEF ChangedIn, MissingIn

\* Over the same hashes a verification is never kinder than the estimate.
LEMMA Escalates ==
  ASSUME NEW cited, IsFiniteSet(cited), NEW seen, DOMAIN seen = paths(cited), NEW full
  PROVE  Rank(verifyAnswer(cited, seen, seen, full)) >= Rank(estimate(cited, seen))
<1> DEFINE lost == LostIn(cited, seen, seen, full)
           entries == Entries(cited)
           units == entryPathsOf(cited)
           v == verifyAnswer(cited, seen, seen, full)
           e == estimate(cited, seen)
<1>1. \A c \in observed(cited) : c.path \in MissingIn(seen) => c \in lost
  <2>1. TAKE c \in observed(cited)
  <2>2. HAVE c.path \in MissingIn(seen)
  <2>3. fileState(c.path, seen[c.path]).missing  BY <2>2 DEF MissingIn
  <2>4. outcome(c, fileState(c.path, seen[c.path]), seen[c.path], full) \in Lost
    BY <2>3, LostWithItsFile
  <2>5. QED  BY <2>4 DEF LostIn
<1>2. /\ IsFiniteSet(entries) /\ IsFiniteSet(units) /\ IsFiniteSet(lost)
      /\ IsFiniteSet(ChangedIn(seen)) /\ IsFiniteSet(MissingIn(seen))
      /\ MissingIn(seen) \subseteq paths(cited)
  BY CountedIsFinite, FS_Subset
<1>3. /\ IsFiniteSet(entries \cap lost) /\ IsFiniteSet(units \cap MissingIn(seen))
  BY <1>2, FS_Subset
<1>4. /\ Cardinality(ChangedIn(seen)) \in Nat /\ Cardinality(MissingIn(seen)) \in Nat
      /\ Cardinality(lost) \in Nat /\ Cardinality(entries) \in Nat
      /\ Cardinality(units) \in Nat /\ Cardinality(entries \cap lost) \in Nat
      /\ Cardinality(units \cap MissingIn(seen)) \in Nat
  BY <1>2, <1>3, FS_CardinalityType
<1>5. units = {c.path : c \in entries} /\ entries \subseteq observed(cited)
  BY DEF entryPathsOf, Entries
<1>6. Rung(v, Cardinality(ChangedIn(seen)), Cardinality(lost), Cardinality(entries),
           Cardinality(entries \cap lost))
  BY <1>4, VerdictOf
<1>7. Rung(e, Cardinality(ChangedIn(seen)), Cardinality(MissingIn(seen)),
           Cardinality(units), Cardinality(units \cap MissingIn(seen)))
  BY <1>4, EstimateOf
<1> HIDE DEF v, e, lost, entries, units
<1>8. v \in States /\ e \in States
  BY <1>6, <1>7 DEF Rung
<1>9. CASE e = "broken"
  <2>1. /\ Cardinality(units) > 0
        /\ Cardinality(units \cap MissingIn(seen)) >= Cardinality(units)
    BY <1>7, <1>9 DEF Rung
  <2>2. units # {}  BY <2>1, FS_EmptySet
  <2>3. units \cap MissingIn(seen) = units  BY <1>2, <2>1, Counting
  <2>4. entries \cap lost = entries  BY <1>1, <1>5, <2>3
  <2>5. entries # {}  BY <1>5, <2>2
  <2>6. Cardinality(entries) > 0  BY <1>2, <1>4, <2>5, FS_EmptySet
  <2>7. v = "broken"  BY <1>4, <1>6, <2>4, <2>6 DEF Rung
  <2>8. QED  BY <1>9, <2>7, Ranks DEF v, e
<1>10. CASE e = "fresh"
  BY <1>8, <1>10, Ranks DEF States, v, e
<1>11. CASE e = "drifted"
  <2>1. Cardinality(ChangedIn(seen)) > 0  BY <1>7, <1>11 DEF Rung
  <2>2. v # "fresh"  BY <1>4, <1>6, <2>1 DEF Rung
  <2>3. QED  BY <1>8, <1>11, <2>2, Ranks DEF States, v, e
<1>12. CASE e = "stale"
  <2>1. Cardinality(ChangedIn(seen)) > 0 /\ Cardinality(MissingIn(seen)) > 0
    BY <1>7, <1>12 DEF Rung
  <2>2. PICK x \in MissingIn(seen) : TRUE  BY <2>1, FS_EmptySet
  <2>3. PICK c \in observed(cited) : c.path = x  BY <1>2, <2>2 DEF paths
  <2>4. lost # {}  BY <1>1, <2>2, <2>3
  <2>5. Cardinality(lost) > 0  BY <1>2, <1>4, <2>4, FS_EmptySet
  <2>6. v \in {"stale", "broken"}  BY <1>4, <1>6, <1>8, <2>1, <2>5 DEF Rung, States
  <2>7. QED  BY <1>12, <2>6, Ranks DEF v, e
<1>13. QED  BY <1>8, <1>9, <1>10, <1>11, <1>12 DEF States

\* A verdict that nothing was lost is only given when the line is there.
LEMMA VerdictIsBacked ==
  ASSUME FreshTypes, HashIsOfTheIndex, ~astray,
         NEW seen \in [paths(answer) -> Texts \cup {Gone}], NEW full \in BOOLEAN,
         verifyAnswer(answer, seen, seen, full) \in {"fresh", "drifted"},
         NEW c \in observed(answer), c.state = "verified",
         recorded[c.path] # Unhashed
  PROVE  IsIn(seen, c)
<1> DEFINE x == c.path
           lost == LostIn(answer, seen, seen, full)
           state == fileState(x, seen[x])
<1>1. /\ c \in answer /\ ~isIntent(c) /\ x \in Files /\ c.line \in Nat
      /\ x \in paths(answer) /\ DOMAIN seen = paths(answer)
      /\ seen[x] \in Texts \cup {Gone}
  BY DEF observed, paths, FreshTypes
<1>2. /\ recorded[x] \in Texts /\ c.line \in DOMAIN recorded[x]
      /\ c.hash = recorded[x][c.line]
  BY <1>1, FreshnessAssumption DEF FreshTypes, HashIsOfTheIndex, Texts
<1>3. c.hash # NoHash
  <2>1. PICK n \in 1..MaxLength : recorded[x] \in [1..n -> Lines]
    BY <1>2 DEF Texts
  <2>2. c.hash \in Lines  BY <1>2, <2>1
  <2>3. QED  BY <2>2, FreshnessAssumption
<1>4. CASE ~state.changed
  <2>1. seen[x] # Gone /\ recorded[x] = seen[x]
    BY <1>4, FileStateFields
  <2>2. locate(seen[x], c) # 0
    BY <1>1, <1>2, <2>1, HashedLineIsFound
  <2>3. QED  BY <2>1, <2>2 DEF IsIn
<1>5. CASE state.changed
  <2>1. /\ IsFiniteSet(ChangedIn(seen)) /\ IsFiniteSet(lost)
        /\ IsFiniteSet(Entries(answer)) /\ IsFiniteSet(Entries(answer) \cap lost)
    BY <1>1, CountedIsFinite, FS_Subset DEF FreshTypes
  <2>2. /\ Cardinality(ChangedIn(seen)) \in Nat /\ Cardinality(lost) \in Nat
        /\ Cardinality(Entries(answer)) \in Nat
        /\ Cardinality(Entries(answer) \cap lost) \in Nat
    BY <2>1, FS_CardinalityType
  <2>3. x \in ChangedIn(seen)  BY <1>1, <1>5 DEF ChangedIn
  <2>4. Cardinality(ChangedIn(seen)) # 0  BY <2>1, <2>3, FS_EmptySet
  <2>5. Rung(verifyAnswer(answer, seen, seen, full), Cardinality(ChangedIn(seen)),
             Cardinality(lost), Cardinality(Entries(answer)),
             Cardinality(Entries(answer) \cap lost))
    BY <2>2, VerdictOf
  <2>6. Cardinality(lost) = 0  BY <2>4, <2>5 DEF Rung
  <2>7. c \notin lost  BY <2>1, <2>6, FS_EmptySet
  <2>8. outcome(c, state, seen[x], full) \notin Lost  BY <2>7 DEF LostIn
  <2>9. ~state.missing  BY <2>8, LostWithItsFile
  <2>10. seen[x] # Gone /\ ~state.unknown
    BY <1>5, <2>9, FileStateFields
  <2>11. Searched(state, full)  BY <1>5, <2>9 DEF Searched
  <2>12. outcome(c, state, seen[x], full) =
           IF locate(seen[x], c) = c.line THEN "resolved"
           ELSE IF locate(seen[x], c) # 0 THEN "drifted"
           ELSE "missing"
    BY <1>3, <1>5, <2>9, <2>10, <2>11 DEF outcome
  <2>13. c.line # 0  BY <1>1 DEF isIntent
  <2>14. locate(seen[x], c) # 0  BY <2>8, <2>12, <2>13 DEF Lost
  <2>15. QED  BY <2>10, <2>14 DEF IsIn
<1>6. QED  BY <1>4, <1>5

-----------------------------------------------------------------------------
(* Each step keeps the invariant                                           *)

\* The first state: the tree as it was indexed, and nothing else.
LEMMA FreshStarts == FreshInit => FreshInv
<1> SUFFICES ASSUME FreshInit PROVE FreshInv  OBVIOUS
<1>1. answer = {} /\ astray = FALSE /\ check = NoCheck /\ verified = <<>>
  BY DEF FreshInit
<1>2. tree \in [Files -> Texts \cup {Gone}]
  <2>1. Originals \subseteq Texts  BY FreshnessAssumption DEF Texts
  <2>2. QED  BY <2>1 DEF FreshInit
<1>3. recorded \in [Files -> Originals \cup {Unhashed}]  BY DEF FreshInit
<1>4. IsFiniteSet(answer)  BY <1>1, FS_EmptySet
<1>5. verified \in Seq(Verdicts) /\ DOMAIN verified = {}  BY <1>1
<1>6. FreshTypes  BY <1>1, <1>2, <1>3, <1>4, <1>5 DEF FreshTypes
<1>7. QED  BY <1>1, <1>5, <1>6 DEF FreshInv, HashIsOfTheIndex, NothingBefore, Backed

\* A person edits, creates or removes a file: what was kept stays as it was.
LEMMA EditKeeps ==
  ASSUME FreshInv, NEW x \in Files, NEW text \in Texts \cup {Gone}, Edit(x, text)
  PROVE  FreshInv'
<1>1. UNCHANGED <<recorded, answer, astray, check, verified>>  BY DEF Edit
<1>2. tree' \in [Files -> Texts \cup {Gone}]
  BY DEF Edit, FreshInv, FreshTypes
<1>3. FreshTypes'
  BY <1>1, <1>2 DEF FreshInv, FreshTypes, paths, observed
<1>4. HashIsOfTheIndex' /\ NothingBefore'
  BY <1>1 DEF FreshInv, HashIsOfTheIndex, NothingBefore
<1>5. Backed'
  BY <1>1 DEF FreshInv, Backed, observed, IsIn
<1>6. QED  BY <1>3, <1>4, <1>5 DEF FreshInv

\* verifyOneCitation(): of a citation that holds the line is kept, as it is.
LEMMA KeptAsItIs ==
  ASSUME NEW c, NEW inside, verifyOneCitation(c, inside).state = "verified"
  PROVE  /\ tree[c.path] # Gone /\ c.line \in DOMAIN tree[c.path]
         /\ verifyOneCitation(c, inside).hash = tree[c.path][c.line]
<1> DEFINE holds == /\ tree[c.path] # Gone
                    /\ c.line \in DOMAIN tree[c.path]
                    /\ c.symbol => inside \/ nearbyContains(tree[c.path], c.line)
<1>1. verifyOneCitation(c, inside) =
        [path |-> c.path, line |-> c.line, symbol |-> c.symbol, entry |-> c.entry,
         state |-> IF isIntent(c) THEN "intent" ELSE IF holds THEN "verified" ELSE "unverified",
         hash |-> IF ~isIntent(c) /\ holds THEN tree[c.path][c.line] ELSE NoHash]
  BY DEF verifyOneCitation
<1>2. holds /\ ~isIntent(c)
  <2> HIDE DEF holds
  <2>1. verifyOneCitation(c, inside).state =
          IF isIntent(c) THEN "intent" ELSE IF holds THEN "verified" ELSE "unverified"
    BY <1>1
  <2>2. QED  BY <2>1
<1>3. QED
  <2>1. verifyOneCitation(c, inside).hash = tree[c.path][c.line]
    <3> HIDE DEF holds
    <3>1. QED  BY <1>1, <1>2
  <2>2. QED  BY <1>2, <2>1

\* submit_flow_answer stores the answer.
LEMMA SubmitKeeps ==
  ASSUME FreshInv, NEW cited \in SUBSET Citable, NEW declared \in SUBSET Citable,
         Submit(cited, declared)
  PROVE  FreshInv'
<1>1. /\ answer = {} /\ check = NoCheck /\ verified = <<>> /\ cited # {}
      /\ UNCHANGED <<tree, recorded, check, verified>>
  BY DEF Submit, FreshInv, NothingBefore
<1>2. answer' = {verifyOneCitation(c, c \in declared) : c \in cited}
  BY DEF Submit
<1>3. \A c \in cited :
        /\ verifyOneCitation(c, c \in declared).path = c.path
        /\ verifyOneCitation(c, c \in declared).line = c.line
        /\ c.path \in Files /\ c.line \in Nat
  BY FreshnessAssumption DEF verifyOneCitation
<1>4. IsFiniteSet(answer')
  <2> DEFINE stored == [c \in cited |-> verifyOneCitation(c, c \in declared)]
  <2>1. stored \in Surjection(cited, answer')
    BY <1>2 DEF Surjection
  <2>2. IsFiniteSet(cited)  BY DEF Submit
  <2>3. QED  BY <2>1, <2>2, FS_Surjection
<1>5. FreshTypes'
  <2>1. astray' \in BOOLEAN  BY DEF Submit
  <2>2. \A c \in answer' : c.path \in Files /\ c.line \in Nat
    BY <1>2, <1>3
  <2>3. QED
    BY <1>1, <1>4, <2>1, <2>2 DEF FreshInv, FreshTypes, NoCheck
<1>6. HashIsOfTheIndex'
  <2> SUFFICES ASSUME ~astray', NEW d \in answer', d.state = "verified",
                      recorded[d.path] # Unhashed
               PROVE  /\ d.line \in DOMAIN recorded[d.path]
                      /\ d.hash = recorded[d.path][d.line]
    BY <1>1 DEF HashIsOfTheIndex
  <2>1. PICK c \in cited : d = verifyOneCitation(c, c \in declared)
    BY <1>2
  <2>2. /\ c.line \in DOMAIN tree[c.path] /\ d.hash = tree[c.path][c.line]
        /\ d.path = c.path /\ d.line = c.line /\ c.path \in Files
    BY <1>3, <2>1, KeptAsItIs
  <2>3. recorded[c.path] = tree[c.path]
    BY <2>2 DEF Submit
  <2>4. QED  BY <2>2, <2>3
<1>7. NothingBefore' /\ Backed'
  <2>1. DOMAIN verified' = {}  BY <1>1
  <2>2. QED  BY <1>1, <2>1 DEF NothingBefore, Backed
<1>8. QED  BY <1>5, <1>6, <1>7 DEF FreshInv

\* `veriflow verify` hashes the cited files.
LEMMA BeginVerifyKeeps ==
  ASSUME FreshInv, NEW full \in BOOLEAN, BeginVerify(full)
  PROVE  FreshInv'
<1>1. /\ answer # {} /\ UNCHANGED <<tree, recorded, answer, astray, verified>>
      /\ check' = [at |-> "hashed", seen |-> Look(answer), full |-> full]
  BY DEF BeginVerify
<1>2. Look(answer) \in [paths(answer) -> Texts \cup {Gone}]
  <2>1. \A x \in paths(answer) : x \in Files
    BY DEF paths, observed, FreshInv, FreshTypes
  <2>2. QED  BY <2>1 DEF Look, FreshInv, FreshTypes
<1>3. FreshTypes'
  BY <1>1, <1>2 DEF FreshInv, FreshTypes, paths, observed
<1>4. HashIsOfTheIndex' /\ NothingBefore'
  BY <1>1 DEF FreshInv, HashIsOfTheIndex, NothingBefore
<1>5. Backed'
  BY <1>1 DEF FreshInv, Backed, observed, IsIn
<1>6. QED  BY <1>3, <1>4, <1>5 DEF FreshInv

\* And stores its verdict.
LEMMA StoreVerificationKeeps ==
  ASSUME FreshInv, StoreVerification
  PROVE  FreshInv'
<1> DEFINE said == verifyAnswer(answer, check.seen, Look(answer), check.full)
           torn == check.seen # Look(answer)
           stored == [fingerprint |-> check.seen, state |-> said, torn |-> torn]
<1>1. /\ check.at = "hashed" /\ check' = NoCheck
      /\ verified' = Append(verified, stored)
      /\ UNCHANGED <<tree, recorded, answer, astray>>
  BY DEF StoreVerification
<1>2. /\ check.seen \in [paths(answer) -> Texts \cup {Gone}]
      /\ check.full \in BOOLEAN /\ answer # {}
  BY <1>1 DEF FreshInv, FreshTypes, NothingBefore, NoCheck
<1>3. torn \in BOOLEAN  OBVIOUS
<1>4. said \in States
  <2> DEFINE lost == LostIn(answer, check.seen, Look(answer), check.full)
  <2>1. /\ IsFiniteSet(ChangedIn(check.seen)) /\ IsFiniteSet(lost)
        /\ IsFiniteSet(Entries(answer)) /\ IsFiniteSet(Entries(answer) \cap lost)
    BY <1>2, CountedIsFinite, FS_Subset DEF FreshInv, FreshTypes
  <2>2. /\ Cardinality(ChangedIn(check.seen)) \in Nat /\ Cardinality(lost) \in Nat
        /\ Cardinality(Entries(answer)) \in Nat
        /\ Cardinality(Entries(answer) \cap lost) \in Nat
    BY <2>1, FS_CardinalityType
  <2>3. QED  BY <2>2, VerdictOf DEF Rung
<1>5. check.seen \in Snapshots
  <2>1. paths(answer) \subseteq Files
    BY DEF paths, observed, FreshInv, FreshTypes
  <2>2. QED  BY <1>2, <2>1 DEF Snapshots
<1>6. (said \in {"fresh", "drifted"} /\ ~torn /\ ~astray) =>
        \A c \in observed(answer) :
          (c.state = "verified" /\ recorded[c.path] # Unhashed) => IsIn(check.seen, c)
  <2> SUFFICES ASSUME said \in {"fresh", "drifted"}, ~torn, ~astray,
                      NEW c \in observed(answer), c.state = "verified",
                      recorded[c.path] # Unhashed
               PROVE  IsIn(check.seen, c)
    OBVIOUS
  <2>1. verifyAnswer(answer, check.seen, check.seen, check.full) \in {"fresh", "drifted"}
    OBVIOUS
  <2>2. QED  BY <1>2, <2>1, VerdictIsBacked DEF FreshInv
<1> HIDE DEF said, torn
<1>7. stored \in Verdicts
  BY <1>3, <1>4, <1>5 DEF Verdicts, States
<1>8. /\ stored.fingerprint = check.seen /\ stored.state = said /\ stored.torn = torn
  OBVIOUS
<1> HIDE DEF stored
<1>9. /\ verified \in Seq(Verdicts) /\ verified' \in Seq(Verdicts)
      /\ DOMAIN verified = 1..Len(verified)
      /\ DOMAIN verified' = 1..(Len(verified) + 1)
      /\ \A i \in 1..Len(verified) : verified'[i] = verified[i]
      /\ verified'[Len(verified) + 1] = stored
  BY <1>1, <1>7 DEF FreshInv, FreshTypes
<1>10. FreshTypes'
  BY <1>1, <1>9 DEF FreshInv, FreshTypes
<1>11. HashIsOfTheIndex'
  BY <1>1 DEF FreshInv, HashIsOfTheIndex
<1>12. NothingBefore'
  BY <1>1, <1>2 DEF NothingBefore
<1>13. Backed'
  <2> SUFFICES ASSUME NEW i \in DOMAIN verified',
                      verified'[i].state \in {"fresh", "drifted"}, ~verified'[i].torn,
                      ~astray, NEW c \in observed(answer), c.state = "verified",
                      recorded[c.path] # Unhashed
               PROVE  IsIn(verified'[i].fingerprint, c)
    BY <1>1 DEF Backed, observed, IsIn
  <2>1. CASE i \in DOMAIN verified
    BY <1>9, <2>1 DEF FreshInv, Backed
  <2>2. CASE i = Len(verified) + 1
    BY <1>6, <1>8, <1>9, <2>2
  <2>3. i \in DOMAIN verified \/ i = Len(verified) + 1
    <3>1. Len(verified) \in Nat  BY <1>9
    <3>2. QED  BY <1>9, <3>1
  <2>4. QED  BY <2>1, <2>2, <2>3
<1>14. QED  BY <1>10, <1>11, <1>12, <1>13 DEF FreshInv

\* In every reachable state the kept hashes are the index's and the kept
\* verdicts are backed by the files they name.
THEOREM FreshInvariance == FreshSpec => []FreshInv
<1>1. ASSUME FreshInv, [FreshNext]_freshVars PROVE FreshInv'
  <2>1. CASE UNCHANGED freshVars
    BY <1>1, <2>1 DEF FreshInv, FreshTypes, HashIsOfTheIndex, NothingBefore, Backed,
                      freshVars, paths, observed, IsIn
  <2>2. CASE FreshNext
    BY <1>1, <2>2, EditKeeps, SubmitKeeps, BeginVerifyKeeps, StoreVerificationKeeps
    DEF FreshNext
  <2>3. QED  BY <1>1, <2>1, <2>2
<1>2. QED  BY <1>1, FreshStarts, PTL DEF FreshSpec

\* A verification only ever escalates the cheap estimate: verifyAnswer() never
\* overlooks what freshnessFromStates() sees.
THEOREM VerificationEscalates == FreshSpec => []OnlyEscalates
<1>1. FreshInv => OnlyEscalates
  <2> SUFFICES ASSUME FreshInv, NEW full \in BOOLEAN
               PROVE  Rank(verifyAnswer(answer, Look(answer), Look(answer), full))
                        >= Rank(estimate(answer, Look(answer)))
    BY DEF OnlyEscalates
  <2>1. DOMAIN Look(answer) = paths(answer)  BY DEF Look
  <2>2. QED  BY <2>1, Escalates DEF FreshInv, FreshTypes
<1>2. QED  BY <1>1, FreshInvariance, PTL

\* What preferVerification() serves as fresh or drifted is there: every citation
\* that held when the answer was handed in can be located.
THEOREM VerdictsHold == FreshSpec => []VouchedForIsThere
<1>1. FreshInv => VouchedForIsThere
  <2> DEFINE same == {i \in DOMAIN verified : verified[i].fingerprint = Look(answer)}
  <2> SUFFICES ASSUME FreshInv, verificationFor.state \in {"fresh", "drifted"},
                      ~verificationFor.torn, ~astray,
                      NEW c \in observed(answer), c.state = "verified",
                      recorded[c.path] # Unhashed
               PROVE  tree[c.path] # Gone /\ locate(tree[c.path], c) # 0
    BY DEF VouchedForIsThere
  <2>1. same # {} /\ verificationFor = verified[Max(same)]
    BY DEF verificationFor, Unverified
  <2>2. verified \in Seq(Verdicts) /\ DOMAIN verified = 1..Len(verified)
        /\ Len(verified) \in Nat
    BY DEF FreshInv, FreshTypes
  <2>3. same \in SUBSET (0..Len(verified))  BY <2>2
  <2>4. \E i \in same : \A j \in same : j <= i
    <3> HIDE DEF same
    <3>1. QED  BY <2>1, <2>2, <2>3, GreatestNumber
  <2>5. Max(same) \in same
    <3> HIDE DEF same
    <3>1. \E i \in same : \A j \in same : i >= j
      BY <2>2, <2>3, <2>4
    <3>2. QED  BY <3>1 DEF Max
  <2>6. PICK i \in DOMAIN verified : /\ i = Max(same)
                                     /\ verified[i].fingerprint = Look(answer)
    BY <2>5
  <2>7. IsIn(Look(answer), c)
    BY <2>1, <2>6 DEF FreshInv, Backed
  <2>8. Look(answer)[c.path] = tree[c.path]
    BY DEF Look, paths
  <2>9. QED  BY <2>7, <2>8 DEF IsIn
<1>2. QED  BY <1>1, FreshInvariance, PTL

-----------------------------------------------------------------------------
(* The order of the rows                                                   *)

Values == Words \cup {Blank} \cup Prose

CorrectionRows ==
  [id : Nat, field : Editable, original : Values, corrected : Words \cup {Blank},
   at : 0..MaxClock, guarded : BOOLEAN]

\* Some rows of one answer: no two of one number.
Numbered(given, n) ==
  /\ given \subseteq CorrectionRows
  /\ \A r \in given : r.id \in 1..n
  /\ \A r, s \in given : r.id = s.id => r = s

Own(given, x) == {r \in given : r.field = x}

\* Of some rows the one that is read last is read after all the others.
LEMMA LastIsLast ==
  ASSUME NEW n \in Nat, NEW given, Numbered(given, n), given # {}
  PROVE  /\ LastOf(given) \in given
         /\ \A s \in given \ {LastOf(given)} : InServedOrder(s, LastOf(given))
<1>1. \A r \in given : r.at \in 0..MaxClock /\ r.id \in 1..n
  BY DEF Numbered, CorrectionRows
<1> DEFINE times == {r.at : r \in given}
<1>2. times \in SUBSET (0..MaxClock) /\ times # {}
  BY <1>1
<1>3. PICK t \in times : \A u \in times : u <= t
  BY ONLY <1>2, AnswerAssumption, GreatestNumber
<1> DEFINE newest == {r \in given : r.at = t}
           numbers == {r.id : r \in newest}
<1>4. numbers \in SUBSET (0..n) /\ numbers # {}
  BY <1>1
<1>5. PICK k \in numbers : \A m \in numbers : m <= k
  <2> HIDE DEF numbers
  <2>1. QED  BY <1>4, GreatestNumber
<1>6. PICK r \in given : r.at = t /\ r.id = k
  OBVIOUS
<1>7. \A s \in given \ {r} : InServedOrder(s, r)
  <2>1. TAKE s \in given \ {r}
  <2>2. s.at <= r.at /\ s.id # r.id
    BY <1>3, <1>6 DEF Numbered
  <2>3. s.at = r.at => s.id <= r.id
    BY <1>5, <1>6
  <2>4. /\ s.at \in Nat /\ r.at \in Nat /\ s.id \in Nat /\ r.id \in Nat
    BY <1>1, AnswerAssumption
  <2>5. QED  BY <2>2, <2>3, <2>4 DEF InServedOrder
<1>8. QED  BY <1>6, <1>7 DEF LastOf

\* Only one row is read last.
LEMMA LastIsOne ==
  ASSUME NEW n \in Nat, NEW given, Numbered(given, n),
         NEW r \in given, \A s \in given \ {r} : InServedOrder(s, r)
  PROVE  LastOf(given) = r
<1> DEFINE l == LastOf(given)
<1>1. l \in given /\ \A s \in given \ {l} : InServedOrder(s, l)
  BY LastIsLast
<1> HIDE DEF l
<1>2. l.at \in Nat /\ r.at \in Nat /\ l.id \in Nat /\ r.id \in Nat
  BY <1>1, AnswerAssumption DEF Numbered, CorrectionRows
<1>3. l # r => InServedOrder(r, l) /\ InServedOrder(l, r)
  BY <1>1
<1>4. QED  BY <1>2, <1>3 DEF InServedOrder, l

\* Fewer rows are numbered too.
LEMMA FewerAreNumbered ==
  ASSUME NEW n \in Nat, NEW given, Numbered(given, n), NEW some \in SUBSET given
  PROVE  Numbered(some, n)
  BY DEF Numbered

\* The row that is read last is the last of its field ...
LEMMA LastOfItsField ==
  ASSUME NEW n \in Nat, NEW given, Numbered(given, n), given # {}
  PROVE  /\ LastOf(given) \in Own(given, LastOf(given).field)
         /\ LastOf(Own(given, LastOf(given).field)) = LastOf(given)
<1> DEFINE r == LastOf(given)
           own == Own(given, r.field)
<1>1. r \in given /\ \A s \in given \ {r} : InServedOrder(s, r)
  BY LastIsLast
<1> HIDE DEF r
<1>2. r \in own /\ own \in SUBSET given
  BY <1>1 DEF Own
<1>3. Numbered(own, n)
  BY <1>2, FewerAreNumbered
<1>4. \A s \in own \ {r} : InServedOrder(s, r)
  BY <1>1, <1>2
<1> HIDE DEF own
<1>5. LastOf(own) = r
  BY <1>2, <1>3, <1>4, LastIsOne
<1>6. QED  BY <1>2, <1>5 DEF own, r

\* ... and the other fields do not have it.
LEMMA OthersDoNotHaveIt ==
  ASSUME NEW given, NEW r, NEW x, r.field # x
  PROVE  Own(given \ {r}, x) = Own(given, x)
  BY DEF Own

-----------------------------------------------------------------------------
(* What applying the rows in turn comes to                                 *)

\* The last word on a field.
LastWord(given, x) ==
  IF Own(given, x) = {} THEN submitted[x] ELSE LastOf(Own(given, x)).corrected

Body(given) == [x \in Editable |-> LastWord(given, x)]

\* One row more, read last, is one replacement more.
LEMMA OneMore ==
  ASSUME NEW n \in Nat, NEW given, Numbered(given, n), given # {}
  PROVE  Body(given) = Replaced(Body(given \ {LastOf(given)}), LastOf(given))
<1> DEFINE r == LastOf(given)
           rest == given \ {r}
<1>1. /\ r \in given
      /\ r \in Own(given, r.field)
      /\ LastOf(Own(given, r.field)) = r
  BY LastIsLast, LastOfItsField
<1> HIDE DEF r
<1>2. r.field \in Editable
  BY <1>1 DEF Numbered, CorrectionRows
<1>3. LastWord(given, r.field) = r.corrected
  BY <1>1 DEF LastWord
<1>4. \A x \in Editable : x # r.field => LastWord(given, x) = LastWord(rest, x)
  BY OthersDoNotHaveIt DEF LastWord
<1>5. Replaced(Body(rest), r) = [Body(rest) EXCEPT ![r.field] = r.corrected]
  BY <1>2 DEF Replaced
<1>6. Body(given) = [Body(rest) EXCEPT ![r.field] = r.corrected]
  BY <1>2, <1>3, <1>4 DEF Body
<1>7. QED  BY <1>5, <1>6 DEF r

\* The step of applyCorrections(), as an equation for the bodies of all sets of
\* rows.
Applies(served, given) ==
  served = [read \in SUBSET given |->
              IF read = {} THEN submitted
              ELSE Replaced(served[read \ {LastOf(read)}], LastOf(read))]

\* There is a solution ...
LEMMA BodiesApply ==
  ASSUME NEW n \in Nat, NEW given, Numbered(given, n)
  PROVE  Applies([read \in SUBSET given |-> Body(read)], given)
<1> DEFINE served == [read \in SUBSET given |-> Body(read)]
<1>1. Body({}) = submitted
  BY DEF Body, LastWord, Own, submitted
<1>2. \A read \in SUBSET given :
        read # {} => served[read] = Replaced(served[read \ {LastOf(read)}], LastOf(read))
  <2>1. TAKE read \in SUBSET given
  <2>2. HAVE read # {}
  <2>3. Numbered(read, n)  BY FewerAreNumbered
  <2>4. Body(read) = Replaced(Body(read \ {LastOf(read)}), LastOf(read))
    BY <2>2, <2>3, OneMore
  <2>5. QED  BY <2>4
<1>3. \A read \in SUBSET given :
        served[read] = IF read = {} THEN submitted
                       ELSE Replaced(served[read \ {LastOf(read)}], LastOf(read))
  BY <1>1, <1>2
<1>4. QED  BY <1>3 DEF Applies

\* ... and no other: of the sets of rows for which two differ there would be a
\* smallest.
LEMMA OneSolution ==
  ASSUME NEW n \in Nat, NEW given, Numbered(given, n), IsFiniteSet(given),
         NEW served, Applies(served, given)
  PROVE  served[given] = Body(given)
<1> DEFINE wrong == {read \in SUBSET given : served[read] # Body(read)}
           sizes == {Cardinality(read) : read \in wrong}
<1>1. \A read \in SUBSET given : IsFiniteSet(read) /\ Cardinality(read) \in Nat
  BY FS_Subset, FS_CardinalityType
<1>2. SUFFICES ASSUME wrong # {} PROVE FALSE
  OBVIOUS
<1>3. sizes \in SUBSET Nat /\ sizes # {}
  BY <1>1, <1>2
<1>4. PICK least \in sizes : \A k \in sizes : least <= k
  <2> HIDE DEF sizes
  <2>1. QED  BY <1>3, LeastNumber
<1>5. PICK read \in wrong : Cardinality(read) = least
  OBVIOUS
<1>6. Body({}) = submitted
  BY DEF Body, LastWord, Own, submitted
<1>7. served[read] = IF read = {} THEN submitted
                     ELSE Replaced(served[read \ {LastOf(read)}], LastOf(read))
  BY <1>5 DEF Applies
<1>8. read # {}
  BY <1>5, <1>6, <1>7
<1> DEFINE rest == read \ {LastOf(read)}
<1>9. Numbered(read, n)
  BY <1>5, FewerAreNumbered
<1>10. LastOf(read) \in read
  BY <1>8, <1>9, LastIsLast
<1>11. Cardinality(rest) < Cardinality(read)
  <2>1. Cardinality(rest) = Cardinality(read) - 1
    BY <1>1, <1>5, <1>10, FS_RemoveElement
  <2>2. Cardinality(read) \in Nat  BY <1>1, <1>5
  <2>3. QED  BY <2>1, <2>2
<1>12. served[rest] = Body(rest)
  <2>1. rest \in SUBSET given  BY <1>5
  <2>2. Cardinality(rest) \in Nat /\ Cardinality(read) \in Nat  BY <1>1, <1>5, <2>1
  <2>3. rest \notin wrong  BY <1>4, <1>5, <1>11, <2>2
  <2>4. QED  BY <2>1, <2>3
<1>13. served[read] = Body(read)
  BY <1>7, <1>8, <1>9, <1>12, OneMore
<1>14. QED  BY <1>5, <1>13

\* So what is served is the last word on each field.
LEMMA ServedIsTheLastWord ==
  ASSUME NEW n \in Nat, NEW given, Numbered(given, n), IsFiniteSet(given)
  PROVE  Served(given) = Body(given)
<1> DEFINE replay == CHOOSE served : Applies(served, given)
<1>1. Applies(replay, given)
  BY BodiesApply
<1>2. Served(given) = replay[given]
  BY DEF Served, applyCorrections, Applies
<1> HIDE DEF replay
<1>3. QED  BY <1>1, <1>2, OneSolution

-----------------------------------------------------------------------------
(* The invariant of corrections                                            *)

\* Numbered rows are as many as there are numbers at most.
LEMMA NumberedIsFinite ==
  ASSUME NEW n \in Nat, NEW given, Numbered(given, n)
  PROVE  IsFiniteSet(given)
<1> DEFINE number == [r \in given |-> r.id]
<1>1. number \in Injection(given, 1..n)
  BY DEF Numbered, Injection, IsInjective
<1>2. IsFiniteSet(1..n)  BY FS_Interval
<1>3. QED  BY <1>1, <1>2, FS_Injection

\* The revision of a field, over some rows.
Revision(given, x) ==
  IF Own(given, x) = {} THEN 0 ELSE LastOf(Own(given, x)).id

Forms ==
  [at : {"form"}, field : Editable, revision : Nat]

Confirmed ==
  [at : {"confirmed"}, field : Editable, revision : Nat, text : Words \cup {Blank}]

Writing ==
  [at : {"writing"}, field : Editable, revision : Nat, text : Words \cup {Blank},
   original : Values]

Deciding ==
  [at : {"deciding"}, field : Questions, text : Words, original : Values]

Desks == {Idle} \cup Forms \cup Confirmed \cup Writing \cup Deciding

AnswerTypes ==
  /\ rows \in Seq(CorrectionRows)
  /\ clock \in 0..MaxClock
  /\ setBacks \in Nat
  /\ desk \in [People -> Desks]

\* insertCorrection(): a row's number is its place.
RowsAreNumbered == \A i \in 1..Len(rows) : rows[i].id = i

\* A decision is never empty.
DecisionsSaySomething ==
  \A i \in 1..Len(rows) : rows[i].field \in Questions => rows[i].corrected # Blank

\* While nobody sets the clock back, rows are read in the order of their numbers.
TimesFollow ==
  setBacks = 0 =>
    \A i \in 1..Len(rows) :
      /\ rows[i].at <= clock
      /\ \A j \in 1..Len(rows) : i < j => rows[i].at <= rows[j].at

\* Who is about to write knows what is served, unless the revision moved; and a
\* revision that has moved never comes back.
Knows(d, given, n) ==
  /\ d.at \in {"form", "confirmed", "writing"} => d.revision <= n
  /\ d.at = "writing" =>
       /\ d.field \in Questions => d.text # Blank
       /\ Revision(given, d.field) = d.revision =>
            d.original = LastWord(given, d.field)

AnswerInv ==
  /\ AnswerTypes
  /\ RowsAreNumbered
  /\ DecisionsSaySomething
  /\ TimesFollow
  /\ \A p \in People : Knows(desk[p], Rows, Len(rows))
  /\ OriginalIsWhatWasServed

-----------------------------------------------------------------------------
(* What the rows say                                                       *)

\* The rows of the invariant are numbered rows.
LEMMA TheRows ==
  ASSUME AnswerTypes, RowsAreNumbered
  PROVE  /\ Len(rows) \in Nat /\ DOMAIN rows = 1..Len(rows)
         /\ \A i \in 1..Len(rows) : rows[i] \in CorrectionRows /\ rows[i] \in Rows
         /\ \A r \in Rows : \E i \in 1..Len(rows) : r = rows[i]
         /\ Numbered(Rows, Len(rows)) /\ IsFiniteSet(Rows)
<1>1. Len(rows) \in Nat /\ DOMAIN rows = 1..Len(rows)
      /\ \A i \in 1..Len(rows) : rows[i] \in CorrectionRows
  BY DEF AnswerTypes
<1>2. \A i \in 1..Len(rows) : rows[i] \in Rows
  BY <1>1 DEF Rows
<1>3. \A r \in Rows : \E i \in 1..Len(rows) : r = rows[i]
  BY <1>1 DEF Rows
<1>4. Numbered(Rows, Len(rows))
  <2>1. Rows \subseteq CorrectionRows  BY <1>1, <1>3
  <2>2. \A r \in Rows : r.id \in 1..Len(rows) /\ r = rows[r.id]
    BY <1>3 DEF RowsAreNumbered
  <2>3. QED  BY <2>1, <2>2 DEF Numbered
<1>5. IsFiniteSet(Rows)
  BY <1>1, <1>4, NumberedIsFinite
<1>6. QED  BY <1>1, <1>2, <1>3, <1>4, <1>5

\* What the model reads of the rows, in the words of the lemmas.
LEMMA WhatIsRead ==
  ASSUME AnswerTypes, RowsAreNumbered
  PROVE  /\ effective = Body(Rows)
         /\ \A x : revisionOf(x) = Revision(Rows, x)
<1>1. Served(Rows) = Body(Rows)
  BY TheRows, ServedIsTheLastWord
<1>2. \A x : revisionOf(x) = Revision(Rows, x)
  BY DEF revisionOf, Revision, Own
<1>3. QED  BY <1>1, <1>2 DEF effective

\* A field's revision is a number of a row, and its last word a value.
LEMMA RevisionFits ==
  ASSUME NEW n \in Nat, NEW given, Numbered(given, n), NEW x \in Editable
  PROVE  /\ Revision(given, x) \in 0..n
         /\ LastWord(given, x) \in Values
<1> DEFINE own == Own(given, x)
<1>1. own \in SUBSET given /\ Numbered(own, n)
  BY FewerAreNumbered DEF Own
<1>2. CASE own = {}
  BY <1>2, AnswerAssumption DEF Revision, LastWord, submitted, Editable, Values
<1>3. CASE own # {}
  <2>1. LastOf(own) \in own  BY <1>1, <1>3, LastIsLast
  <2>2. LastOf(own) \in CorrectionRows /\ LastOf(own).id \in 1..n
    BY <1>1, <2>1 DEF Numbered
  <2>3. QED  BY <1>3, <2>2 DEF Revision, LastWord, CorrectionRows, Values
<1>4. QED  BY <1>2, <1>3

\* A new row is the last word on its field and its revision, or changes neither;
\* it never touches another field.
LEMMA OneRowMore ==
  ASSUME NEW n \in Nat, NEW given, Numbered(given, n),
         NEW new \in CorrectionRows, new.id = n + 1
  PROVE  /\ Numbered(given \cup {new}, n + 1)
         /\ \A x \in Editable :
              \/ Revision(given \cup {new}, x) = n + 1
              \/ /\ Revision(given \cup {new}, x) = Revision(given, x)
                 /\ LastWord(given \cup {new}, x) = LastWord(given, x)
<1> DEFINE more == given \cup {new}
<1>1. Numbered(more, n + 1)
  BY DEF Numbered
<1>2. SUFFICES ASSUME NEW x \in Editable
               PROVE  \/ Revision(more, x) = n + 1
                      \/ /\ Revision(more, x) = Revision(given, x)
                         /\ LastWord(more, x) = LastWord(given, x)
  BY <1>1
<1>3. CASE new.field # x
  <2>1. Own(more, x) = Own(given, x)  BY <1>3 DEF Own
  <2>2. QED  BY <2>1 DEF Revision, LastWord
<1>4. CASE new.field = x
  <2> DEFINE own == Own(given, x)
             all == Own(more, x)
             l == LastOf(all)
  <2>1. all = own \cup {new} /\ all \in SUBSET more /\ own \in SUBSET given
    BY <1>4 DEF Own
  <2>2. Numbered(all, n + 1)
    <3> HIDE DEF all, more
    <3>1. n + 1 \in Nat  OBVIOUS
    <3>2. QED  BY <1>1, <2>1, <3>1, FewerAreNumbered
  <2>3. Numbered(own, n)  BY <2>1, FewerAreNumbered
  <2>4. l \in all /\ \A s \in all \ {l} : InServedOrder(s, l)
    <3> HIDE DEF all
    <3>1. n + 1 \in Nat /\ all # {}  BY <2>1
    <3>2. QED  BY <2>2, <3>1, LastIsLast
  <2> HIDE DEF l, own
  <2>5. CASE l = new
    BY <2>1, <2>5 DEF Revision, l
  <2>6. CASE l # new
    <3>1. l \in own /\ \A s \in own \ {l} : InServedOrder(s, l)
      BY <2>1, <2>4, <2>6
    <3>2. LastOf(own) = l  BY <2>3, <3>1, LastIsOne
    <3>3. QED  BY <2>1, <3>1, <3>2 DEF Revision, LastWord, l, own
  <2>7. QED  BY <2>5, <2>6
<1>5. QED  BY <1>3, <1>4

-----------------------------------------------------------------------------
(* Each step keeps the invariant                                           *)

\* What is on a desk, by what its owner is at.
LEMMA AtTheDesk ==
  ASSUME NEW d \in Desks
  PROVE  /\ d.at = "form" => d \in Forms
         /\ d.at = "confirmed" => d \in Confirmed
         /\ d.at = "writing" => d \in Writing
         /\ d.at = "deciding" => d \in Deciding
  BY DEF Desks, Idle, Forms, Confirmed, Writing, Deciding

\* A person goes on, and no row is written.
LEMMA GoingOnKeeps ==
  ASSUME AnswerInv, NEW p \in People, NEW d \in Desks, Knows(d, Rows, Len(rows)),
         desk' = [desk EXCEPT ![p] = d], UNCHANGED <<rows, clock, setBacks>>
  PROVE  AnswerInv'
<1>1. Rows' = Rows  BY DEF Rows
<1>2. AnswerTypes'  BY DEF AnswerInv, AnswerTypes
<1>3. RowsAreNumbered' /\ DecisionsSaySomething' /\ TimesFollow'
  BY DEF AnswerInv, RowsAreNumbered, DecisionsSaySomething, TimesFollow
<1>4. \A q \in People : Knows(desk'[q], Rows', Len(rows'))
  <2>1. TAKE q \in People
  <2>2. desk'[q] = IF q = p THEN d ELSE desk[q]
    BY DEF AnswerInv, AnswerTypes
  <2>3. QED  BY <1>1, <2>2 DEF AnswerInv
<1>5. OriginalIsWhatWasServed'
  BY <1>1 DEF AnswerInv, OriginalIsWhatWasServed
<1>6. QED  BY <1>2, <1>3, <1>4, <1>5 DEF AnswerInv

\* A person leaves the desk.
LEMMA NobodyKnows ==
  ASSUME NEW given, NEW n
  PROVE  Idle \in Desks /\ Knows(Idle, given, n)
  BY DEF Idle, Desks, Knows

\* The row that is written next, by a person who then leaves the desk.
NextRow(row) ==
  /\ row \in CorrectionRows
  /\ row.id = Len(rows) + 1
  /\ row.at = clock
  /\ row.field \in Questions => row.corrected # Blank
  /\ row.guarded = TRUE => row.original = LastWord(Rows, row.field)
  /\ rows' = Append(rows, row)

LEMMA WritingKeeps ==
  ASSUME AnswerInv, NEW p \in People, NEW row, NextRow(row),
         desk' = [desk EXCEPT ![p] = Idle], UNCHANGED <<clock, setBacks>>
  PROVE  AnswerInv'
<1> DEFINE n == Len(rows)
<1>1. /\ AnswerTypes /\ RowsAreNumbered /\ DecisionsSaySomething /\ TimesFollow
      /\ \A q \in People : Knows(desk[q], Rows, n) /\ OriginalIsWhatWasServed
  BY DEF AnswerInv
<1>2. /\ n \in Nat /\ Numbered(Rows, n) /\ IsFiniteSet(Rows)
      /\ \A r \in Rows : \E i \in 1..n : r = rows[i]
      /\ \A i \in 1..n : rows[i] \in Rows /\ rows[i] \in CorrectionRows
  BY <1>1, TheRows
<1>3. row \in CorrectionRows /\ row.id = n + 1 /\ row.at = clock
      /\ rows' = Append(rows, row)
  BY DEF NextRow
<1>4. /\ rows' \in Seq(CorrectionRows) /\ Len(rows') = n + 1
      /\ \A i \in 1..n : rows'[i] = rows[i]
      /\ rows'[n + 1] = row
      /\ DOMAIN rows' = 1..(n + 1)
  <2>1. rows \in Seq(CorrectionRows)  BY <1>1 DEF AnswerTypes
  <2>2. QED  BY <1>3, <2>1
<1>5. Rows' = Rows \cup {row}
  <2>1. \A r \in Rows' : r \in Rows \cup {row}
    <3>1. TAKE r \in Rows'
    <3>2. PICK i \in 1..(n + 1) : r = rows'[i]  BY <1>4 DEF Rows
    <3>3. i \in 1..n \/ i = n + 1  BY <1>2
    <3>4. QED  BY <1>2, <1>4, <3>2, <3>3
  <2>2. \A r \in Rows : r \in Rows'
    <3>1. TAKE r \in Rows
    <3>2. PICK i \in 1..n : r = rows[i]  BY <1>2
    <3>3. r = rows'[i] /\ i \in 1..(n + 1)  BY <1>2, <1>4, <3>2
    <3>4. QED  BY <1>4, <3>3 DEF Rows
  <2>3. row \in Rows'
    <3>1. n + 1 \in 1..(n + 1)  BY <1>2
    <3>2. QED  BY <1>4, <3>1 DEF Rows
  <2>4. QED  BY <2>1, <2>2, <2>3
<1> HIDE DEF n
<1>6. AnswerTypes'
  <2>1. Idle \in Desks  BY NobodyKnows
  <2>2. desk' \in [People -> Desks]  BY <1>1, <2>1 DEF AnswerTypes
  <2>3. QED  BY <1>1, <1>4, <2>2 DEF AnswerTypes
<1>7. \A i \in 1..(n + 1) : i \in 1..n \/ i = n + 1
  BY <1>2
<1>8. RowsAreNumbered'
  BY <1>1, <1>3, <1>4, <1>7 DEF RowsAreNumbered, n
<1>9. DecisionsSaySomething'
  BY <1>1, <1>3, <1>4, <1>7 DEF DecisionsSaySomething, NextRow, n
<1>10. TimesFollow'
  <2> SUFFICES ASSUME setBacks = 0, NEW i \in 1..(n + 1)
               PROVE  /\ rows'[i].at <= clock
                      /\ \A j \in 1..(n + 1) : i < j => rows'[i].at <= rows'[j].at
    BY <1>4 DEF TimesFollow
  <2>1. clock \in Nat  BY <1>1, AnswerAssumption DEF AnswerTypes
  <2>2. \A k \in 1..n : /\ rows'[k] = rows[k] /\ rows[k].at <= clock
                        /\ \A j \in 1..n : k < j => rows[k].at <= rows[j].at
    BY <1>1, <1>4 DEF TimesFollow, n
  <2>3. rows'[n + 1].at = clock  BY <1>3, <1>4
  <2>4. CASE i \in 1..n
    <3>1. \A j \in 1..(n + 1) : i < j => rows'[i].at <= rows'[j].at
      BY <1>7, <2>2, <2>3, <2>4
    <3>2. QED  BY <2>2, <2>4, <3>1
  <2>5. CASE i = n + 1
    <3>1. \A j \in 1..(n + 1) : ~(i < j)  BY <1>2, <2>5
    <3>2. rows'[i].at <= clock  BY <2>1, <2>3, <2>5
    <3>3. QED  BY <3>1, <3>2
  <2>6. QED  BY <1>7, <2>4, <2>5
<1>11. \A q \in People : Knows(desk'[q], Rows', n + 1)
  <2>1. TAKE q \in People
  <2>2. CASE q = p
    <3>1. desk'[q] = Idle  BY <1>1, <2>2 DEF AnswerTypes
    <3>2. QED  BY <3>1, NobodyKnows
  <2>3. CASE q # p
    <3> DEFINE d == desk[q]
    <3>1. desk'[q] = d /\ d \in Desks  BY <1>1, <2>3 DEF AnswerTypes
    <3>2. Knows(d, Rows, n)  BY <1>1 DEF n
    <3> HIDE DEF d
    <3>3. d.at \in {"form", "confirmed", "writing"} => d.revision <= n + 1
      <4>1. d.at \in {"form", "confirmed", "writing"} => d.revision \in Nat
        BY <3>1, AtTheDesk DEF Forms, Confirmed, Writing
      <4>2. QED  BY <1>2, <3>2, <4>1 DEF Knows
    <3>4. ASSUME d.at = "writing"
          PROVE  /\ d.field \in Questions => d.text # Blank
                 /\ Revision(Rows', d.field) = d.revision =>
                      d.original = LastWord(Rows', d.field)
      <4>1. d.field \in Editable /\ d.revision \in Nat /\ d.revision <= n
        BY <3>1, <3>2, <3>4, AtTheDesk DEF Writing, Knows
      <4>2. \/ Revision(Rows', d.field) = n + 1
            \/ /\ Revision(Rows', d.field) = Revision(Rows, d.field)
               /\ LastWord(Rows', d.field) = LastWord(Rows, d.field)
        BY <1>2, <1>3, <1>5, <4>1, OneRowMore
      <4>3. d.revision # n + 1  BY <1>2, <4>1
      <4>4. QED  BY <3>2, <3>4, <4>2, <4>3 DEF Knows
    <3>5. QED  BY <3>1, <3>3, <3>4 DEF Knows
  <2>4. QED  BY <2>2, <2>3
<1>12. OriginalIsWhatWasServed'
  <2> SUFFICES ASSUME NEW r \in Rows', r.guarded
               PROVE  r.original = Served({s \in Rows' : s.id < r.id})[r.field]
    BY DEF OriginalIsWhatWasServed
  <2>1. \A s \in Rows : s.id \in Nat /\ s.id < n + 1
    BY <1>2 DEF Numbered
  <2>2. CASE r \in Rows
    <3>1. r.id \in Nat /\ r.id < n + 1  BY <2>1, <2>2
    <3>2. {s \in Rows' : s.id < r.id} = {s \in Rows : s.id < r.id}
      BY <1>2, <1>3, <1>5, <3>1
    <3>3. QED  BY <1>1, <2>2, <3>2 DEF OriginalIsWhatWasServed
  <2>3. CASE r = row
    <3>1. {s \in Rows' : s.id < r.id} = Rows
      BY <1>2, <1>3, <1>5, <2>1, <2>3
    <3>2. Served(Rows) = Body(Rows)
      BY <1>2, ServedIsTheLastWord
    <3>3. r.field \in Editable /\ r.guarded = TRUE
      BY <1>3, <2>3 DEF CorrectionRows
    <3>4. r.original = LastWord(Rows, r.field)
      BY <2>3, <3>3 DEF NextRow
    <3>5. QED  BY <3>1, <3>2, <3>3, <3>4 DEF Body
  <2>4. QED  BY <1>5, <2>2, <2>3
<1>13. \A q \in People : Knows(desk'[q], Rows', Len(rows'))
  BY <1>4, <1>11
<1>14. QED  BY <1>6, <1>8, <1>9, <1>10, <1>12, <1>13 DEF AnswerInv

\* The first state: the submitted body alone.
LEMMA AnswerStarts == AnswerInit => AnswerInv
<1> SUFFICES ASSUME AnswerInit PROVE AnswerInv  OBVIOUS
<1>1. /\ rows = <<>> /\ Len(rows) = 0 /\ 1..Len(rows) = {} /\ Rows = {}
      /\ clock = 0 /\ setBacks = 0
  BY DEF AnswerInit, Rows
<1>2. \A p \in People : desk[p] = Idle  BY DEF AnswerInit
<1>3. AnswerTypes
  <2>1. desk \in [People -> Desks]  BY NobodyKnows DEF AnswerInit
  <2>2. QED  BY <1>1, <2>1, AnswerAssumption DEF AnswerTypes
<1>4. RowsAreNumbered /\ DecisionsSaySomething /\ TimesFollow
  BY <1>1 DEF RowsAreNumbered, DecisionsSaySomething, TimesFollow
<1>5. \A p \in People : Knows(desk[p], Rows, Len(rows))
  BY <1>2, NobodyKnows
<1>6. OriginalIsWhatWasServed  BY <1>1 DEF OriginalIsWhatWasServed
<1>7. QED  BY <1>3, <1>4, <1>5, <1>6 DEF AnswerInv

\* The page of a field, with its revision.
LEMMA OpenFormKeeps ==
  ASSUME AnswerInv, NEW p \in People, NEW x \in Editable, OpenForm(p, x)
  PROVE  AnswerInv'
<1> DEFINE d == [at |-> "form", field |-> x, revision |-> revisionOf(x)]
<1>1. desk' = [desk EXCEPT ![p] = d] /\ UNCHANGED <<rows, clock, setBacks>>
  BY DEF OpenForm
<1>2. revisionOf(x) \in Nat /\ revisionOf(x) <= Len(rows)
  BY TheRows, WhatIsRead, RevisionFits DEF AnswerInv
<1>3. d \in Desks  BY <1>2 DEF Desks, Forms
<1>4. Knows(d, Rows, Len(rows))  BY <1>2 DEF Knows
<1> HIDE DEF d
<1>5. QED  BY <1>1, <1>3, <1>4, GoingOnKeeps

\* A text is confirmed, or refused.
LEMMA ConfirmKeeps ==
  ASSUME AnswerInv, NEW p \in People, NEW text \in Words \cup {Blank}, Confirm(p, text)
  PROVE  AnswerInv'
<1> DEFINE c == [at |-> "confirmed", field |-> desk[p].field,
                 revision |-> desk[p].revision, text |-> text]
           d == IF Passes(desk[p], text) THEN c ELSE Idle
<1>1. desk' = [desk EXCEPT ![p] = d] /\ UNCHANGED <<rows, clock, setBacks>>
      /\ desk[p].at = "form"
  BY DEF Confirm
<1>2. desk[p] \in Forms /\ Knows(desk[p], Rows, Len(rows))
  BY <1>1, AtTheDesk DEF AnswerInv, AnswerTypes
<1>3. c \in Desks  BY <1>2 DEF Desks, Forms, Confirmed
<1>4. Knows(c, Rows, Len(rows))  BY <1>1, <1>2 DEF Knows
<1> HIDE DEF c
<1>5. d \in Desks /\ Knows(d, Rows, Len(rows))
  BY <1>3, <1>4, NobodyKnows
<1> HIDE DEF d
<1>6. QED  BY <1>1, <1>5, GoingOnKeeps

\* decideQuestion() and correctAnswer() read what they will replace.
LEMMA ReadAgainKeeps ==
  ASSUME AnswerInv, NEW p \in People, ReadAgain(p)
  PROVE  AnswerInv'
<1> DEFINE b == desk[p]
           refused == \/ b.field \in Questions /\ b.text = Blank
                      \/ b.field \in Prose /\ ~Passes(b, b.text)
           w == [at |-> "writing", field |-> b.field, revision |-> b.revision,
                 text |-> b.text, original |-> effective[b.field]]
           d == IF refused THEN Idle ELSE w
<1>1. desk' = [desk EXCEPT ![p] = d] /\ UNCHANGED <<rows, clock, setBacks>>
      /\ b.at = "confirmed"
  BY DEF ReadAgain
<1>2. b \in Confirmed /\ Knows(b, Rows, Len(rows))
  BY <1>1, AtTheDesk DEF AnswerInv, AnswerTypes
<1>3. effective[b.field] = LastWord(Rows, b.field) /\ LastWord(Rows, b.field) \in Values
  <2>1. b.field \in Editable  BY <1>2 DEF Confirmed
  <2> HIDE DEF b
  <2>2. effective[b.field] = LastWord(Rows, b.field)
    BY <2>1, WhatIsRead DEF AnswerInv, Body
  <2>3. LastWord(Rows, b.field) \in Values
    BY <2>1, TheRows, RevisionFits DEF AnswerInv
  <2>4. QED  BY <2>2, <2>3
<1>4. w \in Desks  BY <1>2, <1>3 DEF Desks, Confirmed, Writing
<1>5. ~refused => Knows(w, Rows, Len(rows))  BY <1>1, <1>2, <1>3 DEF Knows
<1> HIDE DEF w, refused
<1>6. d \in Desks /\ Knows(d, Rows, Len(rows))
  BY <1>4, <1>5, NobodyKnows
<1> HIDE DEF d
<1>7. QED  BY <1>1, <1>6, GoingOnKeeps

\* insertCorrectionIfRevision(): the row that is written replaces what is served.
LEMMA InsertIfRevisionKeeps ==
  ASSUME AnswerInv, NEW p \in People, InsertIfRevision(p)
  PROVE  AnswerInv'
<1> DEFINE d == desk[p]
           row == [id |-> Len(rows) + 1, field |-> d.field, original |-> d.original,
                   corrected |-> d.text, at |-> clock, guarded |-> TRUE]
<1>1. d \in Writing /\ Knows(d, Rows, Len(rows)) /\ d.at = "writing"
  BY AtTheDesk DEF InsertIfRevision, AnswerInv, AnswerTypes
<1>2. desk' = [desk EXCEPT ![p] = Idle] /\ UNCHANGED <<clock, setBacks>>
  BY DEF InsertIfRevision
<1>3. CASE revisionOf(d.field) = d.revision
  <2>1. rows' = Append(rows, row)
    BY <1>3 DEF InsertIfRevision, Insert
  <2>2. row \in CorrectionRows
    BY <1>1, TheRows DEF CorrectionRows, Writing, AnswerInv, AnswerTypes
  <2>3. Revision(Rows, d.field) = d.revision
    BY <1>3, WhatIsRead DEF AnswerInv
  <2>4. NextRow(row)
    BY <1>1, <2>1, <2>2, <2>3 DEF NextRow, Knows
  <2> HIDE DEF row
  <2>5. QED  BY <1>2, <2>4, WritingKeeps
<1>4. CASE revisionOf(d.field) # d.revision
  <2>1. UNCHANGED rows  BY <1>4 DEF InsertIfRevision
  <2>2. QED  BY <1>2, <2>1, NobodyKnows, GoingOnKeeps
<1>5. QED  BY <1>3, <1>4

\* `veriflow decide` reads the answer ...
LEMMA BeginDecideKeeps ==
  ASSUME AnswerInv, NEW p \in People, NEW q, NEW text \in Words \cup {Blank},
         BeginDecide(p, q, text)
  PROVE  AnswerInv'
<1> DEFINE d == [at |-> "deciding", field |-> q, text |-> text, original |-> effective[q]]
<1>1. desk' = [desk EXCEPT ![p] = d] /\ UNCHANGED <<rows, clock, setBacks>>
      /\ q \in Questions /\ text \in Words
  BY DEF BeginDecide
<1>2. effective[q] \in Values
  <2>1. q \in Editable  BY <1>1 DEF Editable
  <2>2. LastWord(Rows, q) \in Values  BY <2>1, TheRows, RevisionFits DEF AnswerInv
  <2>3. QED  BY <2>1, <2>2, WhatIsRead DEF AnswerInv, Body
<1>3. d \in Desks /\ Knows(d, Rows, Len(rows))
  BY <1>1, <1>2 DEF Desks, Deciding, Knows
<1> HIDE DEF d
<1>4. QED  BY <1>1, <1>3, GoingOnKeeps

\* ... and writes the decision.
LEMMA DecideKeeps ==
  ASSUME AnswerInv, NEW p \in People, Decide(p)
  PROVE  AnswerInv'
<1> DEFINE d == desk[p]
           row == [id |-> Len(rows) + 1, field |-> d.field, original |-> d.original,
                   corrected |-> d.text, at |-> clock, guarded |-> FALSE]
<1>1. d \in Deciding
  BY AtTheDesk DEF Decide, AnswerInv, AnswerTypes
<1>2. desk' = [desk EXCEPT ![p] = Idle] /\ UNCHANGED <<clock, setBacks>>
  BY DEF Decide
<1>3. rows' = Append(rows, row)
  BY DEF Decide, Insert
<1>4. row \in CorrectionRows
  BY <1>1, TheRows DEF CorrectionRows, Deciding, Editable, AnswerInv, AnswerTypes
<1>5. NextRow(row)
  BY <1>1, <1>3, <1>4, AnswerAssumption DEF NextRow, Deciding
<1> HIDE DEF row
<1>6. QED  BY <1>2, <1>5, WritingKeeps

\* The clock runs, and is set back.
LEMMA ClockKeeps ==
  ASSUME AnswerInv, Tick \/ SetBack
  PROVE  AnswerInv'
<1>1. UNCHANGED <<rows, desk>> /\ Rows' = Rows  BY DEF Tick, SetBack, Rows
<1>2. clock \in Nat /\ MaxClock \in Nat /\ clock <= MaxClock
  BY AnswerAssumption DEF AnswerInv, AnswerTypes
<1>3. clock' \in 0..MaxClock /\ setBacks' \in Nat /\ (setBacks' = 0 => setBacks = 0 /\ clock' = clock + 1)
  BY <1>2 DEF Tick, SetBack, AnswerInv, AnswerTypes
<1>4. AnswerTypes'  BY <1>1, <1>3 DEF AnswerInv, AnswerTypes
<1>5. TimesFollow'
  <2> SUFFICES ASSUME setBacks' = 0, NEW i \in 1..Len(rows)
               PROVE  /\ rows[i].at <= clock'
                      /\ \A j \in 1..Len(rows) : i < j => rows[i].at <= rows[j].at
    BY <1>1 DEF TimesFollow
  <2>1. rows[i].at \in Nat
    BY TheRows, AnswerAssumption DEF AnswerInv, CorrectionRows
  <2>2. /\ rows[i].at <= clock
        /\ \A j \in 1..Len(rows) : i < j => rows[i].at <= rows[j].at
    BY <1>3 DEF AnswerInv, TimesFollow
  <2>3. QED  BY <1>2, <1>3, <2>1, <2>2
<1>6. QED
  BY <1>1, <1>4, <1>5 DEF AnswerInv, RowsAreNumbered, DecisionsSaySomething,
                          OriginalIsWhatWasServed

\* In every reachable state the rows say truthfully what they replaced, and who
\* is about to write knows whether the revision moved.
THEOREM AnswerInvariance == AnswerSpec => []AnswerInv
<1>1. ASSUME AnswerInv, [AnswerNext]_answerVars PROVE AnswerInv'
  <2>1. CASE UNCHANGED answerVars
    <3>1. Rows' = Rows /\ UNCHANGED <<rows, clock, setBacks, desk>>
      BY <2>1 DEF answerVars, Rows
    <3>2. QED
      BY <1>1, <3>1 DEF AnswerInv, AnswerTypes, RowsAreNumbered, DecisionsSaySomething,
                        TimesFollow, OriginalIsWhatWasServed
  <2>2. ASSUME NEW p \in People, Leave(p) PROVE AnswerInv'
    BY <1>1, <2>2, NobodyKnows, GoingOnKeeps DEF Leave
  <2>3. CASE AnswerNext
    BY <1>1, <2>2, <2>3, OpenFormKeeps, ConfirmKeeps, ReadAgainKeeps, InsertIfRevisionKeeps,
       BeginDecideKeeps, DecideKeeps, ClockKeeps
    DEF AnswerNext
  <2>4. QED  BY <1>1, <2>1, <2>3
<1>2. QED  BY <1>1, AnswerStarts, PTL DEF AnswerSpec

\* A correction confirmed in the browser says truthfully what it replaced,
\* whoever wrote in between: correctAnswer() and decideQuestion() read, and
\* insertCorrectionIfRevision() writes only if nobody wrote since.
THEOREM CorrectionsAreTruthful == AnswerSpec => []OriginalIsWhatWasServed
<1>1. AnswerInv => OriginalIsWhatWasServed  BY DEF AnswerInv
<1>2. QED  BY <1>1, AnswerInvariance, PTL

\* Unless the clock was set back the row written last is served.
LEMMA LastRow == AnswerInv => LastRowIsServed
<1> SUFFICES ASSUME AnswerInv, setBacks = 0, NEW i \in DOMAIN rows,
                    \A j \in DOMAIN rows : j > i => rows[j].field # rows[i].field
             PROVE  effective[rows[i].field] = rows[i].corrected
  BY DEF LastRowIsServed
<1> DEFINE r == rows[i]
           own == Own(Rows, r.field)
<1>1. /\ Len(rows) \in Nat /\ DOMAIN rows = 1..Len(rows)
      /\ \A k \in 1..Len(rows) : rows[k] \in CorrectionRows /\ rows[k] \in Rows
                                 /\ rows[k].id = k /\ rows[k].at \in Nat
      /\ \A s \in Rows : \E k \in 1..Len(rows) : s = rows[k]
      /\ Numbered(Rows, Len(rows))
  BY TheRows, AnswerAssumption DEF AnswerInv, RowsAreNumbered, CorrectionRows
<1>2. r \in own /\ own \in SUBSET Rows
  BY <1>1 DEF Own
<1>3. \A s \in own \ {r} : InServedOrder(s, r)
  <2>1. TAKE s \in own \ {r}
  <2>2. PICK k \in 1..Len(rows) : s = rows[k]  BY <1>1, <1>2
  <2>3. k # i /\ ~(k > i)  BY <1>1, <2>1, <2>2 DEF Own
  <2>4. k < i  BY <1>1, <2>3
  <2>5. s.at <= r.at  BY <1>1, <2>2, <2>4 DEF AnswerInv, TimesFollow
  <2>6. QED  BY <1>1, <2>2, <2>4, <2>5 DEF InServedOrder
<1>4. LastOf(own) = r
  <2> HIDE DEF own, r
  <2>1. Numbered(own, Len(rows))  BY <1>1, <1>2, FewerAreNumbered
  <2>2. QED  BY <1>1, <1>2, <1>3, <2>1, LastIsOne
<1>5. r.field \in Editable  BY <1>1 DEF CorrectionRows
<1>6. LastWord(Rows, r.field) = r.corrected
  BY <1>2, <1>4 DEF LastWord
<1>7. QED  BY <1>5, <1>6, WhatIsRead DEF AnswerInv, Body

\* The sizes of the three parts of a finite set.
LEMMA PartsAddUp ==
  ASSUME NEW whole, IsFiniteSet(whole), NEW part \in SUBSET whole,
         NEW one \in SUBSET whole, NEW other \in SUBSET whole,
         whole \ part = one \cup other, one \cap other = {}
  PROVE  /\ Cardinality(one) + Cardinality(other) = Cardinality(whole) - Cardinality(part)
         /\ Cardinality(one) \in Nat /\ Cardinality(other) \in Nat
         /\ Cardinality(part) \in Nat /\ Cardinality(whole) \in Nat
         /\ Cardinality(part) <= Cardinality(whole)
<1>1. /\ IsFiniteSet(part) /\ Cardinality(part) <= Cardinality(whole)
      /\ IsFiniteSet(one) /\ IsFiniteSet(other)
  BY FS_Subset
<1>2. /\ Cardinality(one) \in Nat /\ Cardinality(other) \in Nat
      /\ Cardinality(part) \in Nat /\ Cardinality(whole) \in Nat
  BY <1>1, FS_CardinalityType
<1>3. Cardinality(whole \cap part) = Cardinality(part)
  <2>1. whole \cap part = part  OBVIOUS
  <2>2. QED  BY <2>1, Zenon
<1>4. Cardinality(whole \ part) = Cardinality(whole) - Cardinality(whole \cap part)
  BY FS_Difference
<1>5. Cardinality(one \cup other)
        = Cardinality(one) + Cardinality(other) - Cardinality(one \cap other)
  BY <1>1, FS_Union
<1>6. Cardinality(one \cap other) = 0  BY FS_EmptySet
<1>7. Cardinality(whole \ part) = Cardinality(one \cup other)  BY Zenon
<1>8. QED  BY <1>1, <1>2, <1>3, <1>4, <1>5, <1>6, <1>7

\* A question is open until a row decides it, or was handed in decided.
LEMMA Counts == AnswerInv => CountsAgree
<1> DEFINE decided == {r.field : r \in {s \in Rows : s.field \notin Prose}}
           open == {q \in Questions : effective[q] = Blank}
           unasked == {q \in Questions : HandedIn[q] # Blank /\ revisionOf(q) = 0}
<1> SUFFICES ASSUME AnswerInv
             PROVE  undecidedInRow = undecidedQuestions + Cardinality(unasked)
  BY DEF CountsAgree
<1>1. /\ \A r \in Rows : r \in CorrectionRows /\ \E i \in 1..Len(rows) : r = rows[i]
      /\ Numbered(Rows, Len(rows)) /\ Len(rows) \in Nat
  BY TheRows DEF AnswerInv, Numbered
<1>2. decided \subseteq Questions
  BY <1>1 DEF CorrectionRows, Editable
<1>3. \A q \in Questions :
        /\ effective[q] = Blank <=> q \notin decided /\ HandedIn[q] = Blank
        /\ revisionOf(q) = 0 <=> q \notin decided
  <2>1. TAKE q \in Questions
  <2>2. q \in Editable /\ q \notin Prose  BY AnswerAssumption DEF Editable
  <2>3. effective[q] = LastWord(Rows, q) /\ revisionOf(q) = Revision(Rows, q)
    BY <2>2, WhatIsRead DEF AnswerInv, Body
  <2>4. CASE Own(Rows, q) = {}
    <3>1. effective[q] = HandedIn[q]  BY <2>2, <2>3, <2>4 DEF LastWord, submitted
    <3>2. q \notin decided  BY <2>4 DEF Own
    <3>3. revisionOf(q) = 0  BY <2>3, <2>4 DEF Revision
    <3>4. QED  BY <3>1, <3>2, <3>3
  <2>5. CASE Own(Rows, q) # {}
    <3> DEFINE l == LastOf(Own(Rows, q))
    <3>1. Own(Rows, q) \in SUBSET Rows  BY DEF Own
    <3>2. Numbered(Own(Rows, q), Len(rows))  BY <1>1, <3>1, FewerAreNumbered
    <3>3. l \in Own(Rows, q)  BY <1>1, <2>5, <3>2, LastIsLast
    <3>4. l \in Rows /\ l.field = q  BY <3>3 DEF Own
    <3>5. l.corrected # Blank  BY <1>1, <3>4 DEF AnswerInv, DecisionsSaySomething
    <3>6. effective[q] # Blank  BY <2>3, <2>5, <3>5 DEF LastWord
    <3>7. q \in decided  BY <2>2, <3>4
    <3>8. l.id \in 1..Len(rows)  BY <1>1, <3>4 DEF Numbered
    <3>9. revisionOf(q) # 0  BY <1>1, <2>3, <2>5, <3>8 DEF Revision
    <3>10. QED  BY <3>6, <3>7, <3>9
  <2>6. QED  BY <2>4, <2>5
<1>4. /\ Questions \ decided = open \cup unasked /\ open \cap unasked = {}
      /\ Questions \cap decided = decided
      /\ open \subseteq Questions /\ unasked \subseteq Questions
  BY <1>2, <1>3
<1>5. undecidedQuestions = Cardinality(open) /\ decidedInRow = Cardinality(decided)
  BY DEF undecidedQuestions, decidedInRow
<1> HIDE DEF decided, open, unasked
<1>6. /\ Cardinality(open) + Cardinality(unasked)
           = Cardinality(Questions) - Cardinality(decided)
      /\ Cardinality(open) \in Nat /\ Cardinality(unasked) \in Nat
      /\ Cardinality(decided) \in Nat /\ Cardinality(Questions) \in Nat
      /\ Cardinality(decided) <= Cardinality(Questions)
  BY <1>2, <1>4, PartsAddUp, AnswerAssumption
<1>7. QED  BY <1>5, <1>6 DEF undecidedInRow

\* What a reader is served is the current state of the answer: the last row on
\* each field, and in a list the number of questions that are open in it or
\* were closed by nobody but the agent that asked them.
THEOREM ReadersAreCurrent == AnswerSpec => []ServedIsCurrent
<1>1. AnswerInv => ServedIsCurrent  BY LastRow, Counts DEF ServedIsCurrent
<1>2. QED  BY <1>1, AnswerInvariance, PTL

-----------------------------------------------------------------------------
(* What a change does to cited evidence                                    *)

\* One citation of one changed file, and what is said of it.
ImpactInv ==
  /\ change.base \in Texts
  /\ change.hunks = {} \/ \E h \in Hunks(change.base) : change.hunks = {h}
  /\ change.cited.line \in Nat \ {0}
  /\ change.kind \in Kinds
  /\ impact \in {"not asked", changeImpact(change)}

LEMMA ImpactStarts ==
  ASSUME NEW bases \in SUBSET Texts, NEW origins \in SUBSET Texts, ImpactInit(bases, origins)
  PROVE  ImpactInv
<1>1. PICK c \in Cases(bases, origins), p \in {"here", "before"} :
        \E hs \in IF c.kind \in {"modified", "renamed"}
                  THEN {{h} : h \in Hunks(c.base)} ELSE {{}} :
          change = [kind |-> c.kind, base |-> c.base, atRef |-> c.atRef, hunks |-> hs,
                    cited |-> [path |-> p, line |-> c.line, symbol |-> c.symbol,
                               hash |-> c.origin[c.line]]]
  BY DEF ImpactInit
<1>2. c.base \in Texts /\ c.kind \in Kinds /\ c.line \in Nat \ {0}
  <2>1. \A n \in 1..MaxLength : n \in Nat \ {0}
    BY DEF Texts
  <2>2. QED  BY <2>1 DEF Cases
<1>3. PICK hs \in IF c.kind \in {"modified", "renamed"}
                  THEN {{h} : h \in Hunks(c.base)} ELSE {{}} :
        change = [kind |-> c.kind, base |-> c.base, atRef |-> c.atRef, hunks |-> hs,
                  cited |-> [path |-> p, line |-> c.line, symbol |-> c.symbol,
                             hash |-> c.origin[c.line]]]
  BY <1>1
<1>4. hs = {} \/ \E h \in Hunks(c.base) : hs = {h}
  BY <1>3
<1>5. impact = "not asked"  BY DEF ImpactInit
<1>6. QED  BY <1>2, <1>3, <1>4, <1>5 DEF ImpactInv

\* locate() answers with a line that is cited, if the text has one.
LEMMA LocatedInEvidence ==
  ASSUME NEW text \in Texts, NEW c, c.line \in Nat,
         \E i \in DOMAIN text : text[i] = c.hash
  PROVE  locate(text, c) \in {i \in DOMAIN text : text[i] = c.hash}
<1> DEFINE byHash == {i \in DOMAIN text : text[i] = c.hash}
<1>1. PICK n \in 1..MaxLength : text \in [1..n -> Lines]
  BY DEF Texts
<1>2. byHash \in SUBSET Nat /\ byHash # {}
  BY <1>1
<1>3. locate(text, c) = Nearest(byHash, c.line)
  BY <1>2 DEF locate
<1> HIDE DEF byHash
<1>4. Nearest(byHash, c.line) \in byHash
  BY <1>2, NearestIsAHit
<1>5. QED  BY <1>3, <1>4 DEF byHash

\* A hunk is counted in lines, and so is the evidence.
LEMMA LinesAreNumbers ==
  ASSUME ImpactInv
  PROVE  /\ \A h \in change.hunks : h.from \in Nat /\ h.count \in Nat
         /\ evidence \subseteq Nat
<1>1. change.base \in Texts /\ change.cited.line \in Nat
      /\ \A h \in change.hunks : h \in Hunks(change.base)
  BY DEF ImpactInv
<1>2. Len(change.base) \in Nat /\ DOMAIN change.base \subseteq Nat
  BY <1>1 DEF Texts
<1>3. \A h \in Hunks(change.base) :
        h.from \in 0..Len(change.base) /\ h.count \in 0..Len(change.base)
  BY DEF Hunks
<1>4. QED  BY <1>1, <1>2, <1>3 DEF evidence

\* The line a citation is placed at is one of its evidence, if it has a place.
LEMMA PlacedInEvidence ==
  ASSUME ImpactInv, evidence # {}
  PROVE  refLine(change) \in evidence \cup {0}
<1> DEFINE file == changedFile(change)
           path == IF file.was = "none" THEN file.path ELSE file.was
           before == atRefCopy(change, path)
<1>1. CASE change.atRef
  BY <1>1 DEF refLine, evidence
<1>2. CASE ~change.atRef
  <2>1. refLine(change) = IF before = Gone THEN 0 ELSE locate(before, change.cited)
    BY <1>2 DEF refLine
  <2>2. before \in {change.base, Gone}
    <3> HIDE DEF path
    <3>1. QED  BY DEF atRefCopy
  <2> HIDE DEF before
  <2>3. evidence = {i \in DOMAIN change.base : change.base[i] = change.cited.hash}
    BY <1>2 DEF evidence
  <2>4. change.base \in Texts /\ change.cited.line \in Nat
    BY DEF ImpactInv
  <2>5. locate(change.base, change.cited) \in evidence
    BY <2>3, <2>4, LocatedInEvidence
  <2>6. QED  BY <2>1, <2>2, <2>5
<1>3. QED  BY <1>1, <1>2

\* What is known of a case that has a citation of the changed file.
OfTheFile ==
  change.cited.path = IF change.kind \in {"renamed", "moved"} THEN "before" ELSE "here"

\* A citation of a file that is there before and after the change.
Placeable == OfTheFile /\ change.kind \notin {"added", "deleted"}

\* The lines of the base a hunk has to do with: an insertion is made between two.
Around(h) ==
  IF h.count = 0 THEN {IF h.from = 0 THEN 1 ELSE h.from, h.from + 1}
  ELSE h.from..(h.from + h.count - 1)

\* changeImpact(), of such a citation.
LEMMA ImpactOfPlace ==
  ASSUME ImpactInv, Placeable, NEW place \in Nat, place = refLine(change)
  PROVE  /\ place = 0 <=> changeImpact(change) = "unplaceable"
         /\ (place # 0 /\ \A h \in change.hunks : place \notin Around(h)) =>
              changeImpact(change) = "nearby"
         /\ (place # 0 /\ \E h \in change.hunks : place \in Around(h) /\ h.count > 0) =>
              changeImpact(change) = "hit"
<1> DEFINE file == changedFile(change)
           Shown(h) == [from |-> oldSpan(h).from, to |-> oldSpan(h).to, kind |-> kindOf(h)]
           met == {s \in file.hunks : place >= s.from /\ place <= s.to}
<1>1. /\ file.path = "here" /\ ~file.deleted
      /\ file.was = wasPath(change)
      /\ file.hunks = {Shown(h) : h \in change.hunks}
  BY DEF changedFile, Placeable
<1>2. change.kind \in {"renamed", "moved"} => wasPath(change) = "before"
  BY DEF wasPath
<1>3. change.cited.path \in {file.path, file.was} /\ ~isIntent(change.cited)
  BY <1>1, <1>2 DEF Placeable, OfTheFile, isIntent, ImpactInv
<1>4. changeImpact(change) = IF place = 0 THEN "unplaceable"
                             ELSE IF met = {} THEN "nearby"
                             ELSE IF \E s \in met : s.kind = "added" THEN "adjacent" ELSE "hit"
  <2> HIDE DEF Shown
  <2>1. QED  BY <1>1, <1>3 DEF changeImpact
<1>7. \A h \in change.hunks : h.from \in Nat /\ h.count \in Nat
  BY LinesAreNumbers
<1>8. ASSUME NEW h \in change.hunks
      PROVE  /\ (place >= Shown(h).from /\ place <= Shown(h).to) <=> place \in Around(h)
             /\ Shown(h).kind = "added" <=> h.count = 0
  <2>1. h.from \in Nat /\ h.count \in Nat
    BY <1>7
  <2>2. CASE h.count = 0
    BY <2>1, <2>2 DEF oldSpan, kindOf, Around
  <2>3. CASE h.count # 0
    BY <2>1, <2>3 DEF oldSpan, kindOf, Around
  <2>4. QED  BY <2>2, <2>3
<1>9. change.hunks = {} \/ \E h : change.hunks = {h}
  BY DEF ImpactInv
<1> HIDE DEF Shown
<1>10. CASE change.hunks = {}
  <2>1. met = {}
    BY <1>1, <1>10
  <2> HIDE DEF file
  <2>2. QED  BY <1>4, <1>10, <2>1
<1>11. ASSUME NEW h, change.hunks = {h}
       PROVE  /\ place \notin Around(h) => met = {}
              /\ place \in Around(h) => met = {Shown(h)}
  BY <1>1, <1>8, <1>11
<1>12. ASSUME NEW h, change.hunks = {h}
       PROVE  /\ place = 0 <=> changeImpact(change) = "unplaceable"
              /\ (place # 0 /\ place \notin Around(h)) => changeImpact(change) = "nearby"
              /\ (place # 0 /\ place \in Around(h) /\ h.count > 0) =>
                   changeImpact(change) = "hit"
  <2>1. h.count > 0 => Shown(h).kind # "added"
    BY <1>7, <1>8, <1>12
  <2>2. /\ place \notin Around(h) => met = {}
        /\ place \in Around(h) => met = {Shown(h)}
    BY <1>11, <1>12
  <2> HIDE DEF met
  <2>3. QED  BY <1>4, <2>1, <2>2
<1>13. QED  BY <1>9, <1>10, <1>12

\* A citation with evidence has a place among it, or none.
LEMMA EvidenceHasAPlace ==
  ASSUME ImpactInv, evidence # {}
  PROVE  \E place \in Nat : place = refLine(change) /\ place \in evidence \cup {0}
<1>1. evidence \subseteq Nat
  BY LinesAreNumbers
<1>2. PICK place \in evidence \cup {0} : place = refLine(change)
  BY PlacedInEvidence
<1>3. place \in Nat
  BY <1>1
<1>4. QED  BY <1>2, <1>3, Zenon

\* Evidence that was removed or replaced is a hit.
LEMMA RemovedIsHit ==
  ASSUME ImpactInv, Placeable, evidence # {}, evidence \subseteq removed(change)
  PROVE  changeImpact(change) \in {"hit", "unplaceable"}
<1>1. PICK place \in Nat : place = refLine(change) /\ place \in evidence \cup {0}
  BY EvidenceHasAPlace
<1>2. CASE place = 0
  BY <1>1, <1>2, ImpactOfPlace
<1>3. CASE place # 0
  <2>1. PICK h \in change.hunks : place >= h.from /\ place < h.from + h.count
    BY <1>1, <1>3 DEF removed
  <2>2. h.from \in Nat /\ h.count \in Nat
    BY LinesAreNumbers
  <2>3. h.count > 0 /\ place \in h.from..(h.from + h.count - 1)
    BY <2>1, <2>2
  <2>4. place \in Around(h)
    BY <2>2, <2>3 DEF Around
  <2>5. QED  BY <1>1, <1>3, <2>3, <2>4, ImpactOfPlace
<1>4. QED  BY <1>2, <1>3

\* Evidence the change leaves alone, neighbours included, is nearby.
LeftAlone ==
  \A i \in evidence, h \in change.hunks :
    IF h.count = 0 THEN i \notin {h.from, h.from + 1}
    ELSE i < h.from \/ i >= h.from + h.count

LEMMA LeftAloneIsNearby ==
  ASSUME ImpactInv, Placeable, evidence # {}, LeftAlone
  PROVE  changeImpact(change) \in {"nearby", "unplaceable"}
<1>1. PICK place \in Nat : place = refLine(change) /\ place \in evidence \cup {0}
  BY EvidenceHasAPlace
<1>2. CASE place = 0
  BY <1>1, <1>2, ImpactOfPlace
<1>3. CASE place # 0
  <2>1. ASSUME NEW h \in change.hunks PROVE place \notin Around(h)
    <3>1. h.from \in Nat /\ h.count \in Nat
      BY LinesAreNumbers
    <3>2. IF h.count = 0 THEN place \notin {h.from, h.from + 1}
          ELSE place < h.from \/ place >= h.from + h.count
      BY <1>1, <1>3 DEF LeftAlone
    <3>3. QED  BY <1>3, <3>1, <3>2 DEF Around
  <2>2. QED  BY <1>1, <1>3, <2>1, ImpactOfPlace
<1>4. QED  BY <1>2, <1>3

\* What is said in such a state is said rightly.
LEMMA SaidRightly == ImpactInv => EditedEvidenceIsReported
<1> SUFFICES ASSUME ImpactInv, impact # "not asked", change.kind # "added", OfTheFile
             PROVE  /\ change.kind = "deleted" => impact = "file-deleted"
                    /\ (change.kind # "deleted" /\ evidence # {} /\ evidence \subseteq removed(change)) =>
                         impact \in {"hit", "unplaceable"}
                    /\ (change.kind # "deleted" /\ evidence # {} /\ LeftAlone) =>
                         impact \in {"nearby", "unplaceable"}
                    /\ impact = "unplaceable" => ~change.atRef
  BY DEF EditedEvidenceIsReported, OfTheFile, LeftAlone
<1>1. impact = changeImpact(change)
  BY DEF ImpactInv
<1>2. CASE change.kind = "deleted"
  <2>1. /\ changedFile(change).path = "here" /\ changedFile(change).deleted
        /\ change.cited.path = "here" /\ ~isIntent(change.cited)
    BY <1>2 DEF changedFile, OfTheFile, isIntent, ImpactInv
  <2>2. changeImpact(change) = "file-deleted"
    BY <2>1 DEF changeImpact
  <2>3. QED  BY <1>1, <1>2, <2>2
<1>3. CASE change.kind # "deleted"
  <2>1. Placeable
    BY <1>3 DEF Placeable
  <2>2. impact = "unplaceable" => ~change.atRef
    <3> SUFFICES ASSUME change.atRef PROVE impact # "unplaceable"
      OBVIOUS
    <3>1. PICK place \in Nat \ {0} : place = refLine(change)
      BY DEF refLine, ImpactInv
    <3>2. QED  BY <1>1, <2>1, <3>1, ImpactOfPlace
  <2>3. QED  BY <1>1, <1>3, <2>1, <2>2, RemovedIsHit, LeftAloneIsNearby
<1>4. QED  BY <1>2, <1>3

\* changeImpact() never passes over a change of cited evidence.
THEOREM ImpactIsReported ==
  ASSUME NEW bases \in SUBSET Texts, NEW origins \in SUBSET Texts
  PROVE  ImpactSpec(bases, origins) => []EditedEvidenceIsReported
<1>1. ImpactInit(bases, origins) => ImpactInv
  BY ImpactStarts
<1>2. ImpactInv /\ [AskImpact]_impactVars => ImpactInv'
  BY DEF AskImpact, impactVars, ImpactInv
<1>3. ImpactInv => EditedEvidenceIsReported
  BY SaidRightly
<1>4. QED  BY <1>1, <1>2, <1>3, PTL DEF ImpactSpec

-----------------------------------------------------------------------------
(* The comparison with the declared architecture                           *)

ConformanceTypes ==
  match \in [Elements -> Matches] /\ rules \in RuleSets /\ modules \in Indexes

\* An element resolves to one indexed module or to none, and no two elements
\* resolve to the same.
LEMMA ResolvedIsOne ==
  ASSUME ConformanceTypes, NEW e \in Elements
  PROVE  /\ Resolved(e) = {} \/ \E m \in DOMAIN modules : Resolved(e) = {m}
         /\ \A d \in Elements : Resolved(d) \cap Resolved(e) # {} => d = e
<1>1. match[e] = NoMatch \/ match[e].by \in {"module", "path"}
  BY ConformanceAssumption DEF ConformanceTypes
<1>2. candidatesOf(e) \subseteq DOMAIN modules
  BY <1>1 DEF candidatesOf, pathCandidates, NoMatch
<1>3. IsFiniteSet(candidatesOf(e))
  BY <1>2, ConformanceAssumption, FS_Subset DEF ConformanceTypes
<1>4. resolveElement(e) = {} \/ \E m \in DOMAIN modules : resolveElement(e) = {m}
  <2>1. CASE Cardinality(candidatesOf(e)) # 1
    BY <2>1 DEF resolveElement
  <2>2. CASE Cardinality(candidatesOf(e)) = 1
    <3>1. PICK m : candidatesOf(e) = {m}
      BY <1>3, <2>2, FS_Singleton
    <3>2. QED  BY <1>2, <2>2, <3>1 DEF resolveElement
  <2>3. QED  BY <2>1, <2>2
<1>5. \A d : Resolved(d) \subseteq resolveElement(d)
  BY DEF Resolved
<1>6. \A d \in Elements : Resolved(d) \cap Resolved(e) # {} => d = e
  BY <1>5 DEF Resolved
<1>7. QED  BY <1>4, <1>6 DEF Resolved

\* A rule is about one pair of modules or about none, and of accepted rules no
\* two are about the same.
LEMMA PairIsOne ==
  ASSUME ConformanceTypes, Accepted, NEW r \in rules, NEW cell, cell \in pairOf(r)
  PROVE  /\ pairOf(r) = {cell}
         /\ ruleOf(cell) = {r}
<1>1. r.from \in Elements /\ r.to \in Elements
  BY DEF Accepted
<1>2. PICK m \in Resolved(r.from), n \in Resolved(r.to) : cell = <<m, n>>
  BY DEF pairOf
<1>3. Resolved(r.from) = {m} /\ Resolved(r.to) = {n}
  BY <1>1, <1>2, ResolvedIsOne
<1>4. pairOf(r) = {cell}
  BY <1>2, <1>3 DEF pairOf
<1>5. ASSUME NEW s \in rules, pairOf(s) = {cell} PROVE s = r
  <2>1. s.from \in Elements /\ s.to \in Elements
    BY DEF Accepted
  <2>2. m \in Resolved(s.from) /\ n \in Resolved(s.to)
    BY <1>2, <1>5 DEF pairOf
  <2>3. s.from = r.from /\ s.to = r.to
    BY <1>1, <1>2, <2>1, <2>2, ResolvedIsOne
  <2>4. QED  BY <2>3 DEF Accepted
<1>6. QED  BY <1>4, <1>5 DEF ruleOf

\* An element is shown as a module exactly when that module is all it may mean
\* and no other element means it alone too.
LEMMA MeaningIsOwn ==
  ASSUME ConformanceTypes, NEW e \in Elements, NEW m \in DOMAIN modules
  PROVE  m \in Resolved(e) <=> {d \in Elements : candidatesOf(d) = {m}} = {e}
<1>1. \A d \in Elements : IsFiniteSet(candidatesOf(d))
  <2>1. TAKE d \in Elements
  <2>2. match[d] = NoMatch \/ match[d].by \in {"module", "path"}
    BY ConformanceAssumption DEF ConformanceTypes
  <2>3. candidatesOf(d) \subseteq DOMAIN modules
    BY <2>2 DEF candidatesOf, pathCandidates, NoMatch
  <2>4. QED  BY <2>3, ConformanceAssumption, FS_Subset DEF ConformanceTypes
<1>2. \A d \in Elements : \A n :
        n \in candidatesOf(d) /\ Cardinality(candidatesOf(d)) = 1 <=> candidatesOf(d) = {n}
  <2>1. TAKE d \in Elements
  <2>2. IsFiniteSet(candidatesOf(d))  BY <1>1
  <2>3. QED  BY <2>2, FS_Singleton
<1>3. \A d \in Elements : \A n : n \in resolveElement(d) <=> candidatesOf(d) = {n}
  BY <1>2 DEF resolveElement
<1>4. m \in Resolved(e) <=>
        m \in resolveElement(e) /\ \A d \in Elements \ {e} : m \notin resolveElement(d)
  BY <1>3 DEF Resolved
<1>5. QED  BY <1>3, <1>4

\* What a rule may be said to be.
LEMMA VerdictOfAPair ==
  ASSUME ConformanceTypes, NEW r \in rules
  PROVE  /\ pairOf(r) \cap storedTraffic # {} => verdict(r) \in {"matched", "violated"}
         /\ verdict(r) = "violated" <=>
              /\ r.expectation = "forbidden"
              /\ pairOf(r) \cap storedTraffic # {}
         /\ (traffic = NoTraffic \/ pairOf(r) = {}) => verdict(r) = "unknown"
<1>1. r.expectation \in {"allowed", "forbidden", "required"}
  BY ConformanceAssumption DEF ConformanceTypes
<1>2. traffic # NoTraffic => storedTraffic = traffic
  BY DEF storedTraffic
<1>3. traffic = NoTraffic => storedTraffic = {}
  BY DEF storedTraffic
<1>4. QED  BY <1>1, <1>2, <1>3 DEF verdict

\* The comparison agrees with itself.
Agrees(c) ==
  /\ MeantByOne(c)
  /\ \A m \in DOMAIN modules : Cardinality({x \in c.elements : x.observed = {m}}) = 1
  /\ {v.rule : v \in c.relationships} = rules
  /\ ForbiddenAndSeen(c)
  /\ {o.cell : o \in c.observedRelationships} = storedTraffic
  /\ CellsTellTheRules(c)

LEMMA ComparisonAgrees ==
  ASSUME ConformanceTypes, Accepted
  PROVE  Agrees(compareDeclaredArchitecture)
<1> DEFINE c == compareDeclaredArchitecture
           shown(k) == IF ruleOf(k) = {} THEN NoRule ELSE CHOOSE r \in ruleOf(k) : TRUE
           stateOfCell(k) == IF shown(k) = NoRule THEN "observed-only" ELSE verdict(shown(k))
           unclaimed == DOMAIN modules \ UNION {Resolved(e) : e \in Elements}
           Declared(e) == [declared |-> {e}, observed |-> Resolved(e), state |-> stateOf(e)]
           Undeclared(m) == [declared |-> {}, observed |-> {m}, state |-> "observed-only"]
           Judged(r) == [rule |-> r, state |-> verdict(r)]
           Cell(k) == [cell |-> k, rule |-> shown(k), state |-> stateOfCell(k)]
<1>1. /\ c.relationships = {Judged(r) : r \in rules}
      /\ c.observedRelationships = {Cell(k) : k \in storedTraffic}
      /\ c.elements = {Declared(e) : e \in Elements} \cup {Undeclared(m) : m \in unclaimed}
  BY Zenon DEF compareDeclaredArchitecture
<1> HIDE DEF c
<1>elements. c.elements = {Declared(e) : e \in Elements} \cup {Undeclared(m) : m \in unclaimed}
  BY <1>1
<1>rules. c.relationships = {Judged(r) : r \in rules}
  BY <1>1
<1>cells. c.observedRelationships = {Cell(k) : k \in storedTraffic}
  BY <1>1
<1> HIDE DEF stateOfCell
<1>2. \A r \in rules : r # NoRule /\ r.from \in Elements /\ r.to \in Elements
  BY ConformanceAssumption DEF ConformanceTypes, NoRule, Accepted
<1>3. \A e \in Elements : ShownAs(c, e) = Resolved(e)
  <2>1. TAKE e \in Elements
  <2>2. {y \in c.elements : y.declared = {e}} = {Declared(e)}
    BY <1>1
  <2>3. ShownAs(c, e) = UNION {x.observed : x \in {Declared(e)}}
    BY <2>2, Zenon DEF ShownAs
  <2>4. QED  BY <2>3
<1>4. \A r \in rules : CellsOf(c, r) = pairOf(r)
  BY <1>2, <1>3 DEF CellsOf, pairOf
<1>5. MeantByOne(c)
  BY <1>3, MeaningIsOwn DEF MeantByOne
<1>6. ForbiddenAndSeen(c)
  BY <1>1, <1>4, VerdictOfAPair DEF ForbiddenAndSeen
<1>7. ASSUME NEW k \in storedTraffic
      PROVE  /\ {r \in rules : k \in pairOf(r)} = {shown(k)} \ {NoRule}
             /\ shown(k) # NoRule =>
                  /\ shown(k) \in rules
                  /\ stateOfCell(k) = verdict(shown(k))
                  /\ stateOfCell(k) \in {"matched", "violated"}
             /\ shown(k) = NoRule => stateOfCell(k) = "observed-only"
  <2>1. CASE \A r \in rules : k \notin pairOf(r)
    <3>1. ruleOf(k) = {}
      BY <2>1 DEF ruleOf
    <3>2. QED  BY <2>1, <3>1 DEF stateOfCell
  <2>2. CASE \E r \in rules : k \in pairOf(r)
    <3>1. PICK r \in rules : k \in pairOf(r)
      BY <2>2
    <3>2. shown(k) = r
      BY <3>1, PairIsOne
    <3>3. verdict(r) \in {"matched", "violated"}
      BY <3>1, VerdictOfAPair
    <3>4. \A s \in rules : k \in pairOf(s) => s = r
      BY <3>1, PairIsOne
    <3> HIDE DEF shown
    <3>5. QED  BY <1>2, <3>1, <3>2, <3>3, <3>4 DEF stateOfCell
  <2>3. QED  BY <2>1, <2>2
<1> HIDE DEF shown
<1>8. CellsTellTheRules(c)
  <2>1. SUFFICES ASSUME NEW o \in c.observedRelationships
                 PROVE  /\ {r \in rules : o.cell \in CellsOf(c, r)} = {o.rule} \ {NoRule}
                        /\ IF o.rule = NoRule THEN o.state = "observed-only"
                           ELSE /\ [rule |-> o.rule, state |-> o.state] \in c.relationships
                                /\ o.state \in {"matched", "violated"}
    BY DEF CellsTellTheRules
  <2>2. PICK k \in storedTraffic : o = Cell(k)
    BY <1>cells
  <2>3. o.cell = k /\ o.rule = shown(k) /\ o.state = stateOfCell(k)
    BY <2>2
  <2>4. {r \in rules : k \in CellsOf(c, r)} = {r \in rules : k \in pairOf(r)}
    BY <1>4
  <2>5. \A r \in rules : [rule |-> r, state |-> verdict(r)] \in c.relationships
    BY <1>rules
  <2> HIDE DEF Cell
  <2>6. QED  BY <1>7, <2>3, <2>4, <2>5
<1>9. ASSUME NEW m \in DOMAIN modules
      PROVE  Cardinality({x \in c.elements : x.observed = {m}}) = 1
  <2>1. \A x : Cardinality({x}) = 1
    BY FS_Singleton
  <2>2. CASE \E e \in Elements : Resolved(e) = {m}
    <3>1. PICK e \in Elements : Resolved(e) = {m}
      BY <2>2
    <3>2. \A d \in Elements : Resolved(d) = {m} => d = e
      BY <3>1, ResolvedIsOne
    <3>3. m \notin unclaimed
      BY <3>1
    <3>4. {x \in c.elements : x.observed = {m}} = {Declared(e)}
      BY <1>elements, <3>1, <3>2, <3>3
    <3>5. QED  BY <2>1, <3>4
  <2>3. CASE \A e \in Elements : Resolved(e) # {m}
    <3>1. m \in unclaimed
      BY <2>3, ResolvedIsOne
    <3>2. {x \in c.elements : x.observed = {m}} = {Undeclared(m)}
      BY <1>elements, <2>3, <3>1
    <3>3. QED  BY <2>1, <3>2
  <2>4. QED  BY <2>2, <2>3
<1>10. {v.rule : v \in c.relationships} = rules
  <2>1. \A r \in rules : Judged(r) \in c.relationships /\ Judged(r).rule = r
    BY <1>rules
  <2>2. \A v \in c.relationships : v.rule \in rules
    BY <1>rules
  <2> HIDE DEF Judged
  <2>3. QED  BY <2>1, <2>2
<1>11. {o.cell : o \in c.observedRelationships} = storedTraffic
  <2>1. \A k \in storedTraffic : Cell(k) \in c.observedRelationships /\ Cell(k).cell = k
    BY <1>cells
  <2>2. \A o \in c.observedRelationships : o.cell \in storedTraffic
    BY <1>cells
  <2> HIDE DEF Cell
  <2>3. QED  BY <2>1, <2>2
<1>12. QED  BY <1>5, <1>6, <1>8, <1>9, <1>10, <1>11 DEF Agrees, c

\* The lists of compareDeclaredArchitecture() tell one story: a rule is violated
\* exactly when it forbids what is seen between the modules its ends are, and
\* what is not one element's alone is judged by nobody; whatever was declared,
\* indexed and called.
THEOREM ComparisonIsOneStory == ConformanceSpec => []ListsAgree
<1> DEFINE Inv == ConformanceTypes /\ ListsAgree
<1>1. ConformanceInit => Inv
  <2>1. ConformanceInit => ConformanceTypes
    BY DEF ConformanceInit, ConformanceTypes
  <2>2. ConformanceInit => comparison = NotCompared
    BY DEF ConformanceInit
  <2>3. NotCompared.state = "not asked"
    BY DEF NotCompared
  <2>4. QED  BY <2>1, <2>2, <2>3 DEF ListsAgree
<1>2. Inv /\ [ConformanceNext]_conformanceVars => Inv'
  <2> SUFFICES ASSUME Inv, [ConformanceNext]_conformanceVars PROVE Inv'
    OBVIOUS
  <2>1. UNCHANGED <<match, rules, modules, traffic>>
    BY DEF ConformanceNext, Compare, RefuseDeclaration, conformanceVars
  <2>2. ConformanceTypes'
    BY <2>1 DEF ConformanceTypes
  <2>3. storedTraffic' = storedTraffic /\ \A e : candidatesOf(e)' = candidatesOf(e)
    BY <2>1 DEF storedTraffic, candidatesOf, pathCandidates
  <2>4. Agrees(comparison') => Agrees(comparison)'
    <3>1. MeantByOne(comparison') => MeantByOne(comparison)'
      BY <2>1, <2>3 DEF MeantByOne, ShownAs
    <3>2. ForbiddenAndSeen(comparison') => ForbiddenAndSeen(comparison)'
      BY <2>1, <2>3 DEF ForbiddenAndSeen, CellsOf, ShownAs
    <3>3. CellsTellTheRules(comparison') => CellsTellTheRules(comparison)'
      BY <2>1 DEF CellsTellTheRules, CellsOf, ShownAs
    <3>4. QED  BY <2>1, <2>3, <3>1, <3>2, <3>3 DEF Agrees
  <2>5. comparison'.state = "compared" => Agrees(comparison')
    <3>1. CASE UNCHANGED conformanceVars
      BY <3>1 DEF ListsAgree, Agrees, conformanceVars
    <3>2. CASE RefuseDeclaration
      BY <3>2 DEF RefuseDeclaration
    <3>3. CASE Compare
      BY <3>3, ComparisonAgrees DEF Compare
    <3>4. QED  BY <3>1, <3>2, <3>3 DEF ConformanceNext
  <2>6. QED  BY <2>2, <2>4, <2>5 DEF ListsAgree, Agrees
<1>3. QED  BY <1>1, <1>2, PTL DEF ConformanceSpec

-----------------------------------------------------------------------------
(* The registry of modules                                                 *)

\* A path begins with another one where their segments agree.
LEMMA PrefixIs ==
  ASSUME NEW s \in Seq(STRING), NEW t \in Seq(STRING)
  PROVE  IsPrefix(s, t) <=> /\ Len(s) <= Len(t)
                            /\ \A i \in 1..Len(s) : s[i] = t[i]
<1>1. ASSUME IsPrefix(s, t), NEW i \in 1..Len(s)
      PROVE  s[i] = t[i]
  <2>1. SubSeq(s, 1, Len(s))[i] = SubSeq(t, 1, Len(s))[i]
    BY <1>1 DEF IsPrefix
  <2>2. QED  BY <1>1, <2>1 DEF IsPrefix
<1>2. ASSUME Len(s) <= Len(t), \A i \in 1..Len(s) : s[i] = t[i]
      PROVE  IsPrefix(s, t)
  BY <1>2 DEF IsPrefix
<1>3. QED  BY <1>1, <1>2 DEF IsPrefix

\* The beginning of a path.
LEMMA Beginning ==
  ASSUME NEW p \in Paths, NEW n \in 1..Len(p)
  PROVE  /\ Prefix(p, n) \in Seq(STRING) /\ Len(Prefix(p, n)) = n
         /\ Prefix(p, n) # <<>>
         /\ \A i \in 1..n : Prefix(p, n)[i] = p[i]
         /\ IsPrefix(Prefix(p, n), p)
<1>1. p \in Seq(STRING)
  BY RegistryAssumption
<1>2. /\ Prefix(p, n) \in Seq(STRING) /\ Len(Prefix(p, n)) = n
      /\ Prefix(p, n) # <<>>
      /\ \A i \in 1..n : Prefix(p, n)[i] = p[i]
  BY <1>1 DEF Prefix
<1>3. QED  BY <1>1, <1>2, PrefixIs

\* The first place of the features, where the path has any.
LEMMA FirstFeature ==
  ASSUME NEW p \in Paths, features(p) # {}
  PROVE  /\ Min(features(p)) \in features(p)
         /\ \A i \in features(p) : Min(features(p)) <= i
<1>1. features(p) \in SUBSET Nat
  BY RegistryAssumption DEF features
<1>2. \E x \in features(p) : \A y \in features(p) : x <= y
  BY <1>1, LeastNumber
<1>3. QED  BY <1>2 DEF Min

\* How long a root the rules give a path.
RootLength(p) ==
  IF isWorkspacePackage(p) THEN 2
  ELSE IF isModuleRoot(p) THEN (IF p[1] = "modules" THEN 2 ELSE 3)
  ELSE IF isAppRoute(p) THEN 2
  ELSE IF features(p) # {} THEN Min(features(p)) + 1
  ELSE IF isLayer(p) THEN 2 ELSE 1

\* The root of a path is the beginning of it of that length, unless the path is
\* a file at the top of the project.
LEMMA RootIs ==
  ASSUME NEW p \in Paths, InPlace(p)
  PROVE  /\ Len(p) = 1 => moduleRootForPath(p) = <<>>
         /\ Len(p) > 1 => /\ moduleRootForPath(p) = Prefix(p, RootLength(p))
                          /\ RootLength(p) \in 1..Len(p)
<1>1. p \in Seq(STRING) /\ p # <<>> /\ Len(p) \in Nat \ {0}
  BY RegistryAssumption
<1>2. features(p) # {} => Min(features(p)) \in 1..(Len(p) - 1)
  BY FirstFeature DEF features
<1>3. CASE isWorkspacePackage(p)
  <2>1. RootLength(p) = 2
    BY <1>3 DEF RootLength
  <2>2. moduleRootForPath(p) = Prefix(p, 2)
    BY <1>3 DEF moduleRootForPath
  <2>3. Len(p) > 1 /\ Len(p) # 1 /\ 2 \in 1..Len(p)
    BY <1>1, <1>3 DEF isWorkspacePackage
  <2>4. QED  BY <2>1, <2>2, <2>3, Zenon
<1>4. CASE ~isWorkspacePackage(p) /\ isModuleRoot(p)
  <2>1. moduleRootForPath(p) = Prefix(p, RootLength(p))
    BY <1>4, InPlace(p) DEF moduleRootForPath, RootLength, InPlace
  <2>2. Len(p) > 1 /\ RootLength(p) \in 1..Len(p)
    BY <1>1, <1>4 DEF isModuleRoot, RootLength
  <2>3. QED  BY <1>1, <2>1, <2>2
<1>5. CASE ~isWorkspacePackage(p) /\ ~isModuleRoot(p)
  <2>1. moduleRootForPath(p) =
          IF isAppRoute(p) THEN Prefix(p, 2)
          ELSE IF features(p) # {} THEN Prefix(p, Min(features(p)) + 1)
          ELSE IF isLayer(p) THEN Prefix(p, 2)
          ELSE IF Len(p) > 1 THEN Prefix(p, 1) ELSE <<>>
    BY <1>5 DEF moduleRootForPath
  <2>2. RootLength(p) =
          IF isAppRoute(p) THEN 2
          ELSE IF features(p) # {} THEN Min(features(p)) + 1
          ELSE IF isLayer(p) THEN 2 ELSE 1
    BY <1>5 DEF RootLength
  <2>3. /\ isAppRoute(p) => Len(p) >= 3
        /\ isLayer(p) => Len(p) >= 3
        /\ features(p) # {} => Len(p) > 1
    BY <1>1, <1>2 DEF isAppRoute, isLayer
  <2>4. CASE isAppRoute(p)
    <3>1. RootLength(p) = 2 /\ moduleRootForPath(p) = Prefix(p, 2)
      BY <2>1, <2>2, <2>4
    <3>2. Len(p) > 1 /\ Len(p) # 1 /\ 2 \in 1..Len(p)
      BY <1>1, <2>3, <2>4
    <3>3. QED  BY <3>1, <3>2, Zenon
  <2>5. CASE ~isAppRoute(p) /\ features(p) # {}
    <3>1. PICK m \in 1..(Len(p) - 1) : m = Min(features(p))
      BY <1>2, <2>5
    <3>2. RootLength(p) = m + 1 /\ moduleRootForPath(p) = Prefix(p, m + 1)
      BY <2>1, <2>2, <2>5, <3>1, Zenon
    <3>3. \A l \in Nat \ {0} : m \in 1..(l - 1) => l > 1 /\ l # 1 /\ m + 1 \in 1..l
      OBVIOUS
    <3>4. Len(p) > 1 /\ Len(p) # 1 /\ m + 1 \in 1..Len(p)
      BY <1>1, <3>1, <3>3, Zenon
    <3>5. QED  BY <3>2, <3>4, Zenon
  <2>6. CASE ~isAppRoute(p) /\ features(p) = {}
    <3>1. CASE isLayer(p)
      <4>1. RootLength(p) = 2 /\ moduleRootForPath(p) = Prefix(p, 2)
        BY <2>1, <2>2, <2>6, <3>1
      <4>2. Len(p) > 1 /\ Len(p) # 1 /\ 2 \in 1..Len(p)
        BY <1>1, <2>3, <3>1
      <4>3. QED  BY <4>1, <4>2, Zenon
    <3>2. CASE ~isLayer(p)
      <4>1. RootLength(p) = 1
        BY <2>2, <2>6, <3>2
      <4>2. moduleRootForPath(p) = IF Len(p) > 1 THEN Prefix(p, 1) ELSE <<>>
        BY <2>1, <2>6, <3>2
      <4>3. \A l \in Nat \ {0} : 1 \in 1..l /\ (l = 1 => ~(l > 1))
        OBVIOUS
      <4>4. 1 \in 1..Len(p) /\ (Len(p) = 1 => ~(Len(p) > 1))
        BY <1>1, <4>3, Zenon
      <4>5. QED  BY <4>1, <4>2, <4>4, Zenon
    <3>3. QED  BY <3>1, <3>2
  <2>7. QED  BY <2>4, <2>5, <2>6
<1>6. QED  BY <1>3, <1>4, <1>5

\* In short, for a path that has one.
LEMMA RootOf ==
  ASSUME NEW p \in Paths, InPlace(p), moduleRootForPath(p) # <<>>
  PROVE  /\ Len(p) > 1 /\ moduleRootForPath(p) = Prefix(p, RootLength(p))
         /\ RootLength(p) \in 1..Len(p)
<1>1. Len(p) \in Nat \ {0}
  BY RegistryAssumption
<1>2. \A l \in Nat \ {0} : l = 1 \/ l > 1
  OBVIOUS
<1>3. Len(p) = 1 \/ Len(p) > 1
  BY <1>1, <1>2
<1>4. QED  BY <1>3, RootIs, Zenon

\* The root of one path that lies above another one is not below the other's
\* own root.
LEMMA NoRootBelow ==
  ASSUME NEW p \in Paths, NEW q \in Paths, InPlace(p), InPlace(q),
         p # q, ~IsPrefix(p, q), Len(q) > 1,
         IsPrefix(Prefix(q, RootLength(q)), p)
  PROVE  Len(p) > 1 /\ RootLength(q) <= RootLength(p)
<1> DEFINE n == RootLength(q)
<1>1. /\ p \in Seq(STRING) /\ Len(p) \in Nat \ {0}
      /\ q \in Seq(STRING) /\ Len(q) \in Nat \ {0}
  BY RegistryAssumption
<1>2. n \in 1..Len(q)
  BY RootIs
<1>3. /\ n <= Len(p)
      /\ \A i \in 1..n : q[i] = p[i]
  <2>1. Prefix(q, n) \in Seq(STRING) /\ Len(Prefix(q, n)) = n
        /\ \A i \in 1..n : Prefix(q, n)[i] = q[i]
    BY <1>2, Beginning
  <2>2. QED  BY <1>1, <2>1, PrefixIs
<1>4. n # Len(p)
  <2>1. SUFFICES ASSUME n = Len(p) PROVE FALSE
    OBVIOUS
  <2>2. IsPrefix(p, q)
    BY <1>1, <1>2, <1>3, <2>1, PrefixIs
  <2>3. QED  BY <2>2
<1>5. n < Len(p) /\ Len(p) > 1
  BY <1>1, <1>2, <1>3, <1>4
<1>6. RootLength(p) \in 1..Len(p)
  BY <1>5, RootIs
<1>7. n <= RootLength(p)
  <2>1. CASE isWorkspacePackage(q)
    <3>1. n = 2
      BY <2>1 DEF RootLength
    <3>2. isWorkspacePackage(p)
      BY <1>1, <1>3, <1>5, <2>1, <3>1 DEF isWorkspacePackage
    <3>3. QED  BY <3>1, <3>2 DEF RootLength
  <2>2. CASE ~isWorkspacePackage(q) /\ isModuleRoot(q)
    <3>1. n = IF q[1] = "modules" THEN 2 ELSE 3
      BY <2>2 DEF RootLength
    <3>2. p[1] = q[1] /\ p[2] = q[2]
      BY <1>3, <3>1
    <3>3. isModuleRoot(p) /\ ~isWorkspacePackage(p)
      BY <1>1, <1>5, <2>2, <3>1, <3>2 DEF isModuleRoot, isWorkspacePackage
    <3>4. QED  BY <3>1, <3>2, <3>3 DEF RootLength
  <2>3. CASE ~isWorkspacePackage(q) /\ ~isModuleRoot(q)
    <3>1. n = IF isAppRoute(q) THEN 2
              ELSE IF features(q) # {} THEN Min(features(q)) + 1
              ELSE IF isLayer(q) THEN 2 ELSE 1
      BY <2>3 DEF RootLength
    <3>2. CASE n = 1
      BY <1>6, <3>2
    <3>3. CASE n >= 2 /\ (isWorkspacePackage(p) \/ isModuleRoot(p) \/ isAppRoute(p))
      <4>1. RootLength(p) >= 2
        BY <3>3 DEF RootLength
      <4>2. CASE n = 2
        BY <4>1, <4>2
      <4>3. CASE n > 2
        <5>1. p[1] = q[1] /\ p[2] = q[2]
          BY <1>2, <1>3, <4>3
        <5>2. Len(q) >= 3 /\ (n # 3 => Len(q) >= 4)
          BY <1>1, <1>2, <4>3
        <5>3. ~isWorkspacePackage(p) /\ ~isAppRoute(q)
          BY <2>3, <3>1, <4>3, <5>1, <5>2 DEF isWorkspacePackage
        <5>4. ~isAppRoute(p)
          BY <5>1, <5>2, <5>3 DEF isAppRoute
        <5>5. p[1] # "modules" /\ n = 3
          BY <2>3, <3>3, <5>1, <5>2, <5>3, <5>4 DEF isModuleRoot
        <5>6. RootLength(p) = 3
          BY <3>3, <5>3, <5>4, <5>5 DEF RootLength
        <5>7. QED  BY <5>5, <5>6
      <4>4. QED  BY <1>2, <3>3, <4>2, <4>3
    <3>4. CASE n >= 2 /\ ~isWorkspacePackage(p) /\ ~isModuleRoot(p) /\ ~isAppRoute(p)
      <4>1. RootLength(p) = IF features(p) # {} THEN Min(features(p)) + 1
                            ELSE IF isLayer(p) THEN 2 ELSE 1
        BY <3>4 DEF RootLength
      <4>2. p[1] = q[1] /\ p[2] = q[2] /\ Len(p) >= 3
        BY <1>1, <1>2, <1>3, <1>5, <3>4
      <4>3. features(p) # {} => Min(features(p)) \in 1..(Len(p) - 1)
        BY FirstFeature DEF features
      <4>4. CASE isAppRoute(q) \/ (features(q) = {} /\ isLayer(q))
        <5>1. n = 2
          BY <3>1, <4>4
        <5>2. isLayer(p)
          BY <3>4, <4>2, <4>4 DEF isAppRoute, isLayer
        <5>3. QED  BY <1>6, <4>1, <4>3, <5>1, <5>2
      <4>5. CASE ~isAppRoute(q) /\ features(q) # {}
        <5>1. PICK m \in features(q) : m = Min(features(q)) /\ \A i \in features(q) : m <= i
          BY <4>5, FirstFeature
        <5>2. n = m + 1
          BY <3>1, <4>5, <5>1
        <5>3. m \in 1..(Len(q) - 1) /\ WordsOf(q[m]) = <<"features">>
          BY <5>1 DEF features
        <5>4. m \in 1..(Len(p) - 1) /\ m \in 1..n
          BY <1>1, <1>2, <1>5, <5>2, <5>3
        <5>5. m \in features(p)
          BY <1>3, <5>3, <5>4 DEF features
        <5>6. PICK k \in features(p) : k = Min(features(p)) /\ k <= m
          BY <5>5, FirstFeature
        <5>7. k \in Nat /\ k \in features(q)
          <6>1. k \in 1..(Len(p) - 1) /\ WordsOf(p[k]) = <<"features">>
            BY <5>6 DEF features
          <6>2. k \in 1..(Len(q) - 1) /\ k \in 1..n
            BY <1>1, <1>2, <5>3, <5>6, <5>4, <6>1
          <6>3. QED  BY <1>3, <6>1, <6>2 DEF features
        <5>8. k = m
          BY <5>1, <5>3, <5>6, <5>7
        <5>9. RootLength(p) = m + 1
          BY <4>1, <5>5, <5>6, <5>8
        <5>10. QED  BY <5>2, <5>3, <5>9
      <4>6. QED  BY <1>2, <3>1, <3>4, <4>4, <4>5
    <3>5. QED  BY <1>2, <3>2, <3>3, <3>4
  <2>4. QED  BY <2>1, <2>2, <2>3
<1>8. QED  BY <1>5, <1>7

StoredAnswers ==
  [id : Nat, kind : {"observed", "proposed"}, path : Paths, status : {"current", "superseded"}]

Parts == {"none", "snapshot", "hashes", "symbols", "modules", "entry points"}

\* The parts of a snapshot that has symbols.
WithSymbols == {"symbols", "modules", "entry points"}

NoRegistry == [id \in {} |-> <<>>]

\* What every state has: the files at any time are apart, what is stored of a
\* snapshot is of the files its provider read, in the order of the transactions
\* (InsertSnapshot empties everything), a proposal is of a path a module can be
\* derived from, and a plan that did not reach a module names it.
RegistryInv ==
  /\ files \subseteq Paths /\ Apart(files)
  /\ ingested \subseteq Paths /\ Apart(ingested)
  /\ indexing.graph \subseteq Paths /\ Apart(indexing.graph)
  /\ indexing \in [at : {"idle", "provider", "storing"}, graph : SUBSET Paths,
                   hashed : SUBSET Paths]
  /\ committed \in Parts
  /\ indexing.at = "storing" /\ committed \in WithSymbols => ingested = indexing.graph
  /\ IF ModulesWritten THEN registry \in Registries(ingested) ELSE registry = NoRegistry
  /\ IsFiniteSet(answers)
  /\ \A a \in answers :
       /\ a \in StoredAnswers
       /\ a.kind = "proposed" => intentModuleOf(a.path) # <<>>
  /\ \A p \in plans : p.unreached => p.module.id # <<>>

\* A project without files has all of this.
LEMMA RegistryStarts == RegistryInit => RegistryInv
<1> SUFFICES ASSUME RegistryInit PROVE RegistryInv
  OBVIOUS
<1>1. IsFiniteSet(answers)
  BY FS_EmptySet DEF RegistryInit
<1>2. committed = "none" /\ ~ModulesWritten /\ registry = NoRegistry
  BY DEF RegistryInit, ModulesWritten, NoRegistry
<1>3. QED  BY <1>1, <1>2 DEF RegistryInit, RegistryInv, Idling, Apart, Parts, WithSymbols

\* inspectPlan() finds a module unreached only if it found one.
LEMMA PlansName ==
  ASSUME NEW written
  PROVE  inspectPlan(written).unreached => inspectPlan(written).module.id # <<>>
<1> DEFINE m == planModule(resolvePlanPath(written))
<1>1. m.state \in {"planned", "existing"} => m.id # <<>>
  BY DEF planModule
<1>2. /\ inspectPlan(written).module = m
      /\ inspectPlan(written).unreached =>
           m.state \in {"planned", "existing"}
  BY DEF inspectPlan
<1>3. QED  BY <1>1, <1>2, Zenon

\* Every step keeps it, an index that dies included.
LEMMA RegistryStep ==
  ASSUME RegistryInv, [RegistryNext]_registryVars
  PROVE  RegistryInv'
<1>1. CASE UNCHANGED registryVars
  BY <1>1 DEF registryVars, RegistryInv, Apart, Registries, deriveModules, ModulesWritten
<1>2. ASSUME NEW p \in Paths, WriteFile(p)
      PROVE  RegistryInv'
  BY <1>2 DEF WriteFile, RegistryInv, snapshotVars, ModulesWritten, Registries, deriveModules
<1>3. ASSUME NEW p \in Paths, DeleteFile(p)
      PROVE  RegistryInv'
  BY <1>3 DEF DeleteFile, RegistryInv, Apart, snapshotVars, ModulesWritten, Registries,
              deriveModules
<1>4. ASSUME UpdateProvider
      PROVE  RegistryInv'
  BY <1>4 DEF UpdateProvider, RegistryInv, Idling, snapshotVars, ModulesWritten, Registries,
              deriveModules, Apart
<1>5. ASSUME InsertSnapshot
      PROVE  RegistryInv'
  <2>1. committed' \in Parts /\ committed' \notin WithSymbols /\ ~ModulesWritten'
        /\ registry' = NoRegistry
    BY <1>5 DEF InsertSnapshot, Parts, WithSymbols, ModulesWritten, NoRegistry
  <2>2. indexing' = [indexing EXCEPT !.at = "storing", !.hashed = files]
        /\ ingested' = {} /\ UNCHANGED <<files, answers, plans>>
    BY <1>5 DEF InsertSnapshot
  <2>3. QED  BY <2>1, <2>2 DEF RegistryInv, Apart
<1>6. ASSUME InsertFileHashes \/ InsertSymbols \/ InsertModules \/ InsertEntryPoints
      PROVE  RegistryInv'
  <2>1. UNCHANGED <<files, answers, plans>> /\ indexing.at = "storing"
    BY <1>6 DEF InsertFileHashes, InsertSymbols, InsertModules, InsertEntryPoints, Store
  <2>2. CASE InsertFileHashes
    <3>1. /\ committed = "snapshot" /\ committed' = "hashes"
          /\ UNCHANGED <<ingested, registry, doors, indexing>>
      BY <2>2 DEF InsertFileHashes, Store
    <3>2. ~ModulesWritten /\ ~ModulesWritten' /\ committed' \in Parts \ WithSymbols
      BY <3>1 DEF ModulesWritten, Parts, WithSymbols
    <3>3. QED  BY <2>1, <3>1, <3>2 DEF RegistryInv, Apart
  <2>3. CASE InsertSymbols
    <3>1. /\ committed = "hashes" /\ committed' = "symbols" /\ ingested' = indexing.graph
          /\ UNCHANGED <<registry, indexing>>
      BY <2>3 DEF InsertSymbols, Store
    <3>2. ~ModulesWritten /\ ~ModulesWritten' /\ committed' \in Parts
      BY <3>1 DEF ModulesWritten, Parts
    <3>3. QED  BY <2>1, <3>1, <3>2 DEF RegistryInv, Apart
  <2>4. CASE InsertModules
    <3>1. /\ committed = "symbols" /\ committed' = "modules"
          /\ registry' \in Registries(indexing.graph) /\ UNCHANGED <<ingested, indexing>>
      BY <2>4 DEF InsertModules, Store
    <3>2. ModulesWritten' /\ committed' \in Parts /\ committed \in WithSymbols
      BY <3>1 DEF ModulesWritten, Parts, WithSymbols
    <3>3. registry' \in Registries(ingested)
      BY <2>1, <3>1, <3>2 DEF RegistryInv
    <3>4. registry' \in Registries(ingested')
      BY <3>1, <3>3 DEF Registries, deriveModules
    <3>5. ingested' = indexing'.graph
      BY <2>1, <3>1, <3>2 DEF RegistryInv
    <3>6. QED  BY <2>1, <3>1, <3>2, <3>4, <3>5 DEF RegistryInv, Apart
  <2>5. CASE InsertEntryPoints
    <3>1. /\ committed = "modules" /\ committed' = "entry points"
          /\ indexing' = Idling /\ UNCHANGED <<ingested, registry>>
      BY <2>5 DEF InsertEntryPoints, Store
    <3>2. ModulesWritten /\ ModulesWritten' /\ committed' \in Parts
      BY <3>1 DEF ModulesWritten, Parts
    <3>3. registry' \in Registries(ingested')
      BY <3>1, <3>2 DEF RegistryInv, Registries, deriveModules
    <3>4. QED  BY <2>1, <3>1, <3>2, <3>3 DEF RegistryInv, Idling, Apart
  <2>6. QED  BY <1>6, <2>2, <2>3, <2>4, <2>5
<1>7. ASSUME IndexDies
      PROVE  RegistryInv'
  BY <1>7 DEF IndexDies, RegistryInv, Idling, Apart, snapshotVars, ModulesWritten, Registries,
              deriveModules
<1>8. ASSUME NEW p \in Paths, NEW kind \in {"observed", "proposed"}, SubmitAnswer(kind, p)
      PROVE  RegistryInv'
  <2> DEFINE a == [id |-> Cardinality(answers) + 1, kind |-> kind, path |-> p, status |-> "current"]
  <2>1. answers' = answers \cup {a}
    BY <1>8 DEF SubmitAnswer
  <2>2. IsFiniteSet(answers') /\ Cardinality(answers) \in Nat
    BY <2>1, FS_AddElement, FS_CardinalityType DEF RegistryInv
  <2>3. /\ a \in StoredAnswers
        /\ a.kind = "proposed" => intentModuleOf(a.path) # <<>>
    BY <1>8, <2>2 DEF SubmitAnswer, StoredAnswers
  <2>4. QED  BY <1>8, <2>1, <2>2, <2>3 DEF SubmitAnswer, RegistryInv, snapshotVars, ModulesWritten,
                                           Registries, deriveModules
<1>9. ASSUME NEW a \in answers, SupersedeAnswer(a)
      PROVE  RegistryInv'
  <2> DEFINE b == [a EXCEPT !.status = "superseded"]
  <2>1. answers' = (answers \ {a}) \cup {b}
    BY <1>9 DEF SupersedeAnswer
  <2>2. IsFiniteSet(answers')
    BY <2>1, FS_AddElement, FS_RemoveElement DEF RegistryInv
  <2>3. /\ b \in StoredAnswers
        /\ b.kind = "proposed" => intentModuleOf(b.path) # <<>>
    BY DEF RegistryInv, StoredAnswers
  <2>4. QED  BY <1>9, <2>1, <2>2, <2>3 DEF SupersedeAnswer, RegistryInv, snapshotVars, ModulesWritten,
                                           Registries, deriveModules
<1>10. ASSUME NEW written, SavePlan(written)
      PROVE  RegistryInv'
  <2>1. plans' = plans \cup {inspectPlan(written)}
    BY <1>10 DEF SavePlan
  <2>2. \A p \in plans' : p.unreached => p.module.id # <<>>
    BY <2>1, PlansName DEF RegistryInv
  <2>3. QED  BY <1>10, <2>2 DEF SavePlan, RegistryInv, snapshotVars, ModulesWritten,
                                           Registries, deriveModules
<1>11. QED
  BY <1>1, <1>2, <1>3, <1>4, <1>5, <1>6, <1>7, <1>8, <1>9, <1>10 DEF RegistryNext

\* In every reachable state what is stored of the latest snapshot is of the files
\* its provider read, up to the transaction the index got to: modules are there
\* only with the symbols they are derived from, wherever an index died.
THEOREM RegistryInvariance == RegistrySpec => []RegistryInv
BY RegistryStarts, RegistryStep, PTL DEF RegistrySpec

\* moduleIdFromPath() of no root.
LEMMA NoRootNoName == moduleIdFromPath(<<>>) = <<>>
BY DEF moduleIdFromPath, FlattenSeq

\* A module is in the registry when the modules of its file are written.
LEMMA InTheRegistry ==
  ASSUME RegistryInv, ModulesWritten, NEW p \in ingested, moduleRootForPath(p) # <<>>
  PROVE  moduleIdForPath(p) \in DOMAIN registry
BY DEF RegistryInv, Registries, deriveModules, moduleIdForPath

\* Of no id there is a module without a registry.
LEMMA WrittenIfThere ==
  ASSUME RegistryInv, NEW id \in DOMAIN registry
  PROVE  registry \in Registries(ingested)
<1>1. registry # NoRegistry
  BY DEF NoRegistry
<1>2. QED  BY <1>1 DEF RegistryInv

\* The module whose id a regular path gives owns it, if it is in the registry.
LEMMA OwnedByItsModule ==
  ASSUME RegistryInv, NEW p \in Paths, Regular(p), moduleIdForPath(p) \in DOMAIN registry,
         moduleRootForPath(p) # <<>>
  PROVE  moduleOwning(p) = moduleIdForPath(p)
<1> DEFINE id == moduleIdForPath(p)
           roots == deriveModules(ingested)
           owners == {o \in DOMAIN registry : IsPrefix(registry[o], p)}
<1>1. /\ DOMAIN registry = {moduleIdFromPath(r) : r \in roots}
      /\ \A o \in DOMAIN registry : registry[o] \in roots /\ moduleIdFromPath(registry[o]) = o
  BY WrittenIfThere DEF Registries
<1>2. \A r \in roots : r # <<>> /\ \E q \in ingested : r = moduleRootForPath(q)
  BY DEF deriveModules
<1>4. id \in DOMAIN registry
  OBVIOUS
<1>5. registry[id] = moduleRootForPath(p)
  BY <1>1, <1>2, <1>4 DEF Regular, moduleIdForPath
<1>6. /\ p \in Paths /\ p \in Seq(STRING)
      /\ InPlace(p)
      /\ Len(p) \in Nat \ {0}
  BY RegistryAssumption DEF RegistryInv, Regular
<1>7. Len(p) > 1 /\ moduleRootForPath(p) = Prefix(p, RootLength(p)) /\ RootLength(p) \in 1..Len(p)
  BY <1>6, RootOf
<1>8. IsPrefix(registry[id], p) /\ Len(registry[id]) = RootLength(p)
  BY <1>5, <1>6, <1>7, Beginning
<1>9. ASSUME NEW o \in owners
      PROVE  /\ registry[o] \in Seq(STRING) /\ Len(registry[o]) <= RootLength(p)
             /\ Len(registry[o]) = RootLength(p) => o = id
  <2>1. PICK q \in ingested : registry[o] = moduleRootForPath(q) /\ registry[o] # <<>>
    BY <1>1, <1>2, <1>9
  <2>2. InPlace(q) /\ q \in Paths
    BY <1>9, <2>1 DEF Regular, RegistryInv
  <2>3. Len(q) > 1 /\ registry[o] = Prefix(q, RootLength(q)) /\ RootLength(q) \in 1..Len(q)
    BY <2>1, <2>2, RootOf
  <2>4. registry[o] \in Seq(STRING) /\ Len(registry[o]) = RootLength(q)
    BY <2>2, <2>3, Beginning
  <2>5. RootLength(q) <= RootLength(p)
    <3>1. CASE p = q
      BY <1>7, <3>1
    <3>2. CASE p # q
      BY <1>6, <1>9, <2>1, <2>2, <2>3, <3>2, NoRootBelow DEF Regular
    <3>3. QED  BY <3>1, <3>2
  <2>6. ASSUME Len(registry[o]) = RootLength(p)
        PROVE  o = id
    <3>1. /\ registry[id] \in Seq(STRING)
          /\ \A i \in 1..RootLength(p) : registry[id][i] = p[i]
      BY <1>5, <1>6, <1>7, Beginning
    <3>2. \A i \in 1..RootLength(p) : registry[o][i] = p[i]
      BY <1>6, <1>9, <2>4, <2>6, PrefixIs
    <3>3. registry[o] = registry[id]
      BY <1>8, <2>4, <2>6, <3>1, <3>2
    <3>4. QED  BY <1>1, <1>4, <1>9, <3>3
  <2>7. QED  BY <2>4, <2>5, <2>6
<1>10. moduleOwning(p) = CHOOSE o \in owners : \A x \in owners : Len(registry[x]) <= Len(registry[o])
  BY <1>4, <1>8 DEF moduleOwning
<1>11. \A x \in owners : Len(registry[x]) <= Len(registry[id])
  BY <1>8, <1>9
<1>12. id \in owners
  BY <1>4, <1>8
<1>13. PICK o \in owners : o = moduleOwning(p) /\ Len(registry[id]) <= Len(registry[o])
  BY <1>10, <1>11, <1>12
<1>14. o = id
  <2>1. Len(registry[o]) \in Nat /\ Len(registry[o]) <= RootLength(p) /\ RootLength(p) \in Nat
    BY <1>7, <1>9
  <2>2. QED  BY <1>8, <1>9, <1>13, <2>1
<1>15. QED  BY <1>4, <1>13, <1>14

\* A proposed module becomes real once an index that found its code has written
\* its modules, wherever other indexes died: the id the proposal derived is the
\* one the index gives, and the module owns the file.
THEOREM PlansBecomeReal == RegistrySpec => []PlannedModuleBecomesReal
<1>1. RegistryInv => PlannedModuleBecomesReal
  <2> SUFFICES ASSUME RegistryInv, NEW a \in proposals, a.path \in ingested,
                      ModulesWritten, Regular(a.path)
               PROVE  /\ intentModuleOf(a.path) \in DOMAIN registry \ proposedModules
                      /\ moduleOwning(a.path) = intentModuleOf(a.path)
    BY DEF PlannedModuleBecomesReal
  <2>1. a \in answers /\ a.kind = "proposed" /\ a.path \in Paths
    BY DEF proposals, live, RegistryInv
  <2>2. moduleIdForPath(a.path) # <<>>
    BY <2>1 DEF RegistryInv, intentModuleOf
  <2>3. moduleRootForPath(a.path) # <<>>
    BY <2>2, NoRootNoName DEF moduleIdForPath
  <2>4. moduleIdForPath(a.path) \in DOMAIN registry
    BY <2>3, InTheRegistry
  <2>5. moduleOwning(a.path) = moduleIdForPath(a.path)
    BY <2>1, <2>3, <2>4, OwnedByItsModule
  <2>6. QED  BY <2>4, <2>5 DEF intentModuleOf, proposedModules
<1>2. QED  BY <1>1, RegistryInvariance, PTL

\* A module into which an answer cites a line is reached.
LEMMA CitedIsReached ==
  ASSUME RegistryInv, NEW id, citing(id) # {}
  PROVE  reach(id) # "unreached"
<1>1. IsFiniteSet(citing(id))
  BY FS_Subset DEF citing, liveObserved, live, RegistryInv
<1>2. Cardinality(citing(id)) \in Nat /\ Cardinality(citing(id)) # 0
  BY <1>1, FS_EmptySet, FS_CardinalityType
<1>3. PICK n \in Nat \ {0} : n = Cardinality(citing(id))
  BY <1>2
<1>4. n > 1 \/ n = 1
  BY <1>3
<1>5. reach(id) = CASE n > 1 -> "shared" [] n = 1 -> "cited" [] citing(id) = {} -> "unreached"
  BY <1>3, Zenon DEF reach
<1>6. QED  BY <1>4, <1>5

\* Where no root is, no module is named either.
LEMMA NoNameNoModule ==
  ASSUME RegistryInv, NEW p, Regular(p), moduleRootForPath(p) = <<>>
  PROVE  moduleIdForPath(p) = <<>> /\ <<>> \notin DOMAIN registry
<1>1. moduleIdForPath(p) = <<>>
  BY NoRootNoName DEF moduleIdForPath
<1>2. ASSUME <<>> \in DOMAIN registry
      PROVE  FALSE
  <2>1. PICK r \in deriveModules(ingested) : moduleIdFromPath(r) = <<>>
    BY <1>2, WrittenIfThere DEF Registries
  <2>2. PICK q \in ingested : r = moduleRootForPath(q) /\ r # <<>>
    BY DEF deriveModules
  <2>3. QED  BY <1>1, <2>1, <2>2 DEF Regular, moduleIdForPath
<1>3. QED  BY <1>1, <1>2

\* The question queue suggests no entry point and no module of the registry into
\* which a live answer cites a line, wherever an index died, and no module of a
\* plan once an index that found the cited file has written its modules.
THEOREM TheUnaskedIsUncited == RegistrySpec => []UnaskedMeansUncited
<1>1. RegistryInv => UnaskedMeansUncited
  <2> SUFFICES ASSUME RegistryInv, NEW a \in liveObserved
               PROVE  /\ a.path \notin entryPointCandidates
                      /\ Regular(a.path) =>
                           /\ moduleIdForPath(a.path) \notin moduleCandidates
                           /\ (\/ moduleIdForPath(a.path) \in DOMAIN registry
                               \/ (a.path \in ingested /\ ModulesWritten))
                              => moduleIdForPath(a.path) \notin planCandidates
    BY DEF UnaskedMeansUncited
  <2>1. a.path \notin entryPointCandidates
    BY DEF entryPointCandidates
  <2>2. a.path \in Paths
    BY DEF liveObserved, live, RegistryInv, StoredAnswers
  <2>3. ASSUME Regular(a.path), moduleRootForPath(a.path) # <<>>,
               moduleIdForPath(a.path) \in DOMAIN registry
        PROVE  moduleIdForPath(a.path) \notin planCandidates \cup moduleCandidates
    <3>1. moduleOwning(a.path) = moduleIdForPath(a.path)
      BY <2>2, <2>3, OwnedByItsModule
    <3>2. citing(moduleIdForPath(a.path)) # {}
      BY <3>1 DEF citing
    <3>3. reach(moduleIdForPath(a.path)) # "unreached"
      BY <3>2, CitedIsReached
    <3>4. QED  BY <2>3, <3>3 DEF planCandidates, moduleCandidates
  <2>4. ASSUME Regular(a.path), moduleRootForPath(a.path) = <<>>
        PROVE  moduleIdForPath(a.path) \notin planCandidates \cup moduleCandidates
    <3>1. moduleIdForPath(a.path) = <<>> /\ <<>> \notin DOMAIN registry
      BY <2>4, NoNameNoModule
    <3>2. <<>> \notin planCandidates
      BY DEF planCandidates, RegistryInv
    <3>3. QED  BY <3>1, <3>2 DEF moduleCandidates
  <2>5. ASSUME moduleRootForPath(a.path) # <<>>, a.path \in ingested, ModulesWritten
        PROVE  moduleIdForPath(a.path) \in DOMAIN registry
    BY <2>5, InTheRegistry
  <2>6. moduleIdForPath(a.path) \in moduleCandidates =>
          moduleIdForPath(a.path) \in DOMAIN registry
    BY DEF moduleCandidates
  <2>7. QED  BY <2>1, <2>3, <2>4, <2>5, <2>6
<1>2. QED  BY <1>1, RegistryInvariance, PTL
=============================================================================
