------------------------------ MODULE Freshness ------------------------------
(***************************************************************************)
(* Does a stored answer still describe the code?  The index hashes the     *)
(* files; an answer's citations are checked and stored when it is handed   *)
(* in; later the cheap estimate compares hashes, and a verification        *)
(* locates every citation again in the files that changed.  A verification *)
(* is stored under the fingerprint of the files it looked at, and served   *)
(* instead of the estimate while the files have that fingerprint.          *)
(*                                                                         *)
(* A file is the sequence of its lines; a hash of a file or of a line is   *)
(* what it hashes.  Of a line only this is known: which line it is, and    *)
(* whether it names the symbol that citations cite.                        *)
(***************************************************************************)
EXTENDS Naturals, Sequences, FiniteSets, SequencesExt, FiniteSetsExt

CONSTANTS
  Files,      \* the files of the repository
  Lines,      \* what a line may say
  Naming,     \* the lines that name the cited symbol
  Gone,       \* there is no such file
  Unhashed,   \* the snapshot has no hash of the file
  NoHash,     \* a citation without a line hash
  Originals,  \* what a file may say when the tree is indexed
  MaxLength,  \* bound: lines in a file
  Window,     \* how far from the cited line its symbol may stand
  Citable,    \* the citations an agent may hand in
  MaxEdits,   \* bound: how often files change
  MaxChecks   \* bound: how many verifications are stored

ASSUME FreshnessAssumption ==
  /\ Naming \subseteq Lines
  /\ NoHash \notin Lines
  /\ Originals \subseteq UNION {[1..n -> Lines] : n \in 1..MaxLength}
  /\ \A c \in Citable : c.path \in Files /\ c.line \in Nat /\ c.entry \in BOOLEAN

Texts == UNION {[1..n -> Lines] : n \in 1..MaxLength}

VARIABLES
  tree,      \* what each file says now
  recorded,  \* file_hashes of the snapshot
  answer,    \* the stored citations, {} until one is handed in
  astray,    \* the answer was handed in over files the snapshot does not describe
  check,     \* the verification that is under way
  verified,  \* the stored verifications, in order
  edits      \* how often files changed

freshVars == <<tree, recorded, answer, astray, check, verified, edits>>

NoCheck == [at |-> "none"]

FreshInit ==
  /\ tree \in [Files -> Originals]
  /\ recorded \in {r \in [Files -> Originals \cup {Unhashed}] :
                     \A f \in Files : r[f] \in {tree[f], Unhashed}}
  /\ answer = {}
  /\ astray = FALSE
  /\ check = NoCheck
  /\ verified = <<>>
  /\ edits = 0

-----------------------------------------------------------------------------
(* Citations                                                               *)

\* A citation with no line names code that is not written yet.
isIntent(c) == c.line = 0

observed(citations) == {c \in citations : ~isIntent(c)}

\* The window around a line, cut at the ends of the file.
nearbyContains(text, line) ==
  \E i \in DOMAIN text : i + Window >= line /\ i <= line + Window /\ text[i] \in Naming

\* verifyOneCitation(): what is stored of a citation when it is handed in.
\* `inside` says that the index declares the symbol around the cited line.
verifyOneCitation(c, inside) ==
  LET text == tree[c.path]
      holds == /\ text # Gone
               /\ c.line \in DOMAIN text
               /\ c.symbol => inside \/ nearbyContains(text, c.line)
  IN [path |-> c.path, line |-> c.line, symbol |-> c.symbol, entry |-> c.entry,
      state |-> IF isIntent(c) THEN "intent" ELSE IF holds THEN "verified" ELSE "unverified",
      hash |-> IF ~isIntent(c) /\ holds THEN text[c.line] ELSE NoHash]

\* locate(), one pass: the hits of one anchor, nearest to the line it was at,
\* the one above before the one below.
Nearest(hits, line) ==
  CHOOSE i \in hits :
    \A j \in hits : LET Far(k) == IF k < line THEN 2 * (line - k)
                                             ELSE 2 * (k - line) + 1
                    IN Far(i) <= Far(j)

\* The line hash is tried first, then the symbol; 0 when neither is there.
locate(text, c) ==
  LET byHash == {i \in DOMAIN text : text[i] = c.hash}
      bySymbol == {i \in DOMAIN text : c.symbol /\ text[i] \in Naming}
  IN IF byHash # {} THEN Nearest(byHash, c.line)
     ELSE IF bySymbol # {} THEN Nearest(bySymbol, c.line)
     ELSE 0

-----------------------------------------------------------------------------
(* The ladder                                                              *)

classifyFreshness(counts) ==
  IF counts.entryUnits > 0 /\ counts.entryMissing >= counts.entryUnits THEN "broken"
  ELSE IF counts.changed = 0 THEN "fresh"
  ELSE IF counts.missing > 0 THEN "stale"
  ELSE "drifted"

Rank(state) ==
  CASE state = "fresh" -> 0
    [] state = "drifted" -> 1
    [] state = "stale" -> 2
    [] state = "broken" -> 3

\* fileStates(): each cited file against its hash.  A file that is gone has
\* changed; one that was never hashed has not.
fileState(f, now) ==
  [missing |-> now = Gone,
   changed |-> now = Gone \/ (recorded[f] # Unhashed /\ recorded[f] # now),
   unknown |-> now # Gone /\ recorded[f] = Unhashed]

paths(citations) == {c.path : c \in observed(citations)}

\* What each of the cited files says, in one look.
Look(citations) == [f \in paths(citations) |-> tree[f]]

entryPathsOf(citations) == {c.path : c \in {d \in observed(citations) : d.entry}}

\* freshnessFromStates(): the estimate counts files.
estimate(citations, seen) ==
  LET changed == {f \in DOMAIN seen : fileState(f, seen[f]).changed}
      missing == {f \in DOMAIN seen : fileState(f, seen[f]).missing}
      entry == entryPathsOf(citations)
  IN classifyFreshness([changed |-> Cardinality(changed),
                        missing |-> Cardinality(missing),
                        entryUnits |-> Cardinality(entry),
                        entryMissing |-> Cardinality(entry \cap missing)])

-----------------------------------------------------------------------------
(* Verification                                                            *)

\* linesOf(): a file is read again unless it is the one that was hashed.
Searched(state, full) == ~state.missing /\ (state.changed \/ state.unknown \/ full)

\* verifyCitation(): the outcome of one citation.  A file that is as it was
\* hashed settles it, whatever a full search finds; so does one that cannot be
\* read any more.
outcome(c, state, text, full) ==
  LET found == IF text = Gone THEN 0 ELSE locate(text, c)
  IN CASE state.missing -> "file-missing"
       [] ~state.missing /\ (~Searched(state, full) \/ text = Gone) -> "resolved"
       [] OTHER ->
            IF (~state.unknown /\ ~state.changed) \/ found = c.line THEN "resolved"
            ELSE IF found # 0 THEN "drifted"
            ELSE IF state.unknown \/ c.hash # NoHash \/ c.symbol THEN "missing"
            ELSE "drifted"

\* Slip: only what a search missed is lost, not what went with its file.
LostInSearch == {"missing"}

Lost == {"missing", "file-missing"}

\* classify(): the ladder over citations.  `seen` is what the hashes were of,
\* `text` what the search read.
verifyAnswer(citations, seen, text, full) ==
  LET result(c) == outcome(c, fileState(c.path, seen[c.path]), text[c.path], full)
      lost == {c \in observed(citations) : result(c) \in Lost}
      entry == {c \in observed(citations) : c.entry}
  IN classifyFreshness([changed |-> Cardinality({f \in DOMAIN seen : fileState(f, seen[f]).changed}),
                        missing |-> Cardinality(lost),
                        entryUnits |-> Cardinality(entry),
                        entryMissing |-> Cardinality(entry \cap lost)])

-----------------------------------------------------------------------------
(* The steps                                                               *)

Edit(f, text) ==
  /\ edits < MaxEdits
  /\ tree[f] # text
  /\ tree' = [tree EXCEPT ![f] = text]
  /\ edits' = edits + 1
  /\ UNCHANGED <<recorded, answer, astray, check, verified>>

\* submit_flow_answer: the citations are checked against the files as they are,
\* and stored with the lines they cite.
Submit(cited, declared) ==
  /\ answer = {}
  /\ cited # {} /\ IsFiniteSet(cited)
  /\ answer' = {verifyOneCitation(c, c \in declared) : c \in cited}
  /\ astray' = \E f \in Files : recorded[f] \notin {tree[f], Unhashed}
  /\ UNCHANGED <<tree, recorded, check, verified, edits>>

\* verifyAnswer() hashes the cited files ...
BeginVerify(full) ==
  /\ answer # {}
  /\ check.at = "none"
  /\ Len(verified) < MaxChecks
  /\ check' = [at |-> "hashed", seen |-> Look(answer), full |-> full]
  /\ UNCHANGED <<tree, recorded, answer, astray, verified, edits>>

\* ... reads the ones it has to search, which by now may say something else,
\* and `veriflow verify` stores the outcome under the hashes.
StoreVerification ==
  /\ check.at = "hashed"
  /\ verified' = Append(verified,
       [fingerprint |-> check.seen,
        state |-> verifyAnswer(answer, check.seen,
                               Look(answer), check.full),
        torn |-> check.seen # Look(answer)])
  /\ check' = NoCheck
  /\ UNCHANGED <<tree, recorded, answer, astray, edits>>

FreshNext ==
  \/ \E f \in Files, text \in Texts \cup {Gone} : Edit(f, text)
  \/ \E cited \in SUBSET Citable, declared \in SUBSET Citable :
       declared \subseteq cited /\ Cardinality(cited) <= 2 /\ Submit(cited, declared)
  \/ \E full \in BOOLEAN : BeginVerify(full)
  \/ StoreVerification

FreshSpec == FreshInit /\ [][FreshNext]_freshVars

Unverified == [state |-> "none", torn |-> FALSE]

\* Slip: the last verification, whatever the files said then.
lastVerification ==
  IF verified = <<>> THEN Unverified ELSE verified[Len(verified)]

\* preferVerification(): the last verification of the files as they are now
\* stands for the estimate.
verificationFor ==
  LET same == {i \in DOMAIN verified : verified[i].fingerprint = Look(answer)}
  IN IF same = {} THEN Unverified ELSE verified[Max(same)]

-----------------------------------------------------------------------------
(* Properties                                                              *)

\* A verification only ever escalates the estimate, searched in full or not: it
\* may find what hashes cannot show and never overlooks what they do.
OnlyEscalates ==
  \A full \in BOOLEAN :
    LET seen == Look(answer)
    IN Rank(verifyAnswer(answer, seen, seen, full)) >= Rank(estimate(answer, seen))

\* What is vouched for is there: while a verification that says fresh or drifted
\* is served, every citation that held when the answer was handed in can be
\* located in its file, moved or not.  It is promised of files the snapshot
\* hashed, of answers handed in over the tree that was indexed, and of
\* verifications during which no cited file changed.
VouchedForIsThere ==
  LET served == verificationFor
  IN (answer # {} /\ served.state \in {"fresh", "drifted"} /\ ~served.torn /\ ~astray) =>
       \A c \in observed(answer) :
         (c.state = "verified" /\ recorded[c.path] # Unhashed) =>
           /\ tree[c.path] # Gone
           /\ locate(tree[c.path], c) # 0
=============================================================================
