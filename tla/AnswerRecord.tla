---------------------------- MODULE AnswerRecord ----------------------------
(***************************************************************************)
(* Corrections and decisions over one stored answer.  The submitted body   *)
(* is never rewritten: a correction is a row that names a field, what it   *)
(* replaced and what replaces it, and the answer served is the body with   *)
(* the rows applied in the order of their times.                           *)
(*                                                                         *)
(* A browser opens a form over one revision of one field, previews it and  *)
(* confirms; `veriflow decide` reads and writes without a revision.        *)
(* Every statement is a transaction of its own on a database that other    *)
(* processes have open too, so others write between any two of them.       *)
(*                                                                         *)
(* Rows are stamped with the machine's clock in milliseconds: two rows may *)
(* carry one time, and the clock may be set back.                          *)
(***************************************************************************)
EXTENDS Naturals, Sequences, FiniteSets

CONSTANTS
  People,        \* who corrects: browser tabs and terminals
  Prose,         \* the editable prose of the answer
  Required,      \* the prose the contract does not let be empty
  Questions,     \* the open questions of the answer
  HandedIn,      \* of a question, the decision its agent handed it in with
  Missing,       \* the id of a question this answer does not have
  Words,         \* what a person may write
  Blank,         \* the empty text
  MaxRows,       \* bound: how many rows are written
  MaxClock,      \* bound: the last millisecond
  MaxSetBacks    \* bound: how often the clock is set back

ASSUME AnswerAssumption ==
  /\ Required \subseteq Prose
  /\ Prose \cap Questions = {}
  /\ Missing \notin Prose \cup Questions
  /\ Blank \notin Words
  /\ IsFiniteSet(Questions)
  /\ HandedIn \in [Questions -> Words \cup {Blank}]
  /\ MaxClock \in Nat

VARIABLES
  rows,      \* answer_corrections, in the order they were inserted
  clock,     \* the clock the rows are stamped with
  setBacks,  \* how often it was set back
  desk       \* of a person: the form or the request that is under way

answerVars == <<rows, clock, setBacks, desk>>

Editable == Prose \cup Questions

\* The body as it was submitted: prose, and questions; the contract has a field
\* for a decision, and what an agent writes there is kept.
submitted == [f \in Editable |-> IF f \in Prose THEN f ELSE HandedIn[f]]

Idle == [at |-> "idle"]

AnswerInit ==
  /\ rows = <<>>
  /\ clock = 0
  /\ setBacks = 0
  /\ desk = [p \in People |-> Idle]

-----------------------------------------------------------------------------
(* What is served                                                          *)

\* Slip: of two rows of one millisecond the earlier is applied last.
InTimeOrder(r, s) == r.at < s.at \/ (r.at = s.at /\ r.id > s.id)

\* ORDER BY created_at, rowid.
InServedOrder(r, s) == r.at < s.at \/ (r.at = s.at /\ r.id < s.id)

\* readCorrections(): the row that is read last, of some.
LastOf(given) == CHOOSE r \in given : \A s \in given \ {r} : InServedOrder(s, r)

\* A row whose target the answer lacks is set aside.
Replaced(body, r) ==
  IF r.field \in Editable THEN [body EXCEPT ![r.field] = r.corrected] ELSE body

\* Each row in turn: the last one over what the rows before it leave.
applyCorrections(body, given) ==
  LET served[read \in SUBSET given] ==
        IF read = {} THEN body
        ELSE Replaced(served[read \ {LastOf(read)}], LastOf(read))
  IN served[given]

Served(given) == applyCorrections(submitted, given)

Rows == {rows[i] : i \in DOMAIN rows}

effective == Served(Rows)

\* The revision of a field: the last row that corrects it, 0 for the body.
revisionOf(f) ==
  LET own == {r \in Rows : r.field = f}
  IN IF own = {} THEN 0 ELSE LastOf(own).id

undecidedQuestions == Cardinality({q \in Questions : effective[q] = Blank})

\* The count a list row carries, from SQL: the distinct questions that a
\* decision row names, taken from the number that were submitted.
decidedInRow == Cardinality({r.field : r \in {s \in Rows : s.field \notin Prose}})

undecidedInRow ==
  IF decidedInRow > Cardinality(Questions) THEN 0
                                           ELSE Cardinality(Questions) - decidedInRow

-----------------------------------------------------------------------------
(* Writing                                                                 *)

Insert(f, original, corrected, guarded) ==
  rows' = Append(rows, [id |-> Len(rows) + 1, field |-> f, original |-> original,
                        corrected |-> corrected, at |-> clock, guarded |-> guarded])

\* The review page: each field with its value and its revision.
OpenForm(p, f) ==
  /\ desk[p].at = "idle"
  /\ Len(rows) < MaxRows
  /\ f \in Editable
  /\ desk' = [desk EXCEPT ![p] = [at |-> "form", field |-> f,
                                  revision |-> revisionOf(f)]]
  /\ UNCHANGED <<rows, clock, setBacks>>

\* previewCorrection(): the revision is the one the form was opened over, and
\* the text is new and leaves a valid answer.
Passes(form, text) ==
  /\ revisionOf(form.field) = form.revision
  /\ text # effective[form.field]
  /\ text = Blank => form.field \notin Required

\* The preview page makes these checks and writes nothing; confirming makes them
\* once more, of whatever text is posted, so one look stands for both.  A
\* refusal writes nothing either: the person is shown the page as it now is.
Confirm(p, text) ==
  /\ desk[p].at = "form"
  /\ desk' = [desk EXCEPT ![p] =
                IF Passes(desk[p], text)
                THEN [at |-> "confirmed", field |-> desk[p].field,
                      revision |-> desk[p].revision, text |-> text]
                ELSE Idle]
  /\ UNCHANGED <<rows, clock, setBacks>>

\* A decision is the decision service's, which refuses an empty one.
\* decideQuestion() and correctAnswer() read the answer once more: what they
\* say is replaced is what they read here.
ReadAgain(p) ==
  /\ desk[p].at = "confirmed"
  /\ LET d == desk[p]
     IN desk' = [desk EXCEPT ![p] =
                   IF \/ d.field \in Questions /\ d.text = Blank
                      \/ d.field \in Prose /\ ~Passes(d, d.text)
                   THEN Idle
                   ELSE [at |-> "writing", field |-> d.field, revision |-> d.revision,
                         text |-> d.text, original |-> effective[d.field]]]
  /\ UNCHANGED <<rows, clock, setBacks>>

\* Slip: the revision is checked by the read and not by the write.
InsertAnyway(p) ==
  /\ desk[p].at = "writing"
  /\ Len(rows) < MaxRows
  /\ LET d == desk[p] IN Insert(d.field, d.original, d.text, TRUE)
  /\ desk' = [desk EXCEPT ![p] = Idle]
  /\ UNCHANGED <<clock, setBacks>>

\* insertCorrectionIfRevision(): the check and the row are one transaction.
InsertIfRevision(p) ==
  /\ desk[p].at = "writing"
  /\ Len(rows) < MaxRows
  /\ LET d == desk[p]
     IN IF revisionOf(d.field) = d.revision
        THEN Insert(d.field, d.original, d.text, TRUE)
        ELSE UNCHANGED rows
  /\ desk' = [desk EXCEPT ![p] = Idle]
  /\ UNCHANGED <<clock, setBacks>>

\* Slip: any id is decided.
BeginDecideAny(p, q, text) ==
  /\ desk[p].at = "idle"
  /\ Len(rows) < MaxRows
  /\ text # Blank
  /\ desk' = [desk EXCEPT ![p] = [at |-> "deciding", field |-> q, text |-> text,
                                  original |-> Blank]]
  /\ UNCHANGED <<rows, clock, setBacks>>

\* `veriflow decide` reads the answer, and refuses a question it does not have
\* and an empty decision ...
BeginDecide(p, q, text) ==
  /\ desk[p].at = "idle"
  /\ Len(rows) < MaxRows
  /\ q \in Questions
  /\ text # Blank
  /\ desk' = [desk EXCEPT ![p] = [at |-> "deciding", field |-> q, text |-> text,
                                  original |-> effective[q]]]
  /\ UNCHANGED <<rows, clock, setBacks>>

\* ... and writes without a revision: changing one's mind is two rows.
Decide(p) ==
  /\ desk[p].at = "deciding"
  /\ Len(rows) < MaxRows
  /\ Insert(desk[p].field, desk[p].original, desk[p].text, FALSE)
  /\ desk' = [desk EXCEPT ![p] = Idle]
  /\ UNCHANGED <<clock, setBacks>>

\* A person closes the tab, or the process ends.
Leave(p) ==
  /\ desk[p].at # "idle"
  /\ desk' = [desk EXCEPT ![p] = Idle]
  /\ UNCHANGED <<rows, clock, setBacks>>

Tick ==
  /\ clock < MaxClock
  /\ clock' = clock + 1
  /\ UNCHANGED <<rows, setBacks, desk>>

SetBack ==
  /\ clock > 0
  /\ setBacks < MaxSetBacks
  /\ clock' = clock - 1
  /\ setBacks' = setBacks + 1
  /\ UNCHANGED <<rows, desk>>

AnswerNext ==
  \/ \E p \in People :
       \/ \E f \in Editable : OpenForm(p, f)
       \/ \E text \in Words \cup {Blank} :
            \/ Confirm(p, text)
            \/ \E q \in Questions \cup {Missing} : BeginDecide(p, q, text)
       \/ ReadAgain(p)
       \/ InsertIfRevision(p)
       \/ Decide(p)
       \/ Leave(p)
  \/ Tick
  \/ SetBack

AnswerSpec == AnswerInit /\ [][AnswerNext]_answerVars

-----------------------------------------------------------------------------
(* Properties                                                              *)

\* A correction that was confirmed in the browser says truthfully what it
\* replaced: its original is the value that was served when it was written,
\* whoever wrote in between and whatever the clock did.
OriginalIsWhatWasServed ==
  \A r \in Rows :
    r.guarded => r.original = Served({s \in Rows : s.id < r.id})[r.field]

\* Of the rows about one field the one written last is served, rows of one
\* millisecond included, as long as nobody set the clock back.
LastRowIsServed ==
  setBacks = 0 =>
    \A i \in DOMAIN rows :
      (\A j \in DOMAIN rows : j > i => rows[j].field # rows[i].field)
        => effective[rows[i].field] = rows[i].corrected

\* The number of open questions a list shows, counted by SQL over the rows, is
\* the number the answer itself shows, counted over the body with its rows
\* applied, and one more for each question that an agent handed in decided and
\* no person has decided.  (So the two are equal for an answer whose agent
\* decided nothing, and a row of a person brings them together.)
CountsAgree ==
  undecidedInRow =
    undecidedQuestions
      + Cardinality({q \in Questions : HandedIn[q] # Blank /\ revisionOf(q) = 0})

\* What a reader is served is the current state of an answer, in its page and
\* in the lists, whoever wrote last and in whatever order.
ServedIsCurrent == LastRowIsServed /\ CountsAgree
=============================================================================
