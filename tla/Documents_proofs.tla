-------------------------- MODULE Documents_proofs --------------------------
(***************************************************************************)
(* What every writer of a document may rely on: the sibling and the        *)
(* claimed name belong to somebody (NoLeftovers), a rename puts there what *)
(* was shown (WritesWhatWasShown), the registry of PRDs follows the file   *)
(* (RegistryFollowsTheFile), and an install writes all of its files or     *)
(* none (InstallsAllOrNothing).  And what a PRD's reader may: a comparison *)
(* of an answer with it never claims more than was checked                 *)
(* (AssessmentsAreGrounded).                                               *)
(*                                                                         *)
(* The first part is about prepareWrite() and its commit and abort alone,  *)
(* one lemma per step, for whatever the caller remembers of a job; an      *)
(* export and a PRD update are then each a few cases over those lemmas.    *)
(***************************************************************************)
EXTENDS ExportDocument, PrdUpdate, AgentInstall, FlowSubmission, TLAPS

-----------------------------------------------------------------------------
(* The invariant of a write                                                *)

Stages == {"checked", "claimed", "staged", "written", "registered", "recorded"}

\* The jobs of a writer that has prepared a write; Extras is what the callers
\* remember of one.
Active(Extras) ==
  [at : Stages, mode : {"create", "update"}, seen : Texts \cup {NoText, Blank},
   expected : Texts \cup {NoText}, text : Texts, claimed : BOOLEAN,
   passed : BOOLEAN, extra : Extras]

OverJobs ==
  [at : {"over"}, outcome : {"conflict", "error", "declined", "killed", "done"}]

Jobs(Extras) == {Free} \cup OverJobs \cup Active(Extras)

WriteTypes(Extras) ==
  /\ file \in Texts \cup {NoText, Blank}
  /\ tmp \in Texts \cup {NoText, Blank}
  /\ left \in BOOLEAN
  /\ torn \in BOOLEAN
  /\ job \in [Writers -> Jobs(Extras)]

\* A text in the sibling is the work of a writer that may still take it away,
\* or of one that was killed; without a text it is what is left of a write that
\* was cut short.
SiblingIsOwned ==
  /\ tmp \in Texts => left \/ \E w \in Writers : job[w].at = "staged"
  /\ tmp = Blank => left \/ torn

\* The name a writer has claimed, until it is done.
Holds(w) == job[w].at \in {"claimed", "staged"} /\ job[w].claimed = TRUE

\* An empty file is such a name, or such a sibling.
NameIsOwned ==
  file = Blank => left \/ torn \/ \E w \in Writers : Holds(w)

\* A writer that nobody passed still sees what it looked at, and its bytes are
\* in the sibling.
Sees(w) ==
  /\ job[w].at = "checked" /\ job[w].passed = FALSE =>
       /\ job[w].mode = "create" => file = NoText
       /\ job[w].mode = "update" => file = job[w].expected
  /\ job[w].at = "claimed" /\ job[w].passed = FALSE =>
       job[w].mode = "create" /\ file = Blank /\ job[w].claimed = TRUE
  /\ job[w].at = "staged" /\ job[w].passed = FALSE =>
       /\ tmp = job[w].text
       /\ job[w].mode = "create" => file = Blank /\ job[w].claimed = TRUE
       /\ job[w].mode = "update" => file = job[w].expected

WriteInv(Extras) ==
  /\ WriteTypes(Extras)
  /\ SiblingIsOwned
  /\ NameIsOwned
  /\ \A w \in Writers : Sees(w)

\* The step that WritesWhatWasShown is about.
ShownStep ==
  \A w \in Writers :
    job[w].at = "staged" /\ job'[w].at = "written" /\ ~job[w].passed =>
      /\ file' = job[w].text
      /\ job[w].mode = "update" => file = job[w].expected
      /\ job[w].mode = "create" => file = Blank /\ job[w].claimed

\* What a step of one writer leaves of the others' jobs.
Apart(w) ==
  \A v \in Writers \ {w} :
    /\ job'[v].at = job[v].at
    /\ job[v].at \in Stages => job'[v].extra = job[v].extra /\ job'[v].text = job[v].text

-----------------------------------------------------------------------------
(* Jobs                                                                    *)

\* A job tells by its place what it is.
LEMMA JobKinds ==
  ASSUME NEW E, NEW j \in Jobs(E)
  PROVE  /\ j.at \in Stages <=> j \in Active(E)
         /\ j.at \in {"free", "over"} \cup Stages
  BY DEF Jobs, Free, OverJobs, Active, Stages

LEMMA OverFits ==
  ASSUME NEW E, NEW how \in {"conflict", "error", "declined", "killed", "done"}
  PROVE  /\ [at |-> "over", outcome |-> how] \in Jobs(E)
         /\ [at |-> "over", outcome |-> how].at = "over"
  BY DEF Jobs, OverJobs

\* Being passed changes nothing else of a job.
LEMMA PassedFits ==
  ASSUME NEW E, NEW j \in Active(E)
  PROVE  /\ [j EXCEPT !.passed = TRUE] \in Active(E)
         /\ [j EXCEPT !.passed = TRUE].passed = TRUE
         /\ [j EXCEPT !.passed = TRUE].at = j.at
         /\ [j EXCEPT !.passed = TRUE].claimed = j.claimed
         /\ [j EXCEPT !.passed = TRUE].extra = j.extra
         /\ [j EXCEPT !.passed = TRUE].text = j.text
  BY DEF Active

\* Nor does a step forward.
LEMMA MovedFits ==
  ASSUME NEW E, NEW j \in Active(E), NEW s \in Stages
  PROVE  /\ [j EXCEPT !.at = s] \in Active(E)
         /\ [j EXCEPT !.at = s].at = s
         /\ [j EXCEPT !.at = s].extra = j.extra
         /\ [j EXCEPT !.at = s].text = j.text
  BY DEF Active

\* When a writer passes the others nothing is left to say of what they see.
LEMMA PassedOnes ==
  ASSUME NEW E, WriteTypes(E), NEW w \in Writers, NEW v \in Writers \ {w}
  PROVE  /\ Passed(w)[v] \in Jobs(E)
         /\ Passed(w)[v].at = job[v].at
         /\ job[v].at \in {"checked", "claimed", "staged"} => Passed(w)[v].passed = TRUE
         /\ job[v].at \in {"claimed", "staged"} => Passed(w)[v].claimed = job[v].claimed
         /\ job[v].at \in Stages =>
              /\ Passed(w)[v].extra = job[v].extra
              /\ Passed(w)[v].text = job[v].text
<1>1. job[v] \in Jobs(E)
  BY DEF WriteTypes
<1>2. CASE Busy(v)
  <2>1. job[v] \in Active(E)
    BY <1>1, <1>2, JobKinds DEF Busy, Stages
  <2>2. Passed(w)[v] = [job[v] EXCEPT !.passed = TRUE]
    BY <1>2 DEF Passed
  <2> QED BY <2>1, <2>2, PassedFits DEF Jobs
<1>3. CASE ~Busy(v)
  <2>1. Passed(w)[v] = job[v]
    BY <1>3 DEF Passed
  <2> QED BY <1>1, <1>3, <2>1 DEF Busy
<1> QED BY <1>2, <1>3

LEMMA PassedSelf ==
  ASSUME NEW E, WriteTypes(E), NEW w \in Writers
  PROVE  /\ Passed(w)[w] = job[w]
         /\ Passed(w) \in [Writers -> Jobs(E)]
<1>1. Passed(w)[w] = job[w] /\ job[w] \in Jobs(E)
  BY DEF Passed, WriteTypes
<1>2. \A v \in Writers : Passed(w)[v] \in Jobs(E)
  BY <1>1, PassedOnes
<1> QED BY <1>1, <1>2 DEF Passed

\* A step of one writer that passes the others.
LEMMA PassingOthers ==
  ASSUME NEW E, WriteTypes(E), NEW w \in Writers, NEW j \in Jobs(E),
         job' = [Passed(w) EXCEPT ![w] = j]
  PROVE  /\ job' \in [Writers -> Jobs(E)]
         /\ job'[w] = j
         /\ Apart(w)
         /\ \A v \in Writers \ {w} :
              /\ Sees(v)'
              /\ job[v].at \in {"claimed", "staged"} => job'[v].claimed = job[v].claimed
<1>1. Passed(w) \in [Writers -> Jobs(E)]
  BY PassedSelf
<1>2. job' \in [Writers -> Jobs(E)] /\ job'[w] = j
  BY <1>1
<1>3. \A v \in Writers \ {w} : job'[v] = Passed(w)[v]
  BY <1>1
<1>4. \A v \in Writers \ {w} :
        /\ job'[v].at = job[v].at
        /\ job[v].at \in {"checked", "claimed", "staged"} => job'[v].passed = TRUE
        /\ job[v].at \in {"claimed", "staged"} => job'[v].claimed = job[v].claimed
        /\ job[v].at \in Stages =>
             job'[v].extra = job[v].extra /\ job'[v].text = job[v].text
  <2> SUFFICES ASSUME NEW v \in Writers \ {w}
               PROVE  /\ Passed(w)[v].at = job[v].at
                      /\ job[v].at \in {"checked", "claimed", "staged"} => Passed(w)[v].passed = TRUE
                      /\ job[v].at \in {"claimed", "staged"} => Passed(w)[v].claimed = job[v].claimed
                      /\ job[v].at \in Stages =>
                           /\ Passed(w)[v].extra = job[v].extra
                           /\ Passed(w)[v].text = job[v].text
    BY <1>3
  <2> QED BY PassedOnes
<1>5. Apart(w)
  BY <1>4 DEF Apart
<1>6. \A v \in Writers \ {w} : Sees(v)'
  BY <1>4 DEF Sees
<1> QED BY <1>2, <1>4, <1>5, <1>6

\* A step of one writer that leaves the others, the document and the sibling
\* alone.
LEMMA LeavingOthers ==
  ASSUME NEW E, WriteInv(E), NEW w \in Writers, NEW j \in Jobs(E),
         job' = [job EXCEPT ![w] = j], UNCHANGED <<file, tmp>>
  PROVE  /\ job' \in [Writers -> Jobs(E)]
         /\ job'[w] = j
         /\ Apart(w)
         /\ \A v \in Writers \ {w} : Sees(v)' /\ job'[v] = job[v]
<1>1. job \in [Writers -> Jobs(E)]
  BY DEF WriteInv, WriteTypes
<1>2. job' \in [Writers -> Jobs(E)] /\ job'[w] = j
  BY <1>1
<1>3. \A v \in Writers \ {w} : job'[v] = job[v]
  BY <1>1
<1>4. Apart(w)
  BY <1>3 DEF Apart
<1>5. ASSUME NEW v \in Writers \ {w} PROVE Sees(v)'
  BY <1>3 DEF Sees, WriteInv
<1> QED BY <1>2, <1>3, <1>4, <1>5

\* Only the writer whose place becomes "written" shows anything.
LEMMA NothingShown ==
  ASSUME NEW w \in Writers, Apart(w), job'[w].at # "written"
  PROVE  ShownStep
  BY DEF ShownStep, Apart

-----------------------------------------------------------------------------
(* The steps of a write                                                    *)

\* Ending a write that has nothing in the sibling, or moving one that is
\* renamed, leaves everything as it is.
LEMMA MoveKeeps ==
  ASSUME NEW E, WriteInv(E), NEW w \in Writers, NEW j \in Jobs(E),
         job[w].at \notin {"claimed", "staged"},
         j.at \notin {"checked", "claimed", "staged", "written"},
         job' = [job EXCEPT ![w] = j], UNCHANGED <<file, tmp, left, torn>>
  PROVE  WriteInv(E)' /\ Apart(w) /\ ShownStep
<1>1. /\ job' \in [Writers -> Jobs(E)] /\ job'[w] = j /\ Apart(w)
      /\ \A v \in Writers \ {w} : Sees(v)' /\ job'[v] = job[v]
  BY LeavingOthers
<1>2. WriteTypes(E)'
  BY <1>1 DEF WriteTypes, WriteInv
<1>3. Sees(w)'
  BY <1>1 DEF Sees
<1>4. SiblingIsOwned' /\ NameIsOwned'
  BY <1>1 DEF SiblingIsOwned, NameIsOwned, Holds, WriteInv
<1>5. ShownStep
  BY <1>1, NothingShown
<1> QED BY <1>1, <1>2, <1>3, <1>4, <1>5 DEF WriteInv

LEMMA CheckKeeps ==
  ASSUME NEW E, WriteInv(E), NEW w \in Writers, NEW extra \in E,
         NEW mode \in {"create", "update"}, NEW text \in Texts,
         NEW expected \in Texts \cup {NoText},
         Check(w, mode, expected, text, extra)
  PROVE  /\ WriteInv(E)' /\ Apart(w) /\ ShownStep
         /\ job[w].at \notin Stages
         /\ job'[w].at \in {"checked", "over"}
         /\ job'[w].at = "checked" =>
              job'[w].extra = extra /\ job'[w].text = text
<1> DEFINE new == [at |-> "checked", mode |-> mode, seen |-> file,
                   expected |-> expected, text |-> text, claimed |-> FALSE,
                   passed |-> FALSE, extra |-> extra]
           refusal == [at |-> "over", outcome |-> "conflict"]
<1>1. job[w].at \in {"free", "over"} /\ UNCHANGED <<file, tmp, left, torn>>
  BY DEF Check
<1>2. job[w].at \notin Stages
  BY <1>1 DEF Stages
<1>3. CASE Refused(mode, expected)
  <2>1. job' = [job EXCEPT ![w] = refusal]
    BY <1>3 DEF Check
  <2>2. refusal \in Jobs(E) /\ refusal.at = "over"
    BY OverFits
  <2>3. WriteInv(E)' /\ Apart(w) /\ ShownStep
    BY <1>1, <2>1, <2>2, MoveKeeps
  <2>4. job'[w] = refusal
    BY <2>1 DEF WriteInv, WriteTypes
  <2> QED BY <1>2, <2>2, <2>3, <2>4
<1>4. CASE ~Refused(mode, expected)
  <2>1. job' = [job EXCEPT ![w] = new]
    BY <1>4 DEF Check
  <2>2. new \in Active(E)
    BY DEF Active, Stages, WriteInv, WriteTypes
  <2>3. new \in Jobs(E)
    BY <2>2 DEF Jobs
  <2> HIDE DEF new
  <2>4. /\ job' \in [Writers -> Jobs(E)] /\ job'[w] = new /\ Apart(w)
        /\ \A v \in Writers \ {w} : Sees(v)' /\ job'[v] = job[v]
    BY <1>1, <2>1, <2>3, LeavingOthers
  <2>5. /\ new.at = "checked" /\ new.mode = mode /\ new.expected = expected
        /\ new.extra = extra /\ new.text = text
    BY DEF new
  <2>6. WriteTypes(E)'
    BY <1>1, <2>4 DEF WriteTypes, WriteInv
  <2>7. Sees(w)'
    BY <1>1, <1>4, <2>4, <2>5 DEF Sees, Refused
  <2>8. SiblingIsOwned' /\ NameIsOwned'
    BY <1>1, <2>4 DEF SiblingIsOwned, NameIsOwned, Holds, WriteInv
  <2>9. ShownStep
    BY <2>4, <2>5, NothingShown
  <2> QED BY <1>2, <2>4, <2>5, <2>6, <2>7, <2>8, <2>9 DEF WriteInv
<1> QED BY <1>3, <1>4

\* Ending a write and passing the others.  What is in the sibling and under the
\* claimed name goes, unless it is somebody else's, or something was cut short.
LEMMA OverKeeps ==
  ASSUME NEW E, WriteInv(E), NEW w \in Writers,
         NEW how \in {"conflict", "error", "declined", "killed", "done"},
         job' = Over(w, how),
         left' \in BOOLEAN, left => left', torn' \in BOOLEAN, torn => torn',
         \/ tmp' = tmp /\ job[w].at # "staged"
         \/ tmp' = NoText
         \/ tmp' = Blank /\ (left' \/ torn'),
         file' \in {file, NoText},
         Holds(w) => file' = NoText \/ left'
  PROVE  WriteInv(E)' /\ Apart(w) /\ ShownStep /\ job'[w].at = "over"
<1> DEFINE j == [at |-> "over", outcome |-> how]
<1>1. j \in Jobs(E) /\ j.at = "over"
  BY OverFits
<1>2. job' = [Passed(w) EXCEPT ![w] = j]
  BY DEF Over
<1> HIDE DEF j
<1>3. WriteTypes(E)
  BY DEF WriteInv
<1>4. /\ job' \in [Writers -> Jobs(E)] /\ job'[w] = j /\ Apart(w)
      /\ \A v \in Writers \ {w} :
           /\ Sees(v)'
           /\ job[v].at \in {"claimed", "staged"} => job'[v].claimed = job[v].claimed
  BY <1>1, <1>2, <1>3, PassingOthers
<1>5. WriteTypes(E)'
  BY <1>3, <1>4 DEF WriteTypes
<1>6. Sees(w)'
  BY <1>1, <1>4 DEF Sees
<1>7. SiblingIsOwned'
  BY <1>4, TextsAssumption DEF SiblingIsOwned, WriteInv, Apart
<1>8. NameIsOwned'
  <2> SUFFICES ASSUME file' = Blank, ~left', ~torn'
               PROVE  \E v \in Writers : Holds(v)'
    BY DEF NameIsOwned
  <2>1. file = Blank /\ ~Holds(w)
    BY TextsAssumption
  <2>2. PICK v \in Writers : Holds(v)
    BY <2>1 DEF WriteInv, NameIsOwned
  <2>3. v # w
    BY <2>1, <2>2
  <2> QED BY <1>4, <2>2, <2>3 DEF Apart, Holds
<1>9. ShownStep
  BY <1>1, <1>4, NothingShown
<1> QED BY <1>1, <1>4, <1>5, <1>6, <1>7, <1>8, <1>9 DEF WriteInv

\* A job that has a claim or needs none.
LEMMA ReadyOnes ==
  ASSUME NEW E, WriteInv(E), NEW w \in Writers, Ready(w)
  PROVE  /\ job[w].at \in {"checked", "claimed"}
         /\ job[w] \in Active(E)
         /\ Holds(w) => job[w].claimed
<1>1. job[w].at \in {"checked", "claimed"}
  BY DEF Ready
<1> QED BY <1>1, JobKinds DEF WriteInv, WriteTypes, Stages, Holds

LEMMA StageFailsKeeps ==
  ASSUME NEW E, WriteInv(E), NEW w \in Writers, StageFails(w)
  PROVE  /\ WriteInv(E)' /\ Apart(w) /\ ShownStep
         /\ job[w].at \in {"checked", "claimed"} /\ job'[w].at = "over"
         /\ file' \in {file, NoText}
<1>1. /\ Ready(w) /\ job' = Over(w, "error") /\ UNCHANGED left
      /\ tmp' \in {tmp, Blank} /\ torn' = (torn \/ tmp' = Blank)
      /\ file' = IF job[w].claimed THEN NoText ELSE file
  BY DEF StageFails
<1>2. job[w].at \in {"checked", "claimed"} /\ (Holds(w) => job[w].claimed)
  BY <1>1, ReadyOnes
<1>3. left' \in BOOLEAN /\ torn' \in BOOLEAN
  BY <1>1 DEF WriteInv, WriteTypes
<1> QED BY <1>1, <1>2, <1>3, OverKeeps

LEMMA CutShortKeeps ==
  ASSUME NEW E, WriteInv(E), NEW w \in Writers, CutShort(w)
  PROVE  /\ WriteInv(E)' /\ Apart(w) /\ ShownStep
         /\ job[w].at \in {"checked", "claimed"} /\ job'[w].at = "over"
         /\ UNCHANGED file
<1>1. /\ Ready(w) /\ job' = Over(w, "killed") /\ UNCHANGED <<file, torn>>
      /\ tmp' = Blank /\ left' = TRUE
  BY DEF CutShort
<1>2. job[w].at \in {"checked", "claimed"}
  BY <1>1, ReadyOnes
<1>3. torn' \in BOOLEAN
  BY <1>1 DEF WriteInv, WriteTypes
<1> QED BY <1>1, <1>2, <1>3, OverKeeps

LEMMA AbortKeeps ==
  ASSUME NEW E, WriteInv(E), NEW w \in Writers,
         NEW how \in {"error", "declined"}, Abort(w, how)
  PROVE  /\ WriteInv(E)' /\ Apart(w) /\ ShownStep
         /\ job[w].at = "staged" /\ job'[w].at = "over"
<1>1. /\ job[w].at = "staged" /\ job' = Over(w, how) /\ UNCHANGED <<left, torn>>
      /\ tmp' = NoText
      /\ file' = IF job[w].claimed THEN NoText ELSE file
  BY DEF Abort
<1>2. left \in BOOLEAN /\ torn \in BOOLEAN
  BY DEF WriteInv, WriteTypes
<1>3. Holds(w) => file' = NoText
  BY <1>1 DEF Holds
<1> QED BY <1>1, <1>2, <1>3, OverKeeps

\* A step of a writer's own that stays a write, and passes the others.
LEMMA OwnStepKeeps ==
  ASSUME NEW E, WriteInv(E), NEW w \in Writers, NEW j \in Active(E),
         job[w].at \in Stages,
         j.at \in {"claimed", "staged"},
         j.extra = job[w].extra, j.text = job[w].text,
         job' = [Passed(w) EXCEPT ![w] = j]
  PROVE  /\ job' \in [Writers -> Jobs(E)] /\ job'[w] = j
         /\ Apart(w) /\ ShownStep
         /\ \A v \in Writers \ {w} :
              /\ Sees(v)'
              /\ job[v].at \in {"claimed", "staged"} => job'[v].claimed = job[v].claimed
<1>1. WriteTypes(E) /\ j \in Jobs(E)
  BY DEF WriteInv, Jobs
<1>2. /\ job' \in [Writers -> Jobs(E)] /\ job'[w] = j /\ Apart(w)
      /\ \A v \in Writers \ {w} :
           /\ Sees(v)'
           /\ job[v].at \in {"claimed", "staged"} => job'[v].claimed = job[v].claimed
  BY <1>1, PassingOthers
<1>3. ShownStep
  BY <1>2, NothingShown
<1> QED BY <1>2, <1>3

LEMMA ClaimKeeps ==
  ASSUME NEW E, WriteInv(E), NEW w \in Writers, Claim(w)
  PROVE  /\ WriteInv(E)' /\ Apart(w) /\ ShownStep
         /\ job[w].at = "checked"
         /\ job'[w].at \in {"claimed", "over"}
         /\ job'[w].at = "claimed" =>
              job'[w].extra = job[w].extra /\ job'[w].text = job[w].text
         /\ file' \in {file, Blank}
<1>1. job[w].at = "checked" /\ job[w].mode = "create" /\ UNCHANGED <<tmp, left, torn>>
  BY DEF Claim
<1>2. CASE file # NoText
  <2> DEFINE refusal == [at |-> "over", outcome |-> "conflict"]
  <2>1. job' = [job EXCEPT ![w] = refusal] /\ UNCHANGED file
    BY <1>2 DEF Claim
  <2>2. refusal \in Jobs(E) /\ refusal.at = "over"
    BY OverFits
  <2>3. WriteInv(E)' /\ Apart(w) /\ ShownStep
    BY <1>1, <2>1, <2>2, MoveKeeps
  <2>4. job'[w] = refusal
    BY <2>1 DEF WriteInv, WriteTypes
  <2> QED BY <1>1, <2>1, <2>2, <2>3, <2>4
<1>3. CASE file = NoText
  <2> DEFINE j == [job[w] EXCEPT !.at = "claimed", !.claimed = TRUE]
  <2>1. WriteTypes(E) /\ job[w] \in Active(E)
    BY <1>1, JobKinds DEF WriteInv, WriteTypes, Stages
  <2>2. /\ file' = Blank
        /\ job' = [Passed(w) EXCEPT ![w].at = "claimed", ![w].claimed = TRUE]
    BY <1>3 DEF Claim
  <2>3. job' = [Passed(w) EXCEPT ![w] = j]
    BY <2>1, <2>2, PassedSelf
  <2>4. j = [job[w] EXCEPT !.at = "claimed", !.claimed = TRUE]
    OBVIOUS
  <2> HIDE DEF j
  <2>5. /\ j \in Active(E) /\ j.at = "claimed" /\ j.claimed = TRUE
        /\ j.mode = "create" /\ j.text = job[w].text /\ j.extra = job[w].extra
    BY <1>1, <2>1, <2>4 DEF Active, Stages
  <2>6. /\ job' \in [Writers -> Jobs(E)] /\ job'[w] = j /\ Apart(w) /\ ShownStep
        /\ \A v \in Writers \ {w} : Sees(v)'
    BY <1>1, <2>3, <2>5, OwnStepKeeps DEF Stages
  <2>7. WriteTypes(E)'
    BY <1>1, <2>1, <2>2, <2>6 DEF WriteTypes
  <2>8. Sees(w)'
    BY <2>2, <2>5, <2>6 DEF Sees
  <2>9. SiblingIsOwned'
    BY <1>1, <2>6 DEF SiblingIsOwned, WriteInv, Apart
  <2>10. NameIsOwned'
    BY <2>5, <2>6 DEF NameIsOwned, Holds
  <2> QED BY <1>1, <2>2, <2>5, <2>6, <2>7, <2>8, <2>9, <2>10 DEF WriteInv
<1> QED BY <1>2, <1>3

LEMMA StageKeeps ==
  ASSUME NEW E, WriteInv(E), NEW w \in Writers, Stage(w)
  PROVE  /\ WriteInv(E)' /\ Apart(w) /\ ShownStep
         /\ job[w].at \in {"checked", "claimed"}
         /\ job'[w].at = "staged"
         /\ job'[w].extra = job[w].extra /\ job'[w].text = job[w].text
         /\ file' = file
<1> DEFINE j == [job[w] EXCEPT !.at = "staged"]
<1>1. /\ Ready(w) /\ tmp' = job[w].text /\ UNCHANGED <<file, left, torn>>
      /\ job' = [Passed(w) EXCEPT ![w].at = "staged"]
  BY DEF Stage
<1>2. WriteTypes(E) /\ job[w] \in Active(E) /\ job[w].at \in {"checked", "claimed"}
  BY <1>1, ReadyOnes DEF WriteInv
<1>3. job' = [Passed(w) EXCEPT ![w] = j]
  BY <1>1, <1>2, PassedSelf
<1>4. j = [job[w] EXCEPT !.at = "staged"]
  OBVIOUS
<1> HIDE DEF j
<1>5. /\ j \in Active(E) /\ j.at = "staged" /\ j.claimed = job[w].claimed
      /\ j.passed = job[w].passed /\ j.mode = job[w].mode
      /\ j.text = job[w].text /\ j.expected = job[w].expected
      /\ j.extra = job[w].extra
  BY <1>2, <1>4 DEF Active, Stages
<1>6. /\ job' \in [Writers -> Jobs(E)] /\ job'[w] = j /\ Apart(w) /\ ShownStep
      /\ \A v \in Writers \ {w} :
           /\ Sees(v)'
           /\ job[v].at \in {"claimed", "staged"} => job'[v].claimed = job[v].claimed
  BY <1>2, <1>3, <1>5, OwnStepKeeps DEF Stages
<1>7. job[w].text \in Texts /\ job[w].mode \in {"create", "update"}
  BY <1>2 DEF Active
<1>8. WriteTypes(E)'
  BY <1>1, <1>2, <1>6, <1>7 DEF WriteTypes
<1>9. Sees(w)'
  <2> SUFFICES ASSUME job[w].passed = FALSE
               PROVE  /\ job[w].mode = "create" => file = Blank /\ job[w].claimed = TRUE
                      /\ job[w].mode = "update" => file = job[w].expected
    BY <1>1, <1>5, <1>6 DEF Sees
  <2> QED BY <1>1 DEF Ready, Sees, WriteInv
<1>10. SiblingIsOwned'
  BY <1>1, <1>5, <1>6, <1>7, TextsAssumption DEF SiblingIsOwned
<1>11. NameIsOwned'
  <2> SUFFICES ASSUME file = Blank, ~left, ~torn
               PROVE  \E v \in Writers : Holds(v)'
    BY <1>1 DEF NameIsOwned
  <2>1. PICK v \in Writers : Holds(v)
    BY DEF WriteInv, NameIsOwned
  <2>2. CASE v = w
    BY <1>5, <1>6, <2>1, <2>2 DEF Holds
  <2>3. CASE v # w
    BY <1>6, <2>1, <2>3 DEF Holds, Apart
  <2> QED BY <2>2, <2>3
<1> QED BY <1>1, <1>2, <1>5, <1>6, <1>8, <1>9, <1>10, <1>11 DEF WriteInv

LEMMA CommitKeeps ==
  ASSUME NEW E, WriteInv(E), NEW w \in Writers, Commit(w)
  PROVE  /\ WriteInv(E)' /\ Apart(w) /\ ShownStep
         /\ job[w].at = "staged" /\ job'[w].at = "written"
         /\ job'[w].extra = job[w].extra /\ job'[w].text = job[w].text
<1> DEFINE j == [job[w] EXCEPT !.at = "written"]
<1>1. /\ job[w].at = "staged" /\ tmp # NoText /\ file' = tmp /\ tmp' = NoText
      /\ job' = [Passed(w) EXCEPT ![w].at = "written"] /\ UNCHANGED <<left, torn>>
  BY DEF Commit
<1>2. WriteTypes(E) /\ job[w] \in Active(E)
  BY <1>1, JobKinds DEF WriteInv, WriteTypes, Stages
<1>3. job' = [Passed(w) EXCEPT ![w] = j]
  BY <1>1, <1>2, PassedSelf
<1>4. /\ j \in Active(E) /\ j.at = "written"
      /\ j.extra = job[w].extra /\ j.text = job[w].text
  BY <1>2, MovedFits DEF Stages
<1> HIDE DEF j
<1>5. /\ job' \in [Writers -> Jobs(E)] /\ job'[w] = j /\ Apart(w)
      /\ \A v \in Writers \ {w} : Sees(v)'
  BY <1>2, <1>3, <1>4, PassingOthers DEF Jobs
<1>6. file' \in Texts \cup {Blank}
  BY <1>1, <1>2 DEF WriteTypes
<1>7. WriteTypes(E)'
  BY <1>1, <1>2, <1>5, <1>6 DEF WriteTypes
<1>8. Sees(w)'
  BY <1>4, <1>5 DEF Sees
<1>9. SiblingIsOwned' /\ NameIsOwned'
  BY <1>1, <1>6, TextsAssumption DEF SiblingIsOwned, NameIsOwned, WriteInv
<1>10. ShownStep
  <2> SUFFICES ASSUME NEW v \in Writers, job[v].at = "staged",
                      job'[v].at = "written", ~job[v].passed
               PROVE  /\ file' = job[v].text
                      /\ job[v].mode = "update" => file = job[v].expected
                      /\ job[v].mode = "create" => file = Blank /\ job[v].claimed
    BY DEF ShownStep
  <2>1. v = w
    BY <1>5 DEF Apart
  <2>2. job[w].passed = FALSE
    BY <1>2, <2>1 DEF Active
  <2>3. /\ tmp = job[w].text
        /\ job[w].mode = "create" => file = Blank /\ job[w].claimed = TRUE
        /\ job[w].mode = "update" => file = job[w].expected
    BY <1>1, <2>2 DEF WriteInv, Sees
  <2> QED BY <1>1, <2>1, <2>3
<1> QED BY <1>1, <1>4, <1>5, <1>7, <1>8, <1>9, <1>10 DEF WriteInv

LEMMA GiveUpKeeps ==
  ASSUME NEW E, WriteInv(E), NEW w \in Writers,
         NEW how \in {"error", "killed"}, GiveUp(w, how)
  PROVE  /\ WriteInv(E)' /\ Apart(w) /\ ShownStep
         /\ job'[w].at = "over" /\ UNCHANGED file
<1> DEFINE j == [at |-> "over", outcome |-> how]
<1>1. /\ job' = [job EXCEPT ![w] = j] /\ UNCHANGED <<file, tmp, torn>>
      /\ left' = (left \/ job[w].at \in {"claimed", "staged"})
  BY DEF GiveUp
<1>2. j \in Jobs(E) /\ j.at = "over"
  BY OverFits
<1> HIDE DEF j
<1>3. /\ job' \in [Writers -> Jobs(E)] /\ job'[w] = j /\ Apart(w)
      /\ \A v \in Writers \ {w} : Sees(v)' /\ job'[v] = job[v]
  BY <1>1, <1>2, LeavingOthers
<1>4. left' \in BOOLEAN
  BY <1>1
<1>5. WriteTypes(E)'
  BY <1>1, <1>3, <1>4 DEF WriteTypes, WriteInv
<1>6. Sees(w)'
  BY <1>2, <1>3 DEF Sees
<1>7. SiblingIsOwned' /\ NameIsOwned'
  <2>1. CASE job[w].at \in {"claimed", "staged"}
    <3>1. left'
      BY <1>1, <2>1
    <3> QED BY <3>1 DEF SiblingIsOwned, NameIsOwned
  <2>2. CASE job[w].at \notin {"claimed", "staged"}
    <3>1. left' <=> left
      BY <1>1, <2>2
    <3> QED BY <1>1, <1>3, <2>2, <3>1 DEF SiblingIsOwned, NameIsOwned, Holds, WriteInv
  <2> QED BY <2>1, <2>2
<1>8. ShownStep
  BY <1>2, <1>3, NothingShown
<1> QED BY <1>1, <1>2, <1>3, <1>5, <1>6, <1>7, <1>8 DEF WriteInv

LEMMA EditKeeps ==
  ASSUME NEW E, WriteInv(E), Edit
  PROVE  /\ WriteInv(E)' /\ ShownStep
         /\ \A v \in Writers :
              /\ job'[v].at = job[v].at
              /\ job[v].at \in Stages =>
                   job'[v].extra = job[v].extra /\ job'[v].text = job[v].text
<1>1. WriteTypes(E)
  BY DEF WriteInv
<1>2. PICK text \in Texts \cup {NoText} : file' = text
  BY DEF Edit
<1>3. /\ job' = [w \in Writers |-> IF Busy(w) THEN [job[w] EXCEPT !.passed = TRUE]
                                              ELSE job[w]]
      /\ UNCHANGED <<tmp, left, torn>>
  BY DEF Edit
<1>4. ASSUME NEW v \in Writers
      PROVE  /\ job'[v] \in Jobs(E)
             /\ job'[v].at = job[v].at
             /\ job[v].at \in Stages =>
                  /\ job'[v].extra = job[v].extra
                  /\ job'[v].text = job[v].text
                  /\ job'[v].claimed = job[v].claimed
             /\ job[v].at \in {"checked", "claimed", "staged"} => job'[v].passed = TRUE
  <2>1. job[v] \in Jobs(E)
    BY <1>1 DEF WriteTypes
  <2>2. CASE Busy(v)
    <3>1. job[v] \in Active(E)
      BY <2>1, <2>2, JobKinds DEF Busy, Stages
    <3>2. job'[v] = [job[v] EXCEPT !.passed = TRUE]
      BY <1>3, <2>2
    <3> QED BY <3>1, <3>2, PassedFits DEF Jobs
  <2>3. CASE ~Busy(v)
    <3>1. job'[v] = job[v]
      BY <1>3, <2>3
    <3> QED BY <2>1, <2>3, <3>1 DEF Busy
  <2> QED BY <2>2, <2>3
<1>5. job' \in [Writers -> Jobs(E)]
  BY <1>3, <1>4
<1>6. WriteTypes(E)'
  BY <1>1, <1>2, <1>3, <1>5 DEF WriteTypes
<1>7. ASSUME NEW v \in Writers PROVE Sees(v)'
  BY <1>4 DEF Sees
<1>8. SiblingIsOwned' /\ NameIsOwned'
  BY <1>2, <1>3, <1>4, TextsAssumption DEF SiblingIsOwned, NameIsOwned, WriteInv
<1>9. ShownStep
  BY <1>4 DEF ShownStep
<1> QED BY <1>4, <1>6, <1>7, <1>8, <1>9 DEF WriteInv

\* Nobody at work and nobody killed: nobody owns anything.
LEMMA NothingIsLeft ==
  ASSUME NEW E, WriteInv(E)
  PROVE  NoLeftovers
<1> SUFFICES ASSUME ~left, \A w \in Writers : ~Busy(w)
             PROVE  /\ tmp \in (IF torn THEN {NoText, Blank} ELSE {NoText})
                    /\ file = Blank => torn
  BY DEF NoLeftovers
<1>1. \A w \in Writers : job[w].at # "staged" /\ ~Holds(w)
  BY DEF Busy, Holds
<1> QED BY <1>1 DEF WriteInv, WriteTypes, SiblingIsOwned, NameIsOwned

-----------------------------------------------------------------------------
(* Exports                                                                 *)

ExportJobs == {"export"}

\* What was exported last is a revision, so that an export may expect it.
ExportInv == WriteInv(ExportJobs) /\ exported \in Texts \cup {NoText}

LEMMA WriteBegins ==
  ASSUME NEW E, WriteInit
  PROVE  WriteInv(E)
<1>1. \A w \in Writers : job[w] = Free /\ Free.at = "free"
  BY DEF WriteInit, Free
<1>2. WriteTypes(E)
  BY <1>1 DEF WriteInit, WriteTypes, Jobs
<1>3. SiblingIsOwned /\ NameIsOwned
  BY TextsAssumption DEF WriteInit, SiblingIsOwned, NameIsOwned
<1>4. \A w \in Writers : Sees(w)
  BY <1>1 DEF Sees
<1> QED BY <1>2, <1>3, <1>4 DEF WriteInv

LEMMA WriteStutters ==
  ASSUME NEW E, WriteInv(E), UNCHANGED <<file, tmp, job, left, torn>>
  PROVE  WriteInv(E)' /\ ShownStep
<1>1. WriteTypes(E)' /\ SiblingIsOwned' /\ NameIsOwned'
  BY DEF WriteInv, WriteTypes, SiblingIsOwned, NameIsOwned, Holds
<1>2. ASSUME NEW w \in Writers PROVE Sees(w)'
  BY DEF WriteInv, Sees
<1>3. ShownStep
  BY DEF ShownStep
<1> QED BY <1>1, <1>2, <1>3 DEF WriteInv

LEMMA ExportStep == ExportInv /\ [ExportNext]_exportVars => ExportInv' /\ ShownStep
<1> SUFFICES ASSUME ExportInv, [ExportNext]_exportVars
             PROVE  ExportInv' /\ ShownStep
  OBVIOUS
<1>0. WriteInv(ExportJobs) /\ exported \in Texts \cup {NoText}
  BY DEF ExportInv
<1>1. ASSUME NEW w \in Writers, PrepareExport(w)
      PROVE  ExportInv' /\ ShownStep
  <2>1. UNCHANGED exported /\ "export" \in ExportJobs
    BY <1>1 DEF PrepareExport, ExportJobs
  <2>2. PICK mode \in {"create", "update"}, expected \in Texts \cup {NoText},
             text \in Texts :
          Check(w, mode, expected, text, "export")
    BY <1>0, <1>1 DEF PrepareExport
  <2> QED BY <1>0, <2>1, <2>2, CheckKeeps DEF ExportInv
<1>2. ASSUME NEW w \in Writers, StageExport(w)
      PROVE  ExportInv' /\ ShownStep
  BY <1>0, <1>2, ClaimKeeps, StageKeeps, StageFailsKeeps DEF StageExport, ExportInv
<1>3. ASSUME NEW w \in Writers, DeclineExport(w)
      PROVE  ExportInv' /\ ShownStep
  BY <1>0, <1>3, AbortKeeps DEF DeclineExport, ExportInv
<1>4. ASSUME NEW w \in Writers, ApproveExport(w)
      PROVE  ExportInv' /\ ShownStep
  BY <1>0, <1>4, CommitKeeps DEF ApproveExport, ExportInv
<1>5. ASSUME NEW w \in Writers, ExportThrows(w) \/ ExporterDies(w)
      PROVE  ExportInv' /\ ShownStep
  BY <1>0, <1>5, GiveUpKeeps, CutShortKeeps DEF ExportThrows, ExporterDies, ExportInv
<1>6. ASSUME NEW w \in Writers, RecordExport(w)
      PROVE  ExportInv' /\ ShownStep
  <2> DEFINE j == [at |-> "over", outcome |-> "done"]
  <2>1. /\ job[w].at = "written" /\ job' = [job EXCEPT ![w] = j]
        /\ exported' = job[w].text /\ UNCHANGED <<file, tmp, left, torn>>
    BY <1>6 DEF RecordExport
  <2>2. j \in Jobs(ExportJobs) /\ j.at = "over"
    BY OverFits
  <2> HIDE DEF j
  <2>3. WriteInv(ExportJobs)' /\ ShownStep
    BY <1>0, <2>1, <2>2, MoveKeeps
  <2>4. job[w] \in Active(ExportJobs)
    BY <1>0, <2>1, JobKinds DEF WriteInv, WriteTypes, Stages
  <2>5. job[w].text \in Texts
    BY <2>4 DEF Active
  <2> QED BY <2>1, <2>3, <2>5 DEF ExportInv
<1>7. CASE PersonEditsPage
  BY <1>0, <1>7, EditKeeps DEF PersonEditsPage, ExportInv
<1>8. CASE UNCHANGED exportVars
  BY <1>0, <1>8, WriteStutters DEF exportVars, writeVars, ExportInv
<1> QED BY <1>1, <1>2, <1>3, <1>4, <1>5, <1>6, <1>7, <1>8 DEF ExportNext

(***************************************************************************)
(* The sibling and the claimed name have owners in every state exports of  *)
(* one page can reach.                                                     *)
(***************************************************************************)
THEOREM ExportInvariance == ExportSpec => []ExportInv
<1>1. ExportInit => ExportInv
  BY WriteBegins DEF ExportInit, ExportInv
<1> QED BY <1>1, ExportStep, PTL DEF ExportSpec

(***************************************************************************)
(* However many exports of one page are declined, fail or collide with a   *)
(* person's edits, no text is left in the sibling and no claimed name is   *)
(* left empty when nobody writes, unless a process was killed or gave up   *)
(* at a rename that threw; a sibling whose own write failed half-way is    *)
(* all that stays (prepareWrite(), abort()).                               *)
(***************************************************************************)
THEOREM ExportsLeaveNothing == ExportSpec => []NoLeftovers
<1>1. ExportInv => NoLeftovers
  BY NothingIsLeft DEF ExportInv
<1> QED BY <1>1, ExportInvariance, PTL

(***************************************************************************)
(* An export that nobody interfered with since it looked replaces the      *)
(* revision it named by the bytes its diff was made of.                    *)
(***************************************************************************)
THEOREM ExportsWriteWhatWasShown == ExportSpec => WritesWhatWasShown
<1>1. ExportInv /\ [ExportNext]_exportVars => [ShownStep]_writeVars
  BY ExportStep
<1>2. ExportSpec => [][ShownStep]_writeVars
  BY <1>1, ExportInvariance, PTL DEF ExportSpec
<1> QED BY <1>2 DEF WritesWhatWasShown, ShownStep

-----------------------------------------------------------------------------
(* PRD updates                                                             *)

ProposalTypes == proposals \in [Proposals -> {"none", "prepared", "expired", "applied"}]

\* The proposals whose rename put their own text in place, or came after
\* somebody else had touched the document or the sibling.
Settled(id) == id \in renamed \/ id \in crossed

\* What an update has behind it at each of its places.
Trail(w) ==
  /\ job[w].at \in {"checked", "claimed", "staged"} =>
       job[w].text = CandidateOf(job[w].extra)
  /\ job[w].at = "written" => Settled(job[w].extra)
  /\ job[w].at = "registered" =>
       Settled(job[w].extra) /\ CandidateOf(job[w].extra) \in revisions
  /\ job[w].at = "recorded" => job[w].extra \in history

\* The registry calls the document changed.
Changed == file \in Texts /\ registered \notin {NoText, file} /\ ~overtaken

\* What the registry itself left is not changed, and what a writer left is
\* about to be registered.
ChangedBySomebody ==
  /\ maker \in {"registry", "writer", "person", "killed"}
  /\ Changed =>
       /\ maker # "registry"
       /\ maker = "writer" => \E w \in Writers : job[w].at = "written"

PrdInv ==
  /\ WriteInv(Proposals)
  /\ ProposalTypes
  /\ \A w \in Writers : Trail(w)
  /\ AppliedMeansWritten
  /\ ChangedBySomebody

LEMMA ProposalParts ==
  ASSUME NEW id \in Proposals
  PROVE  ExpectedOf(id) \in Texts \cup {NoText} /\ CandidateOf(id) \in Texts
  BY DEF Proposals, ExpectedOf, CandidateOf

\* What the others have behind them, they keep.
LEMMA TrailsStay ==
  ASSUME PrdInv, NEW w \in Writers, Apart(w), renamed \subseteq renamed',
         crossed \subseteq crossed', revisions \subseteq revisions', history \subseteq history'
  PROVE  \A v \in Writers \ {w} : Trail(v)'
<1>1. ASSUME NEW v \in Writers \ {w} PROVE Trail(v)'
  BY DEF PrdInv, Trail, Settled, Apart, Stages
<1> QED BY <1>1

\* A step that touches neither the rows nor what anybody knows, and leaves the
\* document or takes it away.
LEMMA QuietWrite ==
  ASSUME PrdInv, WriteInv(Proposals)', NEW w \in Writers, Apart(w),
         UNCHANGED <<rowVars, ghostVars>>, job[w].at # "written",
         job'[w].at \notin {"written", "registered", "recorded"},
         job'[w].at \in {"checked", "claimed", "staged"} =>
           job'[w].text = CandidateOf(job'[w].extra),
         file' \in {file, NoText, Blank}
  PROVE  PrdInv'
<1>1. ProposalTypes' /\ AppliedMeansWritten'
  BY DEF PrdInv, ProposalTypes, AppliedMeansWritten, rowVars, ghostVars
<1>2. \A v \in Writers \ {w} : Trail(v)'
  BY TrailsStay DEF rowVars, ghostVars
<1>3. Trail(w)'
  BY DEF Trail
<1>4. UNCHANGED <<registered, overtaken, maker>>
  BY DEF rowVars, ghostVars
<1>5. Changed' => Changed
  BY <1>4, TextsAssumption DEF Changed
<1>6. ChangedBySomebody'
  <2>1. \A v \in Writers : job[v].at = "written" => job'[v].at = "written"
    BY DEF Apart
  <2> QED BY <1>4, <1>5, <2>1 DEF PrdInv, ChangedBySomebody
<1> QED BY <1>1, <1>2, <1>3, <1>6 DEF PrdInv

\* A step that changes nothing but the rows of proposals, none of which it
\* calls applied.
LEMMA ProposalStep ==
  ASSUME PrdInv, UNCHANGED <<writeVars, registered, revisions, history, ghostVars>>,
         ProposalTypes',
         \A id \in Proposals : proposals'[id] = "applied" => proposals[id] = "applied"
  PROVE  PrdInv' /\ ShownStep
<1>1. UNCHANGED <<file, tmp, job, left, torn>>
  BY DEF writeVars
<1>2. WriteInv(Proposals)' /\ ShownStep
  BY <1>1, WriteStutters DEF PrdInv
<1>3. AppliedMeansWritten'
  BY DEF PrdInv, AppliedMeansWritten, ghostVars
<1>4. \A w \in Writers : Trail(w)'
  BY <1>1 DEF PrdInv, Trail, Settled, ghostVars
<1>5. ChangedBySomebody'
  BY <1>1 DEF PrdInv, ChangedBySomebody, Changed, ghostVars
<1> QED BY <1>2, <1>3, <1>4, <1>5 DEF PrdInv

LEMMA PrdStep == PrdInv /\ [PrdNext]_prdVars => PrdInv' /\ ShownStep
<1> SUFFICES ASSUME PrdInv, [PrdNext]_prdVars
             PROVE  PrdInv' /\ ShownStep
  OBVIOUS
<1>0. /\ WriteInv(Proposals) /\ ProposalTypes /\ AppliedMeansWritten
      /\ ChangedBySomebody /\ \A w \in Writers : Trail(w)
      /\ job \in [Writers -> Jobs(Proposals)]
  BY DEF PrdInv, WriteInv, WriteTypes
<1>1. CASE RegisterByHand
  <2>1. /\ UNCHANGED <<file, tmp, job, left, torn>>
        /\ UNCHANGED <<proposals, history, renamed, crossed, overtaken>>
        /\ registered' = file /\ revisions \subseteq revisions' /\ maker' = "registry"
    BY <1>1 DEF RegisterByHand, writeVars
  <2>2. WriteInv(Proposals)' /\ ShownStep
    BY <1>0, <2>1, WriteStutters
  <2>3. ProposalTypes' /\ AppliedMeansWritten'
    BY <1>0, <2>1 DEF ProposalTypes, AppliedMeansWritten
  <2>4. \A w \in Writers : Trail(w)'
    BY <1>0, <2>1 DEF Trail, Settled
  <2>5. ChangedBySomebody'
    BY <2>1 DEF ChangedBySomebody, Changed
  <2> QED BY <2>2, <2>3, <2>4, <2>5 DEF PrdInv
<1>2. CASE PersonEdits
  <2>1. Edit /\ maker' = "person" /\ UNCHANGED <<rowVars, renamed, crossed, overtaken>>
    BY <1>2 DEF PersonEdits
  <2>2. /\ WriteInv(Proposals)' /\ ShownStep
        /\ \A v \in Writers :
             /\ job'[v].at = job[v].at
             /\ job[v].at \in Stages =>
                  job'[v].extra = job[v].extra /\ job'[v].text = job[v].text
    BY <1>0, <2>1, EditKeeps
  <2>3. ProposalTypes' /\ AppliedMeansWritten'
    BY <1>0, <2>1 DEF ProposalTypes, AppliedMeansWritten, rowVars
  <2>4. \A w \in Writers : Trail(w)'
    BY <1>0, <2>1, <2>2 DEF Trail, Settled, rowVars, Stages
  <2>5. ChangedBySomebody'
    BY <2>1 DEF ChangedBySomebody
  <2> QED BY <2>2, <2>3, <2>4, <2>5 DEF PrdInv
<1>3. ASSUME NEW id \in Proposals,
             \/ Prepare(id)
             \/ Expire(id)
             \/ ProposeFromEvidence(id)
             \/ \E choice \in Resolutions \ {"update-prd"} : Resolve(id, choice)
             \/ PrepareFromEvidence(id)
      PROVE  PrdInv' /\ ShownStep
  <2>1. UNCHANGED <<writeVars, registered, revisions, history, ghostVars>>
    BY <1>3 DEF Prepare, Expire, ProposeFromEvidence, Resolve, PrepareFromEvidence
  <2>2. \/ proposals' = proposals
        \/ proposals' = [proposals EXCEPT ![id] = "prepared"]
        \/ proposals' = [proposals EXCEPT ![id] = "expired"]
    BY <1>0, <1>3
    DEF Prepare, Expire, ProposeFromEvidence, Resolve, PrepareFromEvidence,
        ProposalTypes
  <2>3. /\ ProposalTypes'
        /\ \A i \in Proposals : proposals'[i] = "applied" => proposals[i] = "applied"
    BY <1>0, <2>2 DEF ProposalTypes
  <2> QED BY <2>1, <2>3, ProposalStep
<1>4. ASSUME NEW w \in Writers, NEW id \in Proposals, BeginApply(w, id)
      PROVE  PrdInv' /\ ShownStep
  <2>1. PICK mode \in {"create", "update"} :
          Check(w, mode, ExpectedOf(id), CandidateOf(id), id)
    BY <1>4 DEF BeginApply
  <2>2. /\ WriteInv(Proposals)' /\ Apart(w) /\ ShownStep
        /\ job[w].at \notin Stages /\ job'[w].at \in {"checked", "over"}
        /\ job'[w].at = "checked" =>
             job'[w].extra = id /\ job'[w].text = CandidateOf(id)
    BY <1>0, <2>1, ProposalParts, CheckKeeps
  <2>3. UNCHANGED <<rowVars, ghostVars>> /\ file' = file
    BY <1>4, <2>1 DEF BeginApply, Check
  <2> QED BY <2>2, <2>3, QuietWrite DEF Stages
<1>5. ASSUME NEW w \in Writers, StageApply(w)
      PROVE  PrdInv' /\ ShownStep
  <2>1. UNCHANGED <<rowVars, ghostVars>>
    BY <1>5 DEF StageApply
  <2>2. /\ WriteInv(Proposals)' /\ Apart(w) /\ ShownStep
        /\ job[w].at \in {"checked", "claimed"}
        /\ job'[w].at \in {"claimed", "staged", "over"}
        /\ job'[w].at # "over" =>
             job'[w].extra = job[w].extra /\ job'[w].text = job[w].text
        /\ file' \in {file, NoText, Blank}
    <3>1. CASE Claim(w)
      BY <1>0, <3>1, ClaimKeeps
    <3>2. CASE Stage(w)
      BY <1>0, <3>2, StageKeeps
    <3>3. CASE StageFails(w)
      BY <1>0, <3>3, StageFailsKeeps
    <3> QED BY <1>5, <3>1, <3>2, <3>3 DEF StageApply
  <2>3. job'[w].at \in {"checked", "claimed", "staged"} =>
          job'[w].text = CandidateOf(job'[w].extra)
    BY <1>0, <2>2 DEF Trail
  <2> QED BY <2>1, <2>2, <2>3, QuietWrite
<1>6. ASSUME NEW w \in Writers, RenameApply(w)
      PROVE  PrdInv' /\ ShownStep
  <2>1. /\ UNCHANGED <<rowVars, overtaken>> /\ maker' = "writer"
        /\ renamed' = renamed \cup {id \in {job[w].extra} : tmp = CandidateOf(id)}
        /\ crossed' = crossed \cup {id \in {job[w].extra} : job[w].passed}
    BY <1>6 DEF RenameApply
  <2>2. /\ WriteInv(Proposals)' /\ Apart(w) /\ ShownStep
        /\ job[w].at = "staged"
        /\ job'[w].at = "written" /\ job'[w].extra = job[w].extra
    BY <1>0, <1>6, CommitKeeps DEF RenameApply
  <2>3. ProposalTypes' /\ AppliedMeansWritten'
    BY <1>0, <2>1 DEF ProposalTypes, AppliedMeansWritten, rowVars
  <2>4. \A v \in Writers \ {w} : Trail(v)'
    BY <2>1, <2>2, TrailsStay DEF rowVars
  <2>5. job[w].extra \in renamed' \/ job[w].extra \in crossed'
    <3>1. CASE job[w].passed
      BY <2>1, <3>1
    <3>2. CASE ~job[w].passed
      <4>1. job[w] \in Active(Proposals)
        BY <1>0, <2>2, JobKinds DEF Stages
      <4>2. job[w].passed = FALSE
        BY <3>2, <4>1 DEF Active
      <4>3. tmp = job[w].text /\ job[w].text = CandidateOf(job[w].extra)
        BY <1>0, <2>2, <4>2 DEF WriteInv, Sees, Trail
      <4> QED BY <2>1, <4>3
    <3> QED BY <3>1, <3>2
  <2>6. Trail(w)'
    BY <2>2, <2>5 DEF Trail, Settled
  <2>7. ChangedBySomebody'
    BY <2>1, <2>2 DEF ChangedBySomebody
  <2> QED BY <2>2, <2>3, <2>4, <2>6, <2>7 DEF PrdInv
<1>7. ASSUME NEW w \in Writers, RenameThrows(w)
      PROVE  PrdInv' /\ ShownStep
  <2>1. /\ WriteInv(Proposals)' /\ Apart(w) /\ ShownStep
        /\ job[w].at = "staged" /\ job'[w].at = "over"
    BY <1>0, <1>7, AbortKeeps DEF RenameThrows
  <2>2. UNCHANGED <<rowVars, ghostVars>> /\ file' \in {file, NoText}
    BY <1>7 DEF RenameThrows, Abort
  <2> QED BY <2>1, <2>2, QuietWrite
<1>8. ASSUME NEW w \in Writers, Register(w)
      PROVE  PrdInv' /\ ShownStep
  <2> DEFINE j == [job[w] EXCEPT !.at = "registered"]
             c == CandidateOf(job[w].extra)
  <2>1. /\ job[w].at = "written" /\ registered' = c
        /\ revisions' = revisions \cup {c}
        /\ overtaken' = (overtaken \/ file # c)
        /\ job' = [job EXCEPT ![w].at = "registered"]
        /\ UNCHANGED <<file, tmp, left, torn, proposals, history, renamed, crossed, maker>>
    BY <1>8 DEF Register
  <2>2. job[w] \in Active(Proposals)
    BY <1>0, <2>1, JobKinds DEF Stages
  <2>3. job' = [job EXCEPT ![w] = j]
    BY <1>0, <2>1
  <2>4. /\ j \in Active(Proposals) /\ j.at = "registered" /\ j.extra = job[w].extra
    BY <2>2, MovedFits DEF Stages
  <2> HIDE DEF j, c
  <2>5. WriteInv(Proposals)' /\ Apart(w) /\ ShownStep
    BY <1>0, <2>1, <2>3, <2>4, MoveKeeps DEF Jobs
  <2>6. job'[w] = j
    BY <1>0, <2>3
  <2>7. ProposalTypes' /\ AppliedMeansWritten'
    BY <1>0, <2>1 DEF ProposalTypes, AppliedMeansWritten
  <2>8. \A v \in Writers \ {w} : Trail(v)'
    BY <2>1, <2>5, TrailsStay
  <2>9. Trail(w)'
    BY <1>0, <2>1, <2>4, <2>6 DEF Trail, Settled, c
  <2>10. ~Changed'
    BY <2>1 DEF Changed
  <2>11. ChangedBySomebody'
    BY <1>0, <2>1, <2>10 DEF ChangedBySomebody
  <2> QED BY <2>5, <2>7, <2>8, <2>9, <2>11 DEF PrdInv
<1>9. ASSUME NEW w \in Writers, RecordEdit(w)
      PROVE  PrdInv' /\ ShownStep
  <2> DEFINE j == [job[w] EXCEPT !.at = "recorded"]
  <2>1. /\ job[w].at = "registered"
        /\ history' = history \cup {job[w].extra}
        /\ job' = [job EXCEPT ![w].at = "recorded"]
        /\ UNCHANGED <<file, tmp, left, torn, registered, revisions, proposals, ghostVars>>
    BY <1>9 DEF RecordEdit
  <2>2. job[w] \in Active(Proposals)
    BY <1>0, <2>1, JobKinds DEF Stages
  <2>3. job' = [job EXCEPT ![w] = j]
    BY <1>0, <2>1
  <2>4. /\ j \in Active(Proposals) /\ j.at = "recorded" /\ j.extra = job[w].extra
    BY <2>2, MovedFits DEF Stages
  <2> HIDE DEF j
  <2>5. WriteInv(Proposals)' /\ Apart(w) /\ ShownStep
    BY <1>0, <2>1, <2>3, <2>4, MoveKeeps DEF Jobs
  <2>6. job'[w] = j
    BY <1>0, <2>3
  <2>7. ProposalTypes' /\ AppliedMeansWritten'
    BY <1>0, <2>1 DEF ProposalTypes, AppliedMeansWritten, Trail, Settled, ghostVars
  <2>8. \A v \in Writers \ {w} : Trail(v)'
    BY <2>1, <2>5, TrailsStay DEF ghostVars
  <2>9. Trail(w)'
    BY <2>1, <2>4, <2>6 DEF Trail
  <2>10. ChangedBySomebody'
    BY <1>0, <2>1, <2>5 DEF ChangedBySomebody, Changed, ghostVars, Apart
  <2> QED BY <2>5, <2>7, <2>8, <2>9, <2>10 DEF PrdInv
<1>10. ASSUME NEW w \in Writers, Complete(w)
       PROVE  PrdInv' /\ ShownStep
  <2> DEFINE j == [at |-> "over", outcome |-> "done"]
  <2>1. /\ job[w].at = "recorded"
        /\ proposals' = [proposals EXCEPT ![job[w].extra] = "applied"]
        /\ job' = [job EXCEPT ![w] = j]
        /\ UNCHANGED <<file, tmp, left, torn, registered, revisions, history, ghostVars>>
    BY <1>10 DEF Complete
  <2>2. j \in Jobs(Proposals) /\ j.at = "over"
    BY OverFits
  <2> HIDE DEF j
  <2>3. WriteInv(Proposals)' /\ Apart(w) /\ ShownStep
    BY <1>0, <2>1, <2>2, MoveKeeps
  <2>4. job'[w] = j /\ job[w].extra \in history
    BY <1>0, <2>1 DEF Trail
  <2>5. ProposalTypes' /\ AppliedMeansWritten'
    BY <1>0, <2>1, <2>4 DEF ProposalTypes, AppliedMeansWritten, ghostVars
  <2>6. \A v \in Writers \ {w} : Trail(v)'
    BY <2>1, <2>3, TrailsStay DEF ghostVars
  <2>7. Trail(w)'
    BY <2>2, <2>4 DEF Trail
  <2>8. ChangedBySomebody'
    BY <1>0, <2>1, <2>3 DEF ChangedBySomebody, Changed, ghostVars, Apart
  <2> QED BY <2>3, <2>5, <2>6, <2>7, <2>8 DEF PrdInv
<1>11. ASSUME NEW w \in Writers, WriterDies(w)
       PROVE  PrdInv' /\ ShownStep
  <2>1. /\ UNCHANGED <<rowVars, renamed, crossed, overtaken>>
        /\ maker' = IF job[w].at = "written" /\ maker = "writer" THEN "killed" ELSE maker
    BY <1>11 DEF WriterDies
  <2>2. /\ WriteInv(Proposals)' /\ Apart(w) /\ ShownStep
        /\ job'[w].at = "over" /\ UNCHANGED file
    BY <1>0, <1>11, GiveUpKeeps, CutShortKeeps DEF WriterDies
  <2>3. ProposalTypes' /\ AppliedMeansWritten'
    BY <1>0, <2>1 DEF ProposalTypes, AppliedMeansWritten, rowVars
  <2>4. \A v \in Writers \ {w} : Trail(v)'
    BY <2>1, <2>2, TrailsStay DEF rowVars
  <2>5. Trail(w)'
    BY <2>2 DEF Trail
  <2>6. Changed' => Changed
    BY <2>1, <2>2 DEF Changed, rowVars
  <2>7. ChangedBySomebody'
    <3>1. CASE job[w].at = "written" /\ maker = "writer"
      BY <1>0, <2>1, <2>6, <3>1 DEF ChangedBySomebody
    <3>2. CASE job[w].at # "written"
      BY <1>0, <2>1, <2>2, <2>6, <3>2 DEF ChangedBySomebody, Apart
    <3>3. CASE maker # "writer"
      BY <1>0, <2>1, <2>6, <3>3 DEF ChangedBySomebody
    <3> QED BY <3>1, <3>2, <3>3
  <2> QED BY <2>2, <2>3, <2>4, <2>5, <2>7 DEF PrdInv
<1>12. CASE UNCHANGED prdVars
  <2>1. UNCHANGED <<writeVars, registered, revisions, proposals, history, ghostVars>>
    BY <1>12 DEF prdVars, ghostVars
  <2> QED BY <1>0, <2>1, ProposalStep DEF ProposalTypes
<1> QED
  BY <1>1, <1>2, <1>3, <1>4, <1>5, <1>6, <1>7, <1>8, <1>9, <1>10, <1>11, <1>12
  DEF PrdNext

(***************************************************************************)
(* Document, sibling, rows and writers go together in every state that     *)
(* updates of one PRD can reach.                                           *)
(***************************************************************************)
THEOREM PrdInvariance == PrdSpec => []PrdInv
<1>1. PrdInit => PrdInv
  <2> SUFFICES ASSUME PrdInit PROVE PrdInv
    OBVIOUS
  <2>1. WriteInit /\ RowsInit /\ registered = file
    BY DEF PrdInit
  <2>2. WriteInv(Proposals)
    BY <2>1, WriteBegins
  <2>3. ProposalTypes /\ AppliedMeansWritten
    BY <2>1 DEF RowsInit, ProposalTypes, AppliedMeansWritten
  <2>4. \A w \in Writers : Trail(w)
    BY <2>1 DEF WriteInit, Free, Trail
  <2>5. ChangedBySomebody
    BY <2>1 DEF RowsInit, ChangedBySomebody, Changed
  <2> QED BY <2>2, <2>3, <2>4, <2>5 DEF PrdInv
<1> QED BY <1>1, PrdStep, PTL DEF PrdSpec

(***************************************************************************)
(* No text of an update and no claimed name is left when nobody writes any *)
(* more, whoever was overtaken, refused or expired, unless a writer was    *)
(* killed; a sibling whose own write failed half-way is all that stays     *)
(* (applyPrdUpdate(), applyPrdCreateProposal()).                           *)
(***************************************************************************)
THEOREM UpdatesLeaveNothing == PrdSpec => []NoLeftovers
<1>1. PrdInv => NoLeftovers
  BY NothingIsLeft DEF PrdInv
<1> QED BY <1>1, PrdInvariance, PTL

(***************************************************************************)
(* An update that nobody interfered with since it looked replaces the      *)
(* revision it names by the candidate that was shown.                      *)
(***************************************************************************)
THEOREM UpdatesWriteWhatWasShown == PrdSpec => WritesWhatWasShown
<1>1. PrdInv /\ [PrdNext]_prdVars => [ShownStep]_writeVars
  BY PrdStep
<1>2. PrdSpec => [][ShownStep]_writeVars
  BY <1>1, PrdInvariance, PTL DEF PrdSpec
<1> QED BY <1>2 DEF WritesWhatWasShown, ShownStep

(***************************************************************************)
(* What is called applied is recorded and registered, and its own text was *)
(* put in place by its rename, unless somebody touched the document or its *)
(* sibling after the writer's look; a document that is called changed was  *)
(* changed by somebody, or is about to be registered (applyPrdUpdate() and *)
(* its three transactions), whoever is killed between any two of them.     *)
(***************************************************************************)
THEOREM TheRegistryFollows == PrdSpec => []RegistryFollowsTheFile
<1>1. PrdInv => RegistryFollowsTheFile
  BY DEF PrdInv, ChangedBySomebody, Changed, ChangedMeansEdited,
         RegistryFollowsTheFile
<1> QED BY <1>1, PrdInvariance, PTL

-----------------------------------------------------------------------------
(* An install                                                              *)

Places == {"idle", "previewed", "staging", "moving", "empty", "cleaning",
           "installed", "unwinding", "unwound", "failed", "killed"}

Files == {Absent} \cup Content

Installs ==
  [at : Places, before : [Names -> Files], after : [Names -> Files],
   changes : SUBSET Names, todo : SUBSET Names, committed : SUBSET Names,
   refused : BOOLEAN]

InstallTypes ==
  /\ target \in [Names -> Files]
  /\ temporary \in [Names -> Files]
  /\ backup \in [Names -> Files]
  /\ install \in Installs
  /\ touched \in SUBSET Names

\* What each round has done is what it has not to do: the staged files while
\* staging, the committed ones while moving.
Rounds ==
  /\ install.todo \subseteq install.changes
  /\ install.committed \subseteq install.changes
  /\ install.at \in {"idle", "previewed"} => temporary = Nothing /\ backup = Nothing
  /\ install.at \in {"idle", "previewed", "staging"} => install.committed = {}
  /\ install.at \in {"moving", "empty"} => install.committed = install.changes \ install.todo
  /\ install.at = "cleaning" => install.committed = install.changes
  /\ install.at \notin {"unwinding", "unwound", "failed", "killed"} => install.refused = FALSE

\* A plan writes our part, and nothing else into a file of ours.
OurPart(n) ==
  /\ install.after[n] \in Content
  /\ install.after[n].ours = "exact"
  /\ n \notin Merged => install.after[n].own = "none"

\* A file the install has not moved, one it moved away, and one it replaced.
AsBefore(n) == target[n] = install.before[n] /\ backup[n] = Absent
SetAside(n) == target[n] = Absent /\ backup[n] = install.before[n]
Replaced(n) == target[n] = install.after[n] /\ backup[n] = install.before[n]

\* The original is in its place or in the backup; and it is in its place,
\* unless that was refused.
Survives(n) == install.before[n] # Absent => install.before[n] \in {target[n], backup[n]}
Restored(n) == Survives(n) /\ (install.refused = FALSE => target[n] = install.before[n])

AllWritten == \A m \in Names \ touched : target[m] = install.after[m]

\* What nobody else wrote is, at each place of the install, in one of these.
FileAt(n) ==
  /\ n \notin install.changes => install.before[n] = install.after[n] /\ AsBefore(n)
  /\ install.at \in {"previewed", "staging"} => AsBefore(n)
  /\ install.at = "staging" /\ n \in install.changes \ install.todo =>
       temporary[n] = install.after[n]
  /\ install.at \in {"moving", "empty"} /\ n \in install.todo =>
       temporary[n] = install.after[n]
  /\ install.at = "moving" /\ n \in install.todo => AsBefore(n)
  /\ install.at = "empty" /\ n \in install.todo =>
       IF Current(n) THEN SetAside(n) ELSE AsBefore(n)
  /\ install.at \in {"moving", "empty", "unwinding"} /\ n \in install.committed => Replaced(n)
  /\ install.at = "unwound" /\ n \in install.committed =>
       IF Latest(n) THEN SetAside(n) ELSE Replaced(n)
  /\ install.at \in {"unwinding", "unwound"} /\ n \notin install.committed => Restored(n)
  /\ install.at = "failed" => Restored(n)
  /\ install.at \in {"cleaning", "installed"} => target[n] = install.after[n]
  /\ install.at = "killed" => Survives(n) \/ AllWritten

InstallInv ==
  /\ InstallTypes
  /\ Rounds
  /\ install.at # "idle" => \A n \in Names : OurPart(n)
  /\ install.at # "idle" => \A n \in Names \ touched : FileAt(n)

-----------------------------------------------------------------------------
(* Each step of an install keeps it                                        *)

\* The files are listed one after the other: at most one is the first of those
\* still to do, and one the last of the committed.
LEMMA OneAtATime ==
  ASSUME NEW m \in Names, NEW n \in Names
  PROVE  /\ Current(m) /\ Current(n) => m = n
         /\ Latest(m) /\ Latest(n) => m = n
<1>1. PICK i \in DOMAIN Targets : Targets[i] = m
  BY DEF Names, ToSet
<1>2. PICK j \in DOMAIN Targets : Targets[j] = n
  BY DEF Names, ToSet
<1>3. i \in Nat /\ j \in Nat
  BY InstallAssumption
<1>4. i = j \/ i < j \/ j < i
  BY <1>3
<1>5. m = n \/ Precedes(m, n) \/ Precedes(n, m)
  BY <1>1, <1>2, <1>4 DEF Precedes
<1>6. QED  BY <1>5 DEF Current, Latest

\* What moves a step forward leaves of the plan.
LEMMA ForwardKeeps ==
  ASSUME InstallTypes, NEW n \in Names, NEW round \in Places, NEW next \in Places
  PROVE  LET f == Forward(n, round, next)
         IN /\ f \in Installs
            /\ f.before = install.before /\ f.after = install.after
            /\ f.changes = install.changes /\ f.committed = install.committed
            /\ f.refused = install.refused
            /\ \/ f.at = round /\ f.todo = install.todo \ {n}
               \/ f.at = next /\ f.todo = install.changes /\ install.todo = {n}
BY DEF Forward, Installs, InstallTypes

\* A preview describes the files as they are.
LEMMA BuildPlanStep ==
  ASSUME InstallInv, BuildPlan
  PROVE  InstallInv'
<1> DEFINE after == [n \in Names |-> desired(n)]
           changes == {n \in Names : target[n] # desired(n)}
<1>1. \A n \in Names : desired(n) \in Content /\ desired(n).ours = "exact"
                       /\ (n \notin Merged => desired(n).own = "none")
  <2>1. TAKE n \in Names
  <2>2. target[n] \in Files
    BY DEF InstallInv, InstallTypes
  <2>3. target[n] # Absent => target[n].own \in {"none", "mine", "more"}
    BY <2>2 DEF Files, Content
  <2>4. QED  BY <2>3 DEF desired, Content
<1>2. after \in [Names -> Files]
  BY <1>1 DEF Files
<1>3. \A n \in Names : after[n] = desired(n)
  OBVIOUS
<1>4. changes \in SUBSET Names /\ \A n \in Names : n \in changes <=> target[n] # after[n]
  OBVIOUS
<1> HIDE DEF after, changes
<1>5. install' = [at |-> "previewed", before |-> target, after |-> after,
                  changes |-> changes, todo |-> {}, committed |-> {}, refused |-> FALSE]
  BY DEF BuildPlan, NoInstall, after, changes
<1>6. /\ install'.at = "previewed" /\ install'.before = target /\ install'.after = after
      /\ install'.changes = changes /\ install'.todo = {} /\ install'.committed = {}
      /\ install'.refused = FALSE
  BY <1>5
<1>7. target' = target /\ temporary' = temporary /\ backup' = backup /\ touched' = {}
  BY DEF BuildPlan
<1>8. temporary = Nothing /\ backup = Nothing
  BY DEF BuildPlan, InstallInv, Rounds
<1>9. InstallTypes'
  BY <1>2, <1>4, <1>5, <1>7 DEF InstallInv, InstallTypes, Installs, Places
<1>10. Rounds'
  BY <1>6, <1>7, <1>8 DEF Rounds, Nothing
<1>11. \A n \in Names : OurPart(n)'
  BY <1>1, <1>3, <1>6 DEF OurPart
<1>12. \A n \in Names : FileAt(n)'
  <2>1. \A n \in Names : backup[n] = Absent
    BY <1>8 DEF Nothing
  <2>2. QED  BY <1>4, <1>6, <1>7, <2>1 DEF FileAt, AsBefore
<1>13. QED  BY <1>9, <1>10, <1>11, <1>12 DEF InstallInv

\* A person agrees, or there is no install.
LEMMA ReplyStep ==
  ASSUME InstallInv, NEW yes \in BOOLEAN, Reply(yes)
  PROVE  InstallInv'
<1>1. target' = target /\ temporary' = temporary /\ backup' = backup /\ touched' = touched
  BY DEF Reply
<1>2. CASE yes = TRUE /\ install.changes # {}
  <2>1. install' = [install EXCEPT !.at = "staging", !.todo = install.changes]
    BY <1>2 DEF Reply
  <2>2. /\ install'.at = "staging" /\ install'.before = install.before
        /\ install'.after = install.after /\ install'.changes = install.changes
        /\ install'.todo = install.changes /\ install'.committed = install.committed
        /\ install'.refused = install.refused
    BY <2>1 DEF InstallInv, InstallTypes, Installs
  <2>3. InstallTypes'
    BY <1>1, <2>1 DEF InstallInv, InstallTypes, Installs, Places
  <2>4. Rounds'
    BY <1>1, <2>2 DEF Reply, InstallInv, Rounds
  <2>5. \A n \in Names : OurPart(n)'
    BY <2>2 DEF Reply, InstallInv, OurPart
  <2>6. ASSUME NEW n \in Names \ touched
        PROVE  FileAt(n)'
    BY <1>1, <2>2 DEF Reply, InstallInv, FileAt, AsBefore
  <2>7. QED  BY <1>1, <2>3, <2>4, <2>5, <2>6 DEF InstallInv
<1>3. CASE ~(yes = TRUE /\ install.changes # {})
  <2>1. install' = NoInstall
    BY <1>3 DEF Reply
  <2>2. install'.at = "idle" /\ install'.changes = {} /\ install'.todo = {}
        /\ install'.committed = {} /\ install'.refused = FALSE
    BY <2>1 DEF NoInstall
  <2>3. InstallTypes'
    BY <1>1, <2>1 DEF InstallInv, InstallTypes, Installs, NoInstall, Places, Nothing, Files
  <2>4. temporary = Nothing /\ backup = Nothing
    BY DEF Reply, InstallInv, Rounds
  <2>5. Rounds'
    BY <1>1, <2>2, <2>4 DEF Rounds, Nothing
  <2>6. QED  BY <2>2, <2>3, <2>5 DEF InstallInv
<1>4. QED  BY <1>2, <1>3

\* What goes wrong before the next file is moved leads to the unwinding of the
\* files before it.
LEMMA UnwindFromHere ==
  ASSUME InstallInv, install.at \in {"staging", "moving"},
         install' = [install EXCEPT !.at = "unwinding"],
         target' = target, temporary' = temporary, backup' = backup, touched' = touched
  PROVE  InstallInv'
<1>1. /\ install'.at = "unwinding" /\ install'.before = install.before
      /\ install'.after = install.after /\ install'.changes = install.changes
      /\ install'.todo = install.todo /\ install'.committed = install.committed
      /\ install'.refused = install.refused
  BY DEF InstallInv, InstallTypes, Installs
<1>2. InstallTypes'
  BY DEF InstallInv, InstallTypes, Installs, Places
<1>3. Rounds'
  BY <1>1 DEF InstallInv, Rounds
<1>4. \A n \in Names : OurPart(n)'
  BY <1>1 DEF InstallInv, OurPart
<1>5. ASSUME NEW n \in Names \ touched
      PROVE  FileAt(n)'
  <2>1. FileAt(n) /\ Rounds
    BY DEF InstallInv
  <2>2. n \notin install.committed => AsBefore(n)
    BY <2>1 DEF FileAt, Rounds
  <2>3. n \in install.committed => Replaced(n)
    BY <2>1 DEF FileAt, Rounds
  <2>4. (n \notin install.committed => Restored(n))'
    BY <1>1, <2>2 DEF AsBefore, Restored, Survives
  <2>5. (n \in install.committed => Replaced(n))'
    BY <1>1, <2>3 DEF Replaced
  <2>6. (n \notin install.changes => install.before[n] = install.after[n] /\ AsBefore(n))'
    BY <1>1, <2>1 DEF FileAt, AsBefore
  <2>7. QED  BY <1>1, <2>4, <2>5, <2>6 DEF FileAt
<1>6. QED  BY <1>2, <1>3, <1>4, <1>5 DEF InstallInv

\* A file that is as it was previewed gets its successor.
LEMMA StageFileStep ==
  ASSUME InstallInv, NEW n \in Names, StageFile(n)
  PROVE  InstallInv'
<1>1. target' = target /\ backup' = backup /\ touched' = touched
  BY DEF StageFile
<1>2. install.at = "staging" /\ n \in install.todo
  BY DEF StageFile, Current
<1>3. CASE target[n] = install.before[n]
  <2>1. /\ temporary' = [temporary EXCEPT ![n] = install.after[n]]
        /\ install' = Forward(n, "staging", "moving")
    BY <1>3 DEF StageFile
  <2>2. /\ install' \in Installs
        /\ install'.before = install.before /\ install'.after = install.after
        /\ install'.changes = install.changes /\ install'.committed = install.committed
        /\ install'.refused = install.refused
        /\ \/ install'.at = "staging" /\ install'.todo = install.todo \ {n}
           \/ install'.at = "moving" /\ install'.todo = install.changes /\ install.todo = {n}
    BY <2>1, ForwardKeeps DEF InstallInv, Places
  <2>3. InstallTypes'
    BY <1>1, <2>1, <2>2 DEF InstallInv, InstallTypes, Installs
  <2>4. Rounds'
    BY <1>2, <2>2 DEF InstallInv, Rounds
  <2>5. \A m \in Names : OurPart(m)'
    BY <1>2, <2>2 DEF InstallInv, OurPart
  <2>6. ASSUME NEW m \in Names \ touched
        PROVE  FileAt(m)'
    <3>1. FileAt(m) /\ Rounds
      BY <1>2 DEF InstallInv
    <3>2. AsBefore(m)'
      BY <1>1, <1>2, <2>2, <3>1 DEF FileAt, AsBefore
    <3>3. m \in install.changes /\ m \notin install.todo \ {n} =>
            temporary'[m] = install'.after[m]
      BY <1>2, <2>1, <2>2, <3>1 DEF FileAt, InstallInv, InstallTypes
    <3>4. m \notin install'.committed
      BY <1>2, <2>2, <3>1 DEF Rounds
    <3>5. m \notin install'.changes => install'.before[m] = install'.after[m]
      BY <2>2, <3>1 DEF FileAt
    <3>6. m \in install'.todo => m \in install'.changes
      BY <2>4 DEF Rounds
    <3>7. QED  BY <2>2, <3>2, <3>3, <3>4, <3>5, <3>6 DEF FileAt
  <2>7. QED  BY <1>1, <2>3, <2>4, <2>5, <2>6 DEF InstallInv
<1>4. CASE target[n] # install.before[n]
  <2>1. temporary' = temporary /\ install' = [install EXCEPT !.at = "unwinding"]
    BY <1>4 DEF StageFile
  <2>2. QED  BY <1>1, <1>2, <2>1, UnwindFromHere
<1>5. QED  BY <1>3, <1>4

\* A file is moved to its backup, if it was there.
LEMMA MoveAwayStep ==
  ASSUME InstallInv, NEW n \in Names, MoveAway(n)
  PROVE  InstallInv'
<1>1. temporary' = temporary /\ touched' = touched
  BY DEF MoveAway
<1>2. install.at = "moving" /\ Current(n) /\ n \in install.todo
  BY DEF MoveAway, Current
<1>3. CASE install.before[n] # Absent /\ target[n] = Absent
  <2>1. /\ target' = target /\ backup' = backup
        /\ install' = [install EXCEPT !.at = "unwinding"]
    BY <1>3 DEF MoveAway
  <2>2. QED  BY <1>1, <1>2, <2>1, UnwindFromHere
<1>4. CASE install.before[n] = Absent \/ target[n] # Absent
  <2>1. /\ install' = [install EXCEPT !.at = "empty"]
        /\ \/ install.before[n] = Absent /\ target' = target /\ backup' = backup
           \/ /\ backup' = [backup EXCEPT ![n] = target[n]]
              /\ target' = [target EXCEPT ![n] = Absent]
    BY <1>4 DEF MoveAway
  <2>2. /\ install'.at = "empty" /\ install'.before = install.before
        /\ install'.after = install.after /\ install'.changes = install.changes
        /\ install'.todo = install.todo /\ install'.committed = install.committed
        /\ install'.refused = install.refused
    BY <2>1 DEF InstallInv, InstallTypes, Installs
  <2>3. InstallTypes'
    BY <1>1, <2>1 DEF InstallInv, InstallTypes, Installs, Places, Files
  <2>4. Rounds'
    BY <1>2, <2>2 DEF InstallInv, Rounds
  <2>5. \A m \in Names : OurPart(m)'
    BY <1>2, <2>2 DEF InstallInv, OurPart
  <2>6. ASSUME NEW m \in Names \ touched
        PROVE  FileAt(m)'
    <3>1. FileAt(m) /\ Rounds
      BY <1>2 DEF InstallInv
    <3>2. m # n => target'[m] = target[m] /\ backup'[m] = backup[m]
      BY <2>1 DEF InstallInv, InstallTypes
    <3>3. m = n => SetAside(m)'
      <4>1. m = n => target[m] = install.before[m] /\ backup[m] = Absent
        BY <1>2, <3>1 DEF FileAt, AsBefore
      <4>2. QED  BY <2>1, <2>2, <4>1 DEF InstallInv, InstallTypes, SetAside
    <3>4. (Current(m) <=> m = n)'
      BY <1>2, <2>2, OneAtATime DEF Current
    <3>5. (m \in install.todo =>
             temporary[m] = install.after[m] /\ (IF Current(m) THEN SetAside(m) ELSE AsBefore(m)))'
      BY <1>1, <1>2, <2>2, <3>1, <3>2, <3>3, <3>4 DEF FileAt, AsBefore
    <3>6. m \in install.changes \ install.todo => m # n
      BY <1>2
    <3>7. (m \in install.committed => Replaced(m))'
      BY <1>2, <2>2, <3>1, <3>2, <3>6 DEF FileAt, Rounds, Replaced
    <3>8. (m \notin install.changes => install.before[m] = install.after[m] /\ AsBefore(m))'
      BY <1>2, <2>2, <3>1, <3>2 DEF FileAt, Rounds, AsBefore
    <3>9. QED  BY <2>2, <3>5, <3>7, <3>8 DEF FileAt
  <2>7. QED  BY <1>1, <2>3, <2>4, <2>5, <2>6 DEF InstallInv
<1>5. QED  BY <1>3, <1>4

\* Its successor takes its place.
LEMMA MoveInStep ==
  ASSUME InstallInv, NEW n \in Names, MoveIn(n)
  PROVE  InstallInv'
<1> DEFINE f == Forward(n, "moving", "cleaning")
<1>1. backup' = backup /\ touched' = touched
      /\ target' = [target EXCEPT ![n] = temporary[n]]
      /\ temporary' = [temporary EXCEPT ![n] = Absent]
  BY DEF MoveIn
<1>2. install.at = "empty" /\ Current(n) /\ n \in install.todo
  BY DEF MoveIn, Current
<1>3. /\ f \in Installs
      /\ f.before = install.before /\ f.after = install.after
      /\ f.changes = install.changes /\ f.committed = install.committed
      /\ f.refused = install.refused
      /\ \/ f.at = "moving" /\ f.todo = install.todo \ {n}
         \/ f.at = "cleaning" /\ f.todo = install.changes /\ install.todo = {n}
  BY ForwardKeeps DEF InstallInv, Places
<1>4. install' = [f EXCEPT !.committed = @ \cup {n}]
  BY DEF MoveIn, Committed
<1> HIDE DEF f
<1>5. /\ install' \in Installs
      /\ install'.before = install.before /\ install'.after = install.after
      /\ install'.changes = install.changes
      /\ install'.committed = install.committed \cup {n}
      /\ install'.refused = install.refused
      /\ \/ install'.at = "moving" /\ install'.todo = install.todo \ {n}
         \/ install'.at = "cleaning" /\ install'.todo = install.changes /\ install.todo = {n}
  BY <1>3, <1>4 DEF Installs
<1>6. InstallTypes'
  BY <1>1, <1>5 DEF InstallInv, InstallTypes, Files
<1>7. Rounds'
  BY <1>2, <1>5 DEF InstallInv, Rounds
<1>8. \A m \in Names : OurPart(m)'
  BY <1>2, <1>5 DEF InstallInv, OurPart
<1>9. ASSUME NEW m \in Names \ touched
      PROVE  FileAt(m)'
  <2>1. FileAt(m) /\ Rounds
    BY <1>2 DEF InstallInv
  <2>2. m # n => target'[m] = target[m] /\ temporary'[m] = temporary[m] /\ backup'[m] = backup[m]
    BY <1>1 DEF InstallInv, InstallTypes
  <2>3. m = n => Replaced(m)'
    <3>1. m = n => backup[m] = install.before[m] /\ temporary[m] = install.after[m]
      BY <1>2, <2>1 DEF FileAt, SetAside
    <3>2. QED  BY <1>1, <1>5, <3>1 DEF InstallInv, InstallTypes, Replaced
  <2>4. m \in install.committed => m # n /\ Replaced(m)
    BY <1>2, <2>1 DEF FileAt, Rounds
  <2>5. (m \in install.committed => Replaced(m))'
    BY <1>5, <2>2, <2>3, <2>4 DEF Replaced
  <2>6. m \in install.todo \ {n} => AsBefore(m) /\ temporary[m] = install.after[m]
    BY <1>2, <2>1, OneAtATime DEF FileAt
  <2>7. (install.at = "moving" /\ m \in install.todo =>
           AsBefore(m) /\ temporary[m] = install.after[m])'
    BY <1>5, <2>2, <2>6 DEF AsBefore
  <2>8. (m \notin install.changes => install.before[m] = install.after[m] /\ AsBefore(m))'
    BY <1>2, <1>5, <2>1, <2>2 DEF FileAt, Rounds, AsBefore
  <2>9. install'.at = "cleaning" => target'[m] = install'.after[m]
    BY <1>5, <1>7, <2>5, <2>8 DEF Rounds, Replaced, AsBefore
  <2>10. QED  BY <1>5, <2>5, <2>7, <2>8, <2>9 DEF FileAt
<1>10. QED  BY <1>1, <1>6, <1>7, <1>8, <1>9 DEF InstallInv

\* Or it does not, and what was moved away is put back, or is not.
LEMMA MoveInThrowsStep ==
  ASSUME InstallInv, NEW n \in Names, MoveInThrows(n)
  PROVE  InstallInv'
<1>1. temporary' = temporary /\ touched' = touched
  BY DEF MoveInThrows
<1>2. install.at = "empty" /\ Current(n) /\ n \in install.todo
  BY DEF MoveInThrows, Current
<1>3. \/ /\ install' = [install EXCEPT !.at = "unwinding"]
         /\ CanPutBack(n)
         /\ target' = [target EXCEPT ![n] = backup[n]]
         /\ backup' = [backup EXCEPT ![n] = Absent]
      \/ /\ install' = [install EXCEPT !.at = "unwinding"]
         /\ ~CanPutBack(n)
         /\ target' = target /\ backup' = backup
      \/ /\ install' = [install EXCEPT !.at = "unwinding", !.refused = TRUE]
         /\ target' = target /\ backup' = backup
  BY DEF MoveInThrows
<1>4. /\ install' \in Installs
      /\ install'.at = "unwinding" /\ install'.before = install.before
      /\ install'.after = install.after /\ install'.changes = install.changes
      /\ install'.todo = install.todo /\ install'.committed = install.committed
  BY <1>3 DEF InstallInv, InstallTypes, Installs, Places
<1>5. InstallTypes'
  BY <1>1, <1>3, <1>4 DEF InstallInv, InstallTypes, Files
<1>6. Rounds'
  BY <1>2, <1>4 DEF InstallInv, Rounds
<1>7. \A m \in Names : OurPart(m)'
  BY <1>2, <1>4 DEF InstallInv, OurPart
<1>8. ASSUME NEW m \in Names \ touched
      PROVE  FileAt(m)'
  <2>1. FileAt(m) /\ Rounds
    BY <1>2 DEF InstallInv
  <2>2. m # n => target'[m] = target[m] /\ backup'[m] = backup[m]
    BY <1>3 DEF InstallInv, InstallTypes
  <2>3. m = n => Restored(m)'
    <3>1. m = n => target[m] = Absent /\ backup[m] = install.before[m]
      BY <1>2, <2>1 DEF FileAt, SetAside
    <3>2. CASE CanPutBack(n) /\ target' = [target EXCEPT ![n] = backup[n]]
      BY <1>4, <3>1, <3>2 DEF InstallInv, InstallTypes, Restored, Survives
    <3>3. CASE ~CanPutBack(n) /\ target' = target /\ backup' = backup
      BY <1>4, <3>1, <3>3 DEF CanPutBack, Restored, Survives
    <3>4. CASE /\ install' = [install EXCEPT !.at = "unwinding", !.refused = TRUE]
               /\ target' = target /\ backup' = backup
      <4>1. install'.refused = TRUE
        BY <3>4 DEF InstallInv, InstallTypes, Installs
      <4>2. QED  BY <1>4, <3>1, <3>4, <4>1 DEF Restored, Survives
    <3>5. QED  BY <1>3, <3>2, <3>3, <3>4
  <2>4. m \in install.todo \ {n} => AsBefore(m)
    BY <1>2, <2>1, OneAtATime DEF FileAt
  <2>5. m \notin install.changes => install.before[m] = install.after[m] /\ AsBefore(m) /\ m # n
    BY <1>2, <2>1 DEF FileAt, Rounds
  <2>6. (m \notin install.committed => Restored(m))'
    BY <1>2, <1>4, <2>1, <2>2, <2>3, <2>4, <2>5 DEF Rounds, AsBefore, Restored, Survives
  <2>7. m \in install.committed => m # n /\ Replaced(m)
    BY <1>2, <2>1 DEF FileAt, Rounds
  <2>8. (m \in install.committed => Replaced(m))'
    BY <1>4, <2>2, <2>7 DEF Replaced
  <2>9. (m \notin install.changes => install.before[m] = install.after[m] /\ AsBefore(m))'
    BY <1>4, <2>2, <2>5 DEF AsBefore
  <2>10. QED  BY <1>4, <2>6, <2>8, <2>9 DEF FileAt
<1>9. QED  BY <1>1, <1>5, <1>6, <1>7, <1>8 DEF InstallInv

\* The backup of a committed file goes, or stays.
LEMMA CleanUpStep ==
  ASSUME InstallInv, NEW n \in Names, NEW removed \in BOOLEAN, CleanUp(n, removed)
  PROVE  InstallInv'
<1>1. target' = target /\ temporary' = temporary /\ touched' = touched
      /\ backup' \in {backup, [backup EXCEPT ![n] = Absent]}
      /\ install' = Forward(n, "cleaning", "installed")
  BY DEF CleanUp
<1>2. install.at = "cleaning" /\ n \in install.todo
  BY DEF CleanUp, Current
<1>3. /\ install' \in Installs
      /\ install'.before = install.before /\ install'.after = install.after
      /\ install'.changes = install.changes /\ install'.committed = install.committed
      /\ install'.refused = install.refused
      /\ \/ install'.at = "cleaning" /\ install'.todo = install.todo \ {n}
         \/ install'.at = "installed" /\ install'.todo = install.changes
  BY <1>1, ForwardKeeps DEF InstallInv, Places
<1>4. InstallTypes'
  BY <1>1, <1>3 DEF InstallInv, InstallTypes, Files
<1>5. Rounds'
  BY <1>2, <1>3 DEF InstallInv, Rounds
<1>6. \A m \in Names : OurPart(m)'
  BY <1>2, <1>3 DEF InstallInv, OurPart
<1>7. ASSUME NEW m \in Names \ touched
      PROVE  FileAt(m)'
  <2>1. FileAt(m) /\ Rounds
    BY <1>2 DEF InstallInv
  <2>2. target'[m] = install'.after[m]
    BY <1>1, <1>2, <1>3, <2>1 DEF FileAt
  <2>3. (m \notin install.changes => install.before[m] = install.after[m] /\ AsBefore(m))'
    BY <1>1, <1>3, <2>1 DEF FileAt, AsBefore, InstallInv, InstallTypes
  <2>4. QED  BY <1>3, <2>2, <2>3 DEF FileAt
<1>8. QED  BY <1>1, <1>4, <1>5, <1>6, <1>7 DEF InstallInv

\* A committed file is removed again.
LEMMA UnwindStep ==
  ASSUME InstallInv, NEW n \in Names, Unwind(n)
  PROVE  InstallInv'
<1>1. temporary' = temporary /\ backup' = backup /\ touched' = touched
      /\ target' = [target EXCEPT ![n] = Absent]
      /\ install' = [install EXCEPT !.at = "unwound"]
  BY DEF Unwind
<1>2. install.at = "unwinding" /\ Latest(n) /\ n \in install.committed
  BY DEF Unwind, Latest
<1>3. /\ install' \in Installs
      /\ install'.at = "unwound" /\ install'.before = install.before
      /\ install'.after = install.after /\ install'.changes = install.changes
      /\ install'.todo = install.todo /\ install'.committed = install.committed
      /\ install'.refused = install.refused
  BY <1>1 DEF InstallInv, InstallTypes, Installs, Places
<1>4. InstallTypes'
  BY <1>1, <1>3 DEF InstallInv, InstallTypes, Files
<1>5. Rounds'
  BY <1>2, <1>3 DEF InstallInv, Rounds
<1>6. \A m \in Names : OurPart(m)'
  BY <1>2, <1>3 DEF InstallInv, OurPart
<1>7. ASSUME NEW m \in Names \ touched
      PROVE  FileAt(m)'
  <2>1. FileAt(m) /\ Rounds
    BY <1>2 DEF InstallInv
  <2>2. m # n => target'[m] = target[m]
    BY <1>1 DEF InstallInv, InstallTypes
  <2>3. m = n => SetAside(m)'
    <3>1. m = n => backup[m] = install.before[m]
      BY <1>2, <2>1 DEF FileAt, Replaced
    <3>2. QED  BY <1>1, <1>3, <3>1 DEF InstallInv, InstallTypes, SetAside
  <2>4. (Latest(m) <=> m = n)'
    BY <1>2, <1>3, OneAtATime DEF Latest
  <2>5. m \in install.committed => Replaced(m)
    BY <1>2, <2>1 DEF FileAt
  <2>6. (m \in install.committed => IF Latest(m) THEN SetAside(m) ELSE Replaced(m))'
    BY <1>1, <1>3, <2>2, <2>3, <2>4, <2>5 DEF Replaced
  <2>7. m \notin install.committed => m # n /\ Restored(m)
    BY <1>2, <2>1 DEF FileAt
  <2>8. (m \notin install.committed => Restored(m))'
    BY <1>1, <1>3, <2>2, <2>7 DEF Restored, Survives
  <2>9. m \notin install.changes => m # n
    BY <1>2, <2>1 DEF Rounds
  <2>10. (m \notin install.changes => install.before[m] = install.after[m] /\ AsBefore(m))'
    BY <1>1, <1>3, <2>1, <2>2, <2>9 DEF FileAt, AsBefore
  <2>11. QED  BY <1>3, <2>6, <2>8, <2>10 DEF FileAt
<1>8. QED  BY <1>1, <1>4, <1>5, <1>6, <1>7 DEF InstallInv

\* And its original is put back.
LEMMA PutBackStep ==
  ASSUME InstallInv, NEW n \in Names, PutBack(n)
  PROVE  InstallInv'
<1>1. temporary' = temporary /\ touched' = touched
      /\ install' = [install EXCEPT !.at = "unwinding", !.committed = @ \ {n}]
      /\ \/ /\ CanPutBack(n)
            /\ target' = [target EXCEPT ![n] = backup[n]]
            /\ backup' = [backup EXCEPT ![n] = Absent]
         \/ ~CanPutBack(n) /\ target' = target /\ backup' = backup
  BY DEF PutBack
<1>2. install.at = "unwound" /\ Latest(n) /\ n \in install.committed
  BY DEF PutBack, Latest
<1>3. /\ install' \in Installs
      /\ install'.at = "unwinding" /\ install'.before = install.before
      /\ install'.after = install.after /\ install'.changes = install.changes
      /\ install'.todo = install.todo /\ install'.committed = install.committed \ {n}
      /\ install'.refused = install.refused
  BY <1>1 DEF InstallInv, InstallTypes, Installs, Places
<1>4. InstallTypes'
  BY <1>1, <1>3 DEF InstallInv, InstallTypes, Files
<1>5. Rounds'
  BY <1>2, <1>3 DEF InstallInv, Rounds
<1>6. \A m \in Names : OurPart(m)'
  BY <1>2, <1>3 DEF InstallInv, OurPart
<1>7. ASSUME NEW m \in Names \ touched
      PROVE  FileAt(m)'
  <2>1. FileAt(m) /\ Rounds
    BY <1>2 DEF InstallInv
  <2>2. m # n => target'[m] = target[m] /\ backup'[m] = backup[m]
    BY <1>1 DEF InstallInv, InstallTypes
  <2>3. m = n => Restored(m)'
    <3>1. m = n => target[m] = Absent /\ backup[m] = install.before[m]
      BY <1>2, <2>1 DEF FileAt, SetAside
    <3>2. QED  BY <1>1, <1>3, <3>1 DEF InstallInv, InstallTypes, CanPutBack, Restored, Survives
  <2>4. m \in install.committed \ {n} => Replaced(m)
    BY <1>2, <2>1, OneAtATime DEF FileAt
  <2>5. (m \in install.committed => Replaced(m))'
    BY <1>3, <2>2, <2>4 DEF Replaced
  <2>6. m \notin install.committed => m # n /\ Restored(m)
    BY <1>2, <2>1 DEF FileAt
  <2>7. (m \notin install.committed => Restored(m))'
    BY <1>3, <2>2, <2>3, <2>6 DEF Restored, Survives
  <2>8. m \notin install.changes => m # n
    BY <1>2, <2>1 DEF Rounds
  <2>9. (m \notin install.changes => install.before[m] = install.after[m] /\ AsBefore(m))'
    BY <1>3, <2>1, <2>2, <2>8 DEF FileAt, AsBefore
  <2>10. QED  BY <1>3, <2>5, <2>7, <2>9 DEF FileAt
<1>8. QED  BY <1>1, <1>4, <1>5, <1>6, <1>7 DEF InstallInv

\* While it unwinds, an original that is not in its place is in its backup.
LEMMA KeptWhileUnwinding ==
  ASSUME InstallInv, install.at \in {"unwinding", "unwound"}, NEW m \in Names \ touched
  PROVE  Survives(m)
<1>1. FileAt(m)
  BY DEF InstallInv
<1>2. CASE m \in install.committed
  BY <1>1, <1>2 DEF FileAt, SetAside, Replaced, Survives
<1>3. CASE m \notin install.committed
  BY <1>1, <1>3 DEF FileAt, Restored
<1>4. QED  BY <1>2, <1>3

\* Unwinding is refused.
LEMMA UnwindingThrowsStep ==
  ASSUME InstallInv, NEW n \in Names, UnwindingThrows(n)
  PROVE  InstallInv'
<1>1. target' = target /\ temporary' = temporary /\ backup' = backup /\ touched' = touched
      /\ install' = [install EXCEPT !.at = "unwinding", !.committed = {}, !.refused = TRUE]
  BY DEF UnwindingThrows
<1>2. install.at \in {"unwinding", "unwound"}
  BY DEF UnwindingThrows
<1>3. /\ install' \in Installs
      /\ install'.at = "unwinding" /\ install'.before = install.before
      /\ install'.after = install.after /\ install'.changes = install.changes
      /\ install'.todo = install.todo /\ install'.committed = {}
      /\ install'.refused = TRUE
  BY <1>1 DEF InstallInv, InstallTypes, Installs, Places
<1>4. InstallTypes'
  BY <1>1, <1>3 DEF InstallInv, InstallTypes
<1>5. Rounds'
  BY <1>2, <1>3 DEF InstallInv, Rounds
<1>6. \A m \in Names : OurPart(m)'
  BY <1>2, <1>3 DEF InstallInv, OurPart
<1>7. ASSUME NEW m \in Names \ touched
      PROVE  FileAt(m)'
  <2>1. FileAt(m)
    BY <1>2 DEF InstallInv
  <2>2. Survives(m)
    BY <1>2, KeptWhileUnwinding
  <2>3. Restored(m)'
    BY <1>1, <1>3, <2>2 DEF Restored, Survives
  <2>4. (m \notin install.changes => install.before[m] = install.after[m] /\ AsBefore(m))'
    BY <1>1, <1>3, <2>1 DEF FileAt, AsBefore
  <2>5. QED  BY <1>3, <2>3, <2>4 DEF FileAt
<1>8. QED  BY <1>1, <1>4, <1>5, <1>6, <1>7 DEF InstallInv

\* Everything that could be unwound is.
LEMMA FailStep ==
  ASSUME InstallInv, Fail
  PROVE  InstallInv'
<1>1. target' = target /\ temporary' = Nothing /\ backup' = backup /\ touched' = touched
      /\ install' = [install EXCEPT !.at = "failed"]
  BY DEF Fail
<1>2. install.at = "unwinding" /\ install.committed = {}
  BY DEF Fail
<1>3. /\ install' \in Installs
      /\ install'.at = "failed" /\ install'.before = install.before
      /\ install'.after = install.after /\ install'.changes = install.changes
      /\ install'.todo = install.todo /\ install'.committed = install.committed
      /\ install'.refused = install.refused
  BY <1>1 DEF InstallInv, InstallTypes, Installs, Places
<1>4. InstallTypes'
  BY <1>1, <1>3 DEF InstallInv, InstallTypes, Nothing, Files
<1>5. Rounds'
  BY <1>2, <1>3 DEF InstallInv, Rounds
<1>6. \A m \in Names : OurPart(m)'
  BY <1>2, <1>3 DEF InstallInv, OurPart
<1>7. ASSUME NEW m \in Names \ touched
      PROVE  FileAt(m)'
  <2>1. FileAt(m)
    BY <1>2 DEF InstallInv
  <2>2. Restored(m)
    BY <1>2, <2>1 DEF FileAt
  <2>3. Restored(m)'
    BY <1>1, <1>3, <2>2 DEF Restored, Survives
  <2>4. (m \notin install.changes => install.before[m] = install.after[m] /\ AsBefore(m))'
    BY <1>1, <1>3, <2>1 DEF FileAt, AsBefore
  <2>5. QED  BY <1>3, <2>3, <2>4 DEF FileAt
<1>8. QED  BY <1>1, <1>4, <1>5, <1>6, <1>7 DEF InstallInv

\* The originals survive the process.
LEMMA InstallerDiesStep ==
  ASSUME InstallInv, InstallerDies
  PROVE  InstallInv'
<1>1. target' = target /\ temporary' = temporary /\ backup' = backup /\ touched' = touched
      /\ install' = [install EXCEPT !.at = "killed"]
  BY DEF InstallerDies
<1>2. install.at \in {"staging", "moving", "empty", "cleaning", "unwinding", "unwound"}
  BY DEF InstallerDies, InstallInv, InstallTypes, Installs, Places
<1>3. /\ install' \in Installs
      /\ install'.at = "killed" /\ install'.before = install.before
      /\ install'.after = install.after /\ install'.changes = install.changes
      /\ install'.todo = install.todo /\ install'.committed = install.committed
      /\ install'.refused = install.refused
  BY <1>1 DEF InstallInv, InstallTypes, Installs, Places
<1>4. InstallTypes'
  BY <1>1, <1>3 DEF InstallInv, InstallTypes
<1>5. Rounds'
  BY <1>2, <1>3 DEF InstallInv, Rounds
<1>6. \A m \in Names : OurPart(m)'
  BY <1>2, <1>3 DEF InstallInv, OurPart
<1>7. ASSUME NEW m \in Names \ touched
      PROVE  FileAt(m)'
  <2>1. FileAt(m) /\ Rounds
    BY <1>2 DEF InstallInv
  <2>2. Survives(m) \/ AllWritten
    <3>1. CASE install.at = "staging"
      BY <2>1, <3>1 DEF FileAt, AsBefore, Survives
    <3>2. CASE install.at \in {"moving", "empty"}
      BY <2>1, <3>2 DEF FileAt, Rounds, AsBefore, SetAside, Replaced, Survives
    <3>3. CASE install.at = "cleaning"
      BY <3>3 DEF InstallInv, FileAt, AllWritten
    <3>4. CASE install.at \in {"unwinding", "unwound"}
      BY <3>4, KeptWhileUnwinding
    <3>5. QED  BY <1>2, <3>1, <3>2, <3>3, <3>4
  <2>3. (Survives(m) \/ AllWritten)'
    BY <1>1, <1>3, <2>2 DEF Survives, AllWritten
  <2>4. (m \notin install.changes => install.before[m] = install.after[m] /\ AsBefore(m))'
    BY <1>1, <1>3, <2>1 DEF FileAt, AsBefore
  <2>5. QED  BY <1>3, <2>3, <2>4 DEF FileAt
<1>8. QED  BY <1>1, <1>4, <1>5, <1>6, <1>7 DEF InstallInv

\* What somebody writes is theirs; the other files are as they were.
LEMMA EditFileStep ==
  ASSUME InstallInv, NEW n \in Names, NEW content \in Files, EditFile(n, content)
  PROVE  InstallInv'
<1>1. temporary' = temporary /\ backup' = backup /\ install' = install
      /\ target' = [target EXCEPT ![n] = content] /\ touched' = touched \cup {n}
      /\ install.at # "idle"
  BY DEF EditFile
<1>2. InstallTypes'
  BY <1>1 DEF InstallInv, InstallTypes
<1>3. Rounds'
  BY <1>1 DEF InstallInv, Rounds
<1>4. \A m \in Names : OurPart(m)'
  BY <1>1 DEF InstallInv, OurPart
<1>5. ASSUME NEW m \in Names \ touched'
      PROVE  FileAt(m)'
  <2>1. FileAt(m) /\ m # n
    BY <1>1 DEF InstallInv
  <2>2. \A k \in Names \ touched' : k \in Names \ touched /\ target'[k] = target[k]
    BY <1>1 DEF InstallInv, InstallTypes
  <2>3. AllWritten => AllWritten'
    BY <1>1, <2>2 DEF AllWritten
  <2>4. target'[m] = target[m]
    BY <2>2
  <2>5. /\ Survives(m)' <=> Survives(m)
        /\ Restored(m)' <=> Restored(m)
        /\ AsBefore(m)' <=> AsBefore(m)
        /\ SetAside(m)' <=> SetAside(m)
        /\ Replaced(m)' <=> Replaced(m)
        /\ Current(m)' <=> Current(m)
        /\ Latest(m)' <=> Latest(m)
    BY <1>1, <2>4 DEF Survives, Restored, AsBefore, SetAside, Replaced, Current, Latest
  <2>6. QED  BY <1>1, <2>1, <2>3, <2>4, <2>5 DEF FileAt
<1>6. QED  BY <1>1, <1>2, <1>3, <1>4, <1>5 DEF InstallInv

\* So every step of an install keeps it.
LEMMA InstallStep ==
  ASSUME InstallInv, [InstallNext]_installVars
  PROVE  InstallInv'
<1>1. CASE BuildPlan
  BY <1>1, BuildPlanStep
<1>2. CASE \E yes \in BOOLEAN : Reply(yes)
  BY <1>2, ReplyStep
<1>3. CASE install.at \in {"staging", "moving"} /\ Throws("unwinding")
  <2>1. /\ install' = [install EXCEPT !.at = "unwinding"]
        /\ target' = target /\ temporary' = temporary /\ backup' = backup /\ touched' = touched
    BY <1>3 DEF Throws
  <2>2. QED  BY <1>3, <2>1, UnwindFromHere
<1>4. ASSUME NEW n \in Names,
             \/ StageFile(n)
             \/ MoveAway(n)
             \/ MoveIn(n)
             \/ MoveInThrows(n)
             \/ \E removed \in BOOLEAN : CleanUp(n, removed)
             \/ Unwind(n)
             \/ PutBack(n)
             \/ UnwindingThrows(n)
      PROVE  InstallInv'
  BY <1>4, StageFileStep, MoveAwayStep, MoveInStep, MoveInThrowsStep, CleanUpStep,
     UnwindStep, PutBackStep, UnwindingThrowsStep
<1>5. ASSUME NEW n \in Names,
             NEW content \in {Absent, [own |-> "more", ours |-> IF target[n] = Absent THEN "none"
                                                                 ELSE target[n].ours]},
             EditFile(n, content)
      PROVE  InstallInv'
  <2>1. target[n] \in Files
    BY DEF InstallInv, InstallTypes
  <2>2. target[n] # Absent => target[n].ours \in {"none", "stale", "exact"}
    BY <2>1 DEF Files, Content
  <2>3. content \in Files
    BY <2>2 DEF Files, Content
  <2>4. QED  BY <1>5, <2>3, EditFileStep
<1>6. CASE Fail
  BY <1>6, FailStep
<1>7. CASE InstallerDies
  BY <1>7, InstallerDiesStep
<1>8. CASE UNCHANGED installVars
  <2>1. /\ target' = target /\ temporary' = temporary /\ backup' = backup
        /\ install' = install /\ touched' = touched
    BY <1>8 DEF installVars
  <2>2. \A n \in Names :
          /\ OurPart(n)' <=> OurPart(n)
          /\ FileAt(n)' <=> FileAt(n)
    BY <2>1 DEF OurPart, FileAt, AsBefore, SetAside, Replaced, Restored, Survives,
                AllWritten, Current, Latest
  <2>3. InstallTypes' /\ Rounds'
    BY <2>1 DEF InstallInv, InstallTypes, Rounds
  <2>4. QED  BY <2>1, <2>2, <2>3 DEF InstallInv
<1>9. QED
  BY <1>1, <1>2, <1>3, <1>4, <1>5, <1>6, <1>7, <1>8 DEF InstallNext

(***************************************************************************)
(* In every reachable state of an install, each file that nobody wrote     *)
(* since the preview is where the transaction of applyAgentInstallPlan()   *)
(* has left it.                                                            *)
(***************************************************************************)
THEOREM InstallInvariance == InstallSpec => []InstallInv
<1>1. InstallInit => InstallInv
  <2>1. SUFFICES ASSUME InstallInit PROVE InstallInv
    OBVIOUS
  <2>2. target \in [Names -> Files]
    BY <2>1 DEF InstallInit, Files, Content
  <2>3. temporary = Nothing /\ backup = Nothing /\ install = NoInstall /\ touched = {}
    BY <2>1 DEF InstallInit
  <2>4. Nothing \in [Names -> Files]
    BY DEF Nothing, Files
  <2>5. /\ install.at = "idle" /\ install.changes = {} /\ install.todo = {}
        /\ install.committed = {} /\ install.refused = FALSE
    BY <2>3 DEF NoInstall
  <2>6. install \in Installs
    BY <2>3, <2>4 DEF NoInstall, Installs, Places
  <2>7. InstallTypes
    BY <2>2, <2>3, <2>4, <2>6 DEF InstallTypes
  <2>8. Rounds
    BY <2>3, <2>5 DEF Rounds
  <2>9. QED  BY <2>5, <2>7, <2>8 DEF InstallInv
<1>2. InstallInv /\ [InstallNext]_installVars => InstallInv'
  BY InstallStep
<1> QED BY <1>1, <1>2, PTL DEF InstallSpec

\* Files that say what the plan says are diagnosed as registered.
LEMMA WrittenIsRegistered ==
  ASSUME NEW files, \A n \in Names : OurPart(n) /\ files[n] = install.after[n]
  PROVE  diagnose(files) = "registered"
<1>1. ASSUME NEW n \in Names
      PROVE  /\ files[n] # Absent /\ files[n].ours = "exact"
             /\ n \notin Merged => files[n] = [own |-> "none", ours |-> "exact"]
  BY InstallAssumption DEF OurPart, Content
<1>2. QED  BY <1>1 DEF diagnose

(***************************************************************************)
(* An install writes every previewed file, or leaves every file as it was; *)
(* whatever throws and whoever is killed, an original that is not in its   *)
(* place is in its backup until everything is committed                    *)
(* (applyAgentInstallPlan(), diagnoseAgentIntegration()).                  *)
(***************************************************************************)
THEOREM AllOrNothing == InstallSpec => []InstallsAllOrNothing
<1>1. InstallInv => InstallsAllOrNothing
  <2>1. SUFFICES ASSUME InstallInv, install.at \notin {"idle", "previewed"}
                 PROVE  InstallsAllOrNothing
    BY DEF InstallsAllOrNothing
  <2>2. \A n \in Names \ touched : FileAt(n)
    BY <2>1 DEF InstallInv
  <2>3. ASSUME NEW n \in Names \ touched
        PROVE  /\ install.at = "installed" => target[n] = install.after[n]
               /\ install.at = "failed" /\ ~install.refused => target[n] = install.before[n]
    BY <2>1, <2>2 DEF FileAt, Restored, InstallInv, InstallTypes, Installs
  <2>4. ASSUME NEW n \in Names \ touched,
               install.at \notin {"cleaning", "installed"}, install.before[n] # Absent
        PROVE  \/ install.before[n] \in {target[n], backup[n]}
               \/ install.at = "killed" /\ \A m \in Names \ touched : target[m] = install.after[m]
    <3>1. FileAt(n) /\ Rounds
      BY <2>1, <2>2 DEF InstallInv
    <3>2. install.at \in {"staging", "moving", "empty", "unwinding", "unwound", "failed", "killed"}
      BY <2>1, <2>4 DEF InstallInv, InstallTypes, Installs, Places
    <3>3. CASE install.at = "staging"
      BY <3>1, <3>3 DEF FileAt, AsBefore
    <3>4. CASE install.at \in {"moving", "empty"}
      BY <3>1, <3>4 DEF FileAt, Rounds, AsBefore, SetAside, Replaced
    <3>5. CASE install.at \in {"unwinding", "unwound"}
      BY <2>1, <2>4, <3>5, KeptWhileUnwinding DEF Survives
    <3>6. CASE install.at \in {"failed", "killed"}
      BY <2>4, <3>1, <3>6 DEF FileAt, Restored, Survives, AllWritten
    <3>7. QED  BY <3>2, <3>3, <3>4, <3>5, <3>6
  <2>5. install.at = "installed" /\ touched = {} => diagnose(target) = "registered"
    BY <2>1, <2>3, WrittenIsRegistered DEF InstallInv
  <2>6. ASSUME install.at = "failed", ~install.refused, touched = {}
        PROVE  diagnose(target) = diagnose(install.before)
    <3>1. \A n \in Names : target[n] = install.before[n]
      BY <2>3, <2>6
    <3>2. target = install.before
      BY <2>1, <3>1 DEF InstallInv, InstallTypes, Installs
    <3>3. QED  BY <3>2
  <2>7. QED  BY <2>3, <2>4, <2>5, <2>6 DEF InstallsAllOrNothing
<1> QED BY <1>1, InstallInvariance, PTL

-----------------------------------------------------------------------------
(* Answers against PRDs.  Each requirement of an answer is written with    *)
(* the citations that were checked for it, what was handed out is what is  *)
(* stored of the answer's relevance, and an answer that was abandoned is   *)
(* never touched again.                                                    *)

Answers == [kind : {"observed", "proposed"}, paths : SUBSET CitablePaths]

RowSet ==
  [answer : Nat, prd : Prds, requirement : Requirements, text : PrdTexts,
   state : States]

CiteSet ==
  [answer : Nat, prd : Prds, requirement : Requirements, seq : Nat,
   cites : Claimable, verified : BOOLEAN, role : {"contradicting", "supporting"}]

Results == [row : RowSet, citations : SUBSET CiteSet]

\* The handler works for the answer that was handed in last, an observed one.
HandlerFits ==
  \/ handler = Idle
  \/ /\ handler.answer = Len(handed) /\ Len(handed) > 0
     /\ handed[handler.answer].kind = "observed"
     /\ \/ handler.at = "relevance"
        \/ /\ handler = [at |-> "assessing", answer |-> handler.answer,
                         candidates |-> handler.candidates,
                         results |-> handler.results]
           /\ handler.results \in Seq(Results)

\* Every row is one of an answer that was handed in, and none is there of the
\* answer whose relevance is about to be saved.
OfAnswers(table) ==
  \A r \in table :
    /\ r.answer \in 1 .. Len(handed)
    /\ handler.at = "relevance" => r.answer # handler.answer

\* What a table of relevance has of an answer.
ShownFor(n, table) ==
  {[prd |-> r.prd, text |-> r.text, relevance |-> r.relevance] :
     r \in {q \in table : q.answer = n}}

Again(results, i) ==
  \E j \in DOMAIN results \ {i} : Key(results[j].row) = Key(results[i].row)

\* Results of an answer are in the tables, unless one requirement was assessed
\* twice.
Recorded(n, results, rows, cites) ==
  \A i \in DOMAIN results :
    /\ results[i].row.answer = n
    /\ \/ Again(results, i)
       \/ /\ results[i].row \in rows
          /\ results[i].citations = {e \in cites : Key(e) = Key(results[i].row)}

\* While requirements are assessed, what was handed out is what is stored, and
\* no row of the answer was written without a result.
AssessingFits ==
  handler.at = "assessing" =>
    /\ handler.candidates = ShownFor(handler.answer, relevance)
    /\ Recorded(handler.answer, handler.results, assessments, grounds)
    /\ \A r \in assessments : r.answer = handler.answer =>
         \E i \in DOMAIN handler.results : Key(handler.results[i].row) = Key(r)

\* A reply is about an answer nobody works for, and says what is stored.
ReplyFits(reply) ==
  /\ reply.answer \in 1 .. Len(handed)
  /\ handler.at # "idle" => reply.answer # handler.answer
  /\ reply.relevance = ShownFor(reply.answer, relevance)
  /\ Recorded(reply.answer, reply.results, assessments, grounds)

SubmissionInv ==
  /\ handed \in Seq(Answers)
  /\ HandlerFits
  /\ OfAnswers(relevance) /\ OfAnswers(assessments) /\ OfAnswers(grounds)
  /\ \A r \in relevance : handed[r.answer].kind = "observed"
  /\ \A row \in assessments : Grounded(row)
  /\ \A e \in grounds : \E r \in assessments : Key(r) = Key(e)
  /\ AssessingFits
  /\ \A reply \in replies : ReplyFits(reply)

-----------------------------------------------------------------------------
(* Tables that grow                                                        *)

LEMMA Keys ==
  ASSUME NEW r, NEW s
  PROVE  Key(r) = Key(s) <=>
           r.answer = s.answer /\ r.prd = s.prd /\ r.requirement = s.requirement
  BY DEF Key

LEMMA GroundedStays ==
  ASSUME NEW row, Grounded(row), relevance \subseteq relevance',
         grounds \subseteq grounds'
  PROVE  Grounded(row)'
  BY DEF Grounded

\* Rows and citations of another answer make no difference to one.
LEMMA RecordedStays ==
  ASSUME NEW n, NEW results, NEW rows, NEW cites, NEW more, NEW cited,
         Recorded(n, results, rows, cites),
         rows \subseteq more, cites \subseteq cited,
         \A e \in cited \ cites : e.answer # n
  PROVE  Recorded(n, results, more, cited)
<1> SUFFICES ASSUME NEW i \in DOMAIN results
             PROVE  /\ results[i].row.answer = n
                    /\ \/ Again(results, i)
                       \/ /\ results[i].row \in more
                          /\ results[i].citations =
                               {e \in cited : Key(e) = Key(results[i].row)}
  BY DEF Recorded
<1>1. /\ results[i].row.answer = n
      /\ \/ Again(results, i)
         \/ /\ results[i].row \in rows
            /\ results[i].citations = {e \in cites : Key(e) = Key(results[i].row)}
  BY DEF Recorded
<1>2. {e \in cites : Key(e) = Key(results[i].row)} =
      {e \in cited : Key(e) = Key(results[i].row)}
  BY <1>1, Keys
<1> QED BY <1>1, <1>2

LEMMA ShownForStays ==
  ASSUME NEW n, NEW table, NEW more, table \subseteq more,
         \A r \in more \ table : r.answer # n
  PROVE  ShownFor(n, more) = ShownFor(n, table)
<1>1. {q \in more : q.answer = n} = {q \in table : q.answer = n}
  OBVIOUS
<1> QED BY <1>1 DEF ShownFor

\* So a reply that was given stays true while the tables grow by rows of the
\* answer that is worked for.
LEMMA RepliesStay ==
  ASSUME NEW reply, ReplyFits(reply), handler.at # "idle",
         handler'.at = "idle" \/ handler'.answer = handler.answer,
         UNCHANGED handed, relevance \subseteq relevance',
         assessments \subseteq assessments', grounds \subseteq grounds',
         \A r \in relevance' \ relevance : r.answer = handler.answer,
         \A e \in grounds' \ grounds : e.answer = handler.answer
  PROVE  ReplyFits(reply)'
<1>1. /\ reply.answer \in 1 .. Len(handed) /\ reply.answer # handler.answer
      /\ reply.relevance = ShownFor(reply.answer, relevance)
      /\ Recorded(reply.answer, reply.results, assessments, grounds)
  BY DEF ReplyFits
<1>2. \A r \in relevance' \ relevance : r.answer # reply.answer
  BY <1>1
<1>3. \A e \in grounds' \ grounds : e.answer # reply.answer
  BY <1>1
<1>4. ShownFor(reply.answer, relevance') = ShownFor(reply.answer, relevance)
  BY <1>2, ShownForStays
<1>5. Recorded(reply.answer, reply.results, assessments', grounds')
  BY <1>1, <1>3, RecordedStays
<1> QED BY <1>1, <1>4, <1>5 DEF ReplyFits

-----------------------------------------------------------------------------
(* The steps                                                               *)

\* The answers and the tables are left alone, and the handler goes on or stops.
LEMMA StillFits ==
  ASSUME SubmissionInv, UNCHANGED <<handed, relevance, assessments, grounds, replies>>,
         handler' = handler \/ handler' = Idle
  PROVE  SubmissionInv'
<1>0. Idle.at = "idle"
  BY DEF Idle
<1>1. HandlerFits'
  BY DEF SubmissionInv, HandlerFits
<1>2. OfAnswers(relevance)' /\ OfAnswers(assessments)' /\ OfAnswers(grounds)'
  BY <1>0 DEF SubmissionInv, OfAnswers
<1>3. AssessingFits'
  BY <1>0 DEF SubmissionInv, AssessingFits
<1>4. ASSUME NEW reply \in replies' PROVE ReplyFits(reply)'
  BY <1>0 DEF SubmissionInv, ReplyFits
<1>5. ASSUME NEW row \in assessments' PROVE Grounded(row)'
  BY GroundedStays DEF SubmissionInv
<1> QED BY <1>1, <1>2, <1>3, <1>4, <1>5 DEF SubmissionInv

\* A new answer has no row in any table.
LEMMA SubmitKeeps ==
  ASSUME SubmissionInv, NEW kind \in {"observed", "proposed"},
         NEW paths \in SUBSET CitablePaths, Submit(kind, paths)
  PROVE  SubmissionInv'
<1> DEFINE n == Len(handed)
           new == [kind |-> kind, paths |-> paths]
<1>1. /\ handed' = Append(handed, new) /\ handler = Idle
      /\ UNCHANGED <<relevance, assessments, grounds>>
      /\ IF kind = "observed"
         THEN handler' = [at |-> "relevance", answer |-> n + 1] /\ UNCHANGED replies
         ELSE /\ replies' = replies \cup
                   {[answer |-> n + 1, relevance |-> {}, results |-> <<>>]}
              /\ UNCHANGED handler
  BY DEF Submit, tables
<1>2. new \in Answers /\ handed \in Seq(Answers) /\ Idle.at = "idle"
  BY DEF Answers, SubmissionInv, Idle
<1>3. /\ handed' \in Seq(Answers) /\ Len(handed') = n + 1 /\ n \in Nat
      /\ \A i \in 1 .. n : handed'[i] = handed[i]
      /\ handed'[n + 1] = new
  BY <1>1, <1>2
<1> HIDE DEF n
<1>4. \A i \in 1 .. n : i \in 1 .. n + 1 /\ i # n + 1
  BY <1>3
<1>5. /\ \A r \in relevance : r.answer \in 1 .. n /\ handed'[r.answer].kind = "observed"
      /\ \A r \in assessments \cup grounds : r.answer \in 1 .. n
  BY <1>3 DEF SubmissionInv, OfAnswers, n
<1>6. HandlerFits'
  BY <1>1, <1>3 DEF HandlerFits
<1>7. handler'.at = "relevance" => handler'.answer = n + 1
  BY <1>1, <1>2
<1>8. OfAnswers(relevance)' /\ OfAnswers(assessments)' /\ OfAnswers(grounds)'
  BY <1>1, <1>3, <1>4, <1>5, <1>7 DEF OfAnswers
<1>9. AssessingFits'
  BY <1>1, <1>2 DEF AssessingFits
<1>10. ASSUME NEW row \in assessments' PROVE Grounded(row)'
  BY <1>1, GroundedStays DEF SubmissionInv
<1>11. ASSUME NEW reply \in replies PROVE ReplyFits(reply)'
  <2>1. /\ reply.answer \in 1 .. n
        /\ reply.relevance = ShownFor(reply.answer, relevance)
        /\ Recorded(reply.answer, reply.results, assessments, grounds)
    BY DEF SubmissionInv, ReplyFits, n
  <2>2. handler'.at # "idle" => handler'.answer = n + 1
    BY <1>1, <1>2
  <2> QED BY <1>1, <1>3, <1>4, <2>1, <2>2 DEF ReplyFits
<1>12. ASSUME NEW reply \in replies' \ replies PROVE ReplyFits(reply)'
  <2>1. reply = [answer |-> n + 1, relevance |-> {}, results |-> <<>>]
        /\ handler'.at = "idle"
    BY <1>1, <1>2, <1>12
  <2>2. ShownFor(n + 1, relevance) = {}
    BY <1>4, <1>5 DEF ShownFor
  <2>3. Recorded(n + 1, <<>>, assessments, grounds)
    BY DEF Recorded
  <2>4. n + 1 \in 1 .. n + 1
    BY <1>3
  <2> QED BY <1>1, <1>3, <2>1, <2>2, <2>3, <2>4 DEF ReplyFits
<1> QED
  BY <1>1, <1>3, <1>5, <1>6, <1>8, <1>9, <1>10, <1>11, <1>12 DEF SubmissionInv

\* A step of the handler: rows of its answer are added, and every row that is
\* added is grounded.
LEMMA HandlerStep ==
  ASSUME SubmissionInv, handler.at # "idle",
         handler'.at \in {"idle", "assessing"}, HandlerFits', AssessingFits',
         handler'.at = "idle" \/ handler'.answer = handler.answer,
         UNCHANGED handed, relevance \subseteq relevance',
         assessments \subseteq assessments', grounds \subseteq grounds',
         \A r \in relevance' \ relevance : r.answer = handler.answer,
         \A r \in assessments' \ assessments :
           r.answer = handler.answer /\ Grounded(r)',
         \A e \in grounds' \ grounds :
           e.answer = handler.answer /\ \E r \in assessments' : Key(r) = Key(e),
         \A reply \in replies' \ replies : ReplyFits(reply)'
  PROVE  SubmissionInv'
<1>1. /\ handler.answer = Len(handed) /\ Len(handed) > 0
      /\ handed[handler.answer].kind = "observed"
      /\ handed \in Seq(Answers)
  BY DEF SubmissionInv, HandlerFits, Idle
<1>2. handler.answer \in 1 .. Len(handed)
  BY <1>1
<1>3. OfAnswers(relevance)' /\ OfAnswers(assessments)' /\ OfAnswers(grounds)'
  BY <1>2 DEF SubmissionInv, OfAnswers
<1>4. \A r \in relevance' : handed'[r.answer].kind = "observed"
  BY <1>1 DEF SubmissionInv
<1>5. ASSUME NEW row \in assessments' PROVE Grounded(row)'
  BY GroundedStays DEF SubmissionInv
<1>6. \A e \in grounds' : \E r \in assessments' : Key(r) = Key(e)
  BY DEF SubmissionInv
<1>7. ASSUME NEW reply \in replies' PROVE ReplyFits(reply)'
  BY RepliesStay DEF SubmissionInv
<1> QED BY <1>1, <1>3, <1>4, <1>5, <1>6, <1>7 DEF SubmissionInv

\* What was found is what is handed out, and the first that is stored.
LEMMA SaveRelevanceKeeps ==
  ASSUME SubmissionInv, SaveRelevance
  PROVE  SubmissionInv'
<1> DEFINE found == assessPrdRelevance(handed[handler.answer].paths)
           n == handler.answer
           RowOf(c) == [answer |-> n, prd |-> c.prd, text |-> c.text,
                        relevance |-> c.relevance]
<1>1. /\ handler.at = "relevance"
      /\ relevance' = relevance \cup {RowOf(c) : c \in found}
      /\ handler' = [at |-> "assessing", answer |-> n, candidates |-> found,
                     results |-> <<>>]
      /\ UNCHANGED <<handed, assessments, grounds, replies>>
  BY DEF SaveRelevance, world
<1>2. \A c \in found :
        c = [prd |-> c.prd, text |-> c.text, relevance |-> c.relevance]
  BY DEF assessPrdRelevance
<1> HIDE DEF found
<1>3. /\ n = Len(handed) /\ Len(handed) > 0 /\ handed[n].kind = "observed"
      /\ \A r \in relevance : r.answer # n
      /\ \A r \in assessments : r.answer # n
  BY <1>1 DEF SubmissionInv, HandlerFits, Idle, OfAnswers
<1>4. HandlerFits'
  BY <1>1, <1>3 DEF HandlerFits
<1>5. ShownFor(n, relevance') = found
  <2>1. ASSUME NEW c \in found PROVE c \in ShownFor(n, relevance')
    <3>1. RowOf(c) \in relevance' /\ RowOf(c).answer = n
      BY <1>1
    <3>2. c = [prd |-> RowOf(c).prd, text |-> RowOf(c).text,
               relevance |-> RowOf(c).relevance]
      BY <1>2
    <3> QED BY <3>1, <3>2 DEF ShownFor
  <2>2. ASSUME NEW c \in ShownFor(n, relevance') PROVE c \in found
    <3>1. PICK r \in relevance' :
            /\ r.answer = n
            /\ c = [prd |-> r.prd, text |-> r.text, relevance |-> r.relevance]
      BY DEF ShownFor
    <3>2. PICK d \in found : r = RowOf(d)
      BY <1>1, <1>3, <3>1
    <3>3. c = [prd |-> d.prd, text |-> d.text, relevance |-> d.relevance]
      BY <3>1, <3>2
    <3> QED BY <1>2, <3>3
  <2> QED BY <2>1, <2>2
<1>6. Recorded(n, <<>>, assessments, grounds)
  BY DEF Recorded
<1>7. AssessingFits'
  BY <1>1, <1>3, <1>5, <1>6 DEF AssessingFits
<1>8. \A r \in relevance' \ relevance : r.answer = n
  BY <1>1
<1> QED BY <1>1, <1>4, <1>7, <1>8, HandlerStep

LEMMA ReplyKeeps ==
  ASSUME SubmissionInv, ReplyAccepted
  PROVE  SubmissionInv'
<1>1. /\ handler.at = "assessing" /\ handler' = Idle
      /\ replies' = replies \cup
           {[answer |-> handler.answer, results |-> handler.results,
             relevance |-> handler.candidates]}
      /\ UNCHANGED <<handed, relevance, assessments, grounds>>
  BY DEF ReplyAccepted, world, tables
<1>2. handler'.at = "idle" /\ HandlerFits' /\ AssessingFits'
  BY <1>1 DEF Idle, HandlerFits, AssessingFits
<1>3. handler.answer \in 1 .. Len(handed)
  BY <1>1 DEF SubmissionInv, HandlerFits, Idle
<1>4. ASSUME NEW reply \in replies' \ replies PROVE ReplyFits(reply)'
  <2>1. reply = [answer |-> handler.answer, results |-> handler.results,
                 relevance |-> handler.candidates]
    BY <1>1, <1>4
  <2>2. /\ handler.candidates = ShownFor(handler.answer, relevance)
        /\ Recorded(handler.answer, handler.results, assessments, grounds)
    BY <1>1 DEF SubmissionInv, AssessingFits
  <2> QED BY <1>1, <1>2, <1>3, <2>1, <2>2 DEF ReplyFits
<1> QED BY <1>1, <1>2, <1>4, HandlerStep

\* The row and the citations of an assessment.
LEMMA RowFits ==
  ASSUME NEW a \in Assessments, handler.answer \in Nat
  PROVE  /\ Row(a) \in RowSet
         /\ Row(a).answer = handler.answer /\ Row(a).prd = a.prd
         /\ Row(a).requirement = a.requirement /\ Row(a).text = a.text
         /\ Row(a).state = NormalState(a)
<1>1. NormalState(a) \in States
  BY DEF NormalState, Assessments, States
<1> QED BY <1>1 DEF Row, RowSet, Assessments

LEMMA CitationsFit ==
  ASSUME NEW a \in Assessments, handler.answer \in Nat
  PROVE  /\ Citations(a) \in SUBSET CiteSet
         /\ \A e \in Citations(a) :
              e.answer = handler.answer /\ Key(e) = Key(Row(a))
<1> DEFINE role == IF a.state = "violated" THEN "contradicting" ELSE "supporting"
           Cite(i, v) == [answer |-> handler.answer, prd |-> a.prd,
                          requirement |-> a.requirement, seq |-> i,
                          cites |-> a.cited[i], verified |-> v, role |-> role]
<1>1. PICK n \in 0 .. MaxCited : a.cited \in [1 .. n -> Claimable]
  BY DEF Assessments
<1>2. \A i \in DOMAIN a.cited : i \in Nat /\ a.cited[i] \in Claimable
  BY <1>1, SubmissionAssumption
<1> SUFFICES ASSUME NEW e \in Citations(a)
             PROVE  e \in CiteSet /\ e.answer = handler.answer /\ Key(e) = Key(Row(a))
  OBVIOUS
<1>3. PICK i \in DOMAIN a.cited : e = Cite(i, a.cited[i] \in holds)
  BY DEF Citations
<1> DEFINE v == a.cited[i] \in holds
<1>4. v \in BOOLEAN /\ e = Cite(i, v)
  BY <1>3
<1> HIDE DEF v
<1>5. e = Cite(i, v)
  BY <1>4
<1>6. e \in CiteSet
  BY <1>2, <1>4 DEF CiteSet, Assessments
<1>7. e.answer = handler.answer /\ e.prd = a.prd /\ e.requirement = a.requirement
  BY <1>5
<1> QED BY <1>6, <1>7, RowFits, Keys

\* A claim that is stored has a verified citation of its side among those of
\* its assessment, and is about the text that was handed out.
LEMMA ClaimsStand ==
  ASSUME NEW a \in Assessments, handler.answer \in Nat,
         NormalState(a) \in {"aligned", "violated"}
  PROVE  /\ \A c \in Handed(a) : a.text = c.text
         /\ \E e \in Citations(a) :
              /\ e.verified
              /\ e.role = IF Row(a).state = "violated" THEN "contradicting"
                                                        ELSE "supporting"
<1>1. /\ NormalState(a) = a.state
      /\ \A c \in Handed(a) : a.text = c.text
      /\ \E i \in DOMAIN a.cited : a.cited[i] \in holds
  BY DEF NormalState
<1>2. PICK i \in DOMAIN a.cited : a.cited[i] \in holds
  BY <1>1
<1> DEFINE e == [answer |-> handler.answer, prd |-> a.prd,
                 requirement |-> a.requirement, seq |-> i, cites |-> a.cited[i],
                 verified |-> a.cited[i] \in holds,
                 role |-> IF a.state = "violated" THEN "contradicting" ELSE "supporting"]
<1>3. e \in Citations(a)
  BY DEF Citations
<1>4. e.verified = (a.cited[i] \in holds)
  BY Zenon
<1>5. e.verified
  BY <1>2, <1>4, Zenon
<1>6. e.role = IF a.state = "violated" THEN "contradicting" ELSE "supporting"
  OBVIOUS
<1> HIDE DEF e
<1> QED BY <1>1, <1>3, <1>5, <1>6, RowFits

LEMMA ResultsGrow ==
  ASSUME NEW results \in Seq(Results), NEW new \in Results
  PROVE  /\ Append(results, new) \in Seq(Results)
         /\ DOMAIN results = 1 .. Len(results) /\ Len(results) \in Nat
         /\ DOMAIN Append(results, new) = 1 .. Len(results) + 1
         /\ \A i \in 1 .. Len(results) : Append(results, new)[i] = results[i]
         /\ Append(results, new)[Len(results) + 1] = new
  OBVIOUS

\* What Assess() writes, `new` being the result and `grown` all of them.
Writes(new, grown) ==
  /\ new \in Results
  /\ new.row.answer = handler.answer
  /\ \A e \in new.citations : Key(e) = Key(new.row)
  /\ handler.results \in Seq(Results)
  /\ grown = Append(handler.results, new)
  /\ assessments' = IF \E r \in assessments : Key(r) = Key(new.row)
                    THEN assessments ELSE assessments \cup {new.row}
  /\ grounds' = grounds \cup
       {e \in new.citations : ~\E r \in grounds : Key(r) = Key(e) /\ r.seq = e.seq}

\* One more result of an answer: the rows it finds taken were results before,
\* and the rows it writes are its own.
LEMMA RecordedGrows ==
  ASSUME Recorded(handler.answer, handler.results, assessments, grounds),
         \A r \in assessments : r.answer = handler.answer =>
           \E i \in DOMAIN handler.results : Key(handler.results[i].row) = Key(r),
         \A e \in grounds : \E r \in assessments : Key(r) = Key(e),
         NEW new, NEW grown, Writes(new, grown)
  PROVE  /\ Recorded(handler.answer, grown, assessments', grounds')
         /\ \A r \in assessments' : r.answer = handler.answer =>
              \E i \in DOMAIN grown : Key(grown[i].row) = Key(r)
<1>1. /\ new \in Results
      /\ new.row.answer = handler.answer
      /\ \A e \in new.citations : Key(e) = Key(new.row)
      /\ handler.results \in Seq(Results)
      /\ grown = Append(handler.results, new)
  BY DEF Writes
<1>2. /\ assessments' = IF \E r \in assessments : Key(r) = Key(new.row)
                        THEN assessments ELSE assessments \cup {new.row}
      /\ grounds' = grounds \cup
           {e \in new.citations : ~\E r \in grounds : Key(r) = Key(e) /\ r.seq = e.seq}
  BY DEF Writes
<1> DEFINE n == handler.answer
           results == handler.results
           row == new.row
           citations == new.citations
           rows == assessments
           cites == grounds
           more == assessments'
           cited == grounds'
<1> DEFINE m == Len(results)
<1>3. new.row = row /\ new.citations = citations
  OBVIOUS
<1>4. /\ DOMAIN results = 1 .. m /\ m \in Nat /\ DOMAIN grown = 1 .. m + 1
      /\ \A i \in 1 .. m : grown[i] = results[i]
      /\ grown[m + 1] = new
  BY <1>1, ResultsGrow
<1> HIDE DEF m
<1>5. \A i \in 1 .. m : i \in 1 .. m + 1 /\ i # m + 1
  BY <1>4
<1>6. m + 1 \in 1 .. m + 1
  BY <1>4
<1>7. ASSUME NEW i \in DOMAIN grown
      PROVE  /\ grown[i].row.answer = n
             /\ \/ Again(grown, i)
                \/ /\ grown[i].row \in more
                   /\ grown[i].citations = {e \in cited : Key(e) = Key(grown[i].row)}
  <2>1. CASE i \in 1 .. m
    <3>1. /\ grown[i] = results[i] /\ results[i].row.answer = n
          /\ \/ Again(results, i)
             \/ /\ results[i].row \in rows
                /\ results[i].citations = {e \in cites : Key(e) = Key(results[i].row)}
      BY <1>4, <2>1 DEF Recorded
    <3>2. CASE Again(results, i)
      <4>1. PICK j \in DOMAIN results \ {i} : Key(results[j].row) = Key(results[i].row)
        BY <3>2 DEF Again
      <4>2. j \in DOMAIN grown \ {i} /\ grown[j] = results[j]
        BY <1>4, <1>5, <4>1
      <4> QED BY <3>1, <4>1, <4>2 DEF Again
    <3>3. CASE Key(row) = Key(results[i].row)
      <4>1. m + 1 \in DOMAIN grown \ {i}
        BY <1>4, <1>5, <1>6, <2>1
      <4> QED BY <1>3, <1>4, <3>1, <3>3, <4>1 DEF Again
    <3>4. CASE ~Again(results, i) /\ Key(row) # Key(results[i].row)
      <4>1. results[i].row \in more
        BY <1>1, <1>2, <3>1, <3>4
      <4>2. {e \in cites : Key(e) = Key(results[i].row)} =
            {e \in cited : Key(e) = Key(results[i].row)}
        BY <1>1, <1>2, <3>4
      <4> QED BY <3>1, <3>4, <4>1, <4>2
    <3> QED BY <3>2, <3>3, <3>4
  <2>2. CASE i = m + 1
    <3>1. grown[i] = new
      BY <1>4, <2>2
    <3>2. CASE \E r \in rows : Key(r) = Key(row)
      <4>1. PICK r \in rows : Key(r) = Key(row)
        BY <3>2
      <4>2. r.answer = n
        BY <1>1, <1>2, <4>1, Keys
      <4>3. PICK j \in DOMAIN results : Key(results[j].row) = Key(r)
        BY <4>1, <4>2
      <4>4. j \in DOMAIN grown \ {i} /\ grown[j] = results[j]
        BY <1>4, <1>5, <2>2, <4>3
      <4> QED BY <1>1, <1>2, <1>3, <3>1, <4>1, <4>3, <4>4 DEF Again
    <3>3. CASE ~\E r \in rows : Key(r) = Key(row)
      <4>1. row \in more
        BY <1>1, <1>2, <3>3
      <4>2. \A e \in cites : Key(e) # Key(row)
        BY <3>3
      <4>3. citations = {e \in cited : Key(e) = Key(row)}
        BY <1>1, <1>2, <4>2
      <4> QED BY <1>1, <1>2, <1>3, <3>1, <4>1, <4>3
    <3> QED BY <3>2, <3>3
  <2> QED BY <1>4, <2>1, <2>2
<1>8. Recorded(n, grown, more, cited)
  BY <1>7 DEF Recorded
<1>9. ASSUME NEW r \in more, r.answer = n
      PROVE  \E i \in DOMAIN grown : Key(grown[i].row) = Key(r)
  <2>1. CASE r = row
    BY <1>3, <1>4, <1>6, <2>1
  <2>2. CASE r # row
    <3>1. PICK j \in DOMAIN results : Key(results[j].row) = Key(r)
      BY <1>1, <1>2, <1>9, <2>2
    <3> QED BY <1>4, <1>5, <3>1
  <2> QED BY <2>1, <2>2
<1> QED BY <1>8, <1>9

\* An assessment of a requirement that was handed out.
LEMMA AssessKeeps ==
  ASSUME SubmissionInv, NEW a \in Assessments, Assess(a)
  PROVE  SubmissionInv'
<1>1. CASE UNCHANGED <<handler, assessments, grounds>>
  <2>1. UNCHANGED <<handed, relevance, replies>>
    BY DEF Assess
  <2> QED BY <1>1, <2>1, StillFits
<1>2. CASE ~UNCHANGED <<handler, assessments, grounds>>
  <2> DEFINE n == handler.answer
             new == [row |-> Row(a), citations |-> Citations(a)]
  <2>1. /\ handler.at = "assessing" /\ Handed(a) # {}
        /\ assessments' = IF \E r \in assessments : Key(r) = Key(Row(a))
                          THEN assessments ELSE assessments \cup {Row(a)}
        /\ grounds' = grounds \cup
             {e \in Citations(a) : ~\E r \in grounds : Key(r) = Key(e) /\ r.seq = e.seq}
        /\ handler' = [handler EXCEPT !.results = Append(@, new)]
        /\ UNCHANGED <<handed, relevance, replies>>
    BY <1>2 DEF Assess, world
  <2>2. /\ n = Len(handed) /\ Len(handed) > 0 /\ handed[n].kind = "observed"
        /\ handler = [at |-> "assessing", answer |-> n,
                      candidates |-> handler.candidates,
                      results |-> handler.results]
        /\ handler.results \in Seq(Results)
        /\ n \in Nat
    BY <2>1 DEF SubmissionInv, HandlerFits, Idle
  <2>3. /\ Row(a) \in RowSet /\ Row(a).answer = n
        /\ Citations(a) \in SUBSET CiteSet
        /\ \A e \in Citations(a) : e.answer = n /\ Key(e) = Key(Row(a))
    BY <2>2, RowFits, CitationsFit
  <2>4. new \in Results
    BY <2>3 DEF Results
  <2>5. handler' = [at |-> "assessing", answer |-> n,
                    candidates |-> handler.candidates,
                    results |-> Append(handler.results, new)]
    BY <2>1, <2>2
  <2>6. Append(handler.results, new) \in Seq(Results)
    BY <2>2, <2>4, ResultsGrow
  <2>7. HandlerFits'
    BY <2>1, <2>2, <2>5, <2>6 DEF HandlerFits
  <2>8. /\ handler.candidates = ShownFor(n, relevance)
        /\ Recorded(n, handler.results, assessments, grounds)
        /\ \A r \in assessments : r.answer = n =>
             \E i \in DOMAIN handler.results : Key(handler.results[i].row) = Key(r)
        /\ \A e \in grounds : \E r \in assessments : Key(r) = Key(e)
    BY <2>1 DEF SubmissionInv, AssessingFits
  <2> DEFINE grown == Append(handler.results, new)
  <2>9. new.row = Row(a) /\ new.citations = Citations(a) /\ grown = Append(handler.results, new)
    OBVIOUS
  <2> HIDE DEF n, new, grown
  <2>10. /\ Recorded(n, grown, assessments', grounds')
        /\ \A r \in assessments' : r.answer = n =>
             \E i \in DOMAIN grown : Key(grown[i].row) = Key(r)
    <3>1. Writes(new, grown)
      BY <2>1, <2>2, <2>3, <2>4, <2>9 DEF Writes, n
    <3>2. /\ Recorded(handler.answer, handler.results, assessments, grounds)
          /\ \A r \in assessments : r.answer = handler.answer =>
               \E i \in DOMAIN handler.results : Key(handler.results[i].row) = Key(r)
      BY <2>8 DEF n
    <3>3. \A e \in grounds : \E r \in assessments : Key(r) = Key(e)
      BY <2>8
    <3> QED BY <3>1, <3>2, <3>3, RecordedGrows DEF n
  <2>11. AssessingFits'
    BY <2>1, <2>5, <2>8, <2>10, <2>9 DEF AssessingFits
  <2>12. ASSUME NEW r \in assessments' \ assessments
         PROVE  r.answer = n /\ Grounded(r)'
    <3>1. r = Row(a) /\ ~\E q \in assessments : Key(q) = Key(Row(a))
      BY <2>1, <2>12
    <3>2. PICK c \in handler.candidates :
            c.prd = a.prd /\ c.relevance = "relevant" /\ a.requirement \in c.text.requires
      BY <2>1 DEF Handed
    <3>3. PICK q \in relevance :
            /\ q.answer = n
            /\ c = [prd |-> q.prd, text |-> q.text, relevance |-> q.relevance]
      BY <2>8 DEF ShownFor
    <3>4. /\ q.answer = r.answer /\ q.prd = r.prd /\ q.relevance = "relevant"
          /\ r.requirement \in q.text.requires
      BY <2>2, <3>1, <3>2, <3>3, RowFits
    <3>5. ASSUME r.state \in {"aligned", "violated"}
          PROVE  /\ q.text = r.text
                 /\ \E e \in grounds' :
                      /\ Key(e) = Key(r) /\ e.verified
                      /\ e.role = IF r.state = "violated" THEN "contradicting"
                                                          ELSE "supporting"
      <4>1. NormalState(a) \in {"aligned", "violated"} /\ r.text = a.text
        BY <2>2, <3>1, <3>5, RowFits
      <4>2. /\ \A d \in Handed(a) : a.text = d.text
            /\ \E e \in Citations(a) :
                 /\ e.verified
                 /\ e.role = IF Row(a).state = "violated" THEN "contradicting"
                                                           ELSE "supporting"
        BY <2>2, <4>1, ClaimsStand
      <4>3. c \in Handed(a)
        BY <3>2 DEF Handed
      <4>4. PICK e \in Citations(a) :
              /\ e.verified
              /\ e.role = IF r.state = "violated" THEN "contradicting" ELSE "supporting"
        BY <3>1, <4>2
      <4>5. Key(e) = Key(r) /\ \A g \in grounds : Key(g) # Key(e)
        BY <2>3, <2>8, <3>1
      <4>6. e \in grounds'
        BY <2>1, <4>5
      <4> QED BY <3>3, <4>1, <4>2, <4>3, <4>4, <4>5, <4>6
    <3> QED BY <2>1, <2>3, <3>1, <3>4, <3>5 DEF Grounded
  <2>13. ASSUME NEW e \in grounds' \ grounds
         PROVE  e.answer = n /\ \E r \in assessments' : Key(r) = Key(e)
    <3>1. e \in Citations(a)
      BY <2>1, <2>13
    <3> QED BY <2>1, <2>3, <3>1
  <2>14. handler'.at = "assessing" /\ handler'.answer = n
    BY <2>5
  <2>15. assessments \subseteq assessments' /\ grounds \subseteq grounds'
    BY <2>1
  <2> QED BY <2>1, <2>7, <2>11, <2>12, <2>13, <2>14, <2>15, HandlerStep DEF n
<1> QED BY <1>1, <1>2

LEMMA SubmissionStep ==
  SubmissionInv /\ [SubmissionNext]_submissionVars => SubmissionInv'
<1> SUFFICES ASSUME SubmissionInv, [SubmissionNext]_submissionVars
             PROVE  SubmissionInv'
  OBVIOUS
<1>1. CASE SubmissionFails
  BY <1>1, StillFits DEF SubmissionFails, tables
<1>2. ASSUME NEW p \in Prds, NEW text \in PrdTexts \cup {NoPrd},
             PersonRewrites(p, text)
      PROVE  SubmissionInv'
  BY <1>2, StillFits DEF PersonRewrites, tables
<1>3. ASSUME NEW c \in Claimable, CodeChanges(c)
      PROVE  SubmissionInv'
  BY <1>3, StillFits DEF CodeChanges, tables
<1>4. CASE UNCHANGED submissionVars
  BY <1>4, StillFits DEF submissionVars
<1> QED
  BY <1>1, <1>2, <1>3, <1>4, SubmitKeeps, SaveRelevanceKeeps, AssessKeeps,
     ReplyKeeps
  DEF SubmissionNext

(***************************************************************************)
(* Answers, their relevance, the assessments with their citations, and     *)
(* what the agent was told go together in every reachable state.           *)
(***************************************************************************)
THEOREM SubmissionInvariance == SubmissionSpec => []SubmissionInv
<1>1. SubmissionInit => SubmissionInv
  <2> SUFFICES ASSUME SubmissionInit PROVE SubmissionInv
    OBVIOUS
  <2>1. /\ handed = <<>> /\ handler = Idle /\ Idle.at = "idle"
        /\ relevance = {} /\ assessments = {} /\ grounds = {} /\ replies = {}
    BY DEF SubmissionInit, Idle
  <2>2. HandlerFits /\ AssessingFits
    BY <2>1 DEF HandlerFits, AssessingFits
  <2>3. OfAnswers(relevance) /\ OfAnswers(assessments) /\ OfAnswers(grounds)
    BY <2>1 DEF OfAnswers
  <2> QED BY <2>1, <2>2, <2>3 DEF SubmissionInv
<1> QED BY <1>1, SubmissionStep, PTL DEF SubmissionSpec

(***************************************************************************)
(* Every claim of conformance or violation that is ever stored is about    *)
(* the very text that was found relevant and has a verified citation of    *)
(* its side, only observed answers are compared, and an accepted answer    *)
(* has what its agent was told, for any number of PRDs, answers and        *)
(* retries (submit_flow_answer, normalizeRequirementAssessment(),          *)
(* saveRequirementAssessment()).                                           *)
(***************************************************************************)
THEOREM ClaimsAreGrounded == SubmissionSpec => []AssessmentsAreGrounded
<1>1. SubmissionInv => AssessmentsAreGrounded
  <2> SUFFICES ASSUME SubmissionInv, NEW reply \in replies
               PROVE  Kept(reply)
    BY DEF SubmissionInv, AssessmentsAreGrounded
  <2>1. /\ reply.relevance = ShownFor(reply.answer, relevance)
        /\ Recorded(reply.answer, reply.results, assessments, grounds)
    BY DEF SubmissionInv, ReplyFits
  <2>2. \A i \in DOMAIN reply.results : Again(reply.results, i) => Twice(reply, i)
    BY DEF Again, Twice
  <2> QED BY <2>1, <2>2 DEF Kept, ShownFor, Recorded
<1> QED BY <1>1, SubmissionInvariance, PTL
=============================================================================
