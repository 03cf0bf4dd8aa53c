--------------------------- MODULE FlowSubmission ---------------------------
(***************************************************************************)
(* Handing in an answer: submit_flow_answer                                *)
(* (packages/mcp-server/src/run-server.ts), with the comparison against    *)
(* product intent that comes after it (packages/prd/src/conformance.ts).   *)
(*                                                                         *)
(* The answer, the PRDs it concerns and each assessed requirement are      *)
(* transactions of their own; the server may be killed, or the store may   *)
(* refuse a write, between any two, and an agent that is told of an error  *)
(* may hand in again.  People edit the PRDs and the code meanwhile.        *)
(*                                                                         *)
(* A PRD's fingerprint is a hash of its text and stands for it here.  The  *)
(* agent is not trusted: what it submits is arbitrary, so what             *)
(* get_relevant_prds showed it before makes no difference.                 *)
(***************************************************************************)
EXTENDS Naturals, Sequences

CONSTANTS
  Prds,            \* the registered PRDs
  PrdTexts,        \* [scope, excludes : sets of anchors, requires : requirements]
  NoPrd,           \* a file that is missing, or whose text is no PRD
  CitablePaths,    \* what an answer may cite
  AnchorsOf,       \* path -> its entry points, its module and its directories
  Claimable,       \* citations of an assessment
  MaxCited,        \* citations of one assessment
  MaxHandedIn,     \* answers of the run
  MaxAssessed,     \* assessments of the run
  MaxChanges       \* edits of PRDs and code

ASSUME SubmissionAssumption == MaxCited \in Nat

Requirements == UNION {t.requires : t \in PrdTexts}
States == {"aligned", "violated", "unknown", "not-applicable"}
Modes == {"ask", "propose", "plan"}
Idle == [at |-> "idle"]

VARIABLES
  server,       \* how the run server was started: mode; sound: the plan and its
                \* parent are stored, of this snapshot and observed
  prdFile,      \* text of each PRD
  holds,        \* the citations that verify as the code stands
  handed,       \* answers of the run
  handler,      \* submit_flow_answer in progress
  relevance,    \* prd_flow_relevance
  assessments,  \* prd_requirement_assessments
  grounds,      \* prd_requirement_citations
  replies,      \* what the agent was told of accepted answers
  spent         \* assessments, and edits

submissionVars ==
  <<server, prdFile, holds, handed, handler, relevance, assessments, grounds,
    replies, spent>>
tables == <<relevance, assessments, grounds>>
world == <<server, prdFile, holds>>

SubmissionInit ==
  /\ server \in [mode : Modes, sound : BOOLEAN]
  /\ prdFile \in [Prds -> PrdTexts]
  /\ holds = Claimable
  /\ handed = <<>> /\ handler = Idle
  /\ relevance = {} /\ assessments = {} /\ grounds = {}
  /\ replies = {} /\ spent = [assessed |-> 0, changes |-> 0]

-----------------------------------------------------------------------------

\* What the mode of a run lets pass, before anything is validated.
Accepts(kind) ==
  CASE server.mode = "ask" -> kind = "observed"
    [] server.mode = "propose" -> TRUE
    [] server.mode = "plan" -> kind = "proposed" /\ handed = <<>> /\ server.sound

\* insertAnswer(): answer, citations and plan provenance at once.
Submit(kind, paths) ==
  /\ handler = Idle /\ Len(handed) < MaxHandedIn
  /\ Accepts(kind)
  /\ handed' = Append(handed, [kind |-> kind, paths |-> paths])
  /\ IF kind = "observed"
       THEN /\ handler' = [at |-> "relevance", answer |-> Len(handed) + 1]
            /\ UNCHANGED replies
       ELSE /\ replies' = replies \cup
                 {[answer |-> Len(handed) + 1, relevance |-> {}, results |-> <<>>]}
            /\ UNCHANGED handler
  /\ UNCHANGED <<world, tables, spent>>

\* matchAnchors(), exclusions first.  Anchors that name a requirement match by
\* hints only, of which a submission has none.
RelevanceOf(text, paths) ==
  LET touched == UNION {AnchorsOf[p] : p \in paths}
  IN IF text.excludes \cap touched # {} THEN "not-relevant"
     ELSE IF text.scope \cap touched # {} THEN "relevant" ELSE "unknown"

assessPrdRelevance(paths) ==
  {[prd |-> p, text |-> prdFile[p], relevance |-> RelevanceOf(prdFile[p], paths)] :
     p \in {q \in Prds : prdFile[q] # NoPrd}}

\* saveFlowPrdRelevance(), of the texts as they are now.
SaveRelevance ==
  LET found == assessPrdRelevance(handed[handler.answer].paths)
  IN /\ handler.at = "relevance"
     /\ relevance' = relevance \cup
          {[answer |-> handler.answer, prd |-> c.prd, text |-> c.text,
            relevance |-> c.relevance] : c \in found}
     /\ handler' = [at |-> "assessing", answer |-> handler.answer,
                    candidates |-> found, results |-> <<>>]
     /\ UNCHANGED <<world, handed, assessments, grounds, replies, spent>>

\* What an assessment says, given the text its author read.
Assessments ==
  [prd : Prds, text : PrdTexts, requirement : Requirements, state : States,
   cited : UNION {[1..n -> Claimable] : n \in 0..MaxCited}]

Handed(a) ==
  {c \in handler.candidates :
     c.prd = a.prd /\ c.relevance = "relevant" /\ a.requirement \in c.text.requires}

\* Slip: the citations are checked, and the text the claim is about is not.
NormalStateOfAnyText(a) ==
  LET claims == a.state \in {"aligned", "violated"}
      cited == \E i \in DOMAIN a.cited : a.cited[i] \in holds
  IN IF claims /\ ~cited THEN "unknown" ELSE a.state

\* normalizeRequirementAssessment(): a claim stands on the text that was handed
\* out and on a citation that verifies, or becomes "unknown".
NormalState(a) ==
  LET claims == a.state \in {"aligned", "violated"}
      current == \A c \in Handed(a) : a.text = c.text
      cited == \E i \in DOMAIN a.cited : a.cited[i] \in holds
  IN IF claims /\ ~(current /\ cited) THEN "unknown" ELSE a.state

Key(row) == [answer |-> row.answer, prd |-> row.prd, requirement |-> row.requirement]
Row(a) ==
  [answer |-> handler.answer, prd |-> a.prd, requirement |-> a.requirement,
   text |-> a.text, state |-> NormalState(a)]
Citations(a) ==
  {[answer |-> handler.answer, prd |-> a.prd, requirement |-> a.requirement,
    seq |-> i, cites |-> a.cited[i], verified |-> a.cited[i] \in holds,
    role |-> IF a.state = "violated" THEN "contradicting" ELSE "supporting"] :
     i \in DOMAIN a.cited}

\* saveRequirementAssessment(): a row whose key is taken is ignored, and so is
\* a citation, each by its own key.
Assess(a) ==
  /\ handler.at = "assessing" /\ spent.assessed < MaxAssessed
  /\ spent' = [spent EXCEPT !.assessed = @ + 1]
  /\ \/ /\ Handed(a) = {}
        /\ UNCHANGED <<handler, assessments, grounds>>
     \/ /\ Handed(a) # {}
        /\ assessments' =
             IF \E r \in assessments : Key(r) = Key(Row(a)) THEN assessments
             ELSE assessments \cup {Row(a)}
        /\ grounds' = grounds \cup
             {e \in Citations(a) :
                ~\E r \in grounds : Key(r) = Key(e) /\ r.seq = e.seq}
        /\ handler' = [handler EXCEPT !.results =
                         Append(@, [row |-> Row(a), citations |-> Citations(a)])]
  /\ UNCHANGED <<world, handed, relevance, replies>>

ReplyAccepted ==
  /\ handler.at = "assessing"
  /\ replies' = replies \cup
       {[answer |-> handler.answer, results |-> handler.results,
         relevance |-> handler.candidates]}
  /\ handler' = Idle
  /\ UNCHANGED <<world, handed, tables, spent>>

\* The store refuses a write, a PRD cannot be read, or the server is killed.
SubmissionFails ==
  /\ handler # Idle
  /\ handler' = Idle
  /\ UNCHANGED <<world, handed, tables, replies, spent>>

PersonRewrites(p, text) ==
  /\ spent.changes < MaxChanges /\ prdFile[p] # text
  /\ prdFile' = [prdFile EXCEPT ![p] = text]
  /\ spent' = [spent EXCEPT !.changes = @ + 1]
  /\ UNCHANGED <<server, holds, handed, handler, tables, replies>>

CodeChanges(c) ==
  /\ spent.changes < MaxChanges
  /\ holds' = (holds \ {c}) \cup ({c} \ holds)
  /\ spent' = [spent EXCEPT !.changes = @ + 1]
  /\ UNCHANGED <<server, prdFile, handed, handler, tables, replies>>

SubmissionNext ==
  \/ \E kind \in {"observed", "proposed"}, paths \in SUBSET CitablePaths :
       Submit(kind, paths)
  \/ SaveRelevance
  \/ \E a \in Assessments : Assess(a)
  \/ ReplyAccepted
  \/ SubmissionFails
  \/ \E p \in Prds, text \in PrdTexts \cup {NoPrd} : PersonRewrites(p, text)
  \/ \E c \in Claimable : CodeChanges(c)

SubmissionSpec == SubmissionInit /\ [][SubmissionNext]_submissionVars

-----------------------------------------------------------------------------

\* A stored assessment is about a requirement of a text that was found relevant
\* to the answer; and a claim of conformance or violation is about that very
\* text and has a verified citation of its own side.
Grounded(row) ==
  \E r \in relevance :
    /\ r.answer = row.answer /\ r.prd = row.prd /\ r.relevance = "relevant"
    /\ row.requirement \in r.text.requires
    /\ row.state \in {"aligned", "violated"} =>
         /\ r.text = row.text
         /\ \E e \in grounds :
              /\ Key(e) = Key(row) /\ e.verified
              /\ e.role = IF row.state = "violated" THEN "contradicting"
                                                    ELSE "supporting"

Twice(reply, i) ==
  \E j \in DOMAIN reply.results \ {i} :
    Key(reply.results[j].row) = Key(reply.results[i].row)

\* What the agent was told is in the tables, for every requirement that it
\* assessed once in a submission.
Kept(reply) ==
  /\ {[prd |-> r.prd, text |-> r.text, relevance |-> r.relevance] :
        r \in {q \in relevance : q.answer = reply.answer}} = reply.relevance
  /\ \A i \in DOMAIN reply.results :
       \/ Twice(reply, i)
       \/ /\ reply.results[i].row \in assessments
          /\ reply.results[i].citations =
               {e \in grounds : Key(e) = Key(reply.results[i].row)}

\* Comparison against product intent never claims more than was checked,
\* wherever a submission is cut off, however often it is repeated, and whatever
\* PRDs and code become meanwhile; and an accepted answer has all of it.
AssessmentsAreGrounded ==
  /\ \A row \in assessments : Grounded(row)
  /\ \A r \in relevance : handed[r.answer].kind = "observed"
  /\ \A reply \in replies : Kept(reply)
=============================================================================
