-------------------------- MODULE TerminalQuestions --------------------------
(***************************************************************************)
(* The agent's questions at the terminal that started the run:             *)
(* createTerminalQuestionPump() (apps/cli/src/run-questions.ts) looks for  *)
(* rows without an answer, prompts for one after the other, and cancels    *)
(* the run when nobody can answer because stdin is closed.                 *)
(*                                                                         *)
(* The rows are put by the MCP server below the agent, in another process, *)
(* and a browser may answer them meanwhile.  What a cancel does to the run *)
(* is AgentRun; here a cancelled run ends.                                 *)
(***************************************************************************)
EXTENDS Naturals, Sequences, SequencesExt

CONSTANTS
  Asks,     \* questions of the tool ask_user
  Notes,    \* questions of the tool record_open_question
  Typed,    \* what is typed at the prompt
  Clicked   \* what is answered in a browser

Open == "no answer"
Recorded == "(recorded as an open question)"
Nothing == "nothing"

ASSUME TerminalAssumption ==
  /\ Asks \cap Notes = {} /\ Nothing \notin Asks \cup Notes
  /\ {Open, Recorded} \cap (Typed \cup Clicked) = {}

VARIABLES
  rows,    \* run_questions of the run, by asked_at
  call,    \* the question whose tool call is in progress
  run,     \* going, cancelled while it still goes, or over
  input,   \* stdin, as readline sees it
  pump     \* seen: ids; work: asks that wait for their turn; at: the one that
           \* is prompted; aborted: questionAbort; cancelling:
           \* cancellationRequested; stopping

pumpVars == <<rows, call, run, input, pump>>

PumpInit ==
  /\ rows = <<>> /\ call = Nothing /\ run = "going" /\ input = "open"
  /\ pump = [seen |-> {}, work |-> <<>>, at |-> Nothing, aborted |-> FALSE,
             cancelling |-> FALSE, stopping |-> FALSE]

AnswerOf(q) == rows[CHOOSE i \in DOMAIN rows : rows[i].id = q].answer
Put(q) == \E i \in DOMAIN rows : rows[i].id = q
answerQuestion(q, v) ==
  rows' = [i \in DOMAIN rows |->
             IF rows[i].id = q THEN [rows[i] EXCEPT !.answer = v] ELSE rows[i]]

-----------------------------------------------------------------------------
(* The agent's side.                                                       *)

\* askQuestion(), by either tool.
Ask(q) ==
  /\ run # "over" /\ call = Nothing /\ ~Put(q)
  /\ rows' = Append(rows, [id |-> q, answer |-> Open])
  /\ call' = q
  /\ UNCHANGED <<run, input, pump>>

\* record_open_question answers its row itself, in a second statement.
Record(q) ==
  /\ call = q /\ q \in Notes
  /\ answerQuestion(q, Recorded)
  /\ call' = Nothing
  /\ UNCHANGED <<run, input, pump>>

\* ask_user polls until the row has an answer, or its deadline has passed.
Return ==
  /\ call \in Asks
  /\ call' = Nothing
  /\ UNCHANGED <<rows, run, input, pump>>

AnswerInBrowser(q, v) ==
  /\ Put(q) /\ AnswerOf(q) = Open
  /\ answerQuestion(q, v)
  /\ UNCHANGED <<call, run, input, pump>>

Interrupt ==
  /\ run = "going"
  /\ run' = "cancelled"
  /\ UNCHANGED <<rows, call, input, pump>>

\* session.run() settles; the agent and its MCP server are gone.
RunEnds ==
  /\ run # "over"
  /\ run' = "over" /\ call' = Nothing
  /\ UNCHANGED <<rows, input, pump>>

-----------------------------------------------------------------------------
(* The pump.                                                               *)

New == SelectSeq(rows, LAMBDA r : r.answer = Open /\ r.id \notin pump.seen)
Ids(s) == [i \in DOMAIN s |-> s[i].id]

\* poll(): what has no answer and was not seen gets its turn.
Poll ==
  /\ ~pump.stopping /\ New # <<>>
  /\ pump' = [pump EXCEPT !.seen = @ \cup ToSet(Ids(New)), !.work = @ \o Ids(New)]
  /\ UNCHANGED <<rows, call, run, input>>

\* cancelForUnavailableInput(), given what becomes of the pump besides.
CancelUnlessAsked(p) ==
  IF p.stopping \/ p.cancelling
    THEN pump' = p /\ UNCHANGED run
    ELSE /\ pump' = [p EXCEPT !.cancelling = TRUE]
         /\ run' = IF run = "going" THEN "cancelled" ELSE run

Turn == pump.at = Nothing /\ pump.work # <<>>
Taken == [pump EXCEPT !.work = Tail(@)]

\* ask(): the prompt, or a cancel because nobody is there to be prompted.
Prompt ==
  /\ Turn
  /\ \/ pump.stopping /\ pump' = Taken /\ UNCHANGED run
     \/ /\ ~pump.stopping /\ input = "closed"
        /\ CancelUnlessAsked(Taken)
     \/ /\ ~pump.stopping /\ input = "open"
        /\ pump' = [Taken EXCEPT !.at = Head(pump.work)]
        /\ UNCHANGED run
  /\ UNCHANGED <<rows, call, input>>

\* A line is typed; it is the answer whatever the row says by now.
Type(v) ==
  /\ pump.at # Nothing /\ input = "open"
  /\ answerQuestion(pump.at, v)
  /\ pump' = [pump EXCEPT !.at = Nothing]
  /\ UNCHANGED <<call, run, input>>

\* A line is typed and the store refuses it.
TypeInVain ==
  /\ pump.at # Nothing /\ input = "open"
  /\ CancelUnlessAsked([pump EXCEPT !.at = Nothing])
  /\ UNCHANGED <<rows, call, input>>

\* Slip: the prompt is not told that its input is gone.
CloseInputQuietly ==
  /\ input = "open"
  /\ input' = "closed"
  /\ UNCHANGED <<rows, call, run, pump>>

\* stdin ends, at any moment: readline closes and aborts its prompt.
CloseInput ==
  /\ input = "open"
  /\ input' = "closed"
  /\ pump' = [pump EXCEPT !.aborted = TRUE]
  /\ UNCHANGED <<rows, call, run>>

\* The aborted prompt rejects.
Reject ==
  /\ pump.at # Nothing /\ pump.aborted
  /\ CancelUnlessAsked([pump EXCEPT !.at = Nothing])
  /\ UNCHANGED <<rows, call, input>>

\* stop(), when the run has settled; it then waits for `work`.
Stop ==
  /\ run = "over" /\ ~pump.stopping
  /\ pump' = [pump EXCEPT !.stopping = TRUE, !.aborted = TRUE]
  /\ input' = "closed"
  /\ UNCHANGED <<rows, call, run>>

PumpNext ==
  \/ \E q \in Asks \cup Notes : Ask(q) \/ \E v \in Clicked : AnswerInBrowser(q, v)
  \/ \E q \in Notes : Record(q)
  \/ \E v \in Typed : Type(v)
  \/ Return \/ Interrupt \/ RunEnds
  \/ Poll \/ Prompt \/ TypeInVain \/ CloseInput \/ Reject \/ Stop

-----------------------------------------------------------------------------

AgentWaits == call \in Asks /\ AnswerOf(call) = Open
Stopped == pump.stopping /\ pump.at = Nothing /\ pump.work = <<>>

\* "Treat that as an unavailable operator and cancel the parked agent": once
\* stdin is closed no question keeps the agent waiting, whether it was put
\* before or after, is prompted, stands behind another prompt, or was answered
\* elsewhere.  And a run that is over always gives the terminal back: stop()
\* does not wait for a prompt that nobody will answer.
TerminalNeverParks ==
  /\ (AgentWaits /\ input = "closed") ~> ~AgentWaits
  /\ (run = "over") ~> Stopped
=============================================================================
