------------------------------ MODULE AgentRun -------------------------------
(***************************************************************************)
(* One agent run from its row to its outcome: the session                  *)
(* (packages/agent-session/src/session.ts), the driver of the child        *)
(* process (driveChild in claude-code.ts), the MCP server the agent calls  *)
(* (packages/mcp-server/src/run-server.ts), the tables they share, and the *)
(* people who answer what the agent asks.                                  *)
(*                                                                         *)
(* Four kinds of process take steps: the one that hosts session and        *)
(* driver, the agent, the MCP server below the agent, and other consoles   *)
(* on the same store.  Inside the host, code between two awaits is one     *)
(* step; between processes, each store call is.                            *)
(***************************************************************************)
EXTENDS Naturals, Sequences

CONSTANTS
  Asks,        \* questions put with the MCP tool ask_user
  Notes,       \* questions recorded with record_open_question
  Prompts,     \* questions the client emits on its own stream
  Values,      \* what people answer
  Own,         \* the console in the process that hosts the session
  Channels,    \* <<s, q>>: console s shows people question q
  MaxOutput,   \* bound: lines of output of the child
  MaxAnswers   \* bound: answers one run submits

Questions == Asks \cup Notes \cup Prompts
Outcomes ==
  {"submitted", "completed-without-answer", "cancelled", "failed", "timed-out"}
Unasked == "unasked"
Pending == "pending"
Recorded == "recorded as open"
Idle == "idle"
Submitting == "submitting"

ASSUME RunAssumption ==
  /\ \A c \in Channels : c = <<c[1], c[2]>> /\ c[2] \in Questions
  /\ MaxOutput \in Nat /\ MaxAnswers \in Nat
  /\ Asks \cap Notes = {} /\ Asks \cap Prompts = {} /\ Notes \cap Prompts = {}
  /\ {Unasked, Pending, Recorded} \cap Values = {}
  /\ {Idle, Submitting} \cap Questions = {}

Started == <<"started">>
Output == <<"output">>
Prompt(q) == <<"prompt", q>>
Answer(q) == <<"answer", q>>
Ended(s) == <<"ended", s>>

Events ==
  {Started, Output} \cup {Prompt(q) : q \in Prompts}
    \cup {Answer(q) : q \in Prompts} \cup {Ended(s) : s \in Outcomes}

VARIABLES
  session,     \* AgentSession.run(): where it stands
  child,       \* the client's process
  timedOut,    \* driveChild: the timer fired
  cancelled,   \* driveChild: cancelReason is set
  outcome,     \* driveChild: what `result` resolved to, "none" before
  buffer,      \* EventStream.buffer
  parked,      \* prompts whose onQuestion promise has not resolved
  row,         \* runs.status of this run
  stored,      \* run_events of this run
  question,    \* run_questions: unasked, pending or its answer
  landed,      \* answers carrying this run's id
  superseded,  \* the answer this run re-answers is marked superseded
  tool,        \* the MCP call in progress
  answering    \* <<s, q>>: console s found q pending, its write is to come

sessionVars == <<session, row, stored, superseded>>
driverVars == <<child, timedOut, cancelled, outcome>>
mcpVars == <<landed, tool>>
vars == <<sessionVars, driverVars, buffer, parked, question, mcpVars, answering>>

TypeOK ==
  /\ session \in {"new", "following", "finished", "settled", "threw", "dead"}
  /\ child \in {"unborn", "unspawned", "running", "killed", "exit 0", "exit n", "closed"}
  /\ timedOut \in BOOLEAN /\ cancelled \in BOOLEAN
  /\ outcome \in Outcomes \cup {"none"}
  /\ buffer \in Seq(Events) /\ stored \in Seq(Events)
  /\ parked \subseteq Prompts
  /\ row \in {"none", "running"} \cup Outcomes
  /\ question \in [Questions -> {Unasked, Pending, Recorded} \cup Values]
  /\ landed \in Nat
  /\ superseded \in BOOLEAN
  /\ tool \in {Idle, Submitting} \cup Asks \cup Notes
  /\ answering \subseteq Channels

Init ==
  /\ session = "new" /\ row = "none" /\ stored = <<>> /\ superseded = FALSE
  /\ child = "unborn" /\ timedOut = FALSE /\ cancelled = FALSE /\ outcome = "none"
  /\ buffer = <<>> /\ parked = {}
  /\ question = [q \in Questions |-> Unasked]
  /\ landed = 0 /\ tool = Idle
  /\ answering = {}

Hosted == session \in {"following", "finished", "settled", "threw"}
Open == Hosted /\ outcome = "none"   \* the stream accepts events
Write(q, v) == question' = [question EXCEPT ![q] = v]
\* Faulty variant of Emit: a closed stream still takes events.
EmitAlways(e) == buffer' = Append(buffer, e)
Emit(e) == buffer' = IF outcome = "none" THEN Append(buffer, e) ELSE buffer
Outputs == Len(SelectSeq(buffer, LAMBDA e : e = Output))

-----------------------------------------------------------------------------
(* The session.                                                            *)

(***************************************************************************)
(* run(), to its first await: the row, then the child.  A client that      *)
(* cannot be executed is noticed later, by an event of the child.          *)
(***************************************************************************)
Start ==
  /\ session = "new"
  /\ session' = "following" /\ row' = "running"
  /\ child' \in {"running", "unspawned"}
  /\ Emit(Started)
  /\ UNCHANGED <<stored, superseded, timedOut, cancelled, outcome, parked,
                 question, mcpVars, answering>>

\* run(): the row cannot be written, or the client throws once it is.
StartThrows ==
  /\ session = "new"
  /\ session' = "threw"
  /\ row' \in {"none", "running"}
  /\ UNCHANGED <<stored, superseded, driverVars, buffer, parked, question,
                 mcpVars, answering>>

(***************************************************************************)
(* One turn of `for await`: the next event is stored; a prompt is put to   *)
(* people through the same table as the agent's questions, and parked.     *)
(* When putting it throws, the throw is swallowed: the transcript has the  *)
(* prompt, and nobody is asked.                                            *)
(***************************************************************************)
Consume ==
  /\ session = "following"
  /\ Len(stored) < Len(buffer)
  /\ LET e == buffer[Len(stored) + 1] IN
     /\ stored' = Append(stored, e)
     /\ \/ \E q \in Prompts : /\ e = Prompt(q)
                              /\ Write(q, Pending)
                              /\ parked' = parked \cup {q}
        \/ UNCHANGED <<question, parked>>
  /\ UNCHANGED <<session, row, superseded, driverVars, buffer, mcpVars, answering>>

\* Faulty variant of RaceOver: everybody has to answer first.
EverybodyAnswered == parked = {}

\* The race of "every question answered" and "the run is over" is decided.
RaceOver == parked = {} \/ outcome # "none"

\* Faulty variants of FinalStatus: the wrong column; no look at the answers.
StatusOfTheChild == child
SubmittedAnyway == IF outcome = "completed-without-answer" THEN "submitted" ELSE outcome

\* A run whose agent submitted through the MCP server has an answer after all.
FinalStatus ==
  IF outcome = "completed-without-answer" /\ landed > 0 THEN "submitted" ELSE outcome

\* Faulty variant of Finish: before the last events are stored.
FinishEarly ==
  /\ session = "following"
  /\ outcome # "none"
  /\ RaceOver
  /\ session' = "finished"
  /\ row' = FinalStatus
  /\ UNCHANGED <<stored, superseded, driverVars, buffer, parked, question,
                 mcpVars, answering>>

(***************************************************************************)
(* run(), past its loop: the stream is at its end and the outcome is       *)
(* stored.  The look at the submitted answer and the write of the outcome  *)
(* are one step: only a client that exited 0 is read as submitted, and it  *)
(* did so with no tool call in progress (ChildExits), so no answer of the  *)
(* MCP server can land between the two.                                    *)
(***************************************************************************)
Finish ==
  /\ session = "following"
  /\ outcome # "none" /\ Len(stored) = Len(buffer)
  /\ RaceOver
  /\ session' = "finished"
  /\ row' = FinalStatus
  /\ UNCHANGED <<stored, superseded, driverVars, buffer, parked, question,
                 mcpVars, answering>>

\* Faulty variant of Reanswer: no look at the answers.
ReanswerRegardless ==
  /\ session = "finished"
  /\ session' = "settled"
  /\ superseded' = TRUE
  /\ UNCHANGED <<row, stored, driverVars, buffer, parked, question, mcpVars, answering>>

\* applySupersede(), by whoever started the run: only if an answer landed.
Reanswer ==
  /\ session = "finished"
  /\ session' = "settled"
  /\ superseded' = IF landed > 0 THEN TRUE ELSE superseded
  /\ UNCHANGED <<row, stored, driverVars, buffer, parked, question, mcpVars, answering>>

\* A store call of the loop, or one after it, throws (the database is locked).
StoreFails ==
  /\ session \in {"following", "finished"}
  /\ session' = "threw"
  /\ UNCHANGED <<row, stored, superseded, driverVars, buffer, parked, question,
                 mcpVars, answering>>

\* The host process is killed.  Nothing kills the agent with it.
HostDies ==
  /\ Hosted
  /\ session' = "dead"
  /\ UNCHANGED <<row, stored, superseded, driverVars, buffer, parked, question,
                 mcpVars, answering>>

-----------------------------------------------------------------------------
(* The driver and the child.                                               *)

killed(c) == IF c = "running" THEN "killed" ELSE c

ChildWrites ==
  /\ Open
  /\ child \in {"running", "killed", "exit 0", "exit n"}
  /\ Outputs < MaxOutput
  /\ Emit(Output)
  /\ UNCHANGED <<sessionVars, driverVars, parked, question, mcpVars, answering>>

ChildPrompts(q) ==
  /\ Open
  /\ child = "running" /\ tool = Idle
  /\ \A i \in 1..Len(buffer) : buffer[i] # Prompt(q)
  /\ Emit(Prompt(q))
  /\ UNCHANGED <<sessionVars, driverVars, parked, question, mcpVars, answering>>

(***************************************************************************)
(* The client ends.  It reports success only when its last tool call has   *)
(* returned; it may fail at any moment.                                    *)
(***************************************************************************)
ChildExits ==
  /\ child = "running"
  /\ child' \in IF tool = Idle THEN {"exit 0", "exit n"} ELSE {"exit n"}
  /\ UNCHANGED <<sessionVars, timedOut, cancelled, outcome, buffer, parked,
                 question, mcpVars, answering>>

\* setTimeout: until the driver has its outcome, whatever the child did.
TimerFires ==
  /\ Open /\ ~timedOut /\ child # "unborn"
  /\ timedOut' = TRUE
  /\ child' = killed(child)
  /\ UNCHANGED <<sessionVars, cancelled, outcome, buffer, parked, question,
                 mcpVars, answering>>

\* cancel(): by a person, an interrupt, or a terminal whose stdin is closed.
Cancel ==
  /\ session = "following" /\ ~cancelled
  /\ cancelled' = TRUE
  /\ child' = killed(child)
  /\ UNCHANGED <<sessionVars, timedOut, outcome, buffer, parked, question,
                 mcpVars, answering>>

\* Faulty variant of Verdict: a cancel hides a timeout.
VerdictCancelFirst ==
  IF child = "unspawned" THEN "failed"
  ELSE IF cancelled THEN "cancelled"
  ELSE IF timedOut THEN "timed-out"
  ELSE IF child = "exit 0" THEN "completed-without-answer" ELSE "failed"

\* What the driver makes of the end of its child.
Verdict ==
  IF child = "unspawned" THEN "failed"
  ELSE IF timedOut THEN "timed-out"
  ELSE IF cancelled THEN "cancelled"
  ELSE IF child = "exit 0" THEN "completed-without-answer" ELSE "failed"

\* `close` or `error` of the child: the last event, then no more.
ChildCloses ==
  /\ Open
  /\ child \in {"unspawned", "killed", "exit 0", "exit n"}
  /\ child' = "closed"
  /\ outcome' = Verdict
  /\ Emit(Ended(Verdict))
  /\ UNCHANGED <<sessionVars, timedOut, cancelled, parked, question, mcpVars, answering>>

-----------------------------------------------------------------------------
(* The MCP server, a process below the agent: one tool call at a time, and  *)
(* a call in progress may still reach the store after the agent is killed.  *)

\* ask_user puts its row; record_open_question puts its row to answer it itself.
CallWithQuestion(q) ==
  /\ child = "running" /\ tool = Idle
  /\ q \in Asks \cup Notes /\ question[q] = Unasked
  /\ Write(q, Pending)
  /\ tool' = q
  /\ UNCHANGED <<sessionVars, driverVars, buffer, parked, landed, answering>>

\* ask_user: a poll finds the answer and the agent goes on with it.
AskAnswered(q) ==
  /\ tool = q /\ q \in Asks
  /\ question[q] # Pending
  /\ tool' = Idle
  /\ UNCHANGED <<sessionVars, driverVars, buffer, parked, question, landed, answering>>

\* ask_user: the deadline has passed; the row stays as it is.
AskTimesOut(q) ==
  /\ tool = q /\ q \in Asks
  /\ question[q] = Pending
  /\ tool' = Idle
  /\ UNCHANGED <<sessionVars, driverVars, buffer, parked, question, landed, answering>>

\* record_open_question, its second write.
NoteRecorded(q) ==
  /\ tool = q /\ q \in Notes
  /\ Write(q, Recorded)
  /\ tool' = Idle
  /\ UNCHANGED <<sessionVars, driverVars, buffer, parked, landed, answering>>

Submit ==
  /\ child = "running" /\ tool = Idle
  /\ tool' = Submitting
  /\ UNCHANGED <<sessionVars, driverVars, buffer, parked, question, landed, answering>>

\* submit_flow_answer: insertAnswer commits, or the answer is sent back.
SubmitReturns ==
  /\ tool = Submitting
  /\ tool' = Idle
  /\ \/ landed < MaxAnswers /\ landed' = landed + 1
     \/ UNCHANGED landed
  /\ UNCHANGED <<sessionVars, driverVars, buffer, parked, question, answering>>

\* The MCP server goes the way of its client, in the middle of a call.
ServerGone ==
  /\ child # "running" /\ tool # Idle
  /\ tool' = Idle
  /\ UNCHANGED <<sessionVars, driverVars, buffer, parked, question, landed, answering>>

-----------------------------------------------------------------------------
(* People.                                                                 *)

\* RunRegistry.answer() and the terminal's poll: the question is pending.
FindPending(c) ==
  /\ c \notin answering
  /\ question[c[2]] = Pending
  /\ answering' = answering \cup {c}
  /\ UNCHANGED <<sessionVars, driverVars, buffer, parked, question, mcpVars>>

(***************************************************************************)
(* ... and the value is written, whatever happened to the question since.  *)
(* In the process of the run it also resolves the prompt that is parked,   *)
(* which becomes an event if the stream still takes one.                   *)
(***************************************************************************)
GiveAnswer(c, v) ==
  /\ c \in answering
  /\ answering' = answering \ {c}
  /\ Write(c[2], v)
  /\ IF c[1] = Own /\ session = "following" /\ c[2] \in parked
       THEN parked' = parked \ {c[2]} /\ Emit(Answer(c[2]))
       ELSE UNCHANGED <<parked, buffer>>
  /\ UNCHANGED <<sessionVars, driverVars, mcpVars>>

Next ==
  \/ Start \/ StartThrows \/ Consume \/ Finish \/ Reanswer \/ StoreFails \/ HostDies
  \/ ChildWrites \/ ChildExits \/ ChildCloses \/ TimerFires \/ Cancel
  \/ \E q \in Prompts : ChildPrompts(q)
  \/ \E q \in Asks \cup Notes : CallWithQuestion(q)
  \/ \E q \in Asks : AskAnswered(q) \/ AskTimesOut(q)
  \/ \E q \in Notes : NoteRecorded(q)
  \/ Submit \/ SubmitReturns \/ ServerGone
  \/ \E c \in Channels : \/ FindPending(c)
                         \/ \E v \in Values : GiveAnswer(c, v)

Spec == Init /\ [][Next]_vars

(***************************************************************************)
(* Fairness: the host runs its callbacks and its timer (every caller sets  *)
(* a timeout), and the operating system reports the end of a process that  *)
(* ended.  Nothing is assumed of the agent, of the MCP server, or of       *)
(* people: the agent may hang and a question may stay unanswered.          *)
(***************************************************************************)
Fairness ==
  /\ WF_vars(Consume) /\ WF_vars(Finish) /\ WF_vars(Reanswer)
  /\ WF_vars(TimerFires) /\ WF_vars(ChildCloses)

FairSpec == Spec /\ Fairness

-----------------------------------------------------------------------------

(***************************************************************************)
(* "Event seq is gap-free per run", and "a transcript that outlives the    *)
(* process": what is stored is at every moment a beginning of what the     *)
(* driver emitted, and all of it once the run has its outcome.             *)
(***************************************************************************)
StoredIsWhatHappened ==
  /\ Len(stored) <= Len(buffer)
  /\ \A i \in 1..Len(stored) : stored[i] = buffer[i]
  /\ row \in Outcomes => stored = buffer

(***************************************************************************)
(* A stored transcript can be read on its own: it starts with the start,   *)
(* nothing follows its end, an answer comes after its question, and no     *)
(* question is answered twice.                                             *)
(***************************************************************************)
TranscriptReads ==
  \A i \in 1..Len(stored) :
    /\ stored[i] = Started <=> i = 1
    /\ (\E s \in Outcomes : stored[i] = Ended(s)) => i = Len(stored)
    /\ \A q \in Prompts :
         stored[i] = Answer(q) =>
           /\ \E j \in 1..(i - 1) : stored[j] = Prompt(q)
           /\ \A j \in 1..(i - 1) : stored[j] # Answer(q)

(***************************************************************************)
(* The outcome in the store is the truth about the run: a run said to have *)
(* submitted has an answer, one said to have completed without has none    *)
(* and never gets one, "cancelled" and "timed-out" are what happened, and  *)
(* the transcript ends with the same outcome, "submitted" being the one    *)
(* the driver cannot know.                                                 *)
(***************************************************************************)
RowTellsTheTruth ==
  /\ row = "submitted" => landed > 0 /\ ~timedOut
  /\ row = "completed-without-answer" => landed = 0 /\ ~timedOut
  /\ row = "cancelled" => cancelled /\ ~timedOut
  /\ row = "timed-out" => timedOut
  /\ row \in Outcomes =>
       stored[Len(stored)] =
         Ended(IF row = "submitted" THEN "completed-without-answer" ELSE row)

(***************************************************************************)
(* "A failed re-answer must never leave the old answer superseded by       *)
(* nothing" (packages/ask/src/start.ts): the mark is set only when an      *)
(* answer of this run exists, and a run that settles with an answer of its *)
(* own never leaves it out.                                                *)
(***************************************************************************)
SupersededBySomething ==
  /\ superseded => landed > 0 /\ row \in Outcomes
  /\ session = "settled" /\ row = "submitted" => superseded

(***************************************************************************)
(* A parked run can be escaped: whatever the agent does and whoever leaves *)
(* its questions unanswered, the run stops being followed and the console  *)
(* that holds it is free again (session.ts, "parked the session for good, *)
(* which is precisely what cancelling a parked run was meant to escape").  *)
(***************************************************************************)
RunSettles == session = "following" ~> session \in {"settled", "threw", "dead"}

(***************************************************************************)
(* The run's rows are what the store promises of any run.                  *)
(***************************************************************************)
Record == INSTANCE RunRecord
            WITH status <- row, transcript <- stored, answers <- landed
ImplementsRecord == Record!RecordSpec

=============================================================================
