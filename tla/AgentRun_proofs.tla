--------------------------- MODULE AgentRun_proofs ----------------------------
(***************************************************************************)
(* A run keeps the record it owes the store, for any sets of questions,    *)
(* answers and consoles and any amount of output.                          *)
(***************************************************************************)
EXTENDS AgentRun, SequenceTheorems, TLAPS

\* Every event the actions emit is one of Events.
LEMMA EventTypes ==
  /\ Started \in Events /\ Output \in Events
  /\ \A q \in Prompts : Prompt(q) \in Events /\ Answer(q) \in Events
  /\ \A s \in Outcomes : Ended(s) \in Events
  BY DEF Events

\* The driver reports every outcome but "submitted", which it cannot know.
LEMMA VerdictIsAnOutcome == Verdict \in Outcomes \ {"submitted"}
  BY DEF Verdict, Outcomes

\* Emitting an event leaves a sequence of events.
LEMMA EmitTypes ==
  ASSUME TypeOK, NEW e \in Events, Emit(e)
  PROVE  buffer' \in Seq(Events)
<1>1. buffer \in Seq(Events)
  BY DEF TypeOK
<1>2. Append(buffer, e) \in Seq(Events)
  BY <1>1
<1> QED BY <1>1, <1>2 DEF Emit

-----------------------------------------------------------------------------
(* Types.                                                                  *)

\* The steps of the session, by action.
LEMMA SessionTypes ==
  ASSUME TypeOK, Start \/ StartThrows \/ Consume \/ Finish \/ Reanswer \/ StoreFails \/ HostDies
  PROVE  TypeOK'
<1>1. CASE Start
  <2>1. buffer' \in Seq(Events)
    BY <1>1, EventTypes, EmitTypes DEF Start
  <2> QED BY <1>1, <2>1 DEF Start, TypeOK, mcpVars
<1>2. CASE StartThrows
  BY <1>2 DEF StartThrows, TypeOK, driverVars, mcpVars
<1>3. CASE Consume
  <2>0. buffer \in Seq(Events) /\ stored \in Seq(Events)
    BY DEF TypeOK
  <2>1. Len(stored) < Len(buffer) /\ stored' = Append(stored, buffer[Len(stored) + 1])
    BY <1>3 DEF Consume
  <2>2. stored' \in Seq(Events)
    <3>1. Len(stored) + 1 \in 1..Len(buffer)
      BY <2>0, <2>1
    <3>2. buffer[Len(stored) + 1] \in Events
      BY <2>0, <3>1
    <3> QED BY <2>0, <2>1, <3>2
  <2>3. question' \in [Questions -> {Unasked, Pending, Recorded} \cup Values]
          /\ parked' \subseteq Prompts
    BY <1>3 DEF Consume, TypeOK, Write, Questions
  <2> QED BY <1>3, <2>2, <2>3 DEF Consume, TypeOK, driverVars, mcpVars
<1>4. CASE Finish
  <2>1. FinalStatus \in Outcomes
    BY <1>4 DEF Finish, FinalStatus, TypeOK, Outcomes
  <2> QED BY <1>4, <2>1 DEF Finish, TypeOK, driverVars, mcpVars
<1>5. CASE StoreFails
  BY <1>5 DEF StoreFails, TypeOK, driverVars, mcpVars
<1>6. CASE HostDies
  BY <1>6 DEF HostDies, TypeOK, driverVars, mcpVars
<1>7. CASE Reanswer
  BY <1>7 DEF Reanswer, TypeOK, driverVars, mcpVars
<1> QED BY <1>1, <1>2, <1>3, <1>4, <1>5, <1>6, <1>7

\* The steps of the driver and the child.
LEMMA DriverTypes ==
  ASSUME TypeOK,
         \/ ChildWrites \/ ChildExits \/ ChildCloses \/ TimerFires \/ Cancel
         \/ \E q \in Prompts : ChildPrompts(q)
  PROVE  TypeOK'
<1> USE DEF sessionVars, mcpVars
<1>1. CASE ChildWrites
  <2>1. buffer' \in Seq(Events)
    BY <1>1, EventTypes, EmitTypes DEF ChildWrites
  <2> QED BY <1>1, <2>1 DEF ChildWrites, TypeOK, driverVars
<1>2. CASE ChildExits
  BY <1>2 DEF ChildExits, TypeOK
<1>3. CASE ChildCloses
  <2>1. Ended(Verdict) \in Events
    BY VerdictIsAnOutcome, EventTypes
  <2>2. buffer' \in Seq(Events)
    BY <1>3, <2>1, EmitTypes DEF ChildCloses
  <2> QED BY <1>3, <2>2, VerdictIsAnOutcome DEF ChildCloses, TypeOK
<1>4. CASE TimerFires
  BY <1>4 DEF TimerFires, TypeOK, killed
<1>5. CASE Cancel
  BY <1>5 DEF Cancel, TypeOK, killed
<1>6. ASSUME NEW q \in Prompts, ChildPrompts(q) PROVE TypeOK'
  <2>1. buffer' \in Seq(Events)
    BY <1>6, EventTypes, EmitTypes DEF ChildPrompts
  <2> QED BY <1>6, <2>1 DEF ChildPrompts, TypeOK, driverVars
<1> QED BY <1>1, <1>2, <1>3, <1>4, <1>5, <1>6

\* The steps of the MCP server.
LEMMA ToolTypes ==
  ASSUME TypeOK,
         \/ \E q \in Asks \cup Notes : CallWithQuestion(q)
         \/ \E q \in Asks : AskAnswered(q) \/ AskTimesOut(q)
         \/ \E q \in Notes : NoteRecorded(q)
         \/ Submit \/ SubmitReturns \/ ServerGone
  PROVE  TypeOK'
<1> USE DEF sessionVars, driverVars
<1>1. ASSUME NEW q \in Asks \cup Notes, CallWithQuestion(q) PROVE TypeOK'
  BY <1>1 DEF CallWithQuestion, Write, Questions, TypeOK
<1>2. ASSUME NEW q \in Asks, AskAnswered(q) \/ AskTimesOut(q) PROVE TypeOK'
  BY <1>2 DEF AskAnswered, AskTimesOut, TypeOK
<1>3. ASSUME NEW q \in Notes, NoteRecorded(q) PROVE TypeOK'
  BY <1>3 DEF NoteRecorded, Write, Questions, TypeOK
<1>4. CASE Submit \/ ServerGone
  BY <1>4 DEF Submit, ServerGone, TypeOK
<1>5. CASE SubmitReturns
  <2>0. landed \in Nat
    BY DEF TypeOK
  <2>1. landed' = landed + 1 \/ landed' = landed
    BY <1>5, Zenon DEF SubmitReturns
  <2>2. landed' \in Nat
    BY <2>0, <2>1
  <2> QED BY <1>5, <2>2, Zenon DEF SubmitReturns, TypeOK
<1> QED BY <1>1, <1>2, <1>3, <1>4, <1>5

\* The steps of the people who answer.
LEMMA PeopleTypes ==
  ASSUME TypeOK, NEW c \in Channels,
         FindPending(c) \/ \E v \in Values : GiveAnswer(c, v)
  PROVE  TypeOK'
<1> USE DEF sessionVars, driverVars, mcpVars
<1>1. CASE FindPending(c)
  BY <1>1 DEF FindPending, TypeOK
<1>2. ASSUME NEW v \in Values, GiveAnswer(c, v) PROVE TypeOK'
  <2>1. buffer' \in Seq(Events) /\ parked' \subseteq Prompts
    <3>1. CASE UNCHANGED <<parked, buffer>>
      BY <3>1 DEF TypeOK
    <3>2. CASE c[2] \in parked /\ parked' = parked \ {c[2]} /\ Emit(Answer(c[2]))
      <4>1. Answer(c[2]) \in Events
        BY <3>2, EventTypes DEF TypeOK
      <4> QED BY <3>2, <4>1, EmitTypes DEF TypeOK
    <3> QED BY <1>2, <3>1, <3>2 DEF GiveAnswer
  <2>2. question' \in [Questions -> {Unasked, Pending, Recorded} \cup Values]
    BY <1>2, RunAssumption DEF GiveAnswer, Write, TypeOK
  <2>3. answering' \subseteq Channels
    BY <1>2 DEF GiveAnswer, TypeOK
  <2>4. UNCHANGED <<sessionVars, driverVars, mcpVars>>
    BY <1>2 DEF GiveAnswer
  <2> QED BY <2>1, <2>2, <2>3, <2>4 DEF TypeOK
<1> QED BY <1>1, <1>2

\* No step, and no stutter, leaves the types.
LEMMA TypeStep == TypeOK /\ [Next]_vars => TypeOK'
<1> SUFFICES ASSUME TypeOK, [Next]_vars PROVE TypeOK'
  OBVIOUS
<1>1. CASE UNCHANGED vars
  BY <1>1 DEF vars, sessionVars, driverVars, mcpVars, TypeOK
<1> QED BY <1>1, SessionTypes, DriverTypes, ToolTypes, PeopleTypes DEF Next

(***************************************************************************)
(* Rows, processes and events have their types in every state of a run.    *)
(***************************************************************************)
THEOREM RunTypes == Spec => []TypeOK
<1>1. Init => TypeOK
  <2> SUFFICES ASSUME Init PROVE TypeOK
    OBVIOUS
  <2>1. buffer \in Seq(Events) /\ stored \in Seq(Events) /\ landed \in Nat
    BY DEF Init
  <2>2. question \in [Questions -> {Unasked, Pending, Recorded} \cup Values]
    BY DEF Init
  <2> QED BY <2>1, <2>2, Zenon DEF Init, TypeOK
<1> QED BY <1>1, TypeStep, PTL DEF Spec

-----------------------------------------------------------------------------
(* The inductive invariant: how session, child and row go together.        *)

Lifecycle ==
  /\ session = "new" => row = "none" /\ child = "unborn"
  /\ session = "following" => row = "running"
  /\ session = "finished" => row \in Outcomes
  /\ row = "none" => child = "unborn"
  /\ child = "unborn" => tool = Idle /\ landed = 0
  /\ child = "exit 0" => tool = Idle
  /\ child = "closed" <=> outcome # "none"

OutcomeFits ==
  /\ outcome # "submitted"
  /\ outcome = "completed-without-answer" => tool = Idle /\ ~timedOut
  /\ outcome = "cancelled" => cancelled /\ ~timedOut
  /\ outcome = "timed-out" => timedOut

RowFits ==
  /\ row \in Outcomes =>
       /\ session \notin {"new", "following"}
       /\ \/ row = outcome
          \/ row = "submitted" /\ outcome = "completed-without-answer" /\ landed > 0
  /\ row = "completed-without-answer" => landed = 0
  /\ superseded => landed > 0 /\ row \in Outcomes
  /\ session = "settled" => (row = "submitted" => superseded) /\ row \in Outcomes

RunInv == TypeOK /\ Lifecycle /\ OutcomeFits /\ RowFits

\* What these conjuncts speak of.
invVars == <<session, row, superseded, child, timedOut, cancelled, outcome, tool, landed>>

\* The marks for "no call" and "submitting" are no questions.
LEMMA QuestionsDiffer == Idle # Submitting /\ \A q \in Questions : q # Idle
  BY RunAssumption DEF Idle, Submitting

\* The invariant holds before the run starts.
LEMMA RunInvInit == Init => RunInv
<1> SUFFICES ASSUME Init PROVE RunInv
  OBVIOUS
<1>1. TypeOK
  <2>1. buffer \in Seq(Events) /\ stored \in Seq(Events) /\ landed \in Nat
    BY DEF Init
  <2>2. question \in [Questions -> {Unasked, Pending, Recorded} \cup Values]
    BY DEF Init
  <2> QED BY <2>1, <2>2, Zenon DEF Init, TypeOK
<1>2. Lifecycle /\ OutcomeFits /\ RowFits
  BY DEF Init, Lifecycle, OutcomeFits, RowFits, Outcomes
<1> QED BY <1>1, <1>2 DEF RunInv

\* A step that changes none of these variables cannot disturb the invariant.
LEMMA QuietStepsKeepRunInv ==
  ASSUME RunInv, UNCHANGED invVars
  PROVE  Lifecycle' /\ OutcomeFits' /\ RowFits'
  BY DEF RunInv, invVars, Lifecycle, OutcomeFits, RowFits

\* The steps of the session; Finish is the one that sets the outcome.
LEMMA SessionKeepsRunInv ==
  ASSUME RunInv, Start \/ StartThrows \/ Consume \/ Finish \/ Reanswer \/ StoreFails \/ HostDies
  PROVE  Lifecycle' /\ OutcomeFits' /\ RowFits'
<1> USE DEF RunInv, sessionVars, driverVars, mcpVars
<1>1. CASE Start
  BY <1>1 DEF Start, Lifecycle, OutcomeFits, RowFits, Outcomes
<1>2. CASE StartThrows
  BY <1>2 DEF StartThrows, Lifecycle, OutcomeFits, RowFits, Outcomes
<1>3. CASE Consume
  BY <1>3, QuietStepsKeepRunInv DEF Consume, invVars
<1>4. CASE Finish
  <2>1. /\ row = "running" /\ outcome # "none" /\ landed \in Nat /\ ~superseded
        /\ outcome \in Outcomes
    BY <1>4 DEF Finish, Lifecycle, RowFits, TypeOK, Outcomes
  <2>2. /\ FinalStatus \in Outcomes
        /\ \/ FinalStatus = outcome
           \/ FinalStatus = "submitted" /\ outcome = "completed-without-answer" /\ landed > 0
        /\ FinalStatus = "completed-without-answer" => landed = 0
    BY <2>1 DEF FinalStatus, Outcomes
  <2>3. session' = "finished" /\ row' = FinalStatus
          /\ UNCHANGED <<superseded, child, timedOut, cancelled, outcome, tool, landed>>
    BY <1>4 DEF Finish
  <2> QED BY <2>1, <2>2, <2>3 DEF Lifecycle, OutcomeFits, RowFits, Outcomes
<1>5. CASE StoreFails
  BY <1>5 DEF StoreFails, Lifecycle, OutcomeFits, RowFits
<1>6. CASE HostDies
  BY <1>6 DEF HostDies, Hosted, Lifecycle, OutcomeFits, RowFits
<1>7. CASE Reanswer
  <2>1. landed \in Nat /\ row \in Outcomes
    BY <1>7 DEF Reanswer, Lifecycle, TypeOK
  <2> QED BY <1>7, <2>1 DEF Reanswer, Lifecycle, OutcomeFits, RowFits
<1> QED BY <1>1, <1>2, <1>3, <1>4, <1>5, <1>6, <1>7

\* The steps of the driver and the child; ChildCloses decides the outcome.
LEMMA DriverKeepsRunInv ==
  ASSUME RunInv,
         \/ ChildWrites \/ ChildExits \/ ChildCloses \/ TimerFires \/ Cancel
         \/ \E q \in Prompts : ChildPrompts(q)
  PROVE  Lifecycle' /\ OutcomeFits' /\ RowFits'
<1> USE DEF RunInv, sessionVars, driverVars, mcpVars
<1>1. CASE ChildWrites
  BY <1>1, QuietStepsKeepRunInv DEF ChildWrites, invVars
<1>2. CASE ChildExits
  BY <1>2 DEF ChildExits, Lifecycle, OutcomeFits, RowFits
<1>3. CASE ChildCloses
  <2>1. outcome = "none" /\ row \notin Outcomes
    BY <1>3 DEF ChildCloses, Open, RowFits, Outcomes
  <2>2. Lifecycle'
    BY <1>3, VerdictIsAnOutcome DEF ChildCloses, Lifecycle, Outcomes
  <2>3. OutcomeFits'
    BY <1>3 DEF ChildCloses, Verdict, Lifecycle, OutcomeFits
  <2>4. RowFits'
    BY <1>3, <2>1 DEF ChildCloses, RowFits, Outcomes
  <2> QED BY <2>2, <2>3, <2>4
<1>4. CASE TimerFires
  BY <1>4 DEF TimerFires, Open, killed, Lifecycle, OutcomeFits, RowFits
<1>5. CASE Cancel
  BY <1>5 DEF Cancel, killed, Lifecycle, OutcomeFits, RowFits
<1>6. ASSUME NEW q \in Prompts, ChildPrompts(q)
      PROVE  Lifecycle' /\ OutcomeFits' /\ RowFits'
  BY <1>6, QuietStepsKeepRunInv DEF ChildPrompts, invVars
<1> QED BY <1>1, <1>2, <1>3, <1>4, <1>5, <1>6

\* The MCP server: an answer never lands after a quiet end of the child.
LEMMA ToolsKeepRunInv ==
  ASSUME RunInv,
         \/ \E q \in Asks \cup Notes : CallWithQuestion(q)
         \/ \E q \in Asks : AskAnswered(q) \/ AskTimesOut(q)
         \/ \E q \in Notes : NoteRecorded(q)
         \/ Submit \/ SubmitReturns \/ ServerGone
  PROVE  Lifecycle' /\ OutcomeFits' /\ RowFits'
<1> USE DEF RunInv, sessionVars, driverVars
<1>1. ASSUME NEW q \in Asks \cup Notes, CallWithQuestion(q)
      PROVE  Lifecycle' /\ OutcomeFits' /\ RowFits'
  BY <1>1 DEF CallWithQuestion, Lifecycle, OutcomeFits, RowFits
<1>2. ASSUME tool' = Idle, UNCHANGED <<sessionVars, driverVars, landed>>
      PROVE  Lifecycle' /\ OutcomeFits' /\ RowFits'
  BY <1>2 DEF Lifecycle, OutcomeFits, RowFits
<1>3. CASE Submit
  BY <1>3 DEF Submit, Lifecycle, OutcomeFits, RowFits
<1>4. CASE SubmitReturns
  <2>0. landed \in Nat
    BY DEF TypeOK
  <2>1. child # "unborn" /\ outcome # "completed-without-answer"
    BY <1>4, QuestionsDiffer DEF SubmitReturns, Lifecycle, OutcomeFits
  <2>2. row # "completed-without-answer"
    BY <2>1 DEF RowFits, Outcomes
  <2>3. landed' = landed \/ landed' = landed + 1
    BY <1>4, Zenon DEF SubmitReturns
  <2>4. landed > 0 => landed' > 0
    BY <2>0, <2>3
  <2>5. tool' = Idle /\ UNCHANGED <<sessionVars, driverVars>>
    BY <1>4, Zenon DEF SubmitReturns
  <2> QED BY <2>1, <2>2, <2>4, <2>5 DEF Lifecycle, OutcomeFits, RowFits
<1> QED BY <1>1, <1>2, <1>3, <1>4 DEF AskAnswered, AskTimesOut, NoteRecorded, ServerGone

\* The invariant is inductive.
LEMMA RunInvStep == RunInv /\ [Next]_vars => RunInv'
<1> SUFFICES ASSUME RunInv, [Next]_vars PROVE RunInv'
  OBVIOUS
<1>1. TypeOK'
  BY TypeStep DEF RunInv
<1>2. ASSUME NEW c \in Channels, FindPending(c) PROVE UNCHANGED invVars
  BY <1>2 DEF FindPending, invVars, sessionVars, driverVars, mcpVars
<1>3. ASSUME NEW c \in Channels, NEW v \in Values, GiveAnswer(c, v)
      PROVE  UNCHANGED invVars
  <2>1. UNCHANGED <<sessionVars, driverVars, mcpVars>>
    BY <1>3 DEF GiveAnswer
  <2> QED BY <2>1 DEF invVars, sessionVars, driverVars, mcpVars
<1>4. ASSUME UNCHANGED vars PROVE UNCHANGED invVars
  BY <1>4 DEF vars, invVars, sessionVars, driverVars, mcpVars
<1>5. Lifecycle' /\ OutcomeFits' /\ RowFits'
  <2>1. CASE UNCHANGED invVars
    BY <2>1, QuietStepsKeepRunInv
  <2>2. CASE Next
    BY <2>1, <2>2, <1>2, <1>3, SessionKeepsRunInv, DriverKeepsRunInv, ToolsKeepRunInv
    DEF Next
  <2> QED BY <2>1, <2>2, <1>4
<1> QED BY <1>1, <1>5 DEF RunInv

(***************************************************************************)
(* Session, child and row of a run go together in every reachable state.   *)
(***************************************************************************)
THEOREM RunInvariance == Spec => []RunInv
  BY RunInvInit, RunInvStep, PTL DEF Spec

(***************************************************************************)
(* A re-answer marks the old answer superseded only when this run left a   *)
(* new one, and never forgets to when the run settles as submitted         *)
(* (applySupersede in packages/ask/src/start.ts).                          *)
(***************************************************************************)
THEOREM NeverSupersededByNothing == Spec => []SupersededBySomething
<1>1. RunInv => SupersededBySomething
  BY DEF RunInv, RowFits, OutcomeFits, SupersededBySomething, Outcomes
<1> QED BY <1>1, RunInvariance, PTL

-----------------------------------------------------------------------------
(* What is stored against what was emitted.                                *)

Prefix ==
  /\ Len(stored) <= Len(buffer)
  /\ \A i \in 1..Len(stored) : stored[i] = buffer[i]

EndIsLast == outcome # "none" => buffer # <<>> /\ buffer[Len(buffer)] = Ended(outcome)

AllIsStored == row \in Outcomes => outcome # "none" /\ stored = buffer

StoredInv == RunInv /\ Prefix /\ EndIsLast /\ AllIsStored

\* What is stored stays a beginning of a stream that only grows.
LEMMA EmitKeepsPrefix ==
  ASSUME TypeOK, Prefix, NEW e \in Events, Emit(e), UNCHANGED stored
  PROVE  Prefix'
<1>1. buffer \in Seq(Events) /\ stored \in Seq(Events)
  BY DEF TypeOK
<1>2. CASE buffer' = buffer
  BY <1>2 DEF Prefix
<1>3. CASE buffer' = Append(buffer, e)
  <2>1. Len(buffer') = Len(buffer) + 1 /\ \A i \in 1..Len(buffer) : buffer'[i] = buffer[i]
    BY <1>1, <1>3
  <2>2. Len(stored) \in Nat /\ Len(buffer) \in Nat
    BY <1>1
  <2> QED BY <2>1, <2>2 DEF Prefix
<1> QED BY <1>2, <1>3 DEF Emit

\* Before the outcome there is nothing to keep of the end; after, nothing moves.
LEMMA EmitKeepsEnd ==
  ASSUME RunInv, EndIsLast, AllIsStored, NEW e \in Events, Emit(e),
         UNCHANGED <<outcome, row, stored>>
  PROVE  EndIsLast' /\ AllIsStored'
  BY DEF Emit, EndIsLast, AllIsStored

\* A step that neither emits nor stores nor ends anything.
LEMMA StillKeepsStoredInv ==
  ASSUME StoredInv, UNCHANGED <<outcome, row, stored, buffer>>
  PROVE  Prefix' /\ EndIsLast' /\ AllIsStored'
  BY DEF StoredInv, Prefix, EndIsLast, AllIsStored

\* Storing the next event extends the beginning by one.
LEMMA ConsumeKeepsStoredInv ==
  ASSUME StoredInv, Consume
  PROVE  Prefix' /\ EndIsLast' /\ AllIsStored'
<1>1. buffer \in Seq(Events) /\ stored \in Seq(Events)
  BY DEF StoredInv, RunInv, TypeOK
<1>2. /\ Len(stored) < Len(buffer)
      /\ stored' = Append(stored, buffer[Len(stored) + 1])
      /\ UNCHANGED <<buffer, row, outcome>>
  BY DEF Consume, driverVars
<1>3. Prefix'
  <2>1. Len(stored) + 1 \in 1..Len(buffer)
    BY <1>1, <1>2
  <2>2. buffer[Len(stored) + 1] \in Events
    BY <1>1, <2>1
  <2>3. /\ Len(stored') = Len(stored) + 1
        /\ stored'[Len(stored) + 1] = buffer[Len(stored) + 1]
        /\ \A i \in 1..Len(stored) : stored'[i] = stored[i]
    BY <1>1, <1>2, <2>2
  <2>4. Len(stored) \in Nat /\ Len(buffer) \in Nat
    BY <1>1
  <2> QED BY <1>2, <2>3, <2>4 DEF Prefix, StoredInv
<1>4. row \notin Outcomes
  BY DEF Consume, StoredInv, RunInv, Lifecycle, Outcomes
<1> QED BY <1>2, <1>3, <1>4 DEF EndIsLast, AllIsStored, StoredInv

\* The outcome is stored at the end of the stream: nothing is missing.
LEMMA FinishKeepsStoredInv ==
  ASSUME StoredInv, Finish
  PROVE  Prefix' /\ EndIsLast' /\ AllIsStored'
<1>1. buffer \in Seq(Events) /\ stored \in Seq(Events)
  BY DEF StoredInv, RunInv, TypeOK
<1>2. /\ outcome # "none" /\ Len(stored) = Len(buffer)
      /\ UNCHANGED <<buffer, stored, outcome>>
  BY DEF Finish, driverVars
<1>3. stored = buffer
  <2>1. \A i \in 1..Len(stored) : stored[i] = buffer[i]
    BY DEF StoredInv, Prefix
  <2> QED BY <1>1, <1>2, <2>1, SeqEqual
<1> QED BY <1>2, <1>3 DEF Prefix, EndIsLast, AllIsStored, StoredInv

\* The outcome and the last event come in one step of the driver.
LEMMA CloseKeepsStoredInv ==
  ASSUME StoredInv, ChildCloses
  PROVE  Prefix' /\ EndIsLast' /\ AllIsStored'
<1>1. Ended(Verdict) \in Events
  BY VerdictIsAnOutcome, EventTypes
<1>2. /\ outcome = "none" /\ outcome' = Verdict /\ Emit(Ended(Verdict))
      /\ UNCHANGED <<row, stored>>
  BY DEF ChildCloses, Open, sessionVars
<1>3. buffer \in Seq(Events) /\ TypeOK
  BY DEF StoredInv, RunInv, TypeOK
<1>4. Prefix'
  BY <1>1, <1>2, <1>3, EmitKeepsPrefix DEF StoredInv
<1>5. EndIsLast'
  <2>1. buffer' = Append(buffer, Ended(Verdict))
    BY <1>2 DEF Emit
  <2>2. Len(buffer') = Len(buffer) + 1 /\ buffer'[Len(buffer) + 1] = Ended(Verdict)
          /\ Len(buffer) \in Nat
    BY <1>1, <1>3, <2>1
  <2>3. buffer' # <<>>
    BY <2>2
  <2> QED BY <1>2, <2>2, <2>3 DEF EndIsLast
<1>6. AllIsStored'
  BY <1>2 DEF StoredInv, AllIsStored
<1> QED BY <1>4, <1>5, <1>6

\* The strengthened invariant is inductive.
LEMMA StoredInvStep == StoredInv /\ [Next]_vars => StoredInv'
<1> SUFFICES ASSUME StoredInv, [Next]_vars PROVE StoredInv'
  OBVIOUS
<1> DEFINE Held == Prefix' /\ EndIsLast' /\ AllIsStored'
<1>1. RunInv'
  BY RunInvStep DEF StoredInv
<1>2. TypeOK
  BY DEF StoredInv, RunInv
<1>3. ASSUME UNCHANGED <<outcome, row, stored, buffer>> PROVE Held
  BY <1>3, StillKeepsStoredInv
<1>4. ASSUME NEW e \in Events, Emit(e), UNCHANGED <<outcome, row, stored>> PROVE Held
  BY <1>2, <1>4, EmitKeepsPrefix, EmitKeepsEnd DEF StoredInv
<1>5. ASSUME Start PROVE Held
  <2>1. Emit(Started) /\ UNCHANGED <<outcome, stored>> /\ Started \in Events
    BY <1>5, EventTypes DEF Start
  <2>2. Prefix'
    BY <1>2, <2>1, EmitKeepsPrefix DEF StoredInv
  <2>3. row' = "running"
    BY <1>5 DEF Start
  <2> QED BY <2>1, <2>2, <2>3 DEF StoredInv, EndIsLast, AllIsStored, Emit, Outcomes
<1>6. ASSUME StartThrows PROVE Held
  <2>1. UNCHANGED <<stored, outcome, buffer>> /\ row' \in {"none", "running"}
    BY <1>6 DEF StartThrows, driverVars
  <2> QED BY <2>1 DEF StoredInv, Prefix, EndIsLast, AllIsStored, Outcomes
<1>7. ASSUME StoreFails \/ HostDies \/ Reanswer PROVE Held
  BY <1>7, <1>3 DEF StoreFails, HostDies, Reanswer, driverVars
<1>8. ASSUME ChildExits \/ TimerFires \/ Cancel PROVE Held
  BY <1>8, <1>3 DEF ChildExits, TimerFires, Cancel, sessionVars
<1>9. ASSUME ChildWrites PROVE Held
  BY <1>9, <1>4, EventTypes DEF ChildWrites, sessionVars, driverVars
<1>10. ASSUME NEW q \in Prompts, ChildPrompts(q) PROVE Held
  BY <1>10, <1>4, EventTypes DEF ChildPrompts, sessionVars, driverVars
<1>11. ASSUME \/ \E q \in Asks \cup Notes : CallWithQuestion(q)
              \/ \E q \in Asks : AskAnswered(q) \/ AskTimesOut(q)
              \/ \E q \in Notes : NoteRecorded(q)
              \/ Submit \/ SubmitReturns \/ ServerGone
       PROVE  Held
  <2>1. UNCHANGED <<sessionVars, driverVars, buffer>>
    BY <1>11
    DEF CallWithQuestion, AskAnswered, AskTimesOut, NoteRecorded, Submit,
        SubmitReturns, ServerGone
  <2> QED BY <2>1, <1>3 DEF sessionVars, driverVars
<1>12. ASSUME NEW c \in Channels, FindPending(c) PROVE Held
  BY <1>12, <1>3 DEF FindPending, sessionVars, driverVars
<1>13. ASSUME NEW c \in Channels, NEW v \in Values, GiveAnswer(c, v) PROVE Held
  <2>1. UNCHANGED <<outcome, row, stored>>
    BY <1>13 DEF GiveAnswer, sessionVars, driverVars
  <2>2. CASE UNCHANGED buffer
    BY <2>1, <2>2, <1>3
  <2>3. CASE c[2] \in parked /\ Emit(Answer(c[2]))
    <3>1. Answer(c[2]) \in Events
      BY <1>2, <2>3, EventTypes DEF TypeOK
    <3> QED BY <2>1, <2>3, <3>1, <1>4
  <2> QED BY <1>13, <2>2, <2>3 DEF GiveAnswer
<1>14. ASSUME UNCHANGED vars PROVE Held
  BY <1>14, <1>3 DEF vars, sessionVars, driverVars
<1>15. Held
  <2>1. CASE Next
    <3> HIDE DEF Held
    <3> QED
      BY <2>1, <1>5, <1>6, <1>7, <1>8, <1>9, <1>10, <1>11, <1>12, <1>13,
         ConsumeKeepsStoredInv, FinishKeepsStoredInv, CloseKeepsStoredInv
      DEF Next, Held
  <2> QED BY <2>1, <1>14
<1> QED BY <1>1, <1>15 DEF StoredInv

(***************************************************************************)
(* What is stored is at every moment a beginning of what was emitted, and  *)
(* ends with the outcome.                                                  *)
(***************************************************************************)
THEOREM StoredInvariance == Spec => []StoredInv
<1>1. Init => StoredInv
  <2> SUFFICES ASSUME Init PROVE StoredInv
    OBVIOUS
  <2>1. Prefix /\ EndIsLast /\ AllIsStored
    BY DEF Init, Prefix, EndIsLast, AllIsStored, Outcomes
  <2> QED BY <2>1, RunInvInit DEF StoredInv
<1> QED BY <1>1, StoredInvStep, PTL DEF Spec

(***************************************************************************)
(* The store has a gap-free beginning of what the driver emitted, and all  *)
(* of it once the run has its outcome: however the child, the agent's      *)
(* tools, the people and the failures interleave.                          *)
(***************************************************************************)
THEOREM TheTranscriptIsTrue == Spec => []StoredIsWhatHappened
<1>1. StoredInv => StoredIsWhatHappened
  BY DEF StoredInv, Prefix, AllIsStored, StoredIsWhatHappened
<1> QED BY <1>1, StoredInvariance, PTL

(***************************************************************************)
(* The outcome in the store is the truth about the run, and the last line  *)
(* of its transcript says the same.                                        *)
(***************************************************************************)
THEOREM TheRowIsTrue == Spec => []RowTellsTheTruth
<1>1. StoredInv => RowTellsTheTruth
  <2> SUFFICES ASSUME StoredInv PROVE RowTellsTheTruth
    OBVIOUS
  <2>1. /\ row = "submitted" => landed > 0 /\ ~timedOut
        /\ row = "completed-without-answer" => landed = 0 /\ ~timedOut
        /\ row = "cancelled" => cancelled /\ ~timedOut
        /\ row = "timed-out" => timedOut
    BY DEF StoredInv, RunInv, RowFits, OutcomeFits, Outcomes
  <2>2. ASSUME row \in Outcomes
        PROVE  stored[Len(stored)] =
                 Ended(IF row = "submitted" THEN "completed-without-answer" ELSE row)
    <3>1. stored[Len(stored)] = Ended(outcome)
      BY <2>2 DEF StoredInv, AllIsStored, EndIsLast
    <3>2. outcome = IF row = "submitted" THEN "completed-without-answer" ELSE row
      BY <2>2 DEF StoredInv, RunInv, RowFits, OutcomeFits
    <3> QED BY <3>1, <3>2
  <2> QED BY <2>1, <2>2 DEF RowTellsTheTruth
<1> QED BY <1>1, StoredInvariance, PTL

-----------------------------------------------------------------------------
(* What was emitted can be read on its own.                                *)

Begun ==
  /\ child = "unborn" <=> buffer = <<>>
  /\ session = "following" => child # "unborn"

StartIsFirst == \A i \in 1..Len(buffer) : buffer[i] = Started <=> i = 1

EndClosesIt ==
  \A i \in 1..Len(buffer) : \A s \in Outcomes :
    buffer[i] = Ended(s) => outcome # "none" /\ i = Len(buffer)

PromptedOnce ==
  \A q \in Prompts : \A i, j \in 1..Len(buffer) :
    buffer[i] = Prompt(q) /\ buffer[j] = Prompt(q) => i = j

\* A prompt is parked when it is stored, and not any more when it is answered.
ParkedIsStored == \A q \in parked : \E j \in 1..Len(stored) : buffer[j] = Prompt(q)

AnsweredOnce ==
  \A q \in Prompts : \A i \in 1..Len(buffer) :
    buffer[i] = Answer(q) =>
      /\ q \notin parked
      /\ \E j \in 1..Len(stored) : j < i /\ buffer[j] = Prompt(q)
      /\ \A j \in 1..Len(buffer) : buffer[j] = Answer(q) => j = i

Reads == StartIsFirst /\ EndClosesIt /\ PromptedOnce /\ ParkedIsStored /\ AnsweredOnce

ReadingInv == StoredInv /\ Begun /\ Reads

\* No event can be taken for one of another kind, or about another question.
LEMMA EventsDiffer ==
  /\ Started # Output
  /\ \A q : Started # Prompt(q) /\ Started # Answer(q) /\ Started # Ended(q)
  /\ \A q : Output # Prompt(q) /\ Output # Answer(q) /\ Output # Ended(q)
  /\ \A q, r : Prompt(q) # Answer(r) /\ Prompt(q) # Ended(r) /\ Answer(q) # Ended(r)
  /\ \A q, r : Prompt(q) = Prompt(r) => q = r
  /\ \A q, r : Answer(q) = Answer(r) => q = r
  BY DEF Started, Output, Prompt, Answer, Ended

\* The lengths of what was emitted and of what is stored.
LEMMA Lengths ==
  ASSUME TypeOK
  PROVE  /\ buffer \in Seq(Events) /\ Len(buffer) \in Nat /\ (buffer = <<>> <=> Len(buffer) = 0)
         /\ stored \in Seq(Events) /\ Len(stored) \in Nat /\ (stored = <<>> <=> Len(stored) = 0)
<1>1. buffer \in Seq(Events) /\ stored \in Seq(Events)
  BY DEF TypeOK
<1> QED BY <1>1

\* An open stream takes an event at its end and keeps what it has.
LEMMA EmitAppends ==
  ASSUME TypeOK, outcome = "none", NEW e \in Events, Emit(e)
  PROVE  /\ Len(buffer) \in Nat /\ Len(buffer') = Len(buffer) + 1
         /\ buffer'[Len(buffer) + 1] = e
         /\ \A i \in 1..Len(buffer) : buffer'[i] = buffer[i]
         /\ buffer' # <<>>
<1>1. buffer \in Seq(Events) /\ buffer' = Append(buffer, e)
  BY DEF TypeOK, Emit
<1>2. Len(buffer') = Len(buffer) + 1 /\ Len(buffer) \in Nat
  BY <1>1
<1>3. buffer' # <<>>
  BY <1>2
<1> QED BY <1>1, <1>2, <1>3

\* Any event but the start, once the stream has begun, if it is the first of
\* its kind about its question, and the question of an answer was parked.
LEMMA EmitKeepsReads ==
  ASSUME ReadingInv, outcome = "none", buffer # <<>>,
         NEW e \in Events, Emit(e), e # Started,
         \A s \in Outcomes : e = Ended(s) => outcome' # "none",
         outcome' = "none" \/ \E s \in Outcomes : e = Ended(s),
         \A q \in Prompts : e = Prompt(q) => \A i \in 1..Len(buffer) : buffer[i] # Prompt(q),
         \A q \in Prompts : e = Answer(q) => q \in parked,
         parked' = parked \ {q \in Prompts : e = Answer(q)},
         UNCHANGED stored
  PROVE  Reads'
<1> DEFINE n == Len(buffer)
<1>0. TypeOK
  BY DEF ReadingInv, StoredInv, RunInv
<1>1. n \in Nat /\ n # 0 /\ Len(stored) \in Nat /\ Len(stored) <= n
  BY <1>0, Lengths DEF ReadingInv, StoredInv, Prefix
<1>2. /\ Len(buffer') = n + 1 /\ buffer'[n + 1] = e
      /\ \A i \in 1..n : buffer'[i] = buffer[i]
  BY <1>0, EmitAppends
<1>3. 1..Len(buffer') = (1..n) \cup {n + 1} /\ n + 1 \notin 1..n
  BY <1>1, <1>2
<1> HIDE DEF n
<1>4. StartIsFirst'
  BY <1>1, <1>2, <1>3 DEF ReadingInv, Reads, StartIsFirst, n
<1>5. EndClosesIt'
  BY <1>1, <1>2, <1>3 DEF ReadingInv, Reads, EndClosesIt, n
<1>6. PromptedOnce'
  BY <1>1, <1>2, <1>3 DEF ReadingInv, Reads, PromptedOnce, n
<1>7. ParkedIsStored'
  BY <1>1, <1>2, <1>3 DEF ReadingInv, Reads, ParkedIsStored, n
<1>8. AnsweredOnce'
  BY <1>1, <1>2, <1>3, EventsDiffer
  DEF ReadingInv, Reads, AnsweredOnce, ParkedIsStored, n
<1> QED BY <1>4, <1>5, <1>6, <1>7, <1>8 DEF Reads

\* The first event of a run.
LEMMA StartKeepsReading == ReadingInv /\ Start => Begun' /\ Reads'
<1> SUFFICES ASSUME ReadingInv, Start PROVE Begun' /\ Reads'
  OBVIOUS
<1>1. TypeOK /\ child = "unborn" /\ outcome = "none" /\ buffer = <<>>
  BY DEF Start, ReadingInv, StoredInv, RunInv, Lifecycle, Begun
<1>2. Len(buffer) = 0 /\ stored = <<>>
  BY <1>1, Lengths DEF ReadingInv, StoredInv, Prefix
<1>3. parked = {}
  BY <1>2 DEF ReadingInv, Reads, ParkedIsStored
<1>4. buffer' # <<>> /\ Len(buffer') = 1 /\ buffer'[1] = Started
  BY <1>1, <1>2, EventTypes, EmitAppends DEF Start
<1>5. UNCHANGED <<stored, parked, outcome>> /\ child' # "unborn"
  BY DEF Start
<1>6. Begun'
  BY <1>4, <1>5 DEF Begun
<1>7. Reads'
  BY <1>3, <1>4, <1>5, EventsDiffer
  DEF Reads, StartIsFirst, EndClosesIt, PromptedOnce, ParkedIsStored, AnsweredOnce
<1> QED BY <1>6, <1>7

\* Storing the next event may park its question: it was not answered before.
LEMMA ConsumeKeepsReading == ReadingInv /\ Consume => Begun' /\ Reads'
<1> SUFFICES ASSUME ReadingInv, Consume PROVE Begun' /\ Reads'
  OBVIOUS
<1> DEFINE n == Len(stored)
<1>1. /\ buffer \in Seq(Events) /\ stored \in Seq(Events)
      /\ n \in Nat /\ Len(buffer) \in Nat /\ n < Len(buffer)
  BY Lengths DEF Consume, ReadingInv, StoredInv, RunInv
<1>2. /\ stored' = Append(stored, buffer[n + 1])
      /\ UNCHANGED <<session, child, outcome, buffer>>
  BY DEF Consume, driverVars
<1>3. n + 1 \in 1..Len(buffer) /\ 1..Len(stored') = (1..n) \cup {n + 1}
  <2>1. n + 1 \in 1..Len(buffer)
    BY <1>1
  <2>2. Len(stored') = n + 1
    BY <1>1, <1>2, <2>1
  <2> QED BY <1>1, <2>1, <2>2
<1> HIDE DEF n
<1>4. /\ parked \subseteq parked'
      /\ \A q \in parked' \ parked : q \in Prompts /\ buffer[n + 1] = Prompt(q)
  BY Zenon DEF Consume, n
<1>5. Begun'
  BY <1>2 DEF ReadingInv, Begun
<1>6. StartIsFirst' /\ EndClosesIt' /\ PromptedOnce'
  BY <1>2 DEF ReadingInv, Reads, StartIsFirst, EndClosesIt, PromptedOnce
<1>7. ParkedIsStored'
  BY <1>2, <1>3, <1>4 DEF ReadingInv, Reads, ParkedIsStored, n
<1>8. AnsweredOnce'
  <2> SUFFICES ASSUME NEW q \in Prompts, NEW i \in 1..Len(buffer), buffer[i] = Answer(q)
               PROVE  /\ q \notin parked'
                      /\ \E j \in 1..Len(stored') : j < i /\ buffer[j] = Prompt(q)
                      /\ \A j \in 1..Len(buffer) : buffer[j] = Answer(q) => j = i
    BY <1>2 DEF AnsweredOnce
  <2>1. PICK j \in 1..n : j < i /\ buffer[j] = Prompt(q)
    BY DEF ReadingInv, Reads, AnsweredOnce, n
  <2>2. buffer[n + 1] # Prompt(q)
    BY <1>1, <1>3, <2>1 DEF ReadingInv, Reads, PromptedOnce
  <2> QED BY <1>3, <1>4, <2>1, <2>2 DEF ReadingInv, Reads, AnsweredOnce
<1> QED BY <1>5, <1>6, <1>7, <1>8 DEF Reads

\* What the child writes, asks and ends with.
LEMMA ChildKeepsReading ==
  ASSUME ReadingInv, ChildWrites \/ ChildCloses \/ \E q \in Prompts : ChildPrompts(q)
  PROVE  Begun' /\ Reads'
<1>1. TypeOK /\ outcome = "none" /\ child # "unborn" /\ buffer # <<>>
  BY DEF ReadingInv, StoredInv, RunInv, Begun, ChildWrites, ChildCloses, ChildPrompts, Open
<1>2. UNCHANGED <<session, stored, parked>> /\ child' # "unborn"
  BY <1>1 DEF ChildWrites, ChildCloses, ChildPrompts, sessionVars, driverVars
<1>3. ASSUME ChildWrites PROVE buffer' # <<>> /\ Reads'
  <2>1. Emit(Output) /\ outcome' = "none"
    BY <1>1, <1>3 DEF ChildWrites, driverVars
  <2> QED BY <1>1, <1>2, <2>1, EventTypes, EventsDiffer, EmitAppends, EmitKeepsReads
<1>4. ASSUME ChildCloses PROVE buffer' # <<>> /\ Reads'
  <2>1. Emit(Ended(Verdict)) /\ outcome' = Verdict /\ Verdict \in Outcomes /\ Verdict # "none"
    BY <1>4, VerdictIsAnOutcome DEF ChildCloses, Outcomes
  <2> QED BY <1>1, <1>2, <2>1, EventTypes, EventsDiffer, EmitAppends, EmitKeepsReads
<1>5. ASSUME NEW q \in Prompts, ChildPrompts(q) PROVE buffer' # <<>> /\ Reads'
  <2>1. Emit(Prompt(q)) /\ outcome' = "none" /\ \A i \in 1..Len(buffer) : buffer[i] # Prompt(q)
    BY <1>1, <1>5 DEF ChildPrompts, driverVars
  <2> QED BY <1>1, <1>2, <2>1, EventTypes, EventsDiffer, EmitAppends, EmitKeepsReads
<1> QED BY <1>1, <1>2, <1>3, <1>4, <1>5 DEF Begun

\* An answer given in the process of the run answers a parked prompt.
LEMMA AnswerKeepsReading ==
  ASSUME ReadingInv, NEW c \in Channels, NEW v \in Values, GiveAnswer(c, v)
  PROVE  Begun' /\ Reads'
<1>1. UNCHANGED <<session, child, stored, outcome>>
  BY DEF GiveAnswer, sessionVars, driverVars
<1>2. CASE UNCHANGED <<parked, buffer>>
  BY <1>1, <1>2
  DEF ReadingInv, Begun, Reads, StartIsFirst, EndClosesIt, PromptedOnce,
      ParkedIsStored, AnsweredOnce
<1>3. ASSUME session = "following", c[2] \in parked, parked' = parked \ {c[2]},
             Emit(Answer(c[2])), outcome = "none"
      PROVE  Begun' /\ Reads'
  <2>1. TypeOK /\ child # "unborn" /\ buffer # <<>> /\ c[2] \in Prompts
    BY <1>3 DEF ReadingInv, StoredInv, RunInv, Begun, TypeOK
  <2>2. Answer(c[2]) \in Events
    BY <2>1, EventTypes
  <2>3. Reads'
    BY <1>1, <1>3, <2>1, <2>2, EventsDiffer, EmitKeepsReads
  <2>4. buffer' # <<>>
    BY <1>3, <2>1, <2>2, EmitAppends
  <2> QED BY <1>1, <2>1, <2>3, <2>4 DEF Begun
<1>4. ASSUME c[2] \in parked, parked' = parked \ {c[2]}, buffer' = buffer
      PROVE  Begun' /\ Reads'
  BY <1>1, <1>4
  DEF ReadingInv, Begun, Reads, StartIsFirst, EndClosesIt, PromptedOnce,
      ParkedIsStored, AnsweredOnce
<1> QED BY <1>2, <1>3, <1>4 DEF GiveAnswer, Emit

\* A step that neither emits nor stores nor parks.
LEMMA StillKeepsReading ==
  ASSUME ReadingInv, UNCHANGED <<buffer, stored, parked, outcome>>,
         child' = "unborn" <=> child = "unborn",
         session' = "following" => session = "following"
  PROVE  Begun' /\ Reads'
  BY DEF ReadingInv, Begun, Reads, StartIsFirst, EndClosesIt, PromptedOnce,
         ParkedIsStored, AnsweredOnce

\* The invariant of the transcript is inductive.
LEMMA ReadingInvStep == ReadingInv /\ [Next]_vars => ReadingInv'
<1> SUFFICES ASSUME ReadingInv, [Next]_vars PROVE ReadingInv'
  OBVIOUS
<1>1. StoredInv'
  BY StoredInvStep DEF ReadingInv
<1>2. CASE Start \/ Consume
  BY <1>1, <1>2, StartKeepsReading, ConsumeKeepsReading DEF ReadingInv
<1>3. CASE ChildWrites \/ ChildCloses \/ \E q \in Prompts : ChildPrompts(q)
  BY <1>1, <1>3, ChildKeepsReading DEF ReadingInv
<1>4. ASSUME NEW c \in Channels, NEW v \in Values, GiveAnswer(c, v) PROVE ReadingInv'
  BY <1>1, <1>4, AnswerKeepsReading DEF ReadingInv
<1>5. ASSUME UNCHANGED <<buffer, stored, parked, outcome>>,
             child' = "unborn" <=> child = "unborn",
             session' = "following" => session = "following"
      PROVE  ReadingInv'
  BY <1>1, <1>5, StillKeepsReading DEF ReadingInv
<1>6. CASE StartThrows \/ Finish \/ Reanswer \/ StoreFails \/ HostDies
  BY <1>5, <1>6 DEF StartThrows, Finish, Reanswer, StoreFails, HostDies, driverVars
<1>7. CASE ChildExits \/ TimerFires \/ Cancel
  <2>1. child' = "unborn" <=> child = "unborn"
    BY <1>7 DEF ChildExits, TimerFires, Cancel, killed
  <2>2. UNCHANGED <<session, buffer, stored, parked, outcome>>
    BY <1>7 DEF ChildExits, TimerFires, Cancel, sessionVars
  <2> QED BY <1>5, <2>1, <2>2
<1>8. CASE \/ \E q \in Asks \cup Notes : CallWithQuestion(q)
           \/ \E q \in Asks : AskAnswered(q) \/ AskTimesOut(q)
           \/ \E q \in Notes : NoteRecorded(q)
           \/ Submit \/ SubmitReturns \/ ServerGone
  <2>1. UNCHANGED <<sessionVars, driverVars, buffer, parked>>
    BY <1>8
    DEF CallWithQuestion, AskAnswered, AskTimesOut, NoteRecorded, Submit,
        SubmitReturns, ServerGone
  <2> QED BY <1>5, <2>1 DEF sessionVars, driverVars
<1>9. ASSUME NEW c \in Channels, FindPending(c) PROVE ReadingInv'
  BY <1>5, <1>9 DEF FindPending, sessionVars, driverVars
<1>10. CASE UNCHANGED vars
  BY <1>5, <1>10 DEF vars, sessionVars, driverVars
<1> QED
  BY <1>2, <1>3, <1>4, <1>6, <1>7, <1>8, <1>9, <1>10 DEF Next

(***************************************************************************)
(* Prompts and answers of a run keep their order in the stream, in every   *)
(* reachable state.                                                        *)
(***************************************************************************)
THEOREM ReadingInvariance == Spec => []ReadingInv
<1>1. Init => ReadingInv
  <2> SUFFICES ASSUME Init PROVE ReadingInv
    OBVIOUS
  <2>1. StoredInv
    BY RunInvInit DEF StoredInv, Init, Prefix, EndIsLast, AllIsStored, Outcomes
  <2>2. Begun /\ Reads
    BY DEF Init, Begun, Reads, StartIsFirst, EndClosesIt, PromptedOnce,
           ParkedIsStored, AnsweredOnce
  <2> QED BY <2>1, <2>2 DEF ReadingInv
<1> QED BY <1>1, ReadingInvStep, PTL DEF Spec

(***************************************************************************)
(* A stored transcript can be read on its own, cut off wherever it is: it  *)
(* starts with the start, nothing follows its end, an answer comes after   *)
(* its question, and no question is answered twice.                        *)
(***************************************************************************)
THEOREM TheTranscriptReads == Spec => []TranscriptReads
<1>1. ReadingInv => TranscriptReads
  <2> SUFFICES ASSUME ReadingInv, NEW i \in 1..Len(stored)
               PROVE  /\ stored[i] = Started <=> i = 1
                      /\ (\E s \in Outcomes : stored[i] = Ended(s)) => i = Len(stored)
                      /\ \A q \in Prompts :
                           stored[i] = Answer(q) =>
                             /\ \E j \in 1..(i - 1) : stored[j] = Prompt(q)
                             /\ \A j \in 1..(i - 1) : stored[j] # Answer(q)
    BY DEF TranscriptReads
  <2>1. /\ Len(stored) \in Nat /\ Len(buffer) \in Nat /\ Len(stored) <= Len(buffer)
        /\ \A j \in 1..Len(stored) : stored[j] = buffer[j]
    BY Lengths DEF ReadingInv, StoredInv, RunInv, Prefix
  <2>2. stored[i] = buffer[i] /\ i \in 1..Len(buffer) /\ 1..(i - 1) \subseteq 1..Len(stored)
    BY <2>1
  <2>3. stored[i] = Started <=> i = 1
    BY <2>2 DEF ReadingInv, Reads, StartIsFirst
  <2>4. ASSUME NEW s \in Outcomes, stored[i] = Ended(s) PROVE i = Len(stored)
    BY <2>1, <2>2, <2>4 DEF ReadingInv, Reads, EndClosesIt
  <2>5. ASSUME NEW q \in Prompts, stored[i] = Answer(q)
        PROVE  /\ \E j \in 1..(i - 1) : stored[j] = Prompt(q)
               /\ \A j \in 1..(i - 1) : stored[j] # Answer(q)
    <3>1. PICK j \in 1..Len(stored) : j < i /\ buffer[j] = Prompt(q)
      BY <2>2, <2>5 DEF ReadingInv, Reads, AnsweredOnce
    <3>2. \A k \in 1..Len(buffer) : buffer[k] = Answer(q) => k = i
      BY <2>2, <2>5 DEF ReadingInv, Reads, AnsweredOnce
    <3> QED BY <2>1, <2>2, <3>1, <3>2
  <2> QED BY <2>3, <2>4, <2>5
<1> QED BY <1>1, ReadingInvariance, PTL


-----------------------------------------------------------------------------
(* The rows of the run implement RunRecord.                                *)

\* Every step is, on the rows of the run, a step of the record or none.
LEMMA StepsImplementRecord ==
  RunInv /\ [Next]_vars => [Record!RecordNext]_(Record!recordVars)
<1> SUFFICES ASSUME RunInv, [Next]_vars
             PROVE  Record!RecordNext \/ UNCHANGED <<row, stored, landed>>
  BY DEF Record!recordVars
<1>1. ASSUME Start PROVE Record!OpenRun
  BY <1>1 DEF Start, RunInv, Lifecycle, mcpVars, Record!OpenRun
<1>2. ASSUME StartThrows PROVE Record!OpenRun \/ UNCHANGED <<row, stored, landed>>
  BY <1>2 DEF StartThrows, RunInv, Lifecycle, mcpVars, Record!OpenRun
<1>3. ASSUME Consume PROVE \E e \in Events : Record!AppendEvent(e)
  <2>1. buffer \in Seq(Events) /\ stored \in Seq(Events) /\ row = "running"
    BY <1>3 DEF Consume, RunInv, Lifecycle, TypeOK
  <2>2. /\ Len(stored) < Len(buffer)
        /\ stored' = Append(stored, buffer[Len(stored) + 1])
        /\ UNCHANGED <<row, landed>>
    BY <1>3 DEF Consume, mcpVars
  <2>3. Len(stored) + 1 \in 1..Len(buffer)
    BY <2>1, <2>2
  <2>4. buffer[Len(stored) + 1] \in Events
    BY <2>1, <2>3
  <2> QED BY <2>1, <2>2, <2>4 DEF Record!AppendEvent
<1>4. ASSUME Finish PROVE \E s \in Record!Outcomes : Record!FinishRun(s)
  <2>1. /\ row = "running" /\ outcome # "none" /\ outcome # "submitted"
        /\ outcome \in Outcomes \cup {"none"} /\ landed \in Nat
    BY <1>4 DEF Finish, RunInv, Lifecycle, OutcomeFits, TypeOK
  <2>2. row' = FinalStatus /\ UNCHANGED <<stored, landed>>
    BY <1>4 DEF Finish, mcpVars
  <2>3. /\ FinalStatus \in Outcomes
        /\ FinalStatus = "submitted" => landed > 0
        /\ FinalStatus = "completed-without-answer" => landed = 0
    BY <2>1 DEF FinalStatus, Outcomes
  <2>4. FinalStatus \in Record!Outcomes
    BY <2>3 DEF Outcomes, Record!Outcomes
  <2> QED BY <2>1, <2>2, <2>3, <2>4 DEF Record!FinishRun
<1>5. ASSUME SubmitReturns PROVE Record!LandAnswer \/ UNCHANGED <<row, stored, landed>>
  <2>1. child # "unborn" /\ outcome # "completed-without-answer"
    BY <1>5, QuestionsDiffer DEF SubmitReturns, RunInv, Lifecycle, OutcomeFits
  <2>2. row # "none" /\ row # "completed-without-answer"
    BY <2>1 DEF RunInv, Lifecycle, RowFits, Outcomes
  <2>3. landed' = landed \/ landed' = landed + 1
    BY <1>5, Zenon DEF SubmitReturns
  <2>4. UNCHANGED <<row, stored>>
    BY <1>5 DEF SubmitReturns, sessionVars
  <2> QED BY <2>2, <2>3, <2>4 DEF Record!LandAnswer
<1>6. ASSUME StoreFails \/ HostDies \/ Reanswer PROVE UNCHANGED <<row, stored, landed>>
  BY <1>6 DEF StoreFails, HostDies, Reanswer, mcpVars
<1>7. ASSUME \/ ChildWrites \/ ChildExits \/ ChildCloses \/ TimerFires \/ Cancel
             \/ \E q \in Prompts : ChildPrompts(q)
      PROVE  UNCHANGED <<row, stored, landed>>
  BY <1>7
  DEF ChildWrites, ChildExits, ChildCloses, TimerFires, Cancel, ChildPrompts,
      sessionVars, mcpVars
<1>8. ASSUME \/ \E q \in Asks \cup Notes : CallWithQuestion(q)
             \/ \E q \in Asks : AskAnswered(q) \/ AskTimesOut(q)
             \/ \E q \in Notes : NoteRecorded(q)
             \/ Submit \/ ServerGone
      PROVE  UNCHANGED <<row, stored, landed>>
  BY <1>8
  DEF CallWithQuestion, AskAnswered, AskTimesOut, NoteRecorded, Submit, ServerGone,
      sessionVars
<1>9. ASSUME NEW c \in Channels, FindPending(c) \/ \E v \in Values : GiveAnswer(c, v)
      PROVE  UNCHANGED <<row, stored, landed>>
  <2>1. UNCHANGED <<sessionVars, driverVars, mcpVars>>
    BY <1>9, Zenon DEF FindPending, GiveAnswer
  <2> QED BY <2>1 DEF sessionVars, mcpVars
<1>10. ASSUME UNCHANGED vars PROVE UNCHANGED <<row, stored, landed>>
  BY <1>10 DEF vars, sessionVars, mcpVars
<1> QED
  BY <1>1, <1>2, <1>3, <1>4, <1>5, <1>6, <1>7, <1>8, <1>9, <1>10
  DEF Next, Record!RecordNext

(***************************************************************************)
(* Refinement: the tables of a run, as session and MCP server write them,  *)
(* behave as the record every reader of the store relies on.               *)
(***************************************************************************)
THEOREM RunImplementsRecord == Spec => ImplementsRecord
<1>1. Init => Record!RecordInit
  BY DEF Init, Record!RecordInit
<1> QED
  BY <1>1, RunInvariance, StepsImplementRecord, PTL
  DEF Spec, ImplementsRecord, Record!RecordSpec
=============================================================================
