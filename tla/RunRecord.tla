------------------------------ MODULE RunRecord ------------------------------
(***************************************************************************)
(* What the store promises about one agent run, whoever writes it: the run *)
(* is opened once, its transcript only grows and only while it is open, it *)
(* is closed once with an outcome, and "submitted" and                     *)
(* "completed-without-answer" say whether it left an answer.               *)
(*                                                                         *)
(* AgentRun implements this record; LiveConsole reads it.                  *)
(***************************************************************************)
EXTENDS Naturals, Sequences

CONSTANT Events   \* what a line of a transcript can be

VARIABLES
  status,      \* runs.status
  transcript,  \* the rows of run_events, by seq
  answers      \* how many answers carry the run's id

recordVars == <<status, transcript, answers>>

Outcomes ==
  {"submitted", "completed-without-answer", "cancelled", "failed", "timed-out"}

RecordTypeOK ==
  /\ status \in {"none", "running"} \cup Outcomes
  /\ transcript \in Seq(Events)
  /\ answers \in Nat

RecordInit ==
  /\ status = "none"
  /\ transcript = <<>>
  /\ answers = 0

\* startRun(): the row of the run.
OpenRun ==
  /\ status = "none"
  /\ status' = "running"
  /\ UNCHANGED <<transcript, answers>>

\* appendRunEvents(): the next line, under the next seq.
AppendEvent(e) ==
  /\ status = "running"
  /\ transcript' = Append(transcript, e)
  /\ UNCHANGED <<status, answers>>

\* finishRun(): the one outcome of the run, which agrees with what it left.
FinishRun(s) ==
  /\ status = "running"
  /\ s = "submitted" => answers > 0
  /\ s = "completed-without-answer" => answers = 0
  /\ status' = s
  /\ UNCHANGED <<transcript, answers>>

\* insertAnswer(), by the process the agent talks to: even after the run ended.
LandAnswer ==
  /\ status \notin {"none", "completed-without-answer"}
  /\ answers' = answers + 1
  /\ UNCHANGED <<status, transcript>>

RecordNext ==
  \/ OpenRun
  \/ \E e \in Events : AppendEvent(e)
  \/ \E s \in Outcomes : FinishRun(s)
  \/ LandAnswer

RecordSpec == RecordInit /\ [][RecordNext]_recordVars
=============================================================================
