---------------------------- MODULE MCLiveConsole ----------------------------
(***************************************************************************)
(* The two places where a person meets a run: its page in a browser, and   *)
(* the prompt of the terminal that started it.  A behaviour is about one   *)
(* of them; the variables of the other keep their first values.            *)
(*                                                                         *)
(* The page: three lines, one question and two drops, so that a page is    *)
(* opened before the first line, between lines or after the last one, and  *)
(* a connection drops with lines on the wire and again while they are sent *)
(* a second time.  The prompt: two questions that park the agent and a     *)
(* note that does not, so that one stands behind another.                  *)
(***************************************************************************)
EXTENDS LiveConsole, TerminalQuestions

VARIABLE story

allVars == <<story, vars, pumpVars>>

Told == story = "page"
Prompted == story = "prompt"

MCInit == story \in {"page", "prompt"} /\ Init /\ PumpInit

MCNext ==
  /\ UNCHANGED story
  /\ \/ Told /\ Next /\ UNCHANGED pumpVars
     \/ Prompted /\ PumpNext /\ UNCHANGED vars

(***************************************************************************)
(* The fairness of LiveConsole, of the stories about the page.             *)
(***************************************************************************)
PageFairness ==
  /\ WF_vars(Told /\ OpenPage) /\ WF_vars(Told /\ RenderPage)
  /\ WF_vars(Told /\ Connect) /\ WF_vars(Told /\ Receive)
  /\ WF_vars(Told /\ ReadStatus) /\ WF_vars(Told /\ SendLines)
  /\ WF_vars(Told /\ SendPending) /\ WF_vars(Told /\ EndPoll)

(***************************************************************************)
(* The interval and the promises of the pump go on, a cancelled run ends   *)
(* (RunSettles of AgentRun), and the command stops its pump.  Nobody need  *)
(* type, answer in a browser, interrupt or close the input.                *)
(***************************************************************************)
PumpFairness ==
  /\ WF_pumpVars(Prompted /\ Poll) /\ WF_pumpVars(Prompted /\ Prompt)
  /\ WF_pumpVars(Prompted /\ Reject) /\ WF_pumpVars(Prompted /\ Stop)
  /\ WF_pumpVars(Prompted /\ run = "cancelled" /\ RunEnds)

MCSpec == MCInit /\ [][MCNext]_allVars /\ PageFairness /\ PumpFairness
=============================================================================
