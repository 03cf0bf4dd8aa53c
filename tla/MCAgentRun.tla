----------------------------- MODULE MCAgentRun ------------------------------
(***************************************************************************)
(* A run with one question of each kind.  The console that hosts it shows  *)
(* all of them; a second console on the same store shows the client's      *)
(* prompt, which it can answer but not deliver.                            *)
(***************************************************************************)
EXTENDS AgentRun

CONSTANTS ask, note, prompt, other

MCChannels == ({Own} \X {ask, note, prompt}) \cup {<<other, prompt>>}
=============================================================================
