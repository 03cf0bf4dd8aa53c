---------------------------- MODULE MCDocuments ----------------------------
(***************************************************************************)
(* The files the program writes into a repository: one document and two    *)
(* writers, the document an exported flow page or a PRD, or the files that *)
(* register it with an agent client; and the comparison of an answer with  *)
(* a PRD that people edit.  A behaviour is about one of these; the         *)
(* variables of the others keep their first values.                        *)
(***************************************************************************)
EXTENDS ExportDocument, PrdUpdate, AgentInstall, FlowSubmission, TLC

MCTargets == <<"mcp", "skill", "digest">>

\* A PRD about a module; another revision asks for more and excludes it.
MCPrdTexts ==
  {[scope |-> {"m"}, excludes |-> {}, requires |-> {"r1"}],
   [scope |-> {"m"}, excludes |-> {"m"}, requires |-> {"r1", "r2"}]}

MCAnchorsOf == "p" :> {"m"}

VARIABLE story

Init ==
  /\ \/ story = "export" /\ ExportInit /\ RowsInit /\ registered = NoText
     \/ story \in {"prd", "install", "submission"} /\ exported = NoText /\ PrdInit
  /\ InstallInit
  /\ story # "install" => target = [n \in Names |-> Absent]
  /\ SubmissionInit
  /\ story # "submission" =>
       /\ server = [mode |-> "ask", sound |-> TRUE]
       /\ \A p \in Prds : prdFile[p].excludes = {}

Next ==
  /\ UNCHANGED story
  /\ \/ story = "export" /\ ExportNext /\ UNCHANGED <<rowVars, ghostVars, installVars, submissionVars>>
     \/ story = "prd" /\ PrdNext /\ UNCHANGED <<exported, installVars, submissionVars>>
     \/ story = "install" /\ InstallNext /\ UNCHANGED <<prdVars, exported, submissionVars>>
     \/ story = "submission" /\ SubmissionNext /\ UNCHANGED <<prdVars, exported, installVars>>

\* Writers are alike, and so are the texts that are valid.
Symmetry == Permutations(Writers) \cup Permutations(Texts \ Invalid)

allVars == <<story, exported, prdVars, installVars, submissionVars>>

Spec == Init /\ [][Next]_allVars

\* The story of the exported page alone.
ExportsOnly == story = "export" /\ Init /\ [][Next]_allVars
=============================================================================
