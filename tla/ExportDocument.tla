--------------------------- MODULE ExportDocument ---------------------------
(***************************************************************************)
(* `veriflow export --doc`: the document of an answer is generated, shown  *)
(* as a diff against what is on disk, approved by a person and committed,  *)
(* and where it went is recorded.                                          *)
(***************************************************************************)
EXTENDS DocumentWrite

VARIABLE exported  \* the revision the last export of the answer to this path left

exportVars == <<writeVars, exported>>

ExportInit ==
  /\ WriteInit
  /\ exported = NoText

\* decideMode(): a create until something was exported, then an update of what
\* the last export left or, with --expect, of the revision that was given.
\* The command holds the project lock until it is done.
PrepareExport(w) ==
  /\ \A v \in Writers : job[v].at \in {"free", "over"}
  /\ \E text \in Texts, given \in Texts \cup {NoText} :
       IF given # NoText THEN Check(w, "update", given, text, "export")
       ELSE IF exported = NoText THEN Check(w, "create", NoText, text, "export")
       ELSE Check(w, "update", exported, text, "export")
  /\ UNCHANGED exported

StageExport(w) ==
  /\ Claim(w) \/ Stage(w) \/ StageFails(w)
  /\ UNCHANGED exported

\* The person says no, or the answer is stale, or there is nothing to change.
DeclineExport(w) ==
  /\ Abort(w, "declined")
  /\ UNCHANGED exported

\* The person says yes, unless there was nothing to ask.
ApproveExport(w) ==
  /\ job[w].at = "staged"
  /\ job[w].seen # job[w].text
  /\ Commit(w)
  /\ UNCHANGED exported

\* The rename throws, and nobody aborts.
ExportThrows(w) ==
  /\ job[w].at = "staged"
  /\ GiveUp(w, "error")
  /\ UNCHANGED exported

\* recordExport(), after the rename.
RecordExport(w) ==
  /\ job[w].at = "written"
  /\ exported' = job[w].text
  /\ job' = [job EXCEPT ![w] = [at |-> "over", outcome |-> "done"]]
  /\ UNCHANGED <<file, tmp, left, torn, edits, jobs>>

ExporterDies(w) ==
  /\ GiveUp(w, "killed") \/ CutShort(w)
  /\ UNCHANGED exported

PersonEditsPage == Edit /\ UNCHANGED exported

ExportNext ==
  \/ \E w \in Writers :
       \/ PrepareExport(w)
       \/ StageExport(w)
       \/ DeclineExport(w)
       \/ ApproveExport(w)
       \/ ExportThrows(w)
       \/ RecordExport(w)
       \/ ExporterDies(w)
  \/ PersonEditsPage

ExportSpec == ExportInit /\ [][ExportNext]_exportVars
=============================================================================
