----------------------------- MODULE PrdUpdate -----------------------------
(***************************************************************************)
(* A product requirements document: a file that people edit, a row that    *)
(* registers one of its revisions, and updates that are prepared as a      *)
(* content-addressed proposal, shown, and applied by the console or by an  *)
(* editor's MCP server.                                                    *)
(*                                                                         *)
(* A proposal is named by the revision it replaces and its text.  Applying *)
(* it is a check, a rename and three transactions; a process can be killed *)
(* between any two of them.                                                *)
(***************************************************************************)
EXTENDS DocumentWrite, FiniteSets

CONSTANTS
  Invalid,       \* what a document may say without being a valid PRD
  MaxProposals,  \* bound: the rows of prepared updates
  MaxEvidence    \* bound: the rows of updates proposed by agents

VARIABLES
  registered,  \* prd_documents: the registered fingerprint
  revisions,   \* prd_revisions: every fingerprint ever registered
  proposals,   \* prd_update_proposals: of a name, its state
  history,     \* prd_edits: the applied proposals that were recorded
  evidence,    \* prd_evidence_proposals: of a name, how a person resolved it
  renamed,     \* the proposals whose text their own rename put in place
  crossed,     \* those renamed after somebody else had touched file or sibling
  maker,       \* who made the document what it is
  overtaken    \* a writer registered what was no longer on disk

prdVars ==
  <<writeVars, registered, revisions, proposals, history, evidence, renamed,
    crossed, maker, overtaken>>

rowVars == <<registered, revisions, proposals, history, evidence>>
ghostVars == <<renamed, crossed, maker, overtaken>>

\* The name of a proposal: the revision it expects, NoText for a new document,
\* and the candidate.
Proposals == (Texts \cup {NoText}) \X (Texts \ Invalid)
ExpectedOf(id) == id[1]
CandidateOf(id) == id[2]

Resolutions == {"update-prd", "change-code", "unresolved-deviation"}

RowsInit ==
  /\ registered \in (Texts \ Invalid) \cup {NoText}
  /\ revisions = {registered} \ {NoText}
  /\ proposals = [id \in Proposals |-> "none"]
  /\ history = {}
  /\ evidence = [id \in Proposals |-> "none"]
  /\ renamed = {}
  /\ crossed = {}
  /\ maker = "registry"
  /\ overtaken = FALSE

PrdInit == WriteInit /\ RowsInit /\ registered = file

\* registerPrd() of the package: what is on disk, if it is a valid PRD.
RegisterByHand ==
  /\ file \in Texts \ Invalid
  /\ registered' = file
  /\ revisions' = revisions \cup {file}
  /\ maker' = "registry"
  /\ UNCHANGED <<writeVars, proposals, history, evidence, renamed, crossed, overtaken>>

\* preparePrdUpdate() and preparePrdCreate() save the row of a proposal unless
\* there is one of its name, in whatever state that is.
Rows(table) == Cardinality({id \in Proposals : table[id] # "none"})

CanPrepare(id) ==
  /\ proposals[id] = "none" => Rows(proposals) < MaxProposals
  /\ IF ExpectedOf(id) = NoText
     THEN file = NoText /\ registered = NoText
     ELSE registered # NoText /\ file = ExpectedOf(id)

Prepare(id) ==
  /\ CanPrepare(id)
  /\ proposals[id] = "none"
  /\ proposals' = [proposals EXCEPT ![id] = "prepared"]
  /\ UNCHANGED <<writeVars, registered, revisions, history, evidence, ghostVars>>

\* Its time to live is over.
Expire(id) ==
  /\ proposals[id] = "prepared"
  /\ proposals' = [proposals EXCEPT ![id] = "expired"]
  /\ UNCHANGED <<writeVars, registered, revisions, history, evidence, ghostVars>>

\* applyPrdUpdate(), applyPrdCreateProposal(): what was applied is answered
\* from its row, what is expired is refused, and the file must still be at the
\* revision the proposal expects.
BeginApply(w, id) ==
  /\ proposals[id] = "prepared"
  /\ Check(w, IF ExpectedOf(id) = NoText THEN "create" ELSE "update",
           ExpectedOf(id), CandidateOf(id), id)
  /\ UNCHANGED <<rowVars, ghostVars>>

StageApply(w) ==
  /\ Claim(w) \/ Stage(w) \/ StageFails(w)
  /\ UNCHANGED <<rowVars, ghostVars>>

\* What is renamed is what the sibling holds by now.
RenameApply(w) ==
  /\ Commit(w)
  /\ renamed' = renamed \cup {id \in {job[w].extra} : tmp = CandidateOf(id)}
  /\ crossed' = crossed \cup {id \in {job[w].extra} : job[w].passed}
  /\ maker' = "writer"
  /\ UNCHANGED <<rowVars, overtaken>>

\* Slip: the error of the rename is swallowed.
RenameThrowsSilently(w) ==
  /\ job[w].at = "staged"
  /\ tmp' = NoText
  /\ file' = IF job[w].claimed THEN NoText ELSE file
  /\ job' = [Passed(w) EXCEPT ![w].at = "written"]
  /\ UNCHANGED <<left, torn, edits, jobs, rowVars, ghostVars>>

\* The rename throws, for one thing because somebody else's abort or rename
\* took the sibling away: abort, and throw.
RenameThrows(w) ==
  /\ Abort(w, "error")
  /\ UNCHANGED <<rowVars, ghostVars>>

\* Slip: a revision that was registered before is not registered again.
RegisterNewOnly(w) ==
  /\ job[w].at = "written"
  /\ registered' = IF CandidateOf(job[w].extra) \in revisions THEN registered
                                                 ELSE CandidateOf(job[w].extra)
  /\ revisions' = revisions \cup {CandidateOf(job[w].extra)}
  /\ overtaken' = (overtaken \/ file # CandidateOf(job[w].extra))
  /\ job' = [job EXCEPT ![w].at = "registered"]
  /\ UNCHANGED <<file, tmp, left, torn, edits, jobs, proposals, history,
                 evidence, renamed, crossed, maker>>

\* Store.registerPrd(): document and revision in one transaction.
Register(w) ==
  /\ job[w].at = "written"
  /\ registered' = CandidateOf(job[w].extra)
  /\ revisions' = revisions \cup {CandidateOf(job[w].extra)}
  /\ overtaken' = (overtaken \/ file # CandidateOf(job[w].extra))
  /\ job' = [job EXCEPT ![w].at = "registered"]
  /\ UNCHANGED <<file, tmp, left, torn, edits, jobs, proposals, history,
                 evidence, renamed, crossed, maker>>

\* recordPrdEdit(), INSERT OR IGNORE.
RecordEdit(w) ==
  /\ job[w].at = "registered"
  /\ history' = history \cup {job[w].extra}
  /\ job' = [job EXCEPT ![w].at = "recorded"]
  /\ UNCHANGED <<file, tmp, left, torn, edits, jobs, registered, revisions, proposals,
                 evidence, ghostVars>>

\* completePrdUpdateProposal(), once.
Complete(w) ==
  /\ job[w].at = "recorded"
  /\ proposals' = [proposals EXCEPT ![job[w].extra] = "applied"]
  /\ job' = [job EXCEPT ![w] = [at |-> "over", outcome |-> "done"]]
  /\ UNCHANGED <<file, tmp, left, torn, edits, jobs, registered, revisions, history,
                 evidence, ghostVars>>

WriterDies(w) ==
  /\ GiveUp(w, "killed") \/ CutShort(w)
  /\ maker' = IF job[w].at = "written" /\ maker = "writer" THEN "killed" ELSE maker
  /\ UNCHANGED <<rowVars, renamed, crossed, overtaken>>

PersonEdits ==
  /\ Edit
  /\ maker' = "person"
  /\ UNCHANGED <<rowVars, renamed, crossed, overtaken>>

\* prepareEvidenceProposal(): an agent proposes a text for the revision that is
\* on disk; the same proposal again finds its row.
ProposeFromEvidence(id) ==
  /\ registered # NoText
  /\ file = ExpectedOf(id)
  /\ ExpectedOf(id) # NoText
  /\ evidence[id] = "none"
  /\ Rows(evidence) < MaxEvidence
  /\ evidence' = [evidence EXCEPT ![id] = "open"]
  /\ UNCHANGED <<writeVars, registered, revisions, proposals, history, ghostVars>>

\* resolveEvidenceProposal(), by a person, once.
Resolve(id, choice) ==
  /\ evidence[id] = "open"
  /\ evidence' = [evidence EXCEPT ![id] = choice]
  /\ UNCHANGED <<writeVars, registered, revisions, proposals, history, ghostVars>>

\* POST .../evidence-proposals/:id/prepare: an update is prepared for the base
\* the agent saw, then the choice is recorded and linked.  (What is stored when
\* it dies in between, Prepare alone leaves as well.)
PrepareFromEvidence(id) ==
  /\ evidence[id] = "open"
  /\ CanPrepare(id)
  /\ proposals' = [proposals EXCEPT ![id] = IF @ = "none" THEN "prepared" ELSE @]
  /\ evidence' = [evidence EXCEPT ![id] = "update-prd"]
  /\ UNCHANGED <<writeVars, registered, revisions, history, ghostVars>>

PrdNext ==
  \/ RegisterByHand
  \/ PersonEdits
  \/ \E id \in Proposals :
       \/ Prepare(id)
       \/ Expire(id)
       \/ ProposeFromEvidence(id)
       \/ \E choice \in Resolutions \ {"update-prd"} : Resolve(id, choice)
       \/ PrepareFromEvidence(id)
       \/ \E w \in Writers : BeginApply(w, id)
  \/ \E w \in Writers :
       \/ StageApply(w)
       \/ RenameApply(w)
       \/ RenameThrows(w)
       \/ Register(w)
       \/ RecordEdit(w)
       \/ Complete(w)
       \/ WriterDies(w)

PrdSpec == PrdInit /\ [][PrdNext]_prdVars

-----------------------------------------------------------------------------
AppliedMeansWritten ==
  /\ \A id \in Proposals : proposals[id] = "applied" => id \in history
  /\ \A id \in history :
       id \in renamed \cup crossed /\ CandidateOf(id) \in revisions

ChangedMeansEdited ==
  file \in Texts /\ registered \notin {NoText, file} /\ ~overtaken =>
    maker \in {"person", "killed"} \/ \E w \in Writers : job[w].at = "written"

\* A proposal that is said to be applied has its edit in the history and its
\* revision among the registered ones, and the text it names was put in place
\* by its own rename, wherever a process was killed and whatever the rename
\* did; unless somebody else touched the document or its sibling between the
\* writer's look and its rename (then another writer's text may be in place
\* under this proposal's name).  The registry calls a document `changed` when
\* its file is not what was registered: that is a person's doing, or the trace
\* of a process that was killed between its rename and its row, or about to be
\* mended; unless two writers overtook each other.
RegistryFollowsTheFile == AppliedMeansWritten /\ ChangedMeansEdited
=============================================================================
