--------------------------- MODULE DocumentWrite ---------------------------
(***************************************************************************)
(* Writing one document into the repository: prepareWrite() and the commit *)
(* and abort it returns.  Nothing locks the file: a person may edit it,    *)
(* and a console, an editor's MCP server and a terminal may all be writing *)
(* it.  All of them write their bytes to one sibling of a fixed name and   *)
(* rename it over the document.                                            *)
(*                                                                         *)
(* A revision is a hash of the content: here it is the content.            *)
(***************************************************************************)
EXTENDS Naturals

CONSTANTS
  Writers,   \* the processes that write the document
  Texts,     \* what a document may say
  NoText,    \* there is no file
  Blank,     \* a file without its bytes: a claimed name, a write cut short
  MaxEdits,  \* bound: how often a person changes the file
  MaxJobs    \* bound: how many writes are prepared

ASSUME TextsAssumption ==
  /\ {NoText, Blank} \cap Texts = {}
  /\ NoText # Blank
  /\ MaxEdits \in Nat
  /\ MaxJobs \in Nat

VARIABLES
  file,   \* the document
  tmp,    \* its sibling .<name>.veriflow-tmp
  job,    \* of a writer: the write it has prepared, or how its last one ended
  left,   \* a writer was killed, or gave up, and what it had made stayed
  torn,   \* a write of the sibling failed half-way
  edits,  \* how often a person changed the file
  jobs    \* how many writes were begun

writeVars == <<file, tmp, job, left, torn, edits, jobs>>

Free == [at |-> "free"]

\* A job that has looked at the file and is not done with it.
Busy(w) == job[w].at \in {"checked", "claimed", "staged"}

WriteInit ==
  /\ file \in Texts \cup {NoText}
  /\ tmp = NoText
  /\ job = [w \in Writers |-> Free]
  /\ left = FALSE
  /\ torn = FALSE
  /\ edits = 0
  /\ jobs = 0

\* Everybody else who is between a look and a rename has been passed: what was
\* looked at, or what is to be renamed, is not what it was.
Passed(w) ==
  [v \in Writers |-> IF v # w /\ Busy(v) THEN [job[v] EXCEPT !.passed = TRUE]
                                         ELSE job[v]]

\* Slip: an update only asks that there is a file.
RefusedByName(mode, expected) ==
  \/ mode = "create" /\ file # NoText
  \/ mode = "update" /\ file = NoText

\* prepareWrite() refuses: a create of what exists, an update of what does not
\* or of another revision than the one that was named.
Refused(mode, expected) ==
  \/ mode = "create" /\ file # NoText
  \/ mode = "update" /\ file = NoText
  \/ mode = "update" /\ expected # file

\* prepareWrite(), up to the end of its checks.  `extra` is what the caller
\* remembers of the job.
Check(w, mode, expected, text, extra) ==
  /\ job[w].at \in {"free", "over"}
  /\ jobs < MaxJobs
  /\ jobs' = jobs + 1
  /\ job' = [job EXCEPT ![w] =
               IF Refused(mode, expected)
               THEN [at |-> "over", outcome |-> "conflict"]
               ELSE [at |-> "checked", mode |-> mode, seen |-> file,
                     expected |-> expected, text |-> text, claimed |-> FALSE,
                     passed |-> FALSE, extra |-> extra]]
  /\ UNCHANGED <<file, tmp, left, torn, edits>>

Over(w, how) == [Passed(w) EXCEPT ![w] = [at |-> "over", outcome |-> how]]

\* prepareWrite() of a create: the name is claimed, `wx`.
Claim(w) ==
  /\ job[w].at = "checked"
  /\ job[w].mode = "create"
  /\ IF file # NoText
     THEN /\ job' = [job EXCEPT ![w] = [at |-> "over", outcome |-> "conflict"]]
          /\ UNCHANGED file
     ELSE /\ file' = Blank
          /\ job' = [Passed(w) EXCEPT ![w].at = "claimed", ![w].claimed = TRUE]
  /\ UNCHANGED <<tmp, left, torn, edits, jobs>>

\* Next are the bytes of the sibling.
Ready(w) ==
  \/ job[w].at = "claimed"
  \/ job[w].at = "checked" /\ job[w].mode = "update"

\* The rest of prepareWrite(): the bytes go to the sibling.
Stage(w) ==
  /\ Ready(w)
  /\ tmp' = job[w].text
  /\ job' = [Passed(w) EXCEPT ![w].at = "staged"]
  /\ UNCHANGED <<file, left, torn, edits, jobs>>

\* Slip: the claim is not taken back.
StageFailsKeepingTheName(w) ==
  /\ Ready(w)
  /\ tmp' \in {tmp, Blank}
  /\ torn' = (torn \/ tmp' = Blank)
  /\ job' = Over(w, "error")
  /\ UNCHANGED <<file, left, edits, jobs>>

\* The sibling cannot be opened, or is created or truncated and then not
\* written: the claim is taken back, the sibling is not, the error is thrown.
StageFails(w) ==
  /\ Ready(w)
  /\ tmp' \in {tmp, Blank}
  /\ torn' = (torn \/ tmp' = Blank)
  /\ file' = IF job[w].claimed THEN NoText ELSE file
  /\ job' = Over(w, "error")
  /\ UNCHANGED <<left, edits, jobs>>

\* commit(): the sibling is renamed over the document.  Without a sibling the
\* rename throws.
Commit(w) ==
  /\ job[w].at = "staged"
  /\ tmp # NoText
  /\ file' = tmp
  /\ tmp' = NoText
  /\ job' = [Passed(w) EXCEPT ![w].at = "written"]
  /\ UNCHANGED <<left, torn, edits, jobs>>

\* abort(): only what this write created.
Abort(w, how) ==
  /\ job[w].at = "staged"
  /\ tmp' = NoText
  /\ file' = IF job[w].claimed THEN NoText ELSE file
  /\ job' = Over(w, how)
  /\ UNCHANGED <<left, torn, edits, jobs>>

\* The process is killed, or throws: what it made stays.
GiveUp(w, how) ==
  /\ job[w].at \notin {"free", "over"}
  /\ job' = [job EXCEPT ![w] = [at |-> "over", outcome |-> how]]
  /\ left' = (left \/ job[w].at \in {"claimed", "staged"})
  /\ UNCHANGED <<file, tmp, torn, edits, jobs>>

\* The process is killed while it writes the sibling.
CutShort(w) ==
  /\ Ready(w)
  /\ tmp' = Blank
  /\ left' = TRUE
  /\ job' = Over(w, "killed")
  /\ UNCHANGED <<file, torn, edits, jobs>>

\* A person saves the document in an editor, or deletes it.
Edit ==
  /\ edits < MaxEdits
  /\ edits' = edits + 1
  /\ \E text \in (Texts \cup {NoText}) \ {file} : file' = text
  /\ job' = [w \in Writers |-> IF Busy(w) THEN [job[w] EXCEPT !.passed = TRUE]
                                          ELSE job[w]]
  /\ UNCHANGED <<tmp, left, torn, jobs>>

-----------------------------------------------------------------------------
\* A rename replaces the content the writer was told to replace, or nothing,
\* and puts there what was shown to whoever approved it; unless somebody else
\* touched the document or its sibling after the writer looked.
WritesWhatWasShown ==
  [][ \A w \in Writers :
        job[w].at = "staged" /\ job'[w].at = "written" /\ ~job[w].passed =>
          /\ file' = job[w].text
          /\ job[w].mode = "update" => file = job[w].expected
          /\ job[w].mode = "create" => file = Blank /\ job[w].claimed
    ]_writeVars

\* When nobody writes any more nothing is left over, neither the sibling nor an
\* empty file under a claimed name, whoever declined, failed, overtook or
\* collided with whom; unless a writer was killed or gave up with something it
\* had made.  A sibling whose write failed half-way stays, without a document's
\* text, and a document without its text is one that sibling was renamed to.
NoLeftovers ==
  ~left /\ (\A w \in Writers : ~Busy(w)) =>
    /\ tmp \in (IF torn THEN {NoText, Blank} ELSE {NoText})
    /\ file = Blank => torn

\* "The diff before anything lands, from the bytes that will actually land -
\* ... this preview cannot disagree with the result" (apps/cli/src/main.ts:3496)
\* and "Nothing is overwritten without the caller naming the revision it
\* expects to replace" (packages/export/src/write.ts:10), without a condition.
OverwritesOnlyWhatWasNamed ==
  [][ \A w \in Writers :
        job[w].at = "staged" /\ job'[w].at = "written" =>
          /\ file' = job[w].text
          /\ job[w].mode = "update" => file \in {job[w].expected, job[w].text}
    ]_writeVars
=============================================================================
