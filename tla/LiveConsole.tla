----------------------------- MODULE LiveConsole -----------------------------
(***************************************************************************)
(* A person watching a run in the browser: the run page                    *)
(* (apps/server/src/views.ts), its event stream (GET /api/runs/:id/events  *)
(* in apps/server/src/index.ts) and the browser between them, over the     *)
(* record of the run in the store.                                         *)
(*                                                                         *)
(* The page is rendered from the store; its script opens an EventSource    *)
(* with the seq of the last line on the page; the stream polls the store   *)
(* and sends what follows.  The connection may drop at any moment, and the *)
(* browser then opens the same address again.                              *)
(*                                                                         *)
(* The run is written by another process (a run of the terminal), so every *)
(* store call of the server sees a later state than the one before it.     *)
(***************************************************************************)
EXTENDS RunRecord, FiniteSets

CONSTANTS
  Questions,  \* questions the agent may put
  MaxEvents,  \* bound: lines of the transcript
  MaxDrops    \* bound: dropped connections

ASSUME ConsoleAssumption == MaxEvents \in Nat \ {0} /\ MaxDrops \in Nat

VARIABLES
  asked,     \* pendingQuestions() of the run
  decided,   \* questions that were answered
  page,      \* the page in the browser, NoPage before it is opened
  conn,      \* the server's side of the stream: where its loop stands
  wire,      \* messages on their way to the browser
  drops      \* history: dropped connections

runVars == <<recordVars, asked, decided>>
vars == <<runVars, page, conn, wire, drops>>

Seqs == 0..(MaxEvents - 1)     \* event seqs: transcript[n + 1] has seq n
Settled == status \in Outcomes \* the row has its ended_at

Line(n) == <<"transcript", n>>
PendingChanged == <<"pending">>
RunSettled == <<"settled">>
Messages == {Line(n) : n \in Seqs} \cup {PendingChanged, RunSettled}

NoPage == [at |-> "none", state |-> "running", lines |-> <<>>, shows |-> {}, since |-> 0]
NoConn == [at |-> "none", last |-> 0, settled |-> FALSE, known |-> FALSE, pending |-> {}]

Pages ==
  [at : {"none", "rendering", "loaded", "following"}, state : {"running", "settled"},
   lines : Seq(Seqs), shows : SUBSET Questions, since : Nat]
Conns ==
  [at : {"none", "poll", "flush", "pending", "end"}, last : Nat, settled : BOOLEAN,
   known : BOOLEAN, pending : SUBSET Questions]

TypeOK ==
  /\ RecordTypeOK
  /\ asked \subseteq Questions /\ decided \subseteq Questions
  /\ page \in Pages /\ conn \in Conns /\ wire \in Seq(Messages)
  /\ drops \in 0..MaxDrops

Init ==
  /\ RecordInit
  /\ asked = {} /\ decided = {}
  /\ page = NoPage /\ conn = NoConn /\ wire = <<>> /\ drops = 0

-----------------------------------------------------------------------------
(* The run, in its own process.                                            *)

RunSteps ==
  /\ \/ OpenRun
     \/ Len(transcript) < MaxEvents /\ \E e \in Events : AppendEvent(e)
     \/ \E s \in Outcomes : FinishRun(s)
  /\ UNCHANGED <<asked, decided, page, conn, wire, drops>>

AgentAsks(q) ==
  /\ status = "running"
  /\ q \notin asked \cup decided
  /\ asked' = asked \cup {q}
  /\ UNCHANGED <<recordVars, decided, page, conn, wire, drops>>

\* Somebody answers at the terminal or in another browser.
PersonAnswers(q) ==
  /\ q \in asked
  /\ asked' = asked \ {q} /\ decided' = decided \cup {q}
  /\ UNCHANGED <<recordVars, page, conn, wire, drops>>

-----------------------------------------------------------------------------
(* The page.                                                               *)

\* runView(): the row first, so "settled" is older than the lines shown.
OpenPage ==
  /\ status # "none"
  /\ page.at = "none"
  /\ page' = [page EXCEPT !.at = "rendering",
                          !.state = IF Settled THEN "settled" ELSE "running"]
  /\ UNCHANGED <<runVars, conn, wire, drops>>

\* Faulty variant of RenderPage: a page without lines counts back from 0.
RenderPageUnguarded ==
  /\ page.at = "rendering"
  /\ page' = [page EXCEPT !.at = "loaded",
                          !.lines = [i \in 1..Len(transcript) |-> i - 1],
                          !.shows = asked,
                          !.since = Len(transcript) - 1]
  /\ UNCHANGED <<runVars, conn, wire, drops>>

\* runView(), runPage(): every stored line, and where the stream is to go on.
RenderPage ==
  /\ page.at = "rendering"
  /\ page' = [page EXCEPT
       !.at = "loaded",
       !.lines = [i \in 1..Len(transcript) |-> i - 1],
       !.shows = asked,
       !.since = IF transcript = <<>> THEN 0 ELSE Len(transcript) - 1]
  /\ UNCHANGED <<runVars, conn, wire, drops>>

\* The script of a running page, or EventSource after a drop: the same address.
Connect ==
  /\ page.at = "loaded" /\ page.state = "running"
  /\ page' = [page EXCEPT !.at = "following"]
  /\ conn' = [NoConn EXCEPT !.at = "poll", !.last = page.since]
  /\ wire' = <<>>
  /\ UNCHANGED <<runVars, drops>>

\* Faulty variant of Receive: a settled run closes the stream and no more.
ReceiveWithoutReload ==
  /\ page.at = "following" /\ wire # <<>>
  /\ wire' = Tail(wire)
  /\ page' = IF Head(wire) \in {PendingChanged, RunSettled} THEN page
             ELSE [page EXCEPT !.lines = Append(@, Head(wire)[2])]
  /\ UNCHANGED <<runVars, conn, drops>>

\* A message is shown, or makes the page close its stream and reload.
Receive ==
  /\ page.at = "following" /\ wire # <<>>
  /\ IF Head(wire) \in {PendingChanged, RunSettled}
       THEN page' = NoPage /\ conn' = NoConn /\ wire' = <<>>
       ELSE /\ page' = [page EXCEPT !.lines = Append(@, Head(wire)[2])]
            /\ wire' = Tail(wire)
            /\ UNCHANGED conn
  /\ UNCHANGED <<runVars, drops>>

(***************************************************************************)
(* The form of a question on the page: the answer is taken if the question *)
(* is still pending, and the browser is sent back to the page either way.  *)
(***************************************************************************)
AnswerHere(q) ==
  /\ page.at \in {"loaded", "following"} /\ q \in page.shows
  /\ asked' = asked \ {q} /\ decided' = decided \cup {q}
  /\ page' = NoPage /\ conn' = NoConn /\ wire' = <<>>
  /\ UNCHANGED <<recordVars, drops>>

Drop ==
  /\ page.at = "following"
  /\ drops < MaxDrops
  /\ drops' = drops + 1
  /\ page' = [page EXCEPT !.at = "loaded"]
  /\ conn' = NoConn /\ wire' = <<>>
  /\ UNCHANGED runVars

-----------------------------------------------------------------------------
(* The stream, one iteration of its loop: status, lines, questions, end.   *)

ReadStatus ==
  /\ conn.at = "poll"
  /\ conn' = [conn EXCEPT !.at = "flush", !.settled = Settled]
  /\ UNCHANGED <<runVars, page, wire, drops>>

\* The stored rows from a seq on, in their order.
SeqsFrom(first) ==
  [i \in 1..(IF Len(transcript) > first THEN Len(transcript) - first ELSE 0) |-> first + i - 1]

\* Faulty variant of Beyond: the last line of the page once more.
From(last) == SeqsFrom(last)

\* The lines beyond `last`, by seq: rows have the seqs 0, 1, ... without a gap.
Beyond(last) == SeqsFrom(last + 1)

SendLines ==
  /\ conn.at = "flush"
  /\ LET new == Beyond(conn.last) IN
     /\ wire' = wire \o [i \in 1..Len(new) |-> Line(new[i])]
     /\ conn' = [conn EXCEPT !.at = "pending",
                             !.last = IF new = <<>> THEN @ ELSE new[Len(new)]]
  /\ UNCHANGED <<runVars, page, drops>>

\* The first iteration only remembers what is pending.
SendPending ==
  /\ conn.at = "pending"
  /\ wire' = IF conn.known /\ asked # conn.pending THEN Append(wire, PendingChanged) ELSE wire
  /\ conn' = [conn EXCEPT !.at = "end", !.known = TRUE, !.pending = asked]
  /\ UNCHANGED <<runVars, page, drops>>

\* Faulty variant of EndPoll: the status is read after the lines.
EndPollReadingLate ==
  /\ conn.at = "end"
  /\ \/ /\ Settled
        /\ wire' = Append(wire, RunSettled)
        /\ conn' = NoConn
     \/ /\ ~Settled
        /\ conn' = [conn EXCEPT !.at = "poll"]
        /\ UNCHANGED wire
  /\ UNCHANGED <<runVars, page, drops>>

EndPoll ==
  /\ conn.at = "end"
  /\ \/ /\ conn.settled
        /\ wire' = Append(wire, RunSettled)
        /\ conn' = NoConn
     \/ /\ ~conn.settled
        /\ conn' = [conn EXCEPT !.at = "poll"]
        /\ UNCHANGED wire
  /\ UNCHANGED <<runVars, page, drops>>

Next ==
  \/ RunSteps
  \/ \E q \in Questions : AgentAsks(q) \/ PersonAnswers(q) \/ AnswerHere(q)
  \/ OpenPage \/ RenderPage \/ Connect \/ Receive \/ Drop
  \/ ReadStatus \/ SendLines \/ SendPending \/ EndPoll

Spec == Init /\ [][Next]_vars

(***************************************************************************)
(* Fairness: the page is opened and kept open, the browser and the server  *)
(* go on with what they have begun.  The run need not go on, nobody need   *)
(* answer, and the connection need not drop.                               *)
(***************************************************************************)
Fairness ==
  /\ WF_vars(OpenPage) /\ WF_vars(RenderPage) /\ WF_vars(Connect) /\ WF_vars(Receive)
  /\ WF_vars(ReadStatus) /\ WF_vars(SendLines) /\ WF_vars(SendPending) /\ WF_vars(EndPoll)

FairSpec == Spec /\ Fairness

-----------------------------------------------------------------------------

(***************************************************************************)
(* "Resumes after the last event already on the page" (the stream of       *)
(* index.ts and the page of views.ts agree on where one ends and the other *)
(* begins): every line up to the newest one on the page is on the page,    *)
(* with or without drops, and unless a connection dropped none is there    *)
(* twice.  One line is exempt, against that comment: a page that was       *)
(* rendered before the run had a line asks for what comes after seq 0, so  *)
(* it never shows line 0 while it follows.                                 *)
(***************************************************************************)
PageFollows ==
  /\ page.lines # <<>> => \/ page.lines[1] = 0
                          \/ page.lines[1] = 1 /\ page.since = 0
  /\ \A i \in 1..(Len(page.lines) - 1) :
       /\ page.lines[i + 1] <= page.lines[i] + 1
       /\ drops = 0 => page.lines[i + 1] = page.lines[i] + 1

(***************************************************************************)
(* "A run that finishes mid-poll must have its last events sent by this    *)
(* iteration, or the console ends one line short of the truth": when the   *)
(* browser is told that the run settled, every line that the stream can    *)
(* send is already on the page.  Line 0 is sent by the page only.          *)
(***************************************************************************)
SettledComesLast ==
  wire # <<>> /\ Head(wire) = RunSettled =>
    \A n \in 1..(Len(transcript) - 1) : \E i \in 1..Len(page.lines) : page.lines[i] = n

(***************************************************************************)
(* "All end up showing the same thing: the whole run": however late the    *)
(* page was opened and however often its connection dropped, in the end it *)
(* shows the settled run with every line once.                             *)
(***************************************************************************)
PageEndsComplete ==
  Settled ~> /\ page.at = "loaded" /\ page.state = "settled"
             /\ page.lines = [i \in 1..Len(transcript) |-> i - 1]

(***************************************************************************)
(* "A dropped connection costs the reader nothing" (runScript in           *)
(* views.ts), the page still being followed: no line is there twice.       *)
(***************************************************************************)
NoLineTwice ==
  \A i, j \in 1..Len(page.lines) : page.lines[i] = page.lines[j] => i = j
=============================================================================
