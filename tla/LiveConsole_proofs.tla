------------------------- MODULE LiveConsole_proofs --------------------------
(***************************************************************************)
(* The run page shows the run: from its first line on none is skipped, and *)
(* the browser learns that the run settled only when it has the last line, *)
(* for any length of the transcript, any questions and any number of       *)
(* dropped connections.                                                    *)
(***************************************************************************)
EXTENDS LiveConsole, SequenceTheorems, TLAPS

USE ConsoleAssumption

\* Messages of different kinds, and of different lines, differ.
LEMMA MessagesDiffer ==
  /\ PendingChanged # RunSettled
  /\ \A n : Line(n) # PendingChanged /\ Line(n) # RunSettled /\ Line(n)[2] = n
  /\ \A m, n : Line(m) = Line(n) => m = n
  /\ PendingChanged \in Messages /\ RunSettled \in Messages
  /\ \A n \in Seqs : Line(n) \in Messages
  BY DEF PendingChanged, RunSettled, Line, Messages

\* A message that is no notice is a line.
LEMMA LinesOrNotices ==
  ASSUME NEW m \in Messages, m \notin {PendingChanged, RunSettled}
  PROVE  \E n \in Seqs : m = Line(n)
  BY DEF Messages

-----------------------------------------------------------------------------
(* The inductive invariant.                                                *)

\* The last line on the page; a page without lines goes on from `since`.
Tip == IF page.lines = <<>> THEN page.since ELSE page.lines[Len(page.lines)]

PageFits ==
  /\ page.at \in {"none", "rendering"} => page.lines = <<>>
  /\ page.lines = <<>> => page.since = 0
  /\ page.since <= Tip
  /\ page.at = "loaded" /\ drops = 0 => page.since = Tip
  /\ conn.at # "none" \/ wire # <<>> => page.at = "following"

\* Lines next to each other on the wire follow each other.
WireRuns ==
  \A i \in 1..(Len(wire) - 1) : \A m, n \in Seqs :
    wire[i] = Line(m) /\ wire[i + 1] = Line(n) => n = m + 1

\* The first line on the wire follows what is on the page, after a drop again from `since`.
WireMeetsPage ==
  \A n \in Seqs :
    wire # <<>> /\ wire[1] = Line(n) =>
      page.since <= n /\ n <= Tip + 1 /\ (drops = 0 => n = Tip + 1)

\* The stream goes on where wire and page end.
ConnMeetsWire ==
  conn.at # "none" =>
    /\ page.since <= conn.last
    /\ wire = <<>> => conn.last <= Tip /\ (drops = 0 => conn.last = Tip)
    /\ \A n \in Seqs : wire # <<>> /\ wire[Len(wire)] = Line(n) => conn.last = n

\* A page that goes back to an earlier line has all the lines before it.
Covered == \A k \in 1..Tip : \E i \in 1..Len(page.lines) : page.lines[i] = k

\* After the notice that the run settled there is no stream and no more to send.
SettledIsLast ==
  \A i \in 1..Len(wire) :
    wire[i] = RunSettled => i = Len(wire) /\ conn.at = "none" /\ Settled

AllSent ==
  wire # <<>> /\ wire[Len(wire)] = RunSettled =>
    /\ Len(wire) = 1 => Tip >= Len(transcript) - 1
    /\ Len(wire) > 1 =>
         \A n \in Seqs : wire[Len(wire) - 1] = Line(n) => n >= Len(transcript) - 1

\* The status is read before the lines, so a settled run has sent them all.
SettledFits ==
  conn.settled =>
    /\ Settled
    /\ conn.at \in {"pending", "end"} => conn.last >= Len(transcript) - 1

StreamFits == WireRuns /\ WireMeetsPage /\ ConnMeetsWire /\ SettledIsLast /\ AllSent /\ SettledFits

ConsoleInv ==
  TypeOK /\ Len(transcript) <= MaxEvents /\ PageFits /\ Covered /\ PageFollows /\ StreamFits

\* What TypeOK says of the fields of page and connection.
LEMMA Fields ==
  ASSUME TypeOK
  PROVE  /\ page.at \in {"none", "rendering", "loaded", "following"}
         /\ page.lines \in Seq(Seqs) /\ page.since \in Nat /\ page.shows \subseteq Questions
         /\ page.state \in {"running", "settled"}
         /\ conn.at \in {"none", "poll", "flush", "pending", "end"}
         /\ conn.last \in Nat /\ conn.settled \in BOOLEAN /\ conn.known \in BOOLEAN
         /\ conn.pending \subseteq Questions
         /\ wire \in Seq(Messages) /\ transcript \in Seq(Events)
         /\ Len(page.lines) \in Nat /\ Len(wire) \in Nat /\ Len(transcript) \in Nat
         /\ Tip \in Nat
<1>1. page \in Pages /\ conn \in Conns /\ wire \in Seq(Messages) /\ transcript \in Seq(Events)
  BY DEF TypeOK, RecordTypeOK
<1>2. page.lines \in Seq(Seqs) /\ page.since \in Nat
  BY <1>1 DEF Pages
<1>3. Tip \in Nat
  <2>1. ASSUME page.lines # <<>> PROVE page.lines[Len(page.lines)] \in Seqs
    BY <1>2, <2>1
  <2> QED BY <1>2, <2>1 DEF Tip, Seqs
<1> QED BY <1>1, <1>2, <1>3 DEF Pages, Conns

\* A new page, or none: nothing is on it and nothing on its way.
LEMMA ResetKeeps ==
  ASSUME ConsoleInv, page' = NoPage, conn' = NoConn, wire' = <<>>,
         asked' \subseteq Questions, decided' \subseteq Questions,
         UNCHANGED <<recordVars, drops>>
  PROVE  ConsoleInv'
<1>1. /\ page'.at = "none" /\ page'.lines = <<>> /\ page'.since = 0 /\ page' \in Pages
      /\ conn'.at = "none" /\ conn'.settled = FALSE /\ conn' \in Conns
      /\ wire' \in Seq(Messages) /\ Len(page'.lines) = 0 /\ Len(wire') = 0 /\ Tip' = 0
  BY DEF NoPage, NoConn, Pages, Conns, Tip
<1>2. TypeOK'
  BY <1>1 DEF ConsoleInv, TypeOK, RecordTypeOK, recordVars
<1>3. PageFits' /\ Covered' /\ PageFollows'
  BY <1>1 DEF PageFits, Covered, PageFollows
<1>4. StreamFits'
  BY <1>1
  DEF StreamFits, WireRuns, WireMeetsPage, ConnMeetsWire, SettledIsLast, AllSent, SettledFits
<1> QED BY <1>2, <1>3, <1>4 DEF ConsoleInv, recordVars

\* The run goes on, questions are put and answered; a settled run stays as it is.
LEMMA RunKeeps ==
  ASSUME ConsoleInv,
         RunSteps \/ \E q \in Questions : AgentAsks(q) \/ PersonAnswers(q)
  PROVE  ConsoleInv'
<1>1. UNCHANGED <<page, conn, wire, drops>>
  BY DEF RunSteps, AgentAsks, PersonAnswers
<1>2. Settled => UNCHANGED <<status, transcript>>
  BY DEF RunSteps, AgentAsks, PersonAnswers, OpenRun, AppendEvent, FinishRun, Settled,
         Outcomes, recordVars
<1>3. TypeOK' /\ Len(transcript') <= MaxEvents
  <2>1. CASE \E q \in Questions : AgentAsks(q) \/ PersonAnswers(q)
    BY <2>1 DEF AgentAsks, PersonAnswers, ConsoleInv, TypeOK, RecordTypeOK, recordVars
  <2>2. CASE UNCHANGED <<transcript, answers, asked, decided>> /\ status' \in {"running"} \cup Outcomes
    BY <1>1, <2>2 DEF ConsoleInv, TypeOK, RecordTypeOK
  <2>3. ASSUME Len(transcript) < MaxEvents, NEW e \in Events, AppendEvent(e),
               UNCHANGED <<asked, decided>>
        PROVE  TypeOK' /\ Len(transcript') <= MaxEvents
    <3>1. transcript' = Append(transcript, e) /\ transcript \in Seq(Events)
            /\ UNCHANGED <<status, answers>>
      BY <2>3 DEF AppendEvent, ConsoleInv, TypeOK, RecordTypeOK
    <3>2. transcript' \in Seq(Events) /\ Len(transcript') = Len(transcript) + 1
            /\ Len(transcript) \in Nat
      BY <3>1
    <3>3. Len(transcript') <= MaxEvents
      BY <2>3, <3>2
    <3> QED BY <1>1, <2>3, <3>1, <3>2, <3>3 DEF ConsoleInv, TypeOK, RecordTypeOK
  <2> QED BY <2>1, <2>2, <2>3 DEF RunSteps, OpenRun, FinishRun
<1>4. PageFits' /\ Covered' /\ PageFollows'
  BY <1>1 DEF ConsoleInv, PageFits, Covered, PageFollows, Tip
<1>5. Tip' = Tip /\ (Settled => Settled')
  BY <1>1, <1>2 DEF Tip, Settled
<1>6. WireRuns' /\ WireMeetsPage' /\ ConnMeetsWire'
  BY <1>1, <1>5 DEF ConsoleInv, StreamFits, WireRuns, WireMeetsPage, ConnMeetsWire
<1>7. SettledIsLast' /\ SettledFits'
  BY <1>1, <1>2, <1>5 DEF ConsoleInv, StreamFits, SettledIsLast, SettledFits
<1>8. AllSent'
  <2>1. wire # <<>> /\ wire[Len(wire)] = RunSettled => Settled
    BY Fields DEF ConsoleInv, StreamFits, SettledIsLast
  <2> QED BY <1>1, <1>2, <1>5, <2>1 DEF ConsoleInv, StreamFits, AllSent
<1> QED BY <1>3, <1>4, <1>6, <1>7, <1>8 DEF ConsoleInv, StreamFits

\* The page is asked for and rendered: no stream is open.
LEMMA OpenKeeps == ASSUME ConsoleInv, OpenPage PROVE ConsoleInv'
<1>1. /\ page.at = "none" /\ page'.at = "rendering" /\ page'.lines = <<>>
      /\ page'.since = page.since /\ page' \in Pages
      /\ UNCHANGED <<runVars, conn, wire, drops>>
  BY DEF OpenPage, ConsoleInv, TypeOK, PageFits, Pages
<1>2. page.lines = <<>> /\ page.since = 0 /\ Tip' = 0 /\ Tip = 0 /\ conn.at = "none" /\ wire = <<>>
  BY <1>1 DEF ConsoleInv, PageFits, Tip
<1>3. TypeOK'
  BY <1>1 DEF ConsoleInv, TypeOK, RecordTypeOK, runVars, recordVars
<1>4. PageFits' /\ Covered' /\ PageFollows'
  BY <1>1, <1>2 DEF PageFits, Covered, PageFollows
<1>5. StreamFits'
  BY <1>1, <1>2
  DEF ConsoleInv, StreamFits, WireRuns, WireMeetsPage, ConnMeetsWire, SettledIsLast,
      AllSent, SettledFits, Settled, runVars, recordVars
<1> QED BY <1>1, <1>3, <1>4, <1>5 DEF ConsoleInv, runVars, recordVars

LEMMA RenderKeeps == ASSUME ConsoleInv, RenderPage PROVE ConsoleInv'
<1> DEFINE N == Len(transcript)
           shown == [i \in 1..N |-> i - 1]
<1>1. N \in Nat /\ N <= MaxEvents
  BY Fields DEF ConsoleInv
<1>2. shown \in Seq(Seqs) /\ Len(shown) = N /\ \A i \in 1..N : shown[i] = i - 1
  <2>1. \A i \in 1..N : i - 1 \in Seqs
    BY <1>1 DEF Seqs
  <2> QED BY <1>1, <2>1
<1>3. shown = <<>> <=> N = 0
  BY <1>1, <1>2
<1>4. transcript = <<>> <=> N = 0
  BY Fields DEF ConsoleInv
<1> HIDE DEF shown
<1>5. /\ page.at = "rendering" /\ page'.at = "loaded" /\ page'.lines = shown
      /\ page'.since = IF N = 0 THEN 0 ELSE N - 1
      /\ page' \in Pages
      /\ UNCHANGED <<runVars, conn, wire, drops>>
  <2>1. (IF transcript = <<>> THEN 0 ELSE N - 1) \in Nat
    BY <1>1, <1>4
  <2> QED BY <1>2, <1>4, <2>1 DEF RenderPage, ConsoleInv, TypeOK, Pages, shown
<1>6. conn.at = "none" /\ wire = <<>>
  BY <1>5 DEF ConsoleInv, PageFits
<1>7. Tip' = (IF N = 0 THEN 0 ELSE N - 1)
  BY <1>1, <1>2, <1>3, <1>5 DEF Tip
<1>8. TypeOK'
  BY <1>5 DEF ConsoleInv, TypeOK, RecordTypeOK, runVars, recordVars
<1>9. PageFits'
  BY <1>1, <1>3, <1>5, <1>6, <1>7 DEF PageFits
<1>10. Covered'
  <2> SUFFICES ASSUME NEW k \in 1..Tip' PROVE \E i \in 1..Len(page'.lines) : page'.lines[i] = k
    BY DEF Covered
  <2>1. k + 1 \in 1..N /\ shown[k + 1] = k
    BY <1>1, <1>2, <1>7
  <2> QED BY <1>2, <1>5, <2>1
<1>11. PageFollows'
  <2>0. N # 0 => shown[1] = 0
    BY <1>1, <1>2
  <2> SUFFICES ASSUME NEW i \in 1..(N - 1)
               PROVE  shown[i + 1] = shown[i] + 1 /\ shown[i] \in Nat
    BY <1>2, <1>3, <1>5, <2>0 DEF PageFollows
  <2>1. i \in 1..N /\ i + 1 \in 1..N
    BY <1>1
  <2> QED BY <1>2, <2>1
<1>12. StreamFits'
  BY <1>5, <1>6
  DEF ConsoleInv, StreamFits, WireRuns, WireMeetsPage, ConnMeetsWire, SettledIsLast,
      AllSent, SettledFits, Settled, runVars, recordVars
<1> QED BY <1>5, <1>8, <1>9, <1>10, <1>11, <1>12 DEF ConsoleInv, runVars, recordVars

\* The stream goes on after the last line the page was rendered with.
LEMMA ConnectKeeps == ASSUME ConsoleInv, Connect PROVE ConsoleInv'
<1>1. /\ page.at = "loaded" /\ page'.at = "following" /\ page'.lines = page.lines
      /\ page'.since = page.since /\ page' \in Pages
      /\ conn'.at = "poll" /\ conn'.last = page.since /\ conn'.settled = FALSE /\ conn' \in Conns
      /\ wire' = <<>> /\ wire' \in Seq(Messages) /\ Len(wire') = 0
      /\ UNCHANGED <<runVars, drops>>
  <2>1. page \in Pages /\ page.since \in Nat
    BY Fields DEF ConsoleInv, TypeOK
  <2>2. /\ page' \in Pages /\ page'.at = "following" /\ page'.lines = page.lines
        /\ page'.since = page.since
    BY <2>1 DEF Connect, Pages
  <2>3. /\ conn'.at = "poll" /\ conn'.last = page.since /\ conn'.settled = FALSE
        /\ conn' \in Conns
    BY <2>1 DEF Connect, Conns, NoConn
  <2> QED BY <2>2, <2>3 DEF Connect
<1>2. Tip' = Tip
  BY <1>1 DEF Tip
<1>3. TypeOK'
  BY <1>1 DEF ConsoleInv, TypeOK, RecordTypeOK, runVars, recordVars
<1>4. PageFits' /\ Covered' /\ PageFollows'
  BY <1>1, <1>2 DEF ConsoleInv, PageFits, Covered, PageFollows
<1>5. StreamFits'
  BY <1>1, <1>2, Fields
  DEF ConsoleInv, PageFits, StreamFits, WireRuns, WireMeetsPage, ConnMeetsWire,
      SettledIsLast, AllSent, SettledFits
<1> QED BY <1>1, <1>3, <1>4, <1>5 DEF ConsoleInv, runVars, recordVars

\* A line that arrives is the next one, or one the page has had.
LEMMA LineArrives ==
  ASSUME ConsoleInv, page.at = "following", wire # <<>>,
         Head(wire) \notin {PendingChanged, RunSettled},
         page' = [page EXCEPT !.lines = Append(@, Head(wire)[2])],
         wire' = Tail(wire), UNCHANGED <<runVars, conn, drops>>
  PROVE  ConsoleInv'
<1> DEFINE w == Len(wire)
           L == Len(page.lines)
<1>1. /\ wire \in Seq(Messages) /\ page.lines \in Seq(Seqs) /\ w \in Nat /\ w # 0 /\ L \in Nat
      /\ Tip \in Nat
  BY Fields DEF ConsoleInv
<1>2. PICK n \in Seqs : wire[1] = Line(n)
  <2>1. wire[1] = Head(wire) /\ wire[1] \in Messages
    BY <1>1
  <2> QED BY <2>1, LinesOrNotices
<1>3. Head(wire) = wire[1] /\ Head(wire)[2] = n
  BY <1>1, <1>2, MessagesDiffer
<1>4. /\ page'.at = "following" /\ page'.lines = Append(page.lines, n)
      /\ page'.since = page.since /\ page' \in Pages
  <2>1. page \in Pages /\ Append(page.lines, n) \in Seq(Seqs)
    BY <1>1 DEF ConsoleInv, TypeOK
  <2> QED BY <1>3, <2>1 DEF Pages
<1>5. /\ Len(page'.lines) = L + 1 /\ page'.lines[L + 1] = n
      /\ \A i \in 1..L : page'.lines[i] = page.lines[i]
      /\ page'.lines # <<>>
  <2>1. /\ Len(page'.lines) = L + 1 /\ page'.lines[L + 1] = n
        /\ \A i \in 1..L : page'.lines[i] = page.lines[i]
    BY <1>1, <1>4
  <2> QED BY <1>1, <2>1
<1>6. /\ wire' \in Seq(Messages) /\ Len(wire') = w - 1
      /\ \A i \in 1..(w - 1) : wire'[i] = wire[i + 1]
      /\ wire' = <<>> <=> w = 1
  <2>1. wire' \in Seq(Messages) /\ Len(wire') = w - 1
          /\ \A i \in 1..(w - 1) : wire'[i] = wire[i + 1]
    BY <1>1
  <2>2. wire' = <<>> <=> Len(wire') = 0
    BY <2>1, EmptySeq
  <2> HIDE DEF w
  <2> QED BY <1>1, <2>1, <2>2
<1> HIDE DEF w, L
<1>7. /\ n \in Nat /\ page.since <= n /\ n <= Tip + 1 /\ (drops = 0 => n = Tip + 1)
      /\ Tip' = n
  BY <1>2, <1>4, <1>5 DEF ConsoleInv, StreamFits, WireMeetsPage, Tip, Seqs
<1>8. TypeOK'
  BY <1>4, <1>6 DEF ConsoleInv, TypeOK, RecordTypeOK, runVars, recordVars
<1>9. PageFits'
  BY <1>4, <1>5, <1>7 DEF PageFits
<1>10. Covered'
  <2>1. \A k \in 1..Tip : \E i \in 1..L : page.lines[i] = k
    BY DEF ConsoleInv, Covered, L
  <2>2. 1..L \subseteq 1..(L + 1) /\ L + 1 \in 1..(L + 1)
    BY <1>1
  <2>3. \A k \in 1..n : k \in 1..Tip \/ k = n
    <3>1. n \in Nat /\ Tip \in Nat /\ n <= Tip + 1
      BY <1>1, <1>7
    <3> HIDE DEF Tip
    <3> QED BY <3>1
  <2>4. ASSUME NEW k \in 1..n PROVE \E i \in 1..(L + 1) : page'.lines[i] = k
    <3>1. CASE k \in 1..Tip
      BY <1>5, <2>1, <2>2, <3>1
    <3>2. CASE k = n
      BY <1>5, <2>2, <3>2
    <3> QED BY <2>3, <3>1, <3>2
  <2> QED BY <1>5, <1>7, <2>4 DEF Covered
<1>11. PageFollows'
  <2>0. page'.lines[1] = 0 \/ (page'.lines[1] = 1 /\ page'.since = 0)
    <3>1. CASE page.lines = <<>>
      <4>1. L = 0 /\ page'.lines[1] = n
        BY <1>5, <3>1 DEF L
      <4>2. page.since = 0 /\ Tip = 0
        BY <3>1 DEF ConsoleInv, PageFits, Tip
      <4> QED BY <1>4, <1>7, <4>1, <4>2
    <3>2. CASE page.lines # <<>>
      <4>1. 1 \in 1..L
        BY <1>1, <3>2 DEF L
      <4>2. page'.lines[1] = page.lines[1] /\ page'.since = page.since
        BY <1>4, <1>5, <4>1
      <4>3. page.lines[1] = 0 \/ (page.lines[1] = 1 /\ page.since = 0)
        BY <3>2 DEF ConsoleInv, PageFollows
      <4> QED BY <4>2, <4>3
    <3> QED BY <3>1, <3>2
  <2> SUFFICES ASSUME NEW i \in 1..L
               PROVE  /\ page'.lines[i + 1] <= page'.lines[i] + 1
                      /\ drops = 0 => page'.lines[i + 1] = page'.lines[i] + 1
    <3>1. 1..(Len(page'.lines) - 1) = 1..L
      BY <1>1, <1>5
    <3> QED BY <2>0, <3>1 DEF PageFollows
  <2>1. CASE i = L
    <3>1. L # 0 /\ page.lines[L] = Tip
      BY <1>1, <2>1 DEF Tip, L
    <3> QED BY <1>5, <1>7, <2>1, <3>1
  <2>2. CASE i \in 1..(L - 1)
    <3>1. i + 1 \in 1..L
      BY <1>1, <2>2
    <3>2. page'.lines[i] = page.lines[i] /\ page'.lines[i + 1] = page.lines[i + 1]
      BY <1>5, <3>1
    <3>3. /\ page.lines[i + 1] <= page.lines[i] + 1
          /\ drops = 0 => page.lines[i + 1] = page.lines[i] + 1
      BY <2>2 DEF ConsoleInv, PageFollows, L
    <3> QED BY <3>2, <3>3
  <2>3. i = L \/ i \in 1..(L - 1)
    BY <1>1
  <2> QED BY <2>1, <2>2, <2>3
<1>12. \A i \in 1..(w - 1) : i \in 1..w /\ i + 1 \in 1..w
  BY <1>1
<1>13. WireRuns'
  <2> SUFFICES ASSUME NEW i \in 1..(w - 2), NEW m \in Seqs, NEW o \in Seqs,
                      wire'[i] = Line(m), wire'[i + 1] = Line(o)
               PROVE  o = m + 1
    <3>1. 1..(Len(wire') - 1) = 1..(w - 2)
      BY <1>1, <1>6
    <3> QED BY <3>1 DEF WireRuns
  <2>1. i \in 1..(w - 1) /\ i + 1 \in 1..(w - 1)
    BY <1>1
  <2>2. wire[i + 1] = Line(m) /\ wire[(i + 1) + 1] = Line(o)
    BY <1>6, <2>1
  <2> QED BY <2>1, <2>2 DEF ConsoleInv, StreamFits, WireRuns, w
<1>14. WireMeetsPage'
  <2> SUFFICES ASSUME NEW m \in Seqs, wire' # <<>>, wire'[1] = Line(m)
               PROVE  m = n + 1
    <3>1. page.since \in Nat
      BY Fields DEF ConsoleInv
    <3>2. n + 1 <= Tip' + 1 /\ page'.since <= n + 1 /\ (drops' = 0 => n + 1 = Tip' + 1)
      BY <1>4, <1>7, <3>1
    <3> QED BY <3>2 DEF WireMeetsPage
  <2>1. 1 \in 1..(w - 1) /\ wire[1 + 1] = Line(m)
    <3>1. 1 \in 1..(w - 1)
      BY <1>1, <1>6
    <3>2. wire'[1] = wire[1 + 1]
      BY <1>6, <3>1
    <3> QED BY <3>1, <3>2
  <2> QED BY <1>2, <2>1 DEF ConsoleInv, StreamFits, WireRuns, w
<1>15. ConnMeetsWire'
  <2>1. ASSUME conn.at # "none", w = 1 PROVE conn.last = n
    BY <1>1, <1>2, <2>1 DEF ConsoleInv, StreamFits, ConnMeetsWire, w
  <2>2. ASSUME w # 1 PROVE wire'[w - 1] = wire[w]
    <3>1. w - 1 \in 1..(w - 1) /\ (w - 1) + 1 = w
      BY <1>1, <2>2
    <3>2. wire'[w - 1] = wire[(w - 1) + 1]
      BY <1>6, <3>1
    <3> QED BY <3>1, <3>2
  <2> QED BY <1>1, <1>6, <1>7, <2>1, <2>2 DEF ConsoleInv, StreamFits, ConnMeetsWire, w
<1>16. SettledIsLast'
  BY <1>1, <1>6, <1>12 DEF ConsoleInv, StreamFits, SettledIsLast, Settled, runVars, recordVars, w
<1>17. AllSent'
  <2> SUFFICES ASSUME wire' # <<>>, wire'[w - 1] = RunSettled
               PROVE  /\ w - 1 = 1 => n >= Len(transcript) - 1
                      /\ w - 1 > 1 =>
                           \A m \in Seqs : wire'[w - 2] = Line(m) => m >= Len(transcript) - 1
    <3>1. Len(wire') - 1 = w - 2 /\ Len(wire') = w - 1 /\ transcript' = transcript
      BY <1>1, <1>6 DEF runVars, recordVars
    <3> QED BY <1>7, <3>1 DEF AllSent
  <2>0. \A i \in 1..(w - 1) : wire'[i] = wire[i + 1]
    BY <1>6
  <2>1. w > 1 /\ wire[w] = RunSettled
    <3>1. w - 1 \in 1..(w - 1) /\ (w - 1) + 1 = w
      BY <1>1, <1>6
    <3>2. wire'[w - 1] = wire[(w - 1) + 1]
      BY <2>0, <3>1
    <3> QED BY <3>1, <3>2
  <2>2. \A m \in Seqs : wire[w - 1] = Line(m) => m >= Len(transcript) - 1
    BY <1>1, <2>1 DEF ConsoleInv, StreamFits, AllSent, w
  <2>3. ASSUME w - 1 > 1 PROVE wire'[w - 2] = wire[w - 1]
    <3>1. w - 2 \in 1..(w - 1) /\ (w - 2) + 1 = w - 1
      BY <1>1, <2>3
    <3>2. wire'[w - 2] = wire[(w - 2) + 1]
      BY <2>0, <3>1
    <3> QED BY <3>1, <3>2
  <2> QED BY <1>1, <1>2, <2>1, <2>2, <2>3
<1>18. SettledFits'
  BY DEF ConsoleInv, StreamFits, SettledFits, Settled, runVars, recordVars
<1> QED
  BY <1>8, <1>9, <1>10, <1>11, <1>13, <1>14, <1>15, <1>16, <1>17, <1>18
  DEF ConsoleInv, StreamFits, runVars, recordVars

\* The connection drops: the page keeps its lines and will go on from `since`.
LEMMA DropKeeps == ASSUME ConsoleInv, Drop PROVE ConsoleInv'
<1>1. /\ page.at = "following" /\ page'.at = "loaded" /\ page'.lines = page.lines
      /\ page'.since = page.since /\ page' \in Pages
      /\ conn' = NoConn /\ conn'.at = "none" /\ conn'.settled = FALSE /\ conn' \in Conns
      /\ wire' = <<>> /\ wire' \in Seq(Messages) /\ Len(wire') = 0
      /\ drops' = drops + 1 /\ drops \in 0..(MaxDrops - 1) /\ UNCHANGED runVars
  <2>1. page \in Pages /\ drops \in 0..MaxDrops
    BY DEF ConsoleInv, TypeOK
  <2>2. /\ page' \in Pages /\ page'.at = "loaded" /\ page'.lines = page.lines
        /\ page'.since = page.since
    BY <2>1 DEF Drop, Pages
  <2>3. conn' = NoConn /\ conn'.at = "none" /\ conn'.settled = FALSE /\ conn' \in Conns
    BY DEF Drop, Conns, NoConn
  <2>4. drops' = drops + 1 /\ drops \in 0..(MaxDrops - 1)
    BY <2>1 DEF Drop
  <2> QED BY <2>2, <2>3, <2>4 DEF Drop
<1>2. Tip' = Tip /\ drops' # 0 /\ drops' \in 0..MaxDrops
  BY <1>1 DEF Tip
<1>3. TypeOK'
  BY <1>1, <1>2 DEF ConsoleInv, TypeOK, RecordTypeOK, runVars, recordVars
<1>4. PageFits' /\ Covered' /\ PageFollows'
  BY <1>1, <1>2 DEF ConsoleInv, PageFits, Covered, PageFollows
<1>5. StreamFits'
  BY <1>1
  DEF StreamFits, WireRuns, WireMeetsPage, ConnMeetsWire, SettledIsLast, AllSent, SettledFits
<1> QED BY <1>1, <1>3, <1>4, <1>5 DEF ConsoleInv, runVars, recordVars

-----------------------------------------------------------------------------
(* The stream.                                                             *)

\* The rows beyond `last`, one after the other, up to the last row.
LEMMA BeyondRows ==
  ASSUME TypeOK, Len(transcript) <= MaxEvents, NEW last \in Nat
  PROVE  /\ Beyond(last) \in Seq(Seqs) /\ Len(Beyond(last)) \in Nat
         /\ \A i \in 1..Len(Beyond(last)) : Beyond(last)[i] = last + i
         /\ Beyond(last) = <<>> => last >= Len(transcript) - 1
         /\ Beyond(last) # <<>> =>
              Len(Beyond(last)) > 0 /\ Beyond(last)[Len(Beyond(last))] = Len(transcript) - 1
<1> DEFINE N == Len(transcript)
           k == IF N > last + 1 THEN N - (last + 1) ELSE 0
<1>1. N \in Nat /\ N <= MaxEvents /\ k \in Nat
  BY Fields
<1>2. Beyond(last) = [i \in 1..k |-> last + 1 + i - 1]
  BY DEF Beyond, SeqsFrom
<1>3. \A i \in 1..k : last + 1 + i - 1 = last + i /\ last + i \in Seqs
  BY <1>1 DEF Seqs
<1> HIDE DEF k
<1>4. /\ Beyond(last) \in Seq(Seqs) /\ Len(Beyond(last)) = k
      /\ \A i \in 1..k : Beyond(last)[i] = last + i
  BY <1>1, <1>2, <1>3
<1>5. Beyond(last) = <<>> <=> k = 0
  BY <1>1, <1>4
<1> QED BY <1>1, <1>4, <1>5 DEF k

LEMMA ReadStatusKeeps == ASSUME ConsoleInv, ReadStatus PROVE ConsoleInv'
<1>1. /\ conn.at = "poll" /\ conn'.at = "flush" /\ conn'.last = conn.last
      /\ conn'.settled = Settled /\ conn' \in Conns
      /\ UNCHANGED <<runVars, page, wire, drops>>
  <2>1. conn \in Conns
    BY DEF ConsoleInv, TypeOK
  <2>2. PICK b \in BOOLEAN : b = Settled
    <3>1. CASE Settled
      BY <3>1, Zenon
    <3>2. CASE ~Settled
      <4>1. Settled = FALSE
        BY <3>2 DEF Settled
      <4> QED BY <4>1, Zenon
    <3> QED BY <3>1, <3>2
  <2>3. conn' = [conn EXCEPT !.at = "flush", !.settled = b]
    BY <2>2 DEF ReadStatus
  <2>4. conn'.at = "flush" /\ conn'.last = conn.last /\ conn'.settled = b /\ conn' \in Conns
    BY <2>1, <2>3 DEF Conns
  <2> QED BY <2>2, <2>4 DEF ReadStatus
<1>2. Tip' = Tip /\ (Settled' <=> Settled)
  BY <1>1 DEF Tip, Settled, runVars, recordVars
<1>3. TypeOK'
  BY <1>1 DEF ConsoleInv, TypeOK, RecordTypeOK, runVars, recordVars
<1>4. PageFits' /\ Covered' /\ PageFollows'
  BY <1>1, <1>2 DEF ConsoleInv, PageFits, Covered, PageFollows
<1>5. StreamFits'
  BY <1>1, <1>2
  DEF ConsoleInv, StreamFits, WireRuns, WireMeetsPage, ConnMeetsWire, SettledIsLast,
      AllSent, SettledFits, runVars, recordVars
<1> QED BY <1>1, <1>3, <1>4, <1>5 DEF ConsoleInv, runVars, recordVars

\* The lines go out behind what is on the wire, and go on where it ends.
LEMMA SendLinesKeeps == ASSUME ConsoleInv, SendLines PROVE ConsoleInv'
<1> DEFINE new == Beyond(conn.last)
           sent == [i \in 1..Len(new) |-> Line(new[i])]
           w == Len(wire)
           k == Len(new)
           N == Len(transcript)
<1>1. /\ TypeOK /\ conn.last \in Nat /\ wire \in Seq(Messages) /\ w \in Nat /\ N \in Nat /\ Tip \in Nat
      /\ N <= MaxEvents
  BY Fields DEF ConsoleInv
<1>2. /\ new \in Seq(Seqs) /\ k \in Nat
      /\ \A i \in 1..k : new[i] = conn.last + i /\ new[i] \in Seqs
      /\ new = <<>> => conn.last >= N - 1
      /\ new # <<>> => k > 0 /\ new[k] = N - 1
      /\ new = <<>> <=> k = 0
  <2>1. /\ new \in Seq(Seqs) /\ k \in Nat
        /\ \A i \in 1..k : new[i] = conn.last + i
        /\ new = <<>> => conn.last >= N - 1
        /\ new # <<>> => k > 0 /\ new[k] = N - 1
    BY <1>1, BeyondRows
  <2> HIDE DEF new
  <2> QED BY <2>1
<1>3. /\ conn.at = "flush" /\ conn'.at = "pending" /\ conn'.settled = conn.settled
      /\ conn'.last = IF k = 0 THEN conn.last ELSE N - 1
      /\ conn' \in Conns
      /\ wire' = wire \o sent
      /\ UNCHANGED <<runVars, page, drops>>
  <2>1. (IF new = <<>> THEN conn.last ELSE new[Len(new)]) \in Nat
    BY <1>1, <1>2 DEF Seqs
  <2> HIDE DEF new
  <2>2. /\ conn.at = "flush"
        /\ conn' = [conn EXCEPT !.at = "pending",
                                !.last = IF new = <<>> THEN conn.last ELSE new[Len(new)]]
        /\ wire' = wire \o sent
        /\ UNCHANGED <<runVars, page, drops>>
    BY DEF SendLines, new
  <2> QED BY <1>2, <2>1, <2>2 DEF ConsoleInv, TypeOK, Conns
<1> HIDE DEF new
<1>4. /\ sent \in Seq(Messages) /\ Len(sent) = k /\ \A i \in 1..k : sent[i] = Line(conn.last + i)
  BY <1>2, MessagesDiffer
<1> HIDE DEF sent, w, k
<1>5. /\ wire' \in Seq(Messages) /\ Len(wire') = w + k
      /\ \A i \in 1..w : wire'[i] = wire[i]
      /\ \A i \in 1..k : wire'[w + i] = Line(conn.last + i)
      /\ wire' = <<>> <=> w + k = 0
      /\ wire = <<>> <=> w = 0
  <2>1. /\ wire' \in Seq(Messages) /\ Len(wire') = w + k
        /\ \A i \in 1..w : wire'[i] = wire[i]
    <3>1. \A i \in 1..w : i \in 1..(w + k) /\ i <= w
      BY <1>1, <1>2 DEF w
    <3> QED BY <1>1, <1>2, <1>3, <1>4, <3>1, ConcatProperties DEF w
  <2>2. ASSUME NEW i \in 1..k PROVE wire'[w + i] = Line(conn.last + i)
    BY <1>1, <1>2, <1>3, <1>4 DEF w
  <2> QED BY <1>1, <1>2, <2>1, <2>2 DEF w
<1>6. \A i \in 1..(w + k) : i \in 1..w \/ \E j \in 1..k : i = w + j
  BY <1>1, <1>2
<1>7. Tip' = Tip /\ (Settled' <=> Settled) /\ N' = N
  BY <1>3 DEF Tip, Settled, runVars, recordVars
<1>8. TypeOK'
  BY <1>3, <1>5 DEF ConsoleInv, TypeOK, RecordTypeOK, runVars, recordVars
<1>9. PageFits' /\ Covered' /\ PageFollows'
  BY <1>3, <1>7 DEF ConsoleInv, PageFits, Covered, PageFollows
<1>10. WireRuns'
  <2> SUFFICES ASSUME NEW i \in 1..(w + k - 1), NEW m \in Seqs, NEW n \in Seqs,
                      wire'[i] = Line(m), wire'[i + 1] = Line(n)
               PROVE  n = m + 1
    <3>1. Len(wire') - 1 = w + k - 1
      BY <1>1, <1>2, <1>5 DEF w
    <3> QED BY <3>1 DEF WireRuns
  <2>1. CASE i + 1 <= w
    <3>1. i \in 1..w /\ i + 1 \in 1..w /\ i \in 1..(w - 1)
      BY <1>1, <1>2, <2>1 DEF w
    <3>2. wire[i] = Line(m) /\ wire[i + 1] = Line(n)
      BY <1>5, <3>1
    <3> QED BY <3>1, <3>2 DEF ConsoleInv, StreamFits, WireRuns, w
  <2>2. CASE i = w
    <3>1. 1 \in 1..k /\ n = conn.last + 1
      BY <1>1, <1>2, <1>5, <2>2, MessagesDiffer
    <3>2. conn.last = m
      BY <1>1, <1>2, <1>3, <1>5, <2>2 DEF ConsoleInv, StreamFits, ConnMeetsWire, w
    <3> QED BY <3>1, <3>2
  <2>3. CASE i > w
    <3>1. i - w \in 1..k /\ i + 1 - w \in 1..k /\ i = w + (i - w) /\ i + 1 = w + (i + 1 - w)
      BY <1>1, <1>2, <2>3
    <3>2. m = conn.last + (i - w) /\ n = conn.last + (i + 1 - w)
      BY <1>5, <3>1, MessagesDiffer
    <3> QED BY <1>1, <3>1, <3>2
  <2> QED BY <1>1, <1>2, <2>1, <2>2, <2>3
<1>11. WireMeetsPage'
  <2>1. CASE w # 0
    BY <1>1, <1>3, <1>5, <1>7, <2>1 DEF ConsoleInv, StreamFits, WireMeetsPage
  <2>2. CASE w = 0 /\ k # 0
    <3>1. 1 \in 1..k /\ wire'[1] = Line(conn.last + 1)
      BY <1>1, <1>2, <1>5, <2>2
    <3>2. page.since <= conn.last /\ conn.last <= Tip /\ (drops = 0 => conn.last = Tip)
      BY <1>3, <1>5, <2>2 DEF ConsoleInv, StreamFits, ConnMeetsWire
    <3>3. page.since \in Nat
      BY Fields DEF ConsoleInv
    <3>4. /\ page'.since <= conn.last + 1 /\ conn.last + 1 <= Tip' + 1
          /\ drops' = 0 => conn.last + 1 = Tip' + 1
      BY <1>1, <1>3, <1>7, <3>2, <3>3
    <3>5. \A n \in Seqs : wire'[1] = Line(n) => n = conn.last + 1
      BY <3>1, MessagesDiffer
    <3> QED BY <3>4, <3>5 DEF WireMeetsPage
  <2>3. CASE w + k = 0
    BY <1>5, <2>3 DEF WireMeetsPage
  <2> QED BY <1>1, <1>2, <2>1, <2>2, <2>3
<1>12. ConnMeetsWire'
  <2>1. CASE k = 0
    BY <1>1, <1>3, <1>5, <1>7, <2>1 DEF ConsoleInv, StreamFits, ConnMeetsWire, w
  <2>2. CASE k # 0
    <3>1. k \in 1..k /\ wire'[w + k] = Line(conn.last + k) /\ conn.last + k = N - 1
      BY <1>1, <1>2, <1>5, <2>2
    <3>2. page.since \in Nat /\ page.since <= conn.last
      BY <1>3, Fields DEF ConsoleInv, StreamFits, ConnMeetsWire
    <3>3. page'.since <= N - 1
      BY <1>1, <1>2, <1>3, <3>1, <3>2
    <3> QED BY <1>1, <1>2, <1>3, <1>5, <2>2, <3>1, <3>3, MessagesDiffer DEF ConnMeetsWire
  <2> QED BY <2>1, <2>2
<1>13. \A i \in 1..(w + k) : wire'[i] # RunSettled
  <2>1. \A i \in 1..w : wire[i] # RunSettled
    BY <1>3 DEF ConsoleInv, StreamFits, SettledIsLast, w
  <2> QED BY <1>5, <1>6, <2>1, MessagesDiffer
<1>14. SettledIsLast' /\ AllSent'
  <2>1. wire' # <<>> => w + k \in 1..(w + k)
    BY <1>1, <1>2, <1>5
  <2> QED BY <1>5, <1>13, <2>1 DEF SettledIsLast, AllSent
<1>15. SettledFits'
  BY <1>1, <1>2, <1>3, <1>7 DEF ConsoleInv, StreamFits, SettledFits
<1> QED
  BY <1>3, <1>8, <1>9, <1>10, <1>11, <1>12, <1>14, <1>15
  DEF ConsoleInv, StreamFits, runVars, recordVars

\* A notice behind what is on the wire.
LEMMA NoticeKeeps ==
  ASSUME ConsoleInv, conn.at \in {"pending", "end"}, conn' \in Conns,
         NEW notice \in {PendingChanged, RunSettled}, wire' = Append(wire, notice),
         notice = RunSettled => conn.settled /\ conn'.at = "none",
         conn'.last = conn.last \/ conn'.at = "none",
         conn'.settled => conn.settled,
         conn'.at \in {"none", "end"},
         conn'.at = "none" => ~conn'.settled,
         UNCHANGED <<runVars, page, drops>>
  PROVE  ConsoleInv'
<1> DEFINE w == Len(wire)
           N == Len(transcript)
<1>1. wire \in Seq(Messages) /\ w \in Nat /\ Tip \in Nat /\ N \in Nat /\ page.at = "following"
  BY Fields DEF ConsoleInv, PageFits
<1>2. /\ wire' \in Seq(Messages) /\ Len(wire') = w + 1 /\ wire'[w + 1] = notice
      /\ \A i \in 1..w : wire'[i] = wire[i]
      /\ wire' # <<>>
      /\ wire = <<>> <=> w = 0
  <2>1. notice \in Messages
    BY MessagesDiffer
  <2>2. /\ wire' \in Seq(Messages) /\ Len(wire') = w + 1 /\ wire'[w + 1] = notice
        /\ \A i \in 1..w : wire'[i] = wire[i]
    BY <1>1, <2>1
  <2> QED BY <1>1, <2>2
<1>3. Tip' = Tip /\ (Settled' <=> Settled) /\ N' = N
  BY DEF Tip, Settled, runVars, recordVars
<1> HIDE DEF w
<1>4. \A n : notice # Line(n)
  BY MessagesDiffer
<1>5. TypeOK'
  BY <1>2 DEF ConsoleInv, TypeOK, RecordTypeOK, runVars, recordVars
<1>6. PageFits' /\ Covered' /\ PageFollows'
  BY <1>1, <1>3 DEF ConsoleInv, PageFits, Covered, PageFollows
<1>7. WireRuns'
  BY <1>1, <1>2, <1>4 DEF ConsoleInv, StreamFits, WireRuns, w
<1>8. WireMeetsPage'
  BY <1>1, <1>2, <1>3, <1>4 DEF ConsoleInv, StreamFits, WireMeetsPage
<1>9. ConnMeetsWire'
  BY <1>1, <1>2, <1>4 DEF ConsoleInv, StreamFits, ConnMeetsWire
<1>10. \A i \in 1..w : wire[i] # RunSettled
  BY DEF ConsoleInv, StreamFits, SettledIsLast, w
<1>11. SettledIsLast'
  BY <1>1, <1>2, <1>3, <1>10, MessagesDiffer
  DEF ConsoleInv, StreamFits, SettledIsLast, SettledFits
<1>12. AllSent'
  <2> SUFFICES ASSUME notice = RunSettled
               PROVE  /\ w + 1 = 1 => Tip >= N - 1
                      /\ w + 1 > 1 =>
                           \A n \in Seqs : wire'[w] = Line(n) => n >= N - 1
    BY <1>1, <1>2, <1>3 DEF AllSent
  <2>1. conn.last >= N - 1 /\ conn.last \in Nat
    BY Fields DEF ConsoleInv, StreamFits, SettledFits
  <2>2. ASSUME w = 0 PROVE Tip >= N - 1
    BY <1>1, <1>2, <2>1, <2>2 DEF ConsoleInv, StreamFits, ConnMeetsWire
  <2>3. ASSUME w + 1 > 1, NEW n \in Seqs, wire'[w] = Line(n) PROVE n >= N - 1
    <3>1. w \in 1..w
      BY <1>1, <2>3 DEF w
    <3>2. wire # <<>> /\ wire[w] = Line(n)
      BY <1>2, <2>3, <3>1
    <3> QED BY <2>1, <2>3, <3>2 DEF ConsoleInv, StreamFits, ConnMeetsWire, w
  <2>4. w + 1 = 1 => w = 0
    BY <1>1 DEF w
  <2> QED BY <2>2, <2>3, <2>4
<1>13. SettledFits'
  BY <1>3 DEF ConsoleInv, StreamFits, SettledFits
<1> QED
  BY <1>3, <1>5, <1>6, <1>7, <1>8, <1>9, <1>11, <1>12, <1>13 DEF ConsoleInv, StreamFits

\* The stream goes on without a message.
LEMMA SilenceKeeps ==
  ASSUME ConsoleInv, conn.at \in {"pending", "end"}, conn' \in Conns,
         conn'.last = conn.last, conn'.settled = conn.settled,
         conn'.at \in {"end", "poll"}, conn.settled => conn'.at = "end",
         UNCHANGED <<runVars, page, wire, drops>>
  PROVE  ConsoleInv'
<1>1. Tip' = Tip /\ (Settled' <=> Settled)
  BY DEF Tip, Settled, runVars, recordVars
<1>2. TypeOK'
  BY DEF ConsoleInv, TypeOK, RecordTypeOK, runVars, recordVars
<1>3. PageFits' /\ Covered' /\ PageFollows'
  BY <1>1 DEF ConsoleInv, PageFits, Covered, PageFollows
<1>4. StreamFits'
  BY <1>1
  DEF ConsoleInv, StreamFits, WireRuns, WireMeetsPage, ConnMeetsWire, SettledIsLast,
      AllSent, SettledFits, runVars, recordVars
<1> QED BY <1>2, <1>3, <1>4 DEF ConsoleInv, runVars, recordVars

LEMMA PollKeeps == ASSUME ConsoleInv, SendPending \/ EndPoll PROVE ConsoleInv'
<1>1. conn \in Conns /\ asked \subseteq Questions
  BY DEF ConsoleInv, TypeOK
<1>2. CASE SendPending
  <2>1. /\ conn.at = "pending" /\ conn'.at = "end" /\ conn'.last = conn.last
        /\ conn'.settled = conn.settled /\ conn' \in Conns
        /\ wire' = wire \/ wire' = Append(wire, PendingChanged)
        /\ UNCHANGED <<runVars, page, drops>>
    <3>1. conn' = [conn EXCEPT !.at = "end", !.known = TRUE, !.pending = asked]
      BY <1>2 DEF SendPending
    <3>2. /\ conn'.at = "end" /\ conn'.last = conn.last
          /\ conn'.settled = conn.settled /\ conn' \in Conns
      BY <1>1, <3>1 DEF Conns
    <3> QED BY <1>2, <3>2, Zenon DEF SendPending
  <2>2. CASE wire' = wire
    <3>1. /\ conn.at \in {"pending", "end"} /\ conn'.at = "end"
          /\ UNCHANGED <<runVars, page, wire, drops>>
      BY <2>1, <2>2
    <3> QED BY <2>1, <3>1, SilenceKeeps
  <2>3. CASE wire' = Append(wire, PendingChanged)
    BY <2>1, <2>3, NoticeKeeps, MessagesDiffer
  <2> QED BY <2>1, <2>2, <2>3
<1>3. CASE EndPoll
  <2>1. CASE conn.settled /\ wire' = Append(wire, RunSettled) /\ conn' = NoConn
    <3>1. conn' \in Conns /\ conn'.at = "none" /\ ~conn'.settled
      BY <2>1 DEF NoConn, Conns
    <3> QED BY <1>3, <2>1, <3>1, NoticeKeeps DEF EndPoll
  <2>2. CASE ~conn.settled /\ conn' = [conn EXCEPT !.at = "poll"] /\ UNCHANGED wire
    <3>1. conn' \in Conns /\ conn'.at = "poll" /\ conn'.last = conn.last
            /\ conn'.settled = conn.settled
      BY <1>1, <2>2 DEF Conns
    <3> QED BY <1>3, <2>2, <3>1, SilenceKeeps DEF EndPoll
  <2> QED BY <1>3, <2>1, <2>2 DEF EndPoll
<1> QED BY <1>2, <1>3

\* The invariant is inductive.
LEMMA ConsoleInvStep == ConsoleInv /\ [Next]_vars => ConsoleInv'
<1> SUFFICES ASSUME ConsoleInv, [Next]_vars PROVE ConsoleInv'
  OBVIOUS
<1>1. ASSUME NEW q \in Questions, AnswerHere(q) PROVE ConsoleInv'
  <2>1. asked' \subseteq Questions /\ decided' \subseteq Questions
    BY <1>1 DEF AnswerHere, ConsoleInv, TypeOK
  <2> QED BY <1>1, <2>1, ResetKeeps DEF AnswerHere
<1>2. CASE Receive
  <2>1. CASE Head(wire) \in {PendingChanged, RunSettled}
    <3>1. asked' \subseteq Questions /\ decided' \subseteq Questions
      BY <1>2 DEF Receive, ConsoleInv, TypeOK, runVars
    <3> QED BY <1>2, <2>1, <3>1, ResetKeeps DEF Receive, runVars
  <2>2. CASE Head(wire) \notin {PendingChanged, RunSettled}
    BY <1>2, <2>2, LineArrives DEF Receive
  <2> QED BY <2>1, <2>2
<1>3. CASE UNCHANGED vars
  <2>1. UNCHANGED <<runVars, page, conn, wire, drops>>
    BY <1>3 DEF vars
  <2> QED
    BY <2>1
    DEF ConsoleInv, TypeOK, RecordTypeOK, PageFits, Covered, PageFollows, StreamFits,
        WireRuns, WireMeetsPage, ConnMeetsWire, SettledIsLast, AllSent, SettledFits,
        Settled, Tip, runVars, recordVars
<1> QED
  BY <1>1, <1>2, <1>3, RunKeeps, OpenKeeps, RenderKeeps, ConnectKeeps, DropKeeps,
     ReadStatusKeeps, SendLinesKeeps, PollKeeps
  DEF Next

(***************************************************************************)
(* Page, wire, stream and record of a run fit together in every reachable  *)
(* state, whichever of them moves and whenever the connection drops.       *)
(***************************************************************************)
THEOREM ConsoleInvariance == Spec => []ConsoleInv
<1>1. Init => ConsoleInv
  <2> SUFFICES ASSUME Init PROVE ConsoleInv
    OBVIOUS
  <2>1. /\ page \in Pages /\ page.at = "none" /\ page.lines = <<>> /\ page.since = 0
        /\ conn \in Conns /\ conn.at = "none" /\ conn.settled = FALSE
        /\ wire \in Seq(Messages) /\ transcript \in Seq(Events)
        /\ Len(page.lines) = 0 /\ Len(wire) = 0 /\ Len(transcript) = 0
    BY DEF Init, RecordInit, NoPage, NoConn, Pages, Conns
  <2>2. TypeOK /\ Len(transcript) <= MaxEvents
    BY <2>1 DEF Init, RecordInit, TypeOK, RecordTypeOK
  <2>3. PageFits /\ Covered /\ PageFollows
    BY <2>1 DEF Init, PageFits, Covered, PageFollows, Tip
  <2>4. StreamFits
    BY <2>1
    DEF Init, StreamFits, WireRuns, WireMeetsPage, ConnMeetsWire, SettledIsLast,
        AllSent, SettledFits
  <2> QED BY <2>2, <2>3, <2>4 DEF ConsoleInv
<1> QED BY <1>1, ConsoleInvStep, PTL DEF Spec

(***************************************************************************)
(* A page shows every line of the run up to its newest one, and while no   *)
(* connection dropped each of them once; line 0 is missing on a page that  *)
(* was rendered before there was a line, and on no other.                  *)
(***************************************************************************)
THEOREM ThePageFollows == Spec => []PageFollows
<1>1. ConsoleInv => PageFollows
  BY DEF ConsoleInv
<1> QED BY <1>1, ConsoleInvariance, PTL

(***************************************************************************)
(* When the browser is told that the run settled, every line the stream    *)
(* can send is on the page, because each poll reads the status before the  *)
(* lines.                                                                  *)
(***************************************************************************)
THEOREM TheSettledNoticeIsLast == Spec => []SettledComesLast
<1>1. ConsoleInv => SettledComesLast
  <2> SUFFICES ASSUME ConsoleInv, wire # <<>>, Head(wire) = RunSettled,
                      NEW n \in 1..(Len(transcript) - 1)
               PROVE  \E i \in 1..Len(page.lines) : page.lines[i] = n
    BY DEF SettledComesLast
  <2>1. wire \in Seq(Messages) /\ Len(wire) \in Nat /\ Len(wire) # 0 /\ Tip \in Nat
          /\ Len(transcript) \in Nat
    BY Fields DEF ConsoleInv
  <2>2. 1 \in 1..Len(wire) /\ wire[1] = RunSettled
    BY <2>1
  <2>3. Len(wire) = 1
    BY <2>2 DEF ConsoleInv, StreamFits, SettledIsLast
  <2>4. n \in 1..Tip
    BY <2>1, <2>2, <2>3 DEF ConsoleInv, StreamFits, AllSent
  <2> QED BY <2>4 DEF ConsoleInv, Covered
<1> QED BY <1>1, ConsoleInvariance, PTL
=============================================================================
