----------------------------- MODULE AnswerDiff -----------------------------
(***************************************************************************)
(* What differs between two answers: diffAnswers() pairs their steps by    *)
(* facts that agree, leaves a pairing with a close runner-up alone, and    *)
(* compares lanes and module edges by what they stand for.                 *)
(*                                                                         *)
(* A confidence is counted in hundredths, the score that is rounded to it  *)
(* in ten-thousandths.  How alike two labels are, in hundredths, is a      *)
(* constant; the lane a step starts from or goes to is the lane itself.    *)
(***************************************************************************)
EXTENDS Integers, Sequences, FiniteSets, SequencesExt, FiniteSetsExt

CONSTANTS
  Comparable,  \* the answers that are compared
  Alike(_, _)  \* how alike two labels are: 100 when they are the same

ASSUME AnswerDiffAssumption ==
  /\ \A a \in Comparable : a.steps \in Seq(ToSet(a.steps))
  /\ \A a, b \in Comparable : \A i \in DOMAIN a.steps, j \in DOMAIN b.steps :
       LET l == a.steps[i].label
           m == b.steps[j].label
       IN Alike(l, m) \in 0..100 /\ Alike(l, m) = Alike(m, l) /\ Alike(l, l) = 100

VARIABLES
  compared,  \* the two answers
  diff       \* what diffAnswers() says of them, both ways round

diffVars == <<compared, diff>>

Threshold == 58
Clear == 94
Gap == 6

NotDiffed == [state |-> "not asked"]

\* A gap of six hundredths that the subtraction of two doubles makes shorter.
ShortGap == 69..74 \cup 82..87

-----------------------------------------------------------------------------

\* A lane is its module, or what it is called; a planned module is known by
\* the path it would have.
laneIdentity(lane) ==
  IF lane.module # "none" THEN <<"module", lane.module>> ELSE <<lane.kind, lane.name>>

\* score(): the facts of steps i of one answer and j of the other that agree.
confidence(from, to, i, j) ==
  LET s == from.steps[i]
      t == to.steps[j]
      Worth(agree, weight) == IF agree THEN weight ELSE 0
      total == Max({Len(from.steps), Len(to.steps), 1})
      apart == IF i < j THEN j - i ELSE i - j
      facts == Worth(s.id = t.id, 2400)
             + Worth(laneIdentity(s.from) = laneIdentity(t.from), 1200)
             + Worth(laneIdentity(s.to) = laneIdentity(t.to), 1200)
             + Worth(s.phase = t.phase, 1200)
             + Worth(s.kind = t.kind, 600)
             + 24 * Alike(s.label, t.label)
  IN (facts * total + 1000 * (total - apart) + 50 * total) \div (100 * total)

\* The pairs that are worth considering, each with its confidence.
candidates(from, to) ==
  LET conf == [c \in (DOMAIN from.steps) \X (DOMAIN to.steps) |->
                 confidence(from, to, c[1], c[2])]
  IN [c \in {d \in DOMAIN conf : conf[d] >= Threshold} |-> conf[c]]

\* Slip: only the step that is looked for is asked for a runner-up.
RivalsOfTheFirst(conf, c) == {d \in DOMAIN conf \ {c} : d[1] = c[1]}

Rivals(conf, c) == {d \in DOMAIN conf \ {c} : d[1] = c[1] \/ d[2] = c[2]}

\* ambiguous(): unless it is clear, a candidate is dropped when another one of
\* the same step, at either end, is better or nearly as good.
ambiguous(conf, c) ==
  /\ conf[c] < Clear
  /\ \E d \in Rivals(conf, c) :
       \/ conf[c] - conf[d] < Gap
       \/ conf[c] - conf[d] = Gap /\ conf[c] \in ShortGap

\* The best candidate first, then by position.
Sooner(conf, c, d) ==
  \/ conf[c] > conf[d]
  \/ conf[c] = conf[d] /\ c[1] < d[1]
  \/ conf[c] = conf[d] /\ c[1] = d[1] /\ c[2] < d[2]

InOrder(conf) ==
  LET place(c) == Cardinality({d \in DOMAIN conf : Sooner(conf, d, c)}) + 1
  IN [k \in 1..Cardinality(DOMAIN conf) |-> CHOOSE c \in DOMAIN conf : place(c) = k]

\* A candidate is a match unless one of its steps is taken.
Keep(conf, matches, c) ==
  IF (\E m \in matches : m[1] = c[1] \/ m[2] = c[2]) \/ ambiguous(conf, c)
  THEN matches ELSE matches \cup {c}

\* matchSteps(): the candidates are gone through in their order.
matchSteps(from, to) ==
  LET conf == candidates(from, to)
      order == InOrder(conf)
      last == Len(order)
      kept[k \in 0..last] == IF k = 0 THEN {} ELSE Keep(conf, kept[k - 1], order[k])
  IN kept[last]

\* changesOf(): what differs between two steps that were paired.
changesOf(from, to, c) ==
  LET s == from.steps[c[1]]
      t == to.steps[c[2]]
  IN {x \in {"label", "lanes", "phase", "kind"} :
        CASE x = "label" -> s.label # t.label
          [] x = "lanes" -> \/ laneIdentity(s.from) # laneIdentity(t.from)
                            \/ laneIdentity(s.to) # laneIdentity(t.to)
          [] x = "phase" -> s.phase # t.phase
          [] x = "kind" -> s.kind # t.kind}

lanes(answer) ==
  {laneIdentity(answer.steps[i].from) : i \in DOMAIN answer.steps}
    \cup {laneIdentity(answer.steps[i].to) : i \in DOMAIN answer.steps}

\* changedByKey()
changedByKey(before, after) == [added |-> after \ before, removed |-> before \ after]

diffAnswers(from, to) ==
  LET matches == matchSteps(from, to)
  IN [state |-> "diffed",
      matched |-> {<<c, changesOf(from, to, c)>> : c \in matches},
      onlyFrom |-> DOMAIN from.steps \ {c[1] : c \in matches},
      onlyTo |-> DOMAIN to.steps \ {c[2] : c \in matches},
      lanes |-> changedByKey(lanes(from), lanes(to))]

-----------------------------------------------------------------------------

DiffInit ==
  /\ compared \in Comparable \X Comparable
  /\ diff = <<NotDiffed, NotDiffed>>

AskDiff ==
  /\ diff[1] = NotDiffed
  /\ diff' = <<diffAnswers(compared[1], compared[2]), diffAnswers(compared[2], compared[1])>>
  /\ UNCHANGED compared

DiffSpec == DiffInit /\ [][AskDiff]_diffVars

\* Asked the other way round, the comparison says the same: the same steps are
\* paired, with the same changes, and what one direction calls added the other
\* calls removed.  The pairing is greedy, breaks ties by position and drops what
\* has a runner-up, so nothing in its order may depend on which answer is first.
\* And an answer differs from itself in nothing.
PairingIsMutual ==
  diff[1] # NotDiffed =>
    /\ {<<m[1][2], m[1][1], m[2]>> : m \in diff[1].matched}
         = {<<m[1][1], m[1][2], m[2]>> : m \in diff[2].matched}
    /\ diff[1].onlyFrom = diff[2].onlyTo /\ diff[1].onlyTo = diff[2].onlyFrom
    /\ diff[1].lanes.added = diff[2].lanes.removed
    /\ diff[1].lanes.removed = diff[2].lanes.added
    /\ compared[1] = compared[2] =>
         diff[1].matched = {<<<<i, i>>, {}>> : i \in DOMAIN compared[1].steps}
=============================================================================
