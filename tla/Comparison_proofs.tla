------------------------- MODULE Comparison_proofs --------------------------
(***************************************************************************)
(* What is said of two things that were compared: of two answers, the same *)
(* from either side (PairingIsMutual); of a plan and what is there, with   *)
(* nothing dropped (NothingIsDropped); and of the lines an answer cites, no *)
(* more than a test run has measured (NothingMeasuredIsGuessed).           *)
(***************************************************************************)
EXTENDS PlanReview, RuntimeCoverage, SequenceTheorems, FiniteSetTheorems,
        WellFoundedInduction, TLAPS

-----------------------------------------------------------------------------
(* Numbers, recursive functions and ranks                                  *)

\* A nonempty set of numbers has a least one: what takes the place of an
\* induction below.
LEMMA LeastNumber ==
  ASSUME NEW T \in SUBSET Nat, T # {}
  PROVE  \E x \in T : \A y \in T : x <= y
<1>1. PICK x \in T : \A y \in T : <<y, x>> \notin OpToRel(<, Nat)
  BY NatLessThanWellFounded, WFMin
<1>2. \A y \in T : x <= y
  <2>1. TAKE y \in T
  <2>2. x \in Nat /\ y \in Nat  OBVIOUS
  <2>3. ~(y < x)
    BY <1>1, <2>2, Zenon DEF OpToRel
  <2>4. QED  BY <2>2, <2>3
<1>3. QED  BY <1>2

Recurs(f, n, first, step) ==
  \A k \in 0..n : f[k] = IF k = 0 THEN first ELSE step[<<k, f[k - 1]>>]

\* A recursive function exists: of the numbers up to which there is none, there
\* would be a least.
LEMMA RecursionExists ==
  ASSUME NEW S, NEW first \in S, NEW n \in Nat, NEW step \in [(1..n) \X S -> S]
  PROVE  \E f \in [0..n -> S] : Recurs(f, n, first, step)
<1> DEFINE missing == {m \in Nat : m <= n /\ ~\E f \in [0..m -> S] : Recurs(f, m, first, step)}
<1>1. SUFFICES ASSUME missing # {} PROVE FALSE
  OBVIOUS
<1>2. PICK m \in missing : \A i \in missing : m <= i
  <2>1. missing \in SUBSET Nat  OBVIOUS
  <2> HIDE DEF missing
  <2>2. QED  BY <1>1, <2>1, LeastNumber
<1>3. m # 0
  <2>1. SUFFICES ASSUME m = 0 PROVE FALSE
    OBVIOUS
  <2>2. [k \in 0..0 |-> first] \in [0..0 -> S] /\ Recurs([k \in 0..0 |-> first], 0, first, step)
    BY DEF Recurs
  <2>3. QED  BY <2>1, <2>2
<1>4. m \in Nat /\ m <= n /\ m - 1 \in Nat /\ m - 1 \notin missing
  <2>1. m \in Nat /\ m <= n
    BY <1>2
  <2>2. m - 1 \in Nat /\ ~(m <= m - 1)
    BY <1>3, <2>1
  <2> HIDE DEF missing
  <2>3. QED  BY <1>2, <2>1, <2>2
<1>5. PICK f \in [0..(m - 1) -> S] : Recurs(f, m - 1, first, step)
  BY <1>4
<1> DEFINE g == [k \in 0..m |-> IF k = m THEN step[<<m, f[m - 1]>>] ELSE f[k]]
<1>6. m - 1 \in 0..(m - 1) /\ <<m, f[m - 1]>> \in (1..n) \X S
  BY <1>3, <1>4
<1>7. g \in [0..m -> S]
  BY <1>4, <1>5, <1>6
<1>8. \A k \in 0..m : g[k] = IF k = 0 THEN first ELSE step[<<k, g[k - 1]>>]
  <2>1. TAKE k \in 0..m
  <2>2. CASE k = m
    <3>1. m - 1 \in 0..m /\ m - 1 # m
      BY <1>4
    <3>2. g[k - 1] = f[m - 1]
      BY <2>2, <3>1
    <3>3. QED  BY <1>3, <2>2, <3>2
  <2>3. CASE k # m /\ k # 0
    <3>1. k \in 0..(m - 1) /\ k - 1 \in 0..m /\ k - 1 # m
      BY <1>4, <2>3
    <3>2. g[k] = f[k] /\ g[k - 1] = f[k - 1]
      BY <2>3, <3>1
    <3>3. QED  BY <1>5, <2>3, <3>1, <3>2 DEF Recurs
  <2>4. CASE k # m /\ k = 0
    <3>1. 0 \in 0..(m - 1) /\ g[k] = f[0]
      BY <1>4, <2>4
    <3>2. QED  BY <1>5, <2>4, <3>1 DEF Recurs
  <2>5. QED  BY <2>2, <2>3, <2>4
<1>9. Recurs(g, m, first, step)
  BY <1>8 DEF Recurs
<1>10. QED  BY <1>2, <1>7, <1>9

\* What holds first, and after each step if it held before, holds throughout.
LEMMA UpTo ==
  ASSUME NEW n \in Nat, NEW P, 0 \in P, \A k \in Nat : k < n /\ k \in P => k + 1 \in P
  PROVE  \A k \in 0..n : k \in P
<1> DEFINE missed == {k \in Nat : k <= n /\ k \notin P}
<1>1. SUFFICES ASSUME missed # {} PROVE FALSE
  OBVIOUS
<1>2. PICK k \in missed : \A i \in missed : k <= i
  <2>1. missed \in SUBSET Nat  OBVIOUS
  <2> HIDE DEF missed
  <2>2. QED  BY <1>1, <2>1, LeastNumber
<1>3. k \in Nat /\ k <= n /\ k \notin P /\ k # 0
  BY <1>2
<1>4. k - 1 \in Nat /\ k - 1 < n /\ ~(k <= k - 1) /\ (k - 1) + 1 = k
  BY <1>3
<1>5. k - 1 \notin missed
  <2> HIDE DEF missed
  <2>1. QED  BY <1>2, <1>4
<1>6. k - 1 \in P
  BY <1>4, <1>5
<1>7. QED  BY <1>3, <1>4, <1>6

Iterates(f, n, first, next) ==
  \A k \in 0..n : f[k] = IF k = 0 THEN first ELSE next[f[k - 1]]

\* A function that is defined from its value at the number before exists.
LEMMA IterationExists ==
  ASSUME NEW S, NEW first \in S, NEW n \in Nat, NEW next \in [S -> S]
  PROVE  \E f \in [0..n -> S] : Iterates(f, n, first, next)
<1> DEFINE step == [x \in (1..n) \X S |-> next[x[2]]]
<1>1. step \in [(1..n) \X S -> S]
  OBVIOUS
<1> HIDE DEF step
<1>2. PICK f \in [0..n -> S] : Recurs(f, n, first, step)
  BY <1>1, RecursionExists
<1>3. ASSUME NEW k \in 0..n, k # 0 PROVE f[k] = next[f[k - 1]]
  <2>1. k \in 1..n /\ k - 1 \in 0..n
    BY <1>3
  <2>2. f[k] = step[<<k, f[k - 1]>>] /\ f[k - 1] \in S
    BY <1>2, <1>3, <2>1 DEF Recurs
  <2>3. QED  BY <2>1, <2>2 DEF step
<1>4. f[0] = first
  <2>1. 0 \in 0..n
    OBVIOUS
  <2>2. QED  BY <1>2, <2>1 DEF Recurs
<1>5. QED  BY <1>3, <1>4 DEF Iterates

\* The members of a finite set, counted off along a strict order of them all.
Rank(D, R, x) == Cardinality({y \in D : <<y, x>> \in R})

Orders(R, D) ==
  /\ \A x \in D : <<x, x>> \notin R
  /\ \A x, y \in D : x # y => <<x, y>> \in R \/ <<y, x>> \in R
  /\ \A x, y, z \in D : <<x, y>> \in R /\ <<y, z>> \in R => <<x, z>> \in R

\* Of what is finite and ordered, everything has its rank, and every rank is
\* somebody's.
LEMMA Ranking ==
  ASSUME NEW D, IsFiniteSet(D), NEW R, Orders(R, D)
  PROVE  /\ Cardinality(D) \in Nat
         /\ \A x \in D : Rank(D, R, x) \in 0..(Cardinality(D) - 1)
         /\ \A x, y \in D : <<x, y>> \in R <=> Rank(D, R, x) < Rank(D, R, y)
         /\ \A x, y \in D : Rank(D, R, x) = Rank(D, R, y) => x = y
         /\ \A k \in 0..(Cardinality(D) - 1) : \E x \in D : Rank(D, R, x) = k
<1> DEFINE Below(x) == {y \in D : <<y, x>> \in R}
           N == Cardinality(D)
<1>1. N \in Nat
  BY FS_CardinalityType
<1>2. \A x \in D : IsFiniteSet(Below(x)) /\ Cardinality(Below(x)) \in Nat
                   /\ Cardinality(Below(x)) = Rank(D, R, x)
  BY FS_Subset, FS_CardinalityType DEF Rank
<1>3. ASSUME NEW x \in D, NEW y \in D, <<x, y>> \in R
      PROVE  Rank(D, R, x) < Rank(D, R, y)
  <2>1. Below(x) \subseteq Below(y) /\ x \in Below(y) /\ x \notin Below(x)
    BY <1>3 DEF Orders
  <2>2. Cardinality(Below(x)) <= Cardinality(Below(y))
    BY <1>2, <2>1, FS_Subset
  <2>3. Cardinality(Below(x)) # Cardinality(Below(y))
    BY <1>2, <2>1, FS_Subset
  <2> HIDE DEF Below
  <2>4. QED  BY <1>2, <2>2, <2>3
<1>4. ASSUME NEW x \in D PROVE Rank(D, R, x) \in 0..(N - 1)
  <2>1. Below(x) \subseteq D /\ x \notin Below(x)
    BY DEF Orders
  <2>2. Cardinality(Below(x)) <= N /\ Cardinality(Below(x)) # N
    BY <2>1, FS_Subset
  <2> HIDE DEF Below
  <2>3. QED  BY <1>1, <1>2, <2>2
<1>5. \A x, y \in D : x # y => Rank(D, R, x) # Rank(D, R, y)
  <2>1. TAKE x, y \in D
  <2>2. HAVE x # y
  <2>3. Rank(D, R, x) < Rank(D, R, y) \/ Rank(D, R, y) < Rank(D, R, x)
    BY <1>3, <2>2 DEF Orders
  <2>4. QED  BY <1>1, <1>4, <2>3
<1>6. ASSUME NEW x \in D, NEW y \in D, Rank(D, R, x) < Rank(D, R, y) PROVE <<x, y>> \in R
  <2>1. Rank(D, R, x) \in Nat /\ Rank(D, R, y) \in Nat
    BY <1>2
  <2>2. x # y
    BY <1>6, <2>1
  <2>3. <<y, x>> \notin R
    BY <1>3, <1>6, <2>1
  <2>4. QED  BY <2>2, <2>3 DEF Orders
<1>7. \A k \in 0..(N - 1) : \E x \in D : Rank(D, R, x) = k
  <2> DEFINE at == [x \in D |-> Rank(D, R, x)]
  <2>1. at \in Injection(D, 0..(N - 1))
    BY <1>4, <1>5 DEF Injection, IsInjective
  <2>2. IsFiniteSet(0..(N - 1)) /\ Cardinality(0..(N - 1)) = N
    <3>1. 0 \in Int /\ N - 1 \in Int
      BY <1>1
    <3>2. QED  BY <1>1, <3>1, FS_Interval
  <2>3. at \in Surjection(D, 0..(N - 1))
    BY <2>1, <2>2, FS_Injection
  <2>4. QED  BY <2>3 DEF Surjection
<1>8. QED  BY <1>1, <1>3, <1>4, <1>5, <1>6, <1>7

\* Candidates are finitely many pairs of places, each with its confidence.

-----------------------------------------------------------------------------
(* Two answers                                                             *)

Scores(conf) ==
  /\ IsFiniteSet(DOMAIN conf)
  /\ DOMAIN conf \subseteq Nat \X Nat
  /\ \A c \in DOMAIN conf : conf[c] \in Int

Place(conf, c) == Cardinality({d \in DOMAIN conf : Sooner(conf, d, c)}) + 1

\* The order in which matchSteps() goes through its candidates is one.
LEMMA SoonerIsAnOrder ==
  ASSUME NEW conf, Scores(conf), NEW c \in DOMAIN conf, NEW d \in DOMAIN conf
  PROVE  /\ ~Sooner(conf, c, c)
         /\ c # d => Sooner(conf, c, d) \/ Sooner(conf, d, c)
         /\ Sooner(conf, c, d) => ~Sooner(conf, d, c)
         /\ \A e \in DOMAIN conf :
              Sooner(conf, c, d) /\ Sooner(conf, d, e) => Sooner(conf, c, e)
<1>1. \A e \in DOMAIN conf : /\ e = <<e[1], e[2]>> /\ e[1] \in Nat /\ e[2] \in Nat
                             /\ conf[e] \in Int
  BY DEF Scores
<1>2. c # d => c[1] # d[1] \/ c[2] # d[2]
  BY <1>1, Zenon
<1>3. QED  BY <1>1, <1>2 DEF Sooner

\* The place of a candidate is the number of those before it, and one: every
\* place is taken by one of them.
LEMMA PlacesOrder ==
  ASSUME NEW conf, Scores(conf)
  PROVE  /\ Cardinality(DOMAIN conf) \in Nat
         /\ \A c \in DOMAIN conf : Place(conf, c) \in 1..Cardinality(DOMAIN conf)
         /\ \A c, d \in DOMAIN conf : Sooner(conf, c, d) <=> Place(conf, c) < Place(conf, d)
         /\ \A c, d \in DOMAIN conf : Place(conf, c) = Place(conf, d) => c = d
         /\ \A k \in 1..Cardinality(DOMAIN conf) : \E c \in DOMAIN conf : Place(conf, c) = k
<1> DEFINE D == DOMAIN conf
           R == {p \in D \X D : Sooner(conf, p[1], p[2])}
<1>1. \A c, d \in D : <<c, d>> \in R <=> Sooner(conf, c, d)
  OBVIOUS
<1>2. Orders(R, D)
  <2> HIDE DEF R
  <2>1. QED  BY <1>1, SoonerIsAnOrder DEF Orders
<1>3. \A c \in D : Place(conf, c) = Rank(D, R, c) + 1
  <2>1. TAKE c \in D
  <2>2. {d \in D : <<d, c>> \in R} = {d \in D : Sooner(conf, d, c)}
    BY <1>1
  <2>3. QED  BY <2>2 DEF Place, Rank
<1>4. IsFiniteSet(D)
  BY DEF Scores
<1> HIDE DEF D, R
<1>5. /\ Cardinality(D) \in Nat
      /\ \A x \in D : Rank(D, R, x) \in 0..(Cardinality(D) - 1)
      /\ \A x, y \in D : <<x, y>> \in R <=> Rank(D, R, x) < Rank(D, R, y)
      /\ \A x, y \in D : Rank(D, R, x) = Rank(D, R, y) => x = y
      /\ \A k \in 0..(Cardinality(D) - 1) : \E x \in D : Rank(D, R, x) = k
  BY <1>2, <1>4, Ranking
<1>6. \A c \in D : Place(conf, c) \in 1..Cardinality(D)
  BY <1>3, <1>5
<1>7. \A c, d \in D : Sooner(conf, c, d) <=> Place(conf, c) < Place(conf, d)
  <2>1. TAKE c, d \in D
  <2>2. Rank(D, R, c) \in Nat /\ Rank(D, R, d) \in Nat
    BY <1>5
  <2>3. Sooner(conf, c, d) <=> Rank(D, R, c) < Rank(D, R, d)
    BY <1>1, <1>5
  <2>4. QED  BY <1>3, <2>2, <2>3
<1>8. \A c, d \in D : Place(conf, c) = Place(conf, d) => c = d
  BY <1>3, <1>5
<1>9. \A k \in 1..Cardinality(D) : \E c \in D : Place(conf, c) = k
  <2>1. TAKE k \in 1..Cardinality(D)
  <2>2. k - 1 \in 0..(Cardinality(D) - 1)
    BY <1>5
  <2>3. PICK c \in D : Rank(D, R, c) = k - 1
    BY <1>5, <2>2
  <2>4. QED  BY <1>3, <1>5, <2>1, <2>3
<1>10. QED  BY <1>5, <1>6, <1>7, <1>8, <1>9 DEF D

\* Every candidate stands at its place.
LEMMA InOrderIsTheOrder ==
  ASSUME NEW conf, Scores(conf)
  PROVE  /\ Cardinality(DOMAIN conf) \in Nat
         /\ Len(InOrder(conf)) = Cardinality(DOMAIN conf)
         /\ \A k \in 1..Cardinality(DOMAIN conf) :
              InOrder(conf)[k] \in DOMAIN conf /\ Place(conf, InOrder(conf)[k]) = k
         /\ \A c \in DOMAIN conf : InOrder(conf)[Place(conf, c)] = c
<1> DEFINE D == DOMAIN conf
           N == Cardinality(D)
<1>1. N \in Nat
  BY PlacesOrder
<1>2. \A k \in 1..N : InOrder(conf)[k] = CHOOSE c \in D : Place(conf, c) = k
  BY DEF InOrder, Place
<1>3. \A k \in 1..N : InOrder(conf)[k] \in D /\ Place(conf, InOrder(conf)[k]) = k
  BY <1>2, PlacesOrder
<1>4. Len(InOrder(conf)) = N
  <2>1. DOMAIN InOrder(conf) = 1..N /\ InOrder(conf) = [k \in 1..N |-> InOrder(conf)[k]]
    BY DEF InOrder
  <2>2. InOrder(conf) \in [1..N -> D]
    BY <1>3, <2>1
  <2>3. QED  BY <1>1, <2>2
<1>5. \A c \in D : InOrder(conf)[Place(conf, c)] = c
  BY <1>3, PlacesOrder
<1>6. QED  BY <1>1, <1>3, <1>4, <1>5

\* The matches as what the greedy pass must come to: a candidate is kept unless
\* it is ambiguous or a rival that comes sooner is kept.
Kernel(conf, M) ==
  /\ M \subseteq DOMAIN conf
  /\ \A c \in DOMAIN conf :
       c \in M <=> ~ambiguous(conf, c) /\ ~\E m \in M : m \in Rivals(conf, c) /\ Sooner(conf, m, c)

\* What the pass has kept after k candidates.
Gathers(kept, conf) ==
  kept = [k \in 0..Len(InOrder(conf)) |->
            IF k = 0 THEN {} ELSE Keep(conf, kept[k - 1], InOrder(conf)[k])]

\* There is a pass through the candidates to speak of.
LEMMA PassExists ==
  ASSUME NEW conf, Scores(conf)
  PROVE  \E kept : Gathers(kept, conf)
<1> DEFINE n == Len(InOrder(conf))
           S == SUBSET DOMAIN conf
           step == [x \in (1..n) \X S |-> Keep(conf, x[2], InOrder(conf)[x[1]])]
<1>1. n \in Nat /\ \A k \in 1..n : InOrder(conf)[k] \in DOMAIN conf
  BY InOrderIsTheOrder
<1>2. step \in [(1..n) \X S -> S]
  BY <1>1 DEF Keep
<1>3. {} \in S
  OBVIOUS
<1>4. PICK f \in [0..n -> S] : Recurs(f, n, {}, step)
  <2> HIDE DEF step, n, S
  <2>1. QED  BY <1>1, <1>2, <1>3, RecursionExists
<1>5. \A k \in 0..n : f[k] = IF k = 0 THEN {} ELSE Keep(conf, f[k - 1], InOrder(conf)[k])
  <2>1. TAKE k \in 0..n
  <2>2. CASE k = 0  BY <1>4, <2>2 DEF Recurs
  <2>3. CASE k # 0
    <3>1. k \in 1..n /\ k - 1 \in 0..n
      BY <1>1, <2>3
    <3>2. f[k - 1] \in S
      BY <3>1
    <3>3. step[<<k, f[k - 1]>>] = Keep(conf, f[k - 1], InOrder(conf)[k])
      BY <3>1, <3>2
    <3>4. QED  BY <1>4, <2>3, <3>3 DEF Recurs
  <2>4. QED  BY <2>2, <2>3
<1>6. f = [k \in 0..n |-> f[k]]
  OBVIOUS
<1>7. QED
  <2> HIDE DEF step, S
  <2>1. f = [k \in 0..n |-> IF k = 0 THEN {} ELSE Keep(conf, f[k - 1], InOrder(conf)[k])]
    BY <1>5, <1>6
  <2>2. QED  BY <2>1 DEF Gathers

\* What a pass keeps is the unambiguous candidates that no rival kept before them
\* rules out.
LEMMA PassGathers ==
  ASSUME NEW conf, Scores(conf), NEW kept, Gathers(kept, conf)
  PROVE  Kernel(conf, kept[Len(InOrder(conf))])
<1> DEFINE n == Len(InOrder(conf))
           order == InOrder(conf)
           Sound(k) ==
             /\ \A m \in kept[k] : m \in DOMAIN conf /\ Place(conf, m) <= k
             /\ \A c \in DOMAIN conf : Place(conf, c) <= k =>
                  (c \in kept[k] <=>
                     ~ambiguous(conf, c) /\ ~\E m \in kept[k] : m \in Rivals(conf, c) /\ Sooner(conf, m, c))
           wrong == {k \in Nat : k \in 0..n /\ ~Sound(k)}
<1>1. n \in Nat /\ n = Cardinality(DOMAIN conf)
  BY InOrderIsTheOrder
<1>2. \A c \in DOMAIN conf : Place(conf, c) \in 1..n
  BY <1>1, PlacesOrder
<1>3. wrong = {}
  <2>1. SUFFICES ASSUME wrong # {} PROVE FALSE
    OBVIOUS
  <2>2. PICK k \in wrong : \A i \in wrong : k <= i
    <3>1. wrong \in SUBSET Nat  OBVIOUS
    <3> HIDE DEF wrong
    <3>2. QED  BY <2>1, <3>1, LeastNumber
  <2>3. k # 0
    <3>1. SUFFICES ASSUME k = 0 PROVE FALSE
      OBVIOUS
    <3>2. kept[0] = {}
      BY <1>1 DEF Gathers
    <3>3. Sound(0)
      BY <1>2, <3>2
    <3>4. QED  BY <2>2, <3>1, <3>3
  <2>4. k \in 1..n /\ k - 1 \in 0..n /\ k - 1 \in Nat /\ k - 1 \notin wrong
    BY <1>1, <2>2, <2>3
  <2>5. Sound(k - 1)
    BY <2>4
  <2> DEFINE a == order[k]
  <2>6. a \in DOMAIN conf /\ Place(conf, a) = k
    BY <1>1, <2>4, InOrderIsTheOrder
  <2>7. \A c \in DOMAIN conf : Place(conf, c) = k => c = a
    BY <1>1, <2>4, InOrderIsTheOrder
  <2>8. kept[k] = Keep(conf, kept[k - 1], a)
    BY <1>1, <2>3, <2>4 DEF Gathers
  <2>9. ambiguous(conf, a) \in BOOLEAN
    BY DEF ambiguous
  <2>10. \A m \in kept[k - 1] : m \in DOMAIN conf /\ m # a /\ Sooner(conf, m, a)
    BY <1>2, <2>4, <2>5, <2>6, PlacesOrder
  <2>11. \A c \in DOMAIN conf : Place(conf, c) <= k - 1 => c # a /\ ~Sooner(conf, a, c)
    BY <1>2, <2>4, <2>6, PlacesOrder
  <2>12. a \in kept[k] <=>
           ~ambiguous(conf, a) /\ ~\E m \in kept[k - 1] : m \in Rivals(conf, a)
    BY <2>8, <2>10 DEF Keep, Rivals
  <2>13. kept[k - 1] \subseteq kept[k] /\ kept[k] \subseteq kept[k - 1] \cup {a}
    BY <2>8 DEF Keep
  <2>14. ~Sooner(conf, a, a)
    BY <2>6, SoonerIsAnOrder
  <2>15. ASSUME NEW m \in kept[k] PROVE m \in DOMAIN conf /\ Place(conf, m) <= k
    BY <2>4, <2>5, <2>6, <2>13, <1>2
  <2>16. ASSUME NEW c \in DOMAIN conf, Place(conf, c) <= k
         PROVE  c \in kept[k] <=>
                  ~ambiguous(conf, c) /\ ~\E m \in kept[k] : m \in Rivals(conf, c) /\ Sooner(conf, m, c)
    <3>1. CASE c = a
      BY <2>10, <2>12, <2>13, <2>14, <3>1
    <3>2. CASE c # a
      <4>1. Place(conf, c) <= k - 1
        BY <1>2, <2>4, <2>7, <2>16, <3>2
      <4>2. c \in kept[k] <=> c \in kept[k - 1]
        BY <2>13, <3>2
      <4>3. \A m : m \in kept[k] /\ Sooner(conf, m, c) <=> m \in kept[k - 1] /\ Sooner(conf, m, c)
        BY <2>11, <2>13, <4>1
      <4>4. c \in kept[k - 1] <=>
              ~ambiguous(conf, c) /\ ~\E m \in kept[k - 1] : m \in Rivals(conf, c) /\ Sooner(conf, m, c)
        BY <2>5, <4>1
      <4>5. QED  BY <4>2, <4>3, <4>4
    <3>3. QED  BY <3>1, <3>2
  <2>17. Sound(k)
    BY <2>15, <2>16
  <2>18. QED  BY <2>2, <2>17
<1>4. Sound(n)
  BY <1>1, <1>3
<1>5. \A c \in DOMAIN conf : Place(conf, c) <= n
  BY <1>1, <1>2
<1>6. QED  BY <1>4, <1>5 DEF Kernel

\* There is one such set: two of them would differ in a candidate that comes
\* first.
LEMMA OneKernel ==
  ASSUME NEW conf, Scores(conf), NEW M, NEW L, Kernel(conf, M), Kernel(conf, L)
  PROVE  M = L
<1> DEFINE differ == {k \in Nat : \E c \in DOMAIN conf : Place(conf, c) = k /\ ~(c \in M <=> c \in L)}
<1>1. SUFFICES ASSUME M # L PROVE FALSE
  OBVIOUS
<1>2. differ # {}
  <2>1. PICK c \in DOMAIN conf : ~(c \in M <=> c \in L)
    BY <1>1 DEF Kernel
  <2>2. Place(conf, c) \in Nat
    BY PlacesOrder
  <2>3. QED  BY <2>1, <2>2
<1>3. PICK k \in differ : \A i \in differ : k <= i
  <2>1. differ \in SUBSET Nat  OBVIOUS
  <2> HIDE DEF differ
  <2>2. QED  BY <1>2, <2>1, LeastNumber
<1>4. PICK c \in DOMAIN conf : Place(conf, c) = k /\ ~(c \in M <=> c \in L)
  BY <1>3
<1>5. \A d \in DOMAIN conf : Sooner(conf, d, c) => (d \in M <=> d \in L)
  <2>1. TAKE d \in DOMAIN conf
  <2>2. HAVE Sooner(conf, d, c)
  <2>3. Place(conf, d) < Place(conf, c) /\ Place(conf, d) \in Nat /\ Place(conf, c) \in Nat
    BY <2>2, PlacesOrder
  <2>4. QED  BY <1>3, <1>4, <2>3
<1>6. QED  BY <1>4, <1>5 DEF Kernel

\* The pass comes to the kernel.
LEMMA MatchesAreTheKernel ==
  ASSUME NEW from, NEW to, Scores(candidates(from, to))
  PROVE  Kernel(candidates(from, to), matchSteps(from, to))
<1> DEFINE conf == candidates(from, to)
           kept == CHOOSE h : Gathers(h, conf)
<1>1. Gathers(kept, conf)
  BY PassExists
<1>2. Kernel(conf, kept[Len(InOrder(conf))])
  BY <1>1, PassGathers
<1>3. matchSteps(from, to) = kept[Len(InOrder(conf))]
  BY DEF matchSteps, Gathers
<1>4. QED  BY <1>2, <1>3

\* No step is in two pairs of a kernel: of two rivals one comes sooner.
LEMMA KernelPairsOnce ==
  ASSUME NEW conf, Scores(conf), NEW M, Kernel(conf, M), NEW c \in M, NEW d \in M,
         c[1] = d[1] \/ c[2] = d[2]
  PROVE  c = d
<1>1. c \in DOMAIN conf /\ d \in DOMAIN conf
  BY DEF Kernel
<1>2. SUFFICES ASSUME c # d PROVE FALSE
  OBVIOUS
<1>3. Sooner(conf, c, d) \/ Sooner(conf, d, c)
  BY <1>1, <1>2, SoonerIsAnOrder
<1>4. c \in Rivals(conf, d) /\ d \in Rivals(conf, c)
  BY <1>1, <1>2 DEF Rivals
<1>5. QED  BY <1>1, <1>3, <1>4 DEF Kernel

-----------------------------------------------------------------------------

\* The steps of an answer are counted from one.
LEMMA StepsAreNumbered ==
  ASSUME NEW a \in Comparable
  PROVE  Len(a.steps) \in Nat /\ DOMAIN a.steps = 1..Len(a.steps)
BY AnswerDiffAssumption

\* A quotient from what the divided number lies between.
LEMMA Quotients ==
  ASSUME NEW d \in Nat \ {0}, NEW x \in Int
  PROVE  /\ x \div d \in Int
         /\ \A k \in Int : x < (k + 1) * d => x \div d <= k
         /\ \A k \in Int : k * d <= x /\ x < (k + 1) * d => x \div d = k
OBVIOUS

\* The longer of the two answers has as many steps as either, and one at least.
LEMMA Longest ==
  ASSUME NEW m \in Nat, NEW n \in Nat
  PROVE  /\ Max({m, n, 1}) \in Nat \ {0}
         /\ Max({m, n, 1}) >= m /\ Max({m, n, 1}) >= n
         /\ Max({m, n, 1}) = Max({n, m, 1})
<1>1. \E x \in {m, n, 1} : \A y \in {m, n, 1} : x >= y
  OBVIOUS
<1>2. Max({m, n, 1}) \in {m, n, 1} /\ \A y \in {m, n, 1} : Max({m, n, 1}) >= y
  BY <1>1 DEF Max
<1>3. {m, n, 1} = {n, m, 1}
  OBVIOUS
<1>4. QED  BY <1>2, <1>3

\* Two steps are as like one another from either side.
LEMMA ConfidenceIsMutual ==
  ASSUME NEW a \in Comparable, NEW b \in Comparable,
         NEW i \in DOMAIN a.steps, NEW j \in DOMAIN b.steps
  PROVE  confidence(a, b, i, j) = confidence(b, a, j, i)
<1>1. Alike(a.steps[i].label, b.steps[j].label) = Alike(b.steps[j].label, a.steps[i].label)
  BY AnswerDiffAssumption
<1>2. Max({Len(a.steps), Len(b.steps), 1}) = Max({Len(b.steps), Len(a.steps), 1})
  BY StepsAreNumbered, Longest
<1>3. i \in Int /\ j \in Int
  BY StepsAreNumbered
<1>4. (IF i < j THEN j - i ELSE i - j) = (IF j < i THEN i - j ELSE j - i)
  BY <1>3
<1>5. QED  BY <1>1, <1>2, <1>4 DEF confidence

\* A confidence is a number, a hundred at most, and a hundred of a step and itself.
LEMMA ConfidenceBounds ==
  ASSUME NEW a \in Comparable, NEW b \in Comparable,
         NEW i \in DOMAIN a.steps, NEW j \in DOMAIN b.steps
  PROVE  /\ confidence(a, b, i, j) \in Int
         /\ confidence(a, b, i, j) <= 100
         /\ a = b /\ i = j => confidence(a, b, i, j) = 100
<1> DEFINE s == a.steps[i]
           t == b.steps[j]
           Worth(agree, weight) == IF agree THEN weight ELSE 0
           total == Max({Len(a.steps), Len(b.steps), 1})
           apart == IF i < j THEN j - i ELSE i - j
           facts == Worth(s.id = t.id, 2400)
                  + Worth(laneIdentity(s.from) = laneIdentity(t.from), 1200)
                  + Worth(laneIdentity(s.to) = laneIdentity(t.to), 1200)
                  + Worth(s.phase = t.phase, 1200)
                  + Worth(s.kind = t.kind, 600)
                  + 24 * Alike(s.label, t.label)
           sum == facts * total + 1000 * (total - apart) + 50 * total
<1>1. confidence(a, b, i, j) = sum \div (100 * total)
  BY DEF confidence
<1>2. total \in Nat \ {0} /\ total >= Len(a.steps) /\ total >= Len(b.steps)
  BY StepsAreNumbered, Longest
<1>3. apart \in Nat
  BY StepsAreNumbered
<1>4. Alike(s.label, t.label) \in 0..100
  BY AnswerDiffAssumption
<1>5. facts \in Nat /\ facts <= 9000
  BY <1>4
<1>6. a = b /\ i = j => facts = 9000 /\ apart = 0
  <2>1. SUFFICES ASSUME a = b, i = j PROVE facts = 9000 /\ apart = 0
    OBVIOUS
  <2>2. Alike(s.label, t.label) = 100
    BY <2>1, AnswerDiffAssumption
  <2>3. apart = 0
    BY <2>1, StepsAreNumbered
  <2>4. QED  BY <2>1, <2>2, <2>3
<1> HIDE DEF facts, total, apart, s, t, Worth
<1>7. 100 * total \in Nat \ {0} /\ sum \in Int
  BY <1>2, <1>3, <1>5
<1>8. facts * total <= 9000 * total
  BY <1>2, <1>5
<1>9. sum < (100 + 1) * (100 * total)
  BY <1>2, <1>3, <1>5, <1>8
<1>10. a = b /\ i = j => 100 * (100 * total) <= sum
  BY <1>2, <1>6
<1> HIDE DEF sum
<1>11. QED  BY <1>1, <1>7, <1>9, <1>10, Quotients

\* The candidates are the pairs of steps that score the threshold.
LEMMA CandidatesScore ==
  ASSUME NEW a \in Comparable, NEW b \in Comparable
  PROVE  /\ Scores(candidates(a, b))
         /\ \A c \in DOMAIN candidates(a, b) :
              /\ c[1] \in DOMAIN a.steps /\ c[2] \in DOMAIN b.steps /\ c = <<c[1], c[2]>>
              /\ candidates(a, b)[c] = confidence(a, b, c[1], c[2])
              /\ confidence(a, b, c[1], c[2]) >= Threshold
         /\ \A i \in DOMAIN a.steps, j \in DOMAIN b.steps :
              confidence(a, b, i, j) >= Threshold => <<i, j>> \in DOMAIN candidates(a, b)
<1> DEFINE all == (DOMAIN a.steps) \X (DOMAIN b.steps)
           D == {c \in all : confidence(a, b, c[1], c[2]) >= Threshold}
<1>1. candidates(a, b) = [c \in D |-> confidence(a, b, c[1], c[2])]
  BY DEF candidates
<1>2. IsFiniteSet(DOMAIN a.steps) /\ IsFiniteSet(DOMAIN b.steps)
  <2>1. \A n \in Nat : IsFiniteSet(1..n)
    BY FS_Interval
  <2>2. QED  BY <2>1, StepsAreNumbered
<1>3. IsFiniteSet(D)
  <2>1. IsFiniteSet(all)
    BY <1>2, FS_Product
  <2>2. QED  BY <2>1, FS_Subset
<1>4. D \subseteq Nat \X Nat
  BY StepsAreNumbered
<1>5. \A c \in D : confidence(a, b, c[1], c[2]) \in Int
  BY ConfidenceBounds
<1>6. Scores(candidates(a, b))
  BY <1>1, <1>3, <1>4, <1>5 DEF Scores
<1>7. QED  BY <1>1, <1>6

Turned(c) == <<c[2], c[1]>>

\* The candidates, asked for the other way round.
Mirrors(conf, other) ==
  /\ DOMAIN other = {Turned(c) : c \in DOMAIN conf}
  /\ \A c \in DOMAIN conf : other[Turned(c)] = conf[c]

\* The candidates of the comparison the other way round are the same pairs, turned.
LEMMA CandidatesMirror ==
  ASSUME NEW a \in Comparable, NEW b \in Comparable
  PROVE  Mirrors(candidates(a, b), candidates(b, a))
<1> DEFINE conf == candidates(a, b)
           back == candidates(b, a)
<1>1. \A c \in DOMAIN conf : Turned(c) \in DOMAIN back /\ back[Turned(c)] = conf[c]
  <2>1. TAKE c \in DOMAIN conf
  <2>2. c[1] \in DOMAIN a.steps /\ c[2] \in DOMAIN b.steps
    BY CandidatesScore
  <2>3. Turned(c)[1] = c[2] /\ Turned(c)[2] = c[1]
    BY DEF Turned
  <2>4. confidence(b, a, c[2], c[1]) = confidence(a, b, c[1], c[2])
    BY <2>2, ConfidenceIsMutual
  <2>5. confidence(a, b, c[1], c[2]) >= Threshold /\ conf[c] = confidence(a, b, c[1], c[2])
    BY CandidatesScore
  <2>6. Turned(c) \in DOMAIN back
    BY <2>2, <2>4, <2>5, CandidatesScore DEF Turned
  <2>7. back[Turned(c)] = confidence(b, a, c[2], c[1])
    BY <2>3, <2>6, CandidatesScore
  <2>8. QED  BY <2>4, <2>5, <2>6, <2>7
<1>2. \A d \in DOMAIN back : \E c \in DOMAIN conf : d = Turned(c)
  <2>1. TAKE d \in DOMAIN back
  <2>2. d[1] \in DOMAIN b.steps /\ d[2] \in DOMAIN a.steps /\ d = <<d[1], d[2]>>
    BY CandidatesScore
  <2>3. d = Turned(Turned(d))
    BY <2>2 DEF Turned
  <2>4. confidence(b, a, d[1], d[2]) = confidence(a, b, d[2], d[1])
    BY <2>2, ConfidenceIsMutual
  <2>5. Turned(d) \in DOMAIN conf
    <3>1. confidence(b, a, d[1], d[2]) >= Threshold
      BY CandidatesScore
    <3>2. QED  BY <2>2, <2>4, <3>1, CandidatesScore DEF Turned
  <2>6. QED  BY <2>3, <2>5
<1>3. QED  BY <1>1, <1>2 DEF Mirrors

\* Nothing of the kernel depends on which answer is the first.
LEMMA KernelsMirror ==
  ASSUME NEW conf, Scores(conf), NEW other, Scores(other), Mirrors(conf, other),
         NEW M, Kernel(conf, M)
  PROVE  Kernel(other, {Turned(c) : c \in M})
<1> DEFINE L == {Turned(c) : c \in M}
<1>1. \A c \in DOMAIN conf : /\ c = <<c[1], c[2]>> /\ c[1] \in Nat /\ c[2] \in Nat
                             /\ conf[c] \in Int
                             /\ Turned(c) \in DOMAIN other /\ other[Turned(c)] = conf[c]
                             /\ Turned(c)[1] = c[2] /\ Turned(c)[2] = c[1]
  <2>1. TAKE c \in DOMAIN conf
  <2>2. c \in Nat \X Nat /\ conf[c] \in Int
    BY DEF Scores
  <2>3. Turned(c) \in DOMAIN other /\ other[Turned(c)] = conf[c]
    BY DEF Mirrors
  <2>4. Turned(c)[1] = c[2] /\ Turned(c)[2] = c[1]
    BY DEF Turned
  <2>5. QED  BY <2>2, <2>3, <2>4
<1>2. \A c, d \in DOMAIN conf : Turned(c) = Turned(d) => c = d
  <2>1. TAKE c, d \in DOMAIN conf
  <2>2. HAVE Turned(c) = Turned(d)
  <2>3. c[1] = d[1] /\ c[2] = d[2]
    BY <1>1, <2>2
  <2>4. QED  BY <1>1, <2>3, Zenon
<1>3. \A c, d \in DOMAIN conf : Turned(d) \in Rivals(other, Turned(c)) <=> d \in Rivals(conf, c)
  BY <1>1, <1>2 DEF Rivals
<1>4. \A c \in DOMAIN conf : ambiguous(other, Turned(c)) <=> ambiguous(conf, c)
  <2>1. TAKE c \in DOMAIN conf
  <2>2. \A e \in DOMAIN other : \E d \in DOMAIN conf : e = Turned(d)
    BY DEF Mirrors
  <2>3. \A e \in Rivals(other, Turned(c)) : \E d \in Rivals(conf, c) : e = Turned(d)
    BY <1>3, <2>2 DEF Rivals
  <2>4. \A d \in Rivals(conf, c) : d \in DOMAIN conf /\ Turned(d) \in Rivals(other, Turned(c))
    BY <1>3 DEF Rivals
  <2>5. QED  BY <1>1, <2>3, <2>4 DEF ambiguous
<1>5. \A c, d \in DOMAIN conf : d \in Rivals(conf, c) =>
        (Sooner(other, Turned(d), Turned(c)) <=> Sooner(conf, d, c))
  BY <1>1 DEF Rivals, Sooner
<1>6. M \subseteq DOMAIN conf
  BY DEF Kernel
<1>7. L \subseteq DOMAIN other
  BY <1>1, <1>6
<1>8. \A c \in DOMAIN conf : Turned(c) \in L <=> c \in M
  BY <1>2, <1>6
<1>9. ASSUME NEW c \in DOMAIN conf
      PROVE  (\E m \in L : m \in Rivals(other, Turned(c)) /\ Sooner(other, m, Turned(c)))
               <=> (\E m \in M : m \in Rivals(conf, c) /\ Sooner(conf, m, c))
  BY <1>3, <1>5, <1>6
<1>10. \A e \in DOMAIN other :
         e \in L <=> ~ambiguous(other, e) /\ ~\E m \in L : m \in Rivals(other, e) /\ Sooner(other, m, e)
  <2>1. TAKE e \in DOMAIN other
  <2>2. PICK c \in DOMAIN conf : e = Turned(c)
    BY DEF Mirrors
  <2>3. e \in L <=> c \in M
    BY <1>8, <2>2
  <2>4. c \in M <=> ~ambiguous(conf, c) /\ ~\E m \in M : m \in Rivals(conf, c) /\ Sooner(conf, m, c)
    BY DEF Kernel
  <2>5. ambiguous(other, e) <=> ambiguous(conf, c)
    BY <1>4, <2>2
  <2> HIDE DEF L
  <2>6. QED  BY <1>9, <2>2, <2>3, <2>4, <2>5
<1>11. QED  BY <1>7, <1>10 DEF Kernel

\* And so are the matches.
LEMMA MatchesMirror ==
  ASSUME NEW a \in Comparable, NEW b \in Comparable
  PROVE  matchSteps(b, a) = {Turned(c) : c \in matchSteps(a, b)}
<1>1. Scores(candidates(a, b)) /\ Scores(candidates(b, a))
  BY CandidatesScore
<1>2. Kernel(candidates(a, b), matchSteps(a, b)) /\ Kernel(candidates(b, a), matchSteps(b, a))
  BY <1>1, MatchesAreTheKernel
<1>3. Kernel(candidates(b, a), {Turned(c) : c \in matchSteps(a, b)})
  BY <1>1, <1>2, CandidatesMirror, KernelsMirror
<1>4. QED  BY <1>1, <1>2, <1>3, OneKernel

\* An answer against itself: every step is its own match, for no confidence is
\* above theirs.
LEMMA SelfMatches ==
  ASSUME NEW a \in Comparable
  PROVE  matchSteps(a, a) = {<<i, i>> : i \in DOMAIN a.steps}
<1> DEFINE conf == candidates(a, a)
           M == {<<i, i>> : i \in DOMAIN a.steps}
<1>1. Scores(conf)
  BY CandidatesScore
<1>2. \A i \in DOMAIN a.steps : <<i, i>> \in DOMAIN conf /\ conf[<<i, i>>] = 100
  <2>1. TAKE i \in DOMAIN a.steps
  <2>2. confidence(a, a, i, i) = 100
    BY ConfidenceBounds
  <2>3. <<i, i>> \in DOMAIN conf
    BY <2>2, CandidatesScore DEF Threshold
  <2>4. <<i, i>>[1] = i /\ <<i, i>>[2] = i
    OBVIOUS
  <2>5. conf[<<i, i>>] = confidence(a, a, i, i)
    BY <2>3, <2>4, CandidatesScore
  <2>6. QED  BY <2>2, <2>3, <2>5
<1>3. \A c \in DOMAIN conf : /\ c = <<c[1], c[2]>> /\ c[1] \in Nat /\ c[2] \in Nat
                             /\ c[1] \in DOMAIN a.steps /\ c[2] \in DOMAIN a.steps
                             /\ conf[c] \in Int /\ conf[c] <= 100
  <2>1. TAKE c \in DOMAIN conf
  <2>2. /\ c[1] \in DOMAIN a.steps /\ c[2] \in DOMAIN a.steps /\ c = <<c[1], c[2]>>
        /\ conf[c] = confidence(a, a, c[1], c[2])
    BY CandidatesScore
  <2>3. conf[c] \in Int /\ conf[c] <= 100
    BY <2>2, ConfidenceBounds
  <2>4. c[1] \in Nat /\ c[2] \in Nat
    BY <2>2, StepsAreNumbered
  <2>5. QED  BY <2>2, <2>3, <2>4
<1>4. ASSUME NEW i \in DOMAIN a.steps
      PROVE  ~ambiguous(conf, <<i, i>>) /\ ~\E m \in M : m \in Rivals(conf, <<i, i>>)
  BY <1>2 DEF ambiguous, Clear, Rivals
<1>5. ASSUME NEW c \in DOMAIN conf, c \notin M
      PROVE  \E m \in M : m \in Rivals(conf, c) /\ Sooner(conf, m, c)
  <2>1. c[1] # c[2]
    BY <1>3, <1>5
  <2>2. CASE c[1] < c[2]
    <3>1. <<c[1], c[1]>> \in M /\ <<c[1], c[1]>> \in Rivals(conf, c)
      BY <1>2, <1>3, <2>1 DEF Rivals
    <3>2. Sooner(conf, <<c[1], c[1]>>, c)
      BY <1>2, <1>3, <2>2 DEF Sooner
    <3>3. QED  BY <3>1, <3>2
  <2>3. CASE c[2] < c[1]
    <3>1. <<c[2], c[2]>> \in M /\ <<c[2], c[2]>> \in Rivals(conf, c)
      BY <1>2, <1>3, <2>1 DEF Rivals
    <3>2. Sooner(conf, <<c[2], c[2]>>, c)
      BY <1>2, <1>3, <2>3 DEF Sooner
    <3>3. QED  BY <3>1, <3>2
  <2>4. QED  BY <1>3, <2>1, <2>2, <2>3
<1>6. Kernel(conf, M)
  BY <1>2, <1>4, <1>5 DEF Kernel
<1>7. QED  BY <1>1, <1>6, MatchesAreTheKernel, OneKernel

-----------------------------------------------------------------------------

DiffInv ==
  /\ compared \in Comparable \X Comparable
  /\ diff[1] # NotDiffed =>
       diff = <<diffAnswers(compared[1], compared[2]), diffAnswers(compared[2], compared[1])>>

\* What is shown is a comparison of two answers (compareAnswers(), diffAnswers()).
THEOREM DiffInvariance == DiffSpec => []DiffInv
<1>1. DiffInit => DiffInv
  BY DEF DiffInit, DiffInv
<1>2. DiffInv /\ [AskDiff]_diffVars => DiffInv'
  BY DEF DiffInv, AskDiff, diffVars
<1>3. QED  BY <1>1, <1>2, PTL DEF DiffSpec

\* What changed between two steps is the same from either side.
LEMMA ChangesAreMutual ==
  ASSUME NEW a, NEW b, NEW c
  PROVE  changesOf(b, a, Turned(c)) = changesOf(a, b, c)
<1>1. Turned(c)[1] = c[2] /\ Turned(c)[2] = c[1]
  BY DEF Turned
<1>2. \A x \in {"label", "lanes", "phase", "kind"} :
        x \in changesOf(b, a, Turned(c)) <=> x \in changesOf(a, b, c)
  BY <1>1 DEF changesOf
<1>3. QED  BY <1>2 DEF changesOf

\* Nothing changed between a step and itself.
LEMMA NothingChangesAtHome ==
  ASSUME NEW a, NEW i
  PROVE  changesOf(a, a, <<i, i>>) = {}
BY DEF changesOf

\* A comparison and the one the other way round tell the same.
LEMMA ComparisonsMirror ==
  ASSUME NEW a \in Comparable, NEW b \in Comparable
  PROVE  LET there == diffAnswers(a, b)
             back == diffAnswers(b, a)
         IN /\ {<<m[1][2], m[1][1], m[2]>> : m \in there.matched}
                 = {<<m[1][1], m[1][2], m[2]>> : m \in back.matched}
            /\ there.onlyFrom = back.onlyTo /\ there.onlyTo = back.onlyFrom
            /\ there.lanes.added = back.lanes.removed
            /\ there.lanes.removed = back.lanes.added
            /\ a = b => there.matched = {<<<<i, i>>, {}>> : i \in DOMAIN a.steps}
<1> DEFINE there == diffAnswers(a, b)
           back == diffAnswers(b, a)
           M == matchSteps(a, b)
           L == matchSteps(b, a)
<1>1. L = {Turned(c) : c \in M}
  BY MatchesMirror
<1>2. /\ there.matched = {<<c, changesOf(a, b, c)>> : c \in M}
      /\ there.onlyFrom = DOMAIN a.steps \ {c[1] : c \in M}
      /\ there.onlyTo = DOMAIN b.steps \ {c[2] : c \in M}
      /\ back.matched = {<<c, changesOf(b, a, c)>> : c \in L}
      /\ back.onlyFrom = DOMAIN b.steps \ {c[1] : c \in L}
      /\ back.onlyTo = DOMAIN a.steps \ {c[2] : c \in L}
      /\ there.lanes.added = back.lanes.removed
      /\ there.lanes.removed = back.lanes.added
  BY DEF diffAnswers, changedByKey
<1>3. {<<m[1][2], m[1][1], m[2]>> : m \in there.matched} =
        {<<c[2], c[1], changesOf(a, b, c)>> : c \in M}
  <2>1. \A m \in there.matched : \E c \in M : m[1] = c /\ m[2] = changesOf(a, b, c)
    BY <1>2
  <2>2. \A c \in M : \E m \in there.matched : m[1] = c /\ m[2] = changesOf(a, b, c)
    <3>1. TAKE c \in M
    <3>2. <<c, changesOf(a, b, c)>> \in there.matched
      BY <1>2
    <3>3. <<c, changesOf(a, b, c)>>[1] = c /\ <<c, changesOf(a, b, c)>>[2] = changesOf(a, b, c)
      OBVIOUS
    <3> HIDE DEF M, there
    <3>4. QED  BY <3>2, <3>3
  <2> HIDE DEF there, M
  <2>3. QED  BY <2>1, <2>2
<1>4. {<<m[1][1], m[1][2], m[2]>> : m \in back.matched} =
        {<<c[1], c[2], changesOf(b, a, c)>> : c \in L}
  <2>1. \A m \in back.matched : \E c \in L : m[1] = c /\ m[2] = changesOf(b, a, c)
    BY <1>2
  <2>2. \A c \in L : \E m \in back.matched : m[1] = c /\ m[2] = changesOf(b, a, c)
    <3>1. TAKE c \in L
    <3>2. <<c, changesOf(b, a, c)>> \in back.matched
      BY <1>2
    <3>3. <<c, changesOf(b, a, c)>>[1] = c /\ <<c, changesOf(b, a, c)>>[2] = changesOf(b, a, c)
      OBVIOUS
    <3> HIDE DEF L, back
    <3>4. QED  BY <3>2, <3>3
  <2> HIDE DEF back, L
  <2>3. QED  BY <2>1, <2>2
<1>5. {<<c[1], c[2], changesOf(b, a, c)>> : c \in L} =
        {<<Turned(c)[1], Turned(c)[2], changesOf(b, a, Turned(c))>> : c \in M}
  BY <1>1
<1>6. \A c : /\ Turned(c)[1] = c[2] /\ Turned(c)[2] = c[1]
             /\ changesOf(b, a, Turned(c)) = changesOf(a, b, c)
  BY ChangesAreMutual DEF Turned
<1>7. {<<Turned(c)[1], Turned(c)[2], changesOf(b, a, Turned(c))>> : c \in M} =
        {<<c[2], c[1], changesOf(a, b, c)>> : c \in M}
  BY <1>6
<1>8. {c[2] : c \in L} = {c[1] : c \in M} /\ {c[1] : c \in L} = {c[2] : c \in M}
  BY <1>1, <1>6
<1>9. a = b => there.matched = {<<<<i, i>>, {}>> : i \in DOMAIN a.steps}
  <2>1. SUFFICES ASSUME a = b PROVE there.matched = {<<<<i, i>>, {}>> : i \in DOMAIN a.steps}
    OBVIOUS
  <2>2. M = {<<i, i>> : i \in DOMAIN a.steps}
    BY <2>1, SelfMatches
  <2>3. there.matched = {<<<<i, i>>, changesOf(a, a, <<i, i>>)>> : i \in DOMAIN a.steps}
    <3>1. there.matched = {<<c, changesOf(a, a, c)>> : c \in M}
      BY <1>2, <2>1
    <3> HIDE DEF M, there
    <3>2. QED  BY <2>2, <3>1
  <2>4. QED  BY <2>3, NothingChangesAtHome
<1> HIDE DEF there, back, M, L
<1>10. QED  BY <1>2, <1>3, <1>4, <1>5, <1>7, <1>8, <1>9 DEF there, back

\* Asked the other way round, the comparison says the same.
THEOREM ComparisonsAreMutual == DiffSpec => []PairingIsMutual
<1>1. DiffInv => PairingIsMutual
  <2>1. SUFFICES ASSUME DiffInv, diff[1] # NotDiffed PROVE PairingIsMutual
    BY DEF PairingIsMutual
  <2>2. /\ compared[1] \in Comparable /\ compared[2] \in Comparable
        /\ diff[1] = diffAnswers(compared[1], compared[2])
        /\ diff[2] = diffAnswers(compared[2], compared[1])
    BY <2>1 DEF DiffInv
  <2>3. QED  BY <2>2, ComparisonsMirror DEF PairingIsMutual
<1>2. QED  BY <1>1, DiffInvariance, PTL

-----------------------------------------------------------------------------
(* A plan and what is there                                                *)

ReviewInv ==
  /\ compared \in Comparable \X Comparable
  /\ sketch \in Sketches \X Sketches
  /\ stored \in {"translated", "flow", "nothing"}
  /\ links \in [UNION {Ids(a.steps) : a \in Comparable} -> SUBSET References]
  /\ review # NotDrawnYet => review = buildPlanReview

\* What would be drawn changes only with what it is drawn from.
LEMMA DrawingStands ==
  ASSUME UNCHANGED <<compared, sketch, stored, links>>
  PROVE  buildPlanReview' = buildPlanReview
<1>1. observedSteps' = observedSteps /\ proposedSteps' = proposedSteps /\ Compared' = Compared
  BY DEF observedSteps, proposedSteps, Compared
<1>2. flowLayer' = flowLayer
  BY <1>1 DEF flowLayer, overlay, removedPlaces, mainPlaces, ProposedStep, ObservedStep, matchOf
<1>3. ObservedBoxes' = ObservedBoxes /\ ProposedBoxes' = ProposedBoxes
  BY <1>1 DEF ObservedBoxes, ProposedBoxes
<1>4. Nodes' = Nodes
  BY <1>1, <1>3 DEF Nodes, Node
<1>5. ObservedEdges' = ObservedEdges /\ ProposedEdges' = ProposedEdges
  BY <1>1 DEF ObservedEdges, ProposedEdges
<1>6. moduleEdges' = moduleEdges
  BY <1>1, <1>4, <1>5 DEF moduleEdges, Repeated
<1>7. QED  BY <1>2, <1>4, <1>6 DEF buildPlanReview

\* A review is that of the sketch and answers it was asked for (buildPlanReview()).
THEOREM ReviewInvariance == ReviewSpec => []ReviewInv
<1>1. ReviewInit => ReviewInv
  BY DEF ReviewInit, ReviewInv, DiffInit
<1>2. ASSUME ReviewInv, [ReviewNext]_reviewVars PROVE ReviewInv'
  <2>1. UNCHANGED <<compared, sketch, stored, links>>
    BY <1>2 DEF ReviewNext, CompareAnswers, AskDiff, DrawReview, reviewVars, diffVars
  <2>2. buildPlanReview' = buildPlanReview
    BY <2>1, DrawingStands
  <2>3. review' = review \/ review' = buildPlanReview
    BY <1>2 DEF ReviewNext, CompareAnswers, DrawReview, reviewVars
  <2>4. (review # NotDrawnYet => review = buildPlanReview)'
    BY <1>2, <2>2, <2>3 DEF ReviewInv
  <2>5. QED  BY <1>2, <2>1, <2>4 DEF ReviewInv
<1>3. QED  BY <1>1, <1>2, PTL DEF ReviewSpec

-----------------------------------------------------------------------------
(* The module layer.                                                       *)

\* Only what the registry has is said to exist.
Honest(box) == box.state = "existing" <=> box.id \in RegistryIds

\* The box at the end of a line is an existing module only if the registry has it.
LEMMA EndpointsAreHonest ==
  ASSUME NEW s \in Sketches, NEW id, id # "none"
  PROVE  Honest(endpoint(id, s))
<1> DEFINE byId == {i \in DOMAIN s.lanes : s.lanes[i].id = id}
           byModule == {i \in DOMAIN s.lanes : s.lanes[i].module = id}
           owners == IF byId # {} THEN byId ELSE byModule
           lane == s.lanes[Min(owners)]
<1>1. endpoint(id, s) =
        IF id \in RegistryIds THEN Box(id, "existing")
        ELSE IF owners = {} THEN Box(id, "planned")
        ELSE IF lane.module \in RegistryIds THEN Box(lane.module, "existing")
        ELSE IF lane.module = "none" THEN Box(lane.id, "planned")
        ELSE Box(lane.module, "planned")
  BY DEF endpoint
<1>2. owners # {} => lane.id = id \/ lane.module = id
  <2>1. SUFFICES ASSUME owners # {} PROVE lane.id = id \/ lane.module = id
    OBVIOUS
  <2>2. owners \in SUBSET Nat
    BY ReviewAssumption
  <2>3. Min(owners) \in owners
    <3> HIDE DEF owners
    <3>1. \E x \in owners : \A y \in owners : x <= y
      BY <2>1, <2>2, LeastNumber
    <3>2. QED  BY <3>1 DEF Min
  <2>4. QED  BY <2>3
<1> HIDE DEF owners, lane
<1>3. QED  BY <1>1, <1>2 DEF Honest, Box

\* The participants are the ends of the edges and lanes of the sketch.
LEMMA ParticipantsAre ==
  ASSUME NEW s
  PROVE  /\ \A i \in DOMAIN s.edges : {s.edges[i].from, s.edges[i].to} \subseteq participantIds(s)
         /\ \A id \in participantIds(s) :
              \/ \E i \in DOMAIN s.edges : id \in {s.edges[i].from, s.edges[i].to}
              \/ \E i \in DOMAIN s.lanes : id = s.lanes[i].id
<1> DEFINE ends(i) == {s.edges[i].from, s.edges[i].to}
           owned == {j \in DOMAIN s.lanes : s.lanes[j].kind = "module" \/ s.lanes[j].module # "none"}
           called == UNION {ends(i) : i \in DOMAIN s.edges}
           lanesOwned == {s.lanes[i].id : i \in owned}
<1>1. participantIds(s) = called \cup lanesOwned
  BY DEF participantIds
<1>2. owned \subseteq DOMAIN s.lanes
  OBVIOUS
<1>3. \A i \in DOMAIN s.edges : ends(i) \subseteq called
  OBVIOUS
<1>4. \A id \in called : \E i \in DOMAIN s.edges : id \in ends(i)
  OBVIOUS
<1>5. \A id \in lanesOwned : \E i \in DOMAIN s.lanes : id = s.lanes[i].id
  OBVIOUS
<1> HIDE DEF called, lanesOwned
<1>6. QED  BY <1>1, <1>3, <1>4, <1>5

\* Every participant has a name.
LEMMA ParticipantsAreNamed ==
  ASSUME NEW s \in Sketches
  PROVE  "none" \notin participantIds(s)
BY ReviewAssumption, ParticipantsAre

\* And so is every box that is drawn.
LEMMA BoxesAreHonest ==
  ASSUME ReviewInv
  PROVE  \A b \in ObservedBoxes \cup ProposedBoxes \cup NamedBoxes : Honest(b)
<1>1. \A s \in Sketches : \A b \in Boxes(s) : Honest(b)
  BY EndpointsAreHonest, ParticipantsAreNamed DEF Boxes
<1>2. sketch[1] \in Sketches /\ sketch[2] \in Sketches
  BY DEF ReviewInv
<1>3. \A b \in NamedBoxes : Honest(b)
  BY DEF NamedBoxes, Box, Honest
<1>4. QED  BY <1>1, <1>2, <1>3 DEF ObservedBoxes, ProposedBoxes

\* A box is drawn once: what it is said to be is what one of the sides says.
LEMMA NodesAre ==
  ASSUME NEW id \in IdsOf(ObservedBoxes \cup ProposedBoxes \cup NamedBoxes)
  PROVE  /\ Node(id).id = id
         /\ \E b \in ObservedBoxes \cup ProposedBoxes \cup NamedBoxes :
              b.id = id /\ Node(id).state = b.state
         /\ Node(id).change = "removed" => id \notin IdsOf(ProposedBoxes)
         /\ Node(id).change = "added" => id \notin IdsOf(ObservedBoxes)
<1> DEFINE first == IF id \in IdsOf(ObservedBoxes) THEN ObservedBoxes
                    ELSE IF id \in IdsOf(ProposedBoxes) THEN ProposedBoxes ELSE NamedBoxes
           box == CHOOSE b \in first : b.id = id
<1>1. first \subseteq ObservedBoxes \cup ProposedBoxes \cup NamedBoxes
      /\ \E b \in first : b.id = id
  BY DEF IdsOf
<1>2. box \in first /\ box.id = id
  BY <1>1
<1>3. Node(id).id = id /\ Node(id).state = box.state
  BY DEF Node
<1>4. Node(id).change =
        IF ~Compared \/ id \notin IdsOf(ObservedBoxes \cup ProposedBoxes) THEN "unknown"
        ELSE IF id \notin IdsOf(ObservedBoxes) THEN "added"
        ELSE IF id \notin IdsOf(ProposedBoxes) THEN "removed" ELSE "unchanged"
  BY DEF Node
<1> HIDE DEF first, box
<1>5. QED  BY <1>1, <1>2, <1>3, <1>4

\* A line ends at boxes that the side which drew it has.
LEMMA EdgesHaveEnds ==
  /\ \A k \in ObservedEdges : {k[1], k[2]} \subseteq IdsOf(ObservedBoxes)
  /\ \A k \in ProposedEdges : {k[1], k[2]} \subseteq IdsOf(ProposedBoxes)
<1>1. ASSUME NEW s, NEW i \in DOMAIN s.edges
      PROVE  {Between(s, i)[1], Between(s, i)[2]} \subseteq IdsOf(Boxes(s))
  <2>1. s.edges[i].from \in participantIds(s) /\ s.edges[i].to \in participantIds(s)
    BY ParticipantsAre
  <2>2. endpoint(s.edges[i].from, s) \in Boxes(s) /\ endpoint(s.edges[i].to, s) \in Boxes(s)
    BY <2>1 DEF Boxes
  <2>3. Between(s, i)[1] = endpoint(s.edges[i].from, s).id
        /\ Between(s, i)[2] = endpoint(s.edges[i].to, s).id
    BY DEF Between
  <2>4. QED  BY <2>2, <2>3 DEF IdsOf
<1>2. \A k \in ObservedEdges : stored # "nothing" /\
        \E i \in DOMAIN sketch[1].edges : k = Between(sketch[1], i)
  BY DEF ObservedEdges
<1>3. \A k \in ProposedEdges : Compared /\
        \E i \in DOMAIN sketch[2].edges : k = Between(sketch[2], i)
  BY DEF ProposedEdges
<1>4. QED  BY <1>1, <1>2, <1>3 DEF ObservedBoxes, ProposedBoxes

\* The module layer: every line that is drawn ends at boxes that are drawn.
LEMMA LinesAgree ==
  ASSUME ReviewInv, review = buildPlanReview
  PROVE  LinesAgreeWithBoxes
<1>1. review.nodes = Nodes /\ review.edges = moduleEdges
  BY DEF buildPlanReview
<1> DEFINE all == IdsOf(ObservedBoxes \cup ProposedBoxes \cup NamedBoxes)
<1>2. \A n \in Nodes : \E id \in all : n = Node(id)
  BY DEF Nodes
<1>3. \A id \in all : Node(id) \in Nodes
  BY DEF Nodes
<1>4. \A n \in Nodes : /\ n.id \in all
                       /\ n.state = "existing" <=> n.id \in RegistryIds
                       /\ n.change = "removed" => n.id \notin IdsOf(ProposedBoxes)
                       /\ n.change = "added" => n.id \notin IdsOf(ObservedBoxes)
  <2>1. TAKE n \in Nodes
  <2>2. PICK id \in all : n = Node(id)
    BY <1>2
  <2>3. n.id = id /\ (n.change = "removed" => id \notin IdsOf(ProposedBoxes))
        /\ (n.change = "added" => id \notin IdsOf(ObservedBoxes))
    BY <2>2, NodesAre
  <2>4. PICK b \in ObservedBoxes \cup ProposedBoxes \cup NamedBoxes :
          b.id = id /\ n.state = b.state
    BY <2>2, NodesAre
  <2>5. n.state = "existing" <=> id \in RegistryIds
    BY <2>4, BoxesAreHonest DEF Honest
  <2> HIDE DEF all
  <2>6. QED  BY <2>2, <2>3, <2>5
<1>5. IdsOf(ObservedBoxes) \subseteq all /\ IdsOf(ProposedBoxes) \subseteq all
  BY DEF IdsOf
<1>6. ASSUME NEW e \in moduleEdges
      PROVE  /\ e.key \in ObservedEdges \cup ProposedEdges
             /\ e.change \in {"added", "unchanged"} => e.key \in ProposedEdges
             /\ e.change = "unchanged" /\ e.key \notin Repeated => e.key \in ObservedEdges
             /\ e.change = "removed" => e.key \in ObservedEdges
  <2>1. PICK k \in ObservedEdges \cup ProposedEdges :
          /\ e.key = k
          /\ e.change = IF k \in ProposedEdges
                        THEN IF k \in ObservedEdges \cup Repeated THEN "unchanged" ELSE "added"
                        ELSE IF Compared THEN "removed" ELSE "unknown"
    BY DEF moduleEdges
  <2>2. QED  BY <2>1
<1>7. ASSUME NEW e \in moduleEdges
      PROVE  LET Ends == {n \in Nodes : n.id \in {e.key[1], e.key[2]}}
             IN /\ {e.key[1], e.key[2]} = {n.id : n \in Ends}
                /\ e.change \in {"added", "unchanged"} => \A n \in Ends : n.change # "removed"
                /\ (e.change = "removed" \/ (e.change = "unchanged" /\ e.key \notin Repeated)) =>
                     \A n \in Ends : n.change # "added"
  <2> DEFINE Ends == {n \in Nodes : n.id \in {e.key[1], e.key[2]}}
  <2>1. {e.key[1], e.key[2]} \subseteq all
    BY <1>5, <1>6, EdgesHaveEnds
  <2>2. \A x \in {e.key[1], e.key[2]} : \E n \in Ends : n.id = x
    BY <1>3, <2>1, NodesAre
  <2>3. {e.key[1], e.key[2]} = {n.id : n \in Ends}
    BY <2>2
  <2>4. e.change \in {"added", "unchanged"} => {e.key[1], e.key[2]} \subseteq IdsOf(ProposedBoxes)
    BY <1>6, EdgesHaveEnds
  <2>5. (e.change = "removed" \/ (e.change = "unchanged" /\ e.key \notin Repeated)) =>
          {e.key[1], e.key[2]} \subseteq IdsOf(ObservedBoxes)
    BY <1>6, EdgesHaveEnds
  <2>6. \A n \in Ends : n \in Nodes /\ n.id \in {e.key[1], e.key[2]}
    OBVIOUS
  <2> HIDE DEF Ends
  <2>7. QED  BY <1>4, <2>3, <2>4, <2>5, <2>6 DEF Ends
<1> HIDE DEF all
<1>8. QED  BY <1>1, <1>4, <1>7 DEF LinesAgreeWithBoxes

-----------------------------------------------------------------------------
(* The flow layer.                                                         *)

\* In a set of places, one stands at every place of the ascending order.
LEMMA AscendingEnumerates ==
  ASSUME NEW T, \A i \in T : i \in Nat, IsFiniteSet(T)
  PROVE  /\ Cardinality(T) \in Nat
         /\ \A k \in 1..Cardinality(T) : Ascending(T)[k] \in T
         /\ \A j, k \in 1..Cardinality(T) : Ascending(T)[j] = Ascending(T)[k] => j = k
         /\ \A i \in T : \E k \in 1..Cardinality(T) : Ascending(T)[k] = i
<1> DEFINE R == {p \in T \X T : p[1] < p[2]}
           N == Cardinality(T)
<1>1. \A x, y \in T : <<x, y>> \in R <=> x < y
  OBVIOUS
<1>2. Orders(R, T)
  <2>1. \A x, y, z \in T : ~(x < x) /\ (x # y => x < y \/ y < x) /\ (x < y /\ y < z => x < z)
    OBVIOUS
  <2> HIDE DEF R
  <2>2. QED  BY <1>1, <2>1 DEF Orders
<1>3. \A x \in T : Rank(T, R, x) = Cardinality({y \in T : y < x})
  <2>1. TAKE x \in T
  <2>2. {y \in T : <<y, x>> \in R} = {y \in T : y < x}
    BY <1>1
  <2>3. QED  BY <2>2 DEF Rank
<1> HIDE DEF R
<1>4. /\ N \in Nat
      /\ \A x \in T : Rank(T, R, x) \in 0..(N - 1)
      /\ \A x, y \in T : <<x, y>> \in R <=> Rank(T, R, x) < Rank(T, R, y)
      /\ \A x, y \in T : Rank(T, R, x) = Rank(T, R, y) => x = y
      /\ \A k \in 0..(N - 1) : \E x \in T : Rank(T, R, x) = k
  BY <1>2, Ranking
<1>5. \A k \in 1..N : Ascending(T)[k] \in T /\ Rank(T, R, Ascending(T)[k]) = k - 1
  <2>1. TAKE k \in 1..N
  <2>2. k - 1 \in 0..(N - 1)
    BY <1>4
  <2>3. \E x \in T : Cardinality({y \in T : y < x}) = k - 1
    BY <1>3, <1>4, <2>2
  <2>4. Ascending(T)[k] = CHOOSE i \in T : Cardinality({j \in T : j < i}) = k - 1
    BY DEF Ascending
  <2>5. QED  BY <1>3, <2>3, <2>4
<1>6. \A j, k \in 1..N : Ascending(T)[j] = Ascending(T)[k] => j = k
  BY <1>4, <1>5
<1>7. \A i \in T : \E k \in 1..N : Ascending(T)[k] = i
  <2>1. TAKE i \in T
  <2>2. Rank(T, R, i) + 1 \in 1..N
    BY <1>4
  <2>3. Ascending(T)[Rank(T, R, i) + 1] = i
    <3> DEFINE k == Rank(T, R, i) + 1
    <3>1. Ascending(T)[k] \in T /\ Rank(T, R, Ascending(T)[k]) = k - 1
      BY <1>5, <2>2
    <3>2. k - 1 = Rank(T, R, i)
      BY <1>4
    <3>3. QED  BY <1>4, <3>1, <3>2
  <2>4. QED  BY <2>2, <2>3
<1>8. QED  BY <1>4, <1>5, <1>6, <1>7

\* As many ids as steps: no two steps have the same.
LEMMA DistinctIds ==
  ASSUME NEW a \in Comparable, Distinct(a.steps)
  PROVE  \A i, j \in DOMAIN a.steps : a.steps[i].id = a.steps[j].id => i = j
<1> DEFINE D == DOMAIN a.steps
           name == [i \in D |-> a.steps[i].id]
<1>1. name \in Surjection(D, Ids(a.steps))
  BY DEF Surjection, Ids
<1>2. IsFiniteSet(D) /\ Cardinality(D) = Len(a.steps)
  <2>1. \A n \in Nat : IsFiniteSet(1..n) /\ Cardinality(1..n) = n
    BY FS_Interval
  <2>2. QED  BY <2>1, StepsAreNumbered
<1>3. name \in Injection(D, Ids(a.steps))
  BY <1>1, <1>2, FS_Surjection DEF Distinct
<1>4. \A i, j \in D : name[i] = name[j] => i = j
  BY <1>3 DEF Injection, IsInjective
<1>5. QED  BY <1>4

\* A pairing of places: no place of either side is in two pairs.
Pairing(M, m, n) ==
  /\ M \subseteq (1..m) \X (1..n)
  /\ \A c, d \in M : c[1] = d[1] \/ c[2] = d[2] => c = d

\* Matches pair every step of either answer once at most.
LEMMA MatchesPair ==
  ASSUME NEW a \in Comparable, NEW b \in Comparable
  PROVE  Pairing(matchSteps(a, b), Len(a.steps), Len(b.steps))
<1>1. Scores(candidates(a, b))
  BY CandidatesScore
<1>2. Kernel(candidates(a, b), matchSteps(a, b))
  BY <1>1, MatchesAreTheKernel
<1>3. \A c \in matchSteps(a, b) : c \in (1..Len(a.steps)) \X (1..Len(b.steps))
  <2>1. TAKE c \in matchSteps(a, b)
  <2>2. c[1] \in DOMAIN a.steps /\ c[2] \in DOMAIN b.steps /\ c = <<c[1], c[2]>>
    BY <1>2, CandidatesScore DEF Kernel
  <2>3. QED  BY <2>2, StepsAreNumbered
<1>4. \A c, d \in matchSteps(a, b) : c[1] = d[1] \/ c[2] = d[2] => c = d
  BY <1>1, <1>2, KernelPairsOnce
<1>5. QED  BY <1>3, <1>4 DEF Pairing

\* Its two sides are of one size.
LEMMA SidesAreEven ==
  ASSUME NEW m \in Nat, NEW n \in Nat, NEW M, Pairing(M, m, n)
  PROVE  LET left == {c[1] : c \in M}
             right == {c[2] : c \in M}
         IN /\ left \subseteq 1..m /\ right \subseteq 1..n
            /\ IsFiniteSet(left) /\ IsFiniteSet(right)
            /\ Cardinality(left) \in Nat
            /\ Cardinality(left) = Cardinality(right)
<1> DEFINE left == {c[1] : c \in M}
           right == {c[2] : c \in M}
           toRight == [i \in left |-> (CHOOSE c \in M : c[1] = i)[2]]
<1>1. left \subseteq 1..m /\ right \subseteq 1..n
  BY DEF Pairing
<1>2. IsFiniteSet(left) /\ IsFiniteSet(right) /\ Cardinality(left) \in Nat
  <2>1. IsFiniteSet(1..m) /\ IsFiniteSet(1..n)
    BY FS_Interval
  <2>2. QED  BY <1>1, <2>1, FS_Subset, FS_CardinalityType
<1>3. \A c \in M : toRight[c[1]] = c[2]
  <2>1. TAKE c \in M
  <2>2. c[1] \in left
    OBVIOUS
  <2>3. (CHOOSE d \in M : d[1] = c[1]) = c
    BY DEF Pairing
  <2>4. QED  BY <2>2, <2>3
<1>4. \A i \in left : \E c \in M : i = c[1] /\ toRight[i] = c[2]
  BY <1>3
<1>5. toRight \in Bijection(left, right)
  <2>1. toRight \in [left -> right]
    BY <1>4
  <2>2. \A i, j \in left : toRight[i] = toRight[j] => i = j
    BY <1>4 DEF Pairing
  <2>3. \A r \in right : \E i \in left : toRight[i] = r
    <3>1. \A c \in M : c[1] \in left
      OBVIOUS
    <3>2. \A r \in right : \E c \in M : r = c[2]
      OBVIOUS
    <3> HIDE DEF toRight, left, right
    <3>3. QED  BY <1>3, <3>1, <3>2
  <2> HIDE DEF toRight, left, right
  <2>4. QED  BY <2>1, <2>2, <2>3 DEF Bijection, Injection, Surjection, IsInjective
<1>6. ExistsBijection(left, right)
  BY <1>5 DEF ExistsBijection
<1>7. QED  BY <1>1, <1>2, <1>6, FS_Bijection

\* A drawn plan: a step of the translation each, then the observed steps that it
\* does not restate.
LEMMA OverlayIs ==
  ASSUME NEW d, NEW P \in Nat, compared[2].main = P,
         NEW T, \A i \in T : i \in Nat, IsFiniteSet(T), removedPlaces(d) = T
  PROVE  /\ Cardinality(T) \in Nat
         /\ DOMAIN overlay(d) = 1..(P + Cardinality(T))
         /\ \A i \in 1..P : overlay(d)[i] = ProposedStep(d, proposedSteps[i])
         /\ \A k \in 1..Cardinality(T) :
              overlay(d)[P + k] = ObservedStep(observedSteps[Ascending(T)[k]], "removed")
<1> DEFINE R == Cardinality(T)
           up == [i \in 1..P |-> ProposedStep(d, proposedSteps[i])]
           down == [k \in 1..R |-> ObservedStep(observedSteps[Ascending(T)[k]], "removed")]
           Drawn == {ProposedStep(d, proposedSteps[i]) : i \in 1..P}
                      \cup {ObservedStep(observedSteps[Ascending(T)[k]], "removed") : k \in 1..R}
<1>1. R \in Nat
  BY AscendingEnumerates
<1>2. overlay(d) = up \o down
  BY DEF overlay, mainPlaces
<1>3. up \in [1..P -> Drawn] /\ down \in [1..R -> Drawn]
  OBVIOUS
<1>4. /\ \A i \in 1..P : up[i] = ProposedStep(d, proposedSteps[i])
      /\ \A k \in 1..R : down[k] = ObservedStep(observedSteps[Ascending(T)[k]], "removed")
  OBVIOUS
<1> HIDE DEF up, down, Drawn, R
<1>5. up \in Seq(Drawn) /\ Len(up) = P /\ down \in Seq(Drawn) /\ Len(down) = R
  BY <1>1, <1>3
<1>6. /\ DOMAIN (up \o down) = 1..(P + R)
      /\ \A i \in 1..P : (up \o down)[i] = up[i]
      /\ \A k \in 1..R : (up \o down)[P + k] = down[k]
  BY <1>1, <1>5
<1>7. QED  BY <1>1, <1>2, <1>4, <1>6 DEF R

\* What the drawing says of the steps of the translation: each is drawn with the
\* one observed step that it is paired with, or with none.
LEMMA ProposedStepIs ==
  ASSUME ReviewInv, Distinct(proposedSteps), NEW i \in DOMAIN proposedSteps
  PROVE  LET M == matchSteps(compared[1], compared[2])
             step == ProposedStep(diffAnswers(compared[1], compared[2]), proposedSteps[i])
         IN /\ step.proposal = proposedSteps[i].id
            /\ step.refs = links[proposedSteps[i].id]
            /\ \A c \in M : c[2] = i =>
                 /\ step.observed = observedSteps[c[1]].id
                 /\ step.change \in {"moved", "unchanged"}
            /\ i \notin {c[2] : c \in M} => step.observed = 0 /\ step.change = "added"
<1> DEFINE a == compared[1]
           b == compared[2]
           M == matchSteps(a, b)
           d == diffAnswers(a, b)
           match == matchOf(d, proposedSteps[i].id)
           step == ProposedStep(d, proposedSteps[i])
<1>1. a \in Comparable /\ b \in Comparable /\ observedSteps = a.steps /\ proposedSteps = b.steps
  BY DEF ReviewInv, observedSteps, proposedSteps
<1>2. Pairing(M, Len(a.steps), Len(b.steps))
  BY <1>1, MatchesPair
<1>3. d.matched = {<<c, changesOf(a, b, c)>> : c \in M}
  BY DEF diffAnswers
<1>4. /\ step.proposal = proposedSteps[i].id
      /\ step.refs = links[proposedSteps[i].id]
      /\ step.observed = IF match = {} THEN 0 ELSE observedSteps[(CHOOSE m \in match : TRUE)[1][1]].id
      /\ step.change = IF match = {} THEN "added"
                       ELSE IF \E m \in match : m[2] # {} THEN "moved" ELSE "unchanged"
  BY DEF ProposedStep
<1> DEFINE mine == {m \in d.matched : proposedSteps[m[1][2]].id = proposedSteps[i].id}
<1>5. \A m \in mine : m[1] \in M /\ m[1][2] = i
  <2>1. TAKE m \in mine
  <2>2. PICK c \in M : m = <<c, changesOf(a, b, c)>>
    BY <1>3
  <2>3. m[1] = c /\ c[2] \in DOMAIN b.steps
    BY <1>1, <1>2, <2>2, StepsAreNumbered DEF Pairing
  <2>4. proposedSteps[c[2]].id = proposedSteps[i].id
    BY <2>3
  <2>5. c[2] = i
    BY <1>1, <2>3, <2>4, DistinctIds
  <2>6. QED  BY <2>3, <2>5
<1>6. match = {m \in mine : \A n \in mine : m[1][1] >= n[1][1]}
  BY DEF matchOf
<1>7. ASSUME NEW c \in M, c[2] = i
      PROVE  step.observed = observedSteps[c[1]].id /\ step.change \in {"moved", "unchanged"}
  <2> DEFINE e == <<c, changesOf(a, b, c)>>
  <2>1. e \in d.matched /\ e[1] = c
    BY <1>3
  <2>2. e \in mine
    BY <1>7, <2>1
  <2>3. \A m \in mine : m[1] = c
    BY <1>2, <1>5, <1>7 DEF Pairing
  <2>4. c[1] \in Nat
    BY <1>2 DEF Pairing
  <2>5. e \in match /\ \A m \in match : m[1] = c
    BY <1>6, <2>1, <2>2, <2>3, <2>4
  <2> HIDE DEF match, e, mine, step
  <2>6. (CHOOSE m \in match : TRUE)[1] = c
    BY <2>5
  <2>7. match # {}
    BY <2>5
  <2>8. QED  BY <1>4, <2>6, <2>7
<1>8. ASSUME i \notin {c[2] : c \in M} PROVE step.observed = 0 /\ step.change = "added"
  <2>1. mine = {}
    BY <1>5, <1>8
  <2>2. match = {}
    BY <1>6, <2>1
  <2> HIDE DEF match, step
  <2>3. QED  BY <1>4, <2>2
<1> HIDE DEF step, M
<1>9. /\ step.proposal = proposedSteps[i].id
      /\ step.refs = links[proposedSteps[i].id]
      /\ \A c \in M : c[2] = i =>
           step.observed = observedSteps[c[1]].id /\ step.change \in {"moved", "unchanged"}
      /\ i \notin {c[2] : c \in M} => step.observed = 0 /\ step.change = "added"
  BY <1>4, <1>7, <1>8
<1>10. QED  BY <1>9 DEF step, M

\* One place is counted when there is one, and none when there is none.
LEMMA OnceIs ==
  ASSUME NEW end, NEW id, NEW k0 \in DOMAIN review.steps,
         \A k \in DOMAIN review.steps : review.steps[k][end] = id <=> k = k0
  PROVE  Times(end, id) = 1
<1>1. {k \in DOMAIN review.steps : review.steps[k][end] = id} = {k0}
  OBVIOUS
<1>2. QED  BY <1>1, FS_Singleton DEF Times

LEMMA NeverIs ==
  ASSUME NEW end, NEW id, \A k \in DOMAIN review.steps : review.steps[k][end] # id
  PROVE  Times(end, id) = 0
<1>1. {k \in DOMAIN review.steps : review.steps[k][end] = id} = {}
  OBVIOUS
<1>2. QED  BY <1>1, FS_EmptySet DEF Times

\* An answer's own steps are the first that the matcher sees.
LEMMA MainPlacesAre ==
  ASSUME NEW a \in Comparable
  PROVE  /\ a.main \in Nat /\ a.main <= Len(a.steps)
         /\ mainPlaces(a) \subseteq DOMAIN a.steps
<1>1. Len(a.steps) \in Nat /\ DOMAIN a.steps = 1..Len(a.steps)
  BY StepsAreNumbered
<1>2. a.main \in 0..Len(a.steps)
  BY ReviewAssumption
<1>3. QED  BY <1>1, <1>2 DEF mainPlaces

\* A flow that nothing was compared with is drawn as it is.
LEMMA FlowIsDrawn ==
  ASSUME ReviewInv, review = buildPlanReview, stored = "flow", Distinct(observedSteps),
         NEW i \in DOMAIN observedSteps
  PROVE  Times("observed", observedSteps[i].id) = IF i \in expectedPlaces THEN 1 ELSE 0
<1>1. review.steps = [j \in mainPlaces(compared[1]) |-> ObservedStep(observedSteps[j], "unknown")]
  BY DEF buildPlanReview, flowLayer
<1>2. \A j \in DOMAIN review.steps : review.steps[j]["observed"] = observedSteps[j].id
  BY <1>1 DEF ObservedStep
<1>3. compared[1] \in Comparable /\ observedSteps = compared[1].steps
  BY DEF ReviewInv, observedSteps
<1>4. DOMAIN review.steps = mainPlaces(compared[1]) /\ expectedPlaces = mainPlaces(compared[1])
  BY <1>1 DEF expectedPlaces, Compared
<1>5. mainPlaces(compared[1]) \subseteq DOMAIN observedSteps
  BY <1>3, MainPlacesAre
<1>6. \A j \in DOMAIN observedSteps : observedSteps[j].id = observedSteps[i].id <=> j = i
  BY <1>3, DistinctIds
<1>7. CASE i \in mainPlaces(compared[1])
  BY <1>2, <1>4, <1>5, <1>6, <1>7, OnceIs
<1>8. CASE i \notin mainPlaces(compared[1])
  BY <1>2, <1>4, <1>5, <1>6, <1>8, NeverIs
<1>9. QED  BY <1>7, <1>8

\* The whole drawing of a translation, over the places of both flows.
LEMMA OverlayFacts ==
  ASSUME ReviewInv, review = buildPlanReview, Compared,
         Distinct(observedSteps), Distinct(proposedSteps)
  PROVE  LET M == matchSteps(compared[1], compared[2])
             m == Len(observedSteps)
             n == compared[2].main
             T == (1..compared[1].main) \ {c[1] : c \in M}
             r == Cardinality(T)
             s == review.steps
         IN /\ m \in Nat /\ n \in Nat /\ r \in Nat
            /\ DOMAIN observedSteps = 1..m /\ 1..n \subseteq DOMAIN proposedSteps
            /\ DOMAIN s = 1..(n + r)
            /\ T \subseteq 1..m
            /\ Pairing(M, m, Len(proposedSteps))
            /\ \A i \in 1..n :
                 /\ s[i].proposal = proposedSteps[i].id
                 /\ s[i].refs = links[proposedSteps[i].id]
                 /\ \A c \in M : c[2] = i =>
                      s[i].observed = observedSteps[c[1]].id /\ s[i].change \in {"moved", "unchanged"}
                 /\ i \notin {c[2] : c \in M} => s[i].observed = 0 /\ s[i].change = "added"
            /\ \A k \in 1..r :
                 /\ Ascending(T)[k] \in T
                 /\ s[n + k].proposal = 0 /\ s[n + k].refs = {} /\ s[n + k].change = "removed"
                 /\ s[n + k].observed = observedSteps[Ascending(T)[k]].id
<1> DEFINE a == compared[1]
           b == compared[2]
           M == matchSteps(a, b)
           m == Len(observedSteps)
           n == compared[2].main
           T == (1..compared[1].main) \ {c[1] : c \in M}
           r == Cardinality(T)
           s == review.steps
           d == diffAnswers(a, b)
<1>1. a \in Comparable /\ b \in Comparable /\ observedSteps = a.steps /\ proposedSteps = b.steps
  BY DEF ReviewInv, observedSteps, proposedSteps
<1>2. /\ m \in Nat /\ DOMAIN observedSteps = 1..m
      /\ n \in Nat /\ 1..n \subseteq DOMAIN proposedSteps
      /\ a.main \in Nat /\ a.main <= m
  BY <1>1, StepsAreNumbered, MainPlacesAre DEF mainPlaces
<1>3. Pairing(M, m, Len(proposedSteps))
  BY <1>1, MatchesPair
<1>4. s = overlay(d)
  BY DEF buildPlanReview, flowLayer, Compared
<1>5. removedPlaces(d) = T
  <2>1. d.onlyFrom = (1..m) \ {c[1] : c \in M}
    BY <1>1, <1>2 DEF diffAnswers
  <2>2. \A i, j \in 1..m : observedSteps[i].id = observedSteps[j].id => i = j
    BY <1>1, <1>2, DistinctIds
  <2>3. mainPlaces(a) = 1..a.main /\ 1..a.main \subseteq 1..m
    BY <1>2 DEF mainPlaces
  <2> HIDE DEF M, d, m
  <2>4. QED  BY <2>1, <2>2, <2>3 DEF removedPlaces
<1>6. (\A i \in T : i \in Nat) /\ IsFiniteSet(T) /\ T \subseteq 1..m
  <2>1. IsFiniteSet(1..m)
    BY <1>2, FS_Interval
  <2>2. T \subseteq 1..m
    BY <1>2
  <2>3. QED  BY <2>1, <2>2, FS_Subset
<1> HIDE DEF T, d
<1>7. /\ r \in Nat
      /\ DOMAIN overlay(d) = 1..(n + r)
      /\ \A i \in 1..n : overlay(d)[i] = ProposedStep(d, proposedSteps[i])
      /\ \A k \in 1..r : overlay(d)[n + k] = ObservedStep(observedSteps[Ascending(T)[k]], "removed")
  <2> HIDE DEF n, r
  <2>1. n \in Nat /\ compared[2].main = n
    BY <1>2 DEF n
  <2>2. (\A i \in T : i \in Nat) /\ IsFiniteSet(T) /\ removedPlaces(d) = T
    BY <1>5, <1>6
  <2>3. /\ Cardinality(T) \in Nat
        /\ DOMAIN overlay(d) = 1..(n + Cardinality(T))
        /\ \A i \in 1..n : overlay(d)[i] = ProposedStep(d, proposedSteps[i])
        /\ \A k \in 1..Cardinality(T) :
             overlay(d)[n + k] = ObservedStep(observedSteps[Ascending(T)[k]], "removed")
    BY <2>1, <2>2, OverlayIs
  <2>4. QED  BY <2>3 DEF r
<1>8. ASSUME NEW k \in 1..r
      PROVE  /\ Ascending(T)[k] \in T
             /\ s[n + k].proposal = 0 /\ s[n + k].refs = {} /\ s[n + k].change = "removed"
             /\ s[n + k].observed = observedSteps[Ascending(T)[k]].id
  <2>1. Ascending(T)[k] \in T
    BY <1>6, AscendingEnumerates
  <2>2. s[n + k] = ObservedStep(observedSteps[Ascending(T)[k]], "removed")
    BY <1>4, <1>7
  <2>3. QED  BY <2>1, <2>2 DEF ObservedStep
<1>9. ASSUME NEW i \in 1..n
      PROVE  /\ s[i].proposal = proposedSteps[i].id
             /\ s[i].refs = links[proposedSteps[i].id]
             /\ \A c \in M : c[2] = i =>
                  s[i].observed = observedSteps[c[1]].id /\ s[i].change \in {"moved", "unchanged"}
             /\ i \notin {c[2] : c \in M} => s[i].observed = 0 /\ s[i].change = "added"
  <2>1. s[i] = ProposedStep(d, proposedSteps[i])
    BY <1>4, <1>7
  <2>2. QED  BY <1>2, <2>1, ProposedStepIs DEF d
<1>10. QED  BY <1>2, <1>3, <1>4, <1>6, <1>7, <1>8, <1>9 DEF T

\* The flow layer: every step that is to be drawn is.
LEMMA StepsAllDrawn ==
  ASSUME ReviewInv, review = buildPlanReview
  PROVE  StepsAreAllDrawn
<1> DEFINE K == {c \in matchSteps(compared[1], compared[2]) : c[2] \in 1..compared[2].main}
           m == Len(observedSteps)
           n == compared[2].main
           T == (1..compared[1].main) \ {c[1] : c \in matchSteps(compared[1], compared[2])}
           r == Cardinality(T)
           s == review.steps
           left == {c[1] : c \in K}
           right == {c[2] : c \in K}
           AddUp == LET c == review.counts
                        paired == c["moved"] + c["unchanged"]
                    IN /\ c["added"] + paired = compared[2].main
                       /\ c["removed"] + paired = Cardinality(expectedPlaces)
                       /\ c["linked"] + c["unanchored"] = compared[2].main
           Supported(i) ==
             LET id == proposedSteps[i].id
             IN /\ Times("proposal", id) = 1
                /\ \A q \in References :
                     q \in links[id] <=>
                       \E k \in review.claims[q] : review.steps[k].proposal = id
           DrawnRight(i) ==
             Times("observed", observedSteps[i].id) = IF i \in expectedPlaces THEN 1 ELSE 0
<1>1. SUFFICES ASSUME Distinct(observedSteps), Distinct(proposedSteps)
               PROVE  /\ stored # "nothing" => \A i \in DOMAIN observedSteps : DrawnRight(i)
                      /\ Compared => AddUp /\ \A i \in mainPlaces(compared[2]) : Supported(i)
  BY DEF StepsAreAllDrawn
<1>2. stored = "flow" => \A i \in DOMAIN observedSteps : DrawnRight(i)
  BY <1>1, FlowIsDrawn
<1>3. SUFFICES ASSUME Compared
               PROVE  /\ \A i \in DOMAIN observedSteps : DrawnRight(i)
                      /\ AddUp /\ \A i \in mainPlaces(compared[2]) : Supported(i)
  BY <1>2 DEF ReviewInv, Compared
<1> HIDE DEF AddUp, Supported, DrawnRight
<1>4. compared[1] \in Comparable /\ compared[2] \in Comparable
      /\ observedSteps = compared[1].steps /\ proposedSteps = compared[2].steps
  BY DEF ReviewInv, observedSteps, proposedSteps
<1>5. /\ m \in Nat /\ n \in Nat /\ r \in Nat
      /\ DOMAIN observedSteps = 1..m /\ 1..n \subseteq DOMAIN proposedSteps
      /\ DOMAIN s = 1..(n + r)
      /\ T \subseteq 1..m
      /\ Pairing(K, m, n)
      /\ \A i \in 1..n :
           /\ s[i].proposal = proposedSteps[i].id
           /\ s[i].refs = links[proposedSteps[i].id]
           /\ \A c \in K : c[2] = i =>
                s[i].observed = observedSteps[c[1]].id /\ s[i].change \in {"moved", "unchanged"}
           /\ i \notin {c[2] : c \in K} => s[i].observed = 0 /\ s[i].change = "added"
      /\ \A k \in 1..r :
           /\ Ascending(T)[k] \in T
           /\ s[n + k].proposal = 0 /\ s[n + k].refs = {} /\ s[n + k].change = "removed"
           /\ s[n + k].observed = observedSteps[Ascending(T)[k]].id
  <2> DEFINE M == matchSteps(compared[1], compared[2])
  <2>1. /\ m \in Nat /\ n \in Nat /\ r \in Nat
        /\ DOMAIN observedSteps = 1..m /\ 1..n \subseteq DOMAIN proposedSteps
        /\ DOMAIN s = 1..(n + r)
        /\ T \subseteq 1..m
        /\ Pairing(M, m, Len(proposedSteps))
        /\ \A i \in 1..n :
             /\ s[i].proposal = proposedSteps[i].id
             /\ s[i].refs = links[proposedSteps[i].id]
             /\ \A c \in M : c[2] = i =>
                  s[i].observed = observedSteps[c[1]].id /\ s[i].change \in {"moved", "unchanged"}
             /\ i \notin {c[2] : c \in M} => s[i].observed = 0 /\ s[i].change = "added"
        /\ \A k \in 1..r :
             /\ Ascending(T)[k] \in T
             /\ s[n + k].proposal = 0 /\ s[n + k].refs = {} /\ s[n + k].change = "removed"
             /\ s[n + k].observed = observedSteps[Ascending(T)[k]].id
    BY <1>1, <1>3, OverlayFacts
  <2>2. K = {c \in M : c[2] \in 1..n}
    OBVIOUS
  <2> HIDE DEF M, K, T, s, r
  <2>3. Pairing(K, m, n)
    BY <2>1, <2>2 DEF Pairing
  <2>4. \A i \in 1..n : i \in {c[2] : c \in M} => i \in {c[2] : c \in K}
    BY <2>2
  <2>5. \A c \in K : c \in M
    BY <2>2
  <2>6. QED  BY <2>1, <2>3, <2>4, <2>5
<1>6. /\ \A i, j \in 1..m : observedSteps[i].id = observedSteps[j].id => i = j
      /\ \A i, j \in 1..n : proposedSteps[i].id = proposedSteps[j].id => i = j
  <2> DEFINE a == compared[1]
             b == compared[2]
  <2>1. a \in Comparable /\ Distinct(a.steps) /\ b \in Comparable /\ Distinct(b.steps)
    BY <1>1, <1>4
  <2>2. /\ observedSteps = a.steps /\ proposedSteps = b.steps
        /\ DOMAIN a.steps = 1..m /\ 1..n \subseteq DOMAIN b.steps
    BY <1>4, <1>5
  <2> HIDE DEF a, b
  <2>3. \A i, j \in DOMAIN a.steps : a.steps[i].id = a.steps[j].id => i = j
    BY <2>1, DistinctIds
  <2>4. \A i, j \in DOMAIN b.steps : b.steps[i].id = b.steps[j].id => i = j
    BY <2>1, DistinctIds
  <2>5. QED  BY <2>2, <2>3, <2>4
<1>7. /\ \A i \in 1..m : observedSteps[i].id # 0
      /\ \A i \in 1..n : proposedSteps[i].id # 0
  BY <1>4, <1>5, ReviewAssumption DEF Ids
<1>8. \A k \in 1..(n + r) : k \in 1..n \/ \E j \in 1..r : k = n + j
  <2>1. TAKE k \in 1..(n + r)
  <2>2. k \in 1..n \/ (k - n \in 1..r /\ k = n + (k - n))
    BY <1>5
  <2>3. QED  BY <2>2
<1>9. \A j \in 1..r : n + j \in 1..(n + r) /\ n + j \notin 1..n
  BY <1>5
<1>10. /\ \A c \in K : c[1] \in 1..m /\ c[2] \in 1..n
       /\ \A c, e \in K : c[1] = e[1] \/ c[2] = e[2] => c = e
  BY <1>5 DEF Pairing
<1>11. (\A i \in T : i \in Nat) /\ IsFiniteSet(T)
  <2>1. IsFiniteSet(1..m)
    BY <1>5, FS_Interval
  <2>2. T \subseteq 1..m
    BY <1>5
  <2>3. QED  BY <2>1, <2>2, FS_Subset
<1>12. \A i \in T : i \in 1..m /\ i \notin left
  <2>1. \A i \in T : i \notin left
    OBVIOUS
  <2>2. QED  BY <1>5, <2>1
<1>expected. /\ expectedPlaces = T \cup left
      /\ T \cap left = {}
  <2> DEFINE M == matchSteps(compared[1], compared[2])
             beside(i) == {c[2] : c \in {d \in M : d[1] = i}}
  <2>1. expectedPlaces = {i \in 1..m : \/ i \in mainPlaces(compared[1]) /\ beside(i) = {}
                                       \/ beside(i) \cap mainPlaces(compared[2]) # {}}
    BY <1>3, <1>5 DEF expectedPlaces
  <2>2. \A i : i \in mainPlaces(compared[1]) /\ beside(i) = {} <=> i \in T
    BY DEF mainPlaces
  <2>3. \A i : beside(i) \cap mainPlaces(compared[2]) # {} <=> i \in left
    BY DEF mainPlaces
  <2>4. left \subseteq 1..m
    BY <1>10
  <2> HIDE DEF beside, T, left
  <2>5. QED  BY <1>5, <1>12, <2>1, <2>2, <2>3, <2>4
<1>13. \A i \in left : \E c \in K : i = c[1]
  OBVIOUS
<1>14. \A i \in right : \E c \in K : i = c[2]
  OBVIOUS
<1>15. \A c \in K : c[1] \in left /\ c[2] \in right
  OBVIOUS
<1> HIDE DEF T, K, s, m, n, left, right
<1>16. ASSUME NEW i \in 1..m PROVE DrawnRight(i)
  <2>1. CASE i \in T
    <3>1. PICK j \in 1..r : Ascending(T)[j] = i
      BY <1>11, <2>1, AscendingEnumerates
    <3>2. n + j \in DOMAIN s /\ s[n + j].observed = observedSteps[i].id
      BY <1>5, <1>9, <3>1
    <3>3. ASSUME NEW k \in DOMAIN s, s[k].observed = observedSteps[i].id PROVE k = n + j
      <4>1. CASE k \in 1..n
        <5>1. CASE k \in right
          <6>1. PICK c \in K : c[2] = k
            BY <1>14, <5>1
          <6>2. c[1] = i
            <7>1. s[k].observed = observedSteps[c[1]].id /\ c[1] \in 1..m
              BY <1>5, <1>10, <4>1, <6>1
            <7>2. QED  BY <1>6, <3>3, <7>1
          <6>3. QED  BY <1>12, <1>15, <2>1, <6>2
        <5>2. CASE k \notin right
          BY <1>5, <1>7, <3>3, <4>1, <5>2 DEF right
        <5>3. QED  BY <5>1, <5>2
      <4>2. ASSUME NEW q \in 1..r, k = n + q PROVE k = n + j
        <5>1. observedSteps[Ascending(T)[q]].id = observedSteps[i].id /\ Ascending(T)[q] \in T
          BY <1>5, <3>3, <4>2
        <5>2. Ascending(T)[q] = i
          BY <1>6, <1>12, <5>1
        <5>3. q = j
          BY <1>11, <3>1, <5>2, AscendingEnumerates
        <5>4. QED  BY <4>2, <5>3
      <4>3. k \in 1..n \/ \E q \in 1..r : k = n + q
        BY <1>5, <1>8
      <4>4. QED  BY <4>1, <4>2, <4>3
    <3>4. \A k \in DOMAIN review.steps :
            review.steps[k]["observed"] = observedSteps[i].id <=> k = n + j
      BY <3>2, <3>3 DEF s
    <3>5. n + j \in DOMAIN review.steps
      BY <3>2 DEF s
    <3> DEFINE id == observedSteps[i].id
               k0 == n + j
    <3> HIDE DEF id, k0
    <3>6. k0 \in DOMAIN review.steps /\ \A k \in DOMAIN review.steps :
                                         review.steps[k]["observed"] = id <=> k = k0
      BY <3>4, <3>5 DEF id, k0
    <3>7. Times("observed", id) = 1
      BY <3>6, OnceIs
    <3>8. QED  BY <1>expected, <2>1, <3>7 DEF id, DrawnRight
  <2>2. CASE i \in left
    <3>1. PICK c \in K : c[1] = i
      BY <1>13, <2>2
    <3>2. c[2] \in 1..n /\ c[2] \in DOMAIN s /\ s[c[2]].observed = observedSteps[i].id
      BY <1>5, <1>10, <3>1
    <3>3. ASSUME NEW k \in DOMAIN s, s[k].observed = observedSteps[i].id PROVE k = c[2]
      <4>1. CASE k \in 1..n
        <5>1. CASE k \in right
          <6>1. PICK e \in K : e[2] = k
            BY <1>14, <5>1
          <6>2. e[1] = i
            <7>1. s[k].observed = observedSteps[e[1]].id /\ e[1] \in 1..m
              BY <1>5, <1>10, <4>1, <6>1
            <7>2. QED  BY <1>6, <3>3, <7>1
          <6>3. QED  BY <1>10, <3>1, <6>1, <6>2
        <5>2. CASE k \notin right
          BY <1>5, <1>7, <3>3, <4>1, <5>2 DEF right
        <5>3. QED  BY <5>1, <5>2
      <4>2. ASSUME NEW q \in 1..r, k = n + q PROVE FALSE
        <5>1. observedSteps[Ascending(T)[q]].id = observedSteps[i].id /\ Ascending(T)[q] \in T
          BY <1>5, <3>3, <4>2
        <5>2. Ascending(T)[q] = i
          BY <1>6, <1>12, <5>1
        <5>3. QED  BY <1>12, <2>2, <5>1, <5>2
      <4>3. k \in 1..n \/ \E q \in 1..r : k = n + q
        BY <1>5, <1>8
      <4>4. QED  BY <4>1, <4>2, <4>3
    <3>4. \A k \in DOMAIN review.steps :
            review.steps[k]["observed"] = observedSteps[i].id <=> k = c[2]
      BY <3>2, <3>3 DEF s
    <3>5. c[2] \in DOMAIN review.steps
      BY <3>2 DEF s
    <3> DEFINE id == observedSteps[i].id
               k0 == c[2]
    <3> HIDE DEF id, k0
    <3>6. k0 \in DOMAIN review.steps /\ \A k \in DOMAIN review.steps :
                                         review.steps[k]["observed"] = id <=> k = k0
      BY <3>4, <3>5 DEF id, k0
    <3>7. Times("observed", id) = 1
      BY <3>6, OnceIs
    <3>8. QED  BY <1>expected, <2>2, <3>7 DEF id, DrawnRight
  <2>3. CASE i \notin T /\ i \notin left
    <3>1. ASSUME NEW k \in 1..n, s[k].observed = observedSteps[i].id PROVE FALSE
      <4>1. CASE k \in right
        <5>1. PICK c \in K : c[2] = k
          BY <1>14, <4>1
        <5>2. s[k].observed = observedSteps[c[1]].id /\ c[1] \in 1..m
          BY <1>5, <1>10, <5>1
        <5>3. c[1] = i
          BY <1>6, <3>1, <5>2
        <5>4. QED  BY <1>15, <2>3, <5>3
      <4>2. CASE k \notin right
        BY <1>5, <1>7, <3>1, <4>2 DEF right
      <4>3. QED  BY <4>1, <4>2
    <3>2. ASSUME NEW q \in 1..r, s[n + q].observed = observedSteps[i].id PROVE FALSE
      <4>1. observedSteps[Ascending(T)[q]].id = observedSteps[i].id /\ Ascending(T)[q] \in T
        BY <1>5, <3>2
      <4>2. Ascending(T)[q] = i
        BY <1>6, <1>12, <4>1
      <4>3. QED  BY <2>3, <4>1, <4>2
    <3>3. \A k \in DOMAIN review.steps : review.steps[k]["observed"] # observedSteps[i].id
      BY <1>5, <1>8, <3>1, <3>2 DEF s
    <3> DEFINE id == observedSteps[i].id
    <3> HIDE DEF id
    <3>4. \A k \in DOMAIN review.steps : review.steps[k]["observed"] # id
      BY <3>3 DEF id
    <3>5. Times("observed", id) = 0
      BY <3>4, NeverIs
    <3>6. QED  BY <1>expected, <2>3, <3>5 DEF id, DrawnRight
  <2>4. QED  BY <2>1, <2>2, <2>3
<1>17. ASSUME NEW i \in 1..n
       PROVE  /\ Times("proposal", proposedSteps[i].id) = 1
              /\ \A k \in DOMAIN s : s[k].proposal = proposedSteps[i].id <=> k = i
              /\ i \in DOMAIN s
  <2>1. i \in DOMAIN s
    BY <1>5
  <2>2. \A k \in 1..n : s[k].proposal = proposedSteps[i].id <=> k = i
    BY <1>5, <1>6
  <2>3. \A j \in 1..r : s[n + j].proposal # proposedSteps[i].id /\ n + j # i
    BY <1>5, <1>7, <1>9
  <2>4. \A k \in DOMAIN s : s[k].proposal = proposedSteps[i].id <=> k = i
    BY <1>5, <1>8, <2>2, <2>3
  <2>5. QED  BY <2>1, <2>4, OnceIs DEF s
<1>18. ASSUME NEW i \in 1..n, NEW q \in References
       PROVE  q \in links[proposedSteps[i].id] <=>
                \E k \in review.claims[q] : review.steps[k].proposal = proposedSteps[i].id
  <2>1. review.claims[q] = {k \in DOMAIN s : q \in s[k].refs}
    BY DEF buildPlanReview, claims, s
  <2>2. s[i].refs = links[proposedSteps[i].id]
    BY <1>5
  <2>3. QED  BY <1>17, <2>1, <2>2 DEF s
<1>19. \A what \in Changes \cup {"unmatched", "unanchored", "linked"} :
         review.counts[what] = Cardinality({k \in DOMAIN s : CountsAs(s[k], what)})
  BY DEF buildPlanReview, counts, s
<1> DEFINE Counted(what) == {k \in DOMAIN s : CountsAs(s[k], what)}
<1>20. /\ Counted("moved") \cup Counted("unchanged") = right
       /\ Counted("moved") \cap Counted("unchanged") = {}
       /\ Counted("added") = (1..n) \ right
       /\ Counted("removed") = (n + 1)..(n + r)
       /\ Counted("linked") \cup Counted("unanchored") = 1..n
       /\ Counted("linked") \cap Counted("unanchored") = {}
  <2>1. \A k \in DOMAIN s : /\ k \in Counted("moved") <=> s[k].change = "moved"
                            /\ k \in Counted("unchanged") <=> s[k].change = "unchanged"
                            /\ k \in Counted("added") <=> s[k].change = "added"
                            /\ k \in Counted("removed") <=> s[k].change = "removed"
    BY DEF CountsAs
  <2>2. \A k \in 1..n : /\ k \in right => s[k].change \in {"moved", "unchanged"}
                        /\ k \notin right => s[k].change = "added"
    BY <1>5, <1>14 DEF right
  <2>3. \A k \in DOMAIN s : s[k].change \in Changes
    BY <1>5, <1>8, <2>2 DEF Changes
  <2>4. \A k \in DOMAIN s : /\ k \in Counted("linked") <=> s[k].refs # {}
                            /\ k \in Counted("unanchored") <=> s[k].proposal # 0 /\ s[k].refs = {}
    BY <2>3 DEF CountsAs, Changes
  <2>5. \A j \in 1..r : s[n + j].change = "removed" /\ s[n + j].refs = {} /\ s[n + j].proposal = 0
    BY <1>5
  <2>6. \A k \in 1..n : s[k].proposal # 0
    BY <1>5, <1>7
  <2>7. \A k : k \in (n + 1)..(n + r) <=> \E j \in 1..r : k = n + j
    <3>1. TAKE k
    <3>2. k \in (n + 1)..(n + r) => k - n \in 1..r /\ k = n + (k - n)
      BY <1>5
    <3>3. \A j \in 1..r : n + j \in (n + 1)..(n + r)
      BY <1>5
    <3>4. QED  BY <3>2, <3>3
  <2>8. right \subseteq 1..n
    BY <1>10, <1>14
  <2>9. \A k \in DOMAIN s : k \in 1..n \/ k \in (n + 1)..(n + r)
    BY <1>5
  <2>10. \A k : k \in Counted("moved") \/ k \in Counted("unchanged") \/ k \in Counted("added")
                \/ k \in Counted("removed") \/ k \in Counted("linked") \/ k \in Counted("unanchored")
                => k \in DOMAIN s
    OBVIOUS
  <2>11. \A k \in 1..n : k \in DOMAIN s /\ k \notin (n + 1)..(n + r)
    BY <1>5
  <2>12. \A k \in (n + 1)..(n + r) :
           /\ k \in DOMAIN s
           /\ s[k].change = "removed" /\ s[k].refs = {} /\ s[k].proposal = 0
    BY <1>5, <2>5, <2>7
  <2> HIDE DEF Counted
  <2>13. Counted("moved") \cup Counted("unchanged") = right
    BY <2>1, <2>2, <2>8, <2>9, <2>10, <2>11, <2>12
  <2>14. Counted("moved") \cap Counted("unchanged") = {}
    BY <2>1, <2>10
  <2>15. Counted("added") = (1..n) \ right
    BY <2>1, <2>2, <2>8, <2>9, <2>10, <2>11, <2>12
  <2>16. Counted("removed") = (n + 1)..(n + r)
    BY <2>1, <2>2, <2>8, <2>9, <2>10, <2>11, <2>12
  <2>17. Counted("linked") \cup Counted("unanchored") = 1..n
    BY <2>4, <2>6, <2>9, <2>10, <2>11, <2>12
  <2>18. Counted("linked") \cap Counted("unanchored") = {}
    BY <2>4, <2>10
  <2>19. QED  BY <2>13, <2>14, <2>15, <2>16, <2>17, <2>18
<1>21. /\ IsFiniteSet(1..n) /\ Cardinality(1..n) = n
       /\ IsFiniteSet(1..m) /\ Cardinality(1..m) = m
       /\ IsFiniteSet((n + 1)..(n + r)) /\ Cardinality((n + 1)..(n + r)) = r
  <2>1. \A x, y \in Int : /\ IsFiniteSet(x..y)
                          /\ Cardinality(x..y) = IF x > y THEN 0 ELSE y - x + 1
    BY FS_Interval
  <2>2. n + 1 \in Int /\ n + r \in Int /\ 1 \in Int /\ n \in Int /\ m \in Int
    BY <1>5
  <2>3. IsFiniteSet(1..n) /\ Cardinality(1..n) = IF 1 > n THEN 0 ELSE n - 1 + 1
    BY <2>1, <2>2
  <2>4. IsFiniteSet(1..m) /\ Cardinality(1..m) = IF 1 > m THEN 0 ELSE m - 1 + 1
    BY <2>1, <2>2
  <2>5. /\ IsFiniteSet((n + 1)..(n + r))
        /\ Cardinality((n + 1)..(n + r)) = IF n + 1 > n + r THEN 0 ELSE n + r - (n + 1) + 1
    <3> DEFINE x == n + 1
               y == n + r
    <3>1. x \in Int /\ y \in Int
      BY <2>2
    <3> HIDE DEF x, y
    <3>2. IsFiniteSet(x..y) /\ Cardinality(x..y) = IF x > y THEN 0 ELSE y - x + 1
      BY <2>1, <3>1
    <3>3. n \in Nat /\ r \in Nat
      BY <1>5
    <3> HIDE DEF r
    <3>4. QED  BY <3>2, <3>3 DEF x, y
  <2>6. QED  BY <1>5, <2>3, <2>4, <2>5
<1>22. /\ left \subseteq 1..m /\ right \subseteq 1..n
       /\ IsFiniteSet(left) /\ IsFiniteSet(right)
       /\ Cardinality(left) \in Nat /\ Cardinality(left) = Cardinality(right)
  BY <1>5, SidesAreEven DEF left, right
<1>23. \A X, Y : IsFiniteSet(X \cup Y) /\ X \cap Y = {} =>
         Cardinality(X \cup Y) = Cardinality(X) + Cardinality(Y)
  <2>1. TAKE X, Y
  <2>2. HAVE IsFiniteSet(X \cup Y) /\ X \cap Y = {}
  <2>3. IsFiniteSet(X) /\ IsFiniteSet(Y) /\ Cardinality(X) \in Nat /\ Cardinality(Y) \in Nat
    BY <2>2, FS_Subset, FS_CardinalityType
  <2>4. Cardinality(X \cup Y) = Cardinality(X) + Cardinality(Y) - Cardinality(X \cap Y)
    BY <2>3, FS_Union
  <2>5. Cardinality(X \cap Y) = 0
    BY <2>2, FS_EmptySet
  <2>6. QED  BY <2>3, <2>4, <2>5
<1>24. Cardinality(Counted("moved")) + Cardinality(Counted("unchanged")) = Cardinality(right)
  <2> HIDE DEF Counted
  <2>1. QED  BY <1>20, <1>22, <1>23
<1>25. Cardinality(Counted("linked")) + Cardinality(Counted("unanchored")) = n
  <2> HIDE DEF Counted
  <2>1. QED  BY <1>20, <1>21, <1>23
<1>26. Cardinality(Counted("added")) = n - Cardinality(right)
  <2>1. (1..n) \cap right = right
    BY <1>22
  <2>2. Cardinality((1..n) \ right) = n - Cardinality(right)
    <3> DEFINE all == 1..n
    <3>1. IsFiniteSet(all) /\ Cardinality(all) = n /\ all \cap right = right
      BY <1>21, <2>1
    <3> HIDE DEF all
    <3>2. Cardinality(all \ right) = Cardinality(all) - Cardinality(all \cap right)
      BY <3>1, FS_Difference
    <3>3. QED  BY <3>1, <3>2 DEF all
  <2> HIDE DEF Counted
  <2>3. QED  BY <1>20, <2>2
<1>27. Cardinality(expectedPlaces) = r + Cardinality(left)
  <2>1. IsFiniteSet(T \cup left)
    BY <1>11, <1>22, FS_Union
  <2>2. QED  BY <1>expected, <1>23, <2>1 DEF r
<1>28. Cardinality(Counted("removed")) = r
  <2> HIDE DEF Counted
  <2>1. QED  BY <1>20, <1>21
<1>29. /\ review.counts["moved"] = Cardinality(Counted("moved"))
       /\ review.counts["unchanged"] = Cardinality(Counted("unchanged"))
       /\ review.counts["added"] = Cardinality(Counted("added"))
       /\ review.counts["removed"] = Cardinality(Counted("removed"))
       /\ review.counts["linked"] = Cardinality(Counted("linked"))
       /\ review.counts["unanchored"] = Cardinality(Counted("unanchored"))
  BY <1>19 DEF Changes
<1> HIDE DEF Counted
<1>30. AddUp
  <2>1. Cardinality(right) \in Nat /\ r \in Nat /\ n \in Nat
    BY <1>5, <1>22
  <2>2. QED  BY <1>22, <1>24, <1>25, <1>26, <1>27, <1>28, <1>29, <2>1 DEF AddUp, n
<1>31. \A i \in mainPlaces(compared[2]) : Supported(i)
  BY <1>17, <1>18 DEF Supported, mainPlaces, n
<1>32. QED  BY <1>5, <1>16, <1>30, <1>31

\* Every step of the translation and every expected step of the observed flow
\* is drawn once, the counts add up, and boxes and lines agree.
THEOREM DrawingsDropNothing == ReviewSpec => []NothingIsDropped
<1>1. ReviewInv => NothingIsDropped
  BY StepsAllDrawn, LinesAgree DEF ReviewInv, NothingIsDropped
<1>2. QED  BY <1>1, ReviewInvariance, PTL

-----------------------------------------------------------------------------
(* Paths                                                                   *)

LexicalWalks == [safe : BOOLEAN, at : Seq(STRING)]

\* A segment takes a walk through a path on to another walk.
LEMMA OntoIs ==
  ASSUME NEW w \in LexicalWalks, NEW segment \in STRING
  PROVE  Onto(w, segment) \in LexicalWalks
<1>1. w.safe \in BOOLEAN /\ w.at \in Seq(STRING)
  BY DEF LexicalWalks
<1>2. CASE ~w.safe \/ segment = "."
  BY <1>2 DEF Onto
<1>3. CASE ~(~w.safe \/ segment = ".") /\ segment # ".."
  <2>1. Onto(w, segment) = [w EXCEPT !.at = Append(w.at, segment)]
    BY <1>3 DEF Onto
  <2>2. Append(w.at, segment) \in Seq(STRING)
    BY <1>1
  <2> DEFINE a == Append(w.at, segment)
  <2> HIDE DEF a
  <2>3. QED  BY <2>1, <2>2 DEF a, LexicalWalks
<1>4. CASE ~(~w.safe \/ segment = ".") /\ segment = ".." /\ w.at = <<>>
  BY <1>4 DEF Onto, LexicalWalks
<1>5. CASE ~(~w.safe \/ segment = ".") /\ segment = ".." /\ w.at # <<>>
  <2>1. Onto(w, segment) = [w EXCEPT !.at = Front(w.at)]
    BY <1>5 DEF Onto
  <2>2. Front(w.at) \in Seq(STRING)
    <3>1. Len(w.at) - 1 \in Nat /\ \A i \in 1..(Len(w.at) - 1) : i \in 1..Len(w.at)
      BY <1>1, <1>5
    <3>2. SubSeq(w.at, 1, Len(w.at) - 1) \in Seq(STRING)
      BY <1>1, <3>1
    <3>3. QED  BY <3>2 DEF Front
  <2> DEFINE a == Front(w.at)
  <2> HIDE DEF a
  <2>3. QED  BY <2>1, <2>2 DEF a, LexicalWalks
<1>6. QED  BY <1>2, <1>3, <1>4, <1>5

WalksLexically(walked, path) ==
  walked = [n \in 0..Len(path.at) |->
              IF n = 0 THEN [safe |-> TRUE, at |-> <<>>] ELSE Onto(walked[n - 1], path.at[n])]

\* What a path comes to is one path at most, and absolute if it is.
LEMMA NormalIs ==
  ASSUME NEW path \in Paths
  PROVE  /\ normalizeLexical(path) \subseteq Paths
         /\ \A q, r \in normalizeLexical(path) : q = r
<1> DEFINE n == Len(path.at)
           init == [safe |-> TRUE, at |-> <<>>]
           step == [x \in (1..n) \X LexicalWalks |-> Onto(x[2], path.at[x[1]])]
<1>1. path.at \in Seq(STRING) /\ path.absolute \in BOOLEAN
  BY DEF Paths
<1>2. n \in Nat /\ \A k \in 1..n : path.at[k] \in STRING
  BY <1>1
<1>3. init \in LexicalWalks
  BY DEF LexicalWalks
<1>4. step \in [(1..n) \X LexicalWalks -> LexicalWalks]
  <2> HIDE DEF n
  <2>1. QED  BY <1>2, OntoIs
<1>5. PICK f \in [0..n -> LexicalWalks] : Recurs(f, n, init, step)
  <2> HIDE DEF n, init, step
  <2>1. QED  BY <1>2, <1>3, <1>4, RecursionExists
<1>6. WalksLexically(f, path)
  <2> HIDE DEF init, n
  <2>1. \A k \in 0..n : f[k] = IF k = 0 THEN init ELSE Onto(f[k - 1], path.at[k])
    <3>1. TAKE k \in 0..n
    <3>2. CASE k = 0
      BY <1>5, <3>2 DEF Recurs
    <3>3. CASE k # 0
      <4>1. k \in 1..n /\ k - 1 \in 0..n
        BY <1>2, <3>3
      <4>2. f[k - 1] \in LexicalWalks
        BY <1>5, <4>1
      <4>3. step[<<k, f[k - 1]>>] = Onto(f[k - 1], path.at[k])
        BY <4>1, <4>2
      <4> HIDE DEF step
      <4>4. QED  BY <1>5, <3>3, <4>3 DEF Recurs
    <3>4. QED  BY <3>2, <3>3
  <2> HIDE DEF step
  <2>2. f = [k \in 0..n |-> f[k]]
    BY <1>5
  <2>3. f = [k \in 0..n |-> IF k = 0 THEN init ELSE Onto(f[k - 1], path.at[k])]
    BY <2>1, <2>2
  <2>4. QED  BY <2>3 DEF WalksLexically, init, n
<1>7. \A g : WalksLexically(g, path) => g[n] \in LexicalWalks
  <2>1. SUFFICES ASSUME NEW g, WalksLexically(g, path) PROVE g[n] \in LexicalWalks
    OBVIOUS
  <2> DEFINE P == {k \in Nat : k <= n => g[k] \in LexicalWalks}
  <2> HIDE DEF n
  <2>2. g[0] = init
    BY <1>2, <2>1 DEF WalksLexically, n
  <2>3. 0 \in P
    <3> HIDE DEF init
    <3>1. QED  BY <1>3, <2>2
  <2>4. ASSUME NEW k \in Nat, k < n, k \in P PROVE k + 1 \in P
    <3>1. k + 1 \in 0..n /\ k + 1 \in 1..n /\ k + 1 # 0 /\ (k + 1) - 1 = k
      BY <1>2, <2>4
    <3>2. g[k + 1] = Onto(g[k], path.at[k + 1])
      BY <2>1, <3>1 DEF WalksLexically, n
    <3>3. g[k] \in LexicalWalks
      BY <1>2, <2>4
    <3>4. path.at[k + 1] \in STRING
      BY <1>2, <3>1
    <3>5. g[k + 1] \in LexicalWalks
      BY <3>2, <3>3, <3>4, OntoIs
    <3>6. QED  BY <3>5
  <2> HIDE DEF P
  <2>5. \A k \in 0..n : k \in P
    BY <1>2, <2>3, <2>4, UpTo
  <2>6. n \in P
    BY <1>2, <2>5
  <2>7. QED  BY <1>2, <2>6 DEF P
<1> DEFINE end == (CHOOSE g : WalksLexically(g, path))[n]
<1>8. end \in LexicalWalks
  <2> HIDE DEF n
  <2>1. QED  BY <1>6, <1>7
<1>9. normalizeLexical(path) = IF end.safe THEN {[absolute |-> path.absolute, at |-> end.at]} ELSE {}
  BY DEF normalizeLexical, WalksLexically
<1> HIDE DEF end
<1>10. [absolute |-> path.absolute, at |-> end.at] \in Paths
  BY <1>1, <1>8 DEF Paths, LexicalWalks
<1>11. QED  BY <1>9, <1>10

\* What follows a beginning is what it has to be continued with.
LEMMA AfterIs ==
  ASSUME NEW s \in Seq(STRING), NEW t \in Seq(STRING)
  PROVE  \A u : u \in After(s, t) <=> u \in Seq(STRING) /\ t = s \o u
<1>1. /\ Len(s) \in Nat /\ Len(t) \in Nat /\ DOMAIN s = 1..Len(s) /\ DOMAIN t = 1..Len(t)
      /\ \A i \in 1..Len(t) : t[i] \in STRING
  OBVIOUS
<1>2. ASSUME NEW u \in After(s, t) PROVE u \in Seq(STRING) /\ t = s \o u
  <2> DEFINE m == Len(s)
             n == Len(t)
  <2>1. IsPrefix(s, t) /\ u = SubSeq(t, m + 1, n)
    BY <1>2 DEF After
  <2>2. m <= n /\ SubSeq(s, 1, m) = SubSeq(t, 1, m)
    BY <2>1 DEF IsPrefix
  <2> HIDE DEF m, n
  <2>3. m \in Nat /\ n \in Nat /\ DOMAIN s = 1..m /\ DOMAIN t = 1..n /\ Len(s) = m /\ Len(t) = n
    BY <1>1 DEF m, n
  <2>4. \A i \in 1..m : s[i] \in STRING /\ t[i] \in STRING
    BY <1>1, <2>2, <2>3
  <2>5. \A i \in 1..m : s[i] = t[i]
    <3>1. /\ \A i \in 1..(m - 1 + 1) : SubSeq(s, 1, m)[i] = s[1 + i - 1]
          /\ \A i \in 1..(m - 1 + 1) : SubSeq(t, 1, m)[i] = t[1 + i - 1]
      BY <2>3, <2>4, SubSeqProperties
    <3>2. TAKE i \in 1..m
    <3>3. i \in 1..(m - 1 + 1) /\ 1 + i - 1 = i
      BY <2>3
    <3>4. QED  BY <2>2, <3>1, <3>3
  <2>6. /\ u \in Seq(STRING)
        /\ Len(u) = IF m + 1 <= n THEN n - (m + 1) + 1 ELSE 0
        /\ \A i \in 1..(n - (m + 1) + 1) : u[i] = t[(m + 1) + i - 1]
    <3>1. m + 1 \in Int /\ n \in Int /\ \A i \in (m + 1)..n : i \in 1..n
      BY <2>3
    <3>2. \A i \in (m + 1)..n : t[i] \in STRING
      BY <1>1, <2>3, <3>1
    <3> DEFINE l == m + 1
    <3>3. l \in Int /\ n \in Int /\ \A i \in l..n : t[i] \in STRING
      BY <3>1, <3>2
    <3> HIDE DEF l
    <3>4. /\ SubSeq(t, l, n) \in Seq(STRING)
          /\ Len(SubSeq(t, l, n)) = IF l <= n THEN n - l + 1 ELSE 0
          /\ \A i \in 1..(n - l + 1) : SubSeq(t, l, n)[i] = t[l + i - 1]
      BY <3>3, SubSeqProperties
    <3>5. QED  BY <2>1, <3>4 DEF l
  <2>7. Len(u) = n - m /\ Len(u) \in Nat
    BY <2>2, <2>3, <2>6
  <2>8. /\ s \o u \in Seq(STRING) /\ Len(s \o u) = m + Len(u)
        /\ \A i \in 1..(m + Len(u)) : (s \o u)[i] = IF i <= m THEN s[i] ELSE u[i - m]
    BY <2>3, <2>6, ConcatProperties
  <2>9. Len(s \o u) = n
    BY <2>3, <2>7, <2>8
  <2>10. \A i \in 1..n : (s \o u)[i] = t[i]
    <3>1. TAKE i \in 1..n
    <3>2. (s \o u)[i] = IF i <= m THEN s[i] ELSE u[i - m]
      BY <2>3, <2>7, <2>8
    <3>3. CASE i <= m
      <4>1. i \in 1..m
        BY <2>3, <3>3
      <4>2. QED  BY <2>5, <3>2, <3>3, <4>1
    <3>4. CASE ~(i <= m)
      <4>1. i - m \in 1..(n - (m + 1) + 1) /\ (m + 1) + (i - m) - 1 = i
        BY <2>3, <3>4
      <4>2. u[i - m] = t[i]
        BY <2>6, <4>1
      <4>3. QED  BY <3>2, <3>4, <4>2
    <3>5. QED  BY <3>3, <3>4
  <2>11. s \o u = t
    BY <2>3, <2>8, <2>9, <2>10, SeqEqual
  <2>12. QED  BY <2>6, <2>11
<1>3. ASSUME NEW u \in Seq(STRING), t = s \o u PROVE u \in After(s, t)
  <2> DEFINE m == Len(s)
             n == Len(t)
             k == Len(u)
             v == SubSeq(t, m + 1, n)
  <2>1. /\ Len(s \o u) = m + k
        /\ \A i \in 1..(m + k) : (s \o u)[i] = IF i <= m THEN s[i] ELSE u[i - m]
    BY <1>3, ConcatProperties
  <2>2. m \in Nat /\ n \in Nat /\ k \in Nat /\ DOMAIN s = 1..m /\ DOMAIN t = 1..n /\ DOMAIN u = 1..k
    BY <1>1, <1>3
  <2>3. n = m + k
    BY <1>3, <2>1
  <2> HIDE DEF n, k, v
  <2>4. \A i \in 1..m : i \in 1..n /\ s[i] = t[i] /\ s[i] \in STRING /\ t[i] \in STRING
    <3> HIDE DEF m
    <3>1. TAKE i \in 1..m
    <3>2. i \in 1..(m + k) /\ i \in 1..n /\ i <= m
      BY <2>2, <2>3
    <3>3. t[i] = s[i]
      BY <1>3, <2>1, <3>2
    <3>4. t[i] \in STRING
      BY <1>1, <3>2 DEF n
    <3>5. QED  BY <3>2, <3>3, <3>4
  <2>5. SubSeq(s, 1, m) = SubSeq(t, 1, m)
    <3> HIDE DEF m
    <3>1. 1 \in Int /\ m \in Int /\ \A i \in 1..m : s[i] \in STRING /\ t[i] \in STRING
      BY <2>2, <2>4
    <3>2. /\ SubSeq(s, 1, m) \in Seq(STRING) /\ SubSeq(t, 1, m) \in Seq(STRING)
          /\ Len(SubSeq(s, 1, m)) = IF 1 <= m THEN m - 1 + 1 ELSE 0
          /\ Len(SubSeq(t, 1, m)) = IF 1 <= m THEN m - 1 + 1 ELSE 0
          /\ \A i \in 1..(m - 1 + 1) : SubSeq(s, 1, m)[i] = s[1 + i - 1]
          /\ \A i \in 1..(m - 1 + 1) : SubSeq(t, 1, m)[i] = t[1 + i - 1]
      BY <3>1, SubSeqProperties
    <3> DEFINE a == SubSeq(s, 1, m)
               b == SubSeq(t, 1, m)
    <3> HIDE DEF a, b
    <3>3. a \in Seq(STRING) /\ b \in Seq(STRING) /\ Len(a) = m /\ Len(b) = m /\ \A i \in 1..m : a[i] = b[i]
      <4>1. /\ a \in Seq(STRING) /\ b \in Seq(STRING)
            /\ Len(a) = IF 1 <= m THEN m - 1 + 1 ELSE 0
            /\ Len(b) = IF 1 <= m THEN m - 1 + 1 ELSE 0
            /\ \A i \in 1..(m - 1 + 1) : a[i] = s[1 + i - 1] /\ b[i] = t[1 + i - 1]
        BY <3>2 DEF a, b
      <4>2. \A i \in 1..m : i \in 1..(m - 1 + 1) /\ 1 + i - 1 = i
        BY <2>2
      <4>3. \A i \in 1..m : a[i] = s[i] /\ b[i] = t[i]
        BY <4>1, <4>2
      <4>4. QED  BY <2>2, <2>4, <4>1, <4>3
    <3>4. a = b
      BY <3>3, SeqEqual
    <3>5. QED  BY <3>4 DEF a, b
  <2>6. m <= n
    <3> HIDE DEF m
    <3>1. QED  BY <2>2, <2>3
  <2>7. IsPrefix(s, t)
    BY <2>5, <2>6 DEF IsPrefix, n
  <2>8. v \in Seq(STRING) /\ Len(v) = k /\ \A i \in 1..k : v[i] = u[i]
    <3> HIDE DEF m
    <3> DEFINE l == m + 1
    <3>1. l \in Int /\ n \in Int /\ \A i \in l..n : i \in 1..n
      BY <2>2
    <3>2. \A i \in l..n : t[i] \in STRING
      BY <1>1, <3>1 DEF n
    <3> HIDE DEF l
    <3>3. /\ SubSeq(t, l, n) \in Seq(STRING)
          /\ Len(SubSeq(t, l, n)) = IF l <= n THEN n - l + 1 ELSE 0
          /\ \A i \in 1..(n - l + 1) : SubSeq(t, l, n)[i] = t[l + i - 1]
      BY <3>1, <3>2, SubSeqProperties
    <3>4. v = SubSeq(t, l, n)
      BY DEF v, l
    <3>5. n - l + 1 = k
      BY <2>2, <2>3 DEF l
    <3>6. Len(v) = k
      BY <2>2, <2>3, <3>3, <3>4 DEF l
    <3>7. ASSUME NEW i \in 1..k PROVE v[i] = u[i]
      <4>1. v[i] = t[l + i - 1]
        BY <3>3, <3>4, <3>5
      <4>2. l + i - 1 = m + i /\ m + i \in 1..(m + k) /\ ~(m + i <= m) /\ (m + i) - m = i
        BY <2>2 DEF l
      <4>3. t[m + i] = u[i]
        BY <1>3, <2>1, <4>2
      <4>4. QED  BY <4>1, <4>2, <4>3
    <3>8. QED  BY <3>3, <3>4, <3>6, <3>7
  <2>9. v = u
    BY <1>3, <2>8, SeqEqual DEF k
  <2>10. QED  BY <2>7, <2>9 DEF After, v, n
<1>4. QED  BY <1>2, <1>3

\* A path is what it is written as.
LEMMA PathIs ==
  ASSUME NEW q \in Paths, NEW absolute \in BOOLEAN, NEW at \in Seq(STRING)
  PROVE  q = [absolute |-> absolute, at |-> at] <=> q.absolute = absolute /\ q.at = at
BY DEF Paths

\* Where a path is looked for is where the file may be written.
LEMMA HereIs ==
  ASSUME NEW raw \in Paths, NEW p \in Files
  PROVE  p \in InRepository(raw) <=>
           \/ raw = [absolute |-> FALSE, at |-> p]
           \/ raw = [absolute |-> TRUE, at |-> Repository.at \o p]
<1>1. /\ raw.absolute \in BOOLEAN /\ raw.at \in Seq(STRING) /\ p \in Seq(STRING)
      /\ Repository.at \in Seq(STRING) /\ Repository.absolute
  BY CoverageAssumption DEF Paths, Files
<1>2. Repository.at \o p \in Seq(STRING)
  BY <1>1, ConcatProperties
<1>3. raw = [absolute |-> FALSE, at |-> p] <=> ~raw.absolute /\ raw.at = p
  BY <1>1, PathIs
<1>4. raw = [absolute |-> TRUE, at |-> Repository.at \o p] <=> raw.absolute /\ raw.at = Repository.at \o p
  <2> DEFINE a == Repository.at \o p
  <2> HIDE DEF a
  <2>1. raw = [absolute |-> TRUE, at |-> a] <=> raw.absolute = TRUE /\ raw.at = a
    BY <1>2, PathIs DEF a
  <2>2. QED  BY <1>1, <2>1 DEF a
<1>5. CASE ~raw.absolute
  BY <1>3, <1>4, <1>5 DEF InRepository
<1>6. CASE raw.absolute
  <2>1. InRepository(raw) = After(Repository.at, raw.at)
    BY <1>1, <1>6 DEF InRepository, relativeWithin, FromSlash
  <2>2. p \in After(Repository.at, raw.at) <=> raw.at = Repository.at \o p
    BY <1>1, AfterIs
  <2>3. QED  BY <1>3, <1>4, <1>6, <2>1, <2>2
<1>7. QED  BY <1>5, <1>6

\* A path that is not empty is within a root if it is written from it.
LEMMA WithinIs ==
  ASSUME NEW raw \in Paths, Names(raw), NEW root \in Paths
  PROVE  \A s : s \in relativeWithin(root, raw) <=>
                  s \in Seq(STRING) /\ raw = [absolute |-> FromSlash(root), at |-> root.at \o s]
<1>1. /\ raw.absolute \in BOOLEAN /\ raw.at \in Seq(STRING)
      /\ root.absolute \in BOOLEAN /\ root.at \in Seq(STRING)
  BY DEF Paths
<1>2. FromSlash(raw) = raw.absolute /\ FromSlash(root) \in BOOLEAN
  BY <1>1 DEF FromSlash, Names
<1>3. TAKE s
<1>4. s \in After(root.at, raw.at) <=> s \in Seq(STRING) /\ raw.at = root.at \o s
  BY <1>1, AfterIs
<1>5. ASSUME s \in Seq(STRING)
      PROVE  raw = [absolute |-> FromSlash(root), at |-> root.at \o s] <=>
               raw.absolute = FromSlash(root) /\ raw.at = root.at \o s
  <2> DEFINE a == root.at \o s
             b == FromSlash(root)
  <2>1. a \in Seq(STRING) /\ b \in BOOLEAN
    BY <1>1, <1>2, <1>5, ConcatProperties
  <2> HIDE DEF a, b
  <2>2. raw = [absolute |-> b, at |-> a] <=> raw.absolute = b /\ raw.at = a
    BY <2>1, PathIs
  <2>3. QED  BY <2>2 DEF a, b
<1>6. QED  BY <1>2, <1>4, <1>5 DEF relativeWithin

Mappings == [from : Paths, to : Seq(STRING)]

MappedTo(raw, p, mappings) ==
  \E m \in mappings : \E root \in normalizeLexical(m.from) : \E s \in Seq(STRING) :
    p = m.to \o s /\ raw = [absolute |-> FromSlash(root), at |-> root.at \o s]

\* The files below what is mapped to a directory, from the path and from the file.
LEMMA MappedIs ==
  ASSUME NEW raw \in Paths, Names(raw), NEW p \in Files, NEW mappings \in SUBSET Mappings
  PROVE  /\ p \in Mapped(raw, mappings) <=> MappedTo(raw, p, mappings)
         /\ raw \in UNION {BelowMapped(p, m) : m \in mappings} <=> MappedTo(raw, p, mappings)
<1>1. \A m \in mappings : m.to \in Seq(STRING) /\ normalizeLexical(m.from) \subseteq Paths
  BY NormalIs DEF Mappings
<1>2. p \in Seq(STRING)
  BY DEF Files
<1>3. p \in Mapped(raw, mappings) <=>
        \E m \in mappings : \E root \in normalizeLexical(m.from) :
          \E s \in relativeWithin(root, raw) : p = m.to \o s
  BY DEF Mapped
<1>4. ASSUME NEW m \in mappings, NEW root \in normalizeLexical(m.from)
      PROVE  (\E s \in relativeWithin(root, raw) : p = m.to \o s) <=>
             \E s \in Seq(STRING) :
               p = m.to \o s /\ raw = [absolute |-> FromSlash(root), at |-> root.at \o s]
  <2>1. root \in Paths
    BY <1>1
  <2>2. \A s : s \in relativeWithin(root, raw) <=>
                 s \in Seq(STRING) /\ raw = [absolute |-> FromSlash(root), at |-> root.at \o s]
    BY <2>1, WithinIs
  <2>3. QED  BY <2>2, Zenon
<1>5. ASSUME NEW m \in mappings
      PROVE  \A s : s \in After(m.to, p) <=> s \in Seq(STRING) /\ p = m.to \o s
  BY <1>1, <1>2, AfterIs
<1>6. ASSUME NEW m \in mappings
      PROVE  raw \in BelowMapped(p, m) <=>
               \E root \in normalizeLexical(m.from) : \E s \in After(m.to, p) :
                 raw = [absolute |-> FromSlash(root), at |-> root.at \o s]
  BY DEF BelowMapped
<1>7. p \in Mapped(raw, mappings) <=> MappedTo(raw, p, mappings)
  BY <1>3, <1>4, Zenon DEF MappedTo
<1>8. ASSUME NEW m \in mappings
      PROVE  raw \in BelowMapped(p, m) <=>
               \E root \in normalizeLexical(m.from) : \E s \in Seq(STRING) :
                 p = m.to \o s /\ raw = [absolute |-> FromSlash(root), at |-> root.at \o s]
  BY <1>5, <1>6, Zenon
<1>9. raw \in UNION {BelowMapped(p, m) : m \in mappings} <=> \E m \in mappings : raw \in BelowMapped(p, m)
  OBVIOUS
<1>10. QED  BY <1>7, <1>8, <1>9, Zenon DEF MappedTo

RootedAt(raw, p, roots) ==
  \E root \in Lexical(roots) : \E h \in FromHere(p) :
    h.absolute = root.absolute /\ ~raw.absolute /\ h.at = root.at \o raw.at

\* And the files below a root.
LEMMA RootedIs ==
  ASSUME NEW raw \in Paths, NEW p \in Files, NEW roots \in SUBSET Paths
  PROVE  /\ p \in UNION {InRepository(joined) : joined \in Rooted(raw, roots)} <=>
              (raw.absolute /\ p \in InRepository(raw)) \/ RootedAt(raw, p, roots)
         /\ raw \in UNION {BelowRoot(p, root) : root \in Lexical(roots)} <=> RootedAt(raw, p, roots)
<1>1. raw.absolute \in BOOLEAN /\ raw.at \in Seq(STRING) /\ p \in Seq(STRING)
      /\ Repository.at \in Seq(STRING) /\ Repository.at \o p \in Seq(STRING)
  BY CoverageAssumption, ConcatProperties DEF Paths, Files
<1>2. \A root \in Lexical(roots) : root \in Paths /\ root.at \in Seq(STRING) /\ root.absolute \in BOOLEAN
  BY NormalIs DEF Lexical, Paths
<1>3. \A h \in FromHere(p) : h \in Paths /\ h.at \in Seq(STRING) /\ h.absolute \in BOOLEAN
  <2> DEFINE a == Repository.at \o p
  <2>1. FromHere(p) = {[absolute |-> FALSE, at |-> p], [absolute |-> TRUE, at |-> a]}
    BY DEF FromHere
  <2> HIDE DEF a
  <2>2. a \in Seq(STRING)
    BY <1>1 DEF a
  <2>3. \A b \in BOOLEAN, t \in Seq(STRING) :
          LET q == [absolute |-> b, at |-> t]
          IN q \in Paths /\ q.at \in Seq(STRING) /\ q.absolute \in BOOLEAN
    BY DEF Paths
  <2>4. TAKE h \in FromHere(p)
  <2>5. PICK b \in BOOLEAN, t \in Seq(STRING) : h = [absolute |-> b, at |-> t]
    BY <1>1, <2>1, <2>2, <2>4
  <2>6. QED  BY <2>3, <2>5
<1>4. ASSUME NEW root \in Lexical(roots)
      PROVE  p \in InRepository([absolute |-> root.absolute, at |-> root.at \o raw.at]) <=>
               \E h \in FromHere(p) : h.absolute = root.absolute /\ h.at = root.at \o raw.at
  <2> DEFINE a == root.at \o raw.at
             j == [absolute |-> root.absolute, at |-> a]
  <2>1. a \in Seq(STRING)
    BY <1>1, <1>2, ConcatProperties
  <2> HIDE DEF a
  <2>2. j \in Paths
    BY <1>2, <2>1 DEF Paths
  <2>3. p \in InRepository(j) <=> j \in FromHere(p)
    <3> HIDE DEF j
    <3>1. QED  BY <2>2, HereIs DEF FromHere
  <2>4. \A h \in FromHere(p) : h = j <=> h.absolute = root.absolute /\ h.at = a
    BY <1>2, <1>3, <2>1, PathIs
  <2>5. QED  BY <2>3, <2>4 DEF a
<1>5. ASSUME raw.absolute
      PROVE  p \in UNION {InRepository(joined) : joined \in Rooted(raw, roots)} <=>
              (raw.absolute /\ p \in InRepository(raw)) \/ RootedAt(raw, p, roots)
  <2>1. Rooted(raw, roots) = {raw} /\ ~RootedAt(raw, p, roots)
    BY <1>5 DEF Rooted, RootedAt
  <2>2. p \in UNION {InRepository(joined) : joined \in {raw}} <=> p \in InRepository(raw)
    OBVIOUS
  <2>3. p \in UNION {InRepository(joined) : joined \in Rooted(raw, roots)} <=> p \in InRepository(raw)
    BY <2>1, <2>2
  <2>4. QED  BY <1>5, <2>1, <2>3
<1>6. ASSUME ~raw.absolute
      PROVE  p \in UNION {InRepository(joined) : joined \in Rooted(raw, roots)} <=>
              (raw.absolute /\ p \in InRepository(raw)) \/ RootedAt(raw, p, roots)
  <2>1. Rooted(raw, roots) = {[absolute |-> root.absolute, at |-> root.at \o raw.at] : root \in Lexical(roots)}
    BY <1>6 DEF Rooted
  <2>2. p \in UNION {InRepository(joined) : joined \in Rooted(raw, roots)} <=>
          \E joined \in Rooted(raw, roots) : p \in InRepository(joined)
    OBVIOUS
  <2>3. (\E joined \in Rooted(raw, roots) : p \in InRepository(joined)) <=>
          \E root \in Lexical(roots) : p \in InRepository([absolute |-> root.absolute, at |-> root.at \o raw.at])
    BY <2>1, Zenon
  <2>4. (\E root \in Lexical(roots) : p \in InRepository([absolute |-> root.absolute, at |-> root.at \o raw.at]))
          <=> RootedAt(raw, p, roots)
    BY <1>4, <1>6, Zenon DEF RootedAt
  <2>5. QED  BY <1>6, <2>2, <2>3, <2>4
<1>7. ASSUME NEW root \in Lexical(roots), NEW h \in FromHere(p)
      PROVE  raw \in {[absolute |-> FALSE, at |-> s] : s \in After(root.at, h.at)} <=>
               ~raw.absolute /\ h.at = root.at \o raw.at
  <2>1. \A s : s \in After(root.at, h.at) <=> s \in Seq(STRING) /\ h.at = root.at \o s
    BY <1>2, <1>3, AfterIs
  <2>2. \A s \in Seq(STRING) : raw = [absolute |-> FALSE, at |-> s] <=> ~raw.absolute /\ raw.at = s
    BY <1>1, PathIs
  <2>3. QED  BY <1>1, <2>1, <2>2
<1>8. ASSUME NEW root \in Lexical(roots)
      PROVE  raw \in BelowRoot(p, root) <=>
               \E h \in FromHere(p) :
                 h.absolute = root.absolute /\ raw \in {[absolute |-> FALSE, at |-> s] : s \in After(root.at, h.at)}
  BY DEF BelowRoot
<1>9. raw \in UNION {BelowRoot(p, root) : root \in Lexical(roots)} <=> RootedAt(raw, p, roots)
  <2>1. raw \in UNION {BelowRoot(p, root) : root \in Lexical(roots)} <=>
          \E root \in Lexical(roots) : raw \in BelowRoot(p, root)
    OBVIOUS
  <2>2. ASSUME NEW root \in Lexical(roots)
        PROVE  raw \in BelowRoot(p, root) <=>
                 \E h \in FromHere(p) :
                   h.absolute = root.absolute /\ ~raw.absolute /\ h.at = root.at \o raw.at
    BY <1>7, <1>8, Zenon
  <2>3. QED  BY <2>1, <2>2, Zenon DEF RootedAt
<1>10. QED  BY <1>5, <1>6, <1>9

\* A file is what a path may stand for if and only if the path is a way to
\* write it.
LEMMA MapsAsSpelled ==
  ASSUME NEW path \in Paths, NEW roots \in SUBSET Paths, NEW mappings \in SUBSET Mappings,
         NEW paths \in SUBSET Files, NEW p \in paths
  PROVE  p \in mapArtifactPath(path, roots, mappings, paths) <=>
           \E raw \in normalizeLexical(path) : Names(raw) /\ raw \in Spellings(p, roots, mappings)
<1>1. p \in Files /\ normalizeLexical(path) \subseteq Paths
  BY NormalIs
<1>2. p \in mapArtifactPath(path, roots, mappings, paths) <=>
        \E raw \in normalizeLexical(path) :
          /\ Names(raw)
          /\ \/ p \in InRepository(raw) \/ p \in Mapped(raw, mappings)
             \/ p \in UNION {InRepository(joined) : joined \in Rooted(raw, roots)}
  BY DEF mapArtifactPath
<1>3. ASSUME NEW raw \in normalizeLexical(path), Names(raw)
      PROVE  (\/ p \in InRepository(raw) \/ p \in Mapped(raw, mappings)
              \/ p \in UNION {InRepository(joined) : joined \in Rooted(raw, roots)})
             <=> raw \in Spellings(p, roots, mappings)
  <2> DEFINE Mps == UNION {BelowMapped(p, m) : m \in mappings}
             Rts == UNION {BelowRoot(p, root) : root \in Lexical(roots)}
  <2>1. raw \in Paths
    BY <1>1
  <2>2. Spellings(p, roots, mappings) = FromHere(p) \cup Mps \cup Rts
    BY DEF Spellings
  <2>3. p \in InRepository(raw) <=> raw \in FromHere(p)
    BY <1>1, <2>1, HereIs DEF FromHere
  <2>4. p \in Mapped(raw, mappings) <=> raw \in Mps
    BY <1>1, <1>3, <2>1, MappedIs
  <2>5. p \in UNION {InRepository(joined) : joined \in Rooted(raw, roots)} <=>
          (raw.absolute /\ p \in InRepository(raw)) \/ raw \in Rts
    BY <1>1, <2>1, RootedIs
  <2> HIDE DEF Mps, Rts
  <2>6. QED  BY <2>2, <2>3, <2>4, <2>5
<1>4. QED  BY <1>2, <1>3

\* The highest of finitely many numbers.
LEMMA MaxIs ==
  ASSUME NEW S, \A x \in S : x \in Nat, IsFiniteSet(S), S # {}
  PROVE  Max(S) \in S /\ \A x \in S : x <= Max(S)
<1> DEFINE R == {p \in S \X S : p[1] < p[2]}
           N == Cardinality(S)
<1>1. \A x, y \in S : <<x, y>> \in R <=> x < y
  OBVIOUS
<1>2. \A x \in S : x \in Nat
  OBVIOUS
<1> HIDE DEF R
<1>3. Orders(R, S)
  BY <1>1, <1>2 DEF Orders
<1>4. /\ N \in Nat
      /\ \A x \in S : Rank(S, R, x) \in 0..(N - 1)
      /\ \A x, y \in S : <<x, y>> \in R <=> Rank(S, R, x) < Rank(S, R, y)
      /\ \A x, y \in S : Rank(S, R, x) = Rank(S, R, y) => x = y
      /\ \A k \in 0..(N - 1) : \E x \in S : Rank(S, R, x) = k
  BY <1>3, Ranking
<1> HIDE DEF N
<1>5. N - 1 \in 0..(N - 1)
  <2>1. PICK x \in S : Rank(S, R, x) \in 0..(N - 1)
    BY <1>4
  <2>2. QED  BY <1>4, <2>1
<1>6. PICK x \in S : Rank(S, R, x) = N - 1
  BY <1>4, <1>5
<1>7. \A y \in S : x >= y
  <2>1. TAKE y \in S
  <2>2. ~(Rank(S, R, x) < Rank(S, R, y))
    BY <1>4, <1>6
  <2>3. ~(x < y)
    BY <1>1, <1>4, <2>2
  <2>4. QED  BY <1>2, <2>3
<1>8. Max(S) \in S /\ \A y \in S : Max(S) >= y
  BY <1>7 DEF Max
<1>9. QED  BY <1>2, <1>8

Counted(lines) ==
  \A l \in lines : l.hits \in Nat /\ l.covered \in Nat /\ l.total \in Nat

\* Every counter of a line is the highest one of the lines it was made of.
Tops(r, lines) ==
  /\ r.hits \in Nat /\ r.covered \in Nat /\ r.total \in Nat
  /\ \E l \in lines : l.hits = r.hits
  /\ \E l \in lines : l.covered = r.covered
  /\ \E l \in lines : l.total = r.total
  /\ \A l \in lines : l.hits <= r.hits /\ l.covered <= r.covered /\ l.total <= r.total

\* What is made of the elements of a finite set is finite.
LEMMA ImageIsFinite ==
  ASSUME NEW S, IsFiniteSet(S), NEW f, DOMAIN f = S
  PROVE  IsFiniteSet({f[x] : x \in S})
<1> DEFINE T == {f[x] : x \in S}
<1>1. [x \in S |-> f[x]] \in Surjection(S, T)
  BY DEF Surjection
<1>2. QED  BY <1>1, FS_Surjection

\* Lines that are merged are the highest counters of each.
LEMMA MergeTops ==
  ASSUME NEW lines, IsFiniteSet(lines), lines # {}, Counted(lines)
  PROVE  Tops(mergeLine(lines), lines)
<1> DEFINE H == {l.hits : l \in lines}
           C == {l.covered : l \in lines}
           T == {l.total : l \in lines}
<1>1. (\A x \in H : x \in Nat) /\ (\A x \in C : x \in Nat) /\ (\A x \in T : x \in Nat)
  BY DEF Counted
<1>2. H # {} /\ C # {} /\ T # {}
  OBVIOUS
<1>3. IsFiniteSet(H) /\ IsFiniteSet(C) /\ IsFiniteSet(T)
  <2>1. H = {[k \in lines |-> k.hits][l] : l \in lines} /\ DOMAIN [l \in lines |-> l.hits] = lines
    OBVIOUS
  <2>2. C = {[k \in lines |-> k.covered][l] : l \in lines} /\ DOMAIN [l \in lines |-> l.covered] = lines
    OBVIOUS
  <2>3. T = {[k \in lines |-> k.total][l] : l \in lines} /\ DOMAIN [l \in lines |-> l.total] = lines
    OBVIOUS
  <2> DEFINE h == [l \in lines |-> l.hits]
             c == [l \in lines |-> l.covered]
             t == [l \in lines |-> l.total]
  <2>4. H = {h[l] : l \in lines} /\ DOMAIN h = lines
    BY <2>1
  <2>5. C = {c[l] : l \in lines} /\ DOMAIN c = lines
    BY <2>2
  <2>6. T = {t[l] : l \in lines} /\ DOMAIN t = lines
    BY <2>3
  <2> HIDE DEF h, c, t, H, C, T
  <2>7. QED  BY <2>4, <2>5, <2>6, ImageIsFinite
<1> DEFINE h == Max(H)
           c == Max(C)
           t == Max(T)
<1>4. /\ h \in H /\ \A x \in H : x <= h
      /\ c \in C /\ \A x \in C : x <= c
      /\ t \in T /\ \A x \in T : x <= t
  <2> HIDE DEF H, C, T
  <2>1. QED  BY <1>1, <1>2, <1>3, MaxIs
<1>5. mergeLine(lines) = [hits |-> h, covered |-> c, total |-> t]
  BY DEF mergeLine
<1> HIDE DEF h, c, t
<1>6. \A l \in lines : l.hits \in H /\ l.covered \in C /\ l.total \in T
  OBVIOUS
<1>7. /\ h \in Nat /\ c \in Nat /\ t \in Nat
      /\ \E l \in lines : l.hits = h
      /\ \E l \in lines : l.covered = c
      /\ \E l \in lines : l.total = t
      /\ \A l \in lines : l.hits <= h /\ l.covered <= c /\ l.total <= t
  <2>1. \A l \in lines : l.hits <= h /\ l.covered <= c /\ l.total <= t
    <3> HIDE DEF H, C, T
    <3>1. QED  BY <1>4, <1>6
  <2>2. h \in Nat /\ c \in Nat /\ t \in Nat
    <3> HIDE DEF H, C, T
    <3>1. QED  BY <1>1, <1>4
  <2>3. QED  BY <1>4, <2>1, <2>2
<1> DEFINE r == [hits |-> h, covered |-> c, total |-> t]
<1>8. r.hits = h /\ r.covered = c /\ r.total = t
  OBVIOUS
<1> HIDE DEF r
<1>9. Tops(r, lines)
  BY <1>7, <1>8 DEF Tops
<1>10. QED  BY <1>5, <1>9 DEF r

\* The lines fall into groups, and each group has its best.
Summed(names, best, Of, lines) ==
  /\ \A g \in names : Of[g] \subseteq lines /\ Tops(best[g], Of[g])
  /\ \A l \in lines : \E g \in names : l \in Of[g]

\* What is best of the best is the best of all.
LEMMA TopsOfTops ==
  ASSUME NEW names, NEW best, NEW Of, NEW lines, Counted(lines),
         Summed(names, best, Of, lines), NEW r, Tops(r, {best[g] : g \in names})
  PROVE  Tops(r, lines)
<1>1. \A g \in names : /\ best[g].hits \in Nat /\ best[g].covered \in Nat /\ best[g].total \in Nat
                       /\ best[g].hits <= r.hits /\ best[g].covered <= r.covered
                       /\ best[g].total <= r.total
  BY DEF Tops, Summed
<1>2. r.hits \in Nat /\ r.covered \in Nat /\ r.total \in Nat
  BY DEF Tops
<1>3. \A l \in lines : l.hits <= r.hits /\ l.covered <= r.covered /\ l.total <= r.total
  <2>1. TAKE l \in lines
  <2>2. PICK g \in names : l \in Of[g]
    BY DEF Summed
  <2>3. l.hits <= best[g].hits /\ l.covered <= best[g].covered /\ l.total <= best[g].total
    BY <2>2 DEF Tops, Summed
  <2>4. l.hits \in Nat /\ l.covered \in Nat /\ l.total \in Nat
    BY DEF Counted
  <2>5. QED  BY <1>1, <1>2, <2>3, <2>4
<1>4. \E l \in lines : l.hits = r.hits
  <2>1. PICK g \in names : best[g].hits = r.hits
    BY DEF Tops
  <2>2. \E l \in Of[g] : l.hits = best[g].hits
    BY DEF Tops, Summed
  <2>3. QED  BY <2>1, <2>2 DEF Summed
<1>5. \E l \in lines : l.covered = r.covered
  <2>1. PICK g \in names : best[g].covered = r.covered
    BY DEF Tops
  <2>2. \E l \in Of[g] : l.covered = best[g].covered
    BY DEF Tops, Summed
  <2>3. QED  BY <2>1, <2>2 DEF Summed
<1>6. \E l \in lines : l.total = r.total
  <2>1. PICK g \in names : best[g].total = r.total
    BY DEF Tops
  <2>2. \E l \in Of[g] : l.total = best[g].total
    BY DEF Tops, Summed
  <2>3. QED  BY <2>1, <2>2 DEF Summed
<1>7. QED  BY <1>2, <1>3, <1>4, <1>5, <1>6 DEF Tops

RanThere(facts) ==
  /\ \E f \in facts : f.hits > 0
  /\ \E f \in facts : f.covered = f.total /\ \A g \in facts : g.total <= f.total

\* A line that is the best of what was measured is executed if something ran,
\* and all branches of those who know of most branches.
LEMMA ExecutedIs ==
  ASSUME NEW r, NEW lines, Tops(r, lines), Counted(lines),
         \A l \in lines : l.covered <= l.total
  PROVE  Executed(r) <=> RanThere(lines)
<1>1. r.hits > 0 <=> \E l \in lines : l.hits > 0
  <2>1. ASSUME NEW l \in lines, l.hits > 0 PROVE r.hits > 0
    <3>1. l.hits \in Nat /\ r.hits \in Nat /\ l.hits <= r.hits
      BY DEF Counted, Tops
    <3>2. QED  BY <2>1, <3>1
  <2>2. PICK l \in lines : l.hits = r.hits
    BY DEF Tops
  <2>3. QED  BY <2>1, <2>2
<1>2. ASSUME r.covered = r.total
      PROVE  \E f \in lines : f.covered = f.total /\ \A g \in lines : g.total <= f.total
  <2>1. PICK f \in lines : f.covered = r.covered
    BY DEF Tops
  <2>2. f.covered \in Nat /\ f.total \in Nat /\ r.total \in Nat /\ f.covered <= f.total /\ f.total <= r.total
    BY DEF Counted, Tops
  <2>3. f.total = r.total /\ f.covered = f.total
    BY <1>2, <2>1, <2>2
  <2>4. QED  BY <2>3 DEF Tops
<1>3. ASSUME NEW f \in lines, f.covered = f.total, \A g \in lines : g.total <= f.total
      PROVE  r.covered = r.total
  <2>1. PICK g \in lines : g.total = r.total
    BY DEF Tops
  <2>2. PICK h \in lines : h.covered = r.covered
    BY DEF Tops
  <2>3. /\ f.covered \in Nat /\ f.total \in Nat /\ g.total \in Nat /\ h.covered \in Nat /\ h.total \in Nat
        /\ g.total <= f.total /\ f.covered <= r.covered /\ h.covered <= h.total /\ h.total <= r.total
    BY <1>3 DEF Counted, Tops
  <2>4. r.covered \in Nat /\ r.total \in Nat
    BY DEF Tops
  <2>5. QED  BY <1>3, <2>1, <2>2, <2>3, <2>4
<1>4. QED  BY <1>1, <1>2, <1>3 DEF Executed, RanThere

-----------------------------------------------------------------------------
(* A report                                                                *)

LinesOf(report, f, n) == {l \in report.lines : l.path = f /\ l.line = n}

\* What is parsed is the merged lines of every file, and is refused or one.
LEMMA ParsedIs ==
  ASSUME NEW report \in Artifacts \cup Reruns, NEW parsed \in parseCoberturaXml(report)
  PROVE  /\ parsed.roots = report.roots
         /\ \A l \in report.lines : l.covered <= l.total
         /\ DOMAIN parsed.files = {l.path : l \in report.lines}
         /\ \A f \in DOMAIN parsed.files :
              /\ DOMAIN parsed.files[f] = {l.line : l \in {k \in report.lines : k.path = f}}
              /\ \A n \in DOMAIN parsed.files[f] :
                   parsed.files[f][n] = mergeLine(LinesOf(report, f, n))
         /\ \A other \in parseCoberturaXml(report) : other = parsed
<1> DEFINE Of(f) == {l \in report.lines : l.path = f}
           Table(f) == [n \in {l.line : l \in Of(f)} |-> mergeLine({l \in Of(f) : l.line = n})]
           files == [f \in {l.path : l \in report.lines} |-> Table(f)]
<1>1. parseCoberturaXml(report) =
        IF \E l \in report.lines : l.covered > l.total THEN {}
        ELSE {[roots |-> report.roots, files |-> files]}
  BY DEF parseCoberturaXml
<1> HIDE DEF files
<1>2. /\ ~\E l \in report.lines : l.covered > l.total
      /\ parsed = [roots |-> report.roots, files |-> files]
      /\ \A other \in parseCoberturaXml(report) : other = parsed
  BY <1>1
<1>3. \A l \in report.lines : l.covered <= l.total
  <2>1. \A l \in report.lines : l.covered \in Nat /\ l.total \in Nat
    BY CoverageAssumption
  <2>2. QED  BY <1>2, <2>1
<1>4. parsed.roots = report.roots /\ parsed.files = files
  BY <1>2
<1>5. DOMAIN files = {l.path : l \in report.lines} /\ \A f \in DOMAIN files : files[f] = Table(f)
  BY DEF files
<1>6. \A f \in DOMAIN files :
        /\ DOMAIN files[f] = {l.line : l \in {k \in report.lines : k.path = f}}
        /\ \A n \in DOMAIN files[f] : files[f][n] = mergeLine(LinesOf(report, f, n))
  <2>1. TAKE f \in DOMAIN files
  <2>2. DOMAIN Table(f) = {l.line : l \in {k \in report.lines : k.path = f}}
    OBVIOUS
  <2>3. ASSUME NEW n \in DOMAIN Table(f) PROVE Table(f)[n] = mergeLine(LinesOf(report, f, n))
    <3>1. {l \in Of(f) : l.line = n} = LinesOf(report, f, n)
      BY DEF LinesOf
    <3>2. Table(f)[n] = mergeLine({l \in Of(f) : l.line = n})
      OBVIOUS
    <3>3. QED  BY <3>1, <3>2
  <2> HIDE DEF Table
  <2>4. QED  BY <1>5, <2>2, <2>3
<1>7. QED  BY <1>2, <1>3, <1>4, <1>5, <1>6

FactsOf(report, named, key) ==
  {l \in report.lines : l.line = key[2] /\ named[l.path] = {key[1]}}

\* What the files of a path report of a line is the best of what was measured.
LEMMA ReportedIs ==
  ASSUME NEW report \in Artifacts \cup Reruns, NEW parsed \in parseCoberturaXml(report),
         NEW named, NEW key
  PROVE  /\ Reported(parsed.files, named, key) = {} <=> FactsOf(report, named, key) = {}
         /\ FactsOf(report, named, key) # {} =>
              (Executed(mergeLine(Reported(parsed.files, named, key)))
                 <=> RanThere(FactsOf(report, named, key)))
<1> DEFINE facts == FactsOf(report, named, key)
           files == parsed.files
           names == {g \in DOMAIN files : named[g] = {key[1]} /\ key[2] \in DOMAIN files[g]}
           best == [g \in names |-> files[g][key[2]]]
           Of == [g \in names |-> LinesOf(report, g, key[2])]
           reports == {best[g] : g \in names}
<1> USE DEF FactsOf
<1>1. Reported(files, named, key) = reports
  BY DEF Reported
<1>2. /\ \A l \in report.lines : l.covered <= l.total
      /\ DOMAIN files = {l.path : l \in report.lines}
      /\ \A f \in DOMAIN files : DOMAIN files[f] = {l.line : l \in {k \in report.lines : k.path = f}}
      /\ \A f \in DOMAIN files : \A n \in DOMAIN files[f] :
           files[f][n] = mergeLine(LinesOf(report, f, n))
  BY ParsedIs
<1>3. Counted(report.lines) /\ IsFiniteSet(report.lines)
  BY CoverageAssumption DEF Counted
<1>4. ASSUME NEW g \in names
      PROVE  /\ Of[g] \subseteq facts /\ Of[g] # {} /\ Of[g] \subseteq report.lines
             /\ best[g] = mergeLine(Of[g])
  <2>1. g \in DOMAIN files /\ named[g] = {key[1]} /\ key[2] \in DOMAIN files[g]
    OBVIOUS
  <2>2. PICK l \in report.lines : l.path = g /\ l.line = key[2]
    BY <1>2, <2>1
  <2>3. Of[g] = LinesOf(report, g, key[2]) /\ best[g] = files[g][key[2]]
    OBVIOUS
  <2>4. l \in LinesOf(report, g, key[2]) /\ LinesOf(report, g, key[2]) \subseteq facts
    BY <2>1, <2>2 DEF LinesOf
  <2>5. LinesOf(report, g, key[2]) \subseteq report.lines
    BY DEF LinesOf
  <2>6. files[g][key[2]] = mergeLine(LinesOf(report, g, key[2]))
    BY <1>2, <2>1
  <2>7. QED  BY <2>3, <2>4, <2>5, <2>6
<1>5. ASSUME NEW l \in facts PROVE l.path \in names /\ l \in Of[l.path]
  <2>1. l \in report.lines /\ l.line = key[2] /\ named[l.path] = {key[1]}
    OBVIOUS
  <2>2. l.path \in DOMAIN files /\ key[2] \in DOMAIN files[l.path]
    BY <1>2, <2>1
  <2>3. l.path \in names
    BY <2>1, <2>2
  <2>4. Of[l.path] = LinesOf(report, l.path, key[2])
    BY <2>3
  <2>5. QED  BY <2>1, <2>3, <2>4 DEF LinesOf
<1> HIDE DEF FactsOf, facts, files, names, best, Of
<1>6. names = {} <=> facts = {}
  BY <1>4, <1>5
<1>7. reports = {} <=> names = {}
  OBVIOUS
<1>8. ASSUME facts # {} PROVE Executed(mergeLine(reports)) <=> RanThere(facts)
  <2>1. facts \subseteq report.lines /\ Counted(facts) /\ \A l \in facts : l.covered <= l.total
    BY <1>2, <1>3 DEF Counted, facts, FactsOf
  <2>2. ASSUME NEW g \in names PROVE Tops(best[g], Of[g])
    <3>1. IsFiniteSet(Of[g])
      BY <1>3, <1>4, FS_Subset
    <3>2. Counted(Of[g])
      BY <1>3, <1>4 DEF Counted
    <3>3. QED  BY <1>4, <3>1, <3>2, MergeTops
  <2>3. IsFiniteSet(reports) /\ reports # {} /\ Counted(reports)
    <3>1. IsFiniteSet(names)
      <4>1. names \subseteq DOMAIN files
        BY DEF names
      <4>2. IsFiniteSet(DOMAIN files)
        <5> DEFINE path == [l \in report.lines |-> l.path]
        <5>1. DOMAIN files = {path[l] : l \in report.lines} /\ DOMAIN path = report.lines
          BY <1>2
        <5> HIDE DEF path
        <5>2. QED  BY <1>3, <5>1, ImageIsFinite
      <4>3. QED  BY <4>1, <4>2, FS_Subset
    <3>2. DOMAIN best = names
      BY DEF best
    <3>3. IsFiniteSet(reports)
      BY <3>1, <3>2, ImageIsFinite
    <3>4. Counted(reports)
      BY <2>2 DEF Tops, Counted
    <3>5. QED  BY <1>6, <1>7, <1>8, <3>3, <3>4
  <2> DEFINE r == mergeLine(reports)
  <2>4. Tops(r, reports)
    BY <2>3, MergeTops
  <2> HIDE DEF r
  <2>5. Tops(r, facts)
    <3>1. Summed(names, best, Of, facts)
      BY <1>4, <1>5, <2>2 DEF Summed
    <3>2. QED  BY <2>1, <2>4, <3>1, TopsOfTops
  <2>6. Executed(r) <=> RanThere(facts)
    BY <2>1, <2>5, ExecutedIs
  <2>7. QED  BY <2>6 DEF r
<1>9. QED  BY <1>1, <1>6, <1>7, <1>8 DEF files, facts

-----------------------------------------------------------------------------
(* A reply                                                                 *)

Origins == {validateRuntimeCoverageProvenance(given) : given \in Provenances}

\* What is handed in, as the run records it.
LEMMA ProvenanceIs ==
  ASSUME NEW from \in Origins
  PROVE  from.roots \in SUBSET Paths /\ from.mappings \in SUBSET Mappings
<1> PICK given \in Provenances : from = validateRuntimeCoverageProvenance(given)
  BY DEF Origins
<1>1. given.roots \in Seq(Paths) /\ given.mappings \in Seq(Mappings)
  BY CoverageAssumption DEF Mappings
<1>2. ToSet(given.roots) \in SUBSET Paths /\ ToSet(given.mappings) \in SUBSET Mappings
  BY <1>1 DEF ToSet
<1>3. QED  BY <1>2 DEF validateRuntimeCoverageProvenance

Reply(answer, report, from, parsed) ==
  [answer |-> answer, artifact |-> report, from |-> from,
   run |-> buildRuntimeCoverageRun(answer, parsed, from)]

Stands(f, answer, report, from) ==
  {p \in answer.paths :
     \E raw \in normalizeLexical(f) :
       Names(raw) /\ raw \in Spellings(p, from.roots \cup report.roots, from.mappings)}

\* The files that a line of the report may be about are those whose name it is.
LEMMA CandidatesAre ==
  ASSUME NEW answer \in Measured, NEW report \in Artifacts \cup Reruns, NEW from \in Origins,
         NEW l \in report.lines
  PROVE  mapArtifactPath(l.path, from.roots \cup report.roots, from.mappings, answer.paths)
           = Stands(l.path, answer, report, from)
<1> DEFINE roots == from.roots \cup report.roots
           mapped == mapArtifactPath(l.path, roots, from.mappings, answer.paths)
<1>1. l.path \in Paths /\ report.roots \in SUBSET Paths /\ answer.paths \in SUBSET Files
  BY CoverageAssumption
<1>2. roots \in SUBSET Paths /\ from.mappings \in SUBSET Mappings
  BY <1>1, ProvenanceIs
<1> HIDE DEF roots
<1>3. \A p \in answer.paths :
        p \in mapped <=>
          \E raw \in normalizeLexical(l.path) : Names(raw) /\ raw \in Spellings(p, roots, from.mappings)
  BY <1>1, <1>2, MapsAsSpelled
<1>4. mapped \subseteq answer.paths
  BY DEF mapArtifactPath
<1> HIDE DEF mapped
<1>5. mapped = {p \in answer.paths :
                  \E raw \in normalizeLexical(l.path) :
                    Names(raw) /\ raw \in Spellings(p, roots, from.mappings)}
  BY <1>3, <1>4
<1>6. QED  BY <1>5 DEF mapped, roots, Stands

CandidatesOf(answer, from, parsed) ==
  [f \in DOMAIN parsed.files |->
     mapArtifactPath(f, from.roots \cup parsed.roots, from.mappings, answer.paths)]

SameTree(answer, from) ==
  answer.commit = from.commit /\ from.commit # NoCommit /\ ~answer.dirty /\ ~from.dirty

\* Trees compare if both are clean and of one commit (compareTrees()).
LEMMA TreesCompare ==
  ASSUME NEW answer, NEW from
  PROVE  compareTrees(answer, from) <=> SameTree(answer, from)
BY DEF compareTrees, SameTree

\* A citation of a run, from what was measured of its line.
LEMMA CitationIs ==
  ASSUME NEW answer \in Measured, NEW report \in Artifacts \cup Reruns, NEW from \in Origins,
         NEW parsed \in parseCoberturaXml(report),
         NEW key
  PROVE  LET reports == Reported(parsed.files, CandidatesOf(answer, from, parsed), key)
             facts == Measurements(Reply(answer, report, from, parsed), key)
             state == StateOf(compareTrees(answer, from), reports)
         IN /\ state = "covered" <=> SameTree(answer, from) /\ RanThere(facts)
            /\ state = "uncovered" <=> SameTree(answer, from) /\ facts # {} /\ ~RanThere(facts)
            /\ SameTree(answer, from) =>
                 /\ state = "covered" <=> reports # {} /\ Executed(mergeLine(reports))
                 /\ state = "uncovered" <=> reports # {} /\ ~Executed(mergeLine(reports))
            /\ ~SameTree(answer, from) => state = "stale"
<1> DEFINE named == CandidatesOf(answer, from, parsed)
           reports == Reported(parsed.files, named, key)
           facts == Measurements(Reply(answer, report, from, parsed), key)
           state == StateOf(compareTrees(answer, from), reports)
<1> HIDE DEF named, reports, facts, state
<1>1. \A l \in report.lines :
        named[l.path] = Stands(l.path, answer, report, from)
  <2>1. TAKE l \in report.lines
  <2>2. l.path \in DOMAIN parsed.files /\ parsed.roots = report.roots
    BY ParsedIs
  <2>3. named[l.path] =
          mapArtifactPath(l.path, from.roots \cup report.roots, from.mappings, answer.paths)
    BY <2>2 DEF named, CandidatesOf
  <2>4. mapArtifactPath(l.path, from.roots \cup report.roots, from.mappings, answer.paths)
          = Stands(l.path, answer, report, from)
    BY CandidatesAre
  <2>5. QED  BY <2>3, <2>4
<1> DEFINE i == Reply(answer, report, from, parsed)
<1>2. i.answer = answer /\ i.artifact = report /\ i.from = from
  BY DEF Reply
<1>3. facts = {l \in report.lines : l.line = key[2] /\ Stands(l.path, answer, report, from) = {key[1]}}
  <2> HIDE DEF i
  <2>1. facts = Measurements(i, key)
    BY DEF i, facts
  <2>2. Measurements(i, key) =
          {l \in report.lines : l.line = key[2] /\ Stands(l.path, answer, report, from) = {key[1]}}
    BY <1>2, Zenon DEF Measurements, Stands
  <2>3. QED  BY <2>1, <2>2
<1>4. facts = FactsOf(report, named, key)
  BY <1>1, <1>3 DEF FactsOf
<1>5. /\ reports = {} <=> facts = {}
      /\ facts # {} => (Executed(mergeLine(reports)) <=> RanThere(facts))
  BY <1>4, ReportedIs DEF reports
<1>6. RanThere(facts) => facts # {}
  BY DEF RanThere
<1>7. compareTrees(answer, from) <=> SameTree(answer, from)
  BY TreesCompare
<1>8. state = IF ~SameTree(answer, from) THEN "stale"
              ELSE IF reports = {} THEN "missing-source"
              ELSE IF Executed(mergeLine(reports)) THEN "covered" ELSE "uncovered"
  BY <1>7, Zenon DEF StateOf, state
<1>9. /\ state = "covered" <=> SameTree(answer, from) /\ RanThere(facts)
      /\ state = "uncovered" <=> SameTree(answer, from) /\ facts # {} /\ ~RanThere(facts)
      /\ SameTree(answer, from) =>
           /\ state = "covered" <=> reports # {} /\ Executed(mergeLine(reports))
           /\ state = "uncovered" <=> reports # {} /\ ~Executed(mergeLine(reports))
      /\ ~SameTree(answer, from) => state = "stale"
  <2>1. CASE ~SameTree(answer, from)
    BY <1>8, <2>1
  <2>2. CASE SameTree(answer, from) /\ reports = {}
    BY <1>5, <1>6, <1>8, <2>2
  <2>3. CASE SameTree(answer, from) /\ reports # {}
    BY <1>5, <1>6, <1>8, <2>3
  <2>4. QED  BY <2>1, <2>2, <2>3
<1>10. QED  BY <1>9 DEF named, reports, facts, state

\* A reply is what was measured.
LEMMA ReplyIsMeasured ==
  ASSUME NEW answer \in Measured, NEW report \in Artifacts \cup Reruns, NEW from \in Origins,
         NEW parsed \in parseCoberturaXml(report)
  PROVE  IsMeasured(Reply(answer, report, from, parsed))
<1> DEFINE current == compareTrees(answer, from)
           named == CandidatesOf(answer, from, parsed)
           Cited(key) == [at |-> key,
                          state |-> StateOf(current, Reported(parsed.files, named, key)),
                          reports |-> Reported(parsed.files, named, key)]
           citations == {Cited(key) : key \in answer.cites}
           elsewhere ==
             {[at |-> l, state |-> ElsewhereState(current, named[l[1]])] :
                l \in Elsewhere(parsed.files, named, answer.cites)}
           totals == totalsOf(citations, elsewhere)
           run == [current |-> current, candidates |-> named, citations |-> citations,
                   elsewhere |-> elsewhere, totals |-> totals]
           i == Reply(answer, report, from, parsed)
           same == SameTree(answer, from)
<1>1. buildRuntimeCoverageRun(answer, parsed, from) = run
  BY Zenon DEF buildRuntimeCoverageRun, CandidatesOf
<1>2. i.answer = answer /\ i.artifact = report /\ i.from = from /\ i.run = run
  <2> HIDE DEF run
  <2>1. QED  BY <1>1 DEF Reply
<1>3. run.citations = citations /\ run.elsewhere = elsewhere /\ run.totals = totals
  <2> HIDE DEF current, named, citations, elsewhere, totals
  <2>1. QED  OBVIOUS
<1>4. ASSUME NEW key \in answer.cites
      PROVE  LET c == Cited(key)
                 facts == Measurements(i, key)
             IN /\ c.at = key
                /\ c.state = "covered" <=> same /\ RanThere(facts)
                /\ c.state = "uncovered" <=> same /\ facts # {} /\ ~RanThere(facts)
                /\ same => /\ c.state = "covered" <=> c.reports # {} /\ Executed(mergeLine(c.reports))
                           /\ c.state = "uncovered" <=> c.reports # {} /\ ~Executed(mergeLine(c.reports))
                /\ ~same => c.state = "stale"
  <2> DEFINE reports == Reported(parsed.files, named, key)
             facts == Measurements(i, key)
             state == StateOf(current, reports)
             c == Cited(key)
  <2>1. /\ state = "covered" <=> same /\ RanThere(facts)
        /\ state = "uncovered" <=> same /\ facts # {} /\ ~RanThere(facts)
        /\ same => /\ state = "covered" <=> reports # {} /\ Executed(mergeLine(reports))
                   /\ state = "uncovered" <=> reports # {} /\ ~Executed(mergeLine(reports))
        /\ ~same => state = "stale"
    BY CitationIs DEF same
  <2>2. c.at = key /\ c.state = state /\ c.reports = reports
    <3>1. c = [at |-> key, state |-> state, reports |-> reports]
      OBVIOUS
    <3> HIDE DEF c, state, reports
    <3>2. QED  BY <3>1
  <2> HIDE DEF state, reports, facts, same
  <2>3. QED  BY <2>1, <2>2 DEF facts
<1> HIDE DEF run, i, same
<1>5. \A c \in citations : \E key \in answer.cites : c = Cited(key)
  OBVIOUS
<1>6. \A key \in answer.cites : Cited(key) \in citations
  OBVIOUS
<1>7. IsFiniteSet(citations) /\ Cardinality(citations) = Cardinality(answer.cites)
  <2> DEFINE f == [key \in answer.cites |-> Cited(key)]
  <2>1. IsFiniteSet(answer.cites)
    BY CoverageAssumption
  <2>2. \A k, l \in answer.cites : Cited(k) = Cited(l) => k = l
    <3>1. \A k \in answer.cites : Cited(k).at = k
      BY <1>4
    <3> HIDE DEF Cited
    <3>2. QED  BY <3>1
  <2> HIDE DEF Cited, citations
  <2>3. f \in Bijection(answer.cites, citations)
    BY <1>5, <1>6, <2>2 DEF Bijection, Injection, IsInjective, Surjection
  <2>4. ExistsBijection(answer.cites, citations)
    BY <2>3 DEF ExistsBijection
  <2>5. QED  BY <2>1, <2>4, FS_Bijection
<1> DEFINE InState(s) == {c \in citations : c.state = s}
           Away(s) == {e \in elsewhere : e.state = s}
<1>8. /\ totals["covered"] = Cardinality(InState("covered")) + Cardinality(Away("covered"))
      /\ totals["uncovered"] = Cardinality(InState("uncovered")) + Cardinality(Away("uncovered"))
      /\ totals["stale"] = Cardinality(InState("stale")) + Cardinality(Away("stale"))
  BY DEF totalsOf, EvidenceStates
<1>9. \A e \in elsewhere : /\ e.state # "covered" /\ e.state # "uncovered"
                           /\ ~same => e.state = "stale"
  <2>1. TAKE e \in elsewhere
  <2>2. PICK l : e = [at |-> l, state |-> ElsewhereState(current, named[l[1]])]
    OBVIOUS
  <2> DEFINE s == ElsewhereState(current, named[l[1]])
  <2>3. s \in {"stale", "out-of-scope", "missing-source"} /\ (~same => s = "stale")
    BY TreesCompare DEF ElsewhereState, same
  <2> HIDE DEF s
  <2>4. e.state = s
    BY <2>2 DEF s
  <2>5. QED  BY <2>3, <2>4
<1> HIDE DEF current, named, citations, elsewhere, totals, Cited
<1>10. ASSUME same
       PROVE  /\ execution(run).covered = run.totals["covered"]
              /\ execution(run).uncovered = run.totals["uncovered"]
  <2> DEFINE reported == {c \in citations : c.reports # {}}
             executed == {c \in reported : Executed(mergeLine(c.reports))}
  <2>1. execution(run).covered = Cardinality(executed) /\ execution(run).uncovered = Cardinality(reported \ executed)
    BY <1>3 DEF execution
  <2>2. \A c \in citations : /\ c.state = "covered" <=> c.reports # {} /\ Executed(mergeLine(c.reports))
                             /\ c.state = "uncovered" <=> c.reports # {} /\ ~Executed(mergeLine(c.reports))
    BY <1>4, <1>5, <1>10
  <2>3. executed = InState("covered") /\ reported \ executed = InState("uncovered")
    BY <2>2
  <2>4. Away("covered") = {} /\ Away("uncovered") = {}
    BY <1>9
  <2>5. /\ IsFiniteSet(InState("covered")) /\ IsFiniteSet(InState("uncovered"))
    BY <1>7, FS_Subset
  <2>6. Cardinality(InState("covered")) \in Nat /\ Cardinality(InState("uncovered")) \in Nat
    BY <2>5, FS_CardinalityType
  <2>7. Cardinality({}) = 0
    BY FS_EmptySet
  <2> HIDE DEF reported, executed, InState, Away
  <2>8. totals["covered"] = Cardinality(InState("covered"))
    BY <1>8, <2>4, <2>6, <2>7
  <2>9. totals["uncovered"] = Cardinality(InState("uncovered"))
    BY <1>8, <2>4, <2>6, <2>7
  <2>10. QED  BY <1>3, <2>1, <2>3, <2>8, <2>9
<1>11. ASSUME ~same
       PROVE  run.totals["stale"] = Cardinality(run.citations) + Cardinality(run.elsewhere)
  <2>1. \A c \in citations : c.state = "stale"
    BY <1>4, <1>5, <1>11
  <2>2. InState("stale") = citations /\ Away("stale") = elsewhere
    BY <1>9, <1>11, <2>1
  <2> HIDE DEF InState, Away
  <2>3. QED  BY <1>3, <1>8, <2>2
<1>12. {c.at : c \in citations} = answer.cites
  <2>1. \A key \in answer.cites : Cited(key) \in citations /\ Cited(key).at = key
    BY <1>4, <1>6
  <2>2. QED  BY <1>5, <2>1
<1>13. ASSUME NEW c \in citations
       PROVE  LET facts == Measurements(i, c.at)
              IN /\ c.state = "covered" <=> same /\ RanThere(facts)
                 /\ c.state = "uncovered" <=> same /\ facts # {} /\ ~RanThere(facts)
  <2>1. PICK key \in answer.cites : c = Cited(key)
    BY <1>5
  <2>2. c.at = key
    BY <1>4, <2>1
  <2>3. QED  BY <1>4, <2>1, <2>2
<1>14. IsMeasured(i)
  <2>1. same <=> (i.answer.commit = i.from.commit /\ i.from.commit # NoCommit
                    /\ ~i.answer.dirty /\ ~i.from.dirty)
    BY <1>2 DEF same, SameTree
  <2> HIDE DEF InState, Away
  <2>2. QED  BY <1>2, <1>3, <1>7, <1>10, <1>11, <1>12, <1>13, <2>1, Zenon DEF IsMeasured, RanThere
<1>15. QED  BY <1>14 DEF i

-----------------------------------------------------------------------------
(* The specification                                                       *)

Reports == Artifacts \cup Reruns

RepliesTo(report) ==
  UNION {{Reply(answer, report, from, parsed) : answer \in Measured, from \in Origins} :
           parsed \in parseCoberturaXml(report)}

Replies == UNION {RepliesTo(report) : report \in Reports}

\* The stored run of an import is what the same import comes to.
Kept(row) ==
  \E answer \in Measured, report \in Reports, from \in Origins :
    \E parsed \in parseCoberturaXml(report) :
      /\ row.id = <<answer, report, from>>
      /\ row.run = buildRuntimeCoverageRun(answer, parsed, from)

CoverageInv ==
  /\ artifact \in Reports
  /\ \A row \in coverageRuns : Kept(row)
  /\ imported \in Seq(Replies)

\* A reply to an import is one.
LEMMA ReplyIs ==
  ASSUME NEW answer \in Measured, NEW report \in Reports, NEW from \in Origins,
         NEW parsed \in parseCoberturaXml(report)
  PROVE  Reply(answer, report, from, parsed) \in Replies
<1>1. Reply(answer, report, from, parsed) \in RepliesTo(report)
  BY DEF RepliesTo
<1>2. QED  BY <1>1 DEF Replies

\* An import stores and answers with what it comes to, new or known.
LEMMA ImportKeeps ==
  ASSUME CoverageInv, NEW answer \in Measured, NEW given \in Provenances, Import(answer, given)
  PROVE  CoverageInv'
<1> DEFINE from == validateRuntimeCoverageProvenance(given)
<1>1. from \in Origins
  BY DEF Origins
<1> HIDE DEF from
<1>2. PICK parsed \in parseCoberturaXml(artifact) :
        LET built == [id |-> runId(answer, from), importedAt |-> Len(imported),
                      run |-> buildRuntimeCoverageRun(answer, parsed, from)]
            row == insertRuntimeCoverageRun(built)
        IN /\ coverageRuns' = coverageRuns \cup {row}
           /\ imported' = Append(imported, [answer |-> answer, artifact |-> artifact,
                                            from |-> from, run |-> row.run])
  BY DEF Import, from
<1> DEFINE run == buildRuntimeCoverageRun(answer, parsed, from)
           built == [id |-> runId(answer, from), importedAt |-> Len(imported), run |-> run]
           row == insertRuntimeCoverageRun(built)
           rows == {r \in coverageRuns : r.id = built.id}
<1>3. artifact' = artifact /\ artifact \in Reports
  BY DEF Import, CoverageInv
<1> HIDE DEF run
<1>4. built.id = <<answer, artifact, from>> /\ built.run = run
  BY DEF runId
<1>5. row = IF rows = {} THEN built ELSE CHOOSE r \in rows : TRUE
  BY Zenon DEF insertRuntimeCoverageRun
<1>6. coverageRuns' = coverageRuns \cup {row}
      /\ imported' = Append(imported, [answer |-> answer, artifact |-> artifact,
                                       from |-> from, run |-> row.run])
  BY <1>2, Zenon DEF run
<1> HIDE DEF built, row
<1>7. row = built \/ row \in rows
  BY <1>5
<1>8. row.id = <<answer, artifact, from>> /\ row.run = run
  <2>1. CASE row = built
    BY <1>4, <2>1
  <2>2. CASE row \in rows
    <3>1. row \in coverageRuns /\ row.id = <<answer, artifact, from>>
      BY <1>4, <2>2
    <3>2. PICK a \in Measured, x \in Reports, o \in Origins : \E p \in parseCoberturaXml(x) :
            row.id = <<a, x, o>> /\ row.run = buildRuntimeCoverageRun(a, p, o)
      BY <3>1 DEF CoverageInv, Kept
    <3>3. a = answer /\ x = artifact /\ o = from
      BY <3>1, <3>2
    <3>4. PICK p \in parseCoberturaXml(artifact) : row.run = buildRuntimeCoverageRun(answer, p, from)
      BY <3>2, <3>3
    <3>5. p = parsed
      BY <1>3, ParsedIs DEF Reports
    <3>6. QED  BY <3>1, <3>4, <3>5 DEF run
  <2>3. QED  BY <1>7, <2>1, <2>2
<1>9. Kept(row)
  BY <1>1, <1>3, <1>8 DEF Kept, run
<1>10. [answer |-> answer, artifact |-> artifact, from |-> from, run |-> row.run]
         = Reply(answer, artifact, from, parsed)
  BY <1>8 DEF Reply, run
<1>11. imported' \in Seq(Replies)
  <2>1. Reply(answer, artifact, from, parsed) \in Replies
    BY <1>1, <1>3, ReplyIs
  <2>2. imported \in Seq(Replies)
    BY DEF CoverageInv
  <2>3. QED  BY <1>6, <1>10, <2>1, <2>2
<1>12. \A r \in coverageRuns' : Kept(r)
  BY <1>6, <1>9 DEF CoverageInv
<1>13. QED  BY <1>3, <1>11, <1>12, Zenon DEF CoverageInv, Kept

\* The rows of the store and the replies are what the imports they stand for
\* come to: INSERT OR IGNORE never answers with another import's run.
THEOREM CoverageInvariance == CoverageSpec => []CoverageInv
<1>1. CoverageInit => CoverageInv
  BY DEF CoverageInit, CoverageInv, Reports
<1>2. CoverageInv /\ [CoverageNext]_coverageVars => CoverageInv'
  <2>1. SUFFICES ASSUME CoverageInv, [CoverageNext]_coverageVars PROVE CoverageInv'
    OBVIOUS
  <2>2. ASSUME NEW answer \in Measured, NEW given \in Provenances, Import(answer, given)
        PROVE  CoverageInv'
    BY <2>1, <2>2, ImportKeeps
  <2>3. CASE RunTests
    BY <2>1, <2>3, Zenon DEF RunTests, CoverageInv, Kept, Reports
  <2>4. CASE UNCHANGED coverageVars
    BY <2>1, <2>4, Zenon DEF coverageVars, CoverageInv, Kept
  <2>5. QED  BY <2>1, <2>2, <2>3, <2>4 DEF CoverageNext
<1>3. QED  BY <1>1, <1>2, PTL DEF CoverageSpec

\* No import of coverage says more of a cited line than was measured of it, for
\* any answers, reports, roots and mappings (buildRuntimeCoverageRun()).
THEOREM CoverageIsMeasured == CoverageSpec => []NothingMeasuredIsGuessed
<1>1. CoverageInv => NothingMeasuredIsGuessed
  <2>1. SUFFICES ASSUME CoverageInv, NEW k \in DOMAIN imported PROVE IsMeasured(imported[k])
    BY DEF NothingMeasuredIsGuessed
  <2>2. imported[k] \in Replies
    BY <2>1 DEF CoverageInv
  <2>3. PICK report \in Reports : imported[k] \in RepliesTo(report)
    BY <2>2 DEF Replies
  <2>4. PICK parsed \in parseCoberturaXml(report), answer \in Measured, from \in Origins :
          imported[k] = Reply(answer, report, from, parsed)
    BY <2>3 DEF RepliesTo
  <2>5. IsMeasured(Reply(answer, report, from, parsed))
    BY ReplyIsMeasured DEF Reports
  <2>6. QED  BY <2>4, <2>5
<1>2. QED  BY <1>1, CoverageInvariance, PTL
=============================================================================
