--------------------------- MODULE EvaluatorProofs ---------------------------
(***************************************************************************)
(* Proofs about one evaluator and one call of its Evaluate (module         *)
(* Evaluator) and about the other resolvers and filters of filters.go      *)
(* (module PolicyFilters), for every policy, target, set of keys and       *)
(* namespaces, effective time and timeout.                                 *)
(***************************************************************************)
EXTENDS PolicyFilters, FiniteSetTheorems, SequenceTheorems, WellFoundedInduction, TLAPS

-----------------------------------------------------------------------------
(* Part 1: loops *)

\* A set of natural numbers that is not empty has a least one.
LEMMA LeastNumber ==
  ASSUME NEW T, T \subseteq Nat, T # {}
  PROVE  \E m \in T : \A n \in T : m <= n
<1> DEFINE Below == {1..m : m \in T}
<1>1. Below \subseteq FiniteSubsetsOf(Nat)
  <2>1. ASSUME NEW m \in T PROVE 1..m \in FiniteSubsetsOf(Nat)
    BY FS_Interval DEF FiniteSubsetsOf
  <2> QED
    BY <2>1
<1>2. Below # {}
  OBVIOUS
<1>3. PICK x \in Below : \A y \in Below : ~(<<y, x>> \in StrictSubsetOrdering(Nat))
  <2>1. IsWellFoundedOn(StrictSubsetOrdering(Nat), FiniteSubsetsOf(Nat))
    BY FS_StrictSubsetOrderingWellFounded
  <2> HIDE DEF Below
  <2> QED
    BY <1>1, <1>2, <2>1, WFMin
<1>4. PICK m \in T : x = 1..m
  BY <1>3
<1>5. ASSUME NEW n \in T, n < m PROVE FALSE
  <2>1. 1..n \subseteq 1..m /\ m \notin 1..n /\ m \in 1..m
    BY <1>5
  <2>2. <<1..n, 1..m>> \in StrictSubsetOrdering(Nat)
    BY <2>1 DEF StrictSubsetOrdering
  <2> QED
    BY <1>3, <1>4, <2>2
<1> QED
  BY <1>5

\* Induction on the turns of a loop: what holds before it and passes from each turn to
\* the next holds throughout.
LEMMA EveryTurn ==
  ASSUME NEW n \in Nat, NEW T, 0 \in T,
         \A k \in 1..n : k - 1 \in T => k \in T
  PROVE  0..n \subseteq T
<1> SUFFICES ASSUME NEW j \in (0..n) \ T PROVE FALSE
  OBVIOUS
<1> DEFINE Failing == (0..n) \ T
<1>1. PICK m \in Failing : \A i \in Failing : m <= i
  <2>1. Failing \subseteq Nat /\ Failing # {}
    OBVIOUS
  <2> HIDE DEF Failing
  <2> QED
    BY <2>1, LeastNumber
<1>2. m \in 1..n /\ m - 1 \in 0..n /\ ~(m <= m - 1)
  BY <1>1
<1>3. m - 1 \in T
  BY <1>1, <1>2
<1> QED
  BY <1>1, <1>2, <1>3

\* g has the values of a loop of n turns that begins with v.
LoopOf(n, V, v, step, g) ==
  g \in [0..n -> V] /\ g[0] = v /\ \A k \in 1..n : g[k] = step[k][g[k - 1]]

\* A loop that computes a value in each turn from the one before can be run.
LEMMA LoopRuns ==
  ASSUME NEW n \in Nat, NEW V, NEW v \in V, NEW step \in [1..n -> [V -> V]]
  PROVE  \E g : LoopOf(n, V, v, step, g)
<1> DEFINE Runs(m, g) == g[0] = v /\ \A k \in 1..m : g[k] = step[k][g[k - 1]]
           T == {m \in 0..n : \E g \in [0..m -> V] : Runs(m, g)}
<1>1. 0 \in T
  <2> DEFINE h == [i \in 0..0 |-> v]
  <2>1. h \in [0..0 -> V] /\ h[0] = v /\ 1..0 = {}
    OBVIOUS
  <2> HIDE DEF h
  <2>2. 0 \in 0..n /\ Runs(0, h)
    BY <2>1
  <2> QED
    BY <2>1, <2>2
<1>2. ASSUME NEW m \in 1..n, m - 1 \in T PROVE m \in T
  <2>1. PICK g \in [0..(m - 1) -> V] : Runs(m - 1, g)
    BY <1>2
  <2> DEFINE h == [i \in 0..m |-> IF i = m THEN step[m][g[m - 1]] ELSE g[i]]
  <2>2. g[m - 1] \in V /\ step[m][g[m - 1]] \in V
    BY <2>1
  <2>3. h \in [0..m -> V]
    BY <2>1, <2>2
  <2>4. \A i \in 0..(m - 1) : h[i] = g[i]
    OBVIOUS
  <2>5. h[m] = step[m][g[m - 1]]
    OBVIOUS
  <2> HIDE DEF h
  <2>6. h[0] = v
    BY <2>1, <2>4
  <2>7. ASSUME NEW k \in 1..m PROVE h[k] = step[k][h[k - 1]]
    <3>1. CASE k = m
      BY <2>4, <2>5, <3>1
    <3>2. CASE k # m
      <4>1. k \in 1..(m - 1) /\ k \in 0..(m - 1) /\ k - 1 \in 0..(m - 1)
        BY <3>2
      <4> QED
        BY <2>1, <2>4, <4>1
    <3> QED
      BY <3>1, <3>2
  <2>8. m \in 0..n /\ Runs(m, h)
    BY <2>6, <2>7
  <2> QED
    BY <2>3, <2>8
<1> HIDE DEF T
<1>3. 0..n \subseteq T
  BY <1>1, <1>2, EveryTurn
<1>4. n \in T
  BY <1>3
<1>5. PICK g \in [0..n -> V] : Runs(n, g)
  BY <1>4 DEF T
<1> QED
  BY <1>5 DEF LoopOf

LEMMA Elements ==
  ASSUME NEW S, NEW s \in Seq(S), NEW k \in 1..Len(s)
  PROVE  s[k] \in S
OBVIOUS

-----------------------------------------------------------------------------
(* Part 2: scores *)

LEMMA ScoreOfPartsNat ==
  ASSUME NEW parts \in Seq(STRING)
  PROVE  ScoreOfParts(parts) \in Nat
<1> DEFINE len  == Len(parts)
           last == IF Last(parts) \in {"*", Unset} THEN 0 ELSE 100
           rest == IF Front(parts) = <<"*">> THEN 1 ELSE 10 * (len - 1)
<1>1. len \in Nat
  OBVIOUS
<1>2. last \in Nat /\ (len > 1 => rest \in Nat)
  BY <1>1
<1> HIDE DEF len, last, rest
<1>3. (CASE parts = <<"*">>            -> 1
         [] len = 1 /\ parts # <<"*">> -> 10
         [] len > 1                    -> rest + last
         [] OTHER                      -> 0) \in Nat
  BY <1>2
<1> QED
  BY <1>3, Zenon DEF ScoreOfParts, len, last, rest

LEMMA LegacyScoreNat ==
  ASSUME NEW n \in Items
  PROVE  LegacyScore(n) \in Nat
<1>1. n.parts \in Seq(STRING)
  BY DEF Items
<1>2. ScoreOfParts(n.parts) \in Nat
  BY <1>1, ScoreOfPartsNat
<1> QED
  BY <1>2 DEF LegacyScore

\* What an item adds to the score of the needles.
Share(needles, n) == IF n \in needles THEN LegacyScore(n) ELSE 0

\* The turns of LegacyScoreMatches.
ScoreRun(needles, haystack, f) ==
  f = [k \in 0..Len(haystack) |->
         IF k = 0 THEN 0
         ELSE f[k - 1] + IF haystack[k] \in needles THEN LegacyScore(haystack[k]) ELSE 0]

\* f[k] is the score of the first k items.
Scores(needles, haystack, f) ==
  /\ f \in [0..Len(haystack) -> Nat] /\ f[0] = 0
  /\ \A k \in 1..Len(haystack) : f[k] = f[k - 1] + Share(needles, haystack[k])
  /\ LegacyScoreMatches(needles, haystack) = f[Len(haystack)]

LEMMA ScoreRuns ==
  ASSUME NEW needles, NEW haystack \in Seq(Items)
  PROVE  \E f : Scores(needles, haystack, f)
<1> DEFINE n == Len(haystack)
           Turn(k, l) == l + Share(needles, haystack[k])
           step == [k \in 1..n |-> [l \in Nat |-> Turn(k, l)]]
           h == CHOOSE f : ScoreRun(needles, haystack, f)
<1>0. n \in Nat /\ \A k \in 1..n : Share(needles, haystack[k]) \in Nat
  <2>1. ASSUME NEW k \in 1..n PROVE Share(needles, haystack[k]) \in Nat
    <3>1. haystack[k] \in Items
      BY Elements
    <3> QED
      BY <3>1, LegacyScoreNat DEF Share
  <2> QED
    BY <2>1
<1>1. step \in [1..n -> [Nat -> Nat]]
  BY <1>0
<1>2. ASSUME NEW k \in 1..n, NEW l \in Nat PROVE step[k][l] = Turn(k, l)
  OBVIOUS
<1> HIDE DEF step, Turn
<1>3. PICK g : LoopOf(n, Nat, 0, step, g)
  <2>1. n \in Nat /\ 0 \in Nat
    BY <1>0
  <2> HIDE DEF n
  <2> QED
    BY <1>1, <2>1, LoopRuns
<1>4. ASSUME NEW k \in 0..n PROVE g[k] = IF k = 0 THEN 0 ELSE Turn(k, g[k - 1])
  <2>1. CASE k = 0
    BY <1>3, <2>1 DEF LoopOf
  <2>2. CASE k # 0
    <3>1. k \in 1..n /\ k - 1 \in 0..n
      BY <1>0, <2>2
    <3>2. g[k - 1] \in Nat
      BY <1>3, <3>1 DEF LoopOf
    <3> QED
      BY <1>2, <1>3, <2>2, <3>1, <3>2 DEF LoopOf
  <2> QED
    BY <2>1, <2>2
<1>5. g = [k \in 0..n |-> IF k = 0 THEN 0 ELSE Turn(k, g[k - 1])]
  BY <1>3, <1>4 DEF LoopOf
<1>6. ScoreRun(needles, haystack, g)
  BY <1>5, Zenon DEF ScoreRun, Turn, Share
<1>7. ScoreRun(needles, haystack, h)
  BY <1>6
<1>8. LegacyScoreMatches(needles, haystack) = h[Len(haystack)]
  BY DEF LegacyScoreMatches, ScoreRun
<1>9. ASSUME NEW k \in 0..n
      PROVE  h[k] = IF k = 0 THEN 0 ELSE h[k - 1] + Share(needles, haystack[k])
  BY <1>7, Zenon DEF ScoreRun, Share
<1>10. h = [k \in 0..n |-> h[k]]
  BY <1>7, Zenon DEF ScoreRun
<1> HIDE DEF h
<1> DEFINE T == {k \in 0..n : h[k] \in Nat}
<1>11. 0 \in T
  BY <1>0, <1>9
<1>12. ASSUME NEW k \in 1..n, k - 1 \in T PROVE k \in T
  BY <1>0, <1>9, <1>12
<1>13. \A k \in 0..n : h[k] \in Nat
  <2>1. 0..n \subseteq T
    <3> HIDE DEF T, n
    <3> QED
      BY <1>0, <1>11, <1>12, EveryTurn
  <2> QED
    BY <2>1
<1>14. h \in [0..n -> Nat]
  BY <1>10, <1>13
<1>15. h[0] = 0 /\ \A k \in 1..n : h[k] = h[k - 1] + Share(needles, haystack[k])
  BY <1>0, <1>9
<1>16. Scores(needles, haystack, h)
  BY <1>8, <1>14, <1>15 DEF Scores
<1> QED
  BY <1>16

LEMMA ShareNat ==
  ASSUME NEW needles, NEW haystack \in Seq(Items)
  PROVE  /\ Len(haystack) \in Nat /\ DOMAIN haystack = 1..Len(haystack)
         /\ \A k \in 1..Len(haystack) : Share(needles, haystack[k]) \in Nat
<1>1. ASSUME NEW k \in 1..Len(haystack) PROVE Share(needles, haystack[k]) \in Nat
  <2>1. haystack[k] \in Items
    BY Elements
  <2> QED
    BY <2>1, LegacyScoreNat DEF Share
<1> QED
  BY <1>1

LEMMA ScoreNat ==
  ASSUME NEW needles, NEW haystack \in Seq(Items)
  PROVE  LegacyScoreMatches(needles, haystack) \in Nat
<1>1. PICK f : Scores(needles, haystack, f)
  BY ScoreRuns
<1>2. Len(haystack) \in 0..Len(haystack)
  BY ShareNat
<1> QED
  BY <1>1, <1>2 DEF Scores

\* Needles that match more of the items score more.
LEMMA ScoreGrows ==
  ASSUME NEW few, NEW many, NEW haystack \in Seq(Items),
         few \cap ToSet(haystack) \subseteq many
  PROVE  LegacyScoreMatches(few, haystack) <= LegacyScoreMatches(many, haystack)
<1> DEFINE n == Len(haystack)
<1>1. PICK f : Scores(few, haystack, f)
  BY ScoreRuns
<1>2. PICK g : Scores(many, haystack, g)
  BY ScoreRuns
<1>3. /\ n \in Nat /\ DOMAIN haystack = 1..n
      /\ \A k \in 1..n : Share(few, haystack[k]) \in Nat /\ Share(many, haystack[k]) \in Nat
  BY ShareNat
<1>4. ASSUME NEW k \in 1..n PROVE Share(few, haystack[k]) <= Share(many, haystack[k])
  <2>1. haystack[k] \in ToSet(haystack)
    BY <1>3 DEF ToSet
  <2>2. CASE haystack[k] \in few
    <3>1. Share(few, haystack[k]) = Share(many, haystack[k])
      BY <2>1, <2>2 DEF Share
    <3> QED
      BY <1>3, <3>1
  <2>3. CASE haystack[k] \notin few
    <3>1. Share(few, haystack[k]) = 0
      BY <2>3 DEF Share
    <3> QED
      BY <1>3, <3>1
  <2> QED
    BY <2>2, <2>3
<1> DEFINE T == {k \in 0..n : f[k] <= g[k]}
<1>5. 0 \in T
  BY <1>1, <1>2, <1>3 DEF Scores
<1>6. ASSUME NEW k \in 1..n, k - 1 \in T PROVE k \in T
  <2>1. k \in 0..n /\ k - 1 \in 0..n /\ f[k - 1] <= g[k - 1]
    BY <1>3, <1>6
  <2>2. f[k - 1] \in Nat /\ g[k - 1] \in Nat
    BY <1>1, <1>2, <2>1 DEF Scores
  <2>3. f[k] = f[k - 1] + Share(few, haystack[k]) /\ g[k] = g[k - 1] + Share(many, haystack[k])
    BY <1>1, <1>2 DEF Scores
  <2>4. Share(few, haystack[k]) \in Nat /\ Share(many, haystack[k]) \in Nat
    BY <1>3
  <2>5. f[k] <= g[k]
    BY <1>4, <2>1, <2>2, <2>3, <2>4
  <2> QED
    BY <2>1, <2>5
<1>7. 0..n \subseteq T
  <2> HIDE DEF T, n
  <2> QED
    BY <1>3, <1>5, <1>6, EveryTurn
<1> QED
  BY <1>1, <1>2, <1>3, <1>7 DEF Scores

\* Needles that match the same items score the same.
LEMMA ScoreSame ==
  ASSUME NEW one, NEW two, NEW haystack \in Seq(Items),
         one \cap ToSet(haystack) = two \cap ToSet(haystack)
  PROVE  LegacyScoreMatches(one, haystack) = LegacyScoreMatches(two, haystack)
<1>1. LegacyScoreMatches(one, haystack) \in Nat /\ LegacyScoreMatches(two, haystack) \in Nat
  BY ScoreNat
<1>2. LegacyScoreMatches(one, haystack) <= LegacyScoreMatches(two, haystack)
  BY ScoreGrows
<1>3. LegacyScoreMatches(two, haystack) <= LegacyScoreMatches(one, haystack)
  BY ScoreGrows
<1> QED
  BY <1>1, <1>2, <1>3

\* The score is at least that of an item that is matched.
LEMMA ScoreAtLeast ==
  ASSUME NEW needles, NEW haystack \in Seq(Items), NEW n \in needles \cap ToSet(haystack)
  PROVE  LegacyScoreMatches(needles, haystack) >= LegacyScore(n)
<1> DEFINE len == Len(haystack)
<1>1. PICK f : Scores(needles, haystack, f)
  BY ScoreRuns
<1>2. len \in Nat /\ DOMAIN haystack = 1..len /\ \A k \in 1..len : Share(needles, haystack[k]) \in Nat
  BY ShareNat
<1>3. PICK i \in 1..len : haystack[i] = n
  BY <1>2 DEF ToSet
<1>4. LegacyScore(n) = Share(needles, haystack[i]) /\ LegacyScore(n) \in Nat
  BY <1>2, <1>3 DEF Share
<1> DEFINE T == {k \in 0..len : k >= i => f[k] >= LegacyScore(n)}
<1>5. 0 \in T
  BY <1>2
<1>6. ASSUME NEW k \in 1..len, k - 1 \in T PROVE k \in T
  <2>1. k \in 0..len /\ k - 1 \in 0..len
    BY <1>2, <1>6
  <2>2. f[k - 1] \in Nat /\ Share(needles, haystack[k]) \in Nat
    BY <1>1, <1>2, <2>1 DEF Scores
  <2>3. f[k] = f[k - 1] + Share(needles, haystack[k])
    BY <1>1 DEF Scores
  <2>4. CASE k = i
    BY <1>4, <2>1, <2>2, <2>3, <2>4
  <2>5. CASE k # i
    <3>1. k >= i => k - 1 >= i
      BY <1>2, <2>5
    <3> QED
      BY <1>4, <1>6, <2>1, <2>2, <2>3, <3>1
  <2> QED
    BY <2>4, <2>5
<1>7. 0..len \subseteq T
  <2> HIDE DEF T, len
  <2> QED
    BY <1>2, <1>5, <1>6, EveryTurn
<1>8. len \in T /\ len >= i
  BY <1>2, <1>7
<1> QED
  BY <1>1, <1>8 DEF Scores

\* Ten for each item at most, where no more is matched.
LEMMA ScoreAtMost ==
  ASSUME NEW needles, NEW haystack \in Seq(Items),
         \A n \in needles \cap ToSet(haystack) : LegacyScore(n) <= 10
  PROVE  LegacyScoreMatches(needles, haystack) <= 10 * Len(haystack)
<1> DEFINE len == Len(haystack)
<1>1. PICK f : Scores(needles, haystack, f)
  BY ScoreRuns
<1>2. len \in Nat /\ DOMAIN haystack = 1..len /\ \A k \in 1..len : Share(needles, haystack[k]) \in Nat
  BY ShareNat
<1>3. ASSUME NEW k \in 1..len PROVE Share(needles, haystack[k]) <= 10
  <2>1. haystack[k] \in ToSet(haystack)
    BY <1>2 DEF ToSet
  <2> QED
    BY <2>1 DEF Share
<1> DEFINE T == {k \in 0..len : f[k] <= 10 * k}
<1>4. 0 \in T
  BY <1>1, <1>2 DEF Scores
<1>5. ASSUME NEW k \in 1..len, k - 1 \in T PROVE k \in T
  <2>1. k \in 0..len /\ k - 1 \in 0..len /\ f[k - 1] <= 10 * (k - 1)
    BY <1>2, <1>5
  <2>2. f[k - 1] \in Nat /\ Share(needles, haystack[k]) \in Nat
    BY <1>1, <1>2, <2>1 DEF Scores
  <2>3. f[k] = f[k - 1] + Share(needles, haystack[k])
    BY <1>1 DEF Scores
  <2>4. f[k] <= 10 * k
    BY <1>3, <2>1, <2>2, <2>3
  <2> QED
    BY <2>1, <2>4
<1>6. 0..len \subseteq T
  <2> HIDE DEF T, len
  <2> QED
    BY <1>2, <1>4, <1>5, EveryTurn
<1>7. len \in T
  BY <1>2, <1>6
<1> QED
  BY <1>1, <1>7 DEF Scores

\* Needles that match no item have no score.
LEMMA ScoreNone ==
  ASSUME NEW needles, NEW haystack \in Seq(Items), needles \cap ToSet(haystack) = {}
  PROVE  LegacyScoreMatches(needles, haystack) = 0
<1> DEFINE len == Len(haystack)
<1>1. PICK f : Scores(needles, haystack, f)
  BY ScoreRuns
<1>2. len \in Nat /\ DOMAIN haystack = 1..len
  BY ShareNat
<1>3. ASSUME NEW k \in 1..len PROVE Share(needles, haystack[k]) = 0
  <2>1. haystack[k] \in ToSet(haystack)
    BY <1>2 DEF ToSet
  <2> QED
    BY <2>1 DEF Share
<1> DEFINE T == {k \in 0..len : f[k] = 0}
<1>4. 0 \in T
  BY <1>1, <1>2 DEF Scores
<1>5. ASSUME NEW k \in 1..len, k - 1 \in T PROVE k \in T
  <2>1. k \in 0..len /\ f[k - 1] = 0
    BY <1>2, <1>5
  <2>2. f[k] = f[k - 1] + Share(needles, haystack[k])
    BY <1>1 DEF Scores
  <2> QED
    BY <1>3, <2>1, <2>2
<1>6. 0..len \subseteq T
  <2> HIDE DEF T, len
  <2> QED
    BY <1>2, <1>4, <1>5, EveryTurn
<1>7. len \in T
  BY <1>2, <1>6
<1> QED
  BY <1>1, <1>7 DEF Scores

\* The code of a rule in a package of one name.
LEMMA PlainCode ==
  ASSUME NEW S, NEW c \in Seq(S), Len(c) = 2
  PROVE  /\ c = <<c[1], c[2]>> /\ c[1] \in S /\ c[2] \in S
         /\ Front(c) = <<c[1]>> /\ Last(c) = c[2] /\ c # NoCode
<1>0. c \in [1..2 -> S] /\ Last(c) = c[2] /\ c # NoCode
  <2>1. c \in [1..2 -> S]
    OBVIOUS
  <2>2. Last(c) = c[2]
    BY DEF Last
  <2>3. c # NoCode
    BY DEF NoCode
  <2> QED
    BY <2>1, <2>2, <2>3
<1>1. c = <<c[1], c[2]>> /\ c[1] \in S /\ c[2] \in S /\ Last(c) = c[2] /\ c # NoCode
  BY <1>0
<1> DEFINE s == SubSeq(c, 1, 1)
<1>2. Front(c) = s
  BY DEF Front
<1>3. s \in Seq(S) /\ Len(s) = 1 /\ s[1] = c[1]
  <2>1. \A i \in 1..1 : c[i] \in S
    BY <1>1
  <2>2. /\ s \in Seq(S)
        /\ Len(s) = IF 1 <= 1 THEN 1 - 1 + 1 ELSE 0
        /\ \A i \in 1..(1 - 1 + 1) : s[i] = c[1 + i - 1]
    BY <2>1, SubSeqProperties
  <2> HIDE DEF s
  <2> QED
    BY <2>2
<1> HIDE DEF s
<1>4. s = <<s[1]>>
  BY <1>3
<1> QED
  BY <1>1, <1>2, <1>3, <1>4

\* The items that a rule of a plain package can be selected by.
LEMMA ScoresOfItems ==
  /\ LegacyScore(Wildcard) = 1
  /\ \A c : LegacyScore(Collection(c)) \in {0, 10}
  /\ \A p : p # "*" => LegacyScore(Name(<<p>>)) = 10
  /\ \A p : p # "*" => LegacyScore(Name(<<p, "*">>)) = 10
  /\ \A p, r : p # "*" /\ r \notin {"*", Unset} => LegacyScore(Name(<<p, r>>)) = 110
<1>1. ScoreOfParts(<<"*">>) = 1 /\ ScoreOfParts(<< >>) = 0
  BY DEF ScoreOfParts
<1>2. ASSUME NEW p, p # "*" PROVE ScoreOfParts(<<p>>) = 10
  <2>1. <<p>> # <<"*">> /\ Len(<<p>>) = 1
    BY <1>2
  <2> QED
    BY <2>1 DEF ScoreOfParts
<1>3. ASSUME NEW p, NEW r, p # "*"
      PROVE  ScoreOfParts(<<p, r>>) = 10 + IF r \in {"*", Unset} THEN 0 ELSE 100
  <2> DEFINE s == <<p, r>>
  <2>1. s \in Seq({p, r}) /\ Len(s) = 2 /\ s[1] = p /\ s[2] = r
    OBVIOUS
  <2> HIDE DEF s
  <2>2. Last(s) = r /\ Front(s) # <<"*">> /\ s # <<"*">>
    BY <1>3, <2>1, PlainCode
  <2>3. ScoreOfParts(s) = 10 + IF r \in {"*", Unset} THEN 0 ELSE 100
    BY <2>1, <2>2 DEF ScoreOfParts
  <2> QED
    BY <2>3 DEF s
<1>4. ASSUME NEW parts PROVE LegacyScore(Name(parts)) = 0 + ScoreOfParts(parts)
  BY DEF LegacyScore, Name
<1>5. ASSUME NEW c PROVE LegacyScore(Collection(c)) \in {0, 10}
  BY <1>1 DEF LegacyScore, Collection
<1> QED
  BY <1>1, <1>2, <1>3, <1>4, <1>5 DEF Wildcard

-----------------------------------------------------------------------------
(* Part 3: codes and matchers *)

LEMMA PlainMatchers ==
  ASSUME NEW c \in Seq(STRING), Len(c) = 2
  PROVE  PackageMatchers(c) = {Name(<<c[1]>>), Name(<<c[1], "*">>), Name(<<c[1], c[2]>>)}
BY PlainCode DEF PackageMatchers

\* Beside those with a term, the matchers of a result are those of its rule.
LEMMA MatchersOfRule ==
  ASSUME NEW info, NEW r, r.code = info.code, r.collections = info.collections
  PROVE  /\ createRuleMatchers(info) \subseteq LegacyMakeMatchers(r)
         /\ \A n \in LegacyMakeMatchers(r) : n.term = Unset => n \in createRuleMatchers(info)
         /\ r.terms = {} => LegacyMakeMatchers(r) = createRuleMatchers(info)
<1>1. ASSUME NEW n \in PackageMatchers(r.code), NEW t, WithTerm(n, t).term = Unset
      PROVE  WithTerm(n, t) = n
  <2>1. PICK p : n = Name(p)
    BY DEF PackageMatchers
  <2> QED
    BY <1>1, <2>1 DEF WithTerm, Name
<1> QED
  BY <1>1 DEF createRuleMatchers, LegacyMakeMatchers

\* Criteria as computeIncludeExclude leaves them.
Criteria == [defaultItems : Seq(Items), digestItems : [Keys -> Seq(Items)]]
CriteriaTyped == include \in Criteria /\ exclude \in Criteria

LEMMA GetTyped ==
  ASSUME NEW c \in Criteria
  PROVE  /\ Get(c) \in Seq(Items) /\ ToSet(Get(c)) \subseteq AllItems(c)
         /\ AllItems(c) \subseteq Items
<1> DEFINE a == ItemsFor(c, Target.repository)
           b == ItemsFor(c, Target.digest)
           d == c.defaultItems
<1>1. a \in Seq(Items) /\ b \in Seq(Items) /\ d \in Seq(Items)
  BY DEF ItemsFor, Criteria
<1>2. ToSet(a) \subseteq AllItems(c) /\ ToSet(b) \subseteq AllItems(c) /\ ToSet(d) \subseteq AllItems(c)
  <2>1. ToSet(<< >>) = {}
    BY DEF ToSet
  <2> QED
    BY <2>1 DEF AllItems, ItemsFor
<1>3. Get(c) = a \o b \o d
  BY DEF Get
<1>4. AllItems(c) \subseteq Items
  <2>1. \A s \in Seq(Items) : ToSet(s) \subseteq Items
    BY DEF ToSet
  <2>2. \A k \in Keys : c.digestItems[k] \in Seq(Items)
    BY DEF Criteria
  <2> QED
    BY <1>1, <2>1, <2>2 DEF AllItems
<1> HIDE DEF a, b, d
<1>5. ASSUME NEW s \in Seq(Items), NEW t \in Seq(Items)
      PROVE  s \o t \in Seq(Items) /\ ToSet(s \o t) \subseteq ToSet(s) \cup ToSet(t)
  BY DEF ToSet
<1> DEFINE e == a \o b
<1>6. e \in Seq(Items) /\ ToSet(e) \subseteq ToSet(a) \cup ToSet(b)
  BY <1>1, <1>5
<1>7. Get(c) = e \o d
  BY <1>3
<1> HIDE DEF e
<1>8. e \o d \in Seq(Items) /\ ToSet(e \o d) \subseteq ToSet(e) \cup ToSet(d)
  BY <1>1, <1>5, <1>6
<1>9. ToSet(e \o d) \subseteq AllItems(c)
  BY <1>2, <1>6, <1>8
<1> QED
  BY <1>4, <1>7, <1>8, <1>9

\* A rule whose result is included by no more than the items that select the rule is
\* selected.
LEMMA IncludedIsSelected ==
  ASSUME CriteriaTyped, NEW info, NEW r, LegacyIsResultIncluded(r),
         LegacyMakeMatchers(r) \cap ToSet(Get(include)) \subseteq createRuleMatchers(info),
         createRuleMatchers(info) \subseteq LegacyMakeMatchers(r)
  PROVE  IncludedRule(info)
<1> DEFINE rule == createRuleMatchers(info)
           result == LegacyMakeMatchers(r)
           inc == Get(include)
           exc == Get(exclude)
<1>1. inc \in Seq(Items) /\ exc \in Seq(Items)
  BY GetTyped DEF CriteriaTyped
<1>2. /\ LegacyScoreMatches(rule, inc) \in Nat /\ LegacyScoreMatches(rule, exc) \in Nat
      /\ LegacyScoreMatches(result, inc) \in Nat /\ LegacyScoreMatches(result, exc) \in Nat
  BY <1>1, ScoreNat
<1>3. LegacyScoreMatches(result, inc) <= LegacyScoreMatches(rule, inc)
  BY <1>1, ScoreGrows
<1>4. LegacyScoreMatches(rule, exc) <= LegacyScoreMatches(result, exc)
  BY <1>1, ScoreGrows
<1>5. LegacyScoreMatches(result, inc) > LegacyScoreMatches(result, exc)
  BY DEF LegacyIsResultIncluded
<1>6. LegacyScoreMatches(rule, inc) > LegacyScoreMatches(rule, exc)
  <2> HIDE DEF rule, result, inc, exc
  <2> QED
    BY <1>2, <1>3, <1>4, <1>5
<1> QED
  BY <1>6 DEF IncludedRule

\* A result with the same matchers as its rule is included if the rule is selected, unless
\* that is for want of include items.
LEMMA SelectedIsIncluded ==
  ASSUME CriteriaTyped, NEW info, NEW r, IncludedRule(info), Get(include) # << >>,
         LegacyMakeMatchers(r) \cap ToSet(Get(include)) = createRuleMatchers(info) \cap ToSet(Get(include)),
         LegacyMakeMatchers(r) \cap ToSet(Get(exclude)) = createRuleMatchers(info) \cap ToSet(Get(exclude))
  PROVE  LegacyIsResultIncluded(r)
<1> DEFINE rule == createRuleMatchers(info)
           result == LegacyMakeMatchers(r)
           inc == Get(include)
           exc == Get(exclude)
<1>1. inc \in Seq(Items) /\ exc \in Seq(Items)
  BY GetTyped DEF CriteriaTyped
<1>2. /\ LegacyScoreMatches(rule, inc) = LegacyScoreMatches(result, inc)
      /\ LegacyScoreMatches(rule, exc) = LegacyScoreMatches(result, exc)
  BY <1>1, ScoreSame
<1>3. CASE LegacyScoreMatches(rule, inc) > LegacyScoreMatches(rule, exc)
  BY <1>2, <1>3 DEF LegacyIsResultIncluded
<1>4. CASE LegacyScoreMatches(rule, exc) <= 0 /\ inc = <<Wildcard>>
  <2>1. Wildcard \in rule \cap ToSet(inc)
    BY <1>4 DEF createRuleMatchers, ToSet
  <2>2. LegacyScoreMatches(rule, inc) >= 1
    BY <1>1, <2>1, ScoreAtLeast, ScoresOfItems
  <2>3. LegacyScoreMatches(rule, inc) \in Nat /\ LegacyScoreMatches(rule, exc) \in Nat
    BY <1>1, ScoreNat
  <2> QED
    BY <1>2, <1>4, <2>2, <2>3 DEF LegacyIsResultIncluded
<1> QED
  BY <1>3, <1>4 DEF IncludedRule

-----------------------------------------------------------------------------
(* Part 4: what becomes of the results of one package *)

\* What conftest returns for a namespace, and what is known of the rule of a code.
Ans(ns) == IF ns \in DOMAIN policy.answers THEN policy.answers[ns] ELSE NoResults
InfoOf(code) == IF code \in DOMAIN rules THEN rules[code] ELSE BareRule(code)

LEMMA AnsTyped ==
  ASSUME policy \in Policies, NEW ns
  PROVE  Ans(ns) \in Answer
<1>1. CASE ns \in DOMAIN policy.answers
  BY <1>1, PolicyAssumption DEF Ans
<1>2. CASE ns \notin DOMAIN policy.answers
  BY <1>2 DEF Ans, NoResults, Answer
<1> QED
  BY <1>1, <1>2

\* What addRuleMetadata leaves and what it sets.
LEMMA MetadataFields ==
  ASSUME NEW q \in RawResult
  PROVE  LET r == addRuleMetadata(q)
         IN  /\ r.code = q.code /\ r.message = q.message /\ r.terms = q.terms
             /\ r.severity = q.severity /\ r.criterion = NoName
             /\ q.code = NoCode => r.dependsOn = q.dependsOn
             /\ q.code # NoCode =>
                  /\ r.collections = IF InfoOf(q.code).collections # {}
                                     THEN InfoOf(q.code).collections ELSE q.collections
                  /\ r.dependsOn = IF InfoOf(q.code).dependsOn # {}
                                   THEN InfoOf(q.code).dependsOn ELSE q.dependsOn
<1> DEFINE info == InfoOf(q.code)
           on   == IF info.effectiveOn # NoTime THEN info.effectiveOn ELSE q.effectiveOn
           time == IF on < Now - EffectiveOnTimeout THEN NoTime ELSE on
<1>1. CASE q.code = NoCode
  <2>1. addRuleMetadata(q) = q
    BY <1>1 DEF addRuleMetadata
  <2> QED
    BY <1>1, <2>1 DEF RawResult
<1>2. CASE q.code # NoCode
  <2>1. addRuleMetadata(q) =
          [q EXCEPT !.effectiveOn = time,
                    !.collections = IF info.collections # {} THEN info.collections ELSE @,
                    !.dependsOn   = IF info.dependsOn # {} THEN info.dependsOn ELSE @]
    BY <1>2, Zenon DEF addRuleMetadata, InfoOf
  <2> HIDE DEF info, time
  <2>2. /\ addRuleMetadata(q).code = q.code /\ addRuleMetadata(q).message = q.message
        /\ addRuleMetadata(q).terms = q.terms /\ addRuleMetadata(q).severity = q.severity
        /\ addRuleMetadata(q).criterion = NoName
        /\ addRuleMetadata(q).collections = IF info.collections # {} THEN info.collections ELSE q.collections
        /\ addRuleMetadata(q).dependsOn = IF info.dependsOn # {} THEN info.dependsOn ELSE q.dependsOn
    BY <2>1 DEF RawResult
  <2> QED
    BY <1>2, <2>2 DEF info
<1> QED
  BY <1>1, <1>2

\* The outcome of a package, step by step.
LEMMA MetadataOf ==
  ASSUME NEW ns
  PROVE  WithRuleMetadata(Conftest(ns)) =
           [Namespace |-> ns, Warnings |-> WithMetadata(Ans(ns).Warnings),
            Failures |-> WithMetadata(Ans(ns).Failures), Exceptions |-> WithMetadata(Ans(ns).Exceptions),
            Skipped |-> WithMetadata(Ans(ns).Skipped), Successes |-> {}]
<1>1. Conftest(ns) = [Namespace |-> ns, Warnings |-> Ans(ns).Warnings, Failures |-> Ans(ns).Failures,
                      Exceptions |-> Ans(ns).Exceptions, Skipped |-> Ans(ns).Skipped, Successes |-> {}]
  BY Zenon DEF Conftest, Ans
<1> DEFINE raw == Conftest(ns)
           w == WithMetadata(raw.Warnings)
           f == WithMetadata(raw.Failures)
           e == WithMetadata(raw.Exceptions)
           s == WithMetadata(raw.Skipped)
<1>2. WithRuleMetadata(raw) =
        [raw EXCEPT !.Warnings = w, !.Failures = f, !.Exceptions = e, !.Skipped = s]
  BY Zenon DEF WithRuleMetadata
<1>3. /\ raw.Warnings = Ans(ns).Warnings /\ raw.Failures = Ans(ns).Failures
      /\ raw.Exceptions = Ans(ns).Exceptions /\ raw.Skipped = Ans(ns).Skipped
  BY <1>1
<1> HIDE DEF raw, w, f, e, s
<1>4. raw = [Namespace |-> ns, Warnings |-> Ans(ns).Warnings, Failures |-> Ans(ns).Failures,
             Exceptions |-> Ans(ns).Exceptions, Skipped |-> Ans(ns).Skipped, Successes |-> {}]
  BY <1>1 DEF raw
<1>5. WithRuleMetadata(raw) = [Namespace |-> ns, Warnings |-> w, Failures |-> f, Exceptions |-> e,
                               Skipped |-> s, Successes |-> {}]
  BY <1>2, <1>4
<1> QED
  BY <1>3, <1>5, Zenon DEF raw, w, f, e, s

\* The results of the package that stay and that are put into a category.
KeptIn(ns, c) ==
  {r \in KeptResults(Reported(WithRuleMetadata(Conftest(ns)))) :
     Category(r, determineOriginalType(r, WithRuleMetadata(Conftest(ns)))) = c}

LEMMA FilteredOf ==
  ASSUME NEW ns
  PROVE  Filtered(Conftest(ns)) =
           [Namespace |-> ns, Warnings |-> KeptIn(ns, "Warnings"), Failures |-> KeptIn(ns, "Failures"),
            Exceptions |-> WithMetadata(Ans(ns).Exceptions) \cup KeptIn(ns, "Exceptions"),
            Skipped |-> WithMetadata(Ans(ns).Skipped) \cup KeptIn(ns, "Skipped"), Successes |-> {}]
<1> DEFINE o == WithRuleMetadata(Conftest(ns))
<1>1. Filtered(Conftest(ns)) =
        [o EXCEPT !.Warnings = KeptIn(ns, "Warnings"), !.Failures = KeptIn(ns, "Failures"),
                  !.Exceptions = @ \cup KeptIn(ns, "Exceptions"), !.Skipped = @ \cup KeptIn(ns, "Skipped")]
  BY Zenon DEF Filtered, CategorizeResults, KeptIn
<1> HIDE DEF o
<1>2. o = [Namespace |-> ns, Warnings |-> WithMetadata(Ans(ns).Warnings),
           Failures |-> WithMetadata(Ans(ns).Failures), Exceptions |-> WithMetadata(Ans(ns).Exceptions),
           Skipped |-> WithMetadata(Ans(ns).Skipped), Successes |-> {}]
  BY MetadataOf DEF o
<1> QED
  BY <1>1, <1>2

LEMMA ProcessedOf ==
  ASSUME NEW ns
  PROVE  Processed(Conftest(ns)) =
           [Namespace |-> ns, Warnings |-> KeptIn(ns, "Warnings"), Failures |-> KeptIn(ns, "Failures"),
            Exceptions |-> WithMetadata(Ans(ns).Exceptions) \cup KeptIn(ns, "Exceptions"),
            Skipped |-> WithMetadata(Ans(ns).Skipped) \cup KeptIn(ns, "Skipped"),
            Successes |-> computeSuccesses(Filtered(Conftest(ns)))]
<1> DEFINE o == Filtered(Conftest(ns))
<1>1. Processed(Conftest(ns)) = [o EXCEPT !.Successes = computeSuccesses(o)]
  BY Zenon DEF Processed
<1> HIDE DEF o
<1>2. o = [Namespace |-> ns, Warnings |-> KeptIn(ns, "Warnings"), Failures |-> KeptIn(ns, "Failures"),
           Exceptions |-> WithMetadata(Ans(ns).Exceptions) \cup KeptIn(ns, "Exceptions"),
           Skipped |-> WithMetadata(Ans(ns).Skipped) \cup KeptIn(ns, "Skipped"), Successes |-> {}]
  BY FilteredOf DEF o
<1>3. Processed(Conftest(ns)) =
           [Namespace |-> ns, Warnings |-> KeptIn(ns, "Warnings"), Failures |-> KeptIn(ns, "Failures"),
            Exceptions |-> WithMetadata(Ans(ns).Exceptions) \cup KeptIn(ns, "Exceptions"),
            Skipped |-> WithMetadata(Ans(ns).Skipped) \cup KeptIn(ns, "Skipped"),
            Successes |-> computeSuccesses(o)]
  BY <1>1, <1>2
<1> QED
  BY <1>3 DEF o

\* What policyRules holds after collect.
RulesTyped ==
  \A c \in DOMAIN rules :
    c \in Seq(STRING) /\ Len(c) >= 2 /\ Last(c) # Unset /\ rules[c] \in Rule /\ rules[c].code = c

\* Every reported result of an outcome is one that conftest returned, with its metadata;
\* the failures and warnings are among those that the filter keeps.
LEMMA ReportedOf ==
  ASSUME NEW ns
  PROVE  /\ \A r \in Reported(WithRuleMetadata(Conftest(ns))) :
              \E c \in Categories : \E q \in Ans(ns)[c] : r = addRuleMetadata(q)
         /\ \A c \in Categories : \A q \in Ans(ns)[c] :
              addRuleMetadata(q) \in Reported(WithRuleMetadata(Conftest(ns)))
         /\ Reported(Processed(Conftest(ns))) \subseteq Reported(WithRuleMetadata(Conftest(ns)))
         /\ Reported(Filtered(Conftest(ns))) = Reported(Processed(Conftest(ns)))
         /\ Processed(Conftest(ns)).Failures \cup Processed(Conftest(ns)).Warnings
              \subseteq KeptResults(Reported(WithRuleMetadata(Conftest(ns))))
<1> DEFINE raw == WithRuleMetadata(Conftest(ns))
           a == Ans(ns)
<1>1. /\ raw.Warnings = WithMetadata(a.Warnings) /\ raw.Failures = WithMetadata(a.Failures)
      /\ raw.Exceptions = WithMetadata(a.Exceptions) /\ raw.Skipped = WithMetadata(a.Skipped)
  BY MetadataOf
<1>2. \A c \in Categories : c \in {"Warnings", "Failures", "Exceptions", "Skipped"}
  BY DEF Categories
<1>3. Reported(raw) = WithMetadata(a.Failures) \cup WithMetadata(a.Warnings)
                        \cup WithMetadata(a.Skipped) \cup WithMetadata(a.Exceptions)
  BY <1>1, Zenon DEF Reported
<1>4. ASSUME NEW r \in Reported(raw)
      PROVE  \E c \in Categories : \E q \in a[c] : r = addRuleMetadata(q)
  BY <1>3 DEF WithMetadata, Categories
<1>5. ASSUME NEW c \in Categories, NEW q \in a[c]
      PROVE  addRuleMetadata(q) \in Reported(raw)
  BY <1>3 DEF WithMetadata, Categories
<1>6. \A c : KeptIn(ns, c) \subseteq KeptResults(Reported(raw)) /\ KeptIn(ns, c) \subseteq Reported(raw)
  BY DEF KeptIn, KeptResults
<1>7. /\ Processed(Conftest(ns)).Warnings = KeptIn(ns, "Warnings")
      /\ Processed(Conftest(ns)).Failures = KeptIn(ns, "Failures")
      /\ Processed(Conftest(ns)).Exceptions = WithMetadata(a.Exceptions) \cup KeptIn(ns, "Exceptions")
      /\ Processed(Conftest(ns)).Skipped = WithMetadata(a.Skipped) \cup KeptIn(ns, "Skipped")
  BY ProcessedOf
<1>8. /\ Filtered(Conftest(ns)).Warnings = KeptIn(ns, "Warnings")
      /\ Filtered(Conftest(ns)).Failures = KeptIn(ns, "Failures")
      /\ Filtered(Conftest(ns)).Exceptions = WithMetadata(a.Exceptions) \cup KeptIn(ns, "Exceptions")
      /\ Filtered(Conftest(ns)).Skipped = WithMetadata(a.Skipped) \cup KeptIn(ns, "Skipped")
  BY FilteredOf
<1>9. Reported(Filtered(Conftest(ns))) = Reported(Processed(Conftest(ns)))
  BY <1>7, <1>8, Zenon DEF Reported
<1>10. Reported(Processed(Conftest(ns))) =
         KeptIn(ns, "Failures") \cup KeptIn(ns, "Warnings")
           \cup (WithMetadata(a.Skipped) \cup KeptIn(ns, "Skipped"))
           \cup (WithMetadata(a.Exceptions) \cup KeptIn(ns, "Exceptions"))
  BY <1>7, Zenon DEF Reported
<1>11. Reported(Processed(Conftest(ns))) \subseteq Reported(raw)
  <2> HIDE DEF raw, a
  <2> QED
    BY <1>3, <1>6, <1>10
<1>12. Processed(Conftest(ns)).Failures \cup Processed(Conftest(ns)).Warnings
         \subseteq KeptResults(Reported(raw))
  <2> HIDE DEF raw, a
  <2> QED
    BY <1>6, <1>7
<1> QED
  BY <1>4, <1>5, <1>9, <1>11, <1>12

\* The successes are those rules of the package that nothing is reported of and whose
\* success the criteria include.
LEMMA UnseenOf ==
  ASSUME NEW ns, NEW s
  PROVE  s \in Unseen(Filtered(Conftest(ns))) <=>
           \E d \in DOMAIN rules : /\ d \notin Codes(Reported(Processed(Conftest(ns))))
                                   /\ Front(d) = ns /\ s = SuccessResult(rules[d])
<1>1. Filtered(Conftest(ns)).Namespace = ns
  BY FilteredOf
<1>2. Reported(Filtered(Conftest(ns))) = Reported(Processed(Conftest(ns)))
  BY ReportedOf
<1> QED
  BY <1>1, <1>2 DEF Unseen

LEMMA SuccessFields ==
  ASSUME RulesTyped, NEW d \in DOMAIN rules
  PROVE  LET s == SuccessResult(rules[d])
         IN  /\ s.code = d /\ s.code # NoCode /\ s.terms = {} /\ s.criterion = NoName
             /\ s.collections = rules[d].collections /\ s.dependsOn = rules[d].dependsOn
             /\ LegacyMakeMatchers(s) = createRuleMatchers(rules[d])
<1>1. d # NoCode /\ rules[d].code = d
  BY DEF RulesTyped, NoCode
<1> DEFINE s == SuccessResult(rules[d])
<1>2. /\ s.code = d /\ s.terms = {} /\ s.criterion = NoName
      /\ s.collections = rules[d].collections /\ s.dependsOn = rules[d].dependsOn
  BY <1>1 DEF SuccessResult
<1> HIDE DEF s
<1>3. LegacyMakeMatchers(s) = createRuleMatchers(rules[d])
  BY <1>1, <1>2, MatchersOfRule
<1> QED
  BY <1>1, <1>2, <1>3 DEF s

\* s is the success of the rule d, which nothing is reported of in the outcome of ns.
SuccessOf(s, d, ns) ==
  /\ d \notin Codes(Reported(Processed(Conftest(ns)))) /\ Front(d) = ns
  /\ LegacyIsResultIncluded(SuccessResult(rules[d]))
  /\ s.code = d /\ s.code # NoCode /\ s.criterion = NoName /\ s.dependsOn = rules[d].dependsOn
  /\ LegacyMakeMatchers(s) = createRuleMatchers(rules[d])

LEMMA SuccessesOf ==
  ASSUME RulesTyped, NEW ns
  PROVE  /\ \A s \in Processed(Conftest(ns)).Successes : \E d \in DOMAIN rules : SuccessOf(s, d, ns)
         /\ \A d \in DOMAIN rules :
              /\ d \notin Codes(Reported(Processed(Conftest(ns)))) /\ Front(d) = ns
              /\ LegacyIsResultIncluded(SuccessResult(rules[d]))
              => \E s \in Processed(Conftest(ns)).Successes : s.code = d
<1> DEFINE o == Filtered(Conftest(ns))
           With(t) == [t EXCEPT !.effectiveOn = rules[t.code].effectiveOn]
<1>1. Processed(Conftest(ns)).Successes = {With(t) : t \in KeptResults(Unseen(o))}
  <2>1. Processed(Conftest(ns)).Successes = computeSuccesses(o)
    BY ProcessedOf
  <2> QED
    BY <2>1, Zenon DEF computeSuccesses
<1>2. ASSUME NEW d \in DOMAIN rules
      PROVE  LET t == SuccessResult(rules[d])
             IN  /\ With(t).code = t.code /\ With(t).criterion = t.criterion
                 /\ With(t).dependsOn = t.dependsOn /\ LegacyMakeMatchers(With(t)) = LegacyMakeMatchers(t)
  <2> DEFINE t == SuccessResult(rules[d])
             time == rules[t.code].effectiveOn
             s == [t EXCEPT !.effectiveOn = time]
  <2>1. t = [code |-> t.code, message |-> t.message, terms |-> t.terms, severity |-> t.severity,
             effectiveOn |-> t.effectiveOn, collections |-> t.collections, dependsOn |-> t.dependsOn,
             criterion |-> t.criterion]
    BY DEF SuccessResult
  <2> HIDE DEF t, time
  <2>2. /\ s.code = t.code /\ s.terms = t.terms /\ s.collections = t.collections
        /\ s.dependsOn = t.dependsOn /\ s.criterion = t.criterion
    BY <2>1
  <2>3. s = With(t)
    BY DEF time
  <2> HIDE DEF s, With
  <2>4. LegacyMakeMatchers(s) = LegacyMakeMatchers(t)
    BY <2>2 DEF LegacyMakeMatchers
  <2> QED
    BY <2>2, <2>3, <2>4 DEF t
<1> HIDE DEF With
<1>3. ASSUME NEW s \in Processed(Conftest(ns)).Successes
      PROVE  \E d \in DOMAIN rules : SuccessOf(s, d, ns)
  <2>1. PICK t \in KeptResults(Unseen(o)) : s = With(t)
    BY <1>1
  <2>2. t \in Unseen(o) /\ (t.code = NoCode \/ LegacyIsResultIncluded(t))
    BY <2>1 DEF KeptResults
  <2>3. PICK d \in DOMAIN rules : /\ d \notin Codes(Reported(Processed(Conftest(ns))))
                                  /\ Front(d) = ns /\ t = SuccessResult(rules[d])
    BY <2>2, UnseenOf
  <2>4. /\ t.code = d /\ t.code # NoCode /\ t.criterion = NoName /\ t.dependsOn = rules[d].dependsOn
        /\ LegacyMakeMatchers(t) = createRuleMatchers(rules[d])
    BY <2>3, SuccessFields
  <2>5. /\ s.code = t.code /\ s.criterion = t.criterion
        /\ s.dependsOn = t.dependsOn /\ LegacyMakeMatchers(s) = LegacyMakeMatchers(t)
    BY <1>2, <2>1, <2>3
  <2>6. SuccessOf(s, d, ns)
    BY <2>2, <2>3, <2>4, <2>5 DEF SuccessOf
  <2> QED
    BY <2>6
<1>4. ASSUME NEW d \in DOMAIN rules,
             d \notin Codes(Reported(Processed(Conftest(ns)))), Front(d) = ns,
             LegacyIsResultIncluded(SuccessResult(rules[d]))
      PROVE  \E s \in Processed(Conftest(ns)).Successes : s.code = d
  <2> DEFINE t == SuccessResult(rules[d])
  <2>1. t \in Unseen(o)
    BY <1>4, UnseenOf
  <2>2. t \in KeptResults(Unseen(o))
    BY <1>4, <2>1 DEF KeptResults
  <2>3. With(t).code = d
    BY <1>2, SuccessFields
  <2> QED
    BY <1>1, <2>2, <2>3
<1> QED
  BY <1>3, <1>4

LEMMA MissingFields ==
  ASSUME NEW n
  PROVE  LET o == MissingInclude(n)
         IN  /\ o.Failures = {} /\ o.Exceptions = {} /\ o.Skipped = {} /\ o.Successes = {}
             /\ \E w : o.Warnings = {w} /\ w.code = NoCode /\ w.criterion = n /\ w.dependsOn = {}
<1> DEFINE r == SuccessResult(BareRule(NoCode))
           w == [r EXCEPT !.message = "missing", !.criterion = n]
<1>1. /\ MissingInclude(n).Failures = {} /\ MissingInclude(n).Exceptions = {}
      /\ MissingInclude(n).Skipped = {} /\ MissingInclude(n).Successes = {}
      /\ MissingInclude(n).Warnings = {w}
  BY DEF MissingInclude
<1>2. w.code = NoCode /\ w.criterion = n /\ w.dependsOn = {}
  BY DEF SuccessResult, BareRule
<1> HIDE DEF w
<1> QED
  BY <1>1, <1>2

-----------------------------------------------------------------------------
(* Part 5: the criteria in force *)

\* The turns of VolatileItems.
VolatileRun(volatile, key, f) ==
  f = [k \in 0..Len(volatile) |->
         IF k = 0 THEN << >>
         ELSE IF InForce(volatile[k]) /\ volatile[k].key = key
              THEN Append(f[k - 1], volatile[k].value) ELSE f[k - 1]]

LEMMA VolatileTyped ==
  ASSUME NEW volatile \in Seq(VolatileItem), NEW key
  PROVE  /\ VolatileItems(volatile, key) \in Seq(Items)
         /\ volatile = << >> => VolatileItems(volatile, key) = << >>
<1> DEFINE n == Len(volatile)
           V == Seq(Items)
           Turn(k, l) == IF InForce(volatile[k]) /\ volatile[k].key = key
                         THEN Append(l, volatile[k].value) ELSE l
           step == [k \in 1..n |-> [l \in V |-> Turn(k, l)]]
           h == CHOOSE f : VolatileRun(volatile, key, f)
<1>0. n \in Nat /\ << >> \in V
  OBVIOUS
<1>1. \A k \in 1..n : \A l \in V : Turn(k, l) \in V
  <2>1. ASSUME NEW k \in 1..n, NEW l \in V PROVE Append(l, volatile[k].value) \in V
    <3>1. volatile[k] \in VolatileItem
      BY Elements
    <3>2. volatile[k].value \in Items
      BY <3>1 DEF VolatileItem
    <3> QED
      BY <3>2
  <2> QED
    BY <2>1
<1>2. step \in [1..n -> [V -> V]] /\ \A k \in 1..n : \A l \in V : step[k][l] = Turn(k, l)
  <2> HIDE DEF Turn, V, n
  <2> QED
    BY <1>1
<1> HIDE DEF step, Turn
<1>3. PICK g : LoopOf(n, V, << >>, step, g)
  <2> HIDE DEF n, V
  <2> QED
    BY <1>0, <1>2, LoopRuns
<1> HIDE DEF V
<1>4. ASSUME NEW k \in 0..n PROVE g[k] = IF k = 0 THEN << >> ELSE Turn(k, g[k - 1])
  <2>1. CASE k = 0
    BY <1>3, <2>1 DEF LoopOf
  <2>2. CASE k # 0
    <3>1. k \in 1..n /\ k - 1 \in 0..n
      BY <1>0, <2>2
    <3>2. g[k - 1] \in V
      BY <1>3, <3>1 DEF LoopOf
    <3> QED
      BY <1>2, <1>3, <2>2, <3>1, <3>2 DEF LoopOf
  <2> QED
    BY <2>1, <2>2
<1>5. g = [k \in 0..n |-> IF k = 0 THEN << >> ELSE Turn(k, g[k - 1])]
  BY <1>3, <1>4 DEF LoopOf
<1>6. VolatileRun(volatile, key, h)
  BY <1>5, Zenon DEF VolatileRun, Turn
<1>7. VolatileItems(volatile, key) = h[n]
  BY DEF VolatileItems, VolatileRun
<1> HIDE DEF h
<1>8. ASSUME NEW k \in 0..n PROVE h[k] = IF k = 0 THEN << >> ELSE Turn(k, h[k - 1])
  BY <1>6, Zenon DEF VolatileRun, Turn
<1> DEFINE T == {k \in 0..n : h[k] \in V}
<1>9. 0 \in T
  BY <1>0, <1>8
<1>10. ASSUME NEW k \in 1..n, k - 1 \in T PROVE k \in T
  <2>1. k \in 0..n /\ k # 0 /\ h[k - 1] \in V
    BY <1>0, <1>10
  <2>2. h[k] = Turn(k, h[k - 1])
    BY <1>8, <2>1
  <2>3. Turn(k, h[k - 1]) \in V
    BY <1>1, <2>1 DEF Turn
  <2> QED
    BY <2>1, <2>2, <2>3
<1>11. 0..n \subseteq T
  <2> HIDE DEF T, n
  <2> QED
    BY <1>0, <1>9, <1>10, EveryTurn
<1>12. h[n] \in V
  BY <1>0, <1>11
<1>13. ASSUME volatile = << >> PROVE h[n] = << >>
  <2>1. n = 0
    BY <1>13
  <2> QED
    BY <1>8, <2>1
<1> QED
  BY <1>7, <1>12, <1>13 DEF V

LEMMA CollectTyped ==
  ASSUME NEW items \in Seq(Items), NEW volatile \in Seq(VolatileItem)
  PROVE  CollectItems(items, volatile) \in Criteria
<1>1. \A k : VolatileItems(volatile, k) \in Seq(Items)
  BY VolatileTyped
<1>2. items \o VolatileItems(volatile, NoKey) \in Seq(Items)
  BY <1>1
<1> QED
  BY <1>1, <1>2 DEF CollectItems, Criteria

LEMMA AddTyped ==
  ASSUME NEW c \in Criteria, NEW items \in Seq(Items)
  PROVE  AddItems(c, items) \in Criteria
<1>1. c.defaultItems \o items \in Seq(Items)
  BY DEF Criteria
<1> QED
  BY <1>1 DEF AddItems, Criteria

LEMMA ItemsTyped ==
  /\ Wildcard \in Items
  /\ \A c \in STRING \ {Unset} : Collection(c) \in Items
<1>1. Unset \in STRING /\ "*" \in STRING
  BY EvaluatorAssumption
<1>2. <<"*">> \in Seq(STRING) /\ << >> \in Seq(STRING)
  <2>1. ASSUME NEW S, NEW x \in S PROVE <<x>> \in Seq(S)
    OBVIOUS
  <2> QED
    BY <1>1, <2>1
<1>3. <<"*">> # << >>
  OBVIOUS
<1> QED
  BY <1>1, <1>2, <1>3 DEF Items, Wildcard, Collection, NoName, Name

LEMMA CriteriaComputed ==
  ASSUME NEW p \in Policies
  PROVE  /\ computeIncludeExclude(p).include \in Criteria
         /\ computeIncludeExclude(p).exclude \in Criteria
<1> DEFINE inc  == CollectItems(p.include, p.volatileInclude)
           exc  == CollectItems(p.exclude, p.volatileExclude)
           cols == [i \in DOMAIN p.global.collections |-> Collection(p.global.collections[i])]
           inc2 == IF NoItems(inc) /\ NoItems(exc) THEN AddItems(inc, p.global.include \o cols) ELSE inc
           exc2 == IF NoItems(inc) /\ NoItems(exc) THEN AddItems(exc, p.global.exclude) ELSE exc
<1>1. inc \in Criteria /\ exc \in Criteria
  <2>1. /\ p.include \in Seq(Items) /\ p.volatileInclude \in Seq(VolatileItem)
        /\ p.exclude \in Seq(Items) /\ p.volatileExclude \in Seq(VolatileItem)
    BY PolicyAssumption
  <2> QED
    BY <2>1, CollectTyped
<1>2. p.global.include \o cols \in Seq(Items) /\ p.global.exclude \in Seq(Items)
  <2> DEFINE names == p.global.collections
  <2>1. names \in Seq(STRING \ {Unset}) /\ p.global.include \in Seq(Items) /\ p.global.exclude \in Seq(Items)
    BY PolicyAssumption
  <2> HIDE DEF names
  <2>2. Len(names) \in Nat /\ DOMAIN names = 1..Len(names)
        /\ \A i \in 1..Len(names) : names[i] \in STRING \ {Unset}
    BY <2>1
  <2>3. \A i \in 1..Len(names) : Collection(names[i]) \in Items
    BY <2>2, ItemsTyped
  <2>4. cols \in [1..Len(names) -> Items]
    BY <2>2, <2>3 DEF names
  <2>5. cols \in Seq(Items)
    <3> HIDE DEF cols
    <3> QED
      BY <2>2, <2>4, SeqDef
  <2> HIDE DEF cols
  <2> QED
    BY <2>1, <2>5
<1> HIDE DEF inc, exc, cols
<1>3. inc2 \in Criteria /\ exc2 \in Criteria
  BY <1>1, <1>2, AddTyped
<1>4. computeIncludeExclude(p) = [include |-> IF NoItems(inc2) THEN AddItems(inc2, <<Wildcard>>) ELSE inc2,
                                  exclude |-> exc2]
  BY Zenon DEF computeIncludeExclude, inc, exc, cols
<1> HIDE DEF inc2, exc2
<1>5. <<Wildcard>> \in Seq(Items)
  BY ItemsTyped
<1>6. AddItems(inc2, <<Wildcard>>) \in Criteria
  BY <1>3, <1>5, AddTyped
<1> QED
  BY <1>3, <1>4, <1>6

\* Without volatile criteria the items for the image are the include list of the source,
\* if it has one.
LEMMA SourceItems ==
  ASSUME NEW p \in Policies, p.volatileInclude = << >>, p.include # << >>
  PROVE  Get(computeIncludeExclude(p).include) = p.include
<1> DEFINE inc == CollectItems(p.include, p.volatileInclude)
<1>1. p.include \in Seq(Items) /\ p.volatileInclude \in Seq(VolatileItem)
  BY PolicyAssumption
<1>2. \A k : VolatileItems(p.volatileInclude, k) = << >>
  BY <1>1, VolatileTyped
<1>3. inc.defaultItems = p.include /\ \A k \in Keys : inc.digestItems[k] = << >>
  <2>1. p.include \o << >> = p.include
    BY <1>1
  <2> QED
    BY <1>2, <2>1 DEF CollectItems
<1> HIDE DEF inc
<1>4. ~NoItems(inc)
  BY <1>3 DEF NoItems
<1>5. computeIncludeExclude(p).include = inc
  BY <1>4 DEF computeIncludeExclude, inc
<1>6. ItemsFor(inc, Target.repository) = << >> /\ ItemsFor(inc, Target.digest) = << >>
  BY <1>3 DEF ItemsFor
<1>7. << >> \o << >> \o p.include = p.include
  BY <1>1
<1> QED
  BY <1>3, <1>5, <1>6, <1>7 DEF Get

-----------------------------------------------------------------------------
(* Part 6: the invariant *)

\* What conftest is asked for, and what becomes of it.
Raws == {Conftest(ns) : ns \in NamespacesToUse}
Outcomes == {Processed(raw) : raw \in Raws} \cup {MissingInclude(n) : n \in missing}

\* Until the results are processed, no outcome; then one for each package that is done,
\* and missing and total tell what these have matched and counted.
EvalInv ==
  /\ policy \in Policies /\ CriteriaTyped /\ RulesTyped
  /\ pc # "new" => include = computeIncludeExclude(policy).include
  /\ pc # "results" => pending = {}
  /\ pc \in {"new", "collect", "run"} => results = {} /\ total = FALSE
  /\ pc \in {"results", "trim", "done"} =>
       /\ pending \subseteq Raws
       /\ missing = AllItems(include) \ UNION {PrunedBy(raw) : raw \in Raws \ pending}
       /\ total <=> \E raw \in Raws \ pending : Counted(Processed(raw))
  /\ pc = "results" => results = {Processed(raw) : raw \in Raws \ pending}
  /\ pc = "trim" => results = Outcomes
  /\ pc = "done" => untrimmed = Outcomes /\ results = trim(untrimmed) /\ total

\* The steps after collect leave what the results are processed with.
LEMMA ProcessingFrame ==
  ASSUME UNCHANGED <<policy, include, exclude, rules>>
  PROVE  /\ Raws' = Raws
         /\ \A raw : Processed(raw)' = Processed(raw) /\ PrunedBy(raw)' = PrunedBy(raw)
<1>1. policy' = policy /\ include' = include /\ exclude' = exclude /\ rules' = rules
  OBVIOUS
<1>2. \A r : LegacyIsResultIncluded(r)' <=> LegacyIsResultIncluded(r)
  BY <1>1, Zenon DEF LegacyIsResultIncluded
<1>3. \A i : IncludedRule(i)' <=> IncludedRule(i)
  BY <1>1, Zenon DEF IncludedRule
<1>4. AllRules' = AllRules
  BY <1>1, Zenon DEF AllRules
<1>5. IncludedPackages' = IncludedPackages
  BY <1>3, <1>4 DEF IncludedPackages
<1>6. NamespacesToUse' = NamespacesToUse
  BY <1>1, <1>5, Zenon DEF NamespacesToUse
<1>7. \A ns : Conftest(ns)' = Conftest(ns)
  BY <1>1, Zenon DEF Conftest
<1>8. Raws' = Raws
  BY <1>6, <1>7 DEF Raws
<1>9. ASSUME NEW r PROVE addRuleMetadata(r)' = addRuleMetadata(r)
  <2>1. (r.code \in DOMAIN rules)' <=> r.code \in DOMAIN rules
    BY <1>1
  <2> QED
    BY <1>1, <2>1, Zenon DEF addRuleMetadata
<1>10. \A rs : WithMetadata(rs)' = WithMetadata(rs)
  BY <1>9 DEF WithMetadata
<1>11. \A raw : WithRuleMetadata(raw)' = WithRuleMetadata(raw)
  BY <1>10, Zenon DEF WithRuleMetadata
<1>12. ASSUME NEW raw PROVE Filtered(raw)' = Filtered(raw)
  <2>1. WithRuleMetadata(raw)' = WithRuleMetadata(raw)
    BY <1>11
  <2>2. KeptResults(Reported(WithRuleMetadata(raw)))' = KeptResults(Reported(WithRuleMetadata(raw)))
    BY <1>2, <2>1, Zenon DEF KeptResults
  <2> QED
    BY <2>1, <2>2, Zenon DEF Filtered
<1>13. ASSUME NEW raw PROVE Unseen(Filtered(raw))' = Unseen(Filtered(raw))
  <2>1. Filtered(raw)' = Filtered(raw)
    BY <1>12
  <2> QED
    BY <1>1, <2>1, Zenon DEF Unseen
<1>14. ASSUME NEW raw PROVE KeptResults(Unseen(Filtered(raw)))' = KeptResults(Unseen(Filtered(raw)))
  <2>1. Unseen(Filtered(raw))' = Unseen(Filtered(raw))
    BY <1>13
  <2> QED
    BY <1>2, <2>1, Zenon DEF KeptResults
<1>15. ASSUME NEW raw PROVE computeSuccesses(Filtered(raw))' = computeSuccesses(Filtered(raw))
  <2>1. KeptResults(Unseen(Filtered(raw)))' = KeptResults(Unseen(Filtered(raw)))
    BY <1>14
  <2> QED
    BY <1>1, <2>1, Zenon DEF computeSuccesses
<1>16. ASSUME NEW raw PROVE Processed(raw)' = Processed(raw)
  <2>1. Filtered(raw)' = Filtered(raw) /\ computeSuccesses(Filtered(raw))' = computeSuccesses(Filtered(raw))
    BY <1>12, <1>15
  <2> QED
    BY <2>1, Zenon DEF Processed
<1>17. ASSUME NEW raw PROVE Pruned(Unseen(Filtered(raw)))' = Pruned(Unseen(Filtered(raw)))
  <2>1. /\ Unseen(Filtered(raw))' = Unseen(Filtered(raw))
        /\ KeptResults(Unseen(Filtered(raw)))' = KeptResults(Unseen(Filtered(raw)))
    BY <1>13, <1>14
  <2> QED
    BY <1>1, <2>1, Zenon DEF Pruned
<1>18. ASSUME NEW raw
       PROVE  Pruned(Reported(WithRuleMetadata(raw)))' = Pruned(Reported(WithRuleMetadata(raw)))
  <2>1. WithRuleMetadata(raw)' = WithRuleMetadata(raw)
    BY <1>11
  <2>2. KeptResults(Reported(WithRuleMetadata(raw)))' = KeptResults(Reported(WithRuleMetadata(raw)))
    BY <1>2, <2>1, Zenon DEF KeptResults
  <2> QED
    BY <1>1, <2>1, <2>2, Zenon DEF Pruned
<1>19. ASSUME NEW raw PROVE PrunedBy(raw)' = PrunedBy(raw)
  BY <1>17, <1>18, Zenon DEF PrunedBy
<1> QED
  BY <1>8, <1>16, <1>19

LEMMA EvalInit == Init => EvalInv
<1> SUFFICES ASSUME Init PROVE EvalInv
  OBVIOUS
<1>1. policy \in Policies /\ pc = "new" /\ pending = {} /\ results = {} /\ total = FALSE
  BY DEF Init
<1>2. CriteriaTyped
  BY DEF Init, CriteriaTyped, Criteria
<1>3. RulesTyped
  BY DEF Init, RulesTyped
<1> QED
  BY <1>1, <1>2, <1>3 DEF EvalInv

LEMMA NewStep ==
  ASSUME EvalInv, NewConftestEvaluator
  PROVE  EvalInv'
<1>1. /\ pc = "new" /\ pc' = "collect" /\ policy' = policy /\ policy \in Policies
      /\ include' = computeIncludeExclude(policy).include
      /\ exclude' = computeIncludeExclude(policy).exclude
      /\ rules' = rules /\ pending' = pending /\ results' = results /\ total' = total
      /\ pending = {} /\ results = {} /\ total = FALSE
  BY DEF NewConftestEvaluator, EvalInv
<1>2. CriteriaTyped'
  BY <1>1, CriteriaComputed DEF CriteriaTyped
<1>3. RulesTyped'
  BY <1>1, Zenon DEF EvalInv, RulesTyped
<1>4. include' = computeIncludeExclude(policy').include
  BY <1>1
<1> QED
  BY <1>1, <1>2, <1>3, <1>4 DEF EvalInv

LEMMA CollectStep ==
  ASSUME EvalInv, CollectRules
  PROVE  EvalInv'
<1>1. /\ pc = "collect" /\ pc' = "run" /\ policy' = policy /\ policy \in Policies
      /\ include' = include /\ exclude' = exclude /\ pending' = pending /\ results' = results
      /\ total' = total /\ pending = {} /\ results = {} /\ total = FALSE
      /\ include = computeIncludeExclude(policy).include
  BY DEF CollectRules, EvalInv
<1>2. CriteriaTyped'
  BY <1>1 DEF EvalInv, CriteriaTyped
<1> DEFINE An == policy.annotated
           codes == {An[i].code : i \in Named}
<1>3. An \in Seq(Rule) /\ \A i \in DOMAIN An : Len(An[i].code) >= 2
  BY <1>1, PolicyAssumption
<1>4. rules' = [c \in codes |-> An[CHOOSE i \in Named : An[i].code = c]]
  BY DEF CollectRules
<1>5. ASSUME NEW c \in codes
      PROVE  c \in Seq(STRING) /\ Len(c) >= 2 /\ Last(c) # Unset /\ rules'[c] \in Rule /\ rules'[c].code = c
  <2> DEFINE j == CHOOSE i \in Named : An[i].code = c
  <2>1. j \in Named /\ An[j].code = c
    BY <1>5
  <2>2. rules'[c] = An[j]
    BY <1>4
  <2> HIDE DEF j, An
  <2>3. j \in DOMAIN An /\ Last(An[j].code) # Unset
    BY <2>1 DEF Named, An
  <2>4. An[j] \in Rule
    BY <1>3, <2>3
  <2>5. An[j].code \in Seq(STRING)
    BY <2>4 DEF Rule
  <2> QED
    BY <1>3, <2>1, <2>2, <2>3, <2>4, <2>5
<1>6. DOMAIN rules' = codes
  BY <1>4
<1>7. RulesTyped'
  BY <1>5, <1>6 DEF RulesTyped
<1> QED
  BY <1>1, <1>2, <1>7 DEF EvalInv

LEMMA FailStep ==
  ASSUME EvalInv, CollectFails \/ RunFails
  PROVE  EvalInv'
<1>1. /\ pc # "new" /\ pc' = "error" /\ policy' = policy /\ policy \in Policies
      /\ include' = include /\ exclude' = exclude /\ rules' = rules /\ pending' = pending
      /\ pending = {} /\ include = computeIncludeExclude(policy).include
  BY DEF CollectFails, RunFails, EvalInv
<1>2. CriteriaTyped' /\ RulesTyped'
  BY <1>1, Zenon DEF EvalInv, CriteriaTyped, RulesTyped
<1> QED
  BY <1>1, <1>2 DEF EvalInv

\* What every later step keeps.
LEMMA LaterFrame ==
  ASSUME EvalInv, pc # "new", UNCHANGED <<policy, include, exclude, rules>>
  PROVE  /\ (policy \in Policies)' /\ CriteriaTyped' /\ RulesTyped'
         /\ (include = computeIncludeExclude(policy).include)'
<1>1. /\ policy' = policy /\ include' = include /\ exclude' = exclude /\ rules' = rules
      /\ include = computeIncludeExclude(policy).include /\ policy \in Policies
  BY DEF EvalInv
<1>2. CriteriaTyped' /\ RulesTyped'
  BY <1>1, Zenon DEF EvalInv, CriteriaTyped, RulesTyped
<1> QED
  BY <1>1, <1>2

LEMMA RunStep ==
  ASSUME EvalInv, Run
  PROVE  EvalInv'
<1>1. /\ pc = "run" /\ pc' = "results" /\ UNCHANGED <<policy, include, exclude, rules>>
      /\ total' = total /\ results' = results /\ total = FALSE /\ results = {}
      /\ missing' = AllItems(include)
  BY DEF Run, EvalInv
<1>2. pending' = Raws
  BY DEF Run, Raws
<1>3. Raws' = Raws
  BY <1>1, ProcessingFrame
<1>4. Raws' \ pending' = {}
  BY <1>2, <1>3
<1>5. /\ (policy \in Policies)' /\ CriteriaTyped' /\ RulesTyped'
      /\ (include = computeIncludeExclude(policy).include)'
  BY <1>1, LaterFrame
<1>6. missing' = AllItems(include') \ UNION {PrunedBy(raw)' : raw \in Raws' \ pending'}
  BY <1>1, <1>4
<1>7. total' <=> \E raw \in Raws' \ pending' : Counted(Processed(raw))'
  BY <1>1, <1>4
<1>8. results' = {Processed(raw)' : raw \in Raws' \ pending'}
  BY <1>1, <1>4
<1> QED
  BY <1>1, <1>2, <1>3, <1>5, <1>6, <1>7, <1>8 DEF EvalInv

LEMMA ProcessStep ==
  ASSUME EvalInv, NEW raw \in pending, ProcessResult(raw)
  PROVE  EvalInv'
<1>1. /\ pc = "results" /\ pc' = "results" /\ UNCHANGED <<policy, include, exclude, rules>>
      /\ pending' = pending \ {raw} /\ missing' = missing \ PrunedBy(raw)
      /\ total' = (total \/ Counted(Processed(raw))) /\ results' = results \cup {Processed(raw)}
  BY DEF ProcessResult
<1>2. Raws' = Raws /\ \A q : Processed(q)' = Processed(q) /\ PrunedBy(q)' = PrunedBy(q)
  BY <1>1, ProcessingFrame
<1>3. /\ pending \subseteq Raws
      /\ missing = AllItems(include) \ UNION {PrunedBy(q) : q \in Raws \ pending}
      /\ total <=> \E q \in Raws \ pending : Counted(Processed(q))
      /\ results = {Processed(q) : q \in Raws \ pending}
  BY <1>1 DEF EvalInv
<1>4. Raws' \ pending' = (Raws \ pending) \cup {raw} /\ pending' \subseteq Raws'
  BY <1>1, <1>2, <1>3
<1>5. /\ (policy \in Policies)' /\ CriteriaTyped' /\ RulesTyped'
      /\ (include = computeIncludeExclude(policy).include)'
  BY <1>1, LaterFrame
<1>6. missing' = AllItems(include') \ UNION {PrunedBy(q)' : q \in Raws' \ pending'}
  <2>1. include' = include
    BY <1>1
  <2>2. {PrunedBy(q)' : q \in Raws' \ pending'} = {PrunedBy(q) : q \in Raws \ pending} \cup {PrunedBy(raw)}
    BY <1>2, <1>4
  <2> QED
    BY <1>1, <1>3, <2>1, <2>2
<1>7. total' <=> \E q \in Raws' \ pending' : Counted(Processed(q))'
  <2>1. \A q : Counted(Processed(q))' <=> Counted(Processed(q))
    BY <1>2, Zenon DEF Counted
  <2> QED
    BY <1>1, <1>3, <1>4, <2>1, Zenon
<1>8. results' = {Processed(q)' : q \in Raws' \ pending'}
  BY <1>1, <1>2, <1>3, <1>4
<1> QED
  BY <1>1, <1>4, <1>5, <1>6, <1>7, <1>8 DEF EvalInv

LEMMA MissingStep ==
  ASSUME EvalInv, ReportMissing
  PROVE  EvalInv'
<1>1. /\ pc = "results" /\ pc' = "trim" /\ UNCHANGED <<policy, include, exclude, rules>>
      /\ pending' = pending /\ pending = {} /\ missing' = missing /\ total' = total
      /\ results' = results \cup {MissingInclude(n) : n \in missing}
  BY DEF ReportMissing
<1>2. Raws' = Raws /\ \A q : Processed(q)' = Processed(q) /\ PrunedBy(q)' = PrunedBy(q)
  BY <1>1, ProcessingFrame
<1>3. /\ pending \subseteq Raws
      /\ missing = AllItems(include) \ UNION {PrunedBy(q) : q \in Raws \ pending}
      /\ total <=> \E q \in Raws \ pending : Counted(Processed(q))
      /\ results = {Processed(q) : q \in Raws \ pending}
  BY <1>1 DEF EvalInv
<1>4. Raws' \ pending' = Raws \ pending /\ pending' \subseteq Raws' /\ Raws \ pending = Raws
  BY <1>1, <1>2, <1>3
<1>5. /\ (policy \in Policies)' /\ CriteriaTyped' /\ RulesTyped'
      /\ (include = computeIncludeExclude(policy).include)'
  BY <1>1, LaterFrame
<1>6. missing' = AllItems(include') \ UNION {PrunedBy(q)' : q \in Raws' \ pending'}
  BY <1>1, <1>2, <1>3, <1>4
<1>7. total' <=> \E q \in Raws' \ pending' : Counted(Processed(q))'
  <2>1. \A q : Counted(Processed(q))' <=> Counted(Processed(q))
    BY <1>2, Zenon DEF Counted
  <2> QED
    BY <1>1, <1>3, <1>4, <2>1, Zenon
<1>8. results' = Outcomes'
  <2>1. {Processed(q)' : q \in Raws'} = {Processed(q) : q \in Raws}
    BY <1>2
  <2>2. Outcomes' = {Processed(q)' : q \in Raws'} \cup {MissingInclude(n) : n \in missing'}
    BY Zenon DEF Outcomes
  <2> QED
    BY <1>1, <1>3, <1>4, <2>1, <2>2
<1> QED
  BY <1>1, <1>4, <1>5, <1>6, <1>7, <1>8 DEF EvalInv

LEMMA TrimStep ==
  ASSUME EvalInv, Trim
  PROVE  EvalInv'
<1>1. /\ pc = "trim" /\ pc' = (IF total THEN "done" ELSE "error")
      /\ UNCHANGED <<policy, include, exclude, rules>>
      /\ pending' = pending /\ missing' = missing /\ total' = total
      /\ untrimmed' = results /\ results' = trim(results)
  BY DEF Trim
<1>2. Raws' = Raws /\ \A q : Processed(q)' = Processed(q) /\ PrunedBy(q)' = PrunedBy(q)
  BY <1>1, ProcessingFrame
<1>3. /\ pending \subseteq Raws /\ pending = {}
      /\ missing = AllItems(include) \ UNION {PrunedBy(q) : q \in Raws \ pending}
      /\ total <=> \E q \in Raws \ pending : Counted(Processed(q))
      /\ results = Outcomes
  BY <1>1 DEF EvalInv
<1>4. Raws' \ pending' = Raws \ pending /\ pending' \subseteq Raws' /\ pending' = {}
  BY <1>1, <1>2, <1>3
<1>5. /\ (policy \in Policies)' /\ CriteriaTyped' /\ RulesTyped'
      /\ (include = computeIncludeExclude(policy).include)'
  BY <1>1, LaterFrame
<1>6. missing' = AllItems(include') \ UNION {PrunedBy(q)' : q \in Raws' \ pending'}
  BY <1>1, <1>2, <1>3, <1>4
<1>7. total' <=> \E q \in Raws' \ pending' : Counted(Processed(q))'
  <2>1. \A q : Counted(Processed(q))' <=> Counted(Processed(q))
    BY <1>2, Zenon DEF Counted
  <2> QED
    BY <1>1, <1>3, <1>4, <2>1, Zenon
<1>8. untrimmed' = Outcomes' /\ results' = trim(untrimmed')
  <2>1. {Processed(q)' : q \in Raws'} = {Processed(q) : q \in Raws}
    BY <1>2
  <2>2. Outcomes' = {Processed(q)' : q \in Raws'} \cup {MissingInclude(n) : n \in missing'}
    BY Zenon DEF Outcomes
  <2>3. Outcomes' = Outcomes
    BY <1>1, <2>1, <2>2 DEF Outcomes
  <2> QED
    BY <1>1, <1>3, <2>3
<1>9. pc' \in {"done", "error"} /\ (pc' = "done" => total')
  BY <1>1
<1> QED
  BY <1>4, <1>5, <1>6, <1>7, <1>8, <1>9 DEF EvalInv

LEMMA EvalFrame ==
  ASSUME EvalInv, UNCHANGED vars
  PROVE  EvalInv'
<1>1. /\ policy' = policy /\ pc' = pc /\ include' = include /\ exclude' = exclude /\ rules' = rules
      /\ pending' = pending /\ missing' = missing /\ total' = total /\ results' = results
      /\ untrimmed' = untrimmed /\ UNCHANGED <<policy, include, exclude, rules>>
  BY DEF vars
<1>2. Raws' = Raws /\ \A q : Processed(q)' = Processed(q) /\ PrunedBy(q)' = PrunedBy(q)
  BY <1>1, ProcessingFrame
<1>3. CriteriaTyped' /\ RulesTyped' /\ policy' \in Policies
      /\ (pc' # "new" => include' = computeIncludeExclude(policy').include)
  BY <1>1, Zenon DEF EvalInv, CriteriaTyped, RulesTyped
<1>4. {Processed(q)' : q \in Raws'} = {Processed(q) : q \in Raws}
  BY <1>2
<1>5. Outcomes' = Outcomes
  <2>1. Outcomes' = {Processed(q)' : q \in Raws'} \cup {MissingInclude(n) : n \in missing'}
    BY Zenon DEF Outcomes
  <2> QED
    BY <1>1, <1>4, <2>1 DEF Outcomes
<1>6. UNION {PrunedBy(q)' : q \in Raws' \ pending'} = UNION {PrunedBy(q) : q \in Raws \ pending}
  BY <1>1, <1>2
<1>7. {Processed(q)' : q \in Raws' \ pending'} = {Processed(q) : q \in Raws \ pending}
  BY <1>1, <1>2
<1>8. (\E q \in Raws' \ pending' : Counted(Processed(q))') <=> \E q \in Raws \ pending : Counted(Processed(q))
  <2>1. \A q : Counted(Processed(q))' <=> Counted(Processed(q))
    BY <1>2, Zenon DEF Counted
  <2>2. Raws' \ pending' = Raws \ pending
    BY <1>1, <1>2
  <2> QED
    BY <2>1, <2>2, Zenon
<1>9. pc' \in {"results", "trim", "done"} =>
       /\ pending' \subseteq Raws'
       /\ missing' = AllItems(include') \ UNION {PrunedBy(q)' : q \in Raws' \ pending'}
       /\ total' <=> \E q \in Raws' \ pending' : Counted(Processed(q))'
  BY <1>1, <1>2, <1>6, <1>8, Zenon DEF EvalInv
<1>10. /\ pc' # "results" => pending' = {}
       /\ pc' \in {"new", "collect", "run"} => results' = {} /\ total' = FALSE
       /\ pc' = "results" => results' = {Processed(q)' : q \in Raws' \ pending'}
       /\ pc' = "trim" => results' = Outcomes'
       /\ pc' = "done" => untrimmed' = Outcomes' /\ results' = trim(untrimmed') /\ total'
  BY <1>1, <1>5, <1>7, Zenon DEF EvalInv
<1> QED
  BY <1>3, <1>9, <1>10, Zenon DEF EvalInv

\* What is known of an evaluator and of its Evaluate at each place holds all the time.
THEOREM EvaluatorInvariance == Spec => []EvalInv
<1>1. ASSUME EvalInv, [Next]_vars PROVE EvalInv'
  <2>1. CASE Next
    <3>1. CASE NewConftestEvaluator
      BY <1>1, <3>1, NewStep
    <3>2. CASE CollectRules
      BY <1>1, <3>2, CollectStep
    <3>3. CASE CollectFails \/ RunFails
      BY <1>1, <3>3, FailStep
    <3>4. CASE Run
      BY <1>1, <3>4, RunStep
    <3>5. CASE \E raw \in pending : ProcessResult(raw)
      BY <1>1, <3>5, ProcessStep
    <3>6. CASE ReportMissing
      BY <1>1, <3>6, MissingStep
    <3>7. CASE Trim
      BY <1>1, <3>7, TrimStep
    <3> QED
      BY <2>1, <3>1, <3>2, <3>3, <3>4, <3>5, <3>6, <3>7 DEF Next
  <2>2. CASE UNCHANGED vars
    BY <1>1, <2>2, EvalFrame
  <2> QED
    BY <1>1, <2>1, <2>2
<1> QED
  BY <1>1, EvalInit, PTL DEF Spec

-----------------------------------------------------------------------------
(* Part 7: the selection *)

\* An outcome is that of a package that was asked for, or the warning of a missing item.
LEMMA OutcomeKinds ==
  /\ \A ns \in NamespacesToUse : Processed(Conftest(ns)) \in Outcomes
  /\ \A n \in missing : MissingInclude(n) \in Outcomes
  /\ \A o \in Outcomes : \/ \E ns \in NamespacesToUse : o = Processed(Conftest(ns))
                         \/ \E n \in missing : o = MissingInclude(n)
BY DEF Outcomes, Raws

LEMMA SelectedIsUsed ==
  ASSUME NEW info \in AllRules, IncludedRule(info)
  PROVE  <<info.code[1]>> \in NamespacesToUse
<1>1. <<info.code[1]>> \in IncludedPackages
  BY DEF IncludedPackages
<1>2. NamespacesToUse = IncludedPackages
  BY <1>1 DEF NamespacesToUse
<1> QED
  BY <1>1, <1>2

\* The two selections have the same matchers for a rule and for its success.
LEMMA SuccessSelection ==
  ASSUME EvalInv, NEW c \in DOMAIN rules
  PROVE  /\ LegacyIsResultIncluded(SuccessResult(rules[c])) => IncludedRule(rules[c])
         /\ IncludedRule(rules[c]) /\ Get(include) # << >>
              => LegacyIsResultIncluded(SuccessResult(rules[c]))
<1>1. LegacyMakeMatchers(SuccessResult(rules[c])) = createRuleMatchers(rules[c])
  BY SuccessFields DEF EvalInv
<1>2. CriteriaTyped
  BY DEF EvalInv
<1> QED
  BY <1>1, <1>2, IncludedIsSelected, SelectedIsIncluded

LEMMA SelectionsAgree == EvalInv => SameSelection
BY SuccessSelection DEF SameSelection

\* The package of a rule whose success would be kept is evaluated.
LEMMA IncludedIsEvaluated ==
  ASSUME EvalInv, PlainCodes, NEW c \in DOMAIN rules,
         LegacyIsResultIncluded(SuccessResult(rules[c]))
  PROVE  Front(c) \in NamespacesToUse
<1>1. c \in Seq(STRING) /\ rules[c].code = c /\ Len(c) = 2 /\ c \notin policy.bare
  BY DEF EvalInv, RulesTyped, PlainCodes
<1>2. Front(c) = <<c[1]>>
  BY <1>1, PlainCode
<1>3. rules[c] \in AllRules
  BY <1>1 DEF AllRules
<1>4. IncludedRule(rules[c])
  BY SuccessSelection
<1> QED
  BY <1>1, <1>2, <1>3, <1>4, SelectedIsUsed

\* It is reported or it is a success.
LEMMA IncludedIsAnswered ==
  ASSUME EvalInv, pc = "trim", PlainCodes, NEW c \in DOMAIN rules,
         LegacyIsResultIncluded(SuccessResult(rules[c]))
  PROVE  c \in Codes(All("Successes")) \/ c \in Codes(AllReported)
<1> DEFINE o == Processed(Conftest(Front(c)))
<1>1. o \in results
  BY IncludedIsEvaluated, OutcomeKinds DEF EvalInv
<1>2. c # NoCode /\ RulesTyped
  BY DEF EvalInv, RulesTyped, NoCode
<1>3. CASE c \in Codes(Reported(o))
  BY <1>1, <1>2, <1>3 DEF Codes, AllReported
<1>4. CASE c \notin Codes(Reported(o))
  <2>1. PICK s \in o.Successes : s.code = c
    BY <1>2, <1>4, SuccessesOf
  <2>2. s \in All("Successes")
    BY <1>1, <2>1 DEF All
  <2> QED
    BY <1>2, <2>1, <2>2 DEF Codes
<1> QED
  BY <1>3, <1>4

\* The rule's own name has 110 points; what else matches it has ten at most.
LEMMA NamedIsIncluded ==
  ASSUME EvalInv, PlainCodes, NEW c \in DOMAIN rules,
         Name(<<c[1], c[2]>>) \in ToSet(Get(include)),
         Name(<<c[1], c[2]>>) \notin ToSet(Get(exclude)), Len(Get(exclude)) < 11
  PROVE  LegacyIsResultIncluded(SuccessResult(rules[c]))
<1> DEFINE named == Name(<<c[1], c[2]>>)
           needles == createRuleMatchers(rules[c])
           inc == Get(include)
           exc == Get(exclude)
<1>1. /\ c \in Seq(STRING) /\ Len(c) = 2 /\ Last(c) # Unset /\ rules[c].code = c
      /\ "*" \notin ToSet(c) /\ inc \in Seq(Items) /\ exc \in Seq(Items)
  BY GetTyped DEF EvalInv, RulesTyped, CriteriaTyped, PlainCodes
<1>2. c[1] # "*" /\ c[2] \notin {"*", Unset}
  <2>1. DOMAIN c = 1..2 /\ Last(c) = c[2]
    BY <1>1 DEF Last
  <2>2. c[1] \in ToSet(c) /\ c[2] \in ToSet(c)
    BY <2>1 DEF ToSet
  <2> QED
    BY <1>1, <2>1, <2>2
<1>3. needles = {Name(<<c[1]>>), Name(<<c[1], "*">>), named} \cup {Wildcard}
                  \cup {Collection(k) : k \in rules[c].collections}
  BY <1>1, PlainMatchers DEF createRuleMatchers
<1>4. LegacyScore(named) = 110
  BY <1>2, ScoresOfItems
<1> HIDE DEF named, needles, inc, exc
<1>5. LegacyScoreMatches(needles, inc) >= 110
  <2>1. named \in needles \cap ToSet(inc)
    BY <1>3 DEF named, inc
  <2> QED
    BY <1>1, <1>4, <2>1, ScoreAtLeast
<1>6. \A n \in needles \cap ToSet(exc) : LegacyScore(n) <= 10
  <2>1. \A k : LegacyScore(Collection(k)) <= 10
    BY ScoresOfItems
  <2>2. LegacyScore(Name(<<c[1]>>)) <= 10 /\ LegacyScore(Name(<<c[1], "*">>)) <= 10 /\ LegacyScore(Wildcard) <= 10
    BY <1>2, ScoresOfItems
  <2>3. named \notin ToSet(exc)
    BY DEF named, exc
  <2> QED
    BY <1>3, <2>1, <2>2, <2>3
<1>7. LegacyScoreMatches(needles, exc) <= 10 * Len(exc)
  BY <1>1, <1>6, ScoreAtMost
<1>8. /\ LegacyScoreMatches(needles, inc) \in Nat /\ LegacyScoreMatches(needles, exc) \in Nat
      /\ Len(exc) \in Nat /\ Len(exc) < 11
  BY <1>1, ScoreNat DEF exc
<1>9. LegacyScoreMatches(needles, inc) > LegacyScoreMatches(needles, exc)
  BY <1>5, <1>7, <1>8
<1>10. LegacyMakeMatchers(SuccessResult(rules[c])) = needles
  BY SuccessFields DEF EvalInv, needles
<1> QED
  BY <1>9, <1>10 DEF LegacyIsResultIncluded, inc, exc

LEMMA NamedIsAnswered == EvalInv => RuleBeatsPackage
<1> SUFFICES ASSUME EvalInv, pc = "trim", PlainCodes, NEW c \in DOMAIN rules,
                    Name(<<c[1], c[2]>>) \in ToSet(Get(include)),
                    Name(<<c[1], c[2]>>) \notin ToSet(Get(exclude)), Len(Get(exclude)) < 11
             PROVE  c \in Codes(All("Successes") \cup AllReported)
  BY DEF RuleBeatsPackage
<1>1. LegacyIsResultIncluded(SuccessResult(rules[c]))
  BY NamedIsIncluded
<1>2. c \in Codes(All("Successes")) \/ c \in Codes(AllReported)
  BY <1>1, IncludedIsAnswered
<1> QED
  BY <1>2 DEF Codes

\* The selection before the run and the one after it agree, and a rule's own name decides
\* over that of its package (filters.go).
THEOREM SelectionIsSound == Spec => []SelectionSound
<1>1. EvalInv => SelectionSound
  BY SelectionsAgree, NamedIsAnswered DEF SelectionSound
<1> QED
  BY <1>1, EvaluatorInvariance, PTL

-----------------------------------------------------------------------------
(* Part 8: the answers *)

\* What conftest returns for a namespace is what the policy's rules return in it.
LEMMA AnswerMember ==
  ASSUME policy \in Policies, NEW ns, NEW c \in Categories, NEW q \in Ans(ns)[c]
  PROVE  ns \in DOMAIN policy.answers /\ q \in policy.answers[ns][c] /\ q \in RawResult /\ q \in Raw(c)
<1>1. ns \in DOMAIN policy.answers
  <2>1. \A d \in Categories : NoResults[d] = {}
    BY DEF NoResults, Categories
  <2> QED
    BY <2>1 DEF Ans
<1>2. Ans(ns) = policy.answers[ns]
  BY <1>1 DEF Ans
<1>3. Ans(ns)[c] \subseteq RawResult
  <2>1. Ans(ns) \in Answer
    BY AnsTyped
  <2> QED
    BY <2>1 DEF Answer, Categories
<1> QED
  BY <1>1, <1>2, <1>3 DEF Raw

LEMMA OwnReported ==
  ASSUME policy \in Policies, OwnCodes, NEW ns, NEW r \in Reported(Processed(Conftest(ns))), r.code # NoCode
  PROVE  Front(r.code) = ns
<1>1. r \in Reported(WithRuleMetadata(Conftest(ns)))
  BY ReportedOf
<1>2. PICK c \in Categories : \E q \in Ans(ns)[c] : r = addRuleMetadata(q)
  BY <1>1, ReportedOf
<1>3. PICK q \in Ans(ns)[c] : r = addRuleMetadata(q)
  BY <1>2
<1>4. ns \in DOMAIN policy.answers /\ q \in policy.answers[ns][c] /\ q \in RawResult
  BY AnswerMember
<1>5. r.code = q.code
  BY <1>3, <1>4, MetadataFields
<1> QED
  BY <1>4, <1>5 DEF OwnCodes, Coded

\* What is in the results at the end of the loop is in the outcome of a package, or it is
\* the warning of a missing item.
LEMMA AllOf ==
  ASSUME EvalInv, pc = "trim"
  PROVE  /\ \A r \in AllReported :
              r.code # NoCode => \E ns \in NamespacesToUse : r \in Reported(Processed(Conftest(ns)))
         /\ \A s \in All("Successes") : \E ns \in NamespacesToUse : s \in Processed(Conftest(ns)).Successes
<1>1. results = Outcomes
  BY DEF EvalInv
<1>2. ASSUME NEW r \in AllReported, r.code # NoCode
      PROVE  \E ns \in NamespacesToUse : r \in Reported(Processed(Conftest(ns)))
  <2>1. PICK o \in results : r \in Reported(o)
    BY DEF AllReported
  <2>2. ASSUME NEW n \in missing, o = MissingInclude(n) PROVE FALSE
    <3>1. Reported(o) = o.Warnings
      BY <2>2, MissingFields DEF Reported
    <3>2. PICK w : o.Warnings = {w} /\ w.code = NoCode
      BY <2>2, MissingFields
    <3> QED
      BY <1>2, <2>1, <3>1, <3>2
  <2> QED
    BY <1>1, <2>1, <2>2, OutcomeKinds
<1>3. ASSUME NEW s \in All("Successes")
      PROVE  \E ns \in NamespacesToUse : s \in Processed(Conftest(ns)).Successes
  <2>1. PICK o \in results : s \in o.Successes
    BY DEF All
  <2>2. ASSUME NEW n \in missing, o = MissingInclude(n) PROVE FALSE
    BY <2>1, <2>2, MissingFields
  <2> QED
    BY <1>1, <2>1, <2>2, OutcomeKinds
<1> QED
  BY <1>2, <1>3

\* A success is that of an included rule of a package that reports nothing of the rule.
LEMMA SuccessIsUnseen ==
  ASSUME EvalInv, pc = "trim", NEW c \in Codes(All("Successes"))
  PROVE  /\ LegacyIsResultIncluded(SuccessResult(rules[c]))
         /\ OwnCodes => c \notin Codes(AllReported)
<1>1. PICK s \in All("Successes") : s.code = c
  BY DEF Codes
<1>2. PICK ns \in NamespacesToUse : s \in Processed(Conftest(ns)).Successes
  BY AllOf
<1>3. RulesTyped /\ policy \in Policies
  BY DEF EvalInv
<1>4. PICK d \in DOMAIN rules : SuccessOf(s, d, ns)
  BY <1>2, <1>3, SuccessesOf
<1>5. d = c /\ LegacyIsResultIncluded(SuccessResult(rules[c])) /\ Front(c) = ns
      /\ c \notin Codes(Reported(Processed(Conftest(ns))))
  BY <1>1, <1>4 DEF SuccessOf
<1>6. ASSUME OwnCodes, c \in Codes(AllReported) PROVE FALSE
  <2>1. PICK r \in AllReported : r.code = c /\ r.code # NoCode
    BY <1>6 DEF Codes
  <2>2. PICK m \in NamespacesToUse : r \in Reported(Processed(Conftest(m)))
    BY <2>1, AllOf
  <2>3. m = ns
    BY <1>3, <1>5, <1>6, <2>1, <2>2, OwnReported
  <2> QED
    BY <1>5, <2>1, <2>2, <2>3 DEF Codes
<1> QED
  BY <1>5, <1>6

\* Every annotated rule that the criteria include is reported or a success, never both,
\* and no other rule is a success (computeSuccesses).
THEOREM RulesAnsweredOnce == Spec => []AnsweredOnce
<1>1. ASSUME EvalInv PROVE AnsweredOnce
  <2> SUFFICES ASSUME pc = "trim", PlainCodes, OwnCodes, NEW c \in DOMAIN rules
               PROVE  IF LegacyIsResultIncluded(SuccessResult(rules[c]))
                      THEN c \in Codes(All("Successes")) <=> c \notin Codes(AllReported)
                      ELSE c \notin Codes(All("Successes"))
    BY DEF AnsweredOnce
  <2> QED
    BY <1>1, IncludedIsAnswered, SuccessIsUnseen
<1> QED
  BY <1>1, EvaluatorInvariance, PTL

-----------------------------------------------------------------------------
(* Part 9: the failures *)

LEMMA RawMember ==
  ASSUME policy \in Policies, NEW c \in Categories, NEW q \in Raw(c)
  PROVE  q \in RawResult /\ \E ns \in DOMAIN policy.answers : q \in policy.answers[ns][c] /\ q \in Ans(ns)[c]
<1>1. PICK ns \in DOMAIN policy.answers : q \in policy.answers[ns][c]
  BY DEF Raw
<1>2. q \in Ans(ns)[c]
  BY <1>1 DEF Ans
<1>3. q \in RawResult
  BY <1>2, AnswerMember
<1> QED
  BY <1>1, <1>2, <1>3

\* The rule of a result that has a code is known, and so are its collections.
LEMMA KnownRule ==
  ASSUME EvalInv, PlainCodes, KnownResults, NEW c \in Categories, NEW q \in Raw(c), q.code # NoCode
  PROVE  LET info == InfoOf(q.code)
         IN  /\ q.code \in Seq(STRING) /\ Len(q.code) = 2
             /\ info \in AllRules /\ info.code = q.code
             /\ addRuleMetadata(q).code = info.code
             /\ addRuleMetadata(q).collections = info.collections
<1>1. /\ policy \in Policies /\ q.code \in DOMAIN rules \cup policy.bare /\ q.collections = {}
      /\ Len(q.code) = 2
  BY DEF EvalInv, KnownResults, Coded, PlainCodes
<1>2. q \in RawResult
  BY <1>1, RawMember
<1>3. q.code \in Seq(STRING)
  BY <1>2 DEF RawResult
<1>4. InfoOf(q.code) \in AllRules /\ InfoOf(q.code).code = q.code
  <2>1. CASE q.code \in DOMAIN rules
    BY <2>1 DEF InfoOf, AllRules, EvalInv, RulesTyped, PlainCodes
  <2>2. CASE q.code \notin DOMAIN rules
    BY <1>1, <2>2 DEF InfoOf, AllRules, BareRule
  <2> QED
    BY <2>1, <2>2
<1>5. /\ addRuleMetadata(q).code = q.code
      /\ addRuleMetadata(q).collections = IF InfoOf(q.code).collections # {}
                                          THEN InfoOf(q.code).collections ELSE q.collections
  BY <1>2, MetadataFields
<1> QED
  BY <1>1, <1>3, <1>4, <1>5

\* The package of an included result is evaluated, if no include item has a term.
LEMMA IncludedIsRun ==
  ASSUME EvalInv, PlainCodes, OwnCodes, KnownResults, NoIncludeTerms,
         NEW c \in Categories, NEW ns \in DOMAIN policy.answers, NEW q \in policy.answers[ns][c],
         q.code # NoCode, LegacyIsResultIncluded(addRuleMetadata(q))
  PROVE  ns \in NamespacesToUse
<1> DEFINE r == addRuleMetadata(q)
           info == InfoOf(q.code)
<1>1. q \in Raw(c)
  BY DEF Raw
<1>2. /\ q.code \in Seq(STRING) /\ Len(q.code) = 2 /\ info \in AllRules /\ info.code = q.code
      /\ r.code = info.code /\ r.collections = info.collections
  BY <1>1, KnownRule
<1>3. ns = <<q.code[1]>>
  <2>1. Front(q.code) = ns
    BY DEF OwnCodes, Coded
  <2> QED
    BY <1>2, <2>1, PlainCode
<1> HIDE DEF r, info
<1>4. /\ createRuleMatchers(info) \subseteq LegacyMakeMatchers(r)
      /\ LegacyMakeMatchers(r) \cap ToSet(Get(include)) \subseteq createRuleMatchers(info)
  BY <1>2, MatchersOfRule DEF NoIncludeTerms
<1>5. IncludedRule(info)
  BY <1>4, IncludedIsSelected DEF r, EvalInv
<1> QED
  BY <1>2, <1>3, <1>5, SelectedIsUsed

\* A result keeps its category where the results of its rule have one category.
LEMMA OneType ==
  ASSUME policy \in Policies, OneCategory, NEW ns, NEW c \in Categories, NEW q \in Ans(ns)[c],
         q.code # NoCode
  PROVE  determineOriginalType(addRuleMetadata(q), WithRuleMetadata(Conftest(ns))) = c
<1> DEFINE r == addRuleMetadata(q)
           o == WithRuleMetadata(Conftest(ns))
           byCode == {d \in Categories : r.code # NoCode /\ \E p \in o[d] : p.code = r.code}
<1>1. \A d \in Categories : o[d] = WithMetadata(Ans(ns)[d])
  BY MetadataOf DEF Categories
<1>2. ASSUME NEW d \in Categories, NEW p \in Ans(ns)[d]
      PROVE  addRuleMetadata(p).code = p.code /\ p \in policy.answers[ns][d] /\ ns \in DOMAIN policy.answers
  <2>1. p \in RawResult /\ p \in policy.answers[ns][d] /\ ns \in DOMAIN policy.answers
    BY AnswerMember
  <2> QED
    BY <2>1, MetadataFields
<1>3. r.code = q.code
  BY <1>2
<1>4. c \in byCode
  BY <1>1, <1>3 DEF WithMetadata
<1>5. ASSUME NEW d \in byCode PROVE d = c
  <2>1. PICK p \in o[d] : p.code = r.code
    BY <1>5
  <2>2. PICK x \in Ans(ns)[d] : p = addRuleMetadata(x)
    BY <1>1, <1>5, <2>1 DEF WithMetadata
  <2>3. x.code = q.code /\ x \in policy.answers[ns][d] /\ q \in policy.answers[ns][c]
        /\ ns \in DOMAIN policy.answers
    BY <1>2, <1>3, <1>5, <2>1, <2>2
  <2>4. q.code \in Codes(policy.answers[ns][d]) \cap Codes(policy.answers[ns][c])
    BY <2>3 DEF Codes
  <2> QED
    BY <1>5, <2>3, <2>4 DEF OneCategory
<1>6. byCode = {c}
  BY <1>4, <1>5
<1>7. FirstOf({c}) = c
  BY DEF FirstOf, Categories
<1>8. determineOriginalType(r, o) = FirstOf(byCode)
  <2>1. byCode # {}
    BY <1>4
  <2> QED
    BY <2>1 DEF determineOriginalType
<1> QED
  BY <1>6, <1>7, <1>8

LEMMA CategoryOfFailure ==
  ASSUME NEW r, NEW c \in Categories, Category(r, c) = "Failures"
  PROVE  c \in {"Failures", "Warnings"}
BY DEF Category, Categories

\* What is reported as a failure was returned as a failure or a warning of that effect.
LEMMA FailuresReturned ==
  ASSUME EvalInv, pc = "trim", OneCategory, NEW r \in All("Failures"), r.code # NoCode
  PROVE  r \in FailuresOf("Failures") \cup FailuresOf("Warnings") /\ LegacyIsResultIncluded(r)
<1>1. PICK o \in results : r \in o.Failures
  BY DEF All
<1>2. results = Outcomes /\ policy \in Policies
  BY DEF EvalInv
<1>3. ASSUME NEW n \in missing, o = MissingInclude(n) PROVE FALSE
  BY <1>1, <1>3, MissingFields
<1>4. PICK ns \in NamespacesToUse : o = Processed(Conftest(ns))
  BY <1>1, <1>2, <1>3, OutcomeKinds
<1> DEFINE raw == WithRuleMetadata(Conftest(ns))
<1>5. r \in KeptIn(ns, "Failures")
  BY <1>1, <1>4, ProcessedOf
<1>6. r \in KeptResults(Reported(raw)) /\ Category(r, determineOriginalType(r, raw)) = "Failures"
  BY <1>5 DEF KeptIn
<1>7. r \in Reported(raw) /\ LegacyIsResultIncluded(r)
  BY <1>6 DEF KeptResults
<1>8. PICK c \in Categories : \E q \in Ans(ns)[c] : r = addRuleMetadata(q)
  BY <1>7, ReportedOf
<1>9. PICK q \in Ans(ns)[c] : r = addRuleMetadata(q)
  BY <1>8
<1>10. q \in Raw(c) /\ q \in RawResult
  BY <1>2, AnswerMember
<1>11. q.code # NoCode
  BY <1>9, <1>10, MetadataFields
<1>12. Category(r, c) = "Failures"
  BY <1>2, <1>6, <1>9, <1>11, OneType
<1>13. r \in FailuresOf(c)
  BY <1>9, <1>10, <1>12 DEF FailuresOf, Returned, WithMetadata
<1> QED
  BY <1>7, <1>12, <1>13, CategoryOfFailure

\* What was returned as a failure and is included is reported as one.
LEMMA FailuresReported ==
  ASSUME EvalInv, pc = "trim", PlainCodes, OwnCodes, KnownResults, OneCategory, NoIncludeTerms,
         NEW c \in Categories, NEW r \in FailuresOf(c), r.code # NoCode, LegacyIsResultIncluded(r)
  PROVE  r \in All("Failures")
<1>1. PICK q \in Raw(c) : r = addRuleMetadata(q)
  BY DEF FailuresOf, Returned, WithMetadata
<1>2. results = Outcomes /\ policy \in Policies
  BY DEF EvalInv
<1>3. q \in RawResult
  BY <1>2, RawMember
<1>4. PICK ns \in DOMAIN policy.answers : q \in policy.answers[ns][c] /\ q \in Ans(ns)[c]
  BY <1>2, RawMember
<1>5. q.code # NoCode
  BY <1>1, <1>3, MetadataFields
<1>6. ns \in NamespacesToUse
  BY <1>1, <1>4, <1>5, IncludedIsRun
<1> DEFINE raw == WithRuleMetadata(Conftest(ns))
<1>7. determineOriginalType(r, raw) = c
  BY <1>1, <1>2, <1>4, <1>5, OneType
<1>8. Category(r, c) = "Failures"
  BY DEF FailuresOf
<1>9. r \in KeptResults(Reported(raw))
  <2>1. r \in Reported(raw)
    BY <1>1, <1>4, ReportedOf
  <2> QED
    BY <2>1 DEF KeptResults
<1>10. r \in KeptIn(ns, "Failures")
  BY <1>7, <1>8, <1>9 DEF KeptIn
<1>11. r \in Processed(Conftest(ns)).Failures
  BY <1>10, ProcessedOf
<1>12. Processed(Conftest(ns)) \in results
  BY <1>2, <1>6, OutcomeKinds
<1> QED
  BY <1>11, <1>12 DEF All

\* The failures before trim are exactly those that the rules return and that the criteria
\* include (Evaluate, FilterResults, CategorizeResults).
THEOREM FailuresAreExact == Spec => []FailuresExact
<1>1. ASSUME EvalInv PROVE FailuresExact
  <2> SUFFICES ASSUME pc = "trim", PlainCodes, OwnCodes, KnownResults, OneCategory, NoIncludeTerms
               PROVE  Coded(All("Failures"))
                        = {r \in Coded(FailuresOf("Failures") \cup FailuresOf("Warnings")) :
                             LegacyIsResultIncluded(r)}
    BY DEF FailuresExact
  <2>1. "Failures" \in Categories /\ "Warnings" \in Categories
    BY DEF Categories
  <2>2. ASSUME NEW r, r.code # NoCode
        PROVE  r \in All("Failures") <=>
                 /\ r \in FailuresOf("Failures") \cup FailuresOf("Warnings")
                 /\ LegacyIsResultIncluded(r)
    BY <1>1, <2>1, <2>2, FailuresReturned, FailuresReported
  <2> QED
    BY <2>2 DEF Coded
<1> QED
  BY <1>1, EvaluatorInvariance, PTL

-----------------------------------------------------------------------------
(* Part 10: the missing include items *)

\* What is seen to match in the results of a package.
LEMMA PrunedOf ==
  ASSUME NEW raw
  PROVE  /\ \A rs \in {Reported(WithRuleMetadata(raw)), Unseen(Filtered(raw))} :
              /\ \A r \in KeptResults(rs) : LegacyMakeMatchers(r) \subseteq PrunedBy(raw)
              /\ \A r \in rs : r.code # NoCode =>
                   LegacyMakeMatchers(r) \cap ToSet(Get(include)) \subseteq PrunedBy(raw)
         /\ \A n \in PrunedBy(raw) :
              \E r \in Reported(WithRuleMetadata(raw)) \cup Unseen(Filtered(raw)) : n \in LegacyMakeMatchers(r)
<1>1. ASSUME NEW rs
      PROVE  /\ \A r \in KeptResults(rs) : LegacyMakeMatchers(r) \subseteq Pruned(rs)
             /\ \A r \in rs : r.code # NoCode =>
                  LegacyMakeMatchers(r) \cap ToSet(Get(include)) \subseteq Pruned(rs)
             /\ \A n \in Pruned(rs) : \E r \in rs : n \in LegacyMakeMatchers(r)
  <2> DEFINE coded == {q \in rs : q.code # NoCode}
             kept == KeptResults(rs)
             I == ToSet(Get(include))
             some == UNION {LegacyMakeMatchers(r) \cap I : r \in coded}
             all == UNION {LegacyMakeMatchers(r) : r \in kept}
  <2>1. kept \subseteq rs
    BY DEF KeptResults
  <2>2. Pruned(rs) = some \cup all
    BY DEF Pruned
  <2> HIDE DEF kept, I
  <2>3. \A r \in kept : LegacyMakeMatchers(r) \subseteq all
    OBVIOUS
  <2>4. \A r \in coded : LegacyMakeMatchers(r) \cap I \subseteq some
    OBVIOUS
  <2>5. \A n \in some : \E r \in coded : n \in LegacyMakeMatchers(r)
    OBVIOUS
  <2>6. \A n \in all : \E r \in kept : n \in LegacyMakeMatchers(r)
    OBVIOUS
  <2> HIDE DEF some, all
  <2> QED
    BY <2>1, <2>2, <2>3, <2>4, <2>5, <2>6 DEF kept, I
<1> QED
  BY <1>1 DEF PrunedBy

\* What the outcome of a package shows is seen to match.
LEMMA ShownIsPruned ==
  ASSUME RulesTyped, NEW ns
  PROVE  LET o == Processed(Conftest(ns))
         IN  /\ \A r \in o.Failures \cup o.Warnings \cup o.Successes :
                  LegacyMakeMatchers(r) \subseteq PrunedBy(Conftest(ns))
             /\ \A r \in Reported(o) : r.code # NoCode =>
                  LegacyMakeMatchers(r) \cap ToSet(Get(include)) \subseteq PrunedBy(Conftest(ns))
<1> DEFINE o == Processed(Conftest(ns))
           raw == WithRuleMetadata(Conftest(ns))
<1>1. ASSUME NEW r \in o.Failures \cup o.Warnings
      PROVE  LegacyMakeMatchers(r) \subseteq PrunedBy(Conftest(ns))
  <2>1. r \in KeptResults(Reported(raw))
    BY ReportedOf
  <2> QED
    BY <2>1, PrunedOf
<1>2. ASSUME NEW s \in o.Successes
      PROVE  LegacyMakeMatchers(s) \subseteq PrunedBy(Conftest(ns))
  <2>1. PICK d \in DOMAIN rules : SuccessOf(s, d, ns)
    BY SuccessesOf
  <2> DEFINE t == SuccessResult(rules[d])
  <2>2. t \in Unseen(Filtered(Conftest(ns)))
    BY <2>1, UnseenOf DEF SuccessOf
  <2>3. t \in KeptResults(Unseen(Filtered(Conftest(ns))))
    BY <2>1, <2>2 DEF KeptResults, SuccessOf
  <2>4. LegacyMakeMatchers(t) = LegacyMakeMatchers(s)
    BY <2>1, SuccessFields DEF SuccessOf
  <2> QED
    BY <2>3, <2>4, PrunedOf
<1>3. ASSUME NEW r \in Reported(o), r.code # NoCode
      PROVE  LegacyMakeMatchers(r) \cap ToSet(Get(include)) \subseteq PrunedBy(Conftest(ns))
  <2>1. r \in Reported(raw)
    BY ReportedOf
  <2> QED
    BY <1>3, <2>1, PrunedOf
<1> QED
  BY <1>1, <1>2, <1>3

\* The criteria that warnings name are the missing items.
LEMMA NotedIsMissing ==
  ASSUME EvalInv, pc = "trim"
  PROVE  {r.criterion : r \in All("Warnings")} \ {NoName} = missing
<1>1. results = Outcomes /\ policy \in Policies /\ missing \subseteq Items
  <2>1. AllItems(include) \subseteq Items
    BY GetTyped DEF EvalInv, CriteriaTyped
  <2> QED
    BY <2>1 DEF EvalInv
<1>2. ASSUME NEW w \in All("Warnings"), w.criterion # NoName PROVE w.criterion \in missing
  <2>1. PICK o \in results : w \in o.Warnings
    BY DEF All
  <2>2. ASSUME NEW ns, o = Processed(Conftest(ns)) PROVE FALSE
    <3>1. w \in Reported(o)
      BY <2>1 DEF Reported
    <3>2. PICK c \in Categories : \E q \in Ans(ns)[c] : w = addRuleMetadata(q)
      BY <2>2, <3>1, ReportedOf
    <3>3. PICK q \in Ans(ns)[c] : w = addRuleMetadata(q)
      BY <3>2
    <3>4. q \in RawResult
      BY <1>1, AnswerMember
    <3> QED
      BY <1>2, <3>3, <3>4, MetadataFields
  <2>3. PICK n \in missing : o = MissingInclude(n)
    BY <1>1, <2>1, <2>2, OutcomeKinds
  <2> QED
    BY <2>1, <2>3, MissingFields
<1>3. ASSUME NEW n \in missing
      PROVE  n # NoName /\ \E w \in All("Warnings") : w.criterion = n
  <2>1. n # NoName
    BY <1>1 DEF Items
  <2>2. PICK w : MissingInclude(n).Warnings = {w} /\ w.criterion = n
    BY MissingFields
  <2>3. MissingInclude(n) \in results
    BY <1>1, OutcomeKinds
  <2> QED
    BY <2>1, <2>2, <2>3 DEF All
<1> QED
  BY <1>2, <1>3

\* A missing item is one that no evaluated package has matched.
LEMMA MissingIsUnmatched ==
  ASSUME EvalInv, pc = "trim"
  PROVE  \A n : n \in missing <=>
                  n \in AllItems(include) /\ \A ns \in NamespacesToUse : n \notin PrunedBy(Conftest(ns))
BY DEF EvalInv, Raws

\* What is shown in the results does not match a missing item.
LEMMA ShownIsNotMissing ==
  ASSUME EvalInv, pc = "trim"
  PROVE  /\ \A r \in All("Failures") \cup All("Warnings") \cup All("Successes") :
              r.code # NoCode => LegacyMakeMatchers(r) \cap missing = {}
         /\ \A r \in AllReported :
              r.code # NoCode => LegacyMakeMatchers(r) \cap ToSet(Get(include)) \cap missing = {}
<1>1. results = Outcomes /\ RulesTyped
  BY DEF EvalInv
<1>2. ASSUME NEW r \in All("Failures") \cup All("Warnings") \cup All("Successes"), r.code # NoCode
      PROVE  LegacyMakeMatchers(r) \cap missing = {}
  <2>1. PICK o \in results : r \in o.Failures \cup o.Warnings \cup o.Successes
    BY DEF All
  <2>2. ASSUME NEW n, o = MissingInclude(n) PROVE FALSE
    BY <1>2, <2>1, <2>2, MissingFields
  <2>3. PICK ns \in NamespacesToUse : o = Processed(Conftest(ns))
    BY <1>1, <2>1, <2>2, OutcomeKinds
  <2>4. LegacyMakeMatchers(r) \subseteq PrunedBy(Conftest(ns))
    BY <1>1, <2>1, <2>3, ShownIsPruned
  <2> QED
    BY <2>4, MissingIsUnmatched
<1>3. ASSUME NEW r \in AllReported, r.code # NoCode
      PROVE  LegacyMakeMatchers(r) \cap ToSet(Get(include)) \cap missing = {}
  <2>1. PICK ns \in NamespacesToUse : r \in Reported(Processed(Conftest(ns)))
    BY <1>3, AllOf
  <2>2. LegacyMakeMatchers(r) \cap ToSet(Get(include)) \subseteq PrunedBy(Conftest(ns))
    BY <1>1, <1>3, <2>1, ShownIsPruned
  <2> QED
    BY <2>2, MissingIsUnmatched
<1> QED
  BY <1>2, <1>3

\* What a package matches is a matcher of a rule or of something that the rules return.
LEMMA PrunedIsKnown ==
  ASSUME EvalInv, NEW ns, NEW n \in PrunedBy(Conftest(ns))
  PROVE  \/ \E d \in DOMAIN rules : n \in createRuleMatchers(rules[d])
         \/ \E c \in Categories : \E r \in Returned(c) : n \in LegacyMakeMatchers(r)
<1>1. policy \in Policies /\ RulesTyped
  BY DEF EvalInv
<1>2. PICK r \in Reported(WithRuleMetadata(Conftest(ns))) \cup Unseen(Filtered(Conftest(ns))) :
        n \in LegacyMakeMatchers(r)
  BY PrunedOf
<1>3. CASE r \in Reported(WithRuleMetadata(Conftest(ns)))
  <2>1. PICK c \in Categories : \E q \in Ans(ns)[c] : r = addRuleMetadata(q)
    BY <1>3, ReportedOf
  <2>2. PICK q \in Ans(ns)[c] : r = addRuleMetadata(q)
    BY <2>1
  <2>3. q \in Raw(c)
    BY <1>1, AnswerMember
  <2>4. r \in Returned(c)
    BY <2>2, <2>3 DEF Returned, WithMetadata
  <2> QED
    BY <1>2, <2>4
<1>4. CASE r \in Unseen(Filtered(Conftest(ns)))
  <2>1. PICK d \in DOMAIN rules : r = SuccessResult(rules[d])
    BY <1>4, UnseenOf
  <2>2. LegacyMakeMatchers(r) = createRuleMatchers(rules[d])
    BY <1>1, <2>1, SuccessFields
  <2> QED
    BY <1>2, <2>2
<1> QED
  BY <1>2, <1>3, <1>4

\* No include item is reported as missing that matches what the results show, and every
\* one is that matches no rule and nothing that the rules return (missingIncludes).
THEOREM MissingIsExact == Spec => []MissingExact
<1>1. ASSUME EvalInv PROVE MissingExact
  <2> SUFFICES ASSUME pc = "trim" PROVE MissingExact
    BY DEF MissingExact
  <2> DEFINE kept  == Coded(All("Failures") \cup All("Warnings") \cup All("Successes"))
             one   == UNION {LegacyMakeMatchers(r) : r \in kept}
             two   == UNION {LegacyMakeMatchers(r) \cap ToSet(Get(include)) : r \in Coded(AllReported)}
             noted == {r.criterion : r \in All("Warnings")} \ {NoName}
             rule  == UNION {createRuleMatchers(rules[c]) : c \in DOMAIN rules}
             back  == UNION {Returned(c) : c \in Categories}
             ret   == UNION {LegacyMakeMatchers(r) : r \in back}
  <2>1. noted = missing
    BY <1>1, NotedIsMissing
  <2>2. one \cap missing = {}
    <3>1. ASSUME NEW n \in one PROVE n \notin missing
      <4>1. PICK r \in kept : n \in LegacyMakeMatchers(r)
        OBVIOUS
      <4>2. /\ r \in All("Failures") \cup All("Warnings") \cup All("Successes") /\ r.code # NoCode
        BY <4>1 DEF Coded
      <4> QED
        BY <1>1, <4>1, <4>2, ShownIsNotMissing
    <3> QED
      BY <3>1
  <2>3. two \cap missing = {}
    <3>1. ASSUME NEW n \in two PROVE n \notin missing
      <4>1. PICK r \in Coded(AllReported) : n \in LegacyMakeMatchers(r) \cap ToSet(Get(include))
        OBVIOUS
      <4>2. r \in AllReported /\ r.code # NoCode
        BY <4>1 DEF Coded
      <4> QED
        BY <1>1, <4>1, <4>2, ShownIsNotMissing
    <3> QED
      BY <3>1
  <2>4. ASSUME NEW n \in AllItems(include), n \notin rule, n \notin ret PROVE n \in missing
    <3>1. ASSUME NEW ns \in NamespacesToUse, n \in PrunedBy(Conftest(ns)) PROVE FALSE
      <4>1. CASE \E d \in DOMAIN rules : n \in createRuleMatchers(rules[d])
        BY <2>4, <4>1
      <4>2. CASE \E c \in Categories : \E r \in Returned(c) : n \in LegacyMakeMatchers(r)
        BY <2>4, <4>2
      <4> QED
        BY <1>1, <3>1, <4>1, <4>2, PrunedIsKnown
    <3> QED
      BY <1>1, <2>4, <3>1, MissingIsUnmatched
  <2>5. (one \cup two) \cap noted = {} /\ AllItems(include) \ (rule \cup ret) \subseteq noted
    <3> HIDE DEF one, two, noted, rule, ret
    <3> QED
      BY <2>1, <2>2, <2>3, <2>4
  <2> QED
    BY <2>5, Zenon DEF MissingExact
<1> QED
  BY <1>1, EvaluatorInvariance, PTL

-----------------------------------------------------------------------------
(* Part 11: trim *)

\* One turn of trim.
TrimmedOutcome(o, reported) ==
  [o EXCEPT !.Failures = Trimmed(@, reported), !.Warnings = Trimmed(@, reported),
            !.Skipped = Trimmed(@, reported), !.Successes = Trimmed(@, reported)]

\* Trim removes results and adds none.
TrimOf(t, o, reported) ==
  /\ t.Failures = Trimmed(o.Failures, reported) /\ t.Warnings = Trimmed(o.Warnings, reported)
  /\ t.Skipped = Trimmed(o.Skipped, reported) /\ t.Successes = Trimmed(o.Successes, reported)
  /\ t.Exceptions = o.Exceptions

LEMMA TrimFields ==
  ASSUME NEW a, NEW w, NEW f, NEW e, NEW s, NEW p, NEW reported
  PROVE  LET o == [Namespace |-> a, Warnings |-> w, Failures |-> f, Exceptions |-> e,
                   Skipped |-> s, Successes |-> p]
         IN  TrimOf(TrimmedOutcome(o, reported), o, reported)
<1> DEFINE o == [Namespace |-> a, Warnings |-> w, Failures |-> f, Exceptions |-> e,
                 Skipped |-> s, Successes |-> p]
           w1 == Trimmed(o.Warnings, reported)
           f1 == Trimmed(o.Failures, reported)
           s1 == Trimmed(o.Skipped, reported)
           p1 == Trimmed(o.Successes, reported)
<1>1. TrimmedOutcome(o, reported) =
        [o EXCEPT !.Failures = f1, !.Warnings = w1, !.Skipped = s1, !.Successes = p1]
  BY Zenon DEF TrimmedOutcome
<1> HIDE DEF w1, f1, s1, p1
<1>2. LET t == TrimmedOutcome(o, reported)
      IN  /\ t.Failures = f1 /\ t.Warnings = w1 /\ t.Skipped = s1 /\ t.Successes = p1
          /\ t.Exceptions = o.Exceptions
  BY <1>1
<1> HIDE DEF o
<1>3. TrimOf(TrimmedOutcome(o, reported), o, reported)
  BY <1>2 DEF TrimOf, w1, f1, s1, p1
<1> QED
  BY <1>3 DEF o

\* Every outcome is trimmed, and nothing else is in the results.
LEMMA TrimOutcomes ==
  /\ \A o \in Outcomes : \E t \in trim(Outcomes) : TrimOf(t, o, ReportedCodes(Outcomes))
  /\ \A t \in trim(Outcomes) : \E o \in Outcomes : TrimOf(t, o, ReportedCodes(Outcomes))
<1> DEFINE R == ReportedCodes(Outcomes)
<1>1. trim(Outcomes) = {TrimmedOutcome(o, R) : o \in Outcomes}
  BY Zenon DEF trim, TrimmedOutcome
<1>2. ASSUME NEW o \in Outcomes PROVE TrimOf(TrimmedOutcome(o, R), o, R)
  <2>1. ASSUME NEW ns, o = Processed(Conftest(ns)) PROVE TrimOf(TrimmedOutcome(o, R), o, R)
    BY <2>1, ProcessedOf, TrimFields
  <2>2. ASSUME NEW n, o = MissingInclude(n) PROVE TrimOf(TrimmedOutcome(o, R), o, R)
    <3> DEFINE w == {[SuccessResult(BareRule(NoCode)) EXCEPT !.message = "missing", !.criterion = n]}
    <3>1. o = [Namespace |-> << >>, Warnings |-> w, Failures |-> {}, Exceptions |-> {},
               Skipped |-> {}, Successes |-> {}]
      BY <2>2 DEF MissingInclude
    <3> HIDE DEF w
    <3> QED
      BY <3>1, TrimFields
  <2> QED
    BY <2>1, <2>2, OutcomeKinds
<1> HIDE DEF R
<1>3. /\ \A o \in Outcomes : \E t \in trim(Outcomes) : TrimOf(t, o, R)
      /\ \A t \in trim(Outcomes) : \E o \in Outcomes : TrimOf(t, o, R)
  BY <1>1, <1>2
<1> QED
  BY <1>3 DEF R

\* What a rule depends on, as far as it is known.
DependsOn(c) == IF c \in DOMAIN rules THEN rules[c].dependsOn ELSE {}

\* If only annotations say so, a reported result depends on what its rule depends on.
LEMMA ReportedDepends ==
  ASSUME EvalInv, Acyclic, NEW o \in Outcomes, NEW r \in Reported(o)
  PROVE  r.dependsOn = DependsOn(r.code) /\ (r.code # NoCode => r.criterion = NoName)
<1>1. policy \in Policies /\ RulesTyped /\ NoCode \notin DOMAIN rules
  <2>1. Len(NoCode) = 0
    BY DEF NoCode
  <2> QED
    BY <2>1 DEF EvalInv, RulesTyped
<1>2. ASSUME NEW ns, o = Processed(Conftest(ns))
      PROVE  r.dependsOn = DependsOn(r.code) /\ r.criterion = NoName
  <2>1. PICK c \in Categories : \E q \in Ans(ns)[c] : r = addRuleMetadata(q)
    BY <1>2, ReportedOf
  <2>2. PICK q \in Ans(ns)[c] : r = addRuleMetadata(q)
    BY <2>1
  <2>3. q \in RawResult /\ q.dependsOn = {}
    BY <1>1, AnswerMember DEF Acyclic
  <2>4. r.code = q.code /\ r.criterion = NoName
    BY <2>2, <2>3, MetadataFields
  <2>5. CASE q.code = NoCode
    <3>1. r.dependsOn = {}
      BY <2>2, <2>3, <2>5, MetadataFields
    <3> QED
      BY <1>1, <2>4, <2>5, <3>1 DEF DependsOn
  <2>6. CASE q.code # NoCode
    <3>1. r.dependsOn = IF InfoOf(q.code).dependsOn # {} THEN InfoOf(q.code).dependsOn ELSE q.dependsOn
      BY <2>2, <2>3, <2>6, MetadataFields
    <3>2. r.dependsOn = InfoOf(q.code).dependsOn
      BY <2>3, <3>1
    <3> QED
      BY <2>4, <3>2 DEF DependsOn, InfoOf, BareRule
  <2> QED
    BY <2>4, <2>5, <2>6
<1>3. ASSUME NEW n, o = MissingInclude(n)
      PROVE  r.dependsOn = DependsOn(r.code) /\ r.code = NoCode
  <2>1. r \in o.Warnings
    BY <1>3, MissingFields DEF Reported
  <2>2. r.code = NoCode /\ r.dependsOn = {}
    BY <1>3, <2>1, MissingFields
  <2> QED
    BY <1>1, <2>2 DEF DependsOn
<1> QED
  BY <1>2, <1>3, OutcomeKinds

\* A reported code stays unless its rule depends on something, and only on reported codes.
LEMMA ReportedStays ==
  ASSUME EvalInv, Acyclic, NEW c \in ReportedCodes(Outcomes),
         DependsOn(c) = {} \/ ~(DependsOn(c) \subseteq ReportedCodes(Outcomes))
  PROVE  c \in ReportedCodes(trim(Outcomes))
<1> DEFINE R == ReportedCodes(Outcomes)
<1>1. PICK o \in Outcomes : c \in Codes(o.Failures \cup o.Warnings \cup o.Skipped)
  BY DEF ReportedCodes
<1>2. PICK r \in o.Failures \cup o.Warnings \cup o.Skipped : r.code = c /\ c # NoCode
  BY <1>1 DEF Codes
<1>3. r.dependsOn = DependsOn(c)
  <2>1. r \in Reported(o)
    BY DEF Reported
  <2> QED
    BY <1>2, <2>1, ReportedDepends
<1>4. PICK t \in trim(Outcomes) : TrimOf(t, o, R)
  BY TrimOutcomes
<1>5. r \in t.Failures \cup t.Warnings \cup t.Skipped
  BY <1>3, <1>4 DEF TrimOf, Trimmed
<1>6. c \in Codes(t.Failures \cup t.Warnings \cup t.Skipped)
  BY <1>2, <1>5 DEF Codes
<1> QED
  BY <1>6 DEF ReportedCodes

\* Among reported codes that are closed under dependencies on reported codes, one with
\* the least rank is not trimmed.
LEMMA CauseStays ==
  ASSUME EvalInv, Acyclic, NEW C, C # {}, C \subseteq ReportedCodes(Outcomes),
         \A c \in C : DependsOn(c) \subseteq ReportedCodes(Outcomes) => DependsOn(c) \subseteq C
  PROVE  C \cap ReportedCodes(trim(Outcomes)) # {}
<1> DEFINE R == ReportedCodes(Outcomes)
<1>1. CASE \E c \in C : c \notin DOMAIN rules
  <2>1. PICK c \in C : c \notin DOMAIN rules
    BY <1>1
  <2>2. DependsOn(c) = {}
    BY <2>1 DEF DependsOn
  <2> QED
    BY <2>2, ReportedStays
<1>2. CASE C \subseteq DOMAIN rules
  <2>1. PICK rank \in [DOMAIN rules -> 0..Len(policy.annotated)] :
          \A c \in DOMAIN rules : \A d \in rules[c].dependsOn \cap DOMAIN rules : rank[d] < rank[c]
    BY DEF Acyclic
  <2>2. Len(policy.annotated) \in Nat
    BY PolicyAssumption DEF EvalInv
  <2>3. \A c \in DOMAIN rules : rank[c] \in Nat
    BY <2>1, <2>2
  <2> DEFINE ranks == {rank[c] : c \in C}
  <2>4. ranks \subseteq Nat /\ ranks # {}
    BY <1>2, <2>3
  <2>5. PICK m \in ranks : \A n \in ranks : m <= n
    <3> HIDE DEF ranks
    <3> QED
      BY <2>4, LeastNumber
  <2>6. PICK c \in C : rank[c] = m
    BY <2>5
  <2>7. CASE DependsOn(c) = {} \/ ~(DependsOn(c) \subseteq R)
    BY <2>7, ReportedStays
  <2>8. CASE DependsOn(c) # {} /\ DependsOn(c) \subseteq R
    <3>1. PICK d \in DependsOn(c) : d \in C
      BY <2>8
    <3>2. d \in DOMAIN rules /\ c \in DOMAIN rules /\ d \in rules[c].dependsOn
      BY <1>2, <3>1 DEF DependsOn
    <3>3. rank[d] < rank[c] /\ rank[d] \in ranks
      BY <2>1, <3>1, <3>2
    <3>4. rank[c] <= rank[d] /\ rank[c] \in Nat /\ rank[d] \in Nat
      BY <2>3, <2>5, <2>6, <3>2, <3>3
    <3> QED
      BY <3>3, <3>4
  <2> QED
    BY <2>7, <2>8
<1> QED
  BY <1>1, <1>2

\* Whatever trim removed rests, dependency by dependency, on a code that is still
\* reported (trim), if no rule depends on itself.
THEOREM TrimKeepsCause == Spec => []TrimLeavesCause
<1>1. ASSUME EvalInv PROVE TrimLeavesCause
  <2> SUFFICES ASSUME pc = "done", Acyclic PROVE TrimLeavesCause
    BY DEF TrimLeavesCause
  <2>1. untrimmed = Outcomes /\ results = trim(Outcomes)
    BY <1>1 DEF EvalInv
  <2> DEFINE R == ReportedCodes(Outcomes)
             codes == DOMAIN rules \cup R
  <2>2. ASSUME NEW o \in Outcomes, NEW r \in Reported(o), r \notin AllReported,
               NEW closed \in SUBSET codes, r.dependsOn \subseteq closed,
               \A c \in closed : DependsOn(c) \cap codes \subseteq closed
        PROVE  closed \cap ReportedCodes(trim(Outcomes)) # {}
    <3>1. PICK t \in trim(Outcomes) : TrimOf(t, o, R)
      BY TrimOutcomes
    <3>2. r \notin t.Failures \cup t.Warnings \cup t.Skipped \cup t.Exceptions
      BY <2>1, <2>2, <3>1 DEF AllReported, Reported
    <3>3. r.dependsOn # {} /\ r.dependsOn \subseteq R
      <4> HIDE DEF R
      <4> QED
        BY <3>1, <3>2 DEF TrimOf, Trimmed, Reported
    <3> DEFINE C == closed \cap R
    <3>4. C # {} /\ C \subseteq R
      BY <2>2, <3>3
    <3>5. \A c \in C : DependsOn(c) \subseteq R => DependsOn(c) \subseteq C
      <4> HIDE DEF R
      <4> QED
        BY <2>2
    <3>6. C \cap ReportedCodes(trim(Outcomes)) # {}
      <4> HIDE DEF C
      <4> QED
        BY <1>1, <3>4, <3>5, CauseStays
    <3> QED
      BY <3>6
  <2>3. ASSUME NEW r \in (UNION {Reported(o) : o \in Outcomes}) \ AllReported
        PROVE  r \notin AllReported /\ \E o \in Outcomes : r \in Reported(o)
    OBVIOUS
  <2>4. \A r \in (UNION {Reported(o) : o \in Outcomes}) \ AllReported :
          \A closed \in SUBSET codes :
            (r.dependsOn \subseteq closed /\ \A c \in closed : DependsOn(c) \cap codes \subseteq closed)
            => closed \cap ReportedCodes(trim(Outcomes)) # {}
    <3> HIDE DEF codes
    <3> QED
      BY <2>2, <2>3
  <2> QED
    BY <2>1, <2>4, Zenon DEF TrimLeavesCause, DependsOn
<1> QED
  BY <1>1, EvaluatorInvariance, PTL

\* A counted result is that of a rule.
LEMMA CountedIsOfRule ==
  ASSUME policy \in Policies, RulesTyped, NEW ns,
         NEW r \in Reported(Processed(Conftest(ns))) \cup Processed(Conftest(ns)).Successes
  PROVE  r.criterion = NoName
<1>1. CASE r \in Processed(Conftest(ns)).Successes
  BY <1>1, SuccessesOf DEF SuccessOf
<1>2. CASE r \in Reported(Processed(Conftest(ns)))
  <2>1. PICK c \in Categories : \E q \in Ans(ns)[c] : r = addRuleMetadata(q)
    BY <1>2, ReportedOf
  <2>2. PICK q \in Ans(ns)[c] : r = addRuleMetadata(q)
    BY <2>1
  <2>3. q \in RawResult
    BY AnswerMember
  <2> QED
    BY <2>2, <2>3, MetadataFields
<1> QED
  BY <1>1, <1>2

\* Evaluate succeeds only with the result of a rule in what it returns (the error "no
\* successes, warnings, or failures").
THEOREM SuccessIsNotVacuous == Spec => []NotVacuous
<1>1. ASSUME EvalInv PROVE NotVacuous
  <2> DEFINE kinds == {"Failures", "Warnings", "Skipped", "Successes"}
  <2> SUFFICES ASSUME pc = "done", Acyclic
               PROVE  \E r \in UNION {All(c) : c \in kinds} : r.criterion = NoName
    BY Zenon DEF NotVacuous
  <2>1. /\ results = trim(Outcomes) /\ policy \in Policies /\ RulesTyped /\ pending = {}
        /\ \E raw \in Raws \ pending : Counted(Processed(raw))
    BY <1>1 DEF EvalInv
  <2>2. ASSUME NEW t \in results, NEW r \in t.Failures \cup t.Warnings \cup t.Skipped \cup t.Successes,
               r.criterion = NoName
        PROVE  \E q \in UNION {All(c) : c \in kinds} : q.criterion = NoName
    <3>1. r \in All("Failures") \cup All("Warnings") \cup All("Skipped") \cup All("Successes")
      BY DEF All
    <3>2. r \in UNION {All(c) : c \in kinds}
      BY <3>1
    <3> QED
      BY <2>2, <3>2
  <2>3. PICK ns \in NamespacesToUse : Counted(Processed(Conftest(ns)))
    BY <2>1 DEF Raws
  <2> DEFINE o == Processed(Conftest(ns))
             R == ReportedCodes(Outcomes)
  <2>4. PICK r \in o.Warnings \cup o.Failures \cup o.Successes : TRUE
    BY <2>3 DEF Counted
  <2>5. r.criterion = NoName
    <3>1. r \in Reported(o) \cup o.Successes
      BY DEF Reported
    <3> QED
      BY <2>1, <3>1, CountedIsOfRule
  <2>6. o \in Outcomes
    BY OutcomeKinds
  <2> HIDE DEF o, R
  <2>7. PICK t \in trim(Outcomes) : TrimOf(t, o, R)
    BY <2>6, TrimOutcomes DEF R
  <2>8. CASE r \in t.Warnings \cup t.Failures \cup t.Successes
    BY <2>1, <2>2, <2>5, <2>8
  <2>9. CASE r \notin t.Warnings \cup t.Failures \cup t.Successes
    <3>1. r.dependsOn # {} /\ r.dependsOn \subseteq R
      BY <2>7, <2>9 DEF TrimOf, Trimmed
    <3>2. R \cap ReportedCodes(trim(Outcomes)) # {}
      <4>1. R # {} /\ R \subseteq ReportedCodes(Outcomes)
            /\ \A c \in R : DependsOn(c) \subseteq ReportedCodes(Outcomes) => DependsOn(c) \subseteq R
        BY <3>1 DEF R
      <4> QED
        BY <1>1, <4>1, CauseStays
    <3>3. PICK c \in ReportedCodes(trim(Outcomes)) : TRUE
      BY <3>2
    <3>4. PICK u \in trim(Outcomes) : c \in Codes(u.Failures \cup u.Warnings \cup u.Skipped)
      BY DEF ReportedCodes
    <3>5. PICK q \in u.Failures \cup u.Warnings \cup u.Skipped : q.code = c /\ c # NoCode
      BY <3>4 DEF Codes
    <3>6. PICK p \in Outcomes : TrimOf(u, p, R)
      BY TrimOutcomes DEF R
    <3>7. q \in Reported(p)
      BY <3>6 DEF TrimOf, Trimmed, Reported
    <3>8. q.criterion = NoName
      BY <1>1, <3>5, <3>7, ReportedDepends
    <3> QED
      BY <2>1, <2>2, <3>8
  <2> QED
    BY <2>8, <2>9
<1> QED
  BY <1>1, EvaluatorInvariance, PTL

-----------------------------------------------------------------------------
(* Part 12: the other resolvers and filters *)

\* The package filter and the resolver judge the intentions of a package alike.
LEMMA IntentionFilter ==
  ASSUME NEW pkg
  PROVE  PipelineIntentionFilter(pkg) <=> matchesPipelineIntention(RulesOf(pkg))
<1> DEFINE named == UNION {i.pipelineIntention : i \in RulesOf(pkg)}
<1>1. named = {} <=> \A i \in RulesOf(pkg) : i.pipelineIntention = {}
  OBVIOUS
<1>2. named \cap Intentions # {} <=> \E i \in RulesOf(pkg) : i.pipelineIntention \cap Intentions # {}
  OBVIOUS
<1>3. PipelineIntentionFilter(pkg) <=> IF Intentions = {} THEN named = {} ELSE named \cap Intentions # {}
  BY Zenon DEF PipelineIntentionFilter
<1> HIDE DEF named
<1> QED
  BY <1>1, <1>2, <1>3 DEF matchesPipelineIntention

\* A code is that of one rule.
LEMMA OneRule ==
  ASSUME EvalInv, PlainCodes, NEW i \in AllRules
  PROVE  i = InfoOf(i.code)
<1>1. CASE \E c \in DOMAIN rules \ policy.bare : i = rules[c]
  BY <1>1 DEF InfoOf, EvalInv, RulesTyped
<1>2. CASE \E c \in policy.bare : i = BareRule(c)
  BY <1>2 DEF InfoOf, BareRule, PlainCodes
<1> QED
  BY <1>1, <1>2 DEF AllRules

\* ECPolicyResolver includes a rule if it is selected and its package has the intention.
LEMMA ECIncludes ==
  ASSUME EvalInv, PlainCodes, NEW info \in AllRules
  PROVE  info.code \in ECIncludedRules <=>
           IncludedRule(info) /\ matchesPipelineIntention(RulesOf(info.code[1]))
<1> DEFINE pkg == info.code[1]
<1>1. pkg \in Packages /\ info \in RulesOf(pkg)
  BY DEF Packages, RulesOf
<1>2. ASSUME NEW p \in Packages, NEW i \in ECRulesOf(p), i.code = info.code
      PROVE  i = info /\ p = pkg
  <2>1. i \in AllRules /\ i.code[1] = p
    BY DEF ECRulesOf, RulesOf
  <2> QED
    BY <1>2, <2>1, OneRule
<1>3. info.code \in ECIncludedRules <=> \E p \in Packages : \E i \in ECRulesOf(p) : i.code = info.code
  BY DEF ECIncludedRules
<1>4. info \in ECRulesOf(pkg) <=> IncludedRule(info) /\ matchesPipelineIntention(RulesOf(pkg))
  BY <1>1 DEF ECRulesOf
<1> QED
  BY <1>1, <1>2, <1>3, <1>4

\* Where no criterion has a term, a result has the score of its rule.
LEMMA ResultAsRule ==
  ASSUME EvalInv, NoTerms, Get(include) # << >>, NEW info, NEW r,
         r.code = info.code, r.collections = info.collections
  PROVE  IncludedRule(info) <=> LegacyIsResultIncluded(r)
<1>1. /\ createRuleMatchers(info) \subseteq LegacyMakeMatchers(r)
      /\ LegacyMakeMatchers(r) \cap ToSet(Get(include)) = createRuleMatchers(info) \cap ToSet(Get(include))
      /\ LegacyMakeMatchers(r) \cap ToSet(Get(exclude)) = createRuleMatchers(info) \cap ToSet(Get(exclude))
  BY MatchersOfRule DEF NoTerms
<1>2. CriteriaTyped
  BY DEF EvalInv
<1>3. IncludedRule(info) => LegacyIsResultIncluded(r)
  BY <1>1, <1>2, SelectedIsIncluded
<1>4. LegacyMakeMatchers(r) \cap ToSet(Get(include)) \subseteq createRuleMatchers(info)
  BY <1>1
<1>5. LegacyIsResultIncluded(r) => IncludedRule(info)
  BY <1>1, <1>2, <1>4, IncludedIsSelected
<1> QED
  BY <1>3, <1>5

LEMMA UnprocessedOf ==
  ASSUME EvalInv, NEW o \in Unprocessed
  PROVE  \E ns : o = WithRuleMetadata(Conftest(ns))
BY DEF EvalInv, Unprocessed, Raws

LEMMA IntentionsOnlyNarrow == EvalInv => IntentionsNarrow
<1> SUFFICES ASSUME EvalInv, PlainCodes, KnownResults, NoTerms, Get(include) # << >>,
                    NEW o \in Unprocessed, NEW r \in Coded(Reported(o))
             PROVE  /\ r \in ECKeptResults({r}) <=>
                         r \in KeptResults({r}) /\ PipelineIntentionFilter(r.code[1])
                    /\ r \in ECKeptResults({r}) => LegacyMakeMatchers(r) \cap ECMissingIncludes = {}
  BY DEF IntentionsNarrow
<1>1. PICK ns : o = WithRuleMetadata(Conftest(ns))
  BY UnprocessedOf
<1>2. r \in Reported(o) /\ r.code # NoCode /\ policy \in Policies
  BY DEF Coded, EvalInv
<1>3. PICK c \in Categories : \E q \in Ans(ns)[c] : r = addRuleMetadata(q)
  BY <1>1, <1>2, ReportedOf
<1>4. PICK q \in Ans(ns)[c] : r = addRuleMetadata(q)
  BY <1>3
<1>5. q \in Raw(c) /\ q \in RawResult
  BY <1>2, AnswerMember
<1>6. q.code # NoCode
  BY <1>2, <1>4, <1>5, MetadataFields
<1> DEFINE info == InfoOf(q.code)
<1>7. info \in AllRules /\ r.code = info.code /\ r.collections = info.collections
  BY <1>4, <1>5, <1>6, KnownRule
<1> HIDE DEF info
<1>8. IncludedRule(info) <=> LegacyIsResultIncluded(r)
  BY <1>7, ResultAsRule
<1>9. r.code \in ECIncludedRules <=> IncludedRule(info) /\ matchesPipelineIntention(RulesOf(r.code[1]))
  BY <1>7, ECIncludes
<1>10. r \in ECKeptResults({r}) <=> r.code \in ECIncludedRules
  BY <1>2 DEF ECKeptResults
<1>11. r \in KeptResults({r}) <=> LegacyIsResultIncluded(r)
  BY <1>2 DEF KeptResults
<1>12. ASSUME r.code \in ECIncludedRules, NEW n \in LegacyMakeMatchers(r), n \in ECMissingIncludes
       PROVE  FALSE
  <2> DEFINE pkg == r.code[1]
             meant == UNION {RulesOf(p) : p \in {m \in Packages : matchesPipelineIntention(RulesOf(m))}}
  <2>1. matchesPipelineIntention(RulesOf(pkg))
    BY <1>9, <1>12
  <2>2. pkg \in Packages /\ info \in RulesOf(pkg)
    BY <1>7 DEF Packages, RulesOf
  <2>3. info \in meant
    BY <2>1, <2>2
  <2>4. ECMissingIncludes = ToSet(Get(include)) \ UNION {createRuleMatchers(i) : i \in meant}
    BY Zenon DEF ECMissingIncludes
  <2>5. n \in ToSet(Get(include)) /\ n \notin createRuleMatchers(info)
    <3> HIDE DEF meant
    <3> QED
      BY <1>12, <2>3, <2>4
  <2>6. n \in createRuleMatchers(info)
    BY <1>7, <1>12, <2>5, MatchersOfRule DEF NoTerms
  <2> QED
    BY <2>5, <2>6
<1>13. PipelineIntentionFilter(r.code[1]) <=> matchesPipelineIntention(RulesOf(r.code[1]))
  BY IntentionFilter
<1> QED
  BY <1>8, <1>9, <1>10, <1>11, <1>12, <1>13

LEMMA AllRulesTyped ==
  ASSUME EvalInv, NEW i \in AllRules
  PROVE  i.code \in Seq(STRING)
<1>1. CASE \E c \in DOMAIN rules \ policy.bare : i = rules[c]
  BY <1>1 DEF EvalInv, RulesTyped
<1>2. CASE \E c \in policy.bare : i = BareRule(c)
  <2>1. policy.bare \subseteq Seq(STRING)
    BY PolicyAssumption DEF EvalInv
  <2> QED
    BY <1>2, <2>1 DEF BareRule
<1> QED
  BY <1>1, <1>2 DEF AllRules

\* The package of a rule that the source's include list selects is in that list.
LEMMA SelectedIsListed ==
  ASSUME EvalInv, pc # "new", policy.volatileInclude = << >>, policy.include # << >>,
         Wildcard \notin ToSet(policy.include),
         NEW i \in AllRules, Len(i.code) = 2, IncludedRule(i)
  PROVE  IncludeListFilter(i.code[1])
<1> DEFINE pkg == i.code[1]
           L == policy.include
           needles == createRuleMatchers(i)
           exc == Get(exclude)
<1>1. Get(include) = L
  <2>1. policy \in Policies /\ include = computeIncludeExclude(policy).include
    BY DEF EvalInv
  <2> QED
    BY <2>1, SourceItems
<1>2. L \in Seq(Items) /\ exc \in Seq(Items)
  BY PolicyAssumption, GetTyped DEF EvalInv, CriteriaTyped
<1>3. L # << >> /\ L # <<Wildcard>>
  BY DEF ToSet
<1>4. LegacyScoreMatches(needles, L) > LegacyScoreMatches(needles, exc)
  BY <1>1, <1>3 DEF IncludedRule
<1>5. PICK n \in needles : n \in ToSet(L)
  <2>1. LegacyScoreMatches(needles, L) \in Nat /\ LegacyScoreMatches(needles, exc) \in Nat
    BY <1>2, ScoreNat
  <2>2. LegacyScoreMatches(needles, L) # 0
    <3> HIDE DEF needles, L, exc
    <3> QED
      BY <1>4, <2>1
  <2> QED
    BY <1>2, <2>2, ScoreNone
<1>6. needles = {Name(<<pkg>>), Name(<<pkg, "*">>), Name(<<pkg, i.code[2]>>)} \cup {Wildcard}
                  \cup {Collection(k) : k \in i.collections}
  BY AllRulesTyped, PlainMatchers DEF createRuleMatchers
<1>7. CASE n = Name(<<pkg>>)
  BY <1>5, <1>7 DEF IncludeListFilter
<1>8. CASE \E x : n = Name(<<pkg, x>>)
  <2>1. Len(n.parts) > 1 /\ n.parts[1] = pkg
    BY <1>8 DEF Name
  <2> QED
    BY <1>5, <2>1 DEF IncludeListFilter
<1>9. CASE \E k \in i.collections : n = Collection(k)
  <2>1. n.col \in i.collections /\ i \in RulesOf(pkg)
    BY <1>9 DEF Collection, RulesOf
  <2> QED
    BY <1>5, <2>1 DEF IncludeListFilter
<1> QED
  BY <1>5, <1>6, <1>7, <1>8, <1>9

LEMMA FiltersKeep == EvalInv => FiltersKeepSelected
<1> SUFFICES ASSUME EvalInv, pc \notin {"new", "collect"}, policy.volatileInclude = << >>,
                    Wildcard \notin ToSet(policy.include), \A i \in AllRules : Len(i.code) = 2
             PROVE  /\ ECIncludedPackages \subseteq DefaultNamespaceFilter
                    /\ IncludedPackages \subseteq {<<pkg>> : pkg \in IncludeNamespaceFilter}
  BY DEF FiltersKeepSelected
<1>1. ASSUME NEW i \in AllRules, IncludedRule(i)
      PROVE  i.code[1] \in Packages /\ IncludeFilterFactory(i.code[1])
  <2>1. i.code[1] \in Packages
    BY DEF Packages
  <2>2. CASE policy.include = << >>
    BY <2>1, <2>2 DEF IncludeFilterFactory
  <2>3. CASE policy.include # << >>
    <3>1. pc # "new" /\ Len(i.code) = 2
      OBVIOUS
    <3>2. IncludeListFilter(i.code[1])
      BY <1>1, <2>3, <3>1, SelectedIsListed
    <3> QED
      BY <2>1, <3>2 DEF IncludeFilterFactory
  <2> QED
    BY <2>2, <2>3
<1>2. ASSUME NEW pkg \in ECIncludedPackages PROVE pkg \in DefaultNamespaceFilter
  <2>1. PICK i \in ECRulesOf(pkg) : TRUE
    BY DEF ECIncludedPackages
  <2>2. i \in AllRules /\ i.code[1] = pkg /\ IncludedRule(i) /\ matchesPipelineIntention(RulesOf(pkg))
    BY DEF ECRulesOf, RulesOf
  <2>3. PipelineIntentionFilter(pkg)
    BY <2>2, IntentionFilter
  <2> QED
    BY <1>1, <2>2, <2>3 DEF DefaultNamespaceFilter, DefaultFilterFactory
<1>3. ASSUME NEW p \in IncludedPackages PROVE \E pkg \in IncludeNamespaceFilter : p = <<pkg>>
  <2>1. PICK i \in AllRules : IncludedRule(i) /\ p = <<i.code[1]>>
    BY DEF IncludedPackages
  <2> QED
    BY <1>1, <2>1 DEF IncludeNamespaceFilter
<1> QED
  BY <1>2, <1>3

\* Both filters categorize a result with a code alike, as far as failures go.
LEMMA SameType ==
  ASSUME NEW o, NEW r \in Reported(o), r.code # NoCode,
         Codes(o.Failures) \cap Codes(o.Warnings) = {}
  PROVE  Category(r, LegacyOriginalType(r, o)) = "Failures"
           <=> Category(r, determineOriginalType(r, o)) = "Failures"
<1> DEFINE byCode == {c \in Categories : r.code # NoCode /\ \E q \in o[c] : q.code = r.code}
<1>1. \A c : c \in byCode <=> c \in Categories /\ \E q \in o[c] : q.code = r.code
  OBVIOUS
<1>2. byCode # {}
  BY <1>1 DEF Reported, Categories
<1>3. determineOriginalType(r, o) = FirstOf(byCode)
  BY <1>2 DEF determineOriginalType
<1>4. ~("Failures" \in byCode /\ "Warnings" \in byCode)
  BY <1>1 DEF Codes
<1> HIDE DEF byCode
<1>5. CASE "Failures" \in byCode
  <2>1. FirstOf(byCode) = "Failures"
    BY <1>4, <1>5 DEF FirstOf
  <2>2. LegacyOriginalType(r, o) = "Failures"
    BY <1>1, <1>5 DEF LegacyOriginalType
  <2> QED
    BY <1>3, <2>1, <2>2
<1>6. CASE "Warnings" \in byCode
  <2>1. FirstOf(byCode) = "Warnings"
    BY <1>6 DEF FirstOf
  <2>2. LegacyOriginalType(r, o) = "Warnings"
    BY <1>1, <1>4, <1>6 DEF LegacyOriginalType, Categories
  <2> QED
    BY <1>3, <2>1, <2>2
<1>7. CASE "Failures" \notin byCode /\ "Warnings" \notin byCode
  <2>1. FirstOf(byCode) \in {"Exceptions", "Skipped"}
    BY <1>7 DEF FirstOf
  <2>2. LegacyOriginalType(r, o) = "unknown"
    BY <1>1, <1>7 DEF LegacyOriginalType, Categories
  <2> QED
    BY <1>3, <2>1, <2>2 DEF Category
<1> QED
  BY <1>5, <1>6, <1>7

LEMMA LegacySame == EvalInv => LegacySameFailures
<1> SUFFICES ASSUME EvalInv, NEW o \in Unprocessed, Codes(o.Failures) \cap Codes(o.Warnings) = {}
             PROVE  Coded(LegacyCategorizeResults(LegacyKeptResults(Reported(o)), o).Failures)
                      = Coded(CategorizeResults(KeptResults(Reported(o)), o).Failures)
  BY DEF LegacySameFailures
<1> DEFINE k == KeptResults(Reported(o))
           lk == LegacyKeptResults(Reported(o))
           In(c) == {r \in k : Category(r, determineOriginalType(r, o)) = c}
           LIn(c) == {r \in lk : Category(r, LegacyOriginalType(r, o)) = c}
<1>1. CategorizeResults(k, o) =
        [o EXCEPT !.Warnings = In("Warnings"), !.Failures = In("Failures"),
                  !.Exceptions = @ \cup In("Exceptions"), !.Skipped = @ \cup In("Skipped")]
  BY Zenon DEF CategorizeResults
<1>2. LegacyCategorizeResults(lk, o) =
        [o EXCEPT !.Warnings = LIn("Warnings"), !.Failures = LIn("Failures")]
  BY Zenon DEF LegacyCategorizeResults
<1>3. PICK ns : o = WithRuleMetadata(Conftest(ns))
  BY UnprocessedOf
<1>4. o = [Namespace |-> ns, Warnings |-> WithMetadata(Ans(ns).Warnings),
           Failures |-> WithMetadata(Ans(ns).Failures), Exceptions |-> WithMetadata(Ans(ns).Exceptions),
           Skipped |-> WithMetadata(Ans(ns).Skipped), Successes |-> {}]
  BY <1>3, MetadataOf
<1>5. CategorizeResults(k, o).Failures = In("Failures")
  <2> HIDE DEF In, k
  <2> QED
    BY <1>1, <1>4
<1>6. LegacyCategorizeResults(lk, o).Failures = LIn("Failures")
  <2> HIDE DEF LIn, lk
  <2> QED
    BY <1>2, <1>4
<1>7. ASSUME NEW r, r.code # NoCode PROVE r \in LIn("Failures") <=> r \in In("Failures")
  <2>1. r \in k <=> r \in Reported(o) /\ LegacyIsResultIncluded(r)
    BY <1>7 DEF KeptResults
  <2>2. r \in lk <=> r \in Reported(o) /\ LegacyIsResultIncluded(r)
    BY DEF LegacyKeptResults
  <2>3. r \in Reported(o) => (Category(r, LegacyOriginalType(r, o)) = "Failures"
                                <=> Category(r, determineOriginalType(r, o)) = "Failures")
    BY <1>7, SameType
  <2> HIDE DEF k, lk
  <2> QED
    BY <2>1, <2>2, <2>3
<1>8. Coded(LIn("Failures")) = Coded(In("Failures"))
  <2> HIDE DEF In, LIn
  <2> QED
    BY <1>7 DEF Coded
<1> QED
  BY <1>5, <1>6, <1>8, Zenon

\* The resolvers and filters that Evaluate does not install select and report the same as
\* those it does, but for the pipeline intentions (filters.go).
THEOREM OtherFiltersAgree == Spec => []FiltersAgree
<1>1. EvalInv => FiltersAgree
  BY IntentionsOnlyNarrow, FiltersKeep, LegacySame DEF FiltersAgree
<1> QED
  BY <1>1, EvaluatorInvariance, PTL

-----------------------------------------------------------------------------
(* Part 13: types *)

Shaped(o) == DOMAIN o = {"Namespace", "Successes"} \cup Categories

\* The part of TypeOK that is not in EvalInv.
ShapeInv ==
  /\ pc \in {"new", "collect", "run", "results", "trim", "done", "error"}
  /\ pc = "new" => missing = {}
  /\ missing \subseteq AllItems(include)
  /\ total \in BOOLEAN
  /\ \A o \in pending \cup results \cup untrimmed : Shaped(o)

LEMMA ShapeOfRaw ==
  ASSUME NEW ns
  PROVE  Shaped(Conftest(ns)) /\ Shaped(Processed(Conftest(ns)))
<1>1. Shaped(Conftest(ns))
  BY DEF Conftest, Shaped, Categories
<1>2. Shaped(Processed(Conftest(ns)))
  BY ProcessedOf DEF Shaped, Categories
<1> QED
  BY <1>1, <1>2

LEMMA ShapeOfMissing ==
  ASSUME NEW n
  PROVE  Shaped(MissingInclude(n))
BY DEF MissingInclude, Shaped, Categories

LEMMA ShapeOfTrimmed ==
  ASSUME NEW os, \A o \in os : Shaped(o), NEW t \in trim(os)
  PROVE  Shaped(t)
<1>1. PICK o \in os : t = [o EXCEPT !.Failures  = Trimmed(@, ReportedCodes(os)),
                                    !.Warnings  = Trimmed(@, ReportedCodes(os)),
                                    !.Skipped   = Trimmed(@, ReportedCodes(os)),
                                    !.Successes = Trimmed(@, ReportedCodes(os))]
  BY DEF trim
<1>2. DOMAIN t = DOMAIN o
  BY <1>1
<1> QED
  BY <1>2 DEF Shaped

LEMMA ShapeStep ==
  ASSUME EvalInv, ShapeInv, [Next]_vars
  PROVE  ShapeInv'
<1>1. CASE NewConftestEvaluator
  BY <1>1 DEF NewConftestEvaluator, ShapeInv
<1>2. CASE CollectRules \/ CollectFails \/ RunFails
  <2>1. /\ pc' \in {"run", "error"}
        /\ UNCHANGED <<include, pending, missing, total, results, untrimmed>>
    BY <1>2 DEF CollectRules, CollectFails, RunFails
  <2>2. AllItems(include') = AllItems(include)
    BY <2>1
  <2> QED
    BY <2>1, <2>2 DEF ShapeInv
<1>3. CASE Run
  <2>1. /\ pc' = "results" /\ pending' = Raws /\ missing' = AllItems(include)
        /\ UNCHANGED <<include, total, results, untrimmed>>
    BY <1>3 DEF Run, Raws
  <2>2. AllItems(include') = AllItems(include)
    BY <2>1
  <2>3. \A o \in Raws : Shaped(o)
    BY ShapeOfRaw DEF Raws
  <2> QED
    BY <2>1, <2>2, <2>3 DEF ShapeInv
<1>4. CASE \E raw \in pending : ProcessResult(raw)
  <2>1. PICK raw \in pending : ProcessResult(raw)
    BY <1>4
  <2>2. /\ pc = "results" /\ pc' = pc /\ pending' = pending \ {raw}
        /\ missing' \subseteq missing /\ total' \in BOOLEAN
        /\ results' = results \cup {Processed(raw)} /\ UNCHANGED <<include, untrimmed>>
    BY <2>1 DEF ProcessResult
  <2>3. AllItems(include') = AllItems(include)
    BY <2>2
  <2>4. PICK ns : raw = Conftest(ns)
    BY <2>2 DEF EvalInv, Raws
  <2>5. Shaped(Processed(raw))
    BY <2>4, ShapeOfRaw
  <2> QED
    BY <2>2, <2>3, <2>5 DEF ShapeInv
<1>5. CASE ReportMissing
  <2>1. /\ pc' = "trim" /\ results' = results \cup {MissingInclude(n) : n \in missing}
        /\ UNCHANGED <<include, pending, missing, total, untrimmed>>
    BY <1>5 DEF ReportMissing
  <2>2. AllItems(include') = AllItems(include)
    BY <2>1
  <2>3. \A o \in {MissingInclude(n) : n \in missing} : Shaped(o)
    BY ShapeOfMissing
  <2> QED
    BY <2>1, <2>2, <2>3 DEF ShapeInv
<1>6. CASE Trim
  <2>1. /\ pc' \in {"done", "error"} /\ results' = trim(results) /\ untrimmed' = results
        /\ UNCHANGED <<include, pending, missing, total>>
    BY <1>6 DEF Trim
  <2>2. AllItems(include') = AllItems(include)
    BY <2>1
  <2>3. \A o \in results : Shaped(o)
    BY DEF ShapeInv
  <2>4. \A t \in trim(results) : Shaped(t)
    BY <2>3, ShapeOfTrimmed
  <2> QED
    BY <2>1, <2>2, <2>3, <2>4 DEF ShapeInv
<1>7. CASE UNCHANGED vars
  <2>1. AllItems(include') = AllItems(include)
    BY <1>7 DEF vars
  <2> QED
    BY <1>7, <2>1 DEF ShapeInv, vars
<1> QED
  BY <1>1, <1>2, <1>3, <1>4, <1>5, <1>6, <1>7 DEF Next

\* The evaluator's criteria, rules and outcomes have their types, and an item that is
\* missing is one of the include criteria (conftest_evaluator.go).
THEOREM EvaluatorTypes == Spec => []TypeOK
<1>1. Init => ShapeInv
  BY DEF Init, ShapeInv
<1>2. EvalInv /\ ShapeInv => TypeOK
  BY DEF EvalInv, ShapeInv, Shaped, TypeOK, CriteriaTyped, Criteria, RulesTyped
<1>3. EvalInv /\ ShapeInv /\ [Next]_vars => ShapeInv'
  BY ShapeStep
<1> QED
  BY <1>1, <1>2, <1>3, EvaluatorInvariance, PTL DEF Spec

===============================================================================
