---------------------------- MODULE TrackerProofs ----------------------------
(***************************************************************************)
(* Proofs about `ec track bundle` (module Tracker), for any number of      *)
(* overlapping runs of any command lines, crashes included.                *)
(***************************************************************************)
EXTENDS Tracker, FiniteSetTheorems, SequenceTheorems, TLAPS

-----------------------------------------------------------------------------
(* The inductive invariant *)

\* x expires no earlier than y.
NoEarlier(x, y) == x = Never \/ (y # Never /\ y <= x)

\* No date is later than what a run of the day d would give.
Given(exp, d) == exp # Never => \A c \in Commands : exp <= d + 2 * c.days

\* The newest record, and it alone, has no date.
Dated(rs) == \A i \in DOMAIN rs : rs[i].exp = Never <=> i = 1

\* From the newest record to the oldest the dates decrease, and neighbours differ.
Ordered(rs, d) ==
  /\ \A i, j \in DOMAIN rs : i < j => NoEarlier(rs[i].exp, rs[j].exp)
  /\ \A i \in DOMAIN rs : i > 1 => rs[i].ref # rs[i - 1].ref
  /\ \A i \in DOMAIN rs : Given(rs[i].exp, d)

\* What setExpiration leaves of a group.
Sound(rs, d) == Dated(rs) /\ (OneGrace => Ordered(rs, d))

\* The records of rs are those of ds with undated ones before them.
Extends(rs, ds) ==
  /\ Len(ds) <= Len(rs)
  /\ \A i \in 1..(Len(rs) - Len(ds)) : rs[i].exp = Never
  /\ \A i \in 1..Len(ds) : rs[Len(rs) - Len(ds) + i] = ds[i]

\* The record in effect is the one added last, or else the one that was.
InEffect(rs, ds, ref) ==
  IF ref # Latest THEN rs # << >> /\ rs[1].ref = ref
  ELSE ds # << >> => rs # << >> /\ rs[1].ref = ds[1].ref

\* Files, and what runs have read, are sound.
FilesInv ==
  /\ \A f \in DOMAIN files, g \in Groups : Sound(files[f][g], Today)
  /\ \A p \in Procs, g \in Groups : Sound(data[p][g], Today)

\* A run of command c at step k that has read ds, holds x and has added new, on day d.
RunOK(k, c, ds, x, new, d) ==
  /\ k = "idle" => new = NothingAdded
  /\ k = "images" => x = ds /\ new = NothingAdded
  /\ k = "gits" => \A g \in Groups :
       /\ Extends(x[g], ds[g])
       /\ IF new[g] # Latest THEN Len(x[g]) > Len(ds[g]) /\ x[g][1].ref = new[g] ELSE x[g] = ds[g]
  /\ k \in {"output", "outputting", "replace", "replacing"} => \A g \in Groups :
       Sound(x[g], d) /\ (OneGrace => InEffect(x[g], ds[g], new[g]))
  /\ k = "outputting" => c.output # "stdout"
  /\ k \in {"replace", "replacing"} => c.input # "none"

RunInv == \A p \in Procs : RunOK(pc[p], cmd[p], data[p], t[p], added[p], Today)

\* One run at a time.
Alone == \A p, q \in Procs : pc[p] # "idle" /\ pc[q] # "idle" => p = q

\* What was tracked last in "main" is what the run under way read from there as in effect.
ReadNewest ==
  \A p \in Procs : pc[p] # "idle" /\ cmd[p].input = "main" =>
    \A g \in Groups : newest[g] # Latest /\ added[p][g] = Latest =>
      data[p][g] # << >> /\ data[p][g][1].ref = newest[g]

\* Without overlaps and crashes one run reads what the one before it has written.
NewestInv == OneGrace /\ clean => Alone /\ NewestKept /\ ReadNewest

\* What GitResolve returned is what the clone of the repository has, and a clone was the
\* head of the repository when it was made.
CloneInv ==
  \A p \in Procs :
    /\ \A r \in DOMAIN clones[p] : clones[p][r] \in past
    /\ \A g \in DOMAIN resolved[p] :
         RepoOf[g] \in DOMAIN clones[p] /\ resolved[p][g] = clones[p][RepoOf[g]][g]

IInv == TypeOK /\ FilesInv /\ RunInv /\ NewestInv /\ CloneInv

-----------------------------------------------------------------------------
(* Positions *)

\* A set of numbers has a least element.
LEMMA LeastNumber ==
  ASSUME NEW T, T \subseteq Nat, T # {}
  PROVE  \E m \in T : \A n \in T : m <= n
<1> DEFINE Below == {1..m : m \in T}
<1>1. Below \subseteq FiniteSubsetsOf(Nat)
  <2>1. ASSUME NEW m \in T PROVE 1..m \in FiniteSubsetsOf(Nat)
    BY FS_Interval DEF FiniteSubsetsOf
  <2> QED
    BY <2>1
<1>2. Below # {}
  OBVIOUS
<1>3. PICK x \in Below : \A y \in Below : ~(<<y, x>> \in StrictSubsetOrdering(Nat))
  <2>1. IsWellFoundedOn(StrictSubsetOrdering(Nat), FiniteSubsetsOf(Nat))
    BY FS_StrictSubsetOrderingWellFounded
  <2> HIDE DEF Below
  <2> QED
    BY <1>1, <1>2, <2>1, WFMin
<1>4. PICK m \in T : x = 1..m
  BY <1>3
<1>5. ASSUME NEW n \in T, n < m PROVE FALSE
  <2>1. 1..n \subseteq 1..m /\ m \notin 1..n /\ m \in 1..m
    BY <1>5
  <2>2. <<1..n, 1..m>> \in StrictSubsetOrdering(Nat)
    BY <2>1 DEF StrictSubsetOrdering
  <2> QED
    BY <1>3, <1>4, <2>2
<1> QED
  BY <1>4, <1>5

LEMMA Intervals ==
  ASSUME NEW n \in Nat
  PROVE  IsFiniteSet(1..n) /\ Cardinality(1..n) = n
<1>1. 1 \in Int /\ n \in Int
  OBVIOUS
<1>2. IsFiniteSet(1..n) /\ Cardinality(1..n) = IF 1 > n THEN 0 ELSE n - 1 + 1
  BY <1>1, FS_Interval
<1>3. (IF 1 > n THEN 0 ELSE n - 1 + 1) = n
  OBVIOUS
<1> QED
  BY <1>2, <1>3

Rank(I, i) == Cardinality({j \in I : j <= i})

\* The rank of a position counts the positions up to it: ranks grow with the positions, and
\* each number up to the size of the set is the rank of one of them.
LEMMA Ranks ==
  ASSUME NEW n \in Nat, NEW I \in SUBSET (1..n)
  PROVE  /\ IsFiniteSet(I) /\ Cardinality(I) \in Nat
         /\ \A i \in I : Rank(I, i) \in 1..Cardinality(I)
         /\ \A i, j \in I : i < j => Rank(I, i) < Rank(I, j)
         /\ \A k \in 1..Cardinality(I) : \E i \in I : Rank(I, i) = k
<1>1. IsFiniteSet(I) /\ Cardinality(I) \in Nat
  BY Intervals, FS_Subset, FS_CardinalityType
<1>2. ASSUME NEW i \in I PROVE Rank(I, i) \in 1..Cardinality(I)
  <2> DEFINE J == {j \in I : j <= i}
  <2>1. IsFiniteSet(J) /\ Cardinality(J) <= Cardinality(I) /\ Cardinality(J) \in Nat
    BY <1>1, FS_Subset, FS_CardinalityType
  <2>2. i \in J
    OBVIOUS
  <2>3. Cardinality(J) # 0
    BY <2>1, <2>2, FS_EmptySet
  <2> QED
    BY <1>1, <2>1, <2>3 DEF Rank
<1>3. ASSUME NEW i \in I, NEW j \in I, i < j PROVE Rank(I, i) < Rank(I, j)
  <2> DEFINE A == {k \in I : k <= i}
             B == {k \in I : k <= j}
  <2>0. \A k \in I : k \in Int
    OBVIOUS
  <2>1. A \in SUBSET B /\ j \in B /\ j \notin A
    <3>1. \A k \in A : k \in B
      BY <1>3, <2>0
    <3>2. j \in B /\ j \notin A
      BY <1>3, <2>0
    <3> QED
      BY <3>1, <3>2
  <2>2. IsFiniteSet(B)
    BY <1>1, FS_Subset
  <2> HIDE DEF A, B
  <2>3. Cardinality(B) # Cardinality(A) /\ Cardinality(A) <= Cardinality(B)
    BY <2>1, <2>2, FS_Subset
  <2>4. Cardinality(A) \in Int /\ Cardinality(B) \in Int
    BY <1>2 DEF Rank, A, B
  <2>5. Cardinality(A) < Cardinality(B)
    BY <2>3, <2>4
  <2> QED
    BY <2>5 DEF Rank, A, B
<1>4. ASSUME NEW i \in I, NEW j \in I, Rank(I, i) = Rank(I, j) PROVE i = j
  <2>1. i \in Int /\ j \in Int
    OBVIOUS
  <2>2. Rank(I, i) \in Int
    BY <1>2
  <2> QED
    BY <1>3, <1>4, <2>1, <2>2
<1>5. ASSUME NEW k \in 1..Cardinality(I) PROVE \E i \in I : Rank(I, i) = k
  <2> DEFINE f == [i \in I |-> Rank(I, i)]
             T == 1..Cardinality(I)
  <2>1. f \in Injection(I, T)
    <3>1. f \in [I -> T]
      BY <1>2
    <3>2. \A i, j \in I : f[i] = f[j] => i = j
      BY <1>4
    <3> HIDE DEF f, T
    <3> QED
      BY <3>1, <3>2 DEF Injection, IsInjective
  <2>2. IsFiniteSet(T) /\ Cardinality(T) = Cardinality(I)
    BY <1>1, Intervals
  <2>3. f \in Surjection(I, T)
    <3> HIDE DEF f, T
    <3> QED
      BY <2>1, <2>2, FS_Injection
  <2>4. \E i \in I : f[i] = k
    BY <2>3 DEF Surjection
  <2> QED
    BY <2>4
<1> QED
  BY <1>1, <1>2, <1>3, <1>5

\* How the elements that Kept keeps are enumerated: in their order, and all of them.
LEMMA KeptFacts ==
  ASSUME NEW S, NEW s \in Seq(S), NEW I \in SUBSET (1..Len(s))
  PROVE  \E n \in Nat : \E pos \in [1..n -> I] :
           /\ \A j, k \in 1..n : j < k => pos[j] < pos[k]
           /\ \A i \in I : \E k \in 1..n : pos[k] = i
           /\ Kept(s, I) \in Seq(S) /\ Len(Kept(s, I)) = n
           /\ \A k \in 1..n : Kept(s, I)[k] = s[pos[k]]
<1> DEFINE c == Cardinality(I)
           At(k) == CHOOSE i \in I : Rank(I, i) = k
           f == [k \in 1..c |-> At(k)]
<1>1. /\ c \in Nat
      /\ \A i \in I : Rank(I, i) \in 1..c
      /\ \A i, j \in I : i < j => Rank(I, i) < Rank(I, j)
      /\ \A k \in 1..c : \E i \in I : Rank(I, i) = k
  BY Ranks, LenProperties
<1>2. Kept(s, I) = [k \in 1..c |-> s[At(k)]]
  BY DEF Kept, Rank
<1>3. ASSUME NEW k \in 1..c PROVE At(k) \in I /\ Rank(I, At(k)) = k
  BY <1>1
<1> HIDE DEF c, At
<1>4. f \in [1..c -> I]
  BY <1>3
<1>5. \A i \in I : i \in 1..Len(s) /\ i \in Int /\ s[i] \in S
  BY LenProperties, ElementOfSeq
<1>6. ASSUME NEW j \in 1..c, NEW k \in 1..c, j < k PROVE f[j] < f[k]
  <2>1. At(j) \in I /\ At(k) \in I /\ Rank(I, At(j)) = j /\ Rank(I, At(k)) = k
    BY <1>3
  <2>2. At(j) \in Int /\ At(k) \in Int /\ j \in Int /\ k \in Int
    <3>1. At(j) \in Int /\ At(k) \in Int
      BY <1>5, <2>1, Zenon
    <3>2. j \in Int /\ k \in Int
      BY <1>1
    <3> QED
      BY <3>1, <3>2
  <2>3. ~(At(k) < At(j)) /\ At(k) # At(j)
    BY <1>1, <1>6, <2>1, <2>2
  <2> QED
    BY <2>2, <2>3
<1>7. ASSUME NEW i \in I PROVE \E k \in 1..c : f[k] = i
  <2>1. Rank(I, i) \in 1..c
    BY <1>1
  <2>2. At(Rank(I, i)) \in I /\ Rank(I, At(Rank(I, i))) = Rank(I, i)
    BY <1>3, <2>1
  <2>3. At(Rank(I, i)) \in Int /\ i \in Int /\ Rank(I, i) \in Int
    <3>1. At(Rank(I, i)) \in Int /\ i \in Int
      BY <1>5, <2>2, Zenon
    <3>2. Rank(I, i) \in Int
      BY <1>1, <2>1
    <3> QED
      BY <3>1, <3>2
  <2>4. At(Rank(I, i)) = i
    BY <1>1, <2>2, <2>3
  <2> QED
    BY <2>1, <2>4
<1>8. Kept(s, I) \in Seq(S) /\ Len(Kept(s, I)) = c
  <2>1. Kept(s, I) \in [1..c -> S]
    BY <1>2, <1>3, <1>5
  <2> QED
    BY <1>1, <2>1, IsASeq, LenProperties
<1>9. \A k \in 1..c : Kept(s, I)[k] = s[f[k]]
  BY <1>2
<1> HIDE DEF f
<1> QED
  BY <1>1, <1>4, <1>6, <1>7, <1>8, <1>9

-----------------------------------------------------------------------------
(* What filterRecords and setExpiration make of a group *)

Result(rs, prune, days) == setExpiration(filterRecords(rs, prune), days)

\* filterRecords keeps the record at position i.
Stays(rs, prune, i) ==
  /\ i < Len(rs) => rs[i + 1].ref # rs[i].ref
  /\ prune => Current(rs[i])

\* The date of the record that was rs[i] and is now the k-th.
DateOf(rs, days, i, k) ==
  IF k = 1 THEN Never ELSE IF rs[i].exp = Never THEN Expiry(days) ELSE rs[i].exp

\* The n records of the result are those of rs at the positions pos.
Enumerates(rs, prune, days, n, pos) ==
  /\ \A j, k \in 1..n : j < k => pos[j] < pos[k]
  /\ \A k \in 1..n : Stays(rs, prune, pos[k])
  /\ \A i \in 1..Len(rs) : Stays(rs, prune, i) => \E k \in 1..n : pos[k] = i
  /\ Result(rs, prune, days) \in Seq(Records) /\ Len(Result(rs, prune, days)) = n
  /\ \A k \in 1..n : Result(rs, prune, days)[k] = Record(rs[pos[k]].ref, DateOf(rs, days, pos[k], k))

\* Dates are numbers, and the later day gives the later date.
LEMMA Days ==
  ASSUME now \in Nat
  PROVE  Today \in Nat /\ \A d \in Int : Expiry(d) \in Int /\ Expiry(d) = Today + 2 * d
<1>1. Today \in Nat
  BY DEF Today
<1> QED
  BY <1>1 DEF Expiry

LEMMA RecordFacts ==
  ASSUME NEW rs \in Seq(Records), NEW i \in 1..Len(rs)
  PROVE  /\ rs[i] \in Records /\ rs[i].ref \in Refs \cup Taskless /\ rs[i].exp \in Int \cup {Never}
         /\ rs[i] = Record(rs[i].ref, rs[i].exp)
<1>1. rs[i] \in Records
  BY ElementOfSeq
<1> QED
  BY <1>1 DEF Records, Record

LEMMA ResultFacts ==
  ASSUME now \in Nat, NEW rs \in Seq(Records), NEW prune \in BOOLEAN, NEW days \in Int
  PROVE  \E n \in Nat : \E pos \in [1..n -> 1..Len(rs)] : Enumerates(rs, prune, days, n, pos)
<1> DEFINE I == {i \in Unique(rs) : prune => Current(rs[i])}
           f == filterRecords(rs, prune)
           r == Result(rs, prune, days)
<1>1. Len(rs) \in Nat /\ DOMAIN rs = 1..Len(rs)
  BY LenProperties
<1>2. I \in SUBSET (1..Len(rs)) /\ \A i \in 1..Len(rs) : i \in I <=> Stays(rs, prune, i)
  BY <1>1 DEF Unique, Stays
<1>3. f = Kept(rs, I)
  BY DEF filterRecords
<1> HIDE DEF I, f
<1>0. PICK n \in Nat : \E pos \in [1..n -> I] :
           /\ \A j, k \in 1..n : j < k => pos[j] < pos[k]
           /\ \A i \in I : \E k \in 1..n : pos[k] = i
           /\ f \in Seq(Records) /\ Len(f) = n
           /\ \A k \in 1..n : f[k] = rs[pos[k]]
  BY <1>2, <1>3, KeptFacts
<1>4. PICK pos \in [1..n -> I] :
           /\ \A j, k \in 1..n : j < k => pos[j] < pos[k]
           /\ \A i \in I : \E k \in 1..n : pos[k] = i
           /\ f \in Seq(Records) /\ Len(f) = n
           /\ \A k \in 1..n : f[k] = rs[pos[k]]
  BY <1>0
<1>5. DOMAIN f = 1..n
  BY <1>4, LenProperties
<1>6. pos \in [1..n -> 1..Len(rs)]
  BY <1>2, <1>4
<1>7. r = [k \in 1..n |-> Record(rs[pos[k]].ref, DateOf(rs, days, pos[k], k))]
  BY <1>4, <1>5 DEF Result, setExpiration, DateOf, f
<1>8. ASSUME NEW k \in 1..n PROVE Record(rs[pos[k]].ref, DateOf(rs, days, pos[k], k)) \in Records
  <2>1. pos[k] \in 1..Len(rs)
    BY <1>6
  <2>2. rs[pos[k]].ref \in Refs \cup Taskless /\ rs[pos[k]].exp \in Int \cup {Never}
    BY <2>1, RecordFacts
  <2>3. DateOf(rs, days, pos[k], k) \in {Never} \cup Int
    BY <2>2, Days DEF DateOf
  <2> QED
    BY <2>2, <2>3 DEF Record, Records
<1> HIDE DEF r
<1>9. r \in [1..n -> Records]
  BY <1>7, <1>8
<1>10. r \in Seq(Records) /\ Len(r) = n
  BY <1>4, <1>9, IsASeq, LenProperties
<1>11. \A k \in 1..n : r[k] = Record(rs[pos[k]].ref, DateOf(rs, days, pos[k], k))
  BY <1>7
<1>12. \A k \in 1..n : Stays(rs, prune, pos[k])
  BY <1>2, <1>4, <1>6
<1>13. \A i \in 1..Len(rs) : Stays(rs, prune, i) => \E k \in 1..n : pos[k] = i
  BY <1>2, <1>4
<1>14. Enumerates(rs, prune, days, n, pos)
  BY <1>4, <1>10, <1>11, <1>12, <1>13 DEF Enumerates, r
<1> QED
  BY <1>4, <1>6, <1>14

\* The records of a group before they are filtered: up to position m, that of the newest
\* record read, none has a date; from there on dates decrease and neighbours differ.
Shape(rs, m) ==
  /\ m \in 1..(Len(rs) + 1)
  /\ \A i \in 1..Len(rs) : rs[i].exp = Never <=> i <= m
  /\ \A i, j \in 1..Len(rs) : i < j => NoEarlier(rs[i].exp, rs[j].exp)
  /\ \A i \in 1..Len(rs) : Given(rs[i].exp, Today)
  /\ \A i \in 1..Len(rs) : m <= i /\ i < Len(rs) => rs[i + 1].ref # rs[i].ref

LEMMA ShapeHolds ==
  ASSUME NEW rs \in Seq(Records), NEW ds \in Seq(Records), OneGrace, Extends(rs, ds), Sound(ds, Today)
  PROVE  Shape(rs, Len(rs) - Len(ds) + 1)
<1> DEFINE m == Len(rs) - Len(ds) + 1
<1>1. Len(rs) \in Nat /\ Len(ds) \in Nat /\ DOMAIN ds = 1..Len(ds) /\ Len(ds) <= Len(rs)
  BY LenProperties DEF Extends
<1>2. m \in 1..(Len(rs) + 1)
  BY <1>1
<1>3. ASSUME NEW i \in 1..Len(rs)
      PROVE  \/ i < m /\ rs[i].exp = Never
             \/ /\ i >= m /\ i - m + 1 \in 1..Len(ds) /\ rs[i] = ds[i - m + 1]
                /\ rs[i].exp = Never <=> i = m
                /\ Given(rs[i].exp, Today)
  <2>1. CASE i < m
    <3>1. i \in 1..(Len(rs) - Len(ds))
      BY <1>1, <2>1
    <3> QED
      BY <2>1, <3>1 DEF Extends
  <2>2. CASE i >= m
    <3>1. i - m + 1 \in 1..Len(ds) /\ Len(rs) - Len(ds) + (i - m + 1) = i
      BY <1>1, <2>2
    <3>2. rs[i] = ds[i - m + 1]
      BY <3>1 DEF Extends
    <3>3. ds[i - m + 1].exp = Never <=> i - m + 1 = 1
      BY <1>1, <3>1 DEF Sound, Dated
    <3>4. i - m + 1 = 1 <=> i = m
      BY <1>1
    <3>5. Given(ds[i - m + 1].exp, Today)
      BY <1>1, <3>1 DEF Sound, Ordered
    <3> QED
      BY <2>2, <3>1, <3>2, <3>3, <3>4, <3>5
  <2>3. i \in Int /\ m \in Int
    BY <1>1
  <2> QED
    BY <2>1, <2>2, <2>3
<1> HIDE DEF m
<1>4. m \in Int /\ \A i \in 1..Len(rs) : i \in Int
  BY <1>1, <1>2
<1>5. \A i \in 1..Len(rs) : rs[i].exp = Never <=> i <= m
  BY <1>3, <1>4
<1>6. ASSUME NEW i \in 1..Len(rs), NEW j \in 1..Len(rs), i < j PROVE NoEarlier(rs[i].exp, rs[j].exp)
  <2>1. CASE i < m
    BY <1>3, <1>4, <2>1 DEF NoEarlier
  <2>2. CASE i >= m
    <3>0. ~(i < m) /\ ~(j < m)
      BY <1>4, <1>6, <2>2
    <3>1. /\ i - m + 1 \in 1..Len(ds) /\ rs[i] = ds[i - m + 1]
          /\ j - m + 1 \in 1..Len(ds) /\ rs[j] = ds[j - m + 1]
      <4>1. i - m + 1 \in 1..Len(ds) /\ rs[i] = ds[i - m + 1]
        BY <1>3, <3>0
      <4>2. j - m + 1 \in 1..Len(ds) /\ rs[j] = ds[j - m + 1]
        BY <1>3, <3>0
      <4> QED
        BY <4>1, <4>2
    <3>2. i - m + 1 < j - m + 1
      BY <1>4, <1>6
    <3> QED
      BY <1>1, <3>1, <3>2 DEF Sound, Ordered
  <2> QED
    BY <1>4, <2>1, <2>2
<1>7. \A i \in 1..Len(rs) : Given(rs[i].exp, Today)
  BY <1>3 DEF Given
<1>8. ASSUME NEW i \in 1..Len(rs), m <= i, i < Len(rs) PROVE rs[i + 1].ref # rs[i].ref
  <2>1. i + 1 \in 1..Len(rs)
    BY <1>1, <1>8
  <2>2. /\ i - m + 1 \in 1..Len(ds) /\ rs[i] = ds[i - m + 1]
        /\ (i + 1) - m + 1 \in 1..Len(ds) /\ rs[i + 1] = ds[(i + 1) - m + 1]
    <3>1. i \in Int /\ i + 1 \in Int /\ i >= m /\ i + 1 >= m
      BY <1>4, <1>8
    <3>2. ~(i < m) /\ ~(i + 1 < m)
      BY <1>4, <3>1
    <3>3. i - m + 1 \in 1..Len(ds) /\ rs[i] = ds[i - m + 1]
      BY <1>3, <3>2
    <3>4. (i + 1) - m + 1 \in 1..Len(ds) /\ rs[i + 1] = ds[(i + 1) - m + 1]
      BY <1>3, <2>1, <3>2
    <3> QED
      BY <3>3, <3>4
  <2>3. /\ (i + 1) - m + 1 > 1 /\ ((i + 1) - m + 1) - 1 = i - m + 1
    BY <1>4, <1>8
  <2> QED
    BY <1>1, <2>2, <2>3 DEF Sound, Ordered
<1>9. Shape(rs, m)
  BY <1>2, <1>5, <1>6, <1>7, <1>8 DEF Shape
<1> QED
  BY <1>9 DEF m

\* What expires no earlier than a current record is current.
LEMMA CurrentFirst ==
  ASSUME NEW rs \in Seq(Records), NEW m, Shape(rs, m), now \in Nat,
         NEW i \in 1..Len(rs), NEW j \in 1..Len(rs), i <= j, Current(rs[j])
  PROVE  Current(rs[i])
<1>1. rs[i].exp \in Int \cup {Never} /\ rs[j].exp \in Int \cup {Never}
  BY RecordFacts
<1>2. Len(rs) \in Nat
  BY LenProperties
<1>3. i = j \/ NoEarlier(rs[i].exp, rs[j].exp)
  BY <1>2 DEF Shape
<1> QED
  BY <1>1, <1>3 DEF NoEarlier, Current

\* Between two positions of different references is one where the reference changes.
LEMMA ChangeBetween ==
  ASSUME NEW rs \in Seq(Records), NEW a \in 1..Len(rs), NEW b \in 1..Len(rs), a < b,
         rs[a].ref # rs[b].ref
  PROVE  \E i \in 1..Len(rs) : a <= i /\ i < b /\ rs[i + 1].ref # rs[i].ref /\ rs[i].ref = rs[a].ref
<1> DEFINE T == {i \in 1..Len(rs) : a < i /\ rs[i].ref # rs[a].ref}
<1>1. Len(rs) \in Nat
  BY LenProperties
<1>2. b \in T /\ T \subseteq Nat
  BY <1>1
<1> HIDE DEF T
<1>3. PICK l \in T : \A k \in T : l <= k
  BY <1>2, LeastNumber
<1>4. l \in 1..Len(rs) /\ a < l /\ rs[l].ref # rs[a].ref
  BY <1>3 DEF T
<1>5. l <= b
  BY <1>2, <1>3
<1>6. l - 1 \in 1..Len(rs) /\ a <= l - 1 /\ l - 1 < b /\ (l - 1) + 1 = l /\ ~(l <= l - 1)
  BY <1>1, <1>4, <1>5
<1>7. rs[l - 1].ref = rs[a].ref
  <2>1. CASE l - 1 = a
    BY <2>1
  <2>2. CASE l - 1 # a
    <3>1. a < l - 1
      BY <1>1, <1>4, <1>6, <2>2
    <3>2. l - 1 \notin T
      BY <1>3, <1>6
    <3> QED
      BY <1>6, <3>1, <3>2 DEF T
  <2> QED
    BY <2>1, <2>2
<1> QED
  BY <1>4, <1>6, <1>7

\* The record that is newest before the filter is the newest after it.
LEMMA FirstStays ==
  ASSUME now \in Nat, NEW rs \in Seq(Records), rs # << >>, NEW m, Shape(rs, m),
         NEW prune, NEW days, NEW n \in Nat, NEW pos \in [1..n -> 1..Len(rs)],
         Enumerates(rs, prune, days, n, pos)
  PROVE  1 \in 1..n /\ rs[pos[1]].ref = rs[1].ref
<1> DEFINE T == {i \in 1..Len(rs) : i < Len(rs) => rs[i + 1].ref # rs[i].ref}
<1>1. Len(rs) \in Nat /\ Len(rs) # 0 /\ 1 \in 1..Len(rs)
  BY LenProperties, EmptySeq
<1>2. Len(rs) \in T /\ T \subseteq Nat
  BY <1>1
<1>3. \A i \in 1..Len(rs) : i \in T <=> (i < Len(rs) => rs[i + 1].ref # rs[i].ref)
  OBVIOUS
<1> HIDE DEF T
<1>4. PICK l \in T : \A k \in T : l <= k
  BY <1>2, LeastNumber
<1>5. l \in 1..Len(rs) /\ (l < Len(rs) => rs[l + 1].ref # rs[l].ref)
  BY <1>4 DEF T
<1>6. rs[l].ref = rs[1].ref
  <2> SUFFICES ASSUME rs[l].ref # rs[1].ref PROVE FALSE
    OBVIOUS
  <2>1. 1 < l
    BY <1>1, <1>5
  <2>2. PICK i \in 1..Len(rs) : 1 <= i /\ i < l /\ rs[i + 1].ref # rs[i].ref
    BY <1>1, <1>5, <2>1, ChangeBetween
  <2>3. i \in T
    BY <1>3, <2>2
  <2> QED
    BY <1>1, <1>4, <1>5, <2>2, <2>3
<1>7. l <= m
  <2> SUFFICES ASSUME m < l PROVE FALSE
    BY <1>1, <1>5 DEF Shape
  <2>1. m \in 1..Len(rs)
    BY <1>1, <1>5 DEF Shape
  <2>2. m \in T
    BY <1>1, <1>3, <2>1 DEF Shape
  <2> QED
    BY <1>1, <1>4, <1>5, <2>1, <2>2
<1>8. Stays(rs, prune, l)
  <2>1. rs[l].exp = Never
    BY <1>5, <1>7 DEF Shape
  <2> QED
    BY <1>5, <2>1 DEF Stays, Current
<1>9. PICK k \in 1..n : pos[k] = l
  BY <1>5, <1>8 DEF Enumerates
<1>10. 1 \in 1..n /\ k \in Nat
  BY <1>9
<1>11. pos[1] \in T
  <2>1. pos[1] \in 1..Len(rs)
    BY <1>10
  <2> QED
    BY <1>3, <1>10, <2>1 DEF Enumerates, Stays
<1>12. pos[1] = l
  <2>1. l <= pos[1] /\ pos[1] \in Int /\ l \in Int
    BY <1>1, <1>4, <1>5, <1>10, <1>11
  <2>2. k = 1 \/ pos[1] < pos[k]
    BY <1>9, <1>10 DEF Enumerates
  <2> QED
    BY <1>9, <2>1, <2>2
<1> QED
  BY <1>6, <1>10, <1>12

\* What is left of a group is dated as it should be.
LEMMA ResultDated ==
  ASSUME now \in Nat, NEW rs \in Seq(Records), NEW prune, NEW days \in Int,
         NEW n \in Nat, NEW pos \in [1..n -> 1..Len(rs)], Enumerates(rs, prune, days, n, pos)
  PROVE  Dated(Result(rs, prune, days))
<1> DEFINE r == Result(rs, prune, days)
<1>1. r \in Seq(Records) /\ Len(r) = n
  BY DEF Enumerates
<1> HIDE DEF r
<1>2. DOMAIN r = 1..n
  BY <1>1, LenProperties
<1>3. ASSUME NEW k \in 1..n PROVE r[k].exp = Never <=> k = 1
  <2>1. r[k].exp = DateOf(rs, days, pos[k], k)
    BY DEF Enumerates, Record, r
  <2>2. Expiry(days) # Never
    BY Days, TrackerAssumption
  <2> QED
    BY <2>1, <2>2 DEF DateOf
<1> QED
  BY <1>2, <1>3 DEF Dated, r

\* With one --in-effect-days the order is kept, too.
LEMMA ResultOrdered ==
  ASSUME now \in Nat, OneGrace, NEW c \in Commands, NEW rs \in Seq(Records), NEW m, Shape(rs, m),
         NEW prune \in BOOLEAN, NEW n \in Nat, NEW pos \in [1..n -> 1..Len(rs)],
         Enumerates(rs, prune, c.days, n, pos)
  PROVE  Ordered(Result(rs, prune, c.days), Today)
<1> DEFINE r == Result(rs, prune, c.days)
           e == Expiry(c.days)
<1>1. r \in Seq(Records) /\ Len(r) = n
  BY DEF Enumerates
<1>2. \A k \in 1..n : /\ pos[k] \in 1..Len(rs) /\ Stays(rs, prune, pos[k])
                      /\ r[k].ref = rs[pos[k]].ref
                      /\ r[k].exp = IF k = 1 THEN Never
                                    ELSE IF rs[pos[k]].exp = Never THEN e ELSE rs[pos[k]].exp
  <2>1. \A k \in 1..n : pos[k] \in 1..Len(rs)
    OBVIOUS
  <2>2. \A k \in 1..n : r[k] = [ref |-> rs[pos[k]].ref, exp |-> DateOf(rs, c.days, pos[k], k)]
    BY DEF Enumerates, Record
  <2>3. \A k \in 1..n : Stays(rs, prune, pos[k])
    BY DEF Enumerates
  <2> HIDE DEF r, e
  <2>4. ASSUME NEW k \in 1..n
        PROVE  r[k].ref = rs[pos[k]].ref /\ r[k].exp = DateOf(rs, c.days, pos[k], k)
    <3>1. r[k] = [ref |-> rs[pos[k]].ref, exp |-> DateOf(rs, c.days, pos[k], k)]
      BY <2>2
    <3> QED
      BY <3>1
  <2>5. \A k \in 1..n : DateOf(rs, c.days, pos[k], k) =
           IF k = 1 THEN Never ELSE IF rs[pos[k]].exp = Never THEN e ELSE rs[pos[k]].exp
    BY DEF DateOf, e
  <2> QED
    BY <2>1, <2>3, <2>4, <2>5
<1>3. e \in Int /\ e # Never /\ \A d \in Commands : Today + 2 * d.days = e
  <2>1. \A d \in Commands : d.days = c.days /\ d.days \in Int
    BY CommandAssumption DEF OneGrace
  <2>2. e \in Int /\ e = Today + 2 * c.days
    BY <2>1, Days
  <2> QED
    BY <2>1, <2>2, TrackerAssumption
<1> HIDE DEF r, e
<1>4. DOMAIN r = 1..n
  BY <1>1, LenProperties
<1>5. \A i \in 1..Len(rs) : /\ rs[i].exp \in Int \cup {Never}
                            /\ rs[i].exp # Never => rs[i].exp <= e
  <2>1. \A i \in 1..Len(rs) : rs[i].exp # Never => rs[i].exp <= e
    BY <1>3 DEF Shape, Given
  <2> QED
    BY <2>1, RecordFacts
<1>6. \A j, k \in 1..n : j < k => pos[j] < pos[k]
  BY DEF Enumerates
<1>7. ASSUME NEW j \in 1..n, NEW k \in 1..n, j < k PROVE NoEarlier(r[j].exp, r[k].exp)
  <2>1. CASE j = 1
    BY <1>2, <2>1 DEF NoEarlier
  <2>2. CASE j # 1
    <3>1. k # 1 /\ pos[j] < pos[k] /\ pos[j] \in 1..Len(rs) /\ pos[k] \in 1..Len(rs)
      BY <1>2, <1>6, <1>7
    <3>2. NoEarlier(rs[pos[j]].exp, rs[pos[k]].exp)
      BY <3>1 DEF Shape
    <3>3. /\ rs[pos[k]].exp \in Int \cup {Never}
          /\ rs[pos[k]].exp # Never => rs[pos[k]].exp <= e
      BY <1>5, <3>1
    <3>4. r[j].exp = IF rs[pos[j]].exp = Never THEN e ELSE rs[pos[j]].exp
      BY <1>2, <2>2
    <3>5. r[k].exp = IF rs[pos[k]].exp = Never THEN e ELSE rs[pos[k]].exp
      BY <1>2, <3>1
    <3> QED
      BY <1>3, <3>2, <3>3, <3>4, <3>5 DEF NoEarlier
  <2> QED
    BY <2>1, <2>2
<1>8. ASSUME NEW k \in 1..n, k > 1 PROVE r[k].ref # r[k - 1].ref
  <2> DEFINE a == pos[k - 1]
             b == pos[k]
  <2>1. k - 1 \in 1..n /\ k - 1 < k
    BY <1>8
  <2>2. /\ a \in 1..Len(rs) /\ b \in 1..Len(rs) /\ a < b
        /\ Stays(rs, prune, a) /\ Stays(rs, prune, b)
        /\ r[k].ref = rs[b].ref /\ r[k - 1].ref = rs[a].ref
    BY <1>2, <1>6, <2>1
  <2> HIDE DEF a, b
  <2>3. Len(rs) \in Nat
    BY LenProperties
  <2>4. a + 1 \in 1..Len(rs) /\ rs[a + 1].ref # rs[a].ref
    BY <2>2, <2>3 DEF Stays
  <2> SUFFICES ASSUME rs[b].ref = rs[a].ref PROVE FALSE
    BY <2>2
  <2>5. a + 1 < b
    BY <2>2, <2>3, <2>4
  <2>6. PICK i \in 1..Len(rs) : a + 1 <= i /\ i < b /\ rs[i + 1].ref # rs[i].ref
    BY <2>2, <2>4, <2>5, ChangeBetween
  <2>7. prune => Current(rs[i])
    <3>1. i <= b
      BY <2>2, <2>3, <2>6
    <3>2. prune => Current(rs[b])
      BY <2>2 DEF Stays
    <3> QED
      BY <2>2, <2>6, <3>1, <3>2, CurrentFirst
  <2>8. PICK q \in 1..n : pos[q] = i
    BY <2>6, <2>7 DEF Stays, Enumerates
  <2>9. a < pos[q] /\ pos[q] < b
    BY <2>2, <2>3, <2>6, <2>8
  <2>10. /\ q = k - 1 \/ q = k \/ q < k - 1 \/ k < q
    BY <2>8
  <2>11. /\ q < k - 1 => pos[q] < a
         /\ k < q => b < pos[q]
    BY <1>6, <2>1, <2>8 DEF a, b
  <2>12. a \in Int /\ b \in Int /\ pos[q] \in Int
    BY <2>2, <2>3, <2>6, <2>8
  <2> QED
    BY <2>9, <2>10, <2>11, <2>12 DEF a, b
<1>9. ASSUME NEW k \in 1..n PROVE Given(r[k].exp, Today)
  <2>1. /\ pos[k] \in 1..Len(rs)
        /\ r[k].exp = IF k = 1 THEN Never ELSE IF rs[pos[k]].exp = Never THEN e ELSE rs[pos[k]].exp
    BY <1>2
  <2>2. rs[pos[k]].exp \in Int \cup {Never} /\ (rs[pos[k]].exp # Never => rs[pos[k]].exp <= e)
    BY <1>5, <2>1
  <2>3. r[k].exp # Never => r[k].exp <= e
    BY <1>3, <2>1, <2>2
  <2> QED
    BY <1>3, <2>3 DEF Given
<1> QED
  BY <1>4, <1>7, <1>8, <1>9 DEF Ordered, r

\* What a run makes of the records rs of a group that it has read as ds.
LEMMA ResultSound ==
  ASSUME now \in Nat, NEW c \in Commands, NEW rs \in Seq(Records), NEW ds \in Seq(Records),
         Extends(rs, ds), Sound(ds, Today)
  PROVE  /\ Result(rs, c.prune, c.days) \in Seq(Records) /\ Sound(Result(rs, c.prune, c.days), Today)
         /\ OneGrace /\ rs # << >> =>
              /\ Result(rs, c.prune, c.days) # << >>
              /\ Result(rs, c.prune, c.days)[1].ref = rs[1].ref
<1> DEFINE r == Result(rs, c.prune, c.days)
<1>1. c.prune \in BOOLEAN /\ c.days \in Int
  BY CommandAssumption
<1>2. PICK n \in Nat : \E pos \in [1..n -> 1..Len(rs)] : Enumerates(rs, c.prune, c.days, n, pos)
  BY <1>1, ResultFacts
<1>3. PICK pos \in [1..n -> 1..Len(rs)] : Enumerates(rs, c.prune, c.days, n, pos)
  BY <1>2
<1>4. r \in Seq(Records) /\ Len(r) = n
  BY <1>3 DEF Enumerates
<1>5. Dated(r)
  BY <1>1, <1>3, ResultDated
<1>6. ASSUME OneGrace PROVE Ordered(r, Today)
  BY <1>1, <1>3, <1>6, ShapeHolds, ResultOrdered
<1>7. ASSUME OneGrace, rs # << >> PROVE r # << >> /\ r[1].ref = rs[1].ref
  <2>1. Shape(rs, Len(rs) - Len(ds) + 1)
    BY <1>7, ShapeHolds
  <2>2. 1 \in 1..n /\ rs[pos[1]].ref = rs[1].ref
    BY <1>3, <1>7, <2>1, FirstStays
  <2>3. r[1] = Record(rs[pos[1]].ref, DateOf(rs, c.days, pos[1], 1))
    BY <1>3, <2>2 DEF Enumerates
  <2>4. r # << >>
    <3> HIDE DEF r
    <3> QED
      BY <1>4, <2>2, EmptySeq
  <2> QED
    BY <2>2, <2>3, <2>4 DEF Record
<1> HIDE DEF r
<1>8. Sound(r, Today)
  BY <1>5, <1>6 DEF Sound
<1> QED
  BY <1>4, <1>7, <1>8 DEF r

LEMMA ResultKeeps ==
  ASSUME now \in Nat, OneGrace, NEW c \in Commands, NEW rs \in Seq(Records), NEW ds \in Seq(Records),
         Extends(rs, ds), Sound(ds, Today), NEW r, r = Result(rs, c.prune, c.days)
  PROVE  /\ \A i \in DOMAIN ds : Current(ds[i]) => ds[i].ref \in RefsOf(r)
         /\ ds # << >> /\ r # << >> /\ r[1].ref # ds[1].ref =>
              \E i \in DOMAIN r : r[i].ref = ds[1].ref /\ r[i].exp >= Expiry(c.days)
         /\ \A i \in DOMAIN r : i > 1 =>
              \/ r[i] \in Range(ds)
              \/ /\ r[i].exp = Expiry(c.days)
                 /\ \E j \in DOMAIN rs : j <= Len(rs) - Len(ds) + 1 /\ r[i].ref = rs[j].ref
<1> DEFINE m == Len(rs) - Len(ds) + 1
<1>1. c.prune \in BOOLEAN /\ c.days \in Int
  BY CommandAssumption
<1>2. PICK n \in Nat : \E pos \in [1..n -> 1..Len(rs)] : Enumerates(rs, c.prune, c.days, n, pos)
  BY <1>1, ResultFacts
<1>3. PICK pos \in [1..n -> 1..Len(rs)] : Enumerates(rs, c.prune, c.days, n, pos)
  BY <1>2
<1>4. r \in Seq(Records) /\ Len(r) = n /\ DOMAIN r = 1..n
  <2>1. r \in Seq(Records) /\ Len(r) = n
    BY <1>3 DEF Enumerates
  <2> QED
    BY <2>1, LenProperties
<1>5. Len(rs) \in Nat /\ Len(ds) \in Nat /\ DOMAIN ds = 1..Len(ds) /\ DOMAIN rs = 1..Len(rs)
  BY LenProperties
<1>6. Shape(rs, m)
  BY ShapeHolds
<1>7. ASSUME NEW k \in 1..n
      PROVE  r[k].ref = rs[pos[k]].ref /\ r[k].exp = DateOf(rs, c.days, pos[k], k)
  <2>1. r[k] = Record(rs[pos[k]].ref, DateOf(rs, c.days, pos[k], k))
    BY <1>3 DEF Enumerates
  <2> QED
    BY <2>1 DEF Record
<1>8. ASSUME NEW i \in 1..Len(ds)
      PROVE  i + m - 1 \in 1..Len(rs) /\ rs[i + m - 1] = ds[i] /\ m <= i + m - 1
  <2>1. i + m - 1 \in 1..Len(rs) /\ m <= i + m - 1 /\ Len(rs) - Len(ds) + i = i + m - 1
    BY <1>5 DEF Extends
  <2> QED
    BY <2>1 DEF Extends
<1>9. ASSUME NEW i \in 1..Len(ds), Current(ds[i]) PROVE \E k \in 1..n : pos[k] = i + m - 1
  <2>1. i + m - 1 \in 1..Len(rs) /\ rs[i + m - 1] = ds[i] /\ m <= i + m - 1
    BY <1>8
  <2>2. Stays(rs, c.prune, i + m - 1)
    BY <1>6, <1>9, <2>1 DEF Shape, Stays
  <2> QED
    BY <1>3, <2>1, <2>2 DEF Enumerates
<1>10. ASSUME NEW i \in DOMAIN ds, Current(ds[i]) PROVE ds[i].ref \in RefsOf(r)
  <2>1. i \in 1..Len(ds)
    BY <1>5
  <2>2. PICK k \in 1..n : pos[k] = i + m - 1
    BY <1>9, <1>10, <2>1
  <2>3. r[k].ref = ds[i].ref
    BY <1>7, <1>8, <2>1, <2>2
  <2> QED
    BY <1>4, <2>3 DEF RefsOf
<1>11. ASSUME ds # << >>, r # << >>, r[1].ref # ds[1].ref
       PROVE  \E i \in DOMAIN r : r[i].ref = ds[1].ref /\ r[i].exp >= Expiry(c.days)
  <2>1. 1 \in 1..Len(ds)
    BY <1>5, <1>11, EmptySeq
  <2>2. ds[1].exp = Never
    BY <1>5, <2>1 DEF Sound, Dated
  <2>3. PICK k \in 1..n : pos[k] = 1 + m - 1
    BY <1>9, <2>1, <2>2 DEF Current
  <2>4. rs[pos[k]] = ds[1]
    BY <1>8, <2>1, <2>3
  <2>5. r[k].ref = ds[1].ref /\ r[k].exp = DateOf(rs, c.days, pos[k], k)
    BY <1>7, <2>4
  <2>6. k # 1
    BY <1>11, <2>5
  <2>7. r[k].exp = Expiry(c.days)
    BY <2>2, <2>4, <2>5, <2>6 DEF DateOf
  <2>8. Expiry(c.days) \in Int
    BY <1>1, Days
  <2> QED
    BY <1>4, <2>5, <2>7, <2>8
<1>12. ASSUME NEW k \in DOMAIN r, k > 1
       PROVE  \/ r[k] \in Range(ds)
              \/ /\ r[k].exp = Expiry(c.days)
                 /\ \E j \in DOMAIN rs : j <= m /\ r[k].ref = rs[j].ref
  <2>1. k \in 1..n /\ pos[k] \in 1..Len(rs) /\ k # 1
    BY <1>4, <1>12
  <2>2. r[k].ref = rs[pos[k]].ref /\ r[k].exp = DateOf(rs, c.days, pos[k], k)
    BY <1>7, <2>1
  <2>3. CASE pos[k] <= m
    <3>1. rs[pos[k]].exp = Never
      BY <1>6, <2>1, <2>3 DEF Shape
    <3> QED
      BY <1>5, <2>1, <2>2, <2>3, <3>1 DEF DateOf
  <2>4. CASE ~(pos[k] <= m)
    <3>1. rs[pos[k]].exp # Never
      BY <1>6, <2>1, <2>4 DEF Shape
    <3>2. r[k] = rs[pos[k]]
      <4>1. r[k] = Record(rs[pos[k]].ref, DateOf(rs, c.days, pos[k], k))
        BY <1>3, <2>1 DEF Enumerates
      <4>2. DateOf(rs, c.days, pos[k], k) = rs[pos[k]].exp
        BY <2>1, <3>1 DEF DateOf
      <4>3. rs[pos[k]] = Record(rs[pos[k]].ref, rs[pos[k]].exp)
        BY <2>1, RecordFacts
      <4> QED
        BY <4>1, <4>2, <4>3
    <3>3. pos[k] - m + 1 \in 1..Len(ds) /\ Len(rs) - Len(ds) + (pos[k] - m + 1) = pos[k]
      BY <1>5, <2>1, <2>4
    <3>4. rs[pos[k]] = ds[pos[k] - m + 1]
      BY <3>3 DEF Extends
    <3> QED
      BY <1>5, <3>2, <3>3, <3>4 DEF Range
  <2> QED
    BY <2>3, <2>4
<1> QED
  BY <1>10, <1>11, <1>12

-----------------------------------------------------------------------------
(* What a run adds, and the passing of time *)

LEMMA EmptyFacts ==
  /\ Empty \in Trackers /\ NothingAdded \in [Groups -> Refs \cup Taskless \cup {Latest}]
  /\ \A g \in Groups : Empty[g] = << >> /\ NothingAdded[g] = Latest
  /\ NoCommand \in Commands
  /\ \A d : Sound(<< >>, d)
<1>1. << >> \in Seq(Records)
  BY EmptySeq
<1>2. NoCommand \in Commands
  BY CommandAssumption DEF NoCommand
<1>3. \A d : Sound(<< >>, d)
  BY DEF Sound, Dated, Ordered
<1> QED
  BY <1>1, <1>2, <1>3 DEF Empty, Trackers, NothingAdded

\* What is sound on a day is sound later.
LEMMA SoundLater ==
  ASSUME NEW rs \in Seq(Records), NEW a \in Int, NEW b \in Int, a <= b, Sound(rs, a)
  PROVE  Sound(rs, b)
<1>1. DOMAIN rs = 1..Len(rs)
  BY LenProperties
<1>2. ASSUME NEW i \in DOMAIN rs, Given(rs[i].exp, a) PROVE Given(rs[i].exp, b)
  <2>1. rs[i].exp \in Int \cup {Never}
    BY <1>1, RecordFacts
  <2>2. \A c \in Commands : c.days \in Int
    BY CommandAssumption
  <2>3. ASSUME rs[i].exp # Never, NEW c \in Commands PROVE rs[i].exp <= b + 2 * c.days
    <3>1. rs[i].exp \in Int /\ c.days \in Int /\ rs[i].exp <= a + 2 * c.days
      BY <1>2, <2>1, <2>2, <2>3 DEF Given
    <3> QED
      BY <3>1
  <2> QED
    BY <2>3 DEF Given
<1> QED
  BY <1>2 DEF Sound, Ordered

LEMMA TodayLater ==
  ASSUME TypeOK, [Next]_vars
  PROVE  now \in Nat /\ now' \in Nat /\ Today \in Int /\ Today' \in Int /\ Today <= Today'
<1>1. now \in Nat
  BY DEF TypeOK
<1>2. now' = now \/ now' = now + 1
  <2>1. ASSUME NEW p \in Procs, Step(p) PROVE now' = now
    <3>1. CASE \E c \in Commands : Start(p, c)
      BY <3>1 DEF Start, frame
    <3>2. CASE TrackImages(p) \/ TrackGit(p) \/ Filter(p)
      BY <3>2 DEF TrackImages, TrackGit, Filter, frame
    <3>3. CASE Output(p) \/ FinishOutput(p) \/ Stdout(p)
      BY <3>3 DEF Output, FinishOutput, Stdout, Truncate, Write, frame
    <3>4. CASE Replace(p) \/ FinishReplace(p) \/ Fail(p) \/ Crash(p)
      BY <3>4 DEF Replace, FinishReplace, Fail, Crash, Truncate, Write, frame
    <3>5. QED
      BY <2>1, <3>1, <3>2, <3>3, <3>4 DEF Step
  <2>2. ASSUME NEW g \in Groups, NEW r \in Refs, Push(g, r) PROVE now' = now
    BY <2>2 DEF Push, frame
  <2>3. QED
    BY <2>1, <2>2 DEF Next, Tick, vars
<1>3. now' \in Nat
  BY <1>1, <1>2
<1>4. Today \in Int /\ Today' \in Int
  <2>1. Today \in Int
    BY <1>1 DEF Today
  <2>2. \A n \in Nat : (IF n % 2 = 0 THEN n ELSE n + 1) \in Int
    OBVIOUS
  <2>3. Today' = IF now' % 2 = 0 THEN now' ELSE now' + 1
    BY DEF Today
  <2> QED
    BY <1>3, <2>1, <2>2, <2>3, Zenon
<1>5. CASE now' = now
  <2>1. Today' = Today
    BY <1>5 DEF Today
  <2> QED
    BY <1>1, <1>3, <1>4, <2>1
<1>6. CASE now' = now + 1
  BY <1>1, <1>3, <1>4, <1>6 DEF Today
<1> QED
  BY <1>1, <1>2, <1>3, <1>4, <1>5, <1>6

LEMMA UrlFacts ==
  ASSUME NEW c \in Commands
  PROVE  c.urls \in Seq(Urls) /\ GitUrls(c) \in Seq(Urls) /\ ImageUrls(c) \in Seq(Urls)
<1>1. c.urls \in Seq(Urls)
  BY CommandAssumption
<1>2. DOMAIN c.urls = 1..Len(c.urls)
  BY <1>1, LenProperties
<1>3. ASSUME NEW I \in SUBSET (1..Len(c.urls)) PROVE Kept(c.urls, I) \in Seq(Urls)
  BY <1>1, KeptFacts
<1>4. GitUrls(c) \in Seq(Urls)
  BY <1>2, <1>3 DEF GitUrls
<1>5. ImageUrls(c) \in Seq(Urls)
  BY <1>2, <1>3 DEF ImageUrls
<1> QED
  BY <1>1, <1>4, <1>5

\* What trackImageReferences adds to a group are undated records of digests.
LEMMA NewRecordsFacts ==
  ASSUME TypeOK, NEW p \in Procs, NEW g \in Groups
  PROVE  /\ NewRecords(p, g) \in Seq(Records)
         /\ \A i \in 1..Len(NewRecords(p, g)) : NewRecords(p, g)[i].exp = Never
<1> DEFINE list == ImageUrls(cmd[p])
           given == WithTask(list, g)
           fresh == IF g \in FreshenTags(p) /\ head[g] \notin Taskless
                    THEN <<Record(head[g], Never)>> ELSE << >>
           rest == [k \in DOMAIN given |-> Record(Resolve(given[Len(given) + 1 - k]), Never)]
           New == {r \in Records : r.exp = Never}
<1>0. \A ref \in Refs \cup Taskless : Record(ref, Never) \in New
  BY DEF Record, Records
<1>1. list \in Seq(Urls)
  BY UrlFacts DEF TypeOK
<1> HIDE DEF list
<1>2. given \in Seq(Urls)
  <2>1. DOMAIN list = 1..Len(list)
    BY <1>1, LenProperties
  <2> DEFINE I == {i \in DOMAIN list : list[i].group = g /\ Resolve(list[i]) \notin Taskless}
  <2>2. I \in SUBSET (1..Len(list))
    BY <2>1
  <2>3. given = Kept(list, I)
    BY DEF WithTask
  <2> HIDE DEF I, given
  <2> QED
    BY <1>1, <2>2, <2>3, KeptFacts
<1> HIDE DEF given
<1>3. Len(given) \in Nat /\ DOMAIN given = 1..Len(given)
  BY <1>2, LenProperties
<1>4. ASSUME NEW u \in Urls PROVE Resolve(u) \in Refs \cup Taskless
  BY DEF Resolve, Urls, TypeOK
<1>5. rest \in [1..Len(given) -> New]
  <2>1. ASSUME NEW k \in 1..Len(given)
        PROVE  Record(Resolve(given[Len(given) + 1 - k]), Never) \in New
    <3>1. Len(given) + 1 - k \in 1..Len(given)
      BY <1>3
    <3>2. given[Len(given) + 1 - k] \in Urls
      BY <1>2, <3>1, ElementOfSeq
    <3> QED
      BY <1>0, <1>4, <3>2
  <2> HIDE DEF New
  <2> QED
    BY <1>3, <2>1
<1>6. fresh \in Seq(New)
  <2>1. Record(head[g], Never) \in New
    BY <1>0 DEF TypeOK
  <2> HIDE DEF New
  <2> QED
    BY <2>1, EmptySeq
<1> HIDE DEF fresh, rest, New
<1>7. rest \in Seq(New)
  BY <1>3, <1>5, IsASeq
<1>8. NewRecords(p, g) = fresh \o rest
  BY DEF NewRecords, fresh, rest, given, list
<1>9. NewRecords(p, g) \in Seq(New)
  BY <1>6, <1>7, <1>8, ConcatProperties
<1>10. \A i \in 1..Len(NewRecords(p, g)) : NewRecords(p, g)[i] \in New
  BY <1>9, ElementOfSeq
<1>11. New \subseteq Records /\ \A r \in New : r.exp = Never
  BY DEF New
<1>12. NewRecords(p, g) \in Seq(Records)
  <2>1. Len(NewRecords(p, g)) \in Nat /\ NewRecords(p, g) \in [1..Len(NewRecords(p, g)) -> New]
    BY <1>9, LenProperties
  <2>2. NewRecords(p, g) \in [1..Len(NewRecords(p, g)) -> Records]
    BY <1>11, <2>1
  <2> QED
    BY <2>1, <2>2, IsASeq
<1> QED
  BY <1>10, <1>11, <1>12

LEMMA OrderFacts ==
  ASSUME NEW p \in Procs, NEW order \in SetToSeqs(FreshenGits(p))
  PROVE  order \in Seq(Urls)
<1> DEFINE H == {h \in Known(p) : KindOf[h] = "git"}
           S == FreshenGits(p)
<1>1. S \subseteq Urls
  BY DEF FreshenGits, Known, Urls
<1>2. IsFiniteSet(S)
  <2>1. IsFiniteSet(H)
    BY TrackerAssumption, FS_Subset DEF Known
  <2>2. CASE cmd[p].freshen
    <3>1. S = {[group |-> g, ref |-> Latest] : g \in H}
      BY <2>2 DEF FreshenGits
    <3> DEFINE f == [g \in H |-> [group |-> g, ref |-> Latest]]
    <3>2. f \in Surjection(H, S)
      BY <3>1 DEF Surjection
    <3> HIDE DEF H, S, f
    <3> QED
      BY <2>1, <3>2, FS_Surjection
  <2>3. CASE ~cmd[p].freshen
    BY <2>3, FS_EmptySet DEF FreshenGits
  <2> QED
    BY <2>2, <2>3
<1>3. Cardinality(S) \in Nat
  BY <1>2, FS_CardinalityType
<1>4. order \in [1..Cardinality(S) -> S]
  BY DEF SetToSeqs
<1> HIDE DEF S
<1>5. order \in [1..Cardinality(S) -> Urls]
  BY <1>1, <1>4
<1> QED
  BY <1>3, <1>5, IsASeq

\* The types of what runs hold.
RunTypes ==
  /\ pc \in [Procs -> {"idle", "images", "gits", "output", "outputting", "replace", "replacing"}]
  /\ cmd \in [Procs -> Commands]
  /\ data \in [Procs -> Trackers] /\ t \in [Procs -> Trackers]
  /\ urls \in [Procs -> Seq(Urls)]
  /\ added \in [Procs -> [Groups -> Refs \cup Taskless \cup {Latest}]]
  /\ DOMAIN clones = Procs /\ DOMAIN resolved = Procs
  /\ \A p \in Procs : DOMAIN resolved[p] \subseteq Groups

LEMMA EndTypes ==
  ASSUME TypeOK, NEW p \in Procs, End(p) \/ Continue(p, "replace")
  PROVE  RunTypes'
<1>1. CASE Continue(p, "replace")
  BY <1>1 DEF Continue, Go, TypeOK, RunTypes
<1>2. CASE End(p)
  <2>1. << >> \in Seq(Urls) /\ DOMAIN Unresolved = {}
    BY EmptySeq DEF Unresolved
  <2>2. /\ Empty \in Trackers /\ NothingAdded \in [Groups -> Refs \cup Taskless \cup {Latest}]
        /\ NoCommand \in Commands
    BY EmptyFacts
  <2> QED
    BY <1>2, <2>1, <2>2 DEF End, Go, TypeOK, RunTypes
<1> QED
  BY <1>1, <1>2

\* Every step keeps the types.
LEMMA TypeStep ==
  ASSUME IInv, [Next]_vars
  PROVE  TypeOK'
<1> USE DEF IInv
<1>1. ASSUME Tick PROVE TypeOK'
  BY <1>1, TrackerAssumption DEF TypeOK, Tick
<1>2. ASSUME NEW g \in Groups, NEW r \in Refs, Push(g, r) PROVE TypeOK'
  <2>1. head' \in [Groups -> Refs] /\ past' = past \cup {head'}
    BY <1>2 DEF Push, TypeOK
  <2>2. past' \subseteq [Groups -> Refs] /\ head' \in past'
    BY <2>1 DEF TypeOK
  <2>3. pushes' \in 0..MaxPushes
    BY <1>2, TrackerAssumption DEF Push, TypeOK
  <2>4. UNCHANGED <<now, runs, files, newest, clean, pc, cmd, data, t, urls, clones, resolved, added>>
    BY <1>2 DEF Push
  <2> QED
    BY <2>1, <2>2, <2>3, <2>4 DEF TypeOK
<1>3. ASSUME NEW p \in Procs, NEW c \in Commands, Start(p, c) PROVE TypeOK'
  <2>1. data' \in [Procs -> Trackers] /\ t' \in [Procs -> Trackers]
    <3>1. (IF c.input = "none" THEN Empty ELSE files[c.input]) \in Trackers
      BY CommandAssumption, EmptyFacts DEF TypeOK
    <3> QED
      BY <1>3, <3>1 DEF Start, TypeOK
  <2> QED
    BY <1>3, <2>1, TrackerAssumption DEF Start, Go, frame, TypeOK
<1>4. ASSUME NEW p \in Procs, TrackImages(p) PROVE TypeOK'
  <2>1. t' \in [Procs -> Trackers]
    <3>1. ASSUME NEW g \in Groups PROVE NewRecords(p, g) \o t[p][g] \in Seq(Records)
      BY NewRecordsFacts, ConcatProperties DEF TypeOK, Trackers
    <3>2. t' = [t EXCEPT ![p] = [g \in Groups |-> NewRecords(p, g) \o t[p][g]]]
      BY <1>4 DEF TrackImages
    <3> QED
      BY <3>1, <3>2 DEF TypeOK, Trackers
  <2>2. added' \in [Procs -> [Groups -> Refs \cup Taskless \cup {Latest}]]
    <3>1. ASSUME NEW g \in Groups, NewRecords(p, g) # << >>
          PROVE  NewRecords(p, g)[1].ref \in Refs \cup Taskless
      <4>1. NewRecords(p, g) \in Seq(Records)
        BY NewRecordsFacts
      <4>2. 1 \in 1..Len(NewRecords(p, g))
        BY <3>1, <4>1, EmptySeq
      <4> QED
        BY <4>1, <4>2, RecordFacts
    <3> QED
      BY <1>4, <3>1 DEF TrackImages, TypeOK
  <2>3. urls' \in [Procs -> Seq(Urls)]
    <3>1. PICK order \in SetToSeqs(FreshenGits(p)) : urls' = [urls EXCEPT ![p] = GitUrls(cmd[p]) \o order]
      BY <1>4 DEF TrackImages
    <3>2. GitUrls(cmd[p]) \o order \in Seq(Urls)
      BY OrderFacts, UrlFacts, ConcatProperties DEF TypeOK
    <3> QED
      BY <3>1, <3>2 DEF TypeOK
  <2> QED
    BY <1>4, <2>1, <2>2, <2>3 DEF TrackImages, Go, frame, TypeOK
<1>5. ASSUME NEW p \in Procs, TrackGit(p) PROVE TypeOK'
  <2> DEFINE u == Head(urls[p])
             c == GitResolve(p, u.group)
             ref == IF u.ref = Latest THEN c[u.group] ELSE u.ref
  <2>1. u \in Urls /\ Tail(urls[p]) \in Seq(Urls)
    BY <1>5, HeadTailProperties DEF TrackGit, TypeOK
  <2>2. u.group \in Groups /\ u.ref \in Refs \cup Taskless \cup {Latest}
    BY <2>1 DEF Urls
  <2>3. c \in [Groups -> Refs]
    BY <2>2 DEF GitResolve, TypeOK, CloneInv
  <2> HIDE DEF u, c
  <2>4. ref \in Refs \cup Taskless
    BY <2>2, <2>3
  <2>5. /\ urls' = [urls EXCEPT ![p] = Tail(urls[p])]
        /\ t' = [t EXCEPT ![p] = addTrustedTaskRecord(t[p], u.group, ref)]
        /\ added' = [added EXCEPT ![p][u.group] = ref]
        /\ \/ resolved' = [resolved EXCEPT ![p] =
                 [g \in DOMAIN resolved[p] \cup {u.group} |-> IF g = u.group THEN c[g] ELSE resolved[p][g]]]
           \/ resolved' = resolved
        /\ DOMAIN clones' = Procs
        /\ UNCHANGED <<runs, files, newest, clean, pc, cmd, data, now, pushes, head, past>>
    BY <1>5 DEF TrackGit, frame, u, c, TypeOK
  <2> HIDE DEF ref
  <2>6. addTrustedTaskRecord(t[p], u.group, ref) \in Trackers
    <3>1. <<Record(ref, Never)>> \in Seq(Records)
      BY <2>4 DEF Record, Records
    <3>2. <<Record(ref, Never)>> \o t[p][u.group] \in Seq(Records)
      BY <2>2, <3>1, ConcatProperties DEF TypeOK, Trackers
    <3> QED
      BY <2>2, <3>2 DEF addTrustedTaskRecord, TypeOK, Trackers
  <2>7. DOMAIN resolved' = Procs /\ \A q \in Procs : DOMAIN resolved'[q] \subseteq Groups
    <3>1. CASE resolved' = resolved
      BY <3>1 DEF TypeOK
    <3>2. CASE resolved' # resolved
      <4> DEFINE new == [g \in DOMAIN resolved[p] \cup {u.group} |->
                           IF g = u.group THEN c[g] ELSE resolved[p][g]]
      <4>1. DOMAIN new = DOMAIN resolved[p] \cup {u.group} /\ resolved' = [resolved EXCEPT ![p] = new]
        BY <2>5, <3>2
      <4> HIDE DEF new
      <4>2. DOMAIN new \subseteq Groups
        BY <2>2, <4>1 DEF TypeOK
      <4> QED
        BY <4>1, <4>2 DEF TypeOK
    <3> QED
      BY <3>1, <3>2
  <2>8. t' \in [Procs -> Trackers] /\ urls' \in [Procs -> Seq(Urls)]
    BY <2>1, <2>5, <2>6 DEF TypeOK
  <2>9. added' \in [Procs -> [Groups -> Refs \cup Taskless \cup {Latest}]]
    BY <2>2, <2>4, <2>5 DEF TypeOK
  <2> QED
    BY <2>5, <2>7, <2>8, <2>9 DEF TypeOK
<1>6. ASSUME NEW p \in Procs, Filter(p) PROVE TypeOK'
  <2>1. ASSUME NEW g \in Groups PROVE Result(t[p][g], cmd[p].prune, cmd[p].days) \in Seq(Records)
    <3>1. t[p][g] \in Seq(Records) /\ cmd[p] \in Commands /\ now \in Nat
      BY DEF TypeOK, Trackers
    <3>2. cmd[p].prune \in BOOLEAN /\ cmd[p].days \in Int
      BY <3>1, CommandAssumption
    <3> QED
      BY <3>1, <3>2, ResultFacts DEF Enumerates
  <2>2. t' = [t EXCEPT ![p] = [g \in Groups |-> Result(t[p][g], cmd[p].prune, cmd[p].days)]]
    BY <1>6 DEF Filter, Result
  <2>3. t' \in [Procs -> Trackers]
    BY <2>1, <2>2 DEF TypeOK, Trackers
  <2> QED
    BY <1>6, <2>3 DEF Filter, Go, frame, TypeOK
<1>7. ASSUME NEW p \in Procs, Output(p) PROVE TypeOK'
  <2>1. files' \in [{"main", "other"} -> Trackers]
    BY <1>7, EmptyFacts DEF TypeOK, Output, Truncate
  <2> QED
    BY <1>7, <2>1 DEF TypeOK, Output, Go, Truncate, frame
<1>8. ASSUME NEW p \in Procs, FinishOutput(p) PROVE TypeOK'
  <2>1. cmd[p].output \in {"main", "other"}
    BY <1>8, CommandAssumption DEF IInv, RunInv, RunOK, TypeOK, FinishOutput
  <2>2. files' \in [{"main", "other"} -> Trackers]
    BY <1>8, <2>1 DEF TypeOK, FinishOutput, Write
  <2>3. newest' \in [Groups -> Refs \cup Taskless \cup {Latest}]
    BY <1>8 DEF TypeOK, FinishOutput, Write, Noted
  <2>4. RunTypes'
    BY <1>8, EndTypes DEF FinishOutput, AfterOutput
  <2> QED
    BY <1>8, <2>2, <2>3, <2>4 DEF TypeOK, RunTypes, FinishOutput, Write, frame
<1>9. ASSUME NEW p \in Procs, Stdout(p) PROVE TypeOK'
  <2>1. RunTypes'
    BY <1>9, EndTypes DEF Stdout, AfterOutput
  <2> QED
    BY <1>9, <2>1 DEF TypeOK, RunTypes, Stdout, frame
<1>10. ASSUME NEW p \in Procs, Replace(p) PROVE TypeOK'
  <2>1. files' \in [{"main", "other"} -> Trackers]
    BY <1>10, EmptyFacts DEF TypeOK, Replace, Truncate
  <2> QED
    BY <1>10, <2>1 DEF TypeOK, Replace, Go, Truncate, frame
<1>11. ASSUME NEW p \in Procs, FinishReplace(p) PROVE TypeOK'
  <2>1. cmd[p].input \in {"main", "other"}
    BY <1>11, CommandAssumption DEF IInv, RunInv, RunOK, TypeOK, FinishReplace
  <2>2. files' \in [{"main", "other"} -> Trackers]
    BY <1>11, <2>1 DEF TypeOK, FinishReplace, Write
  <2>3. newest' \in [Groups -> Refs \cup Taskless \cup {Latest}]
    BY <1>11 DEF TypeOK, FinishReplace, Write, Noted
  <2>4. RunTypes'
    BY <1>11, EndTypes DEF FinishReplace
  <2> QED
    BY <1>11, <2>2, <2>3, <2>4 DEF TypeOK, RunTypes, FinishReplace, Write, frame
<1>12. ASSUME NEW p \in Procs, Fail(p) PROVE TypeOK'
  <2>1. RunTypes'
    BY <1>12, EndTypes DEF Fail
  <2> QED
    BY <1>12, <2>1 DEF TypeOK, RunTypes, Fail, frame
<1>13. ASSUME NEW p \in Procs, Crash(p) PROVE TypeOK'
  <2>1. RunTypes'
    BY <1>13, EndTypes DEF Crash
  <2> QED
    BY <1>13, <2>1 DEF TypeOK, RunTypes, Crash, frame
<1>14. ASSUME UNCHANGED vars PROVE TypeOK'
  BY <1>14, TrackerAssumption DEF TypeOK, vars
<1> QED
  BY <1>1, <1>2, <1>3, <1>4, <1>5, <1>6, <1>7, <1>8, <1>9, <1>10, <1>11, <1>12, <1>13,
     <1>14 DEF Next, Step

\* A step leaves a file as it is, truncates it, or writes what a run that is writing holds.
LEMMA FilesChange ==
  ASSUME IInv, [Next]_vars, NEW f \in {"main", "other"}
  PROVE  \/ files'[f] = files[f] \/ files'[f] = Empty
         \/ \E p \in Procs : pc[p] \in {"outputting", "replacing"} /\ files'[f] = t[p]
<1> USE DEF IInv, TypeOK
<1>1. ASSUME NEW p \in Procs, Output(p) \/ Replace(p) PROVE files'[f] = files[f] \/ files'[f] = Empty
  BY <1>1 DEF Output, Replace, Truncate
<1>2. ASSUME NEW p \in Procs, FinishOutput(p) \/ FinishReplace(p)
      PROVE  files'[f] = files[f] \/ (pc[p] \in {"outputting", "replacing"} /\ files'[f] = t[p])
  BY <1>2 DEF FinishOutput, FinishReplace, Write
<1>3. ASSUME ~\E p \in Procs : Output(p) \/ Replace(p) \/ FinishOutput(p) \/ FinishReplace(p)
      PROVE  files' = files
  BY <1>3 DEF Next, Step, Tick, Push, Start, TrackImages, TrackGit, Filter, Stdout, Fail, Crash, vars
<1> QED
  BY <1>1, <1>2, <1>3

\* What a run has read stays, goes with the end of the run, or has just been read.
LEMMA DataChange ==
  ASSUME IInv, [Next]_vars, NEW q \in Procs
  PROVE  \/ data'[q] = data[q] \/ data'[q] = Empty
         \/ \E f \in {"main", "other"} : data'[q] = files[f]
<1> USE DEF IInv, TypeOK
<1>1. ASSUME NEW p \in Procs, NEW c \in Commands, Start(p, c)
      PROVE  \/ data'[q] = data[q] \/ data'[q] = Empty
             \/ \E f \in {"main", "other"} : data'[q] = files[f]
  BY <1>1, CommandAssumption DEF Start
<1>2. ASSUME NEW p \in Procs, FinishOutput(p) \/ Stdout(p) \/ FinishReplace(p) \/ Fail(p) \/ Crash(p)
      PROVE  data'[q] = data[q] \/ data'[q] = Empty
  BY <1>2 DEF FinishOutput, Stdout, FinishReplace, Fail, Crash, AfterOutput, Continue, End
<1>3. ASSUME ~\E p \in Procs : \/ FinishOutput(p) \/ Stdout(p) \/ FinishReplace(p) \/ Fail(p) \/ Crash(p)
                               \/ \E c \in Commands : Start(p, c)
      PROVE  data' = data
  BY <1>3 DEF Next, Step, Tick, Push, TrackImages, TrackGit, Filter, Output, Replace, Truncate, vars
<1> QED
  BY <1>1, <1>2, <1>3

\* Files, and what runs have read, stay sound.
LEMMA FilesStep ==
  ASSUME IInv, [Next]_vars
  PROVE  FilesInv'
<1>1. /\ Today \in Int /\ Today' \in Int /\ Today <= Today'
  BY TodayLater DEF IInv
<1>2. ASSUME NEW rs \in Seq(Records), Sound(rs, Today) PROVE Sound(rs, Today')
  BY <1>1, <1>2, SoundLater
<1>3. ASSUME NEW x \in Trackers, \A g \in Groups : Sound(x[g], Today), NEW g \in Groups
      PROVE  Sound(x[g], Today')
  <2>1. x[g] \in Seq(Records)
    BY DEF Trackers
  <2> QED
    BY <1>2, <1>3, <2>1
<1>4. Empty \in Trackers /\ \A g \in Groups : Sound(Empty[g], Today)
  BY EmptyFacts
<1>5. ASSUME NEW f \in {"main", "other"}, NEW g \in Groups PROVE Sound(files'[f][g], Today')
  <2>1. files[f] \in Trackers /\ \A h \in Groups : Sound(files[f][h], Today)
    BY DEF IInv, TypeOK, FilesInv
  <2>2. ASSUME NEW p \in Procs, pc[p] \in {"outputting", "replacing"}
        PROVE  t[p] \in Trackers /\ \A h \in Groups : Sound(t[p][h], Today)
    BY <2>2 DEF IInv, TypeOK, RunInv, RunOK
  <2>3. CASE files'[f] = files[f]
    BY <1>3, <2>1, <2>3
  <2>4. CASE files'[f] = Empty
    BY <1>3, <1>4, <2>4
  <2>5. ASSUME NEW p \in Procs, pc[p] \in {"outputting", "replacing"}, files'[f] = t[p]
        PROVE  Sound(files'[f][g], Today')
    BY <1>3, <2>2, <2>5
  <2> QED
    BY <2>3, <2>4, <2>5, FilesChange
<1>6. ASSUME NEW q \in Procs, NEW g \in Groups PROVE Sound(data'[q][g], Today')
  <2>1. data[q] \in Trackers /\ \A h \in Groups : Sound(data[q][h], Today)
    BY DEF IInv, TypeOK, FilesInv
  <2>2. ASSUME NEW f \in {"main", "other"}
        PROVE  files[f] \in Trackers /\ \A h \in Groups : Sound(files[f][h], Today)
    BY DEF IInv, TypeOK, FilesInv
  <2>3. CASE data'[q] = data[q]
    BY <1>3, <2>1, <2>3
  <2>4. CASE data'[q] = Empty
    BY <1>3, <1>4, <2>4
  <2>5. ASSUME NEW f \in {"main", "other"}, data'[q] = files[f] PROVE Sound(data'[q][g], Today')
    BY <1>3, <2>2, <2>5
  <2> QED
    BY <2>3, <2>4, <2>5, DataChange
<1>7. DOMAIN files' = {"main", "other"}
  BY TypeStep DEF TypeOK
<1> QED
  BY <1>5, <1>6, <1>7 DEF FilesInv

LEMMA RunLater ==
  ASSUME NEW k, NEW c, NEW ds, NEW x \in Trackers, NEW new, NEW a \in Int, NEW b \in Int, a <= b,
         RunOK(k, c, ds, x, new, a)
  PROVE  RunOK(k, c, ds, x, new, b)
<1>1. \A g \in Groups : x[g] \in Seq(Records)
  BY DEF Trackers
<1>2. \A g \in Groups : Sound(x[g], a) => Sound(x[g], b)
  BY <1>1, SoundLater
<1> QED
  BY <1>2 DEF RunOK

\* Undated records put before the others.
LEMMA ExtendsMore ==
  ASSUME NEW new \in Seq(Records), \A i \in 1..Len(new) : new[i].exp = Never,
         NEW rs \in Seq(Records), NEW ds \in Seq(Records), Extends(rs, ds)
  PROVE  /\ Extends(new \o rs, ds) /\ Len(new \o rs) = Len(new) + Len(rs)
         /\ new # << >> => Len(new) > 0 /\ (new \o rs)[1] = new[1]
         /\ new = << >> => new \o rs = rs
<1> DEFINE s == new \o rs
<1>1. /\ s \in Seq(Records) /\ Len(s) = Len(new) + Len(rs)
      /\ \A i \in 1..(Len(new) + Len(rs)) : s[i] = IF i <= Len(new) THEN new[i] ELSE rs[i - Len(new)]
  BY ConcatProperties
<1>2. Len(new) \in Nat /\ Len(rs) \in Nat /\ Len(ds) \in Nat /\ Len(ds) <= Len(rs)
  BY LenProperties DEF Extends
<1>3. new = << >> => s = rs
  BY ConcatEmptySeq
<1> HIDE DEF s
<1>4. ASSUME NEW i \in 1..(Len(s) - Len(ds)) PROVE s[i].exp = Never
  <2>1. i \in 1..(Len(new) + Len(rs))
    BY <1>1, <1>2
  <2>2. CASE i <= Len(new)
    <3>1. s[i] = new[i] /\ i \in 1..Len(new)
      BY <1>1, <1>2, <2>1, <2>2
    <3> QED
      BY <3>1
  <2>3. CASE ~(i <= Len(new))
    <3>1. i - Len(new) \in 1..(Len(rs) - Len(ds))
      BY <1>1, <1>2, <2>3
    <3> QED
      BY <1>1, <2>1, <2>3, <3>1 DEF Extends
  <2> QED
    BY <2>2, <2>3
<1>5. ASSUME NEW i \in 1..Len(ds) PROVE s[Len(s) - Len(ds) + i] = ds[i]
  <2>1. /\ Len(s) - Len(ds) + i \in 1..(Len(new) + Len(rs)) /\ ~(Len(s) - Len(ds) + i <= Len(new))
        /\ (Len(s) - Len(ds) + i) - Len(new) = Len(rs) - Len(ds) + i
    BY <1>1, <1>2
  <2>2. s[Len(s) - Len(ds) + i] = rs[Len(rs) - Len(ds) + i]
    BY <1>1, <2>1
  <2> QED
    BY <2>2 DEF Extends
<1>6. Extends(s, ds)
  BY <1>1, <1>2, <1>4, <1>5 DEF Extends
<1>7. ASSUME new # << >> PROVE Len(new) > 0 /\ s[1] = new[1]
  <2>1. Len(new) \in Nat \ {0}
    BY <1>7, EmptySeq
  <2> QED
    BY <1>1, <1>2, <2>1
<1> QED
  BY <1>1, <1>3, <1>6, <1>7 DEF s

LEMMA ExtendsItself ==
  ASSUME NEW ds \in Seq(Records)
  PROVE  Extends(ds, ds)
BY LenProperties DEF Extends

\* What a run holds after a step, on the day of the step.
LEMMA RunStepToday ==
  ASSUME IInv, [Next]_vars, NEW q \in Procs
  PROVE  RunOK(pc'[q], cmd'[q], data'[q], t'[q], added'[q], Today)
<1> USE DEF IInv
<1>1. ASSUME Tick PROVE RunOK(pc'[q], cmd'[q], data'[q], t'[q], added'[q], Today)
  BY <1>1 DEF TypeOK, RunInv, Tick
<1>2. ASSUME NEW g \in Groups, NEW r \in Refs, Push(g, r) PROVE RunOK(pc'[q], cmd'[q], data'[q], t'[q], added'[q], Today)
  BY <1>2 DEF TypeOK, RunInv, Push
<1>3. ASSUME NEW p \in Procs, NEW c \in Commands, Start(p, c) PROVE RunOK(pc'[q], cmd'[q], data'[q], t'[q], added'[q], Today)
  <2>1. ASSUME q # p PROVE RunOK(pc'[q], cmd'[q], data'[q], t'[q], added'[q], Today)
    BY <1>3, <2>1 DEF TypeOK, RunInv, Start, Go
  <2>2. ASSUME q = p PROVE RunOK(pc'[q], cmd'[q], data'[q], t'[q], added'[q], Today)
    <3>1. pc'[p] = "images" /\ t'[p] = data'[p] /\ added'[p] = NothingAdded
      BY <1>3 DEF TypeOK, RunInv, RunOK, Start, Go
    <3> QED
      BY <2>2, <3>1 DEF RunOK
  <2> QED
    BY <2>1, <2>2
<1>4. ASSUME NEW p \in Procs, TrackImages(p) PROVE RunOK(pc'[q], cmd'[q], data'[q], t'[q], added'[q], Today)
  <2>1. ASSUME q # p PROVE RunOK(pc'[q], cmd'[q], data'[q], t'[q], added'[q], Today)
    BY <1>4, <2>1 DEF TypeOK, RunInv, TrackImages, Go
  <2>2. ASSUME q = p PROVE RunOK(pc'[q], cmd'[q], data'[q], t'[q], added'[q], Today)
    <3>1. /\ pc'[p] = "gits" /\ data'[p] = data[p] /\ t[p] = data[p]
          /\ \A g \in Groups : t'[p][g] = NewRecords(p, g) \o t[p][g]
          /\ \A g \in Groups : added'[p][g] = IF NewRecords(p, g) = << >> THEN Latest
                                             ELSE NewRecords(p, g)[1].ref
      BY <1>4 DEF TypeOK, RunInv, RunOK, TrackImages, Go
    <3>2. ASSUME NEW g \in Groups
          PROVE  /\ Extends(t'[p][g], data[p][g])
                 /\ IF added'[p][g] # Latest
                    THEN Len(t'[p][g]) > Len(data[p][g]) /\ t'[p][g][1].ref = added'[p][g]
                    ELSE t'[p][g] = data[p][g]
      <4> DEFINE new == NewRecords(p, g)
                 rs == t[p][g]
      <4>1. rs \in Seq(Records) /\ rs = data[p][g] /\ Len(rs) \in Nat
        BY <3>1, LenProperties DEF TypeOK, Trackers
      <4>2. new \in Seq(Records) /\ \A i \in 1..Len(new) : new[i].exp = Never
        BY NewRecordsFacts
      <4>3. /\ t'[p][g] = new \o rs
            /\ added'[p][g] = IF new = << >> THEN Latest ELSE new[1].ref
        BY <3>1
      <4> HIDE DEF new, rs
      <4>4. /\ Extends(new \o rs, rs) /\ Len(new \o rs) = Len(new) + Len(rs)
            /\ new # << >> => Len(new) > 0 /\ (new \o rs)[1] = new[1]
            /\ new = << >> => new \o rs = rs
        BY <4>1, <4>2, ExtendsItself, ExtendsMore
      <4>5. new # << >> => Len(new \o rs) > Len(rs)
        BY <4>1, <4>2, <4>4, LenProperties
      <4>6. new # << >> => new[1].ref # Latest
        <5>1. new # << >> => 1 \in 1..Len(new)
          BY <4>2, EmptySeq
        <5> QED
          BY <4>2, <5>1, RecordFacts, TrackerAssumption
      <4> QED
        BY <4>1, <4>3, <4>4, <4>5, <4>6
    <3> QED
      BY <2>2, <3>1, <3>2 DEF RunOK
  <2> QED
    BY <2>1, <2>2
<1>5. ASSUME NEW p \in Procs, TrackGit(p) PROVE RunOK(pc'[q], cmd'[q], data'[q], t'[q], added'[q], Today)
  <2>1. ASSUME q # p PROVE RunOK(pc'[q], cmd'[q], data'[q], t'[q], added'[q], Today)
    BY <1>5, <2>1 DEF TypeOK, RunInv, TrackGit
  <2>2. ASSUME q = p PROVE RunOK(pc'[q], cmd'[q], data'[q], t'[q], added'[q], Today)
    <3> DEFINE u == Head(urls[p])
               c == GitResolve(p, u.group)
               ref == IF u.ref = Latest THEN c[u.group] ELSE u.ref
               new == <<Record(ref, Never)>>
    <3>1. u \in Urls
      BY <1>5, HeadTailProperties DEF TrackGit, TypeOK
    <3>2. u.group \in Groups /\ u.ref \in Refs \cup Taskless \cup {Latest}
      BY <3>1 DEF Urls
    <3>3. c \in [Groups -> Refs]
      BY <3>2 DEF GitResolve, TypeOK, CloneInv
    <3> HIDE DEF u, c
    <3>4. ref \in Refs \cup Taskless /\ ref # Latest
      BY <3>2, <3>3, TrackerAssumption
    <3>5. /\ t' = [t EXCEPT ![p] = addTrustedTaskRecord(t[p], u.group, ref)]
          /\ added' = [added EXCEPT ![p][u.group] = ref]
          /\ pc[p] = "gits" /\ pc' = pc /\ data' = data
      BY <1>5 DEF TrackGit, u, c
    <3> HIDE DEF ref
    <3>6. new \in Seq(Records) /\ new # << >> /\ Len(new) = 1 /\ new[1].ref = ref /\ new[1].exp = Never
      BY <3>4 DEF Record, Records
    <3>7. /\ t'[p][u.group] = new \o t[p][u.group] /\ added'[p][u.group] = ref
          /\ \A g \in Groups \ {u.group} : t'[p][g] = t[p][g] /\ added'[p][g] = added[p][g]
      BY <3>2, <3>5 DEF addTrustedTaskRecord, TypeOK, Trackers
    <3> HIDE DEF new
    <3>8. ASSUME NEW g \in Groups
          PROVE  /\ Extends(t[p][g], data[p][g])
                 /\ IF added[p][g] # Latest
                    THEN Len(t[p][g]) > Len(data[p][g]) /\ t[p][g][1].ref = added[p][g]
                    ELSE t[p][g] = data[p][g]
      BY <3>5 DEF RunInv, RunOK
    <3>9. /\ Extends(t'[p][u.group], data[p][u.group])
          /\ Len(t'[p][u.group]) > Len(data[p][u.group]) /\ t'[p][u.group][1].ref = ref
      <4> DEFINE rs == t[p][u.group]
                 ds == data[p][u.group]
      <4>1. rs \in Seq(Records) /\ ds \in Seq(Records) /\ Extends(rs, ds)
        BY <3>2, <3>8 DEF TypeOK, Trackers
      <4> HIDE DEF rs, ds
      <4>2. Len(rs) \in Nat /\ Len(ds) \in Nat /\ Len(ds) <= Len(rs)
        BY <4>1, LenProperties DEF Extends
      <4>3. \A i \in 1..Len(new) : new[i].exp = Never
        BY <3>6
      <4>4. Extends(new \o rs, ds) /\ Len(new \o rs) = Len(new) + Len(rs) /\ (new \o rs)[1] = new[1]
        BY <3>6, <4>1, <4>3, ExtendsMore
      <4>5. Len(new \o rs) > Len(ds)
        BY <3>6, <4>2, <4>4
      <4> QED
        BY <3>6, <3>7, <4>4, <4>5 DEF rs, ds
    <3>10. ASSUME NEW g \in Groups
           PROVE  /\ Extends(t'[p][g], data[p][g])
                  /\ IF added'[p][g] # Latest
                     THEN Len(t'[p][g]) > Len(data[p][g]) /\ t'[p][g][1].ref = added'[p][g]
                     ELSE t'[p][g] = data[p][g]
      <4>1. CASE g = u.group
        BY <3>4, <3>7, <3>9, <4>1
      <4>2. CASE g # u.group
        BY <3>7, <3>8, <4>2
      <4> QED
        BY <4>1, <4>2
    <3> QED
      BY <2>2, <3>5, <3>10 DEF RunOK
  <2> QED
    BY <2>1, <2>2
<1>6. ASSUME NEW p \in Procs, Filter(p) PROVE RunOK(pc'[q], cmd'[q], data'[q], t'[q], added'[q], Today)
  <2>1. ASSUME q # p PROVE RunOK(pc'[q], cmd'[q], data'[q], t'[q], added'[q], Today)
    BY <1>6, <2>1 DEF TypeOK, RunInv, Filter, Go
  <2>2. ASSUME q = p PROVE RunOK(pc'[q], cmd'[q], data'[q], t'[q], added'[q], Today)
    <3>1. /\ pc[p] = "gits" /\ pc'[p] = "output" /\ data' = data /\ added' = added
          /\ \A g \in Groups : t'[p][g] = Result(t[p][g], cmd[p].prune, cmd[p].days)
      BY <1>6 DEF TypeOK, Filter, Go, Result
    <3>2. ASSUME NEW g \in Groups
          PROVE  Sound(t'[p][g], Today) /\ (OneGrace => InEffect(t'[p][g], data[p][g], added[p][g]))
      <4> DEFINE rs == t[p][g]
                 ds == data[p][g]
      <4>1. rs \in Seq(Records) /\ ds \in Seq(Records) /\ cmd[p] \in Commands /\ now \in Nat
        BY DEF TypeOK, Trackers
      <4>2. /\ Extends(rs, ds) /\ Sound(ds, Today)
            /\ IF added[p][g] # Latest THEN Len(rs) > Len(ds) /\ rs[1].ref = added[p][g] ELSE rs = ds
        BY <3>1 DEF RunInv, RunOK, FilesInv
      <4> HIDE DEF rs, ds
      <4>3. added[p][g] # Latest => rs # << >>
        <5>1. Len(<< >>) = 0 /\ Len(ds) \in Nat
          BY <4>1, EmptySeq, LenProperties
        <5> QED
          BY <4>2, <5>1
      <4>4. /\ Sound(t'[p][g], Today)
            /\ OneGrace /\ rs # << >> => t'[p][g] # << >> /\ t'[p][g][1].ref = rs[1].ref
        BY <3>1, <4>1, <4>2, ResultSound DEF rs
      <4>5. OneGrace => InEffect(t'[p][g], ds, added[p][g])
        BY <4>2, <4>3, <4>4 DEF InEffect
      <4> QED
        BY <4>4, <4>5 DEF ds
    <3> QED
      BY <2>2, <3>1, <3>2 DEF RunOK
  <2> QED
    BY <2>1, <2>2
<1>7. ASSUME NEW p \in Procs, Output(p) PROVE RunOK(pc'[q], cmd'[q], data'[q], t'[q], added'[q], Today)
  <2>1. ASSUME q # p PROVE RunOK(pc'[q], cmd'[q], data'[q], t'[q], added'[q], Today)
    BY <1>7, <2>1 DEF TypeOK, RunInv, Output, Go, Truncate
  <2>2. ASSUME q = p PROVE RunOK(pc'[q], cmd'[q], data'[q], t'[q], added'[q], Today)
    BY <1>7, <2>2 DEF TypeOK, RunInv, RunOK, Output, Go, Truncate
  <2> QED
    BY <2>1, <2>2
<1>8. ASSUME NEW p \in Procs, FinishOutput(p) PROVE RunOK(pc'[q], cmd'[q], data'[q], t'[q], added'[q], Today)
  <2>1. ASSUME q # p PROVE RunOK(pc'[q], cmd'[q], data'[q], t'[q], added'[q], Today)
    BY <1>8, <2>1 DEF TypeOK, RunInv, FinishOutput, AfterOutput, Continue, Go, End
  <2>2. ASSUME q = p PROVE RunOK(pc'[q], cmd'[q], data'[q], t'[q], added'[q], Today)
    <3>1. CASE Replaces(p)
      BY <1>8, <2>2, <3>1 DEF TypeOK, RunInv, RunOK, FinishOutput, AfterOutput, Continue, Go, Replaces
    <3>2. CASE ~Replaces(p)
      BY <1>8, <2>2, <3>2 DEF TypeOK, RunOK, FinishOutput, AfterOutput, Go, End
    <3> QED
      BY <3>1, <3>2
  <2> QED
    BY <2>1, <2>2
<1>9. ASSUME NEW p \in Procs, Stdout(p) PROVE RunOK(pc'[q], cmd'[q], data'[q], t'[q], added'[q], Today)
  <2>1. ASSUME q # p PROVE RunOK(pc'[q], cmd'[q], data'[q], t'[q], added'[q], Today)
    BY <1>9, <2>1 DEF TypeOK, RunInv, Stdout, AfterOutput, Continue, Go, End
  <2>2. ASSUME q = p PROVE RunOK(pc'[q], cmd'[q], data'[q], t'[q], added'[q], Today)
    <3>1. CASE Replaces(p)
      BY <1>9, <2>2, <3>1 DEF TypeOK, RunInv, RunOK, Stdout, AfterOutput, Continue, Go, Replaces
    <3>2. CASE ~Replaces(p)
      BY <1>9, <2>2, <3>2 DEF TypeOK, RunOK, Stdout, AfterOutput, Go, End
    <3> QED
      BY <3>1, <3>2
  <2> QED
    BY <2>1, <2>2
<1>10. ASSUME NEW p \in Procs, Replace(p) PROVE RunOK(pc'[q], cmd'[q], data'[q], t'[q], added'[q], Today)
  <2>1. ASSUME q # p PROVE RunOK(pc'[q], cmd'[q], data'[q], t'[q], added'[q], Today)
    BY <1>10, <2>1 DEF TypeOK, RunInv, Replace, Go, Truncate
  <2>2. ASSUME q = p PROVE RunOK(pc'[q], cmd'[q], data'[q], t'[q], added'[q], Today)
    BY <1>10, <2>2 DEF TypeOK, RunInv, RunOK, Replace, Go, Truncate
  <2> QED
    BY <2>1, <2>2
<1>11. ASSUME NEW p \in Procs, FinishReplace(p) PROVE RunOK(pc'[q], cmd'[q], data'[q], t'[q], added'[q], Today)
  <2>1. ASSUME q # p PROVE RunOK(pc'[q], cmd'[q], data'[q], t'[q], added'[q], Today)
    BY <1>11, <2>1 DEF TypeOK, RunInv, FinishReplace, Go, End
  <2>2. ASSUME q = p PROVE RunOK(pc'[q], cmd'[q], data'[q], t'[q], added'[q], Today)
    BY <1>11, <2>2 DEF TypeOK, RunOK, FinishReplace, Go, End
  <2> QED
    BY <2>1, <2>2
<1>12. ASSUME NEW p \in Procs, Fail(p) PROVE RunOK(pc'[q], cmd'[q], data'[q], t'[q], added'[q], Today)
  <2>1. ASSUME q # p PROVE RunOK(pc'[q], cmd'[q], data'[q], t'[q], added'[q], Today)
    BY <1>12, <2>1 DEF TypeOK, RunInv, Fail, Go, End
  <2>2. ASSUME q = p PROVE RunOK(pc'[q], cmd'[q], data'[q], t'[q], added'[q], Today)
    BY <1>12, <2>2 DEF TypeOK, RunOK, Fail, Go, End
  <2> QED
    BY <2>1, <2>2
<1>13. ASSUME NEW p \in Procs, Crash(p) PROVE RunOK(pc'[q], cmd'[q], data'[q], t'[q], added'[q], Today)
  <2>1. ASSUME q # p PROVE RunOK(pc'[q], cmd'[q], data'[q], t'[q], added'[q], Today)
    BY <1>13, <2>1 DEF TypeOK, RunInv, Crash, Go, End
  <2>2. ASSUME q = p PROVE RunOK(pc'[q], cmd'[q], data'[q], t'[q], added'[q], Today)
    BY <1>13, <2>2 DEF TypeOK, RunOK, Crash, Go, End
  <2> QED
    BY <2>1, <2>2
<1>14. ASSUME UNCHANGED vars PROVE RunOK(pc'[q], cmd'[q], data'[q], t'[q], added'[q], Today)
  BY <1>14 DEF TypeOK, RunInv, vars
<1> QED
  BY <1>1, <1>2, <1>3, <1>4, <1>5, <1>6, <1>7, <1>8, <1>9, <1>10, <1>11, <1>12, <1>13,
     <1>14 DEF Next, Step

\* What runs hold stays as it should be at their step.
LEMMA RunStep ==
  ASSUME IInv, [Next]_vars
  PROVE  RunInv'
<1>1. Today \in Int /\ Today' \in Int /\ Today <= Today'
  BY TodayLater DEF IInv
<1>2. ASSUME NEW q \in Procs PROVE RunOK(pc'[q], cmd'[q], data'[q], t'[q], added'[q], Today')
  <2>1. t'[q] \in Trackers
    BY TypeStep DEF TypeOK
  <2> QED
    BY <1>1, <2>1, RunStepToday, RunLater
<1> QED
  BY <1>2 DEF RunInv

\* Runs do not begin to overlap while the history stays clean.
LEMMA AloneStep ==
  ASSUME IInv, [Next]_vars, OneGrace, clean'
  PROVE  Alone'
<1> USE DEF IInv
<1>0. clean => Alone /\ NewestKept /\ ReadNewest
  BY DEF NewestInv
<1>1. ASSUME Tick PROVE Alone'
  BY <1>1, <1>0 DEF TypeOK, Alone, Tick
<1>2. ASSUME NEW g \in Groups, NEW r \in Refs, Push(g, r) PROVE Alone'
  BY <1>2, <1>0 DEF TypeOK, Alone, Push
<1>3. ASSUME NEW p \in Procs, NEW c \in Commands, Start(p, c) PROVE Alone'
  <2>1. \A q \in Procs \ {p} : pc[q] = "idle"
    BY <1>3 DEF Start, Overlapping
  <2> QED
    BY <1>3, <2>1 DEF Start, Go, TypeOK, Alone
<1>4. ASSUME NEW p \in Procs, TrackImages(p) PROVE Alone'
  BY <1>4, <1>0 DEF TypeOK, Alone, TrackImages, Go, frame
<1>5. ASSUME NEW p \in Procs, TrackGit(p) PROVE Alone'
  BY <1>5, <1>0 DEF TypeOK, Alone, TrackGit, frame
<1>6. ASSUME NEW p \in Procs, Filter(p) PROVE Alone'
  BY <1>6, <1>0 DEF TypeOK, Alone, Filter, Go, frame
<1>7. ASSUME NEW p \in Procs, Output(p) PROVE Alone'
  BY <1>7, <1>0 DEF TypeOK, Alone, Output, Go, Truncate, frame
<1>8. ASSUME NEW p \in Procs, FinishOutput(p) PROVE Alone'
  <2>1. /\ clean' = clean /\ pc[p] # "idle"
        /\ pc' \in {[pc EXCEPT ![p] = "replace"], [pc EXCEPT ![p] = "idle"]}
    BY <1>8 DEF FinishOutput, Write, AfterOutput, Continue, Go, End
  <2> QED
    BY <1>0, <2>1 DEF TypeOK, Alone
<1>9. ASSUME NEW p \in Procs, Stdout(p) PROVE Alone'
  <2>1. clean /\ pc[p] # "idle" /\ pc' \in {[pc EXCEPT ![p] = "replace"], [pc EXCEPT ![p] = "idle"]}
    BY <1>9 DEF Stdout, AfterOutput, Continue, Go, End
  <2> QED
    BY <1>0, <2>1 DEF TypeOK, Alone
<1>10. ASSUME NEW p \in Procs, Replace(p) PROVE Alone'
  BY <1>10, <1>0 DEF TypeOK, Alone, Replace, Go, Truncate, frame
<1>11. ASSUME NEW p \in Procs, FinishReplace(p) PROVE Alone'
  BY <1>11, <1>0 DEF TypeOK, Alone, FinishReplace, Write, Go, End, frame
<1>12. ASSUME NEW p \in Procs, Fail(p) PROVE Alone'
  BY <1>12, <1>0 DEF TypeOK, Alone, Fail, Go, End, frame
<1>13. ASSUME NEW p \in Procs, Crash(p) PROVE Alone'
  BY <1>13 DEF Crash
<1>14. ASSUME UNCHANGED vars PROVE Alone'
  BY <1>14, <1>0 DEF TypeOK, Alone, vars
<1> QED
  BY <1>1, <1>2, <1>3, <1>4, <1>5, <1>6, <1>7, <1>8, <1>9, <1>10, <1>11, <1>12, <1>13,
     <1>14 DEF Next, Step

\* While a run is not at writing, no run is, and "main" holds what was tracked last.
LEMMA MainSettled ==
  ASSUME OneGrace, clean, NewestInv, TypeOK, NEW p \in Procs,
         pc[p] \notin {"outputting", "replacing"}, \A q \in Procs \ {p} : pc[q] = "idle"
  PROVE  /\ ~Writing("main")
         /\ \A g \in Groups : newest[g] # Latest =>
              files["main"][g] # << >> /\ files["main"][g][1].ref = newest[g]
<1>1. ~Writing("main")
  BY DEF Writing
<1> QED
  BY <1>1 DEF NewestInv, NewestKept

\* The run under way read what is tracked last.
LEMMA ReadStep ==
  ASSUME IInv, [Next]_vars, OneGrace, clean'
  PROVE  ReadNewest'
<1> USE DEF IInv
<1>0. clean => Alone /\ NewestKept /\ ReadNewest
  BY DEF NewestInv
<1>1. ASSUME Tick PROVE ReadNewest'
  BY <1>1, <1>0 DEF TypeOK, ReadNewest, Tick
<1>2. ASSUME NEW g \in Groups, NEW r \in Refs, Push(g, r) PROVE ReadNewest'
  BY <1>2, <1>0 DEF TypeOK, ReadNewest, Push
<1>3. ASSUME NEW p \in Procs, NEW c \in Commands, Start(p, c) PROVE ReadNewest'
  <2>1. clean /\ \A q \in Procs \ {p} : pc[q] = "idle"
    BY <1>3 DEF Start, Overlapping
  <2>2. pc[p] = "idle"
    BY <1>3 DEF Start
  <2>3. \A g \in Groups : newest[g] # Latest =>
          files["main"][g] # << >> /\ files["main"][g][1].ref = newest[g]
    BY <2>1, <2>2, MainSettled
  <2>4. /\ \A q \in Procs \ {p} : pc'[q] = "idle"
        /\ c.input = "main" => data'[p] = files["main"]
        /\ cmd'[p] = c /\ newest' = newest
    BY <1>3, <2>1 DEF Start, Go, TypeOK
  <2> QED
    BY <2>3, <2>4 DEF ReadNewest
<1>4. ASSUME NEW p \in Procs, TrackImages(p) PROVE ReadNewest'
  <2>1. added[p] = NothingAdded
    BY <1>4 DEF TrackImages, RunInv, RunOK
  <2>2. \A g \in Groups : added[p][g] = Latest
    BY <2>1 DEF NothingAdded
  <2>3. pc[p] # "idle" /\ clean
    BY <1>4 DEF TrackImages
  <2> QED
    BY <1>4, <1>0, <2>2, <2>3 DEF TrackImages, Go, TypeOK, ReadNewest
<1>5. ASSUME NEW p \in Procs, TrackGit(p) PROVE ReadNewest'
  <2> DEFINE u == Head(urls[p])
             c == GitResolve(p, u.group)
             ref == IF u.ref = Latest THEN c[u.group] ELSE u.ref
  <2>1. u \in Urls
    BY <1>5, HeadTailProperties DEF TrackGit, TypeOK
  <2>2. u.group \in Groups
    BY <2>1 DEF Urls
  <2>3. c \in [Groups -> Refs]
    BY <2>2 DEF GitResolve, TypeOK, CloneInv
  <2> HIDE DEF u, c
  <2>4. ref # Latest
    BY <2>2, <2>3, TrackerAssumption
  <2>5. added' = [added EXCEPT ![p][u.group] = ref]
    BY <1>5 DEF TrackGit, u, c
  <2> HIDE DEF ref
  <2>6. \A q \in Procs, g \in Groups : added'[q][g] = Latest => added[q][g] = Latest
    BY <2>2, <2>4, <2>5 DEF TypeOK
  <2> QED
    BY <1>5, <1>0, <2>6 DEF TrackGit, TypeOK, ReadNewest
<1>6. ASSUME NEW p \in Procs, Filter(p) PROVE ReadNewest'
  BY <1>6, <1>0 DEF TypeOK, ReadNewest, Filter, Go, frame
<1>7. ASSUME NEW p \in Procs, Output(p) PROVE ReadNewest'
  BY <1>7, <1>0 DEF TypeOK, ReadNewest, Output, Go, Truncate, frame
<1>8. ASSUME NEW p \in Procs, FinishOutput(p) PROVE ReadNewest'
  <2>1. clean /\ newest' = Noted(p, cmd[p].output) /\ pc[p] # "idle"
    BY <1>8 DEF FinishOutput, Write
  <2>2. \A q \in Procs \ {p} : pc[q] = "idle"
    BY <1>0, <2>1 DEF Alone
  <2>3. CASE Replaces(p)
    <3>1. UNCHANGED <<cmd, data, added>> /\ \A q \in Procs \ {p} : pc'[q] = "idle"
      BY <1>8, <2>2, <2>3 DEF FinishOutput, AfterOutput, Continue, Go, TypeOK
    <3>2. \A g \in Groups : cmd[p].input = "main" /\ added[p][g] = Latest => newest'[g] = newest[g]
      BY <2>1 DEF Noted
    <3> QED
      BY <1>0, <2>1, <3>1, <3>2 DEF ReadNewest
  <2>4. CASE ~Replaces(p)
    <3>1. pc' = [pc EXCEPT ![p] = "idle"]
      BY <1>8, <2>4 DEF FinishOutput, AfterOutput, Go, End
    <3>2. \A q \in Procs : pc'[q] = "idle"
      BY <2>2, <3>1 DEF TypeOK
    <3> QED
      BY <3>2 DEF ReadNewest
  <2> QED
    BY <2>3, <2>4
<1>9. ASSUME NEW p \in Procs, Stdout(p) PROVE ReadNewest'
  <2>1. clean /\ pc[p] # "idle" /\ newest' = newest
    BY <1>9 DEF Stdout
  <2>2. CASE Replaces(p)
    <3>1. UNCHANGED <<cmd, data, added>> /\ pc' = [pc EXCEPT ![p] = "replace"]
      BY <1>9, <2>2 DEF Stdout, AfterOutput, Continue, Go
    <3> QED
      BY <1>0, <2>1, <3>1 DEF TypeOK, ReadNewest
  <2>3. CASE ~Replaces(p)
    <3>1. pc' = [pc EXCEPT ![p] = "idle"]
      BY <1>9, <2>3 DEF Stdout, AfterOutput, Go, End
    <3>2. \A q \in Procs : pc'[q] = "idle"
      BY <1>0, <2>1, <3>1 DEF Alone, TypeOK
    <3> QED
      BY <3>2 DEF ReadNewest
  <2> QED
    BY <2>2, <2>3
<1>10. ASSUME NEW p \in Procs, Replace(p) PROVE ReadNewest'
  BY <1>10, <1>0 DEF TypeOK, ReadNewest, Replace, Go, Truncate, frame
<1>11. ASSUME NEW p \in Procs, FinishReplace(p) PROVE ReadNewest'
  <2>1. clean /\ newest' = Noted(p, cmd[p].input) /\ pc[p] # "idle"
    BY <1>11 DEF FinishReplace, Write
  <2>2. \A q \in Procs \ {p} : pc[q] = "idle"
    BY <1>0, <2>1 DEF Alone
  <2>3. \A q \in Procs : pc'[q] = "idle"
    BY <1>11, <2>2 DEF FinishReplace, Go, End, TypeOK
  <2> QED
    BY <2>3 DEF ReadNewest
<1>12. ASSUME NEW p \in Procs, Fail(p) PROVE ReadNewest'
  BY <1>12, <1>0 DEF TypeOK, ReadNewest, Fail, Go, End, frame
<1>13. ASSUME NEW p \in Procs, Crash(p) PROVE ReadNewest'
  BY <1>13 DEF Crash
<1>14. ASSUME UNCHANGED vars PROVE ReadNewest'
  BY <1>14, <1>0 DEF TypeOK, ReadNewest, vars
<1> QED
  BY <1>1, <1>2, <1>3, <1>4, <1>5, <1>6, <1>7, <1>8, <1>9, <1>10, <1>11, <1>12, <1>13,
     <1>14 DEF Next, Step

\* What was tracked last in "main" is in effect there after a step.
LEMMA MainStep ==
  ASSUME IInv, [Next]_vars, OneGrace, clean'
  PROVE  NewestKept'
<1> USE DEF IInv
<1>0. clean => Alone /\ NewestKept /\ ReadNewest
  BY DEF NewestInv
<1>1. ASSUME Tick PROVE NewestKept'
  BY <1>1, <1>0 DEF TypeOK, NewestKept, Writing, Tick
<1>2. ASSUME NEW g \in Groups, NEW r \in Refs, Push(g, r) PROVE NewestKept'
  BY <1>2, <1>0 DEF TypeOK, NewestKept, Writing, Push
<1>3. ASSUME NEW p \in Procs, NEW c \in Commands, Start(p, c) PROVE NewestKept'
  <2>1. clean /\ UNCHANGED <<files, newest>> /\ pc[p] \notin {"outputting", "replacing"}
    BY <1>3 DEF Start
  <2>2. \A q \in Procs \ {p} : pc[q] = "idle"
    BY <1>3 DEF Start, Overlapping
  <2>3. \A g \in Groups : newest[g] # Latest =>
          files["main"][g] # << >> /\ files["main"][g][1].ref = newest[g]
    BY <2>1, <2>2, MainSettled
  <2> QED
    BY <2>1, <2>3 DEF NewestKept
<1>4. ASSUME NEW p \in Procs, TrackImages(p) PROVE NewestKept'
  <2>1. clean /\ UNCHANGED <<files, newest>> /\ pc[p] \notin {"idle", "outputting", "replacing"}
    BY <1>4 DEF TrackImages
  <2>2. \A q \in Procs \ {p} : pc[q] = "idle"
    BY <1>0, <2>1 DEF Alone
  <2>3. \A g \in Groups : newest[g] # Latest =>
          files["main"][g] # << >> /\ files["main"][g][1].ref = newest[g]
    BY <2>1, <2>2, MainSettled
  <2> QED
    BY <2>1, <2>3 DEF NewestKept
<1>5. ASSUME NEW p \in Procs, TrackGit(p) PROVE NewestKept'
  <2>1. clean /\ UNCHANGED <<files, newest>> /\ pc[p] \notin {"idle", "outputting", "replacing"}
    BY <1>5 DEF TrackGit
  <2>2. \A q \in Procs \ {p} : pc[q] = "idle"
    BY <1>0, <2>1 DEF Alone
  <2>3. \A g \in Groups : newest[g] # Latest =>
          files["main"][g] # << >> /\ files["main"][g][1].ref = newest[g]
    BY <2>1, <2>2, MainSettled
  <2> QED
    BY <2>1, <2>3 DEF NewestKept
<1>6. ASSUME NEW p \in Procs, Filter(p) PROVE NewestKept'
  <2>1. clean /\ UNCHANGED <<files, newest>> /\ pc[p] \notin {"idle", "outputting", "replacing"}
    BY <1>6 DEF Filter
  <2>2. \A q \in Procs \ {p} : pc[q] = "idle"
    BY <1>0, <2>1 DEF Alone
  <2>3. \A g \in Groups : newest[g] # Latest =>
          files["main"][g] # << >> /\ files["main"][g][1].ref = newest[g]
    BY <2>1, <2>2, MainSettled
  <2> QED
    BY <2>1, <2>3 DEF NewestKept
<1>7. ASSUME NEW p \in Procs, Output(p) PROVE NewestKept'
  <2>1. /\ clean /\ newest' = newest /\ pc[p] \notin {"idle", "outputting", "replacing"}
        /\ files' = [files EXCEPT ![cmd[p].output] = Empty] /\ pc'[p] = "outputting" /\ cmd' = cmd
    BY <1>7 DEF Output, Truncate, Go, TypeOK
  <2>2. \A q \in Procs \ {p} : pc[q] = "idle"
    BY <1>0, <2>1 DEF Alone
  <2>3. \A g \in Groups : newest[g] # Latest =>
          files["main"][g] # << >> /\ files["main"][g][1].ref = newest[g]
    BY <2>1, <2>2, MainSettled
  <2>4. CASE cmd[p].output = "main"
    <3>1. Writing("main")'
      BY <2>1, <2>4 DEF Writing
    <3> QED
      BY <3>1 DEF NewestKept
  <2>5. CASE cmd[p].output # "main"
    <3>1. files'["main"] = files["main"]
      BY <2>1, <2>5 DEF TypeOK
    <3> QED
      BY <2>1, <2>3, <3>1 DEF NewestKept
  <2> QED
    BY <2>4, <2>5
<1>8. ASSUME NEW p \in Procs, FinishOutput(p) PROVE NewestKept'
  <2>1. /\ clean /\ newest' = Noted(p, cmd[p].output) /\ pc[p] = "outputting"
        /\ files' = [files EXCEPT ![cmd[p].output] = t[p]]
    BY <1>8 DEF FinishOutput, Write
  <2>2. \A q \in Procs \ {p} : pc[q] = "idle"
    BY <1>0, <2>1 DEF Alone
  <2>3. CASE cmd[p].output = "main"
    <3>1. files'["main"] = t[p]
      BY <2>1, <2>3 DEF TypeOK
    <3>2. ASSUME NEW g \in Groups, newest'[g] # Latest
          PROVE  t[p][g] # << >> /\ t[p][g][1].ref = newest'[g]
      <4>1. InEffect(t[p][g], data[p][g], added[p][g])
        BY <2>1 DEF RunInv, RunOK
      <4>2. newest'[g] = IF added[p][g] # Latest THEN added[p][g]
                         ELSE IF cmd[p].input = "main" THEN newest[g] ELSE Latest
        BY <2>1, <2>3 DEF Noted
      <4>3. CASE added[p][g] # Latest
        BY <4>1, <4>2, <4>3 DEF InEffect
      <4>4. CASE added[p][g] = Latest
        <5>1. data[p][g] # << >> /\ data[p][g][1].ref = newest[g] /\ newest'[g] = newest[g]
          BY <1>0, <2>1, <3>2, <4>2, <4>4 DEF ReadNewest
        <5> QED
          BY <4>1, <4>4, <5>1 DEF InEffect
      <4> QED
        BY <4>3, <4>4
    <3> QED
      BY <3>1, <3>2 DEF NewestKept
  <2>4. CASE cmd[p].output # "main"
    <3>1. files'["main"] = files["main"] /\ newest' = newest
      BY <2>1, <2>4 DEF TypeOK, Noted
    <3>2. ~Writing("main")
      BY <2>1, <2>2, <2>4 DEF Writing
    <3> QED
      BY <1>0, <2>1, <3>1, <3>2 DEF NewestKept
  <2> QED
    BY <2>3, <2>4
<1>9. ASSUME NEW p \in Procs, Stdout(p) PROVE NewestKept'
  <2>1. clean /\ UNCHANGED <<files, newest>> /\ pc[p] \notin {"idle", "outputting", "replacing"}
    BY <1>9 DEF Stdout
  <2>2. \A q \in Procs \ {p} : pc[q] = "idle"
    BY <1>0, <2>1 DEF Alone
  <2>3. \A g \in Groups : newest[g] # Latest =>
          files["main"][g] # << >> /\ files["main"][g][1].ref = newest[g]
    BY <2>1, <2>2, MainSettled
  <2> QED
    BY <2>1, <2>3 DEF NewestKept
<1>10. ASSUME NEW p \in Procs, Replace(p) PROVE NewestKept'
  <2>1. /\ clean /\ newest' = newest /\ pc[p] \notin {"idle", "outputting", "replacing"}
        /\ files' = [files EXCEPT ![cmd[p].input] = Empty] /\ pc'[p] = "replacing" /\ cmd' = cmd
    BY <1>10 DEF Replace, Truncate, Go, TypeOK
  <2>2. \A q \in Procs \ {p} : pc[q] = "idle"
    BY <1>0, <2>1 DEF Alone
  <2>3. \A g \in Groups : newest[g] # Latest =>
          files["main"][g] # << >> /\ files["main"][g][1].ref = newest[g]
    BY <2>1, <2>2, MainSettled
  <2>4. CASE cmd[p].input = "main"
    <3>1. Writing("main")'
      BY <2>1, <2>4 DEF Writing
    <3> QED
      BY <3>1 DEF NewestKept
  <2>5. CASE cmd[p].input # "main"
    <3>1. files'["main"] = files["main"]
      BY <2>1, <2>5 DEF TypeOK
    <3> QED
      BY <2>1, <2>3, <3>1 DEF NewestKept
  <2> QED
    BY <2>4, <2>5
<1>11. ASSUME NEW p \in Procs, FinishReplace(p) PROVE NewestKept'
  <2>1. /\ clean /\ newest' = Noted(p, cmd[p].input) /\ pc[p] = "replacing"
        /\ files' = [files EXCEPT ![cmd[p].input] = t[p]]
    BY <1>11 DEF FinishReplace, Write
  <2>2. \A q \in Procs \ {p} : pc[q] = "idle"
    BY <1>0, <2>1 DEF Alone
  <2>3. CASE cmd[p].input = "main"
    <3>1. files'["main"] = t[p]
      BY <2>1, <2>3 DEF TypeOK
    <3>2. ASSUME NEW g \in Groups, newest'[g] # Latest
          PROVE  t[p][g] # << >> /\ t[p][g][1].ref = newest'[g]
      <4>1. InEffect(t[p][g], data[p][g], added[p][g])
        BY <2>1 DEF RunInv, RunOK
      <4>2. newest'[g] = IF added[p][g] # Latest THEN added[p][g]
                         ELSE IF cmd[p].input = "main" THEN newest[g] ELSE Latest
        BY <2>1, <2>3 DEF Noted
      <4>3. CASE added[p][g] # Latest
        BY <4>1, <4>2, <4>3 DEF InEffect
      <4>4. CASE added[p][g] = Latest
        <5>1. data[p][g] # << >> /\ data[p][g][1].ref = newest[g] /\ newest'[g] = newest[g]
          BY <1>0, <2>1, <3>2, <4>2, <4>4 DEF ReadNewest
        <5> QED
          BY <4>1, <4>4, <5>1 DEF InEffect
      <4> QED
        BY <4>3, <4>4
    <3> QED
      BY <3>1, <3>2 DEF NewestKept
  <2>4. CASE cmd[p].input # "main"
    <3>1. files'["main"] = files["main"] /\ newest' = newest
      BY <2>1, <2>4 DEF TypeOK, Noted
    <3>2. ~Writing("main")
      BY <2>1, <2>2, <2>4 DEF Writing
    <3> QED
      BY <1>0, <2>1, <3>1, <3>2 DEF NewestKept
  <2> QED
    BY <2>3, <2>4
<1>12. ASSUME NEW p \in Procs, Fail(p) PROVE NewestKept'
  <2>1. clean /\ UNCHANGED <<files, newest>> /\ pc[p] \notin {"idle", "outputting", "replacing"}
    BY <1>12 DEF Fail
  <2>2. \A q \in Procs \ {p} : pc[q] = "idle"
    BY <1>0, <2>1 DEF Alone
  <2>3. \A g \in Groups : newest[g] # Latest =>
          files["main"][g] # << >> /\ files["main"][g][1].ref = newest[g]
    BY <2>1, <2>2, MainSettled
  <2> QED
    BY <2>1, <2>3 DEF NewestKept
<1>13. ASSUME NEW p \in Procs, Crash(p) PROVE NewestKept'
  BY <1>13 DEF Crash
<1>14. ASSUME UNCHANGED vars PROVE NewestKept'
  BY <1>14, <1>0 DEF TypeOK, NewestKept, Writing, vars
<1> QED
  BY <1>1, <1>2, <1>3, <1>4, <1>5, <1>6, <1>7, <1>8, <1>9, <1>10, <1>11, <1>12, <1>13,
     <1>14 DEF Next, Step

\* Without overlaps and crashes, a step keeps what was tracked last.
LEMMA NewestStep ==
  ASSUME IInv, [Next]_vars
  PROVE  NewestInv'
<1>1. ASSUME OneGrace, clean' PROVE Alone' /\ NewestKept' /\ ReadNewest'
  BY <1>1, AloneStep, MainStep, ReadStep
<1>2. OneGrace' <=> OneGrace
  BY DEF OneGrace
<1> QED
  BY <1>1, <1>2 DEF NewestInv

\* What a run has resolved agrees with its clones, which were heads: a run without clones,
\* and one whose clones were so before.
LEMMA NoClonesFacts ==
  ASSUME NEW q \in Procs, clones'[q] = NoClones, resolved'[q] = Unresolved
  PROVE  /\ \A r \in DOMAIN clones'[q] : clones'[q][r] \in past'
         /\ \A g \in DOMAIN resolved'[q] :
              RepoOf[g] \in DOMAIN clones'[q] /\ resolved'[q][g] = clones'[q][RepoOf[g]][g]
BY DEF NoClones, Unresolved

LEMMA SameClones ==
  ASSUME CloneInv, NEW q \in Procs, clones'[q] = clones[q], resolved'[q] = resolved[q], past \subseteq past'
  PROVE  /\ \A r \in DOMAIN clones'[q] : clones'[q][r] \in past'
         /\ \A g \in DOMAIN resolved'[q] :
              RepoOf[g] \in DOMAIN clones'[q] /\ resolved'[q][g] = clones'[q][RepoOf[g]][g]
BY DEF CloneInv

\* A clone stays what it was when the run made it, and what is resolved comes from it.
LEMMA CloneStep ==
  ASSUME IInv, [Next]_vars
  PROVE  CloneInv'
<1> USE DEF IInv
<1>1. ASSUME Tick PROVE CloneInv'
  BY <1>1 DEF CloneInv, Tick
<1>2. ASSUME NEW g \in Groups, NEW r \in Refs, Push(g, r) PROVE CloneInv'
  BY <1>2 DEF CloneInv, Push
<1>3. ASSUME NEW p \in Procs, NEW c \in Commands, Start(p, c) PROVE CloneInv'
  BY <1>3 DEF CloneInv, Start, Go, frame
<1>4. ASSUME NEW p \in Procs, TrackImages(p) PROVE CloneInv'
  BY <1>4 DEF CloneInv, TrackImages, Go, frame
<1>5. ASSUME NEW p \in Procs, TrackGit(p) PROVE CloneInv'
  <2> DEFINE u == Head(urls[p])
             c == GitResolve(p, u.group)
             old == clones[p]
             got == resolved[p]
  <2>1. past' = past /\ c \in past
    BY <1>5 DEF TrackGit, frame, GitResolve, CloneInv, TypeOK
  <2>2. c = IF RepoOf[u.group] \in DOMAIN old THEN old[RepoOf[u.group]] ELSE head
    BY DEF GitResolve
  <2> HIDE DEF c
  <2>3. CASE u.ref # Latest
    <3>1. clones' = clones /\ resolved' = resolved
      BY <1>5, <2>3 DEF TrackGit
    <3> QED
      BY <2>1, <3>1, SameClones DEF CloneInv
  <2>4. CASE u.ref = Latest
    <3> DEFINE cl == [r \in DOMAIN old \cup {RepoOf[u.group]} |-> IF r \in DOMAIN old THEN old[r] ELSE c]
               re == [g \in DOMAIN got \cup {u.group} |-> IF g = u.group THEN c[g] ELSE got[g]]
    <3>1. clones' = [clones EXCEPT ![p] = cl] /\ resolved' = [resolved EXCEPT ![p] = re]
      BY <1>5, <2>4 DEF TrackGit, c
    <3>2. /\ \A r \in DOMAIN old : old[r] \in past
          /\ \A g \in DOMAIN got : RepoOf[g] \in DOMAIN old /\ got[g] = old[RepoOf[g]][g]
      BY DEF CloneInv
    <3> HIDE DEF old, got, u
    <3>3. /\ DOMAIN cl = DOMAIN old \cup {RepoOf[u.group]} /\ DOMAIN re = DOMAIN got \cup {u.group}
          /\ \A r \in DOMAIN cl : cl[r] = IF r \in DOMAIN old THEN old[r] ELSE c
          /\ \A g \in DOMAIN re : re[g] = IF g = u.group THEN c[g] ELSE got[g]
      OBVIOUS
    <3> HIDE DEF cl, re
    <3>4. \A r \in DOMAIN cl : cl[r] \in past
      BY <2>1, <3>2, <3>3
    <3>5. cl[RepoOf[u.group]] = c
      BY <2>2, <3>3
    <3>6. ASSUME NEW g \in DOMAIN re PROVE RepoOf[g] \in DOMAIN cl /\ re[g] = cl[RepoOf[g]][g]
      <4>1. CASE g = u.group
        BY <3>3, <3>5, <4>1
      <4>2. CASE g # u.group
        BY <3>2, <3>3, <4>2
      <4> QED
        BY <4>1, <4>2
    <3>7. ASSUME NEW q \in Procs
          PROVE  IF q = p THEN clones'[q] = cl /\ resolved'[q] = re
                 ELSE clones'[q] = clones[q] /\ resolved'[q] = resolved[q]
      BY <3>1 DEF TypeOK
    <3>8. ASSUME NEW q \in Procs
          PROVE  /\ \A r \in DOMAIN clones'[q] : clones'[q][r] \in past'
                 /\ \A g \in DOMAIN resolved'[q] :
                      RepoOf[g] \in DOMAIN clones'[q] /\ resolved'[q][g] = clones'[q][RepoOf[g]][g]
      <4>1. CASE q = p
        BY <2>1, <3>4, <3>6, <3>7, <4>1
      <4>2. CASE q # p
        BY <2>1, <3>7, <4>2, SameClones
      <4> QED
        BY <4>1, <4>2
    <3> QED
      BY <3>8 DEF CloneInv
  <2> QED
    BY <2>3, <2>4
<1>6. ASSUME NEW p \in Procs, Filter(p) PROVE CloneInv'
  BY <1>6 DEF CloneInv, Filter, Go, frame
<1>7. ASSUME NEW p \in Procs, Output(p) PROVE CloneInv'
  BY <1>7 DEF CloneInv, Output, Go, Truncate, frame
<1>8. ASSUME NEW p \in Procs, FinishOutput(p) PROVE CloneInv'
  <2>1. /\ past' = past
        /\ \/ clones' = clones /\ resolved' = resolved
           \/ /\ clones' = [clones EXCEPT ![p] = NoClones]
              /\ resolved' = [resolved EXCEPT ![p] = Unresolved]
    BY <1>8 DEF FinishOutput, Write, AfterOutput, Continue, End, frame
  <2>2. ASSUME NEW q \in Procs
        PROVE  \/ clones'[q] = clones[q] /\ resolved'[q] = resolved[q]
               \/ clones'[q] = NoClones /\ resolved'[q] = Unresolved
    BY <2>1 DEF TypeOK
  <2> QED
    BY <2>1, <2>2, NoClonesFacts, SameClones DEF CloneInv
<1>9. ASSUME NEW p \in Procs, Stdout(p) PROVE CloneInv'
  <2>1. /\ past' = past
        /\ \/ clones' = clones /\ resolved' = resolved
           \/ /\ clones' = [clones EXCEPT ![p] = NoClones]
              /\ resolved' = [resolved EXCEPT ![p] = Unresolved]
    BY <1>9 DEF Stdout, AfterOutput, Continue, End, frame
  <2>2. ASSUME NEW q \in Procs
        PROVE  \/ clones'[q] = clones[q] /\ resolved'[q] = resolved[q]
               \/ clones'[q] = NoClones /\ resolved'[q] = Unresolved
    BY <2>1 DEF TypeOK
  <2> QED
    BY <2>1, <2>2, NoClonesFacts, SameClones DEF CloneInv
<1>10. ASSUME NEW p \in Procs, Replace(p) PROVE CloneInv'
  BY <1>10 DEF CloneInv, Replace, Go, Truncate, frame
<1>11. ASSUME NEW p \in Procs, FinishReplace(p) PROVE CloneInv'
  <2>1. /\ past' = past
        /\ \/ clones' = clones /\ resolved' = resolved
           \/ /\ clones' = [clones EXCEPT ![p] = NoClones]
              /\ resolved' = [resolved EXCEPT ![p] = Unresolved]
    BY <1>11 DEF FinishReplace, Write, End, frame
  <2>2. ASSUME NEW q \in Procs
        PROVE  \/ clones'[q] = clones[q] /\ resolved'[q] = resolved[q]
               \/ clones'[q] = NoClones /\ resolved'[q] = Unresolved
    BY <2>1 DEF TypeOK
  <2> QED
    BY <2>1, <2>2, NoClonesFacts, SameClones DEF CloneInv
<1>12. ASSUME NEW p \in Procs, Fail(p) PROVE CloneInv'
  <2>1. /\ past' = past
        /\ \/ clones' = clones /\ resolved' = resolved
           \/ /\ clones' = [clones EXCEPT ![p] = NoClones]
              /\ resolved' = [resolved EXCEPT ![p] = Unresolved]
    BY <1>12 DEF Fail, End, frame
  <2>2. ASSUME NEW q \in Procs
        PROVE  \/ clones'[q] = clones[q] /\ resolved'[q] = resolved[q]
               \/ clones'[q] = NoClones /\ resolved'[q] = Unresolved
    BY <2>1 DEF TypeOK
  <2> QED
    BY <2>1, <2>2, NoClonesFacts, SameClones DEF CloneInv
<1>13. ASSUME NEW p \in Procs, Crash(p) PROVE CloneInv'
  <2>1. /\ past' = past
        /\ \/ clones' = clones /\ resolved' = resolved
           \/ /\ clones' = [clones EXCEPT ![p] = NoClones]
              /\ resolved' = [resolved EXCEPT ![p] = Unresolved]
    BY <1>13 DEF Crash, End, frame
  <2>2. ASSUME NEW q \in Procs
        PROVE  \/ clones'[q] = clones[q] /\ resolved'[q] = resolved[q]
               \/ clones'[q] = NoClones /\ resolved'[q] = Unresolved
    BY <2>1 DEF TypeOK
  <2> QED
    BY <2>1, <2>2, NoClonesFacts, SameClones DEF CloneInv
<1>14. ASSUME UNCHANGED vars PROVE CloneInv'
  BY <1>14 DEF CloneInv, vars
<1> QED
  BY <1>1, <1>2, <1>3, <1>4, <1>5, <1>6, <1>7, <1>8, <1>9, <1>10, <1>11, <1>12, <1>13,
     <1>14 DEF Next, Step

LEMMA InitInv ==
  ASSUME Init
  PROVE  IInv
<1>1. NoCommand \in Commands
  BY CommandAssumption DEF NoCommand
<1>2. Empty \in Trackers /\ \A g \in Groups : Empty[g] = << >>
  BY DEF Empty, Trackers
<1>3. (CHOOSE r \in Refs : r \notin Taskless) \in Refs
  BY TrackerAssumption
<1>4. TypeOK
  <2>1. head \in [Groups -> Refs] /\ past = {head}
    BY <1>3 DEF Init
  <2>2. 0 \in 0..MaxTime /\ 0 \in 0..MaxRuns /\ 0 \in 0..MaxPushes
    BY TrackerAssumption
  <2>3. NothingAdded \in [Groups -> Refs \cup Taskless \cup {Latest}]
    BY DEF NothingAdded
  <2>4. DOMAIN Unresolved \subseteq Groups
    BY DEF Unresolved
  <2>5. << >> \in Seq(Urls)
    OBVIOUS
  <2> QED
    BY <1>1, <1>2, <2>1, <2>2, <2>3, <2>4, <2>5 DEF Init, TypeOK
<1>5. \A g \in Groups : Sound(Empty[g], Today)
  BY <1>2, EmptyFacts
<1>6. FilesInv
  BY <1>5 DEF Init, FilesInv
<1>7. RunInv
  BY DEF Init, RunInv, RunOK
<1>8. NewestInv
  BY DEF Init, NewestInv, Alone, NewestKept, ReadNewest, NothingAdded
<1>9. CloneInv
  BY DEF Init, CloneInv, NoClones, Unresolved
<1> QED
  BY <1>4, <1>6, <1>7, <1>8, <1>9 DEF IInv

-----------------------------------------------------------------------------
(* Theorems *)

\* In every reachable state the types are right, tracking files and what runs have read are
\* dated and ordered, each run holds what its step allows, and clones are heads.
THEOREM Invariance == Spec => []IInv
<1>1. Init => IInv
  BY InitInv
<1>2. IInv /\ [Next]_vars => IInv'
  BY TypeStep, FilesStep, RunStep, NewestStep, CloneStep DEF IInv
<1> QED
  BY <1>1, <1>2, PTL DEF Spec

\* tracker.go, setExpiration: in every tracking file the first record of a group has no
\* date and every other has one; with one --in-effect-days, no reference comes twice in a row.
THEOREM InEffectIsFirst == Spec => []InEffectFirst
<1>1. IInv => InEffectFirst
  <2> SUFFICES ASSUME IInv, NEW f \in DOMAIN files, NEW g \in Groups, NEW i \in DOMAIN files[f][g]
               PROVE  /\ (files[f][g][i].exp = Never) <=> i = 1
                      /\ OneGrace /\ i > 1 => files[f][g][i].ref # files[f][g][i - 1].ref
    BY DEF InEffectFirst
  <2>1. Sound(files[f][g], Today)
    BY DEF IInv, FilesInv
  <2> QED
    BY <2>1 DEF Sound, Dated, Ordered
<1> QED
  BY <1>1, Invariance, PTL

\* track_bundle.go: with one --in-effect-days and while runs neither overlap nor crash, what
\* was tracked last in "main" is in effect there.
THEOREM NewestIsKept == Spec => []NewestKept
<1>1. IInv => NewestKept
  BY DEF IInv, NewestInv, NewestKept
<1> QED
  BY <1>1, Invariance, PTL

\* git.go, GitResolve: what a run finds for the paths of one repository was its head at one
\* moment.
THEOREM ClonesAreOne == Spec => []OneClone
<1>1. IInv => OneClone
  <2> SUFFICES ASSUME IInv, NEW p \in Procs, NEW r
               PROVE  \E h \in past : \A g \in DOMAIN resolved[p] : RepoOf[g] = r => resolved[p][g] = h[g]
    BY DEF OneClone
  <2>1. /\ \A s \in DOMAIN clones[p] : clones[p][s] \in past
        /\ \A g \in DOMAIN resolved[p] :
             RepoOf[g] \in DOMAIN clones[p] /\ resolved[p][g] = clones[p][RepoOf[g]][g]
    BY DEF IInv, CloneInv
  <2>2. CASE r \in DOMAIN clones[p]
    <3>1. \A g \in DOMAIN resolved[p] : RepoOf[g] = r => resolved[p][g] = clones[p][r][g]
      BY <2>1
    <3> QED
      BY <2>1, <2>2, <3>1
  <2>3. CASE r \notin DOMAIN clones[p]
    BY <2>1, <2>3 DEF IInv, TypeOK
  <2> QED
    BY <2>2, <2>3
<1> QED
  BY <1>1, Invariance, PTL

\* tracker.go, Track: with one --in-effect-days, what a run makes of the records that it has
\* read keeps the current ones, gives the superseded one its days and moves no date.
THEOREM HistoryIsKept == Spec => HistoryKept
<1> DEFINE Keeps == OneGrace => \A p \in Procs : Filter(p) => KeepsCurrent(p) /\ GraceGiven(p) /\ DatesFixed(p)
<1>1. IInv /\ [Next]_vars => Keeps
  <2> SUFFICES ASSUME IInv, OneGrace, NEW p \in Procs, Filter(p)
               PROVE  KeepsCurrent(p) /\ GraceGiven(p) /\ DatesFixed(p)
    OBVIOUS
  <2>1. /\ pc[p] = "gits"
        /\ \A g \in Groups : t'[p][g] = Result(t[p][g], cmd[p].prune, cmd[p].days)
    BY DEF Filter, IInv, TypeOK, Result
  <2>2. now \in Nat /\ cmd[p] \in Commands
    BY DEF IInv, TypeOK
  <2>3. ASSUME NEW g \in Groups
        PROVE  /\ t[p][g] \in Seq(Records) /\ data[p][g] \in Seq(Records)
               /\ Extends(t[p][g], data[p][g]) /\ Sound(data[p][g], Today)
    BY <2>1 DEF IInv, TypeOK, Trackers, RunInv, RunOK, FilesInv
  <2>4. ASSUME NEW g \in Groups
        PROVE  /\ \A i \in DOMAIN data[p][g] : Current(data[p][g][i]) => data[p][g][i].ref \in RefsOf(t'[p][g])
               /\ data[p][g] # << >> /\ t'[p][g] # << >> /\ t'[p][g][1].ref # data[p][g][1].ref =>
                    \E i \in DOMAIN t'[p][g] :
                      t'[p][g][i].ref = data[p][g][1].ref /\ t'[p][g][i].exp >= Expiry(cmd[p].days)
               /\ \A i \in DOMAIN t'[p][g] : i > 1 =>
                    \/ t'[p][g][i] \in Range(data[p][g])
                    \/ /\ t'[p][g][i].exp = Expiry(cmd[p].days)
                       /\ \E j \in DOMAIN t[p][g] :
                            j <= Len(t[p][g]) - Len(data[p][g]) + 1 /\ t'[p][g][i].ref = t[p][g][j].ref
    <3> DEFINE rs == t[p][g]
               ds == data[p][g]
               c == cmd[p]
               r == t'[p][g]
    <3>1. /\ r = Result(rs, c.prune, c.days) /\ c \in Commands /\ rs \in Seq(Records)
          /\ ds \in Seq(Records) /\ Extends(rs, ds) /\ Sound(ds, Today)
      BY <2>1, <2>2, <2>3
    <3> HIDE DEF rs, ds, c, r
    <3>2. /\ \A i \in DOMAIN ds : Current(ds[i]) => ds[i].ref \in RefsOf(r)
          /\ ds # << >> /\ r # << >> /\ r[1].ref # ds[1].ref =>
               \E i \in DOMAIN r : r[i].ref = ds[1].ref /\ r[i].exp >= Expiry(c.days)
          /\ \A i \in DOMAIN r : i > 1 =>
               \/ r[i] \in Range(ds)
               \/ /\ r[i].exp = Expiry(c.days)
                  /\ \E j \in DOMAIN rs : j <= Len(rs) - Len(ds) + 1 /\ r[i].ref = rs[j].ref
      BY <2>2, <3>1, ResultKeeps
    <3> QED
      BY <3>2 DEF rs, ds, c, r
  <2> QED
    BY <2>4 DEF KeepsCurrent, GraceGiven, DatesFixed
<1>2. IInv /\ [Next]_vars => [Keeps]_vars
  BY <1>1
<1> QED
  BY <1>2, Invariance, PTL DEF Spec, HistoryKept
===============================================================================
