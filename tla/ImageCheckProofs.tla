--------------------------- MODULE ImageCheckProofs ---------------------------
(***************************************************************************)
(* Proofs about ValidateImage for one component and about the sigstore     *)
(* builtins (module ImageCheck), for every registry, policy and sequence   *)
(* of calls.                                                               *)
(***************************************************************************)
EXTENDS ImageCheck, FiniteSetTheorems, SequenceTheorems, TLAPS

-----------------------------------------------------------------------------
(* Sequences *)

\* A set of numbers has a least element.
LEMMA LeastNumber ==
  ASSUME NEW T, T \subseteq Nat, T # {}
  PROVE  Min(T) \in T /\ \A n \in T : Min(T) <= n
<1> DEFINE Below == {1..m : m \in T}
<1>1. Below \subseteq FiniteSubsetsOf(Nat)
  <2>1. ASSUME NEW m \in T PROVE 1..m \in FiniteSubsetsOf(Nat)
    BY FS_Interval DEF FiniteSubsetsOf
  <2> QED
    BY <2>1
<1>2. Below # {}
  OBVIOUS
<1>3. PICK x \in Below : \A y \in Below : ~(<<y, x>> \in StrictSubsetOrdering(Nat))
  <2>1. IsWellFoundedOn(StrictSubsetOrdering(Nat), FiniteSubsetsOf(Nat))
    BY FS_StrictSubsetOrderingWellFounded
  <2> HIDE DEF Below
  <2> QED
    BY <1>1, <1>2, <2>1, WFMin
<1>4. PICK m \in T : x = 1..m
  BY <1>3
<1>5. ASSUME NEW n \in T, n < m PROVE FALSE
  <2>1. 1..n \subseteq 1..m /\ m \notin 1..n /\ m \in 1..m
    BY <1>5
  <2>2. <<1..n, 1..m>> \in StrictSubsetOrdering(Nat)
    BY <2>1 DEF StrictSubsetOrdering
  <2> QED
    BY <1>3, <1>4, <2>2
<1>6. \E k \in T : \A n \in T : k <= n
  BY <1>4, <1>5
<1> QED
  BY <1>6 DEF Min

LEMMA Intervals ==
  ASSUME NEW n \in Nat
  PROVE  IsFiniteSet(1..n) /\ Cardinality(1..n) = n
<1>1. 1 \in Int /\ n \in Int
  OBVIOUS
<1>2. IsFiniteSet(1..n) /\ Cardinality(1..n) = IF 1 > n THEN 0 ELSE n - 1 + 1
  BY <1>1, FS_Interval
<1>3. (IF 1 > n THEN 0 ELSE n - 1 + 1) = n
  OBVIOUS
<1> QED
  BY <1>2, <1>3

LEMMA SequenceFacts ==
  ASSUME NEW s, IsSequence(s)
  PROVE  /\ Len(s) \in Nat /\ DOMAIN s = 1..Len(s) /\ IsFiniteSet(DOMAIN s)
         /\ Cardinality(DOMAIN s) = Len(s)
         /\ s = [i \in 1..Len(s) |-> s[i]]
         /\ s = <<>> <=> Len(s) = 0
<1>1. Len(s) \in Nat /\ DOMAIN s = 1..Len(s) /\ s = [i \in 1..Len(s) |-> s[i]]
  BY DEF IsSequence
<1>2. IsFiniteSet(1..Len(s)) /\ Cardinality(1..Len(s)) = Len(s)
  BY <1>1, Intervals
<1>3. s = <<>> <=> Len(s) = 0
  BY DEF IsSequence
<1> QED
  BY <1>1, <1>2, <1>3

\* A function on 1..n is a sequence.
LEMMA FunctionIsSequence ==
  ASSUME NEW n \in Nat, NEW f, f = [i \in 1..n |-> f[i]]
  PROVE  IsSequence(f) /\ Len(f) = n
<1>1. DOMAIN f = 1..n
  OBVIOUS
<1>2. f \in [1..n -> ToSet(f)]
  BY <1>1 DEF ToSet
<1>3. f \in Seq(ToSet(f)) /\ Len(f) = n
  BY <1>2, IsASeq, LenProperties
<1> QED
  BY <1>3 DEF IsSequence

Rank(I, i) == Cardinality({j \in I : j <= i})

\* The rank of a position counts the positions up to it: each number up to the size of a
\* set of positions is the rank of exactly one of them.
LEMMA Ranks ==
  ASSUME NEW n \in Nat, NEW I \in SUBSET (1..n)
  PROVE  /\ IsFiniteSet(I) /\ Cardinality(I) \in Nat
         /\ \A i \in I : Rank(I, i) \in 1..Cardinality(I)
         /\ \A i, j \in I : Rank(I, i) = Rank(I, j) => i = j
         /\ \A k \in 1..Cardinality(I) : \E i \in I : Rank(I, i) = k
<1>1. IsFiniteSet(I) /\ Cardinality(I) \in Nat
  BY Intervals, FS_Subset, FS_CardinalityType
<1>2. ASSUME NEW i \in I PROVE Rank(I, i) \in 1..Cardinality(I)
  <2> DEFINE J == {j \in I : j <= i}
  <2>1. IsFiniteSet(J) /\ Cardinality(J) <= Cardinality(I) /\ Cardinality(J) \in Nat
    BY <1>1, FS_Subset, FS_CardinalityType
  <2>2. i \in J
    OBVIOUS
  <2>3. Cardinality(J) # 0
    BY <2>1, <2>2, FS_EmptySet
  <2> QED
    BY <1>1, <2>1, <2>3 DEF Rank
<1>3. ASSUME NEW i \in I, NEW j \in I, i < j PROVE Rank(I, i) # Rank(I, j)
  <2> DEFINE A == {k \in I : k <= i}
             B == {k \in I : k <= j}
  <2>0. \A k \in I : k \in Int
    OBVIOUS
  <2>1. A \in SUBSET B /\ j \in B /\ j \notin A
    <3>1. \A k \in A : k \in B
      BY <1>3, <2>0
    <3>2. j \in B /\ j \notin A
      BY <1>3, <2>0
    <3> QED
      BY <3>1, <3>2
  <2>2. IsFiniteSet(B)
    BY <1>1, FS_Subset
  <2> HIDE DEF A, B
  <2>3. Cardinality(B) # Cardinality(A)
    BY <2>1, <2>2, FS_Subset
  <2> QED
    BY <2>3 DEF Rank, A, B
<1>4. ASSUME NEW i \in I, NEW j \in I, Rank(I, i) = Rank(I, j) PROVE i = j
  <2>1. i \in Int /\ j \in Int
    OBVIOUS
  <2> QED
    BY <1>3, <1>4, <2>1
<1>5. ASSUME NEW k \in 1..Cardinality(I) PROVE \E i \in I : Rank(I, i) = k
  <2> DEFINE f == [i \in I |-> Rank(I, i)]
             T == 1..Cardinality(I)
  <2>1. f \in Injection(I, T)
    <3>1. f \in [I -> T]
      BY <1>2
    <3>2. \A i, j \in I : f[i] = f[j] => i = j
      BY <1>4
    <3> HIDE DEF f, T
    <3> QED
      BY <3>1, <3>2 DEF Injection, IsInjective
  <2>2. IsFiniteSet(T) /\ Cardinality(T) = Cardinality(I)
    BY <1>1, Intervals
  <2>3. f \in Surjection(I, T)
    <3> HIDE DEF f, T
    <3> QED
      BY <2>1, <2>2, FS_Injection
  <2>4. \E i \in I : f[i] = k
    BY <2>3 DEF Surjection
  <2> QED
    BY <2>4
<1> QED
  BY <1>1, <1>2, <1>4, <1>5

\* What Kept keeps: the elements at the positions, and all of them.
LEMMA KeptFacts ==
  ASSUME NEW s, IsSequence(s), NEW I \in SUBSET DOMAIN s
  PROVE  /\ IsSequence(Kept(s, I)) /\ Len(Kept(s, I)) = Cardinality(I) /\ Cardinality(I) \in Nat
         /\ \A k \in DOMAIN Kept(s, I) : \E i \in I : Kept(s, I)[k] = s[i]
         /\ \A i \in I : \E k \in DOMAIN Kept(s, I) : Kept(s, I)[k] = s[i]
         /\ Len(Kept(s, I)) = Len(s) => I = DOMAIN s
         /\ I = DOMAIN s => Kept(s, I) = s
<1> DEFINE c == Cardinality(I)
           f == Kept(s, I)
           At(k) == CHOOSE i \in I : Rank(I, i) = k
<1>1. Len(s) \in Nat /\ DOMAIN s = 1..Len(s) /\ IsFiniteSet(DOMAIN s) /\ Cardinality(DOMAIN s) = Len(s)
  BY SequenceFacts
<1>2. /\ IsFiniteSet(I) /\ c \in Nat
      /\ \A i \in I : Rank(I, i) \in 1..c
      /\ \A i, j \in I : Rank(I, i) = Rank(I, j) => i = j
      /\ \A k \in 1..c : \E i \in I : Rank(I, i) = k
  BY <1>1, Ranks
<1>3. f = [k \in 1..c |-> s[At(k)]]
  BY DEF Kept, Rank
<1>4. ASSUME NEW k \in 1..c PROVE At(k) \in I /\ Rank(I, At(k)) = k
  BY <1>2
<1> HIDE DEF c, f, At
<1>5. f = [k \in 1..c |-> f[k]] /\ DOMAIN f = 1..c
  BY <1>3
<1>6. IsSequence(f) /\ Len(f) = c
  BY <1>2, <1>5, FunctionIsSequence
<1>7. \A k \in DOMAIN f : \E i \in I : f[k] = s[i]
  BY <1>3, <1>4, <1>5
<1>8. ASSUME NEW i \in I PROVE \E k \in DOMAIN f : f[k] = s[i]
  <2>1. Rank(I, i) \in 1..c /\ At(Rank(I, i)) = i
    BY <1>2, <1>4
  <2> QED
    BY <1>3, <1>5, <2>1
<1>9. ASSUME c = Len(s) PROVE I = DOMAIN s
  BY <1>1, <1>9, FS_Subset DEF c
<1>10. ASSUME I = DOMAIN s PROVE f = s
  <2>1. c = Len(s)
    BY <1>1, <1>10 DEF c
  <2>2. ASSUME NEW k \in 1..c PROVE At(k) = k
    <3>1. k \in I
      BY <1>1, <1>10, <2>1
    <3>2. {j \in I : j <= k} = 1..k
      BY <1>1, <1>10, <2>1
    <3>3. Rank(I, k) = k
      <4>1. k \in Nat
        BY <1>2
      <4> QED
        BY <3>2, <4>1, Intervals DEF Rank
    <3> QED
      BY <1>2, <1>4, <3>1, <3>3
  <2>3. s = [k \in 1..Len(s) |-> s[k]]
    BY SequenceFacts
  <2> QED
    BY <1>3, <2>1, <2>2, <2>3
<1> QED
  BY <1>2, <1>6, <1>7, <1>8, <1>9, <1>10 DEF c, f

\* What stands before the first bad position: none of it is bad, and it is everything
\* exactly if there is no bad position.
LEMMA BeforeFacts ==
  ASSUME NEW s, IsSequence(s), NEW bad \in SUBSET DOMAIN s
  PROVE  /\ IsSequence(Before(s, bad)) /\ Len(Before(s, bad)) \in 0..Len(s)
         /\ \A i \in DOMAIN Before(s, bad) : i \in DOMAIN s /\ Before(s, bad)[i] = s[i] /\ i \notin bad
         /\ Before(s, bad) = s <=> bad = {}
         /\ Len(Before(s, bad)) = Len(s) <=> bad = {}
<1>1. Len(s) \in Nat /\ DOMAIN s = 1..Len(s) /\ s \in Seq(ToSet(s))
  BY SequenceFacts DEF IsSequence
<1>2. CASE bad = {}
  BY <1>1, <1>2 DEF Before
<1>3. CASE bad # {}
  <2> DEFINE m == Min(bad)
             t == SubSeq(s, 1, m - 1)
  <2>1. m \in bad /\ \A n \in bad : m <= n
    BY <1>1, <1>3, LeastNumber
  <2> HIDE DEF m
  <2>2. m \in 1..Len(s)
    BY <1>1, <2>1
  <2>3. \A i \in 1..(m - 1) : s[i] \in ToSet(s)
    BY <1>1, <2>2 DEF ToSet
  <2>4. /\ t \in Seq(ToSet(s))
        /\ Len(t) = IF 1 <= m - 1 THEN m - 1 ELSE 0
        /\ \A i \in 1..(m - 1) : t[i] = s[i]
    <3>1. m - 1 \in Int /\ 1 \in Int
      BY <2>2
    <3>2. /\ t \in Seq(ToSet(s))
          /\ Len(t) = IF 1 <= m - 1 THEN (m - 1) - 1 + 1 ELSE 0
          /\ \A i \in 1..((m - 1) - 1 + 1) : t[i] = s[1 + i - 1]
      BY <2>3, <3>1, SubSeqProperties
    <3> QED
      BY <2>2, <3>2
  <2> HIDE DEF t
  <2>5. Len(t) = m - 1 /\ DOMAIN t = 1..(m - 1) /\ t = [i \in 1..(m - 1) |-> t[i]]
    BY <2>2, <2>4
  <2>6. IsSequence(t)
    BY <2>2, <2>5, FunctionIsSequence
  <2>7. Before(s, bad) = t
    BY <1>3 DEF Before, t, m
  <2>8. Len(t) \in 0..Len(s) /\ Len(t) # Len(s)
    BY <1>1, <2>2, <2>5
  <2>9. \A i \in DOMAIN t : i \in DOMAIN s /\ t[i] = s[i] /\ i \notin bad
    BY <1>1, <2>1, <2>2, <2>4, <2>5
  <2> QED
    BY <1>3, <2>6, <2>7, <2>8, <2>9
<1> QED
  BY <1>2, <1>3

-----------------------------------------------------------------------------
(* Signatures and options *)

\* The kinds of names, in any order of the Go map, are the same names.
LEMMA OrderFacts ==
  /\ \A o \in Orders : IsSequence(o) /\ ToSet(o) = NameKinds
  /\ AnyOrder \in Orders
<1> DEFINE x == "DNSNames"
           y == "EmailAddresses"
<1>1. Cardinality(NameKinds) = 2
  <2>1. IsFiniteSet({x}) /\ Cardinality({x}) = 1
    BY FS_Singleton
  <2>2. NameKinds = {x} \cup {y} /\ y \notin {x}
    BY DEF NameKinds
  <2>3. Cardinality({x} \cup {y}) = IF y \in {x} THEN Cardinality({x}) ELSE Cardinality({x}) + 1
    BY <2>1, FS_AddElement
  <2>4. Cardinality({x} \cup {y}) = Cardinality({x}) + 1
    BY <2>2, <2>3
  <2>5. Cardinality({x} \cup {y}) = 2
    BY <2>1, <2>4
  <2> QED
    BY <2>2, <2>5, Zenon
<1>2. Orders = {f \in [1..2 -> NameKinds] : \A i, j \in 1..2 : i # j => f[i] # f[j]}
  BY <1>1 DEF Orders, SetToSeqs
<1>3. ASSUME NEW o \in Orders PROVE IsSequence(o) /\ ToSet(o) = NameKinds
  <2>1. o \in [1..2 -> NameKinds] /\ o[1] # o[2]
    BY <1>2
  <2>2. o = [i \in 1..2 |-> o[i]] /\ DOMAIN o = 1..2
    BY <2>1
  <2>3. IsSequence(o)
    BY <2>2, FunctionIsSequence
  <2>4. ToSet(o) = {o[1], o[2]}
    BY <2>2 DEF ToSet
  <2>5. o[1] \in NameKinds /\ o[2] \in NameKinds
    BY <2>1
  <2> QED
    BY <2>1, <2>3, <2>4, <2>5 DEF NameKinds
<1>4. \E o : o \in Orders
  <2> DEFINE o == [i \in 1..2 |-> IF i = 1 THEN x ELSE y]
  <2>1. \A i \in 1..2 : o[i] \in NameKinds
    BY DEF NameKinds
  <2>2. o \in [1..2 -> NameKinds]
    BY <2>1
  <2>3. \A i, j \in 1..2 : i # j => o[i] # o[j]
    <3>1. o[1] = x /\ o[2] = y /\ x # y
      OBVIOUS
    <3> HIDE DEF o, x, y
    <3> QED
      BY <3>1
  <2> HIDE DEF o
  <2> QED
    BY <1>2, <2>2, <2>3
<1> QED
  BY <1>3, <1>4 DEF AnyOrder

\* The names of a certificate do not depend on the order.
LEMMA NamesFacts ==
  ASSUME NEW cert, NEW o \in Orders
  PROVE  PlainMetadata(CertificateMetadata(cert, o))
           = (cert.names \cap NameKinds) \cup (IF cert.otherName THEN {"OtherName"} ELSE {})
<1> DEFINE I == {i \in DOMAIN o : o[i] \in cert.names}
           f == Kept(o, I)
           g == IF cert.otherName THEN <<"OtherName">> ELSE <<>>
           G == IF cert.otherName THEN {"OtherName"} ELSE {}
           s == san(cert, o)
<1>1. IsSequence(o) /\ ToSet(o) = NameKinds
  BY OrderFacts
<1>2. /\ IsSequence(f)
      /\ \A k \in DOMAIN f : \E i \in I : f[k] = o[i]
      /\ \A i \in I : \E k \in DOMAIN f : f[k] = o[i]
  <2>1. I \in SUBSET DOMAIN o
    OBVIOUS
  <2> HIDE DEF I
  <2> QED
    BY <1>1, <2>1, KeptFacts
<1>3. s = f \o g
  BY DEF san
<1> HIDE DEF f, s
<1>4. ToSet(f) = cert.names \cap NameKinds
  <2>1. ASSUME NEW k \in DOMAIN f PROVE f[k] \in cert.names \cap NameKinds
    BY <1>1, <1>2 DEF ToSet
  <2>2. ASSUME NEW n \in cert.names \cap NameKinds PROVE n \in ToSet(f)
    <3>1. PICK i \in DOMAIN o : o[i] = n
      BY <1>1 DEF ToSet
    <3>2. i \in I
      BY <3>1
    <3>3. PICK k \in DOMAIN f : f[k] = n
      BY <1>2, <3>1, <3>2
    <3> QED
      BY <3>3 DEF ToSet
  <2> QED
    BY <2>1, <2>2 DEF ToSet
<1>5. ToSet(g) = G /\ \E n \in Nat : g \in [1..n -> {"OtherName"}] /\ Len(g) = n
  <2>1. CASE cert.otherName
    <3>1. g = <<"OtherName">>
      BY <2>1
    <3> QED
      BY <2>1, <3>1 DEF ToSet
  <2>2. CASE ~cert.otherName
    <3>1. g = <<>>
      BY <2>2
    <3> QED
      BY <2>2, <3>1 DEF ToSet
  <2> QED
    BY <2>1, <2>2
<1>6. ToSet(s) = ToSet(f) \cup G
  <2> DEFINE S == ToSet(f) \cup {"OtherName"}
             n == Len(f)
  <2>1. f \in Seq(S)
    BY <1>2 DEF IsSequence
  <2>2. g \in Seq(S)
    <3>1. <<>> \in Seq(S) /\ <<"OtherName">> \in Seq(S)
      OBVIOUS
    <3> HIDE DEF S
    <3> QED
      BY <3>1
  <2> HIDE DEF g, S
  <2>3. /\ Len(s) = Len(f) + Len(g) /\ Len(f) \in Nat /\ Len(g) \in Nat
        /\ DOMAIN s = 1..(Len(f) + Len(g)) /\ DOMAIN f = 1..Len(f) /\ DOMAIN g = 1..Len(g)
        /\ \A i \in 1..Len(f) : s[i] = f[i]
        /\ \A i \in 1..Len(g) : s[Len(f) + i] = g[i]
    <3>1. /\ f \o g \in Seq(S)
          /\ Len(f \o g) = Len(f) + Len(g)
          /\ \A i \in 1 .. Len(f) + Len(g) : (f \o g)[i] = IF i <= Len(f) THEN f[i] ELSE g[i - Len(f)]
      BY <2>1, <2>2, ConcatProperties
    <3>2. s \in Seq(S) /\ Len(f) \in Nat /\ Len(g) \in Nat /\ DOMAIN f = 1..Len(f) /\ DOMAIN g = 1..Len(g)
      BY <1>3, <2>1, <2>2, <3>1
    <3>3. DOMAIN s = 1..(Len(f) + Len(g))
      BY <1>3, <3>1, <3>2
    <3>4. \A i \in 1..Len(f) : s[i] = f[i]
      BY <1>3, <3>1, <3>2
    <3>5. ASSUME NEW i \in 1..Len(g) PROVE s[Len(f) + i] = g[i]
      <4>1. Len(f) + i \in 1 .. Len(f) + Len(g) /\ ~(Len(f) + i <= Len(f)) /\ Len(f) + i - Len(f) = i
        BY <3>2
      <4> QED
        BY <1>3, <3>1, <4>1
    <3> QED
      BY <1>3, <3>1, <3>2, <3>3, <3>4, <3>5
  <2>4. ASSUME NEW i \in DOMAIN s PROVE s[i] \in ToSet(f) \cup ToSet(g)
    <3>1. CASE i <= Len(f)
      BY <2>3, <3>1 DEF ToSet
    <3>2. CASE ~(i <= Len(f))
      <4>1. i - Len(f) \in 1..Len(g) /\ Len(f) + (i - Len(f)) = i
        BY <2>3, <3>2
      <4>2. s[i] = g[i - Len(f)]
        BY <2>3, <4>1
      <4> QED
        BY <2>3, <4>1, <4>2 DEF ToSet
    <3> QED
      BY <3>1, <3>2
  <2>5. ASSUME NEW i \in DOMAIN f PROVE f[i] \in ToSet(s)
    <3>1. i \in DOMAIN s /\ s[i] = f[i]
      BY <2>3
    <3> QED
      BY <3>1 DEF ToSet
  <2>6. ASSUME NEW i \in DOMAIN g PROVE g[i] \in ToSet(s)
    <3>1. Len(f) + i \in DOMAIN s /\ s[Len(f) + i] = g[i]
      BY <2>3
    <3> QED
      BY <3>1 DEF ToSet
  <2> QED
    BY <1>5, <2>4, <2>5, <2>6 DEF ToSet
<1>7. PlainMetadata(CertificateMetadata(cert, o)) = ToSet(s)
  <2>1. CASE s = <<>>
    BY <2>1 DEF CertificateMetadata, PlainMetadata, ToSet, s
  <2>2. CASE s # <<>>
    <3>1. CertificateMetadata(cert, o) = [san |-> s]
      BY <2>2 DEF CertificateMetadata, s
    <3>2. [san |-> s] # <<>>
      <4>1. DOMAIN [san |-> s] = {"san"} /\ DOMAIN <<>> = {}
        OBVIOUS
      <4> QED
        BY <4>1
    <3> QED
      BY <3>1, <3>2 DEF PlainMetadata
  <2> QED
    BY <2>1, <2>2
<1> QED
  BY <1>4, <1>6, <1>7

\* So neither does what a signature says, of an image or of an attestation.
LEMMA PlainSame ==
  ASSUME NEW l, NEW o \in Orders, NEW p \in Orders
  PROVE  /\ Plain(NewEntitySignature(l, o)) = Plain(NewEntitySignature(l, p))
         /\ PlainSignatures(createEntitySignatures(l, o)) = PlainSignatures(createEntitySignatures(l, p))
<1> DEFINE m(q) == NewEntitySignature(l, q).metadata
<1>1. PlainMetadata(m(o)) = PlainMetadata(m(p))
  BY NamesFacts DEF NewEntitySignature
<1>2. ASSUME NEW q
      PROVE  NewEntitySignature(l, q) =
               [keyid |-> l.cert.id, sig |-> l.sig, certificate |-> l.cert.id,
                chain |-> CertificateChain(l), metadata |-> m(q)]
  BY DEF NewEntitySignature
<1> HIDE DEF m
<1>3. ASSUME NEW q
      PROVE  Plain(NewEntitySignature(l, q)) =
               [keyid |-> l.cert.id, sig |-> l.sig, certificate |-> l.cert.id,
                chain |-> CertificateChain(l), metadata |-> PlainMetadata(m(q))]
  BY <1>2 DEF Plain
<1>4. Plain(NewEntitySignature(l, o)) = Plain(NewEntitySignature(l, p))
  BY <1>1, <1>3
<1> DEFINE sig(i) == IF l.sig = Empty THEN l.envelope[i].sig ELSE l.sig
           key(i) == IF l.cert.id = Empty THEN l.envelope[i].keyid ELSE l.cert.id
<1>5. ASSUME NEW q
      PROVE  PlainSignatures(createEntitySignatures(l, q)) =
               [i \in DOMAIN l.envelope |->
                 [keyid |-> key(i), sig |-> sig(i), certificate |-> l.cert.id,
                  chain |-> CertificateChain(l), metadata |-> PlainMetadata(m(q))]]
  <2>1. createEntitySignatures(l, q) =
          [i \in DOMAIN l.envelope |->
             [keyid |-> key(i), sig |-> sig(i), certificate |-> l.cert.id,
              chain |-> CertificateChain(l), metadata |-> m(q)]]
    BY <1>2 DEF createEntitySignatures
  <2> QED
    BY <2>1 DEF PlainSignatures, Plain
<1>6. PlainSignatures(createEntitySignatures(l, o)) = PlainSignatures(createEntitySignatures(l, p))
  BY <1>1, <1>5
<1> QED
  BY <1>4, <1>6

\* The options that createConfigJSON writes for a policy, read back by parseCheckOpts, are
\* the check options of the policy.
LEMMA OptionsReadBack ==
  ASSUME NEW p \in Policies, p.kind = "image", PolicyMade(p)
  PROVE  /\ OptsParse(SigstoreOpts(PolicyObject(p)))
         /\ parseCheckOpts(SigstoreOpts(PolicyObject(p))) = PolicyObject(p).checkOpts
<1> DEFINE q == PolicyObject(p)
           term == SigstoreOpts(q)
           o == optionsFromTerm(term)
<1>1. /\ q.key = p.key /\ q.identity = (IF p.key = Empty THEN p.identity ELSE NoIdentity)
      /\ q.ignoreRekor = p.ignoreRekor /\ q.checkOpts = checkOpts(p)
  BY PolicyAssumption DEF PolicyObject
<1> HIDE DEF q
<1>2. /\ term.ignoreRekor = p.ignoreRekor
      /\ term.props = [certificate_identity |-> q.identity.subject,
                       certificate_oidc_issuer |-> q.identity.issuer,
                       public_key |-> PublicKeyPEM(q), rekor_url |-> q.rekor]
  BY <1>1 DEF SigstoreOpts
<1> HIDE DEF term
<1>3. Property(term, "rekor_public_key") = Empty
  BY <1>2 DEF Property
<1>4. /\ o.key = Property(term, "public_key") /\ o.ignoreRekor = p.ignoreRekor
      /\ o.identity = [issuer |-> Property(term, "certificate_oidc_issuer"),
                       subject |-> Property(term, "certificate_identity")]
  BY <1>2 DEF optionsFromTerm
<1>5. CASE p.key # Empty
  <2> DEFINE m == Material[p.key]
  <2>1. p.key \in DOMAIN Material /\ checkOpts(p).verifier = m
    BY <1>5 DEF PolicyMade, checkOpts
  <2>2. PublicKeyPEM(q) = Pem[m]
    BY <1>1, <1>5, <2>1 DEF PublicKeyPEM
  <2>3. Pem[m] # Empty /\ Pem[m] # NotString /\ Pem[m] \in DOMAIN Material /\ Material[Pem[m]] = m
    BY <2>1, PolicyAssumption
  <2> HIDE DEF m
  <2>4. Property(term, "public_key") = Pem[m]
    <3>1. "public_key" \in DOMAIN term.props /\ term.props["public_key"] = Pem[m]
      BY <1>2, <2>2
    <3> QED
      BY <2>3, <3>1 DEF Property
  <2>5. o.key = Pem[m]
    BY <1>4, <2>4
  <2> HIDE DEF o
  <2>6. OptsParse(term)
    BY <1>3, <2>3, <2>5 DEF OptsParse, PolicyMade, o, NoKey, Empty
  <2>7. checkOpts(o) = checkOpts(p)
    BY <1>4, <1>5, <2>3, <2>5 DEF checkOpts, m
  <2> QED
    BY <1>1, <1>3, <2>6, <2>7 DEF parseCheckOpts, o, term, q
<1>6. CASE p.key = Empty
  <2>1. q.identity = p.identity /\ PublicKeyPEM(q) = Empty
    BY <1>1, <1>6 DEF PublicKeyPEM
  <2>2. /\ p.identity = [issuer |-> p.identity.issuer, subject |-> p.identity.subject]
        /\ p.identity.issuer # NotString /\ p.identity.subject # NotString
    BY PolicyAssumption
  <2>a. term.props = [certificate_identity |-> p.identity.subject,
                      certificate_oidc_issuer |-> p.identity.issuer,
                      public_key |-> Empty, rekor_url |-> q.rekor]
    BY <1>2, <2>1
  <2>3. Property(term, "public_key") = Empty
    <3>1. "public_key" \in DOMAIN term.props /\ term.props["public_key"] = Empty
      BY <2>a
    <3> QED
      BY <2>2, <3>1 DEF Property
  <2>4. Property(term, "certificate_oidc_issuer") = p.identity.issuer
    <3>1. "certificate_oidc_issuer" \in DOMAIN term.props /\ term.props["certificate_oidc_issuer"] = p.identity.issuer
      BY <2>a
    <3> QED
      BY <2>2, <3>1 DEF Property
  <2>5. Property(term, "certificate_identity") = p.identity.subject
    <3>1. "certificate_identity" \in DOMAIN term.props /\ term.props["certificate_identity"] = p.identity.subject
      BY <2>a
    <3> QED
      BY <2>2, <3>1 DEF Property
  <2>6. o.key = Empty /\ o.identity = p.identity
    BY <1>4, <2>2, <2>3, <2>4, <2>5
  <2> HIDE DEF o
  <2>7. OptsParse(term)
    BY <1>3, <1>6, <2>6 DEF OptsParse, PolicyMade, o, NoKey, Empty
  <2>8. checkOpts(o) = checkOpts(p)
    BY <1>4, <1>6, <2>6 DEF checkOpts
  <2> QED
    BY <1>1, <1>3, <2>7, <2>8 DEF parseCheckOpts, o, term, q
<1> QED
  BY <1>5, <1>6

-----------------------------------------------------------------------------
(* The invariant *)

Early == {"config", "new", "access", "resolve"}
Late == {"fetch", "parent", "files", "signature", "attestation", "syntax", "input"}

SigLayers(ref) == Verified(policy.checkOpts, world[ref].signatures)
AttLayers(ref) == Verified(policy.checkOpts, world[ref].attestations)

\* What the parts of an image record, or of an input, are when the image is i
PartsOf(r, i, parentConfig) ==
    /\ r.config \in {i.config, Nothing} /\ r.files \in {i.files, Nothing}
    /\ r.parent \in {i.parent, Nothing}
    /\ r.parentConfig # Nothing => r.parentConfig = parentConfig

\* What the signature check leaves: the signatures before the first that does not
\* parse, and the verdict
SignaturesShown(shown, check, layers) ==
    \E n \in 0..Len(layers) : \E order \in [1..n -> Orders] :
        /\ shown = [i \in 1..n |-> NewEntitySignature(layers[i], order[i])]
        /\ check = "pass" =>
             /\ n = Len(layers) /\ n > 0
             /\ \A i \in 1..n : SignatureParses(layers[i])
        /\ check # "pass" /\ n > 0 => \E i \in 1..Len(layers) : ~SignatureParses(layers[i])

\* What the attestation check leaves when it passes: all of them
AttestationsShown(shown, layers) ==
    /\ \A i \in 1..Len(layers) : AttestationParses(layers[i])
    /\ \E order \in [1..Len(layers) -> Orders] :
         shown = [i \in 1..Len(layers) |-> Provenance(layers[i], order[i])]

\* The registry and the policy are what they were, and the options of the policy are
\* those that the rules find
GivenInv ==
    /\ world \in Worlds /\ url \in Urls /\ tag \in Digests
    /\ \E p \in Policies : policy = PolicyObject(p) /\ (p.kind = "image" => PolicyMade(p))
    /\ at \in Early \cup Late \cup {"evaluate", "done", "error"}
    /\ at \in (Early \ {"config"}) \cup Late =>
         policy.kind = "image" /\ defaults = SigstoreOpts(policy)

\* Until the reference is a digest nothing has been fetched
RefInv ==
    /\ DOMAIN a = DOMAIN NoImage /\ DOMAIN out = DOMAIN NoOutput
    /\ at \in {"access", "resolve"} => url # Unparsable
    /\ at \in Late => a.reference \in Digests /\ out.imageUrl = a.reference
    /\ at \in Early \cup {"fetch"} =>
         /\ a.config = Nothing /\ a.files = Nothing
         /\ a.parent = Nothing /\ a.parentConfig = Nothing
    /\ at \in Early \cup {"fetch", "parent", "files", "signature"} => a.signatures = <<>>
    /\ at \in Early \cup (Late \ {"input"}) => out.syntax = Empty

PartsInv ==
    at \in Late =>
        PartsOf(a, world[a.reference], world[world[a.reference].parent].config)

SigInv ==
    at \in {"attestation", "syntax", "input"} =>
        SignaturesShown(a.signatures, out.signature, SigLayers(a.reference))

AttInv ==
    at \in {"syntax", "input"} => AttestationsShown(a.attestations, AttLayers(a.reference))

\* What the output shows is what was verified for the image that it names
OutInv ==
    /\ at = "input" => out.syntax # Empty
    /\ out.syntax # Empty =>
        /\ out.imageUrl \in Digests
        /\ SignaturesShown(out.signatures, out.signature, SigLayers(out.imageUrl))
        /\ AttestationsShown(out.attestations, AttLayers(out.imageUrl))
        /\ out.syntax = "pass" => SyntaxValid(out.attestations)

InputInv ==
    /\ at \in Early \cup Late => ~input.written
    /\ input.written =>
        /\ policy.kind = "image" /\ defaults = SigstoreOpts(policy)
        /\ input.ref \in Digests
        /\ at # "error" => out.imageUrl = input.ref /\ out.syntax # Empty
        /\ PartsOf(input, world[input.ref], world[world[input.ref].parent].config)
        /\ AttestationsShown(input.attestations, AttLayers(input.ref))
        /\ input.attestations # <<>>

CallLayers(b, ref, term) ==
    Verified(parseCheckOpts(term),
             IF b = "image" THEN world[ref].signatures ELSE world[ref].attestations)
ResultOf(b, layers, order) ==
    IF b = "image" THEN signatureResult(layers, order) ELSE attestationResult(layers, order)

\* Why a builtin gave an answer
Explained(b, ref, term, r, layers) ==
    \/ BadCall(ref, term) /\ r = Refusal(ref, term)
    \/ ~BadCall(ref, term) /\ r = Failed("request")
    \/ ~BadCall(ref, term) /\ layers = <<>> /\ r = Failed("unmatched")
    \/ /\ ~BadCall(ref, term) /\ layers # <<>>
       /\ \E order \in MapOrders(layers) : r = ResultOf(b, layers, order)

AnswersInv ==
    /\ IsSequence(answers)
    /\ \A k \in DOMAIN answers :
        \E b \in {"image", "attestation"}, ref \in CallRefs : \E term :
            /\ answers[k].call = <<b, ref, term>>
            /\ Explained(b, ref, term, answers[k].answer, CallLayers(b, ref, term))

IInv ==
    GivenInv /\ RefInv /\ PartsInv /\ SigInv /\ AttInv /\ OutInv /\ InputInv /\ AnswersInv

-----------------------------------------------------------------------------
(* The invariant is inductive *)

\* No step changes the registry's images, the component or the policy.
LEMMA Unmoved ==
  ASSUME [Next]_vars
  PROVE  world' = world /\ url' = url /\ policy' = policy
<1>1. ASSUME NEW d \in Digests, MoveTag(d) PROVE world' = world /\ url' = url /\ policy' = policy
  BY <1>1 DEF MoveTag, given
<1>2. ASSUME CreateConfig PROVE world' = world /\ url' = url /\ policy' = policy
  BY <1>2 DEF CreateConfig, quiet, given
<1>3. ASSUME CreateConfigFails PROVE world' = world /\ url' = url /\ policy' = policy
  BY <1>3 DEF CreateConfigFails, quiet, given
<1>4. ASSUME NewApplicationSnapshotImage PROVE world' = world /\ url' = url /\ policy' = policy
  BY <1>4 DEF NewApplicationSnapshotImage, SetImageURL, ReturnError, quiet, given
<1>5. ASSUME NEW f \in BOOLEAN, ValidateImageAccess(f) PROVE world' = world /\ url' = url /\ policy' = policy
  BY <1>5 DEF ValidateImageAccess, quiet, given
<1>6. ASSUME NEW f \in BOOLEAN, FetchImageConfig(f) PROVE world' = world /\ url' = url /\ policy' = policy
  BY <1>6 DEF FetchImageConfig, quiet, given
<1>7. ASSUME NEW f \in BOOLEAN, FetchImageFiles(f) PROVE world' = world /\ url' = url /\ policy' = policy
  BY <1>7 DEF FetchImageFiles, quiet, given
<1>8. ASSUME NEW f \in BOOLEAN, ValidateImageSignature(f) PROVE world' = world /\ url' = url /\ policy' = policy
  BY <1>8 DEF ValidateImageSignature, quiet, given
<1>9. ASSUME NEW f \in BOOLEAN, ValidateAttestationSignature(f) PROVE world' = world /\ url' = url /\ policy' = policy
  BY <1>9 DEF ValidateAttestationSignature, quiet, given
<1>10. ASSUME resolveAndSetImageUrl PROVE world' = world /\ url' = url /\ policy' = policy
  BY <1>10 DEF resolveAndSetImageUrl, SetImageURL, quiet, given
<1>11. ASSUME ResolveFails PROVE world' = world /\ url' = url /\ policy' = policy
  BY <1>11 DEF ResolveFails, ReturnError, quiet, given
<1>12. ASSUME NEW f \in BOOLEAN, NEW g \in BOOLEAN, FetchParentImageConfig(f, g) PROVE world' = world /\ url' = url /\ policy' = policy
  BY <1>12 DEF FetchParentImageConfig, quiet, given
<1>13. ASSUME ValidateAttestationSyntax PROVE world' = world /\ url' = url /\ policy' = policy
  BY <1>13 DEF ValidateAttestationSyntax, quiet, given
<1>14. ASSUME NoAttestations PROVE world' = world /\ url' = url /\ policy' = policy
  BY <1>14 DEF NoAttestations, quiet, given
<1>15. ASSUME WriteInputFile PROVE world' = world /\ url' = url /\ policy' = policy
  BY <1>15 DEF WriteInputFile, quiet, given
<1>16. ASSUME WriteInputFails PROVE world' = world /\ url' = url /\ policy' = policy
  BY <1>16 DEF WriteInputFails, ReturnError, quiet, given
<1>17. ASSUME NEW b \in {"image", "attestation"}, NEW ref \in CallRefs, NEW term \in CallTerms,
             NEW reached \in BOOLEAN, Call(b, ref, term, reached) PROVE world' = world /\ url' = url /\ policy' = policy
  BY <1>17 DEF Call, given
<1>18. ASSUME Evaluated PROVE world' = world /\ url' = url /\ policy' = policy
  BY <1>18 DEF Evaluated, quiet, given
<1>19. ASSUME EvaluateFails PROVE world' = world /\ url' = url /\ policy' = policy
  BY <1>19 DEF EvaluateFails, ReturnError, quiet, given
<1>20. ASSUME vars' = vars PROVE world' = world /\ url' = url /\ policy' = policy
  BY <1>20 DEF vars
<1> QED
  BY <1>1, <1>2, <1>3, <1>4, <1>5, <1>6, <1>7, <1>8, <1>9, <1>10, <1>11, <1>12, <1>13,
     <1>14, <1>15, <1>16, <1>17, <1>18, <1>19, <1>20 DEF Next, Validate

\* The registry, the policy and its options.
LEMMA GivenStep ==
  ASSUME IInv, [Next]_vars
  PROVE  GivenInv'
<1>0. world' = world /\ url' = url /\ policy' = policy
  BY Unmoved
<1>1. ASSUME NEW d \in Digests, MoveTag(d) PROVE GivenInv'
  BY <1>1, <1>0 DEF IInv, GivenInv, Early, Late, MoveTag, given
<1>2. ASSUME CreateConfig PROVE GivenInv'
  BY <1>2, <1>0 DEF IInv, GivenInv, Early, Late, CreateConfig, quiet, given
<1>3. ASSUME CreateConfigFails PROVE GivenInv'
  BY <1>3, <1>0 DEF IInv, GivenInv, Early, Late, CreateConfigFails, quiet, given
<1>4. ASSUME NewApplicationSnapshotImage PROVE GivenInv'
  BY <1>4, <1>0 DEF IInv, GivenInv, Early, Late, NewApplicationSnapshotImage, SetImageURL, ReturnError, quiet, given
<1>5. ASSUME NEW f \in BOOLEAN, ValidateImageAccess(f) PROVE GivenInv'
  BY <1>5, <1>0 DEF IInv, GivenInv, Early, Late, ValidateImageAccess, quiet, given
<1>6. ASSUME NEW f \in BOOLEAN, FetchImageConfig(f) PROVE GivenInv'
  BY <1>6, <1>0 DEF IInv, GivenInv, Early, Late, FetchImageConfig, quiet, given
<1>7. ASSUME NEW f \in BOOLEAN, FetchImageFiles(f) PROVE GivenInv'
  BY <1>7, <1>0 DEF IInv, GivenInv, Early, Late, FetchImageFiles, quiet, given
<1>8. ASSUME NEW f \in BOOLEAN, ValidateImageSignature(f) PROVE GivenInv'
  BY <1>8, <1>0 DEF IInv, GivenInv, Early, Late, ValidateImageSignature, quiet, given
<1>9. ASSUME NEW f \in BOOLEAN, ValidateAttestationSignature(f) PROVE GivenInv'
  BY <1>9, <1>0 DEF IInv, GivenInv, Early, Late, ValidateAttestationSignature, quiet, given
<1>10. ASSUME resolveAndSetImageUrl PROVE GivenInv'
  BY <1>10, <1>0 DEF IInv, GivenInv, Early, Late, resolveAndSetImageUrl, SetImageURL, quiet, given
<1>11. ASSUME ResolveFails PROVE GivenInv'
  BY <1>11, <1>0 DEF IInv, GivenInv, Early, Late, ResolveFails, ReturnError, quiet, given
<1>12. ASSUME NEW f \in BOOLEAN, NEW g \in BOOLEAN, FetchParentImageConfig(f, g) PROVE GivenInv'
  BY <1>12, <1>0 DEF IInv, GivenInv, Early, Late, FetchParentImageConfig, quiet, given
<1>13. ASSUME ValidateAttestationSyntax PROVE GivenInv'
  BY <1>13, <1>0 DEF IInv, GivenInv, Early, Late, ValidateAttestationSyntax, quiet, given
<1>14. ASSUME NoAttestations PROVE GivenInv'
  BY <1>14, <1>0 DEF IInv, GivenInv, Early, Late, NoAttestations, quiet, given
<1>15. ASSUME WriteInputFile PROVE GivenInv'
  BY <1>15, <1>0 DEF IInv, GivenInv, Early, Late, WriteInputFile, quiet, given
<1>16. ASSUME WriteInputFails PROVE GivenInv'
  BY <1>16, <1>0 DEF IInv, GivenInv, Early, Late, WriteInputFails, ReturnError, quiet, given
<1>17. ASSUME NEW b \in {"image", "attestation"}, NEW ref \in CallRefs, NEW term \in CallTerms,
             NEW reached \in BOOLEAN, Call(b, ref, term, reached) PROVE GivenInv'
  BY <1>17, <1>0 DEF IInv, GivenInv, Early, Late, Call, given
<1>18. ASSUME Evaluated PROVE GivenInv'
  BY <1>18, <1>0 DEF IInv, GivenInv, Early, Late, Evaluated, quiet, given
<1>19. ASSUME EvaluateFails PROVE GivenInv'
  BY <1>19, <1>0 DEF IInv, GivenInv, Early, Late, EvaluateFails, ReturnError, quiet, given
<1>20. ASSUME vars' = vars PROVE GivenInv'
  BY <1>20, <1>0 DEF IInv, GivenInv, Early, Late, vars
<1> QED
  BY <1>1, <1>2, <1>3, <1>4, <1>5, <1>6, <1>7, <1>8, <1>9, <1>10, <1>11, <1>12, <1>13,
     <1>14, <1>15, <1>16, <1>17, <1>18, <1>19, <1>20 DEF Next, Validate

\* The reference, and what is not there yet.
LEMMA RefStep ==
  ASSUME IInv, [Next]_vars
  PROVE  RefInv'
<1>0. RefInv /\ GivenInv /\ world' = world /\ url' = url /\ policy' = policy
  BY Unmoved DEF IInv
<1> USE DEF RefInv
<1>1. ASSUME NEW d \in Digests, MoveTag(d) PROVE RefInv'
  BY <1>1, <1>0 DEF Early, Late, NoOutput, NoImage, MoveTag, given
<1>2. ASSUME CreateConfig PROVE RefInv'
  BY <1>2, <1>0 DEF Early, Late, NoOutput, NoImage, CreateConfig, quiet, given
<1>3. ASSUME CreateConfigFails PROVE RefInv'
  BY <1>3, <1>0 DEF Early, Late, NoOutput, NoImage, CreateConfigFails, quiet, given
<1>4. ASSUME NewApplicationSnapshotImage PROVE RefInv'
  <2>1. CASE url = Unparsable
    <3>1. at' = "error" /\ out' = NoOutput /\ a' = a
      BY <1>4, <2>1 DEF NewApplicationSnapshotImage, ReturnError
    <3>2. QED
      BY <1>0, <3>1 DEF Early, Late
  <2>2. CASE url # Unparsable
    <3>1. /\ at = "new" /\ at' = "access" /\ out' = [out EXCEPT !.imageUrl = url]
          /\ a' = [a EXCEPT !.reference = url, !.signatures = <<>>, !.attestations = <<>>]
      BY <1>4, <2>2 DEF NewApplicationSnapshotImage, SetImageURL
    <3>2. /\ DOMAIN a' = DOMAIN NoImage /\ a'.signatures = <<>>
          /\ a'.config = a.config /\ a'.files = a.files
          /\ a'.parent = a.parent /\ a'.parentConfig = a.parentConfig
      BY <1>0, <3>1 DEF NoImage
    <3>3. DOMAIN out' = DOMAIN NoOutput /\ out'.syntax = out.syntax
      BY <1>0, <3>1 DEF NoOutput
    <3>4. QED
      BY <1>0, <2>2, <3>1, <3>2, <3>3 DEF Early, Late
  <2>3. QED
    BY <2>1, <2>2
<1>5. ASSUME NEW f \in BOOLEAN, ValidateImageAccess(f) PROVE RefInv'
  BY <1>5, <1>0 DEF Early, Late, NoOutput, NoImage, ValidateImageAccess, quiet, given
<1>6. ASSUME NEW f \in BOOLEAN, FetchImageConfig(f) PROVE RefInv'
  BY <1>6, <1>0 DEF Early, Late, NoOutput, NoImage, FetchImageConfig, quiet, given
<1>7. ASSUME NEW f \in BOOLEAN, FetchImageFiles(f) PROVE RefInv'
  BY <1>7, <1>0 DEF Early, Late, NoOutput, NoImage, FetchImageFiles, quiet, given
<1>8. ASSUME NEW f \in BOOLEAN, ValidateImageSignature(f) PROVE RefInv'
  BY <1>8, <1>0 DEF Early, Late, NoOutput, NoImage, ValidateImageSignature, quiet, given
<1>9. ASSUME NEW f \in BOOLEAN, ValidateAttestationSignature(f) PROVE RefInv'
  BY <1>9, <1>0 DEF Early, Late, NoOutput, NoImage, ValidateAttestationSignature, quiet, given
<1>10. ASSUME resolveAndSetImageUrl PROVE RefInv'
  <2>1. url \in Digests \cup {Tag} /\ tag \in Digests
    BY <1>10, <1>0, ImageCheckAssumption DEF resolveAndSetImageUrl, GivenInv
  <2>2. Resolved(url) \in Digests
    BY <2>1 DEF Resolved
  <2> QED
    BY <1>10, <1>0, <2>2 DEF Early, Late, NoOutput, NoImage, resolveAndSetImageUrl, SetImageURL, quiet, given
<1>11. ASSUME ResolveFails PROVE RefInv'
  BY <1>11, <1>0 DEF Early, Late, NoOutput, NoImage, ResolveFails, ReturnError, quiet, given
<1>12. ASSUME NEW f \in BOOLEAN, NEW g \in BOOLEAN, FetchParentImageConfig(f, g) PROVE RefInv'
  BY <1>12, <1>0 DEF Early, Late, NoOutput, NoImage, FetchParentImageConfig, quiet, given
<1>13. ASSUME ValidateAttestationSyntax PROVE RefInv'
  BY <1>13, <1>0 DEF Early, Late, NoOutput, NoImage, ValidateAttestationSyntax, quiet, given
<1>14. ASSUME NoAttestations PROVE RefInv'
  BY <1>14, <1>0 DEF Early, Late, NoOutput, NoImage, NoAttestations, quiet, given
<1>15. ASSUME WriteInputFile PROVE RefInv'
  BY <1>15, <1>0 DEF Early, Late, NoOutput, NoImage, WriteInputFile, quiet, given
<1>16. ASSUME WriteInputFails PROVE RefInv'
  BY <1>16, <1>0 DEF Early, Late, NoOutput, NoImage, WriteInputFails, ReturnError, quiet, given
<1>17. ASSUME NEW b \in {"image", "attestation"}, NEW ref \in CallRefs, NEW term \in CallTerms,
             NEW reached \in BOOLEAN, Call(b, ref, term, reached) PROVE RefInv'
  BY <1>17, <1>0 DEF Early, Late, NoOutput, NoImage, Call, given
<1>18. ASSUME Evaluated PROVE RefInv'
  BY <1>18, <1>0 DEF Early, Late, NoOutput, NoImage, Evaluated, quiet, given
<1>19. ASSUME EvaluateFails PROVE RefInv'
  BY <1>19, <1>0 DEF Early, Late, NoOutput, NoImage, EvaluateFails, ReturnError, quiet, given
<1>20. ASSUME vars' = vars PROVE RefInv'
  BY <1>20, <1>0 DEF Early, Late, NoOutput, NoImage, vars
<1> QED
  BY <1>1, <1>2, <1>3, <1>4, <1>5, <1>6, <1>7, <1>8, <1>9, <1>10, <1>11, <1>12, <1>13,
     <1>14, <1>15, <1>16, <1>17, <1>18, <1>19, <1>20 DEF Next, Validate

\* The reference is a digest, so what the registry has for it does not depend on the tag.
LEMMA ContentOf ==
  ASSUME NEW ref \in Digests
  PROVE  Content(ref) = world[ref]
BY ImageCheckAssumption DEF Content

\* The layers that verify are a sequence.
LEMMA LayersFacts ==
  ASSUME GivenInv, NEW ref \in Digests, NEW c
  PROVE  /\ IsSequence(world[ref].signatures) /\ IsSequence(world[ref].attestations)
         /\ IsSequence(Verified(c, world[ref].signatures))
         /\ IsSequence(Verified(c, world[ref].attestations))
<1>1. IsSequence(world[ref].signatures) /\ IsSequence(world[ref].attestations)
  BY WorldAssumption DEF GivenInv
<1>2. ASSUME NEW s, IsSequence(s) PROVE IsSequence(Verified(c, s))
  <2> DEFINE I == {i \in DOMAIN s : Accepts(c, s[i])}
  <2>1. I \in SUBSET DOMAIN s
    OBVIOUS
  <2>2. Verified(c, s) = Kept(s, I)
    BY DEF Verified
  <2> HIDE DEF I
  <2> QED
    BY <1>2, <2>1, <2>2, KeptFacts
<1> QED
  BY <1>1, <1>2

\* Nothing is shown when the registry cannot be reached.
LEMMA NothingShown ==
  ASSUME NEW layers, IsSequence(layers)
  PROVE  SignaturesShown(<<>>, "fail", layers)
<1>1. 0 \in 0..Len(layers)
  BY SequenceFacts
<1> DEFINE order == [i \in 1..0 |-> CHOOSE o \in Orders : TRUE]
<1>2. order \in [1..0 -> Orders]
  OBVIOUS
<1>3. <<>> = [i \in 1..0 |-> NewEntitySignature(layers[i], order[i])]
  OBVIOUS
<1> HIDE DEF order
<1>a. ~(0 > 0) /\ "fail" # "pass"
  OBVIOUS
<1>4. \E p \in [1..0 -> Orders] :
        /\ <<>> = [i \in 1..0 |-> NewEntitySignature(layers[i], p[i])]
        /\ "fail" = "pass" => 0 = Len(layers) /\ 0 > 0 /\ \A i \in 1..0 : SignatureParses(layers[i])
        /\ "fail" # "pass" /\ 0 > 0 => \E i \in 1..Len(layers) : ~SignatureParses(layers[i])
  BY <1>2, <1>3, <1>a, Zenon
<1> QED
  BY <1>1, <1>4 DEF SignaturesShown

\* What the loop over the verified signatures leaves.
LEMMA SignatureCheck ==
  ASSUME NEW layers, IsSequence(layers), NEW parsed, NEW order \in MapOrders(parsed),
         parsed = Before(layers, {i \in DOMAIN layers : ~SignatureParses(layers[i])})
  PROVE  SignaturesShown([i \in DOMAIN parsed |-> NewEntitySignature(parsed[i], order[i])],
                         IF layers # <<>> /\ parsed = layers THEN "pass" ELSE "fail", layers)
<1> DEFINE bad == {i \in DOMAIN layers : ~SignatureParses(layers[i])}
           n == Len(parsed)
           shown == [i \in DOMAIN parsed |-> NewEntitySignature(parsed[i], order[i])]
           check == IF layers # <<>> /\ parsed = layers THEN "pass" ELSE "fail"
<1>1. /\ IsSequence(parsed) /\ n \in 0..Len(layers)
      /\ \A i \in DOMAIN parsed : i \in DOMAIN layers /\ parsed[i] = layers[i] /\ i \notin bad
      /\ parsed = layers <=> bad = {}
      /\ n = Len(layers) <=> bad = {}
  <2>1. bad \in SUBSET DOMAIN layers
    OBVIOUS
  <2> HIDE DEF bad
  <2> QED
    BY <2>1, BeforeFacts DEF bad
<1>2. DOMAIN parsed = 1..n /\ n \in Nat /\ (layers = <<>> <=> Len(layers) = 0)
      /\ DOMAIN layers = 1..Len(layers) /\ Len(layers) \in Nat
  BY <1>1, SequenceFacts
<1> HIDE DEF n
<1>3. order \in [1..n -> Orders]
  BY <1>2 DEF MapOrders
<1>4. shown = [i \in 1..n |-> NewEntitySignature(layers[i], order[i])]
  BY <1>1, <1>2
<1>5. ASSUME check = "pass"
      PROVE  n = Len(layers) /\ n > 0 /\ \A i \in 1..n : SignatureParses(layers[i])
  <2>1. layers # <<>> /\ parsed = layers
    BY <1>5
  <2>2. bad = {}
    BY <1>1, <2>1
  <2>3. n = Len(layers)
    <3> HIDE DEF bad
    <3> QED
      BY <1>1, <2>2
  <2>4. n > 0
    <3>1. Len(layers) # 0
      BY <1>2, <2>1
    <3> QED
      BY <1>2, <2>3, <3>1
  <2>5. \A i \in 1..n : SignatureParses(layers[i])
    BY <1>2, <2>2, <2>3
  <2> QED
    BY <2>3, <2>4, <2>5
<1>6. ASSUME check # "pass", n > 0
      PROVE  \E i \in 1..Len(layers) : ~SignatureParses(layers[i])
  <2>1. layers # <<>>
    <3>1. Len(layers) # 0
      <4>1. n \in 0..Len(layers) /\ Len(layers) \in Nat /\ n > 0
        BY <1>1, <1>2, <1>6, Zenon
      <4> QED
        BY <4>1
    <3> QED
      BY <1>2, <3>1
  <2>2. bad # {}
    BY <1>1, <1>6, <2>1
  <2> QED
    BY <1>2, <2>2
<1> HIDE DEF shown, check
<1>7. SignaturesShown(shown, check, layers)
  BY <1>1, <1>3, <1>4, <1>5, <1>6 DEF SignaturesShown
<1> QED
  BY <1>7 DEF shown, check

\* What the loop over the verified attestations leaves when it gets to the end.
LEMMA AttestationCheck ==
  ASSUME NEW layers, IsSequence(layers), NEW order \in MapOrders(layers),
         layers = Before(layers, {i \in DOMAIN layers : ~AttestationParses(layers[i])})
  PROVE  AttestationsShown([i \in DOMAIN layers |-> Provenance(layers[i], order[i])], layers)
<1> DEFINE bad == {i \in DOMAIN layers : ~AttestationParses(layers[i])}
<1>1. bad = {}
  <2>1. bad \in SUBSET DOMAIN layers
    OBVIOUS
  <2> HIDE DEF bad
  <2> QED
    BY <2>1, BeforeFacts DEF bad
<1>2. DOMAIN layers = 1..Len(layers)
  BY SequenceFacts
<1> QED
  BY <1>1, <1>2 DEF AttestationsShown, MapOrders

\* The parts of the image are those of its digest.
LEMMA PartsStep ==
  ASSUME IInv, [Next]_vars
  PROVE  PartsInv'
<1>0. RefInv /\ GivenInv /\ PartsInv /\ SigInv /\ AttInv /\ OutInv /\ InputInv
      /\ world' = world /\ url' = url /\ policy' = policy
  BY Unmoved DEF IInv
<1> USE DEF Early, Late, RefInv, NoImage, NoOutput
<1>1. ASSUME NEW d \in Digests, MoveTag(d) PROVE PartsInv'
  BY <1>1, <1>0 DEF PartsInv, PartsOf, MoveTag, given
<1>2. ASSUME CreateConfig PROVE PartsInv'
  BY <1>2, <1>0 DEF PartsInv, PartsOf, CreateConfig, quiet, given
<1>3. ASSUME CreateConfigFails PROVE PartsInv'
  BY <1>3, <1>0 DEF PartsInv, PartsOf, CreateConfigFails, quiet, given
<1>4. ASSUME NewApplicationSnapshotImage PROVE PartsInv'
  BY <1>4, <1>0 DEF PartsInv, PartsOf, NewApplicationSnapshotImage, SetImageURL, ReturnError, quiet, given
<1>5. ASSUME NEW f \in BOOLEAN, ValidateImageAccess(f) PROVE PartsInv'
  BY <1>5, <1>0 DEF PartsInv, PartsOf, ValidateImageAccess, quiet, given
<1>6. ASSUME NEW f \in BOOLEAN, FetchImageConfig(f) PROVE PartsInv'
  <2>1. a.reference \in Digests /\ Content(a.reference) = world[a.reference]
    BY <1>6, <1>0, ContentOf DEF FetchImageConfig
  <2> QED
    BY <1>6, <1>0, <2>1 DEF PartsInv, PartsOf, FetchImageConfig
<1>7. ASSUME NEW f \in BOOLEAN, FetchImageFiles(f) PROVE PartsInv'
  <2>1. a.reference \in Digests /\ Content(a.reference) = world[a.reference]
    BY <1>7, <1>0, ContentOf DEF FetchImageFiles
  <2> QED
    BY <1>7, <1>0, <2>1 DEF PartsInv, PartsOf, FetchImageFiles
<1>8. ASSUME NEW f \in BOOLEAN, ValidateImageSignature(f) PROVE PartsInv'
  BY <1>8, <1>0 DEF PartsInv, PartsOf, ValidateImageSignature, quiet, given
<1>9. ASSUME NEW f \in BOOLEAN, ValidateAttestationSignature(f) PROVE PartsInv'
  BY <1>9, <1>0 DEF PartsInv, PartsOf, ValidateAttestationSignature, quiet, given
<1>10. ASSUME resolveAndSetImageUrl PROVE PartsInv'
  BY <1>10, <1>0 DEF PartsInv, PartsOf, resolveAndSetImageUrl, SetImageURL, quiet, given
<1>11. ASSUME ResolveFails PROVE PartsInv'
  BY <1>11, <1>0 DEF PartsInv, PartsOf, ResolveFails, ReturnError, quiet, given
<1>12. ASSUME NEW f \in BOOLEAN, NEW g \in BOOLEAN, FetchParentImageConfig(f, g) PROVE PartsInv'
  <2> DEFINE p == IF f THEN Content(a.reference).parent ELSE Nothing
  <2>1. a.reference \in Digests /\ Content(a.reference) = world[a.reference]
    BY <1>12, <1>0, ContentOf DEF FetchParentImageConfig
  <2>2. p \in {world[a.reference].parent, Nothing} /\ p \in Digests \cup {Nothing}
    BY <1>0, <2>1, WorldAssumption DEF GivenInv
  <2>3. ASSUME p # Nothing PROVE p = world[a.reference].parent /\ Content(p) = world[p]
    BY <2>2, <2>3, ContentOf
  <2>4. /\ at = "parent" /\ at' = "files"
        /\ a' = [a EXCEPT !.parent = p,
                          !.parentConfig = IF g /\ p # Nothing THEN Content(p).config ELSE Nothing]
    BY <1>12 DEF FetchParentImageConfig
  <2> HIDE DEF p
  <2>5. /\ a'.reference = a.reference /\ a'.config = a.config /\ a'.files = a.files /\ a'.parent = p
        /\ a'.parentConfig = IF g /\ p # Nothing THEN Content(p).config ELSE Nothing
    BY <1>0, <2>4
  <2>6. a'.parentConfig # Nothing => a'.parentConfig = world[world[a.reference].parent].config
    BY <2>3, <2>5
  <2> QED
    BY <1>0, <2>2, <2>4, <2>5, <2>6 DEF PartsInv, PartsOf
<1>13. ASSUME ValidateAttestationSyntax PROVE PartsInv'
  BY <1>13, <1>0 DEF PartsInv, PartsOf, ValidateAttestationSyntax, quiet, given
<1>14. ASSUME NoAttestations PROVE PartsInv'
  BY <1>14, <1>0 DEF PartsInv, PartsOf, NoAttestations, quiet, given
<1>15. ASSUME WriteInputFile PROVE PartsInv'
  BY <1>15, <1>0 DEF PartsInv, PartsOf, WriteInputFile, quiet, given
<1>16. ASSUME WriteInputFails PROVE PartsInv'
  BY <1>16, <1>0 DEF PartsInv, PartsOf, WriteInputFails, ReturnError, quiet, given
<1>17. ASSUME NEW b \in {"image", "attestation"}, NEW ref \in CallRefs, NEW term \in CallTerms,
             NEW reached \in BOOLEAN, Call(b, ref, term, reached) PROVE PartsInv'
  BY <1>17, <1>0 DEF PartsInv, PartsOf, Call, given
<1>18. ASSUME Evaluated PROVE PartsInv'
  BY <1>18, <1>0 DEF PartsInv, PartsOf, Evaluated, quiet, given
<1>19. ASSUME EvaluateFails PROVE PartsInv'
  BY <1>19, <1>0 DEF PartsInv, PartsOf, EvaluateFails, ReturnError, quiet, given
<1>20. ASSUME vars' = vars PROVE PartsInv'
  BY <1>20, <1>0 DEF PartsInv, PartsOf, vars
<1> QED
  BY <1>1, <1>2, <1>3, <1>4, <1>5, <1>6, <1>7, <1>8, <1>9, <1>10, <1>11, <1>12, <1>13,
     <1>14, <1>15, <1>16, <1>17, <1>18, <1>19, <1>20 DEF Next, Validate

\* The signatures of the image are those that verify, up to the first that does not parse.
LEMMA SigStep ==
  ASSUME IInv, [Next]_vars
  PROVE  SigInv'
<1>0. RefInv /\ GivenInv /\ PartsInv /\ SigInv /\ AttInv /\ OutInv /\ InputInv
      /\ world' = world /\ url' = url /\ policy' = policy
  BY Unmoved DEF IInv
<1> USE DEF Early, Late, RefInv, NoImage, NoOutput
<1>1. ASSUME NEW d \in Digests, MoveTag(d) PROVE SigInv'
  BY <1>1, <1>0 DEF SigInv, SigLayers, MoveTag, given
<1>2. ASSUME CreateConfig PROVE SigInv'
  BY <1>2, <1>0 DEF SigInv, SigLayers, CreateConfig, quiet, given
<1>3. ASSUME CreateConfigFails PROVE SigInv'
  BY <1>3, <1>0 DEF SigInv, SigLayers, CreateConfigFails, quiet, given
<1>4. ASSUME NewApplicationSnapshotImage PROVE SigInv'
  BY <1>4, <1>0 DEF SigInv, SigLayers, NewApplicationSnapshotImage, SetImageURL, ReturnError, quiet, given
<1>5. ASSUME NEW f \in BOOLEAN, ValidateImageAccess(f) PROVE SigInv'
  BY <1>5, <1>0 DEF SigInv, SigLayers, ValidateImageAccess, quiet, given
<1>6. ASSUME NEW f \in BOOLEAN, FetchImageConfig(f) PROVE SigInv'
  BY <1>6, <1>0 DEF SigInv, SigLayers, FetchImageConfig, quiet, given
<1>7. ASSUME NEW f \in BOOLEAN, FetchImageFiles(f) PROVE SigInv'
  BY <1>7, <1>0 DEF SigInv, SigLayers, FetchImageFiles, quiet, given
<1>8. ASSUME NEW f \in BOOLEAN, ValidateImageSignature(f) PROVE SigInv'
  <2> DEFINE layers == Verified(policy.checkOpts, Content(a.reference).signatures)
             parsed == Before(layers, {i \in DOMAIN layers : ~SignatureParses(layers[i])})
  <2>1. a.reference \in Digests /\ Content(a.reference) = world[a.reference]
    BY <1>8, <1>0, ContentOf DEF ValidateImageSignature
  <2>2. IsSequence(layers)
    BY <1>0, <2>1, LayersFacts
  <2>3. layers = SigLayers(a.reference)
    BY <2>1 DEF SigLayers
  <2>4. PICK order \in MapOrders(parsed) :
          a' = IF ~f THEN a
               ELSE [a EXCEPT !.signatures =
                       [i \in DOMAIN parsed |-> NewEntitySignature(parsed[i], order[i])]]
    BY <1>8 DEF ValidateImageSignature
  <2>5. /\ at = "signature"
        /\ out' = [out EXCEPT !.signature =
                     IF f /\ layers # <<>> /\ parsed = layers THEN "pass" ELSE "fail"]
    BY <1>8 DEF ValidateImageSignature
  <2> HIDE DEF layers, parsed
  <2>6. a'.reference = a.reference /\ SigLayers(a.reference)' = layers
    BY <1>0, <2>3, <2>4 DEF SigLayers
  <2>7. SignaturesShown(a'.signatures, out'.signature, layers)
    <3>1. CASE ~f
      <4>1. a'.signatures = <<>> /\ out'.signature = "fail"
        BY <1>0, <2>4, <2>5, <3>1
      <4> QED
        BY <2>2, <4>1, NothingShown
    <3>2. CASE f
      <4>1. /\ a'.signatures = [i \in DOMAIN parsed |-> NewEntitySignature(parsed[i], order[i])]
            /\ out'.signature = IF layers # <<>> /\ parsed = layers THEN "pass" ELSE "fail"
        BY <1>0, <2>4, <2>5, <3>2
      <4>2. parsed = Before(layers, {i \in DOMAIN layers : ~SignatureParses(layers[i])})
        BY DEF parsed
      <4> QED
        BY <2>2, <4>1, <4>2, SignatureCheck
    <3> QED
      BY <3>1, <3>2
  <2> QED
    BY <2>6, <2>7 DEF SigInv
<1>9. ASSUME NEW f \in BOOLEAN, ValidateAttestationSignature(f) PROVE SigInv'
  BY <1>9, <1>0 DEF SigInv, SigLayers, ValidateAttestationSignature, quiet, given
<1>10. ASSUME resolveAndSetImageUrl PROVE SigInv'
  BY <1>10, <1>0 DEF SigInv, SigLayers, resolveAndSetImageUrl, SetImageURL, quiet, given
<1>11. ASSUME ResolveFails PROVE SigInv'
  BY <1>11, <1>0 DEF SigInv, SigLayers, ResolveFails, ReturnError, quiet, given
<1>12. ASSUME NEW f \in BOOLEAN, NEW g \in BOOLEAN, FetchParentImageConfig(f, g) PROVE SigInv'
  BY <1>12, <1>0 DEF SigInv, SigLayers, FetchParentImageConfig, quiet, given
<1>13. ASSUME ValidateAttestationSyntax PROVE SigInv'
  BY <1>13, <1>0 DEF SigInv, SigLayers, ValidateAttestationSyntax, quiet, given
<1>14. ASSUME NoAttestations PROVE SigInv'
  BY <1>14, <1>0 DEF SigInv, SigLayers, NoAttestations, quiet, given
<1>15. ASSUME WriteInputFile PROVE SigInv'
  BY <1>15, <1>0 DEF SigInv, SigLayers, WriteInputFile, quiet, given
<1>16. ASSUME WriteInputFails PROVE SigInv'
  BY <1>16, <1>0 DEF SigInv, SigLayers, WriteInputFails, ReturnError, quiet, given
<1>17. ASSUME NEW b \in {"image", "attestation"}, NEW ref \in CallRefs, NEW term \in CallTerms,
             NEW reached \in BOOLEAN, Call(b, ref, term, reached) PROVE SigInv'
  BY <1>17, <1>0 DEF SigInv, SigLayers, Call, given
<1>18. ASSUME Evaluated PROVE SigInv'
  BY <1>18, <1>0 DEF SigInv, SigLayers, Evaluated, quiet, given
<1>19. ASSUME EvaluateFails PROVE SigInv'
  BY <1>19, <1>0 DEF SigInv, SigLayers, EvaluateFails, ReturnError, quiet, given
<1>20. ASSUME vars' = vars PROVE SigInv'
  BY <1>20, <1>0 DEF SigInv, SigLayers, vars
<1> QED
  BY <1>1, <1>2, <1>3, <1>4, <1>5, <1>6, <1>7, <1>8, <1>9, <1>10, <1>11, <1>12, <1>13,
     <1>14, <1>15, <1>16, <1>17, <1>18, <1>19, <1>20 DEF Next, Validate

\* The attestations of the image are all that verify.
LEMMA AttStep ==
  ASSUME IInv, [Next]_vars
  PROVE  AttInv'
<1>0. RefInv /\ GivenInv /\ PartsInv /\ SigInv /\ AttInv /\ OutInv /\ InputInv
      /\ world' = world /\ url' = url /\ policy' = policy
  BY Unmoved DEF IInv
<1> USE DEF Early, Late, RefInv, NoImage, NoOutput
<1>1. ASSUME NEW d \in Digests, MoveTag(d) PROVE AttInv'
  BY <1>1, <1>0 DEF AttInv, AttLayers, MoveTag, given
<1>2. ASSUME CreateConfig PROVE AttInv'
  BY <1>2, <1>0 DEF AttInv, AttLayers, CreateConfig, quiet, given
<1>3. ASSUME CreateConfigFails PROVE AttInv'
  BY <1>3, <1>0 DEF AttInv, AttLayers, CreateConfigFails, quiet, given
<1>4. ASSUME NewApplicationSnapshotImage PROVE AttInv'
  BY <1>4, <1>0 DEF AttInv, AttLayers, NewApplicationSnapshotImage, SetImageURL, ReturnError, quiet, given
<1>5. ASSUME NEW f \in BOOLEAN, ValidateImageAccess(f) PROVE AttInv'
  BY <1>5, <1>0 DEF AttInv, AttLayers, ValidateImageAccess, quiet, given
<1>6. ASSUME NEW f \in BOOLEAN, FetchImageConfig(f) PROVE AttInv'
  BY <1>6, <1>0 DEF AttInv, AttLayers, FetchImageConfig, quiet, given
<1>7. ASSUME NEW f \in BOOLEAN, FetchImageFiles(f) PROVE AttInv'
  BY <1>7, <1>0 DEF AttInv, AttLayers, FetchImageFiles, quiet, given
<1>8. ASSUME NEW f \in BOOLEAN, ValidateImageSignature(f) PROVE AttInv'
  BY <1>8, <1>0 DEF AttInv, AttLayers, ValidateImageSignature, quiet, given
<1>9. ASSUME NEW f \in BOOLEAN, ValidateAttestationSignature(f) PROVE AttInv'
  <2> DEFINE layers == Verified(policy.checkOpts, Content(a.reference).attestations)
             parsed == Before(layers, {i \in DOMAIN layers : ~AttestationParses(layers[i])})
  <2>1. a.reference \in Digests /\ Content(a.reference) = world[a.reference]
    BY <1>9, <1>0, ContentOf DEF ValidateAttestationSignature
  <2>2. IsSequence(layers)
    BY <1>0, <2>1, LayersFacts
  <2>3. layers = AttLayers(a.reference)
    BY <2>1 DEF AttLayers
  <2>4. PICK order \in MapOrders(parsed) :
          a' = IF ~f THEN a
               ELSE [a EXCEPT !.attestations =
                       [i \in DOMAIN parsed |-> Provenance(parsed[i], order[i])]]
    BY <1>9 DEF ValidateAttestationSignature
  <2>5. at' = IF f /\ parsed = layers THEN "syntax" ELSE "done"
    BY <1>9 DEF ValidateAttestationSignature
  <2> HIDE DEF layers
  <2>6. a'.reference = a.reference /\ AttLayers(a.reference)' = layers
    BY <1>0, <2>3, <2>4 DEF AttLayers
  <2>7. ASSUME f, parsed = layers PROVE AttestationsShown(a'.attestations, layers)
    <3>1. order \in MapOrders(layers) /\ layers = Before(layers, {i \in DOMAIN layers : ~AttestationParses(layers[i])})
      BY <2>4, <2>7
    <3>2. a'.attestations = [i \in DOMAIN layers |-> Provenance(layers[i], order[i])]
      <4> HIDE DEF parsed
      <4> QED
        BY <1>0, <2>4, <2>7
    <3> QED
      BY <2>2, <3>1, <3>2, AttestationCheck
  <2> QED
    BY <2>5, <2>6, <2>7 DEF AttInv
<1>10. ASSUME resolveAndSetImageUrl PROVE AttInv'
  BY <1>10, <1>0 DEF AttInv, AttLayers, resolveAndSetImageUrl, SetImageURL, quiet, given
<1>11. ASSUME ResolveFails PROVE AttInv'
  BY <1>11, <1>0 DEF AttInv, AttLayers, ResolveFails, ReturnError, quiet, given
<1>12. ASSUME NEW f \in BOOLEAN, NEW g \in BOOLEAN, FetchParentImageConfig(f, g) PROVE AttInv'
  BY <1>12, <1>0 DEF AttInv, AttLayers, FetchParentImageConfig, quiet, given
<1>13. ASSUME ValidateAttestationSyntax PROVE AttInv'
  BY <1>13, <1>0 DEF AttInv, AttLayers, ValidateAttestationSyntax, quiet, given
<1>14. ASSUME NoAttestations PROVE AttInv'
  BY <1>14, <1>0 DEF AttInv, AttLayers, NoAttestations, quiet, given
<1>15. ASSUME WriteInputFile PROVE AttInv'
  BY <1>15, <1>0 DEF AttInv, AttLayers, WriteInputFile, quiet, given
<1>16. ASSUME WriteInputFails PROVE AttInv'
  BY <1>16, <1>0 DEF AttInv, AttLayers, WriteInputFails, ReturnError, quiet, given
<1>17. ASSUME NEW b \in {"image", "attestation"}, NEW ref \in CallRefs, NEW term \in CallTerms,
             NEW reached \in BOOLEAN, Call(b, ref, term, reached) PROVE AttInv'
  BY <1>17, <1>0 DEF AttInv, AttLayers, Call, given
<1>18. ASSUME Evaluated PROVE AttInv'
  BY <1>18, <1>0 DEF AttInv, AttLayers, Evaluated, quiet, given
<1>19. ASSUME EvaluateFails PROVE AttInv'
  BY <1>19, <1>0 DEF AttInv, AttLayers, EvaluateFails, ReturnError, quiet, given
<1>20. ASSUME vars' = vars PROVE AttInv'
  BY <1>20, <1>0 DEF AttInv, AttLayers, vars
<1> QED
  BY <1>1, <1>2, <1>3, <1>4, <1>5, <1>6, <1>7, <1>8, <1>9, <1>10, <1>11, <1>12, <1>13,
     <1>14, <1>15, <1>16, <1>17, <1>18, <1>19, <1>20 DEF Next, Validate

\* A verdict is not the empty string.
LEMMA Verdicts == "pass" # Empty /\ "fail" # Empty
BY Zenon DEF Empty

\* One more element.
LEMMA AppendFacts ==
  ASSUME NEW s, IsSequence(s), NEW x
  PROVE  /\ IsSequence(Append(s, x)) /\ DOMAIN Append(s, x) = DOMAIN s \cup {Len(s) + 1}
         /\ \A i \in DOMAIN s : Append(s, x)[i] = s[i]
         /\ Append(s, x)[Len(s) + 1] = x
<1> DEFINE S == ToSet(s) \cup {x}
           t == Append(s, x)
           n == Len(s)
<1>1. s \in Seq(S) /\ x \in S
  BY DEF IsSequence
<1>2. n \in Nat /\ DOMAIN s = 1..n
  BY SequenceFacts
<1>3. t \in Seq(S) /\ Len(t) = n + 1 /\ \A i \in 1..n : t[i] = s[i]
  <2> HIDE DEF S
  <2> QED
    BY <1>1, AppendProperties
<1>4. t[n + 1] = x
  <2> HIDE DEF S
  <2> QED
    BY <1>1, AppendProperties
<1>5. DOMAIN t = 1..(n + 1) /\ t = [i \in 1..(n + 1) |-> t[i]]
  <2> HIDE DEF S, t, n
  <2> QED
    BY <1>3
<1> HIDE DEF t, n
<1>6. IsSequence(t)
  BY <1>2, <1>5, FunctionIsSequence
<1>7. 1..(n + 1) = 1..n \cup {n + 1}
  BY <1>2
<1> QED
  BY <1>2, <1>3, <1>4, <1>5, <1>6, <1>7 DEF t, n

\* What the output shows was verified for the image that it names.
LEMMA OutStep ==
  ASSUME IInv, [Next]_vars
  PROVE  OutInv'
<1>0. RefInv /\ GivenInv /\ PartsInv /\ SigInv /\ AttInv /\ OutInv /\ InputInv
      /\ world' = world /\ url' = url /\ policy' = policy
  BY Unmoved DEF IInv
<1> USE DEF Early, Late, RefInv, NoImage, NoOutput
<1>1. ASSUME NEW d \in Digests, MoveTag(d) PROVE OutInv'
  BY <1>1, <1>0 DEF OutInv, SigLayers, AttLayers, MoveTag, given
<1>2. ASSUME CreateConfig PROVE OutInv'
  BY <1>2, <1>0 DEF OutInv, SigLayers, AttLayers, CreateConfig, quiet, given
<1>3. ASSUME CreateConfigFails PROVE OutInv'
  BY <1>3, <1>0 DEF OutInv, SigLayers, AttLayers, CreateConfigFails, quiet, given
<1>4. ASSUME NewApplicationSnapshotImage PROVE OutInv'
  BY <1>4, <1>0 DEF OutInv, SigLayers, AttLayers, NewApplicationSnapshotImage, SetImageURL, ReturnError, quiet, given
<1>5. ASSUME NEW f \in BOOLEAN, ValidateImageAccess(f) PROVE OutInv'
  BY <1>5, <1>0 DEF OutInv, SigLayers, AttLayers, ValidateImageAccess, quiet, given
<1>6. ASSUME NEW f \in BOOLEAN, FetchImageConfig(f) PROVE OutInv'
  BY <1>6, <1>0 DEF OutInv, SigLayers, AttLayers, FetchImageConfig, quiet, given
<1>7. ASSUME NEW f \in BOOLEAN, FetchImageFiles(f) PROVE OutInv'
  BY <1>7, <1>0 DEF OutInv, SigLayers, AttLayers, FetchImageFiles, quiet, given
<1>8. ASSUME NEW f \in BOOLEAN, ValidateImageSignature(f) PROVE OutInv'
  BY <1>8, <1>0 DEF OutInv, SigLayers, AttLayers, ValidateImageSignature, quiet, given
<1>9. ASSUME NEW f \in BOOLEAN, ValidateAttestationSignature(f) PROVE OutInv'
  BY <1>9, <1>0 DEF OutInv, SigLayers, AttLayers, ValidateAttestationSignature, quiet, given
<1>10. ASSUME resolveAndSetImageUrl PROVE OutInv'
  BY <1>10, <1>0 DEF OutInv, SigLayers, AttLayers, resolveAndSetImageUrl, SetImageURL, quiet, given
<1>11. ASSUME ResolveFails PROVE OutInv'
  BY <1>11, <1>0 DEF OutInv, SigLayers, AttLayers, ResolveFails, ReturnError, quiet, given
<1>12. ASSUME NEW f \in BOOLEAN, NEW g \in BOOLEAN, FetchParentImageConfig(f, g) PROVE OutInv'
  BY <1>12, <1>0 DEF OutInv, SigLayers, AttLayers, FetchParentImageConfig, quiet, given
<1>13. ASSUME ValidateAttestationSyntax PROVE OutInv'
  <2>1. /\ out'.signatures = a.signatures /\ out'.attestations = a.attestations
        /\ out'.syntax = (IF SyntaxValid(a.attestations) THEN "pass" ELSE "fail")
        /\ out'.imageUrl = out.imageUrl /\ out'.signature = out.signature
    BY <1>13, <1>0 DEF ValidateAttestationSyntax
  <2>2. at = "syntax" /\ a.reference \in Digests /\ out.imageUrl = a.reference
    BY <1>13, <1>0 DEF ValidateAttestationSyntax
  <2>3. /\ SignaturesShown(a.signatures, out.signature, SigLayers(a.reference))
        /\ AttestationsShown(a.attestations, AttLayers(a.reference))
    BY <1>0, <2>2 DEF SigInv, AttInv
  <2>4. out'.syntax # Empty /\ (out'.syntax = "pass" => SyntaxValid(a.attestations))
    BY <2>1, Verdicts
  <2> QED
    BY <1>0, <2>1, <2>2, <2>3, <2>4 DEF OutInv, SigLayers, AttLayers
<1>14. ASSUME NoAttestations PROVE OutInv'
  BY <1>14, <1>0 DEF OutInv, SigLayers, AttLayers, NoAttestations, quiet, given
<1>15. ASSUME WriteInputFile PROVE OutInv'
  BY <1>15, <1>0 DEF OutInv, SigLayers, AttLayers, WriteInputFile, quiet, given
<1>16. ASSUME WriteInputFails PROVE OutInv'
  BY <1>16, <1>0 DEF OutInv, SigLayers, AttLayers, WriteInputFails, ReturnError, quiet, given
<1>17. ASSUME NEW b \in {"image", "attestation"}, NEW ref \in CallRefs, NEW term \in CallTerms,
             NEW reached \in BOOLEAN, Call(b, ref, term, reached) PROVE OutInv'
  BY <1>17, <1>0 DEF OutInv, SigLayers, AttLayers, Call, given
<1>18. ASSUME Evaluated PROVE OutInv'
  BY <1>18, <1>0 DEF OutInv, SigLayers, AttLayers, Evaluated, quiet, given
<1>19. ASSUME EvaluateFails PROVE OutInv'
  BY <1>19, <1>0 DEF OutInv, SigLayers, AttLayers, EvaluateFails, ReturnError, quiet, given
<1>20. ASSUME vars' = vars PROVE OutInv'
  BY <1>20, <1>0 DEF OutInv, SigLayers, AttLayers, vars
<1> QED
  BY <1>1, <1>2, <1>3, <1>4, <1>5, <1>6, <1>7, <1>8, <1>9, <1>10, <1>11, <1>12, <1>13,
     <1>14, <1>15, <1>16, <1>17, <1>18, <1>19, <1>20 DEF Next, Validate

\* What the rules see belongs to the image that the output names.
LEMMA InputStep ==
  ASSUME IInv, [Next]_vars
  PROVE  InputInv'
<1>0. RefInv /\ GivenInv /\ PartsInv /\ SigInv /\ AttInv /\ OutInv /\ InputInv
      /\ world' = world /\ url' = url /\ policy' = policy
  BY Unmoved DEF IInv
<1> USE DEF Early, Late, RefInv, NoImage, NoOutput
<1>1. ASSUME NEW d \in Digests, MoveTag(d) PROVE InputInv'
  BY <1>1, <1>0 DEF InputInv, AttLayers, GivenInv, OutInv, MoveTag, given
<1>2. ASSUME CreateConfig PROVE InputInv'
  BY <1>2, <1>0 DEF InputInv, AttLayers, GivenInv, OutInv, CreateConfig, quiet, given
<1>3. ASSUME CreateConfigFails PROVE InputInv'
  BY <1>3, <1>0 DEF InputInv, AttLayers, GivenInv, OutInv, CreateConfigFails, quiet, given
<1>4. ASSUME NewApplicationSnapshotImage PROVE InputInv'
  BY <1>4, <1>0 DEF InputInv, AttLayers, GivenInv, OutInv, NewApplicationSnapshotImage, SetImageURL, ReturnError, quiet, given
<1>5. ASSUME NEW f \in BOOLEAN, ValidateImageAccess(f) PROVE InputInv'
  BY <1>5, <1>0 DEF InputInv, AttLayers, GivenInv, OutInv, ValidateImageAccess, quiet, given
<1>6. ASSUME NEW f \in BOOLEAN, FetchImageConfig(f) PROVE InputInv'
  BY <1>6, <1>0 DEF InputInv, AttLayers, GivenInv, OutInv, FetchImageConfig, quiet, given
<1>7. ASSUME NEW f \in BOOLEAN, FetchImageFiles(f) PROVE InputInv'
  BY <1>7, <1>0 DEF InputInv, AttLayers, GivenInv, OutInv, FetchImageFiles, quiet, given
<1>8. ASSUME NEW f \in BOOLEAN, ValidateImageSignature(f) PROVE InputInv'
  BY <1>8, <1>0 DEF InputInv, AttLayers, GivenInv, OutInv, ValidateImageSignature, quiet, given
<1>9. ASSUME NEW f \in BOOLEAN, ValidateAttestationSignature(f) PROVE InputInv'
  BY <1>9, <1>0 DEF InputInv, AttLayers, GivenInv, OutInv, ValidateAttestationSignature, quiet, given
<1>10. ASSUME resolveAndSetImageUrl PROVE InputInv'
  BY <1>10, <1>0 DEF InputInv, AttLayers, GivenInv, OutInv, resolveAndSetImageUrl, SetImageURL, quiet, given
<1>11. ASSUME ResolveFails PROVE InputInv'
  BY <1>11, <1>0 DEF InputInv, AttLayers, GivenInv, OutInv, ResolveFails, ReturnError, quiet, given
<1>12. ASSUME NEW f \in BOOLEAN, NEW g \in BOOLEAN, FetchParentImageConfig(f, g) PROVE InputInv'
  BY <1>12, <1>0 DEF InputInv, AttLayers, GivenInv, OutInv, FetchParentImageConfig, quiet, given
<1>13. ASSUME ValidateAttestationSyntax PROVE InputInv'
  BY <1>13, <1>0 DEF InputInv, AttLayers, GivenInv, OutInv, ValidateAttestationSyntax, quiet, given
<1>14. ASSUME NoAttestations PROVE InputInv'
  BY <1>14, <1>0 DEF InputInv, AttLayers, GivenInv, OutInv, NoAttestations, quiet, given
<1>15. ASSUME WriteInputFile PROVE InputInv'
  <2>1. /\ at = "input" /\ at' = "evaluate" /\ out' = out /\ defaults' = defaults
        /\ input'.ref = a.reference /\ input'.attestations = a.attestations
        /\ a.attestations # <<>>
        /\ input'.config = a.config /\ input'.files = a.files
        /\ input'.parent = a.parent /\ input'.parentConfig = a.parentConfig
    BY <1>15 DEF WriteInputFile
  <2>2. policy.kind = "image" /\ defaults = SigstoreOpts(policy)
    BY <1>0, <2>1 DEF GivenInv
  <2>3. /\ a.reference \in Digests /\ out.imageUrl = a.reference
        /\ PartsOf(a, world[a.reference], world[world[a.reference].parent].config)
        /\ AttestationsShown(a.attestations, AttLayers(a.reference))
        /\ out.syntax # Empty
    BY <1>0, <2>1 DEF PartsInv, AttInv, OutInv
  <2>4. PartsOf(input', world[a.reference], world[world[a.reference].parent].config)
    BY <2>1, <2>3 DEF PartsOf
  <2> QED
    BY <1>0, <2>1, <2>2, <2>3, <2>4 DEF InputInv, AttLayers
<1>16. ASSUME WriteInputFails PROVE InputInv'
  BY <1>16, <1>0 DEF InputInv, AttLayers, GivenInv, OutInv, WriteInputFails, ReturnError, quiet, given
<1>17. ASSUME NEW b \in {"image", "attestation"}, NEW ref \in CallRefs, NEW term \in CallTerms,
             NEW reached \in BOOLEAN, Call(b, ref, term, reached) PROVE InputInv'
  BY <1>17, <1>0 DEF InputInv, AttLayers, GivenInv, OutInv, Call, given
<1>18. ASSUME Evaluated PROVE InputInv'
  BY <1>18, <1>0 DEF InputInv, AttLayers, GivenInv, OutInv, Evaluated, quiet, given
<1>19. ASSUME EvaluateFails PROVE InputInv'
  BY <1>19, <1>0 DEF InputInv, AttLayers, GivenInv, OutInv, EvaluateFails, ReturnError, quiet, given
<1>20. ASSUME vars' = vars PROVE InputInv'
  BY <1>20, <1>0 DEF InputInv, AttLayers, GivenInv, OutInv, vars
<1> QED
  BY <1>1, <1>2, <1>3, <1>4, <1>5, <1>6, <1>7, <1>8, <1>9, <1>10, <1>11, <1>12, <1>13,
     <1>14, <1>15, <1>16, <1>17, <1>18, <1>19, <1>20 DEF Next, Validate

\* Every answer of a builtin is explained.
LEMMA AnswersStep ==
  ASSUME IInv, [Next]_vars
  PROVE  AnswersInv'
<1>0. AnswersInv /\ world' = world
  BY Unmoved DEF IInv
<1>1. ASSUME NEW d \in Digests, MoveTag(d) PROVE AnswersInv'
  BY <1>1, <1>0 DEF AnswersInv, CallLayers, MoveTag, given
<1>2. ASSUME CreateConfig PROVE AnswersInv'
  BY <1>2, <1>0 DEF AnswersInv, CallLayers, CreateConfig, quiet, given
<1>3. ASSUME CreateConfigFails PROVE AnswersInv'
  BY <1>3, <1>0 DEF AnswersInv, CallLayers, CreateConfigFails, quiet, given
<1>4. ASSUME NewApplicationSnapshotImage PROVE AnswersInv'
  BY <1>4, <1>0 DEF AnswersInv, CallLayers, NewApplicationSnapshotImage, SetImageURL, ReturnError, quiet, given
<1>5. ASSUME NEW f \in BOOLEAN, ValidateImageAccess(f) PROVE AnswersInv'
  BY <1>5, <1>0 DEF AnswersInv, CallLayers, ValidateImageAccess, quiet, given
<1>6. ASSUME NEW f \in BOOLEAN, FetchImageConfig(f) PROVE AnswersInv'
  BY <1>6, <1>0 DEF AnswersInv, CallLayers, FetchImageConfig, quiet, given
<1>7. ASSUME NEW f \in BOOLEAN, FetchImageFiles(f) PROVE AnswersInv'
  BY <1>7, <1>0 DEF AnswersInv, CallLayers, FetchImageFiles, quiet, given
<1>8. ASSUME NEW f \in BOOLEAN, ValidateImageSignature(f) PROVE AnswersInv'
  BY <1>8, <1>0 DEF AnswersInv, CallLayers, ValidateImageSignature, quiet, given
<1>9. ASSUME NEW f \in BOOLEAN, ValidateAttestationSignature(f) PROVE AnswersInv'
  BY <1>9, <1>0 DEF AnswersInv, CallLayers, ValidateAttestationSignature, quiet, given
<1>10. ASSUME resolveAndSetImageUrl PROVE AnswersInv'
  BY <1>10, <1>0 DEF AnswersInv, CallLayers, resolveAndSetImageUrl, SetImageURL, quiet, given
<1>11. ASSUME ResolveFails PROVE AnswersInv'
  BY <1>11, <1>0 DEF AnswersInv, CallLayers, ResolveFails, ReturnError, quiet, given
<1>12. ASSUME NEW f \in BOOLEAN, NEW g \in BOOLEAN, FetchParentImageConfig(f, g) PROVE AnswersInv'
  BY <1>12, <1>0 DEF AnswersInv, CallLayers, FetchParentImageConfig, quiet, given
<1>13. ASSUME ValidateAttestationSyntax PROVE AnswersInv'
  BY <1>13, <1>0 DEF AnswersInv, CallLayers, ValidateAttestationSyntax, quiet, given
<1>14. ASSUME NoAttestations PROVE AnswersInv'
  BY <1>14, <1>0 DEF AnswersInv, CallLayers, NoAttestations, quiet, given
<1>15. ASSUME WriteInputFile PROVE AnswersInv'
  BY <1>15, <1>0 DEF AnswersInv, CallLayers, WriteInputFile, quiet, given
<1>16. ASSUME WriteInputFails PROVE AnswersInv'
  BY <1>16, <1>0 DEF AnswersInv, CallLayers, WriteInputFails, ReturnError, quiet, given
<1>17. ASSUME NEW b \in {"image", "attestation"}, NEW ref \in CallRefs, NEW term \in CallTerms,
             NEW reached \in BOOLEAN, Call(b, ref, term, reached) PROVE AnswersInv'
  <2> DEFINE c == <<b, ref, term>>
             layers == CallLayers(b, ref, term)
  <2>1. PICK r : answers' = Append(answers, [call |-> c, answer |-> r]) /\ Explained(b, ref, term, r, layers)
    <3>1. CASE BadCall(ref, term)
      <4>1. answers' = Append(answers, [call |-> c, answer |-> Refusal(ref, term)])
        BY <1>17, <3>1 DEF Call
      <4>2. Explained(b, ref, term, Refusal(ref, term), layers)
        BY <3>1 DEF Explained
      <4> QED
        BY <4>1, <4>2
    <3>2. CASE ~BadCall(ref, term)
      <4>1. ref \in Digests /\ Content(ref) = world[ref]
        BY <3>2, ContentOf DEF BadCall
      <4>2. layers = (IF b = "image" THEN Verified(parseCheckOpts(term), Content(ref).signatures)
                      ELSE Verified(parseCheckOpts(term), Content(ref).attestations))
        BY <4>1 DEF CallLayers
      <4> HIDE DEF layers
      <4>3. PICK order \in MapOrders(layers) :
              answers' = Append(answers,
                [call |-> c, answer |-> IF b = "image" THEN sigstoreVerifyImage(ref, term, reached, order)
                                        ELSE sigstoreVerifyAttestation(ref, term, reached, order)])
        BY <1>17, <3>2, <4>2 DEF Call
      <4> DEFINE r == IF b = "image" THEN sigstoreVerifyImage(ref, term, reached, order)
                      ELSE sigstoreVerifyAttestation(ref, term, reached, order)
      <4>4. r = CASE ~reached -> Failed("request")
                  [] reached /\ layers = <<>> -> Failed("unmatched")
                  [] OTHER -> ResultOf(b, layers, order)
        <5>1. CASE b = "image"
          BY <4>2, <5>1 DEF sigstoreVerifyImage, ResultOf
        <5>2. CASE b # "image"
          BY <4>2, <5>2 DEF sigstoreVerifyAttestation, ResultOf
        <5> QED
          BY <5>1, <5>2
      <4> HIDE DEF r
      <4>5. Explained(b, ref, term, r, layers)
        BY <3>2, <4>3, <4>4 DEF Explained
      <4> QED
        BY <4>3, <4>5 DEF r
    <3> QED
      BY <3>1, <3>2
  <2>2. /\ IsSequence(answers') /\ DOMAIN answers' = DOMAIN answers \cup {Len(answers) + 1}
        /\ \A i \in DOMAIN answers : answers'[i] = answers[i]
        /\ answers'[Len(answers) + 1] = [call |-> c, answer |-> r]
    <3>1. IsSequence(answers)
      BY <1>0 DEF AnswersInv
    <3> HIDE DEF c
    <3> QED
      BY <2>1, <3>1, AppendFacts
  <2>3. ASSUME NEW k \in DOMAIN answers'
        PROVE  \E d \in {"image", "attestation"}, q \in CallRefs : \E t :
                 /\ answers'[k].call = <<d, q, t>>
                 /\ Explained(d, q, t, answers'[k].answer, CallLayers(d, q, t))
    <3>1. CASE k \in DOMAIN answers
      BY <1>0, <2>2, <3>1 DEF AnswersInv
    <3>2. CASE k = Len(answers) + 1
      <4>1. answers'[k].call = c /\ answers'[k].answer = r
        BY <2>2, <3>2
      <4> QED
        BY <2>1, <4>1
    <3> QED
      BY <2>2, <3>1, <3>2
  <2>4. ASSUME NEW d, NEW q, NEW t PROVE CallLayers(d, q, t)' = CallLayers(d, q, t)
    BY <1>0 DEF CallLayers
  <2> HIDE DEF c, layers
  <2> QED
    BY <2>2, <2>3, <2>4 DEF AnswersInv
<1>18. ASSUME Evaluated PROVE AnswersInv'
  BY <1>18, <1>0 DEF AnswersInv, CallLayers, Evaluated, quiet, given
<1>19. ASSUME EvaluateFails PROVE AnswersInv'
  BY <1>19, <1>0 DEF AnswersInv, CallLayers, EvaluateFails, ReturnError, quiet, given
<1>20. ASSUME vars' = vars PROVE AnswersInv'
  BY <1>20, <1>0 DEF AnswersInv, CallLayers, vars
<1> QED
  BY <1>1, <1>2, <1>3, <1>4, <1>5, <1>6, <1>7, <1>8, <1>9, <1>10, <1>11, <1>12, <1>13,
     <1>14, <1>15, <1>16, <1>17, <1>18, <1>19, <1>20 DEF Next, Validate

\* The invariant holds initially.
LEMMA InitInv ==
  ASSUME Init
  PROVE  IInv
<1> USE DEF Init
<1>1. GivenInv
  <2>1. PICK p \in Policies : policy = PolicyObject(p) /\ (p.kind = "image" => PolicyMade(p))
    OBVIOUS
  <2> QED
    BY <2>1 DEF GivenInv, Early, Late
<1>2. RefInv
  BY DEF RefInv, Early, Late, NoImage, NoOutput
<1>3. PartsInv /\ SigInv /\ AttInv
  BY DEF PartsInv, SigInv, AttInv, Late
<1>4. OutInv /\ InputInv
  BY DEF OutInv, InputInv, NoOutput, NoInput
<1>5. AnswersInv
  BY DEF AnswersInv, IsSequence
<1> QED
  BY <1>1, <1>2, <1>3, <1>4, <1>5 DEF IInv

\* The inductive invariant of ValidateImage and of the builtins: what is fetched belongs to
\* the digest that the reference was resolved to, what is shown is what was verified for it,
\* and every answer of a builtin has its reason.
THEOREM Invariance == Spec => []IInv
<1>1. Init => IInv
  BY InitInv
<1>2. IInv /\ [Next]_vars => IInv'
  <2> SUFFICES ASSUME IInv, [Next]_vars PROVE IInv'
    OBVIOUS
  <2>1. GivenInv' /\ RefInv' /\ PartsInv' /\ SigInv'
    BY GivenStep, RefStep, PartsStep, SigStep
  <2>2. AttInv' /\ OutInv' /\ InputInv' /\ AnswersInv'
    BY AttStep, OutStep, InputStep, AnswersStep
  <2> QED
    BY <2>1, <2>2 DEF IInv
<1> QED
  BY <1>1, <1>2, PTL DEF Spec

-----------------------------------------------------------------------------
(* What follows *)

\* The layers that verify are those that cosign accepts.
LEMMA VerifiedFacts ==
  ASSUME NEW c, NEW s, IsSequence(s)
  PROVE  /\ IsSequence(Verified(c, s))
         /\ \A k \in DOMAIN Verified(c, s) : \E i \in DOMAIN s : Verified(c, s)[k] = s[i]
<1> DEFINE I == {i \in DOMAIN s : Accepts(c, s[i])}
<1>1. I \in SUBSET DOMAIN s
  OBVIOUS
<1>2. Verified(c, s) = Kept(s, I)
  BY DEF Verified
<1> HIDE DEF I
<1>3. /\ IsSequence(Kept(s, I))
      /\ \A k \in DOMAIN Kept(s, I) : \E i \in I : Kept(s, I)[k] = s[i]
  BY <1>1, KeptFacts
<1> QED
  BY <1>1, <1>2, <1>3

\* There are as many of them as there are layers that a condition cosign checks holds for, or fewer.
LEMMA VerifiedSize ==
  ASSUME NEW c, NEW s, IsSequence(s), NEW J \in SUBSET DOMAIN s,
         \A i \in DOMAIN s : Accepts(c, s[i]) => i \in J
  PROVE  Len(Verified(c, s)) <= Cardinality(J)
<1> DEFINE I == {i \in DOMAIN s : Accepts(c, s[i])}
<1>1. I \in SUBSET DOMAIN s /\ I \in SUBSET J
  OBVIOUS
<1>2. Verified(c, s) = Kept(s, I)
  BY DEF Verified
<1> HIDE DEF I
<1>3. Len(Kept(s, I)) = Cardinality(I)
  BY <1>1, KeptFacts
<1>4. IsFiniteSet(J)
  BY SequenceFacts, FS_Subset
<1>5. Cardinality(I) <= Cardinality(J)
  BY <1>1, <1>4, FS_Subset
<1> QED
  BY <1>2, <1>3, <1>5

LEMMA AttestationsOf ==
  ASSUME GivenInv, NEW ref \in Digests
  PROVE  \A k \in DOMAIN AttLayers(ref) :
           \E j \in DOMAIN world[ref].attestations : AttLayers(ref)[k] = world[ref].attestations[j]
<1>1. IsSequence(world[ref].attestations)
  BY LayersFacts
<1> QED
  BY <1>1, VerifiedFacts DEF AttLayers

\* What is shown of the attestations, one by one.
LEMMA ShownAttestations ==
  ASSUME NEW shown, NEW layers, IsSequence(layers), AttestationsShown(shown, layers)
  PROVE  /\ IsSequence(shown) /\ DOMAIN shown = DOMAIN layers /\ Len(shown) = Len(layers)
         /\ \A i \in DOMAIN layers : \E o \in Orders : shown[i] = Provenance(layers[i], o)
         /\ \A i \in DOMAIN layers : shown[i].statement = layers[i].statement
         /\ \A i \in DOMAIN layers : AttestationParses(layers[i])
<1>1. Len(layers) \in Nat /\ DOMAIN layers = 1..Len(layers)
  BY SequenceFacts
<1>2. PICK order \in [1..Len(layers) -> Orders] :
        shown = [i \in 1..Len(layers) |-> Provenance(layers[i], order[i])]
  BY DEF AttestationsShown
<1>3. shown = [i \in 1..Len(layers) |-> shown[i]] /\ DOMAIN shown = 1..Len(layers)
  BY <1>2
<1>4. IsSequence(shown) /\ Len(shown) = Len(layers)
  BY <1>1, <1>3, FunctionIsSequence
<1>5. ASSUME NEW i \in 1..Len(layers) PROVE order[i] \in Orders /\ shown[i] = Provenance(layers[i], order[i])
  BY <1>2
<1>6. ASSUME NEW i \in 1..Len(layers) PROVE shown[i].statement = layers[i].statement
  <2>1. Provenance(layers[i], order[i]).statement = layers[i].statement
    BY DEF Provenance
  <2> QED
    BY <1>5, <2>1
<1>7. \A i \in 1..Len(layers) : AttestationParses(layers[i])
  BY DEF AttestationsShown
<1> QED
  BY <1>1, <1>3, <1>4, <1>5, <1>6, <1>7

\* The rules see one image: the invariant implies it.
LEMMA OneImageHolds ==
  ASSUME IInv
  PROVE  OneImage
<1> SUFFICES ASSUME input.written PROVE OneImage
  BY DEF OneImage
<1> DEFINE image == world[input.ref]
           layers == AttLayers(input.ref)
<1>1. /\ input.ref \in Digests
      /\ at # "error" => out.imageUrl = input.ref
      /\ PartsOf(input, image, world[image.parent].config)
      /\ AttestationsShown(input.attestations, layers)
  BY DEF IInv, InputInv
<1>2. IsSequence(image.attestations) /\ IsSequence(layers)
  BY <1>1, LayersFacts DEF IInv, AttLayers
<1>3. ASSUME NEW k \in DOMAIN layers PROVE \E j \in DOMAIN image.attestations : layers[k] = image.attestations[j]
  BY <1>1, AttestationsOf DEF IInv
<1> HIDE DEF layers, image
<1>4. DOMAIN input.attestations = DOMAIN layers /\ \A k \in DOMAIN layers : input.attestations[k].statement = layers[k].statement
  BY <1>1, <1>2, ShownAttestations
<1>5. \A k \in DOMAIN input.attestations :
        \E j \in DOMAIN image.attestations : input.attestations[k].statement = image.attestations[j].statement
  BY <1>3, <1>4
<1> QED
  BY <1>1, <1>5 DEF OneImage, PartsOf, image

\* Everything that the rules see of an image belongs to the image whose digest the report
\* names, however often the tag moves (validate.go:152), in every registry and for every
\* policy.
THEOREM ImageIsOne == Spec => []OneImage
BY Invariance, OneImageHolds, PTL

\* What is shown of the signatures says the same as the layers, up to some position.
LEMMA ShownSignatures ==
  ASSUME NEW shown, NEW check, NEW layers, IsSequence(layers), SignaturesShown(shown, check, layers)
  PROVE  /\ check = "pass" => layers # <<>> /\ PlainSignatures(shown) = SignaturesOf(layers)
         /\ check = "pass" => \A i \in DOMAIN layers : SignatureParses(layers[i])
         /\ check # "pass" /\ shown # <<>> => \E i \in DOMAIN layers : ~SignatureParses(layers[i])
         /\ IsPrefix(PlainSignatures(shown), SignaturesOf(layers))
<1>1. Len(layers) \in Nat /\ DOMAIN layers = 1..Len(layers) /\ (layers = <<>> <=> Len(layers) = 0)
  BY SequenceFacts
<1>2. PICK n \in 0..Len(layers) : \E order \in [1..n -> Orders] :
        /\ shown = [i \in 1..n |-> NewEntitySignature(layers[i], order[i])]
        /\ check = "pass" =>
             /\ n = Len(layers) /\ n > 0
             /\ \A i \in 1..n : SignatureParses(layers[i])
        /\ check # "pass" /\ n > 0 => \E i \in 1..Len(layers) : ~SignatureParses(layers[i])
  BY DEF SignaturesShown
<1>a. n \in 0..Len(layers)
  BY <1>2, Zenon
<1>3. PICK order \in [1..n -> Orders] :
        /\ shown = [i \in 1..n |-> NewEntitySignature(layers[i], order[i])]
        /\ check = "pass" =>
             /\ n = Len(layers) /\ n > 0
             /\ \A i \in 1..n : SignatureParses(layers[i])
        /\ check # "pass" /\ n > 0 => \E i \in 1..Len(layers) : ~SignatureParses(layers[i])
  BY <1>2
<1> DEFINE P == PlainSignatures(shown)
           S == SignaturesOf(layers)
           N == Len(layers)
<1>4. P = [i \in 1..n |-> P[i]] /\ DOMAIN P = 1..n
  BY <1>3 DEF PlainSignatures
<1>5. S = [i \in 1..N |-> S[i]] /\ DOMAIN S = 1..N
  BY <1>1 DEF SignaturesOf
<1>6. ASSUME NEW i \in 1..n PROVE P[i] = S[i]
  <2>1. i \in 1..N /\ order[i] \in Orders /\ AnyOrder \in Orders
    BY <1>1, <1>a, OrderFacts
  <2>2. P[i] = Plain(NewEntitySignature(layers[i], order[i]))
    BY <1>3 DEF PlainSignatures
  <2>3. S[i] = Plain(NewEntitySignature(layers[i], AnyOrder))
    BY <1>1, <2>1 DEF SignaturesOf
  <2> QED
    BY <2>1, <2>2, <2>3, PlainSame
<1> HIDE DEF P, S
<1>7. check = "pass" => P = S /\ layers # <<>>
  <2> SUFFICES ASSUME check = "pass" PROVE P = S /\ layers # <<>>
    OBVIOUS
  <2>1. n = N /\ n > 0
    BY <1>3
  <2> QED
    BY <1>1, <1>4, <1>5, <1>6, <2>1
<1>8. check = "pass" => \A i \in DOMAIN layers : SignatureParses(layers[i])
  BY <1>1, <1>3
<1>9. check # "pass" /\ shown # <<>> => \E i \in DOMAIN layers : ~SignatureParses(layers[i])
  <2>1. n = 0 => shown = <<>>
    BY <1>3
  <2>2. n = 0 \/ n > 0
    BY <1>a
  <2> QED
    BY <1>1, <1>3, <2>1, <2>2, Zenon
<1>10. IsPrefix(P, S)
  <2>0. n \in Nat /\ n <= N
    BY <1>1, <1>a
  <2>1. IsSequence(P) /\ Len(P) = n /\ IsSequence(S) /\ Len(S) = N
    BY <1>1, <1>4, <1>5, <2>0, FunctionIsSequence
  <2>2. ASSUME NEW T, T \in Seq(ToSet(T)), n <= Len(T)
        PROVE  SubSeq(T, 1, n) = [i \in 1..n |-> T[i]]
    BY <2>0, <2>2
  <2>3. SubSeq(P, 1, Len(P)) = SubSeq(S, 1, Len(P))
    <3>1. SubSeq(P, 1, n) = [i \in 1..n |-> P[i]]
      BY <2>0, <2>1, <2>2 DEF IsSequence
    <3>2. SubSeq(S, 1, n) = [i \in 1..n |-> S[i]]
      BY <2>0, <2>1, <2>2 DEF IsSequence
    <3> QED
      BY <1>6, <2>1, <3>1, <3>2
  <2> QED
    BY <2>0, <2>1, <2>3 DEF IsPrefix
<1> QED
  BY <1>7, <1>8, <1>9, <1>10 DEF P, S

LEMMA ChecksHold ==
  ASSUME IInv
  PROVE  ChecksSound
<1> DEFINE ref == out.imageUrl
           sigs == SigLayers(ref)
           atts == AttLayers(ref)
<1>1. CASE out.syntax = Empty
  BY <1>1, Verdicts DEF ChecksSound, PassedMeansAll, SyntaxSound, SignersKept
<1>2. CASE out.syntax # Empty
  <2>1. /\ ref \in Digests
        /\ SignaturesShown(out.signatures, out.signature, sigs)
        /\ AttestationsShown(out.attestations, atts)
        /\ out.syntax = "pass" => SyntaxValid(out.attestations)
    BY <1>2 DEF IInv, OutInv
  <2>2. IsSequence(world[ref].attestations) /\ IsSequence(sigs) /\ IsSequence(atts)
    BY <2>1, LayersFacts DEF IInv, SigLayers, AttLayers
  <2>3. ASSUME NEW k \in DOMAIN atts PROVE IsSequence(atts[k].envelope)
    <3>1. PICK j \in DOMAIN world[ref].attestations : atts[k] = world[ref].attestations[j]
      BY <2>1, AttestationsOf DEF IInv
    <3>2. IsSequence(world[ref].attestations[j].envelope)
      BY <2>1, WorldAssumption DEF IInv, GivenInv
    <3> QED
      BY <3>1, <3>2
  <2>4. sigs = Verified(policy.checkOpts, world[out.imageUrl].signatures)
        /\ atts = Verified(policy.checkOpts, world[out.imageUrl].attestations)
    BY DEF SigLayers, AttLayers
  <2> HIDE DEF sigs, atts
  <2>5. /\ IsSequence(out.attestations) /\ DOMAIN out.attestations = DOMAIN atts
        /\ Len(out.attestations) = Len(atts)
        /\ \A i \in DOMAIN atts : \E o \in Orders : out.attestations[i] = Provenance(atts[i], o)
        /\ \A i \in DOMAIN atts : out.attestations[i].statement = atts[i].statement
        /\ \A i \in DOMAIN atts : AttestationParses(atts[i])
    BY <2>1, <2>2, ShownAttestations
  <2>6. PassedMeansAll
    <3>1. /\ out.signature = "pass" => sigs # <<>> /\ PlainSignatures(out.signatures) = SignaturesOf(sigs)
          /\ IsPrefix(PlainSignatures(out.signatures), SignaturesOf(sigs))
      BY <2>1, <2>2, ShownSignatures
    <3> QED
      BY <2>4, <2>5, <3>1 DEF PassedMeansAll
  <2>7. SyntaxSound
    <3> SUFFICES ASSUME out.syntax = "pass" PROVE SyntaxSound
      BY DEF SyntaxSound
    <3>1. /\ out.attestations # <<>>
          /\ \A i \in DOMAIN out.attestations :
               out.attestations[i].statement.predicateType = "slsa" => out.attestations[i].statement.conforms
      BY <2>1 DEF SyntaxValid
    <3>2. ASSUME NEW i \in DOMAIN atts, atts[i].statement.predicateType = "slsa" PROVE atts[i].statement.slsa
      <4>1. AttestationParses(atts[i])
        BY <2>5
      <4> QED
        BY <3>2, <4>1 DEF AttestationParses, SLSAProvenanceParses
    <3>3. ASSUME NEW i \in DOMAIN out.attestations, out.attestations[i].statement.predicateType = "slsa"
          PROVE  out.attestations[i].statement.slsa
      BY <2>5, <3>2, <3>3
    <3> QED
      BY <3>1, <3>3 DEF SyntaxSound
  <2>8. SignersKept
    <3> DEFINE shown(i) == out.attestations[i].signatures
    <3>1. ASSUME NEW i \in DOMAIN atts
          PROVE  /\ Len(shown(i)) = Len(atts[i].envelope)
                 /\ atts[i].sig = Empty /\ atts[i].cert = NoCert =>
                      \A j \in DOMAIN shown(i) :
                        /\ shown(i)[j].sig = atts[i].envelope[j].sig
                        /\ shown(i)[j].keyid = atts[i].envelope[j].keyid
      <4> DEFINE e == atts[i].envelope
      <4>1. PICK o \in Orders : out.attestations[i] = Provenance(atts[i], o)
        BY <2>5
      <4>2. shown(i) = createEntitySignatures(atts[i], o)
        BY <4>1 DEF Provenance
      <4>3. Len(e) \in Nat /\ DOMAIN e = 1..Len(e)
        BY <2>3, SequenceFacts
      <4> HIDE DEF e, shown
      <4>4. DOMAIN shown(i) = 1..Len(e) /\ shown(i) = [j \in 1..Len(e) |-> shown(i)[j]]
        BY <4>2, <4>3 DEF createEntitySignatures, e
      <4>5. Len(shown(i)) = Len(e)
        BY <4>3, <4>4, FunctionIsSequence
      <4>6. ASSUME atts[i].sig = Empty, atts[i].cert = NoCert, NEW j \in DOMAIN shown(i)
            PROVE  /\ shown(i)[j].sig = e[j].sig
                   /\ shown(i)[j].keyid = e[j].keyid
        <5>1. NewEntitySignature(atts[i], o).sig = Empty /\ NewEntitySignature(atts[i], o).keyid = Empty
          BY <4>6 DEF NewEntitySignature, NoCert
        <5>2. j \in DOMAIN atts[i].envelope
          BY <4>3, <4>4 DEF e
        <5> QED
          BY <4>2, <5>1, <5>2 DEF createEntitySignatures, e
      <4> QED
        BY <4>5, <4>6 DEF e
    <3> HIDE DEF shown
    <3> QED
      BY <2>4, <3>1 DEF SignersKept, shown
  <2> QED
    BY <2>6, <2>7, <2>8 DEF ChecksSound
<1> QED
  BY <1>1, <1>2

\* A check that passed speaks for all layers that verify, shown in order and as they were
\* signed; the syntax check passes only for SLSA statements that all conform; the signers of
\* an attestation stay apart. For every registry, policy and number of layers.
THEOREM ChecksAreSound == Spec => []ChecksSound
BY Invariance, ChecksHold, PTL

\* A builtin leaves out what does not parse: the positions that it keeps.
LEMMA GoodFacts ==
  ASSUME NEW layers, IsSequence(layers), NEW I \in SUBSET DOMAIN layers, NEW good,
         good = Kept([i \in DOMAIN layers |-> i], I)
  PROVE  /\ Len(good) \in Nat /\ DOMAIN good = 1..Len(good)
         /\ Len(good) = Len(layers) => I = DOMAIN layers
         /\ I = DOMAIN layers => good = [i \in DOMAIN layers |-> i]
<1> DEFINE all == [i \in DOMAIN layers |-> i]
<1>1. Len(layers) \in Nat /\ DOMAIN layers = 1..Len(layers)
  BY SequenceFacts
<1>2. all = [i \in 1..Len(layers) |-> all[i]] /\ DOMAIN all = DOMAIN layers
  BY <1>1
<1>3. good = Kept(all, I)
  OBVIOUS
<1> HIDE DEF all
<1>4. IsSequence(all) /\ Len(all) = Len(layers)
  BY <1>1, <1>2, FunctionIsSequence
<1>5. /\ IsSequence(good)
      /\ Len(good) = Len(all) => I = DOMAIN all
      /\ I = DOMAIN all => good = all
  BY <1>2, <1>3, <1>4, KeptFacts
<1>6. Len(good) \in Nat /\ DOMAIN good = 1..Len(good)
  BY <1>5, SequenceFacts
<1> QED
  BY <1>2, <1>4, <1>5, <1>6 DEF all

\* The result of verify_image is a success exactly if every layer parses, and then it has
\* all of them.
LEMMA SignatureResult ==
  ASSUME NEW layers, IsSequence(layers), NEW order, NEW r, r = signatureResult(layers, order)
  PROVE  /\ r.success <=> \A i \in DOMAIN layers : SignatureParses(layers[i])
         /\ r.success => r.found = [i \in DOMAIN layers |-> NewEntitySignature(layers[i], order[i])]
<1> DEFINE I == {i \in DOMAIN layers : SignatureParses(layers[i])}
           good == Kept([i \in DOMAIN layers |-> i], I)
           values == [i \in DOMAIN good |-> NewEntitySignature(layers[good[i]], order[good[i]])]
<1>1. r = Result(layers, values)
  BY DEF signatureResult
<1>2. I \in SUBSET DOMAIN layers /\ (I = DOMAIN layers <=> \A i \in DOMAIN layers : SignatureParses(layers[i]))
  OBVIOUS
<1> HIDE DEF I
<1>3. /\ Len(good) \in Nat /\ DOMAIN good = 1..Len(good)
      /\ Len(good) = Len(layers) => I = DOMAIN layers
      /\ I = DOMAIN layers => good = [i \in DOMAIN layers |-> i]
  BY <1>2, GoodFacts
<1> HIDE DEF good
<1>4. values = [i \in 1..Len(good) |-> values[i]]
  BY <1>3
<1>5. ASSUME I = DOMAIN layers
      PROVE  values = [i \in DOMAIN layers |-> NewEntitySignature(layers[i], order[i])] /\ Len(good) = Len(layers)
  <2>1. good = [i \in DOMAIN layers |-> i] /\ DOMAIN good = DOMAIN layers
    BY <1>3, <1>5
  <2>2. values = [i \in DOMAIN layers |-> NewEntitySignature(layers[i], order[i])]
    BY <2>1
  <2>3. Len(layers) \in Nat /\ DOMAIN layers = 1..Len(layers)
    BY SequenceFacts
  <2>4. 1..Len(good) = 1..Len(layers)
    BY <1>3, <2>1, <2>3
  <2>5. Len(good) = Len(layers)
    BY <1>3, <2>3, <2>4, Intervals
  <2> QED
    BY <2>2, <2>5
<1> HIDE DEF values
<1>6. Len(values) = Len(good)
  BY <1>3, <1>4, FunctionIsSequence
<1>7. r.success <=> Len(values) = Len(layers)
  BY <1>1 DEF Result
<1>8. r.found = values
  BY <1>1 DEF Result
<1> QED
  BY <1>2, <1>3, <1>5, <1>6, <1>7, <1>8

\* The result of verify_attestation is a success exactly if every layer parses, and then it has
\* all of them.
LEMMA AttestationResult ==
  ASSUME NEW layers, IsSequence(layers), NEW order, NEW r, r = attestationResult(layers, order)
  PROVE  /\ r.success <=> \A i \in DOMAIN layers : ProvenanceParses(layers[i])
         /\ r.success => r.found = [i \in DOMAIN layers |-> Provenance(layers[i], order[i])]
<1> DEFINE I == {i \in DOMAIN layers : ProvenanceParses(layers[i])}
           good == Kept([i \in DOMAIN layers |-> i], I)
           values == [i \in DOMAIN good |-> Provenance(layers[good[i]], order[good[i]])]
<1>1. r = Result(layers, values)
  BY DEF attestationResult
<1>2. I \in SUBSET DOMAIN layers /\ (I = DOMAIN layers <=> \A i \in DOMAIN layers : ProvenanceParses(layers[i]))
  OBVIOUS
<1> HIDE DEF I
<1>3. /\ Len(good) \in Nat /\ DOMAIN good = 1..Len(good)
      /\ Len(good) = Len(layers) => I = DOMAIN layers
      /\ I = DOMAIN layers => good = [i \in DOMAIN layers |-> i]
  BY <1>2, GoodFacts
<1> HIDE DEF good
<1>4. values = [i \in 1..Len(good) |-> values[i]]
  BY <1>3
<1>5. ASSUME I = DOMAIN layers
      PROVE  values = [i \in DOMAIN layers |-> Provenance(layers[i], order[i])] /\ Len(good) = Len(layers)
  <2>1. good = [i \in DOMAIN layers |-> i] /\ DOMAIN good = DOMAIN layers
    BY <1>3, <1>5
  <2>2. values = [i \in DOMAIN layers |-> Provenance(layers[i], order[i])]
    BY <2>1
  <2>3. Len(layers) \in Nat /\ DOMAIN layers = 1..Len(layers)
    BY SequenceFacts
  <2>4. 1..Len(good) = 1..Len(layers)
    BY <1>3, <2>1, <2>3
  <2>5. Len(good) = Len(layers)
    BY <1>3, <2>3, <2>4, Intervals
  <2> QED
    BY <2>2, <2>5
<1> HIDE DEF values
<1>6. Len(values) = Len(good)
  BY <1>3, <1>4, FunctionIsSequence
<1>7. r.success <=> Len(values) = Len(layers)
  BY <1>1 DEF Result
<1>8. r.found = values
  BY <1>1 DEF Result
<1> QED
  BY <1>2, <1>3, <1>5, <1>6, <1>7, <1>8

\* What a call is explained by, if it was successful.
LEMMA Successful ==
  ASSUME NEW b \in {"image", "attestation"}, NEW ref, NEW term, NEW r, NEW layers, IsSequence(layers),
         Explained(b, ref, term, r, layers), r.success
  PROVE  /\ ref \in Digests /\ OptsParse(term) /\ layers # <<>>
         /\ b = "image" => \A i \in DOMAIN layers : SignatureParses(layers[i])
         /\ DOMAIN r.found = DOMAIN layers /\ Len(r.found) = Len(layers)
<1>1. ASSUME NEW why PROVE ~Failed(why).success
  BY DEF Failed
<1>2. ~Refusal(ref, term).success
  BY <1>1 DEF Refusal
<1>3. PICK order \in MapOrders(layers) : r = ResultOf(b, layers, order)
  BY <1>1, <1>2 DEF Explained
<1>4. ref \in Digests /\ OptsParse(term) /\ layers # <<>>
  BY <1>1, <1>2 DEF Explained, BadCall
<1>5. Len(layers) \in Nat /\ DOMAIN layers = 1..Len(layers)
  BY SequenceFacts
<1>6. ASSUME DOMAIN r.found = DOMAIN layers, r.found = [i \in DOMAIN layers |-> r.found[i]]
      PROVE  Len(r.found) = Len(layers)
  BY <1>5, <1>6, FunctionIsSequence
<1>7. CASE b = "image"
  <2>1. r = signatureResult(layers, order)
    BY <1>3, <1>7 DEF ResultOf
  <2>2. /\ \A i \in DOMAIN layers : SignatureParses(layers[i])
        /\ r.found = [i \in DOMAIN layers |-> NewEntitySignature(layers[i], order[i])]
    BY <2>1, SignatureResult
  <2>3. DOMAIN r.found = DOMAIN layers /\ r.found = [i \in DOMAIN layers |-> r.found[i]]
    BY <2>2
  <2> QED
    BY <1>4, <1>6, <2>2, <2>3
<1>8. CASE b # "image"
  <2>1. r = attestationResult(layers, order)
    BY <1>3, <1>8 DEF ResultOf
  <2>2. r.found = [i \in DOMAIN layers |-> Provenance(layers[i], order[i])]
    BY <2>1, AttestationResult
  <2>3. DOMAIN r.found = DOMAIN layers /\ r.found = [i \in DOMAIN layers |-> r.found[i]]
    BY <2>2
  <2> QED
    BY <1>4, <1>6, <1>8, <2>3
<1> QED
  BY <1>7, <1>8

LEMMA DefiniteHolds ==
  ASSUME IInv
  PROVE  BuiltinDefinite
<1> SUFFICES ASSUME NEW k \in DOMAIN answers, answers[k].answer.success
             PROVE  LET r == answers[k].answer
                        o == optionsFromTerm(answers[k].call[3])
                        layers == IF answers[k].call[1] = "image"
                                  THEN world[answers[k].call[2]].signatures
                                  ELSE world[answers[k].call[2]].attestations
                    IN  /\ r.found # <<>>
                        /\ o.key # Empty \/ (o.identity.issuer # Empty /\ o.identity.subject # Empty)
                        /\ Len(r.found) <= Cardinality({j \in DOMAIN layers :
                              IF o.key # Empty THEN layers[j].by.key = Material[o.key]
                              ELSE layers[j].by.identity = o.identity})
  BY DEF BuiltinDefinite
<1>1. PICK b \in {"image", "attestation"}, ref \in CallRefs : \E term :
        /\ answers[k].call = <<b, ref, term>>
        /\ Explained(b, ref, term, answers[k].answer, CallLayers(b, ref, term))
  BY DEF IInv, AnswersInv
<1>2. PICK term :
        /\ answers[k].call = <<b, ref, term>>
        /\ Explained(b, ref, term, answers[k].answer, CallLayers(b, ref, term))
  BY <1>1
<1> DEFINE r == answers[k].answer
           o == optionsFromTerm(term)
           layers == IF b = "image" THEN world[ref].signatures ELSE world[ref].attestations
           c == parseCheckOpts(term)
           J == {j \in DOMAIN layers : IF o.key # Empty THEN layers[j].by.key = Material[o.key]
                                       ELSE layers[j].by.identity = o.identity}
<1>3. answers[k].call[1] = b /\ answers[k].call[2] = ref /\ answers[k].call[3] = term
  BY <1>2
<1>4. ref \in Digests
  BY <1>2 DEF Explained, BadCall, Refusal, Failed
<1>5. IsSequence(layers) /\ IsSequence(CallLayers(b, ref, term))
  <2>1. GivenInv
    BY DEF IInv
  <2> QED
    BY <1>4, <2>1, LayersFacts DEF CallLayers
<1>6. /\ OptsParse(term) /\ CallLayers(b, ref, term) # <<>>
      /\ Len(r.found) = Len(CallLayers(b, ref, term)) /\ DOMAIN r.found = DOMAIN CallLayers(b, ref, term)
  BY <1>2, <1>5, Successful
<1>7. r.found # <<>>
  <2>1. DOMAIN CallLayers(b, ref, term) # {}
    BY <1>5, <1>6, SequenceFacts
  <2> QED
    BY <1>6, <2>1
<1>8. o.key # Empty \/ (o.identity.issuer # Empty /\ o.identity.subject # Empty)
  BY <1>6 DEF OptsParse, PolicyMade, validateIdentity
<1>9. /\ c.verifier = (IF o.key # Empty THEN Material[o.key] ELSE Empty)
      /\ c.identities = (IF o.key # Empty THEN <<>> ELSE <<o.identity>>)
  BY DEF parseCheckOpts, checkOpts
<1>10. ASSUME NEW j \in DOMAIN layers, Accepts(c, layers[j]) PROVE j \in J
  <2> HIDE DEF c, o, layers
  <2>1. CASE o.key # Empty
    <3>1. c.verifier = Material[o.key] /\ c.identities = <<>>
      BY <1>9, <2>1
    <3>2. layers[j].by.key = Material[o.key]
      BY <1>10, <3>1 DEF Accepts
    <3> QED
      BY <2>1, <3>2
  <2>2. CASE o.key = Empty
    <3>1. c.verifier = Empty /\ c.identities = <<o.identity>>
      BY <1>9, <2>2
    <3>2. layers[j].by.identity = o.identity
      BY <1>10, <3>1 DEF Accepts
    <3> QED
      BY <2>2, <3>2
  <2> QED
    BY <2>1, <2>2
<1>11. J \in SUBSET DOMAIN layers /\ CallLayers(b, ref, term) = Verified(c, layers)
  BY DEF CallLayers
<1> HIDE DEF J, c, layers, o, r
<1>12. Len(r.found) <= Cardinality(J)
  BY <1>5, <1>6, <1>10, <1>11, VerifiedSize
<1> QED
  BY <1>3, <1>7, <1>8, <1>12 DEF J, layers, o, r

LEMMA AgreementHolds ==
  ASSUME IInv
  PROVE  BuiltinsAgree
<1> SUFFICES ASSUME input.written, at # "error" PROVE BuiltinsAgree
  BY DEF BuiltinsAgree
<1> DEFINE ref == input.ref
           sigs == SigLayers(ref)
           atts == AttLayers(ref)
<1>1. /\ policy.kind = "image" /\ defaults = SigstoreOpts(policy) /\ ref \in Digests
      /\ out.imageUrl = ref /\ out.syntax # Empty
      /\ AttestationsShown(input.attestations, atts) /\ input.attestations # <<>>
  BY DEF IInv, InputInv
<1>2. OptsParse(defaults) /\ parseCheckOpts(defaults) = policy.checkOpts
  <2>1. PICK p \in Policies : policy = PolicyObject(p) /\ (p.kind = "image" => PolicyMade(p))
    BY DEF IInv, GivenInv
  <2>2. p.kind = "image"
    BY <1>1, <2>1 DEF PolicyObject
  <2> QED
    BY <1>1, <2>1, <2>2, OptionsReadBack
<1>3. ~BadCall(ref, defaults)
  BY <1>1, <1>2 DEF BadCall
<1>4. CallLayers("image", ref, defaults) = sigs /\ CallLayers("attestation", ref, defaults) = atts
  BY <1>2 DEF CallLayers, SigLayers, AttLayers
<1>5. IsSequence(sigs) /\ IsSequence(atts)
  <2>1. GivenInv
    BY DEF IInv
  <2> QED
    BY <1>1, <2>1, LayersFacts DEF SigLayers, AttLayers
<1>6. /\ SignaturesShown(out.signatures, out.signature, sigs)
      /\ AttestationsShown(out.attestations, atts)
  BY <1>1 DEF IInv, OutInv
<1> HIDE DEF sigs, atts
<1>7. ASSUME NEW b \in {"image", "attestation"}, NEW r \in Answered(b, ref, defaults)
      PROVE  \/ r = Failed("request")
             \/ CallLayers(b, ref, defaults) = <<>> /\ r = Failed("unmatched")
             \/ /\ CallLayers(b, ref, defaults) # <<>>
                /\ \E order \in MapOrders(CallLayers(b, ref, defaults)) :
                     r = ResultOf(b, CallLayers(b, ref, defaults), order)
  <2>1. PICK k \in DOMAIN answers : answers[k].call = <<b, ref, defaults>> /\ r = answers[k].answer
    BY DEF Answered
  <2>2. PICK d \in {"image", "attestation"}, q \in CallRefs : \E term :
          /\ answers[k].call = <<d, q, term>>
          /\ Explained(d, q, term, answers[k].answer, CallLayers(d, q, term))
    BY DEF IInv, AnswersInv
  <2>3. Explained(b, ref, defaults, r, CallLayers(b, ref, defaults))
    BY <2>1, <2>2
  <2> QED
    BY <1>3, <2>3 DEF Explained
<1>8. ~Failed("request").success /\ ~Failed("unmatched").success /\ "request" \in Failed("request").errors
  BY DEF Failed
<1>9. ASSUME NEW r \in Answered("image", ref, defaults)
      PROVE  /\ out.signature = "pass" /\ "request" \notin r.errors =>
                  r.success /\ PlainSignatures(r.found) = PlainSignatures(out.signatures)
             /\ r.success /\ out.signatures # <<>> => out.signature = "pass"
  <2>1. \/ r = Failed("request")
        \/ sigs = <<>> /\ r = Failed("unmatched")
        \/ sigs # <<>> /\ \E order \in MapOrders(sigs) : r = signatureResult(sigs, order)
    BY <1>4, <1>7 DEF ResultOf
  <2>2. /\ out.signature = "pass" => sigs # <<>> /\ PlainSignatures(out.signatures) = SignaturesOf(sigs)
        /\ out.signature = "pass" => \A i \in DOMAIN sigs : SignatureParses(sigs[i])
        /\ out.signature # "pass" /\ out.signatures # <<>> => \E i \in DOMAIN sigs : ~SignatureParses(sigs[i])
    BY <1>5, <1>6, ShownSignatures
  <2>3. ASSUME out.signature = "pass", "request" \notin r.errors
        PROVE  r.success /\ PlainSignatures(r.found) = PlainSignatures(out.signatures)
    <3>1. PICK order \in MapOrders(sigs) : r = signatureResult(sigs, order)
      BY <1>8, <2>1, <2>2, <2>3
    <3>2. r.success /\ r.found = [i \in DOMAIN sigs |-> NewEntitySignature(sigs[i], order[i])]
      BY <1>5, <2>2, <2>3, <3>1, SignatureResult
    <3>3. PlainSignatures(r.found) = [i \in DOMAIN sigs |-> Plain(NewEntitySignature(sigs[i], order[i]))]
      BY <3>2 DEF PlainSignatures
    <3>4. ASSUME NEW i \in DOMAIN sigs
          PROVE  Plain(NewEntitySignature(sigs[i], order[i])) = Plain(NewEntitySignature(sigs[i], AnyOrder))
      <4>1. order[i] \in Orders /\ AnyOrder \in Orders
        BY <3>1, OrderFacts DEF MapOrders
      <4> QED
        BY <4>1, PlainSame
    <3>5. PlainSignatures(r.found) = SignaturesOf(sigs)
      BY <3>3, <3>4 DEF SignaturesOf
    <3> QED
      BY <2>2, <2>3, <3>2, <3>5
  <2>4. ASSUME r.success, out.signatures # <<>> PROVE out.signature = "pass"
    <3>1. PICK order \in MapOrders(sigs) : r = signatureResult(sigs, order)
      BY <1>8, <2>1, <2>4
    <3>2. \A i \in DOMAIN sigs : SignatureParses(sigs[i])
      BY <1>5, <2>4, <3>1, SignatureResult
    <3> QED
      BY <2>2, <2>4, <3>2
  <2> QED
    BY <2>3, <2>4
<1>10. ASSUME NEW r \in Answered("attestation", ref, defaults), "request" \notin r.errors
       PROVE  r.success /\ PlainAttestations(r.found) = PlainAttestations(out.attestations)
  <2>1. \/ r = Failed("request")
        \/ atts = <<>> /\ r = Failed("unmatched")
        \/ atts # <<>> /\ \E order \in MapOrders(atts) : r = attestationResult(atts, order)
    BY <1>4, <1>7 DEF ResultOf
  <2>2. atts # <<>>
    <3>1. IsSequence(input.attestations) /\ Len(input.attestations) = Len(atts)
      BY <1>1, <1>5, ShownAttestations
    <3>2. Len(input.attestations) # 0
      BY <1>1, <3>1, SequenceFacts
    <3> QED
      BY <1>5, <3>1, <3>2, SequenceFacts
  <2>3. PICK order \in MapOrders(atts) : r = attestationResult(atts, order)
    BY <1>8, <1>10, <2>1, <2>2
  <2>4. /\ IsSequence(out.attestations) /\ DOMAIN out.attestations = DOMAIN atts
        /\ \A i \in DOMAIN atts : \E o \in Orders : out.attestations[i] = Provenance(atts[i], o)
        /\ \A i \in DOMAIN atts : AttestationParses(atts[i])
    BY <1>5, <1>6, ShownAttestations
  <2>5. \A i \in DOMAIN atts : ProvenanceParses(atts[i])
    BY <2>4 DEF AttestationParses, SLSAProvenanceParses
  <2>6. r.success /\ r.found = [i \in DOMAIN atts |-> Provenance(atts[i], order[i])]
    BY <1>5, <2>3, <2>5, AttestationResult
  <2> DEFINE P(x) == [x EXCEPT !.signatures = PlainSignatures(@)]
  <2>7. ASSUME NEW i \in DOMAIN atts PROVE P(r.found[i]) = P(out.attestations[i])
    <3>1. PICK o \in Orders : out.attestations[i] = Provenance(atts[i], o)
      BY <2>4
    <3>2. r.found[i] = Provenance(atts[i], order[i]) /\ order[i] \in Orders
      BY <2>3, <2>6 DEF MapOrders
    <3>3. ASSUME NEW q
          PROVE  P(Provenance(atts[i], q)) =
                   [statement |-> atts[i].statement,
                    signatures |-> PlainSignatures(createEntitySignatures(atts[i], q))]
      BY DEF Provenance
    <3>4. PlainSignatures(createEntitySignatures(atts[i], o)) = PlainSignatures(createEntitySignatures(atts[i], order[i]))
      BY <3>2, PlainSame
    <3> HIDE DEF P
    <3> QED
      BY <3>1, <3>2, <3>3, <3>4
  <2>8. DOMAIN r.found = DOMAIN atts
    BY <2>6
  <2>9. /\ PlainAttestations(r.found) = [i \in DOMAIN r.found |-> P(r.found[i])]
        /\ PlainAttestations(out.attestations) = [i \in DOMAIN out.attestations |-> P(out.attestations[i])]
    BY DEF PlainAttestations
  <2> HIDE DEF P
  <2> QED
    BY <2>4, <2>6, <2>7, <2>8, <2>9
<1> QED
  BY <1>9, <1>10 DEF BuiltinsAgree

\* The rules' own verification with the default options, which go through SigstoreOpts, a data
\* file, a Rego term and a second policy object, verifies what the checks verified; and a
\* builtin is successful only if it verified something against a key or a whole identity.
\* For every policy, registry and sequence of calls.
THEOREM BuiltinsAreSound == Spec => []BuiltinsSound
<1>1. IInv => BuiltinsSound
  BY AgreementHolds, DefiniteHolds DEF BuiltinsSound
<1> QED
  BY <1>1, Invariance, PTL

===============================================================================
