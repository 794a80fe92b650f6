------------------------------ MODULE VsaProofs ------------------------------
(***************************************************************************)
(* Proofs about the VSA block of `ec validate image` and about RetrieveVSA *)
(* beside it (modules Vsa and VsaRetriever), for every report, list of     *)
(* --vsa-upload flags, old log, number of failures and size of the pool.   *)
(***************************************************************************)
EXTENDS VsaRetriever, FiniteSetTheorems, WellFoundedInduction, TLAPS

-----------------------------------------------------------------------------
(* Part 1: the command *)

\* The predicates written so far; their number names the next directory.
Predicates == {p \in DOMAIN files : p[2] = "predicate"}

\* Paths are <<directory, file>>, and every directory has its predicate: no path of a
\* new directory is taken.
FilesInv ==
  /\ IsFiniteSet(Predicates)
  /\ \A p \in DOMAIN files :
       /\ p = <<p[1], p[2]>>
       /\ p[1] \in 1..Cardinality(Predicates)

\* An envelope as WriteEnvelope leaves it: signed, without its public key.
Signed(p) ==
  /\ p \in DOMAIN files /\ p # NoPath
  /\ files[p] = [statement |-> files[p].statement, publicKey |-> None]

\* What AttestsOwn says of the image i.
Own(i) ==
  /\ files[envs[i]].statement.image = i
  /\ files[envs[i]].statement.results = Family(i)
  /\ \E c \in DOMAIN report :
       /\ report[c].image = i
       /\ report[c].ok => files[envs[i]].statement.digest = report[c].validated

EnvsInv ==
  /\ \A i \in DOMAIN envs : Signed(envs[i]) /\ Own(i)
  /\ snapEnv # NoPath => Signed(snapEnv)

\* Where the command is tells what has been done.
PcInv ==
  /\ setup \in Setups
  /\ pc \in {"sign", "components", "uploads", "verdict", "done"}
  /\ todo \in Nat \ {0}
  /\ pc = "sign" => todo = 1
  /\ pc \in {"sign", "components", "verdict"} => snapEnv = NoPath
  /\ pc = "uploads" => snapEnv # NoPath
  /\ snapEnv = NoPath => dirs = << >> /\ log = setup.log
  /\ pc # "uploads" => queue = {} /\ cur.path = NoPath
  /\ pc # "done" => exit = None
  /\ pc = "done" /\ todo > 1 => exit = Verdict

\* UploadVSAEnvelope has the bytes of the envelope it is at, and is at one of the flags.
CurInv ==
  /\ queue \subseteq Envelopes
  /\ queue # {} => setup.flags # << >>
  /\ cur.path # NoPath =>
       /\ cur.path \in Envelopes
       /\ cur.content = files[cur.path]
       /\ cur.flag \in DOMAIN setup.flags
  /\ cur = [path |-> cur.path, flag |-> cur.flag, content |-> cur.content]

Tried(p, f) == Stored(p, f) \/ <<p, f>> \in warned \/ <<p, f>> \in logged \/ NoClient(f)

\* Each envelope still has to be uploaded, is being uploaded and has this flag before it,
\* or was tried with the flag.
TriedInv ==
  snapEnv # NoPath =>
    \A p \in Envelopes, f \in DOMAIN setup.flags :
      \/ p \in queue
      \/ cur.path = p /\ f >= cur.flag
      \/ Tried(p, f)

\* What the backends hold is signed here, and the log begins as it was.
KeptInv ==
  /\ IsSequence(dirs) /\ IsSequence(log)
  /\ \A i \in DOMAIN dirs : \E p \in Envelopes : dirs[i][2] = files[p]
  /\ \A i \in DOMAIN log : i > Len(setup.log) =>
       /\ \E p \in Envelopes : log[i].att = files[p].statement
       /\ log[i].publicKey = SignerKey

CmdInv == FilesInv /\ EnvsInv /\ PcInv /\ CurInv /\ TriedInv /\ KeptInv

-----------------------------------------------------------------------------
(* Lemmas about the operators *)

\* What Append does to a sequence whose elements have no type of their own.
LEMMA AppendFacts ==
  ASSUME NEW s, NEW e, IsSequence(s)
  PROVE  /\ IsSequence(Append(s, e))
         /\ DOMAIN s = 1..Len(s) /\ Len(s) \in Nat
         /\ DOMAIN Append(s, e) = 1..(Len(s) + 1)
         /\ \A i \in DOMAIN s : Append(s, e)[i] = s[i]
         /\ Append(s, e)[Len(s) + 1] = e
<1> DEFINE S == Range(s) \cup {e}
           t == Append(s, e)
<1> HIDE DEF t
<1>1. s \in Seq(S)
  BY DEF IsSequence
<1>2. /\ t \in Seq(S)
      /\ DOMAIN s = 1..Len(s) /\ Len(s) \in Nat
      /\ DOMAIN t = 1..(Len(s) + 1)
      /\ Len(t) = Len(s) + 1
      /\ \A i \in DOMAIN s : t[i] = s[i]
      /\ t[Len(s) + 1] = e
  BY <1>1 DEF t
<1>3. t = [i \in 1..Len(t) |-> t[i]] /\ Len(t) \in Nat
  BY <1>2
<1>4. \A i \in 1..Len(t) : t[i] \in Range(t)
  BY <1>2 DEF Range
<1>5. t \in Seq(Range(t))
  <2>1. t \in [1..Len(t) -> Range(t)]
    BY <1>3, <1>4
  <2> QED
    BY <2>1, <1>3
<1> QED
  BY <1>2, <1>5 DEF IsSequence, t

\* WritePredicate and WriteEnvelope write to paths that nothing is at.
LEMMA NewPaths ==
  ASSUME FilesInv
  PROVE  /\ NewDir = Cardinality(Predicates) + 1
         /\ Cardinality(Predicates) \in Nat
         /\ PredicatePath \notin DOMAIN files
         /\ EnvelopePath(PredicatePath) \notin DOMAIN files
         /\ EnvelopePath(PredicatePath) = <<NewDir, "envelope">>
         /\ EnvelopePath(PredicatePath) # PredicatePath
         /\ EnvelopePath(PredicatePath) # NoPath
<1>1. Cardinality(Predicates) \in Nat
  BY FS_CardinalityType DEF FilesInv
<1>2. NewDir = Cardinality(Predicates) + 1
  BY DEF NewDir, Predicates
<1>3. \A p \in DOMAIN files : p[1] # NewDir
  BY <1>1, <1>2 DEF FilesInv
<1>4. PredicatePath[1] = NewDir /\ EnvelopePath(PredicatePath) = <<NewDir, "envelope">>
  BY DEF PredicatePath, EnvelopePath
<1>5. PredicatePath \notin DOMAIN files /\ EnvelopePath(PredicatePath) \notin DOMAIN files
  BY <1>3, <1>4
<1> QED
  BY <1>1, <1>2, <1>4, <1>5 DEF PredicatePath, NoPath, None

-----------------------------------------------------------------------------
(* Steps that write files *)

\* A predicate, alone or with its envelope, is written beside the files that were there.
LEMMA WriteEffect ==
  ASSUME FilesInv, NEW pred, NEW d,
         files' = Written(pred) \/ files' = Attested(pred, d)
  PROVE  /\ FilesInv'
         /\ \A p \in DOMAIN files : p \in DOMAIN files' /\ files'[p] = files[p]
         /\ files' = Attested(pred, d) =>
              /\ EnvelopePath(PredicatePath) \in DOMAIN files'
              /\ files'[EnvelopePath(PredicatePath)] = AttestPredicate(pred, d)
<1> DEFINE P == PredicatePath
           E == EnvelopePath(P)
           W == Written(pred)
           n == Cardinality(Predicates)
<1>1. /\ NewDir = n + 1 /\ n \in Nat
      /\ P \notin DOMAIN files /\ E \notin DOMAIN files
      /\ E = <<NewDir, "envelope">> /\ E # P /\ P = <<NewDir, "predicate">>
  BY NewPaths DEF PredicatePath
<1> HIDE DEF P, E, n
<1>2. /\ DOMAIN W = DOMAIN files \cup {P}
      /\ \A p \in DOMAIN files : W[p] = files[p]
  BY <1>1 DEF Written, Put, P
<1>3. /\ DOMAIN Attested(pred, d) = DOMAIN W \cup {E}
      /\ Attested(pred, d)[E] = AttestPredicate(pred, d)
      /\ \A p \in DOMAIN W : p # E => Attested(pred, d)[p] = W[p]
  BY DEF Attested, Put, P, E
<1> HIDE DEF W
<1>4. /\ DOMAIN files' \in {DOMAIN files \cup {P}, DOMAIN files \cup {P, E}}
      /\ \A p \in DOMAIN files : p \in DOMAIN files' /\ files'[p] = files[p]
  BY <1>1, <1>2, <1>3 DEF W
<1>5. Predicates' = Predicates \cup {P}
  BY <1>1, <1>4 DEF Predicates
<1>6. IsFiniteSet(Predicates') /\ Cardinality(Predicates') = n + 1
  <2>1. P \notin Predicates
    BY <1>1 DEF Predicates
  <2> QED
    BY <2>1, <1>5, FS_AddElement DEF FilesInv, n
<1>7. ASSUME NEW p \in DOMAIN files'
      PROVE  p = <<p[1], p[2]>> /\ p[1] \in 1..(n + 1)
  <2>1. CASE p \in DOMAIN files
    BY <2>1, <1>1 DEF FilesInv, n
  <2>2. CASE p \in {P, E}
    BY <2>2, <1>1
  <2> QED
    BY <2>1, <2>2, <1>4
<1>8. FilesInv'
  BY <1>6, <1>7 DEF FilesInv
<1> QED
  BY <1>3, <1>4, <1>8 DEF E, P

\* Envelopes that a step leaves alone stay signed, each for its image.
LEMMA OwnKept ==
  ASSUME EnvsInv, UNCHANGED setup, NEW i \in DOMAIN envs,
         i \in DOMAIN envs', envs'[i] = envs[i],
         \A p \in DOMAIN files : p \in DOMAIN files' /\ files'[p] = files[p]
  PROVE  Signed(envs[i])' /\ Own(i)'
<1>1. Signed(envs[i]) /\ Own(i)
  BY DEF EnvsInv
<1>2. envs[i] \in DOMAIN files' /\ files'[envs[i]] = files[envs[i]]
  BY <1>1 DEF Signed
<1>3. Signed(envs[i])'
  BY <1>1, <1>2 DEF Signed
<1>4. Family(i)' = Family(i)
  BY DEF Family, report, normalizeIndexRef, Restricted
<1>5. Own(i)'
  BY <1>1, <1>2, <1>4 DEF Own, report
<1> QED
  BY <1>3, <1>5

\* The filter of vsa.go selects the family of the reference.
LEMMA FilterIsFamily ==
  ASSUME NEW ref
  PROVE  FilterReportForTargetRef(ref) = Family(ref)
  BY DEF FilterReportForTargetRef, Family

\* Before the snapshot is attested nothing is queued, tried or kept.
LEMMA NothingYet ==
  ASSUME PcInv, KeptInv, snapEnv' = NoPath, snapEnv = NoPath, cur' = cur, queue' = queue,
         pc # "uploads", UNCHANGED <<setup, log, dirs>>, CurInv
  PROVE  CurInv' /\ TriedInv' /\ KeptInv'
<1>1. queue = {} /\ cur.path = NoPath /\ dirs = << >> /\ log = setup.log
  BY DEF PcInv
<1>2. CurInv'
  BY <1>1 DEF CurInv
<1>3. TriedInv'
  BY DEF TriedInv
<1>4. IsSequence(dirs)' /\ IsSequence(log)'
  BY DEF KeptInv
<1>5. DOMAIN log = 1..Len(log) /\ Len(log) \in Nat
  BY AppendFacts DEF KeptInv
<1>6. KeptInv'
  BY <1>1, <1>4, <1>5 DEF KeptInv
<1> QED
  BY <1>2, <1>3, <1>6

LEMMA SignerStep ==
  ASSUME CmdInv, NewSigner
  PROVE  CmdInv'
<1> USE DEF CmdInv
<1>1. UNCHANGED <<setup, todo, files, envs, snapEnv, queue, cur, log, dirs, warned, logged, uploaded>>
  BY DEF NewSigner
<1>2. FilesInv'
  BY <1>1 DEF FilesInv, Predicates
<1>3. EnvsInv'
  BY <1>1 DEF EnvsInv, Signed, Own, Family, report, normalizeIndexRef
<1>4. PcInv'
  BY <1>1 DEF NewSigner, PcInv
<1>5. CurInv' /\ TriedInv' /\ KeptInv'
  <2>1. pc # "uploads" /\ snapEnv = NoPath
    BY DEF NewSigner, PcInv
  <2> QED
    BY <1>1, <2>1, NothingYet
<1> QED
  BY <1>2, <1>3, <1>4, <1>5

LEMMA ComponentStep ==
  ASSUME CmdInv, ProcessNextComponent
  PROVE  CmdInv'
<1> USE DEF CmdInv
<1>1. /\ UNCHANGED <<setup, pc, snapEnv, queue, cur, log, dirs, warned, logged, uploaded, exit>>
      /\ pc = "components" /\ todo <= Len(report) /\ todo' = todo + 1
  BY DEF ProcessNextComponent
<1>2. pc # "uploads" /\ snapEnv = NoPath
  BY <1>1 DEF PcInv
<1>3. PcInv'
  BY <1>1 DEF PcInv, Verdict, Success, report
<1>4. CurInv' /\ TriedInv' /\ KeptInv'
  BY <1>1, <1>2, NothingYet
<1>5. CASE UNCHANGED <<files, envs>>
  <2>1. FilesInv'
    BY <1>5 DEF FilesInv, Predicates
  <2>2. EnvsInv'
    BY <1>1, <1>5 DEF EnvsInv, Signed, Own, Family, report, normalizeIndexRef
  <2> QED
    BY <1>3, <1>4, <2>1, <2>2
<1>6. ASSUME ~UNCHANGED <<files, envs>>
      PROVE  CmdInv'
  <2> DEFINE pred == GeneratePredicate(todo)
             img == report[todo].image
  <2>1. PICK d \in Digests(todo) :
           \/ files' = Attested(pred, d) /\ envs' = Put(envs, img, EnvelopePath(PredicatePath))
           \/ files' = Written(pred) /\ UNCHANGED envs
    BY <1>6 DEF ProcessNextComponent, ProcessComponentVSA
  <2> HIDE DEF pred
  <2>2. /\ FilesInv'
        /\ \A p \in DOMAIN files : p \in DOMAIN files' /\ files'[p] = files[p]
        /\ files' = Attested(pred, d) =>
             /\ EnvelopePath(PredicatePath) \in DOMAIN files'
             /\ files'[EnvelopePath(PredicatePath)] = AttestPredicate(pred, d)
    BY <2>1, WriteEffect
  <2>3. ASSUME NEW i \in DOMAIN envs, i \in DOMAIN envs', envs'[i] = envs[i]
        PROVE  Signed(envs[i])' /\ Own(i)'
    BY <1>1, <2>2, <2>3, OwnKept
  <2>4. CASE files' = Written(pred) /\ UNCHANGED envs
    <3>1. EnvsInv'
      BY <1>1, <1>2, <2>3, <2>4 DEF EnvsInv
    <3> QED
      BY <1>3, <1>4, <2>2, <3>1
  <2>5. CASE files' = Attested(pred, d) /\ envs' = Put(envs, img, EnvelopePath(PredicatePath))
    <3> DEFINE q == EnvelopePath(PredicatePath)
    <3>1. /\ DOMAIN envs' = DOMAIN envs \cup {img}
          /\ envs'[img] = q
          /\ \A i \in DOMAIN envs : i # img => envs'[i] = envs[i]
      BY <2>5 DEF Put
    <3>2. q \in DOMAIN files' /\ files'[q] = AttestPredicate(pred, d) /\ q # NoPath
      BY <2>2, <2>5, NewPaths
    <3> HIDE DEF q
    <3>3. files'[q].statement = [digest |-> d, image |-> img, results |-> Family(img)]
      BY <3>2, FilterIsFamily DEF AttestPredicate, pred, GeneratePredicate
    <3>4. ASSUME NEW i, i = img PROVE Signed(envs[i])'
      BY <3>1, <3>2, <3>4 DEF Signed, AttestPredicate
    <3>5. todo \in DOMAIN report /\ report' = report
      <4>1. setup \in Setups
        BY DEF PcInv
      <4>2. IsSequence(report)
        BY <4>1, SetupAssumption DEF report
      <4>3. DOMAIN report = 1..Len(report) /\ Len(report) \in Nat
        BY <4>2, AppendFacts
      <4> QED
        BY <1>1, <4>3 DEF PcInv, report
    <3>6. report[todo].ok => d = report[todo].validated
      <4>1. setup \in Setups
        BY DEF PcInv
      <4> QED
        BY <3>5, <4>1, <2>1, SetupAssumption DEF Digests, report
    <3>8. ASSUME NEW i, i = img PROVE Own(i)'
      <4>1. Family(i)' = Family(i)
        BY <1>1 DEF Family, report, normalizeIndexRef
      <4>2. files'[envs'[i]].statement = [digest |-> d, image |-> img, results |-> Family(img)]
        BY <3>1, <3>3, <3>8
      <4>3. /\ files'[envs'[i]].statement.image = i
            /\ files'[envs'[i]].statement.results = Family(i)'
            /\ files'[envs'[i]].statement.digest = d
        BY <4>1, <4>2, <3>8
      <4>4. todo \in DOMAIN report' /\ report'[todo].image = i
        BY <3>5, <3>8
      <4>5. report'[todo].ok => d = report'[todo].validated
        BY <3>5, <3>6
      <4> QED
        BY <4>3, <4>4, <4>5 DEF Own
    <3>9. ASSUME NEW i \in DOMAIN envs' PROVE Signed(envs[i])' /\ Own(i)'
      <4>1. CASE i = img
        BY <4>1, <3>1, <3>4, <3>8
      <4>2. CASE i # img
        BY <4>2, <3>1, <2>3
      <4> QED
        BY <4>1, <4>2
    <3>10. EnvsInv'
      BY <1>1, <1>2, <3>9 DEF EnvsInv
    <3> QED
      BY <1>3, <1>4, <2>2, <3>10
  <2> QED
    BY <2>1, <2>4, <2>5
<1> QED
  BY <1>5, <1>6

LEMMA SnapshotStep ==
  ASSUME CmdInv, ProcessSnapshotVSA
  PROVE  CmdInv'
<1> USE DEF CmdInv
<1> DEFINE pred == GenerateSnapshotPredicate
           q == EnvelopePath(PredicatePath)
<1>1. /\ UNCHANGED <<setup, todo, envs, cur, log, dirs, warned, logged, uploaded, exit>>
      /\ pc = "components"
  BY DEF ProcessSnapshotVSA
<1>2. /\ snapEnv = NoPath /\ queue = {} /\ cur.path = NoPath /\ exit = None
      /\ dirs = << >> /\ log = setup.log
  BY <1>1 DEF PcInv
<1>3. ASSUME files' = files \/ files' = Written(pred) \/ files' = Attested(pred, SnapshotDigest)
      PROVE  /\ FilesInv'
             /\ \A p \in DOMAIN files : p \in DOMAIN files' /\ files'[p] = files[p]
  <2>1. CASE files' = files
    BY <2>1 DEF FilesInv, Predicates
  <2>2. CASE files' = Written(pred) \/ files' = Attested(pred, SnapshotDigest)
    BY <2>2, WriteEffect
  <2> QED
    BY <1>3, <2>1, <2>2
<1>4. /\ FilesInv'
      /\ \A p \in DOMAIN files : p \in DOMAIN files' /\ files'[p] = files[p]
  <2>1. files' = files \/ files' = Written(pred) \/ files' = Attested(pred, SnapshotDigest)
    BY DEF ProcessSnapshotVSA
  <2> QED
    BY <1>3, <2>1
<1>5. ASSUME NEW i \in DOMAIN envs PROVE Signed(envs[i])' /\ Own(i)'
  BY <1>1, <1>4, OwnKept
<1>6. IsSequence(dirs)' /\ IsSequence(log)'
  BY <1>1 DEF KeptInv
<1>7. DOMAIN log = 1..Len(log) /\ Len(log) \in Nat
  BY AppendFacts DEF KeptInv
<1>8. KeptInv'
  BY <1>1, <1>2, <1>6, <1>7 DEF KeptInv
<1>9. CASE snapEnv' = snapEnv
  <2>1. pc' = "verdict" /\ queue' = queue
    <3>1. q # NoPath
      BY NewPaths
    <3> QED
      BY <1>2, <1>9, <3>1 DEF ProcessSnapshotVSA
  <2>2. EnvsInv'
    BY <1>1, <1>2, <1>5, <1>9 DEF EnvsInv
  <2>3. PcInv'
    BY <1>1, <1>2, <1>9, <2>1 DEF PcInv
  <2>4. CurInv' /\ TriedInv'
    BY <1>1, <1>2, <1>9, <2>1 DEF CurInv, TriedInv
  <2> QED
    BY <1>4, <1>8, <2>2, <2>3, <2>4
<1>10. CASE snapEnv' # snapEnv
  <2>1. /\ files' = Attested(pred, SnapshotDigest) /\ snapEnv' = q /\ pc' = "uploads"
        /\ queue' = IF setup.flags = << >> THEN {} ELSE {envs[i] : i \in DOMAIN envs} \cup {snapEnv'}
    BY <1>10 DEF ProcessSnapshotVSA
  <2>2. q # NoPath /\ q \in DOMAIN files' /\ files'[q] = AttestPredicate(pred, SnapshotDigest)
    BY <2>1, WriteEffect, NewPaths
  <2> HIDE DEF pred, q
  <2>3. Signed(snapEnv)'
    BY <2>1, <2>2 DEF Signed, AttestPredicate
  <2>4. EnvsInv'
    BY <1>1, <1>5, <2>3 DEF EnvsInv
  <2>5. PcInv'
    BY <1>1, <1>2, <2>1, <2>2 DEF PcInv
  <2>6. Envelopes' = {envs[i] : i \in DOMAIN envs} \cup {snapEnv'}
    BY <1>1, <2>1, <2>2 DEF Envelopes
  <2>7. CurInv'
    BY <1>1, <1>2, <2>1, <2>6 DEF CurInv
  <2>8. TriedInv'
    BY <1>1, <2>1, <2>6 DEF TriedInv
  <2> QED
    BY <1>4, <1>8, <2>4, <2>5, <2>7, <2>8
<1> QED
  BY <1>9, <1>10

-----------------------------------------------------------------------------
(* Steps of the uploads *)

\* What the steps leave alone keeps the envelopes as they are.
LEMMA FilesFrame ==
  ASSUME CmdInv, UNCHANGED <<setup, files, envs, snapEnv>>
  PROVE  FilesInv' /\ EnvsInv' /\ Envelopes' = Envelopes
<1>1. FilesInv'
  BY DEF CmdInv, FilesInv, Predicates
<1>2. EnvsInv'
  BY DEF CmdInv, EnvsInv, Signed, Own, Family, report, normalizeIndexRef
<1> QED
  BY <1>1, <1>2 DEF Envelopes

\* The backends only grow, and so do the warnings: what was tried stays tried.
LEMMA TriedStays ==
  ASSUME KeptInv, UNCHANGED <<setup, files>>,
         dirs' = dirs \/ \E x : dirs' = Append(dirs, x),
         log' = log \/ \E x : log' = Append(log, x),
         warned \subseteq warned', logged \subseteq logged',
         NEW p, NEW f, Tried(p, f)
  PROVE  Tried(p, f)'
<1> DEFINE c == ParseStorageFlag(setup.flags[f])
           B == CreateStorageBackend(c)
<1>1. \A i \in DOMAIN dirs : i \in DOMAIN dirs' /\ dirs'[i] = dirs[i]
  <2>1. CASE dirs' = dirs
    BY <2>1
  <2>2. ASSUME NEW x, dirs' = Append(dirs, x)
        PROVE  \A i \in DOMAIN dirs : i \in DOMAIN dirs' /\ dirs'[i] = dirs[i]
    BY <2>2, AppendFacts DEF KeptInv
  <2> QED
    BY <2>1, <2>2
<1>2. \A i \in DOMAIN log : i \in DOMAIN log' /\ log'[i] = log[i]
  <2>1. CASE log' = log
    BY <2>1
  <2>2. ASSUME NEW x, log' = Append(log, x)
        PROVE  \A i \in DOMAIN log : i \in DOMAIN log' /\ log'[i] = log[i]
    BY <2>2, AppendFacts DEF KeptInv
  <2> QED
    BY <2>1, <2>2
<1>3. CASE Stored(p, f)
  <2>1. ParseStorageFlag(setup.flags[f])' = c /\ p \in DOMAIN files' /\ p \in DOMAIN files
    BY <1>3 DEF Stored
  <2> HIDE DEF c, B
  <2>2. CASE c.backend = "local"
    <3>1. PICK i \in DOMAIN dirs : dirs[i][2] = files[p] /\ dirs[i][1] \in B
      BY <1>3, <2>2 DEF Stored, B, c
    <3>2. i \in DOMAIN dirs' /\ dirs'[i][2] = files'[p] /\ dirs'[i][1] \in B
      BY <3>1, <1>1
    <3> QED
      BY <3>2, <2>1, <2>2 DEF Tried, Stored, B, c
  <2>3. CASE c.backend = "rekor"
    <3>1. PICK i \in DOMAIN log : log[i].att = files[p].statement /\ log[i].server \in B
      BY <1>3, <2>3 DEF Stored, B, c
    <3>2. i \in DOMAIN log' /\ log'[i].att = files'[p].statement /\ log'[i].server \in B
      BY <3>1, <1>2
    <3> QED
      BY <3>2, <2>1, <2>3 DEF Tried, Stored, B, c
  <2> QED
    BY <1>3, <2>2, <2>3 DEF Stored, c
<1>4. CASE <<p, f>> \in warned \/ <<p, f>> \in logged
  BY <1>4 DEF Tried
<1>5. CASE NoClient(f)
  <2>1. NoClient(f)'
    BY <1>5 DEF NoClient
  <2> QED
    BY <2>1 DEF Tried
<1> QED
  BY <1>3, <1>4, <1>5 DEF Tried

\* NextFlag moves to the next flag of the same envelope, or ends the envelope at the last.
LEMMA NextFlagEffect ==
  ASSUME CmdInv, Uploading, NextFlag, UNCHANGED uploadFrame
  PROVE  /\ CurInv'
         /\ \A f \in DOMAIN setup.flags : f >= cur.flag =>
              f = cur.flag \/ (cur'.path = cur.path /\ f >= cur'.flag)
<1> DEFINE n == Len(setup.flags)
<1>1. UNCHANGED <<setup, files, envs, snapEnv, queue>> /\ Envelopes' = Envelopes
  BY DEF uploadFrame, Envelopes
<1>2. DOMAIN setup.flags = 1..n /\ n \in Nat
  <2>1. IsSequence(setup.flags)
    BY SetupAssumption DEF CmdInv, PcInv
  <2> QED
    BY <2>1, AppendFacts
<1>3. /\ cur.path \in Envelopes /\ cur.content = files[cur.path] /\ cur.flag \in 1..n
      /\ cur = [path |-> cur.path, flag |-> cur.flag, content |-> cur.content]
      /\ cur.path # NoPath
  BY <1>2 DEF CmdInv, CurInv, Uploading
<1>4. CASE cur.flag < n
  <2>1. cur' = [path |-> cur.path, flag |-> cur.flag + 1, content |-> cur.content]
    BY <1>3, <1>4 DEF NextFlag
  <2>2. CurInv'
    BY <1>1, <1>2, <1>3, <1>4, <2>1 DEF CmdInv, CurInv
  <2> QED
    BY <1>2, <1>3, <2>1, <2>2
<1>5. CASE ~(cur.flag < n)
  <2>1. cur' = [path |-> NoPath, flag |-> 0, content |-> NoContent]
    BY <1>5 DEF NextFlag
  <2>2. CurInv'
    BY <1>1, <2>1 DEF CmdInv, CurInv
  <2> QED
    BY <1>2, <1>3, <1>5, <2>2
<1> QED
  BY <1>4, <1>5

\* A step of an upload that tries the flag it is at keeps the invariant, if what the
\* backends hold afterwards is signed here.
LEMMA UploadStep ==
  ASSUME CmdInv, Uploading, NextFlag, UNCHANGED uploadFrame, KeptInv',
         dirs' = dirs \/ \E x : dirs' = Append(dirs, x),
         log' = log \/ \E x : log' = Append(log, x),
         warned \subseteq warned', logged \subseteq logged',
         NEW P, NEW F, P = cur.path, F = cur.flag, Tried(P, F)'
  PROVE  CmdInv'
<1>1. UNCHANGED <<setup, pc, todo, files, envs, snapEnv, queue, exit>>
  BY DEF uploadFrame
<1>2. FilesInv' /\ EnvsInv' /\ Envelopes' = Envelopes
  BY <1>1, FilesFrame
<1>3. /\ CurInv'
      /\ \A f \in DOMAIN setup.flags : f >= F => f = F \/ (cur'.path = P /\ f >= cur'.flag)
  BY NextFlagEffect
<1>4. PcInv'
  BY <1>1 DEF CmdInv, PcInv, Uploading
<1>5. ASSUME NEW p \in Envelopes, NEW f \in DOMAIN setup.flags
      PROVE  \/ p \in queue'
             \/ cur'.path = p /\ f >= cur'.flag
             \/ Tried(p, f)'
  <2>1. CASE p \in queue
    BY <2>1, <1>1
  <2>2. CASE cur.path = p /\ f >= cur.flag
    BY <2>2, <1>3
  <2>3. CASE Tried(p, f)
    <3>1. KeptInv
      BY DEF CmdInv
    <3> QED
      BY <3>1, <2>3, <1>1, TriedStays
  <2>4. snapEnv # NoPath
    BY DEF CmdInv, PcInv, Uploading
  <2> QED
    BY <2>1, <2>2, <2>3, <2>4 DEF CmdInv, TriedInv
<1>6. TriedInv'
  BY <1>1, <1>2, <1>5 DEF TriedInv
<1> QED
  BY <1>2, <1>3, <1>4, <1>6 DEF CmdInv

LEMMA SkipStep ==
  ASSUME CmdInv, SkipBackend
  PROVE  CmdInv'
<1>1. /\ Uploading /\ NextFlag /\ UNCHANGED uploadFrame /\ UNCHANGED <<log, dirs, logged>>
      /\ warned' = warned \cup {<<cur.path, cur.flag>>}
  BY DEF SkipBackend, Here
<1>2. UNCHANGED <<setup, files, envs, snapEnv>>
  BY <1>1 DEF uploadFrame
<1>3. KeptInv'
  BY <1>1, <1>2, FilesFrame DEF CmdInv, KeptInv
<1>4. \A P, F : P = cur.path /\ F = cur.flag => Tried(P, F)'
  BY <1>1 DEF Tried
<1>5. ASSUME NEW P, NEW F, P = cur.path, F = cur.flag PROVE CmdInv'
  BY <1>1, <1>3, <1>4, <1>5, UploadStep
<1> QED
  BY <1>5

LEMMA LocalStep ==
  ASSUME CmdInv, LocalUpload
  PROVE  CmdInv'
<1>1. /\ Uploading /\ NextFlag /\ UNCHANGED uploadFrame /\ UNCHANGED <<log, logged>>
      /\ Config.backend = "local"
      /\ \/ /\ UNCHANGED warned
            /\ \E dir \in CreateStorageBackend(Config) : dirs' = Append(dirs, <<dir, cur.content>>)
         \/ warned' = warned \cup {<<cur.path, cur.flag>>} /\ UNCHANGED dirs
  BY DEF LocalUpload, Here
<1>2. UNCHANGED <<setup, files, envs, snapEnv>> /\ Envelopes' = Envelopes
  BY <1>1 DEF uploadFrame, Envelopes
<1>3. cur.path \in Envelopes /\ cur.content = files[cur.path] /\ cur.path \in DOMAIN files
  BY <1>1 DEF CmdInv, CurInv, Uploading, EnvsInv, Signed, Envelopes
<1>4. CASE UNCHANGED dirs /\ warned' = warned \cup {<<cur.path, cur.flag>>}
  <2>1. KeptInv'
    BY <1>1, <1>2, <1>4 DEF CmdInv, KeptInv
  <2>2. ASSUME NEW P, NEW F, P = cur.path, F = cur.flag PROVE CmdInv'
    <3>1. Tried(P, F)'
      BY <1>4, <2>2 DEF Tried
    <3> QED
      BY <1>1, <1>4, <2>1, <2>2, <3>1, UploadStep
  <2> QED
    BY <2>2
<1>5. ASSUME NEW dir \in CreateStorageBackend(Config), dirs' = Append(dirs, <<dir, cur.content>>),
             UNCHANGED warned
      PROVE  CmdInv'
  <2> DEFINE e == <<dir, cur.content>>
             n == Len(dirs)
  <2>1. /\ IsSequence(dirs') /\ n \in Nat /\ DOMAIN dirs = 1..n
        /\ DOMAIN dirs' = 1..(n + 1)
        /\ \A i \in DOMAIN dirs : dirs'[i] = dirs[i]
        /\ dirs'[n + 1] = e
    BY <1>5, AppendFacts DEF CmdInv, KeptInv
  <2>2. ASSUME NEW i \in DOMAIN dirs' PROVE \E p \in Envelopes : dirs'[i][2] = files[p]
    <3>1. CASE i \in DOMAIN dirs
      BY <3>1, <2>1 DEF CmdInv, KeptInv
    <3>2. CASE i = n + 1
      BY <3>2, <2>1, <1>3
    <3> QED
      BY <3>1, <3>2, <2>1
  <2>3. KeptInv'
    BY <1>1, <1>2, <2>1, <2>2 DEF CmdInv, KeptInv
  <2>4. ASSUME NEW P, NEW F, P = cur.path, F = cur.flag PROVE CmdInv'
    <3> DEFINE c == ParseStorageFlag(setup.flags[F])
    <3>1. c = Config /\ c.backend = "local" /\ ParseStorageFlag(setup.flags[F])' = c
      BY <1>1, <1>2, <2>4 DEF Config
    <3> HIDE DEF c
    <3>2. n + 1 \in DOMAIN dirs' /\ dirs'[n + 1][2] = files'[P] /\ dirs'[n + 1][1] \in CreateStorageBackend(c)
      BY <1>2, <1>3, <2>1, <2>4, <3>1
    <3>3. Stored(P, F)'
      BY <1>2, <1>3, <2>4, <3>1, <3>2 DEF Stored
    <3>4. Tried(P, F)'
      BY <3>3 DEF Tried
    <3> QED
      BY <1>1, <1>5, <2>3, <2>4, <3>4, UploadStep
  <2> QED
    BY <2>4
<1> QED
  BY <1>1, <1>4, <1>5

LEMMA SignerUploadStep ==
  ASSUME CmdInv, UploadWithSigner
  PROVE  CmdInv'
<1> DEFINE content == prepareDSSEForRekor(cur.content)
<1>1. /\ Uploading /\ NextFlag /\ UNCHANGED uploadFrame /\ UNCHANGED dirs
      /\ Config.backend = "rekor" /\ UNCHANGED warned
  BY DEF UploadWithSigner
<1>2. PICK server \in CreateStorageBackend(Config) :
        \/ ~GetRekorClient(server) /\ UNCHANGED <<log, logged>>
        \/ CreateLogEntry(server, content) /\ UNCHANGED logged
        \/ (CreateLogEntry(server, content) \/ UNCHANGED log) /\ FailedUpload
  BY DEF UploadWithSigner, uploadSingle
<1>3. UNCHANGED <<setup, files, envs, snapEnv>> /\ Envelopes' = Envelopes
  BY <1>1 DEF uploadFrame, Envelopes
<1>4. /\ cur.path \in Envelopes /\ cur.content = files[cur.path] /\ cur.path \in DOMAIN files
      /\ files[cur.path] = [statement |-> files[cur.path].statement, publicKey |-> None]
  BY <1>1 DEF CmdInv, CurInv, Uploading, EnvsInv, Signed, Envelopes
<1>5. content.statement = files[cur.path].statement /\ content.publicKey = SignerKey
  BY <1>4 DEF prepareDSSEForRekor
<1> HIDE DEF content
<1>6. ASSUME NEW t, log' = Append(log, IntotoV002Entry(server, content, t))
      PROVE  /\ KeptInv'
             /\ \E i \in DOMAIN log' : log'[i].att = files'[cur.path].statement /\ log'[i].server = server
  <2> DEFINE e == IntotoV002Entry(server, content, t)
             n == Len(log)
  <2>1. /\ IsSequence(log') /\ n \in Nat /\ DOMAIN log = 1..n
        /\ DOMAIN log' = 1..(n + 1)
        /\ \A i \in DOMAIN log : log'[i] = log[i]
        /\ log'[n + 1] = e
    BY <1>6, AppendFacts DEF CmdInv, KeptInv
  <2>2. e.att = files[cur.path].statement /\ e.publicKey = SignerKey /\ e.server = server
    BY <1>5 DEF IntotoV002Entry
  <2> HIDE DEF e
  <2>3. ASSUME NEW i \in DOMAIN log', i > Len(setup.log)
        PROVE  (\E p \in Envelopes : log'[i].att = files[p].statement) /\ log'[i].publicKey = SignerKey
    <3>1. CASE i \in DOMAIN log
      BY <3>1, <2>1, <2>3 DEF CmdInv, KeptInv
    <3>2. CASE i = n + 1
      BY <3>2, <2>1, <2>2, <1>4
    <3> QED
      BY <3>1, <3>2, <2>1
  <2>4. KeptInv'
    BY <1>1, <1>3, <2>1, <2>3 DEF CmdInv, KeptInv
  <2>5. n + 1 \in DOMAIN log' /\ log'[n + 1].att = files'[cur.path].statement /\ log'[n + 1].server = server
    BY <1>3, <2>1, <2>2
  <2> QED
    BY <2>4, <2>5
<1>7. ASSUME UNCHANGED log PROVE KeptInv'
  BY <1>1, <1>3, <1>7 DEF CmdInv, KeptInv
<1>8. ASSUME NEW P, NEW F, P = cur.path, F = cur.flag PROVE CmdInv'
  <2>1. CASE FailedUpload /\ (CreateLogEntry(server, content) \/ UNCHANGED log)
    <3>1. Tried(P, F)' /\ logged \subseteq logged'
      BY <1>8, <2>1 DEF Tried, FailedUpload, Here
    <3>2. KeptInv' /\ (log' = log \/ \E x : log' = Append(log, x))
      <4>1. CASE UNCHANGED log
        BY <4>1, <1>7
      <4>2. CASE CreateLogEntry(server, content)
        BY <4>2, <1>6 DEF CreateLogEntry
      <4> QED
        BY <4>1, <4>2, <2>1
    <3> QED
      BY <1>1, <1>8, <3>1, <3>2, UploadStep
  <2>2. CASE CreateLogEntry(server, content) /\ UNCHANGED logged
    <3>1. PICK t : log' = Append(log, IntotoV002Entry(server, content, t))
      BY <2>2 DEF CreateLogEntry
    <3>2. /\ KeptInv'
          /\ \E i \in DOMAIN log' : log'[i].att = files'[P].statement /\ log'[i].server = server
      BY <1>6, <1>8, <3>1
    <3> DEFINE c == ParseStorageFlag(setup.flags[F])
    <3>3. c = Config /\ c.backend = "rekor" /\ ParseStorageFlag(setup.flags[F])' = c
      BY <1>1, <1>3, <1>8 DEF Config
    <3> HIDE DEF c
    <3>4. server \in CreateStorageBackend(c)
      BY <3>3
    <3>5. Stored(P, F)'
      BY <1>3, <1>4, <1>8, <3>2, <3>3, <3>4 DEF Stored
    <3>6. Tried(P, F)'
      BY <3>5 DEF Tried
    <3>7. \E x : log' = Append(log, x)
      BY <3>1
    <3> QED
      BY <1>1, <1>8, <2>2, <3>2, <3>6, <3>7, UploadStep
  <2>3. CASE ~GetRekorClient(server) /\ UNCHANGED <<log, logged>>
    <3> DEFINE c == ParseStorageFlag(setup.flags[F])
    <3>1. c = Config /\ c.backend = "rekor" /\ ParseStorageFlag(setup.flags[F])' = c
      BY <1>1, <1>3, <1>8 DEF Config
    <3> HIDE DEF c
    <3>2. server \in NewRekorBackend(c)
      BY <3>1 DEF CreateStorageBackend
    <3>3. NoClient(F)'
      BY <2>3, <3>1, <3>2 DEF NoClient
    <3>4. Tried(P, F)'
      BY <3>3 DEF Tried
    <3> QED
      BY <1>1, <1>7, <1>8, <2>3, <3>4, UploadStep
  <2> QED
    BY <1>2, <2>1, <2>2, <2>3
<1> QED
  BY <1>8

LEMMA ReadStep ==
  ASSUME CmdInv, NEW q \in queue, ReadEnvelope(q)
  PROVE  CmdInv'
<1>1. /\ UNCHANGED <<setup, pc, todo, files, envs, snapEnv, log, dirs, logged, uploaded, exit>>
      /\ pc = "uploads" /\ cur.path = NoPath /\ queue' = queue \ {q}
      /\ \/ cur' = [path |-> q, flag |-> 1, content |-> files[q]] /\ UNCHANGED warned
         \/ warned' = warned \cup {<<q, i>> : i \in DOMAIN setup.flags} /\ UNCHANGED cur
  BY DEF ReadEnvelope
<1>2. FilesInv' /\ EnvsInv' /\ Envelopes' = Envelopes
  BY <1>1, FilesFrame
<1>3. PcInv'
  BY <1>1 DEF CmdInv, PcInv
<1>4. KeptInv'
  BY <1>1, <1>2 DEF CmdInv, KeptInv
<1>5. DOMAIN setup.flags = 1..Len(setup.flags) /\ Len(setup.flags) \in Nat /\ IsSequence(setup.flags)
  <2>1. IsSequence(setup.flags)
    BY SetupAssumption DEF CmdInv, PcInv
  <2> QED
    BY <2>1, AppendFacts
<1>6. setup.flags # << >> /\ q \in Envelopes
  BY DEF CmdInv, CurInv
<1>7. 1 \in DOMAIN setup.flags
  <2>1. Len(setup.flags) # 0
    BY <1>5, <1>6 DEF IsSequence
  <2> QED
    BY <2>1, <1>5
<1>8. CurInv'
  <2>1. CASE UNCHANGED cur
    BY <2>1, <1>1, <1>2 DEF CmdInv, CurInv
  <2>2. CASE cur' = [path |-> q, flag |-> 1, content |-> files[q]]
    BY <2>2, <1>1, <1>2, <1>6, <1>7 DEF CmdInv, CurInv
  <2> QED
    BY <2>1, <2>2, <1>1
<1>9. ASSUME NEW p \in Envelopes, NEW f \in DOMAIN setup.flags
      PROVE  \/ p \in queue'
             \/ cur'.path = p /\ f >= cur'.flag
             \/ Tried(p, f)'
  <2>1. CASE p = q
    <3>1. CASE cur' = [path |-> q, flag |-> 1, content |-> files[q]]
      BY <2>1, <3>1, <1>5
    <3>2. CASE warned' = warned \cup {<<q, i>> : i \in DOMAIN setup.flags}
      BY <2>1, <3>2 DEF Tried
    <3> QED
      BY <3>1, <3>2, <1>1
  <2>2. CASE p # q /\ p \in queue
    BY <2>2, <1>1
  <2>3. CASE Tried(p, f)
    <3>1. KeptInv /\ warned \subseteq warned'
      BY <1>1 DEF CmdInv
    <3> QED
      BY <2>3, <3>1, <1>1, TriedStays
  <2>4. p # NoPath
    BY DEF Envelopes, CmdInv, EnvsInv, Signed
  <2>5. snapEnv # NoPath
    BY <1>1 DEF CmdInv, PcInv
  <2> QED
    BY <1>1, <2>1, <2>2, <2>3, <2>4, <2>5 DEF CmdInv, TriedInv
<1>10. TriedInv'
  BY <1>1, <1>2, <1>9 DEF TriedInv
<1> QED
  BY <1>2, <1>3, <1>4, <1>8, <1>10 DEF CmdInv

\* A step after which nothing but where the command is has changed.
LEMMA FinishStep ==
  ASSUME CmdInv, Finish
  PROVE  CmdInv'
<1>1. /\ UNCHANGED <<setup, todo, files, envs, snapEnv, queue, cur, log, dirs, warned, logged, uploaded>>
      /\ pc' = "done" /\ exit' = Verdict
      /\ pc = "verdict" \/ (pc = "uploads" /\ queue = {} /\ cur.path = NoPath)
  BY DEF Finish
<1>2. FilesInv' /\ EnvsInv' /\ Envelopes' = Envelopes
  BY <1>1, FilesFrame
<1>3. PcInv'
  BY <1>1 DEF CmdInv, PcInv, Verdict, Success, report
<1>4. CurInv' /\ KeptInv'
  BY <1>1, <1>2 DEF CmdInv, CurInv, KeptInv
<1>5. \A p, f : Tried(p, f)' = Tried(p, f)
  BY <1>1 DEF Tried, Stored, NoClient
<1>6. TriedInv'
  BY <1>1, <1>2, <1>5 DEF CmdInv, TriedInv
<1> QED
  BY <1>2, <1>3, <1>4, <1>6 DEF CmdInv

LEMMA CommandFrame ==
  ASSUME CmdInv, UNCHANGED cmdVars
  PROVE  CmdInv'
<1>1. UNCHANGED <<setup, pc, todo, files, envs, snapEnv, queue, cur, log, dirs, warned, logged, exit>>
  BY DEF cmdVars
<1>2. FilesInv' /\ EnvsInv' /\ Envelopes' = Envelopes
  BY <1>1, FilesFrame
<1>3. PcInv'
  BY <1>1 DEF CmdInv, PcInv, Verdict, Success, report
<1>4. CurInv' /\ KeptInv'
  BY <1>1, <1>2 DEF CmdInv, CurInv, KeptInv
<1>5. \A p, f : Tried(p, f)' = Tried(p, f)
  BY <1>1 DEF Tried, Stored, NoClient
<1>6. TriedInv'
  BY <1>1, <1>2, <1>5 DEF CmdInv, TriedInv
<1> QED
  BY <1>2, <1>3, <1>4, <1>6 DEF CmdInv

LEMMA CommandInit ==
  ASSUME CmdInit
  PROVE  CmdInv
<1> USE DEF CmdInit
<1>1. DOMAIN files = {} /\ DOMAIN envs = {}
  OBVIOUS
<1>2. FilesInv
  <2>1. Predicates = {}
    BY <1>1 DEF Predicates
  <2> QED
    BY <1>1, <2>1, FS_EmptySet DEF FilesInv
<1>3. EnvsInv /\ PcInv /\ CurInv /\ TriedInv
  BY <1>1 DEF EnvsInv, PcInv, CurInv, TriedInv, Envelopes
<1>4. IsSequence(log) /\ DOMAIN log = 1..Len(setup.log) /\ Len(setup.log) \in Nat
  <2>1. IsSequence(setup.log)
    BY SetupAssumption
  <2> QED
    BY <2>1, AppendFacts
<1>5. IsSequence(dirs) /\ DOMAIN dirs = {}
  BY DEF IsSequence
<1>6. KeptInv
  BY <1>4, <1>5 DEF KeptInv
<1> QED
  BY <1>2, <1>3, <1>6 DEF CmdInv

LEMMA CommandStep ==
  ASSUME CmdInv, [Next]_vars
  PROVE  CmdInv'
<1>1. CASE CommandNext
  BY <1>1, SignerStep, ComponentStep, SnapshotStep, FinishStep, ReadStep, SkipStep, LocalStep,
     SignerUploadStep DEF CommandNext
<1>2. CASE UNCHANGED cmdVars
  BY <1>2, CommandFrame
<1> QED
  BY <1>1, <1>2 DEF Next, vars

\* The inductive invariant of the command, whatever a retrieval does meanwhile.
THEOREM CommandInvariance == Spec => []CmdInv
<1>1. Init => CmdInv
  BY CommandInit DEF Init
<1>2. CmdInv /\ [Next]_vars => CmdInv'
  BY CommandStep
<1> QED
  BY <1>1, <1>2, PTL DEF Spec

\* service.go, vsa.go: every envelope that ComponentEnvelopes names was signed for its own
\* image and family and, when the image passed, for the digest that was validated.
THEOREM EnvelopesAttestTheirOwn == Spec => []AttestsOwn
<1>1. CmdInv => AttestsOwn
  BY DEF CmdInv, EnvsInv, Signed, Own, AttestsOwn
<1> QED
  BY <1>1, CommandInvariance, PTL

\* storage.go, image.go: at the end every backend holds every envelope or something was
\* logged for the pair, unless the address is not a URL; nothing but the envelopes of this
\* report was uploaded, and no failure changed the verdict.
THEOREM UploadsAreSound == Spec => []UploadsSound
<1>1. ASSUME CmdInv PROVE EveryBackendTried
  BY <1>1 DEF CmdInv, PcInv, TriedInv, Tried, EveryBackendTried, EnvsInv, Signed, Envelopes
<1>2. ASSUME CmdInv PROVE OnlyWholeResults
  BY <1>2 DEF CmdInv, PcInv, KeptInv, OnlyWholeResults
<1>3. ASSUME CmdInv PROVE VerdictKept
  BY <1>3 DEF CmdInv, PcInv, VerdictKept
<1>4. CmdInv => UploadsSound
  BY <1>1, <1>2, <1>3 DEF UploadsSound
<1> QED
  BY <1>4, CommandInvariance, PTL

-----------------------------------------------------------------------------
(* Part 2: the retrieval *)

Fetching == {w \in Workers : wpc[w] = "fetch"}
Arrived == {results[k].uuid : k \in DOMAIN results}

\* Types of the pool, and what holds before and after it runs.
PoolInv ==
  /\ rpc \in {"idle", "collect", "done"}
  /\ expired \in BOOLEAN /\ feeding \in BOOLEAN
  /\ uuids \in Seq(Nat) /\ fed \in Seq(Nat) /\ chan \in Seq(Nat)
  /\ results \in Seq([uuid : Nat, ok : BOOLEAN])
  /\ wpc \in [Workers -> {"off", "range", "fetch"}] /\ job \in [Workers -> Nat]
  /\ rpc # "collect" => \A w \in Workers : wpc[w] = "off"
  /\ rpc = "idle" => chan = << >> /\ results = << >> /\ ~expired /\ ~feeding
  /\ rpc = "collect" => pool \in Workers
  /\ rpc # "done" => ~answer.ok

\* Until the deadline passes, a worker of the pool ends only when the closed channel is
\* empty, and every UUID is in exactly one place: with the feeder, in the channel, with a
\* worker or among the results.
EndsLate ==
  /\ (\E w \in 1..pool : wpc[w] = "off") => chan = << >> /\ ~feeding
  /\ ~feeding => fed = << >>

Accounted ==
  /\ Len(fed) + Len(chan) + Cardinality(Fetching) + Len(results) = Len(uuids)
  /\ Range(uuids) = Range(fed) \cup Range(chan) \cup {job[w] : w \in Fetching} \cup Arrived

OpenInv == rpc = "collect" /\ ~expired => EndsLate /\ Accounted

RetrInv == PoolInv /\ OpenInv /\ NoPartialAnswer

LEMMA PoolFacts ==
  /\ NumWorkers \in Nat \ {0}
  /\ \A S \in SUBSET Workers : IsFiniteSet(S)
<1>1. NumWorkers \in Nat \ {0}
  BY RetrieverAssumption DEF NumWorkers, getWorkerCount
<1>2. IsFiniteSet(Workers)
  BY <1>1, FS_Interval DEF Workers
<1> QED
  BY <1>1, <1>2, FS_Subset

\* An element that joins the tail of a sequence.
LEMMA TailFacts ==
  ASSUME NEW S, NEW s \in Seq(S), NEW e \in S
  PROVE  /\ Append(s, e) \in Seq(S) /\ Len(Append(s, e)) = Len(s) + 1 /\ Len(s) \in Nat
         /\ DOMAIN s = 1..Len(s) /\ DOMAIN Append(s, e) = 1..(Len(s) + 1)
         /\ \A i \in 1..Len(s) : Append(s, e)[i] = s[i]
         /\ Append(s, e)[Len(s) + 1] = e
OBVIOUS

\* What leaves one place and joins the next leaves the sum of the four places.
LEMMA Transfer ==
  ASSUME NEW x \in Nat, NEW c \in Nat, NEW y \in Nat, NEW z \in Nat
  PROVE  /\ x + (c - 1) + (y + 1) + z = x + c + y + z
         /\ x + c + (y - 1) + (z + 1) = x + c + y + z
OBVIOUS

\* What leaves the head of a queue and what joins its tail.
LEMMA QueueFacts ==
  ASSUME NEW S, NEW s \in Seq(S)
  PROVE  /\ s # << >> => /\ Head(s) \in S /\ Tail(s) \in Seq(S) /\ Len(Tail(s)) = Len(s) - 1
                         /\ Range(s) = Range(Tail(s)) \cup {Head(s)}
         /\ \A e \in S : /\ Append(s, e) \in Seq(S) /\ Len(Append(s, e)) = Len(s) + 1
                         /\ Range(Append(s, e)) = Range(s) \cup {e}
         /\ Len(s) \in Nat
         /\ s = << >> => Len(s) = 0 /\ Range(s) = {}
<1>1. ASSUME s # << >>
      PROVE  /\ Head(s) \in S /\ Tail(s) \in Seq(S) /\ Len(Tail(s)) = Len(s) - 1
             /\ Range(s) = Range(Tail(s)) \cup {Head(s)}
  <2>1. /\ Head(s) \in S /\ Tail(s) \in Seq(S) /\ Len(Tail(s)) = Len(s) - 1
        /\ Len(s) \in Nat \ {0} /\ DOMAIN s = 1..Len(s)
        /\ DOMAIN Tail(s) = 1..(Len(s) - 1)
        /\ \A i \in 1..(Len(s) - 1) : Tail(s)[i] = s[i + 1]
        /\ Head(s) = s[1]
    BY <1>1
  <2>2. ASSUME NEW i \in DOMAIN s PROVE s[i] \in Range(Tail(s)) \cup {Head(s)}
    <3>1. CASE i = 1
      BY <3>1, <2>1
    <3>2. CASE i # 1
      <4>1. i - 1 \in DOMAIN Tail(s) /\ Tail(s)[i - 1] = s[i]
        BY <3>2, <2>1
      <4> QED
        BY <4>1 DEF Range
    <3> QED
      BY <3>1, <3>2
  <2>3. ASSUME NEW i \in DOMAIN Tail(s) PROVE Tail(s)[i] \in Range(s)
    <3>1. i + 1 \in DOMAIN s /\ Tail(s)[i] = s[i + 1]
      BY <2>1
    <3> QED
      BY <3>1 DEF Range
  <2>4. Head(s) \in Range(s)
    BY <2>1 DEF Range
  <2> QED
    BY <2>1, <2>2, <2>3, <2>4 DEF Range
<1>2. ASSUME NEW e \in S
      PROVE  /\ Append(s, e) \in Seq(S) /\ Len(Append(s, e)) = Len(s) + 1
             /\ Range(Append(s, e)) = Range(s) \cup {e}
  <2> DEFINE t == Append(s, e)
  <2> HIDE DEF t
  <2>1. /\ t \in Seq(S) /\ Len(t) = Len(s) + 1 /\ Len(s) \in Nat
        /\ DOMAIN s = 1..Len(s) /\ DOMAIN t = 1..(Len(s) + 1)
        /\ \A i \in 1..Len(s) : t[i] = s[i]
        /\ t[Len(s) + 1] = e
    BY <1>2, TailFacts DEF t
  <2>2. Range(t) = Range(s) \cup {e}
    <3>1. ASSUME NEW i \in DOMAIN t PROVE t[i] \in Range(s) \cup {e}
      BY <2>1 DEF Range
    <3>2. ASSUME NEW i \in DOMAIN s PROVE s[i] \in Range(t)
      BY <2>1 DEF Range
    <3>3. e \in Range(t)
      BY <2>1 DEF Range
    <3> QED
      BY <3>1, <3>2, <3>3 DEF Range
  <2> QED
    BY <2>1, <2>2 DEF t
<1>3. Len(s) \in Nat /\ (s = << >> => Len(s) = 0 /\ Range(s) = {})
  BY DEF Range
<1> QED
  BY <1>1, <1>2, <1>3

\* A result that arrives adds its UUID.
LEMMA ArrivedFacts ==
  ASSUME PoolInv, NEW r \in [uuid : Nat, ok : BOOLEAN], results' = Append(results, r)
  PROVE  /\ results' \in Seq([uuid : Nat, ok : BOOLEAN])
         /\ Len(results') = Len(results) + 1 /\ Len(results) \in Nat
         /\ Arrived' = Arrived \cup {r.uuid}
<1>1. /\ results' \in Seq([uuid : Nat, ok : BOOLEAN])
      /\ Len(results') = Len(results) + 1 /\ Len(results) \in Nat
      /\ DOMAIN results = 1..Len(results) /\ DOMAIN results' = 1..(Len(results) + 1)
      /\ \A k \in DOMAIN results : results'[k] = results[k]
      /\ results'[Len(results) + 1] = r
  <2> DEFINE R == [uuid : Nat, ok : BOOLEAN]
  <2>1. results \in Seq(R)
    BY DEF PoolInv
  <2> HIDE DEF R
  <2>2. r \in R
    BY DEF R
  <2> QED
    BY <2>1, <2>2, TailFacts DEF R
<1>2. ASSUME NEW k \in DOMAIN results' PROVE results'[k].uuid \in Arrived \cup {r.uuid}
  BY <1>1 DEF Arrived
<1>3. ASSUME NEW k \in DOMAIN results PROVE results[k].uuid \in Arrived'
  <2>1. k \in DOMAIN results' /\ results'[k] = results[k]
    BY <1>1
  <2> QED
    BY <2>1 DEF Arrived
<1>4. r.uuid \in Arrived'
  <2>1. Len(results) + 1 \in DOMAIN results' /\ results'[Len(results) + 1].uuid = r.uuid
    BY <1>1
  <2> QED
    BY <2>1 DEF Arrived
<1> QED
  BY <1>1, <1>2, <1>3, <1>4 DEF Arrived

LEMMA RetrieverInit ==
  ASSUME RetrInit
  PROVE  RetrInv
<1> USE DEF RetrInit
<1>1. PoolInv
  <2>1. wpc \in [Workers -> {"off", "range", "fetch"}] /\ job \in [Workers -> Nat]
    OBVIOUS
  <2>2. /\ uuids \in Seq(Nat) /\ fed \in Seq(Nat) /\ chan \in Seq(Nat)
        /\ results \in Seq([uuid : Nat, ok : BOOLEAN])
    OBVIOUS
  <2>3. ~answer.ok
    BY DEF NoAnswer
  <2> QED
    BY <2>1, <2>2, <2>3 DEF PoolInv
<1>2. OpenInv /\ NoPartialAnswer
  BY DEF OpenInv, NoPartialAnswer, NoAnswer
<1> QED
  BY <1>1, <1>2 DEF RetrInv

LEMMA SearchStep ==
  ASSUME CmdInv, RetrInv, Search
  PROVE  RetrInv'
<1>1. /\ rpc = "idle" /\ UNCHANGED <<chan, job, results, expired, missing>>
      /\ uuids' \in SetToSeqs(Hits)
      /\ chan = << >> /\ results = << >> /\ ~expired
      /\ \A w \in Workers : wpc[w] = "off"
  BY DEF Search, RetrInv, PoolInv
<1>2. IsFiniteSet(Hits) /\ Hits \subseteq Nat
  <2>1. DOMAIN log = 1..Len(log) /\ Len(log) \in Nat
    BY AppendFacts DEF CmdInv, KeptInv
  <2>2. IsFiniteSet(DOMAIN log)
    BY <2>1, FS_Interval
  <2> QED
    BY <2>1, <2>2, FS_Subset DEF Hits
<1>3. Cardinality(Hits) \in Nat /\ (Hits # {} => Cardinality(Hits) # 0)
  BY <1>2, FS_CardinalityType, FS_EmptySet
<1>4. uuids' \in [1..Cardinality(Hits) -> Hits]
  BY <1>1 DEF SetToSeqs
<1>5. uuids' \in Seq(Nat) /\ Len(uuids') = Cardinality(Hits)
  <2> DEFINE n == Cardinality(Hits)
  <2>1. uuids' \in [1..n -> Nat] /\ n \in Nat
    BY <1>2, <1>3, <1>4
  <2> HIDE DEF n
  <2>2. uuids' \in Seq(Nat) /\ Len(uuids') = n
    BY <2>1
  <2> QED
    BY <2>2 DEF n
<1>6. CASE Hits = {}
  <2>1. rpc' = "done" /\ answer' = Failed("no entries") /\ UNCHANGED <<pool, fed, feeding, wpc>>
    BY <1>6 DEF Search
  <2>2. PoolInv'
    BY <1>1, <1>5, <2>1 DEF RetrInv, PoolInv
  <2> QED
    BY <2>1, <2>2 DEF RetrInv, OpenInv, NoPartialAnswer, Failed
<1>7. CASE Hits # {}
  <2>1. /\ rpc' = "collect" /\ UNCHANGED answer /\ pool' = PoolSize(Len(uuids'))
        /\ fed' = uuids' /\ feeding' = TRUE
        /\ wpc' = [w \in Workers |-> IF w <= pool' THEN "range" ELSE "off"]
    BY <1>7 DEF Search
  <2>2. pool' \in Workers
    BY <1>3, <1>5, <1>7, <2>1, PoolFacts DEF PoolSize, Workers
  <2>3. PoolInv'
    BY <1>1, <1>5, <2>1, <2>2 DEF RetrInv, PoolInv
  <2>4. \A w \in 1..pool' : wpc'[w] = "range"
    BY <2>1, <2>2, PoolFacts DEF Workers
  <2>5. Fetching' = {}
    BY <2>1 DEF Fetching
  <2>6. Arrived' = {} /\ Range(chan') = {}
    BY <1>1 DEF Arrived, Range
  <2>7. OpenInv'
    <3>1. Cardinality(Fetching') = 0 /\ Len(chan') = 0 /\ Len(results') = 0 /\ Len(uuids') \in Nat
      BY <1>1, <1>3, <1>5, <2>5, FS_EmptySet
    <3>2. {job'[w] : w \in Fetching'} = {}
      BY <2>5
    <3> QED
      BY <2>1, <2>4, <2>6, <3>1, <3>2 DEF OpenInv, EndsLate, Accounted
  <2>8. NoPartialAnswer'
    BY <2>1, <1>1 DEF NoPartialAnswer, RetrInv, PoolInv
  <2> QED
    BY <2>3, <2>7, <2>8 DEF RetrInv
<1> QED
  BY <1>6, <1>7

\* The steps that fail the search or pass the deadline.
LEMMA EndStep ==
  ASSUME RetrInv, SearchFails \/ Expire
  PROVE  RetrInv'
<1>1. /\ UNCHANGED <<uuids, pool, fed, feeding, chan, wpc, job, results, missing>>
      /\ \/ rpc' = "done" /\ answer' \in {Failed("search"), Failed("digest")} /\ UNCHANGED expired
         \/ rpc = "collect" /\ expired' = TRUE /\ UNCHANGED <<rpc, answer>>
  BY DEF SearchFails, Expire
<1>2. \/ rpc = "idle" \/ rpc = "collect"
  BY DEF SearchFails, Expire
<1>3. PoolInv'
  <2>1. CASE rpc = "collect" /\ expired' = TRUE /\ UNCHANGED <<rpc, answer>>
    BY <1>1, <2>1 DEF RetrInv, PoolInv
  <2>2. CASE SearchFails
    <3>1. rpc = "idle" /\ rpc' = "done" /\ UNCHANGED expired
      BY <2>2 DEF SearchFails
    <3> QED
      BY <1>1, <3>1 DEF RetrInv, PoolInv
  <2>3. CASE Expire
    BY <2>1, <2>3 DEF Expire
  <2> QED
    BY <2>2, <2>3
<1>4. ~answer'.ok /\ OpenInv'
  BY <1>1, <1>2 DEF RetrInv, PoolInv, OpenInv, Failed
<1> QED
  BY <1>3, <1>4 DEF RetrInv, NoPartialAnswer

LEMMA FeedStep ==
  ASSUME RetrInv, Feed \/ CloseUuids
  PROVE  RetrInv'
<1>1. UNCHANGED <<rpc, uuids, pool, wpc, job, results, expired, missing, answer>> /\ feeding
  BY DEF Feed, CloseUuids
<1>2. /\ fed \in Seq(Nat) /\ chan \in Seq(Nat) /\ results \in Seq([uuid : Nat, ok : BOOLEAN])
      /\ uuids \in Seq(Nat)
  BY DEF RetrInv, PoolInv
<1>3. Fetching' = Fetching /\ Arrived' = Arrived /\ {job'[w] : w \in Fetching'} = {job[w] : w \in Fetching}
  BY <1>1 DEF Fetching, Arrived
<1>4. NoPartialAnswer'
  BY <1>1 DEF RetrInv, NoPartialAnswer
<1>5. Cardinality(Fetching) \in Nat
  BY PoolFacts, FS_CardinalityType DEF Fetching
<1>6. CASE fed # << >> /\ chan' = Append(chan, Head(fed)) /\ fed' = Tail(fed) /\ UNCHANGED feeding
  <2>1. /\ Head(fed) \in Nat /\ fed' \in Seq(Nat) /\ Len(fed') = Len(fed) - 1 /\ Len(fed) \in Nat
        /\ Range(fed) = Range(fed') \cup {Head(fed)}
    BY <1>2, <1>6, QueueFacts
  <2>2. /\ chan' \in Seq(Nat) /\ Len(chan') = Len(chan) + 1 /\ Len(chan) \in Nat
        /\ Range(chan') = Range(chan) \cup {Head(fed)}
    BY <1>2, <1>6, <2>1, QueueFacts
  <2>4. PoolInv'
    BY <1>1, <1>6, <2>1, <2>2 DEF RetrInv, PoolInv
  <2>5. ASSUME rpc = "collect", ~expired PROVE EndsLate' /\ Accounted'
    <3>1. EndsLate /\ Accounted
      BY <2>5 DEF RetrInv, OpenInv
    <3>2. EndsLate'
      BY <1>1, <1>6, <3>1 DEF EndsLate
    <3>3. Len(results) \in Nat
      BY <1>2
    <3>4. Len(fed') + Len(chan') + Cardinality(Fetching') + Len(results') = Len(uuids')
      BY <1>1, <1>3, <1>5, <2>1, <2>2, <3>1, <3>3 DEF Accounted
    <3>5. Range(uuids') = Range(fed') \cup Range(chan') \cup {job'[w] : w \in Fetching'} \cup Arrived'
      BY <1>1, <1>3, <2>1, <2>2, <3>1 DEF Accounted
    <3> QED
      BY <3>2, <3>4, <3>5 DEF Accounted
  <2>6. OpenInv'
    BY <1>1, <2>5 DEF OpenInv
  <2> QED
    BY <1>4, <2>4, <2>6 DEF RetrInv
<1>7. CASE feeding' = FALSE /\ fed' = << >> /\ UNCHANGED chan /\ (expired \/ fed = << >>)
  <2>1. PoolInv'
    <3>1. fed' \in Seq(Nat)
      BY <1>7
    <3>2. feeding' \in BOOLEAN /\ ~feeding'
      BY <1>7, Zenon
    <3> QED
      BY <1>1, <1>7, <3>1, <3>2 DEF RetrInv, PoolInv
  <2>2. OpenInv'
    <3>1. CASE expired
      BY <1>1, <3>1 DEF OpenInv
    <3>2. CASE fed = << >>
      <4>1. Accounted => Accounted'
        BY <1>1, <1>3, <1>7, <3>2 DEF Accounted
      <4>2. EndsLate => EndsLate'
        BY <1>1, <1>7 DEF EndsLate
      <4> QED
        BY <1>1, <4>1, <4>2 DEF RetrInv, OpenInv
    <3> QED
      BY <1>7, <3>1, <3>2
  <2> QED
    BY <1>4, <2>1, <2>2 DEF RetrInv
<1> QED
  BY <1>6, <1>7 DEF Feed, CloseUuids

\* A worker that takes a UUID, or ends.
LEMMA TakeStep ==
  ASSUME RetrInv, NEW w \in Workers, Take(w)
  PROVE  RetrInv'
<1>1. /\ UNCHANGED <<rpc, uuids, pool, fed, feeding, results, expired, missing, answer>>
      /\ wpc[w] = "range" /\ chan # << >> /\ chan' = Tail(chan)
  BY DEF Take
<1>2. /\ Head(chan) \in Nat /\ chan' \in Seq(Nat) /\ Len(chan') = Len(chan) - 1 /\ Len(chan) \in Nat
      /\ Range(chan) = Range(chan') \cup {Head(chan)}
  BY <1>1, QueueFacts DEF RetrInv, PoolInv
<1>3. rpc = "collect"
  BY <1>1 DEF RetrInv, PoolInv
<1>4. NoPartialAnswer'
  BY <1>1 DEF RetrInv, NoPartialAnswer
<1>5. wpc \in [Workers -> {"off", "range", "fetch"}] /\ job \in [Workers -> Nat]
  BY DEF RetrInv, PoolInv
<1>6. CASE expired
  <2>1. wpc' = [wpc EXCEPT ![w] = "off"] /\ UNCHANGED job
    BY <1>6 DEF Take, Goto
  <2>2. PoolInv'
    BY <1>1, <1>2, <1>3, <1>5, <2>1 DEF RetrInv, PoolInv
  <2>3. OpenInv'
    BY <1>1, <1>6 DEF OpenInv
  <2> QED
    BY <1>4, <2>2, <2>3 DEF RetrInv
<1>7. CASE ~expired
  <2>1. wpc' = [wpc EXCEPT ![w] = "fetch"] /\ job' = [job EXCEPT ![w] = Head(chan)]
    BY <1>7 DEF Take, Goto
  <2>2. PoolInv'
    <3>1. wpc' \in [Workers -> {"off", "range", "fetch"}] /\ job' \in [Workers -> Nat]
      BY <1>2, <1>5, <2>1
    <3> QED
      BY <1>1, <1>2, <1>3, <3>1 DEF RetrInv, PoolInv
  <2>3. EndsLate /\ Accounted
    BY <1>3, <1>7 DEF RetrInv, OpenInv
  <2>4. EndsLate'
    <3>1. \A v \in 1..pool : wpc[v] # "off"
      BY <1>1, <2>3 DEF EndsLate
    <3>2. pool \in Workers
      BY <1>3 DEF RetrInv, PoolInv
    <3>3. \A v \in 1..pool' : wpc'[v] # "off"
      BY <1>1, <1>5, <2>1, <3>1, <3>2, PoolFacts DEF Workers
    <3> QED
      BY <1>1, <2>3, <3>3 DEF EndsLate
  <2>5. Fetching' = Fetching \cup {w} /\ w \notin Fetching
    BY <1>1, <1>5, <2>1 DEF Fetching
  <2>6. Cardinality(Fetching') = Cardinality(Fetching) + 1 /\ Cardinality(Fetching) \in Nat
    <3>1. IsFiniteSet(Fetching)
      BY PoolFacts DEF Fetching
    <3> QED
      BY <2>5, <3>1, FS_AddElement, FS_CardinalityType
  <2>7. {job'[v] : v \in Fetching'} = {job[v] : v \in Fetching} \cup {Head(chan)}
    <3>1. \A v \in Fetching : job'[v] = job[v]
      BY <1>5, <2>1, <2>5 DEF Fetching
    <3>2. job'[w] = Head(chan)
      BY <1>5, <2>1
    <3> QED
      BY <2>5, <3>1, <3>2
  <2>8. Arrived' = Arrived
    BY <1>1 DEF Arrived
  <2>9. Len(fed') + Len(chan') + Cardinality(Fetching') + Len(results') = Len(uuids')
    <3>1. Len(fed) \in Nat /\ Len(results) \in Nat
      BY DEF RetrInv, PoolInv
    <3>2. Len(fed) + Len(chan) + Cardinality(Fetching) + Len(results) = Len(uuids)
      BY <2>3 DEF Accounted
    <3>3. Len(fed') = Len(fed) /\ Len(results') = Len(results) /\ Len(uuids') = Len(uuids)
      BY <1>1
    <3>4. Len(chan) \in Nat /\ Len(chan') = Len(chan) - 1
      BY <1>2
    <3>5. Len(fed) + (Len(chan) - 1) + (Cardinality(Fetching) + 1) + Len(results) = Len(uuids)
      <4> DEFINE x == Len(fed)
                 c == Len(chan)
                 y == Cardinality(Fetching)
                 z == Len(results)
      <4>1. x \in Nat /\ c \in Nat /\ y \in Nat /\ z \in Nat /\ x + c + y + z = Len(uuids)
        BY <2>6, <3>1, <3>2, <3>4
      <4> HIDE DEF x, c, y, z
      <4>2. x + (c - 1) + (y + 1) + z = Len(uuids)
        BY <4>1, Transfer
      <4> QED
        BY <4>2 DEF x, c, y, z
    <3> QED
      BY <2>6, <3>3, <3>4, <3>5
  <2>10. Range(uuids') = Range(fed') \cup Range(chan') \cup {job'[v] : v \in Fetching'} \cup Arrived'
    BY <1>1, <1>2, <2>3, <2>7, <2>8 DEF Accounted
  <2>11. OpenInv'
    BY <2>4, <2>9, <2>10 DEF OpenInv, Accounted
  <2> QED
    BY <1>4, <2>2, <2>11 DEF RetrInv
<1> QED
  BY <1>6, <1>7

LEMMA LeaveStep ==
  ASSUME RetrInv, NEW w \in Workers, Leave(w)
  PROVE  RetrInv'
<1>1. /\ UNCHANGED <<rpc, uuids, pool, fed, feeding, chan, job, results, expired, missing, answer>>
      /\ wpc[w] = "range" /\ chan = << >> /\ ~feeding
      /\ wpc' = [wpc EXCEPT ![w] = "off"]
  BY DEF Leave, Goto
<1>2. wpc \in [Workers -> {"off", "range", "fetch"}]
  BY DEF RetrInv, PoolInv
<1>3. Fetching' = Fetching
  BY <1>1, <1>2 DEF Fetching
<1>4. PoolInv'
  BY <1>1, <1>2 DEF RetrInv, PoolInv
<1>5. EndsLate => EndsLate'
  BY <1>1 DEF EndsLate
<1>6. Accounted => Accounted'
  BY <1>1, <1>3 DEF Accounted, Arrived
<1>7. OpenInv' /\ NoPartialAnswer'
  BY <1>1, <1>5, <1>6 DEF RetrInv, OpenInv, NoPartialAnswer
<1> QED
  BY <1>4, <1>7 DEF RetrInv

\* A worker that sends a result, or drops it after the deadline.
LEMMA FetchStep ==
  ASSUME RetrInv, NEW w \in Workers, FetchEntry(w)
  PROVE  RetrInv'
<1>1. /\ UNCHANGED <<rpc, uuids, pool, fed, feeding, chan, expired, answer>>
      /\ wpc[w] = "fetch" /\ job' = [job EXCEPT ![w] = 0]
  BY DEF FetchEntry
<1>2. /\ wpc \in [Workers -> {"off", "range", "fetch"}] /\ job \in [Workers -> Nat]
      /\ rpc = "collect"
  BY <1>1 DEF RetrInv, PoolInv
<1>3. job' \in [Workers -> Nat]
  BY <1>1, <1>2
<1>4. NoPartialAnswer'
  BY <1>1, <1>2 DEF RetrInv, PoolInv, NoPartialAnswer
<1>5. CASE expired /\ UNCHANGED results /\ wpc' = [wpc EXCEPT ![w] = "off"]
  <2>1. PoolInv'
    BY <1>1, <1>2, <1>3, <1>5 DEF RetrInv, PoolInv
  <2>2. OpenInv'
    BY <1>1, <1>5 DEF OpenInv
  <2> QED
    BY <1>4, <2>1, <2>2 DEF RetrInv
<1>6. ASSUME NEW ok \in BOOLEAN, results' = Append(results, Result(job[w], ok)),
             wpc' = [wpc EXCEPT ![w] = "range"]
      PROVE  RetrInv'
  <2> DEFINE r == Result(job[w], ok)
  <2>1. r \in [uuid : Nat, ok : BOOLEAN] /\ r.uuid = job[w]
    BY <1>2 DEF Result
  <2>2. /\ results' \in Seq([uuid : Nat, ok : BOOLEAN])
        /\ Len(results') = Len(results) + 1 /\ Len(results) \in Nat
        /\ Arrived' = Arrived \cup {job[w]}
    <3>1. PoolInv
      BY DEF RetrInv
    <3> QED
      BY <1>6, <2>1, <3>1, ArrivedFacts
  <2>3. PoolInv'
    BY <1>1, <1>2, <1>3, <1>6, <2>2 DEF RetrInv, PoolInv
  <2>4. Fetching' = Fetching \ {w} /\ w \in Fetching
    BY <1>1, <1>2, <1>6 DEF Fetching
  <2>5. Cardinality(Fetching') = Cardinality(Fetching) - 1 /\ Cardinality(Fetching) \in Nat
    <3>1. IsFiniteSet(Fetching)
      BY PoolFacts DEF Fetching
    <3> QED
      BY <2>4, <3>1, FS_RemoveElement, FS_CardinalityType
  <2>6. {job[v] : v \in Fetching} = {job'[v] : v \in Fetching'} \cup {job[w]}
    <3>1. \A v \in Fetching' : job'[v] = job[v]
      BY <1>1, <1>2, <2>4 DEF Fetching
    <3> QED
      BY <2>4, <3>1
  <2>7. EndsLate => EndsLate'
    <3>1. pool \in Workers
      BY <1>2 DEF RetrInv, PoolInv
    <3>2. ASSUME NEW v \in 1..pool, wpc'[v] = "off" PROVE wpc[v] = "off"
      BY <1>2, <1>6, <3>1, <3>2, PoolFacts DEF Workers
    <3> QED
      BY <1>1, <3>2 DEF EndsLate
  <2>8. Accounted => Accounted'
    <3>1. Len(fed) \in Nat /\ Len(chan) \in Nat
      BY DEF RetrInv, PoolInv
    <3>2. ASSUME Accounted
          PROVE  Len(fed') + Len(chan') + Cardinality(Fetching') + Len(results') = Len(uuids')
      <4>1. Len(fed) + Len(chan) + Cardinality(Fetching) + Len(results) = Len(uuids)
        BY <3>2 DEF Accounted
      <4>2. Len(fed) + Len(chan) + (Cardinality(Fetching) - 1) + (Len(results) + 1) = Len(uuids)
        <5> DEFINE x == Len(fed)
                   c == Len(chan)
                   y == Cardinality(Fetching)
                   z == Len(results)
        <5>1. x \in Nat /\ c \in Nat /\ y \in Nat /\ z \in Nat /\ x + c + y + z = Len(uuids)
          BY <2>2, <2>5, <3>1, <4>1
        <5> HIDE DEF x, c, y, z
        <5>2. x + c + (y - 1) + (z + 1) = Len(uuids)
          BY <5>1, Transfer
        <5> QED
          BY <5>2 DEF x, c, y, z
      <4>3. /\ Len(fed') = Len(fed) /\ Len(chan') = Len(chan) /\ Len(uuids') = Len(uuids)
            /\ Cardinality(Fetching') = Cardinality(Fetching) - 1
            /\ Len(results') = Len(results) + 1
        BY <1>1, <2>2, <2>5
      <4> QED
        BY <4>2, <4>3
    <3>3. ASSUME Accounted
          PROVE  Range(uuids') = Range(fed') \cup Range(chan') \cup {job'[v] : v \in Fetching'} \cup Arrived'
      BY <1>1, <2>2, <2>6, <3>3 DEF Accounted
    <3> QED
      BY <3>2, <3>3 DEF Accounted
  <2>9. OpenInv'
    BY <1>1, <2>7, <2>8 DEF RetrInv, OpenInv
  <2> QED
    BY <1>4, <2>3, <2>9 DEF RetrInv
<1> QED
  BY <1>5, <1>6 DEF FetchEntry, Goto

LEMMA CollectStep ==
  ASSUME RetrInv, Collect
  PROVE  RetrInv'
<1>1. /\ UNCHANGED <<uuids, pool, fed, feeding, chan, wpc, job, results, expired, missing>>
      /\ rpc = "collect" /\ WorkersDone /\ rpc' = "done"
      /\ answer' = IF expired THEN Failed("deadline") ELSE Choice(results)
  BY DEF Collect
<1>2. PoolInv'
  BY <1>1 DEF RetrInv, PoolInv, WorkersDone
<1>3. OpenInv'
  BY <1>1 DEF OpenInv
<1>4. CASE expired
  BY <1>1, <1>2, <1>3, <1>4 DEF RetrInv, NoPartialAnswer, Failed
<1>5. CASE ~expired
  <2>1. EndsLate /\ Accounted
    BY <1>1, <1>5 DEF RetrInv, OpenInv
  <2>2. pool \in Workers
    BY <1>1 DEF RetrInv, PoolInv
  <2>3. wpc[1] = "off" /\ 1 \in 1..pool
    BY <1>1, <2>2, PoolFacts DEF WorkersDone, Workers
  <2>4. chan = << >> /\ fed = << >>
    BY <2>1, <2>3 DEF EndsLate
  <2>5. Fetching = {}
    BY <1>1 DEF WorkersDone, Fetching
  <2>6. Len(chan) = 0 /\ Len(fed) = 0 /\ Range(chan) = {} /\ Range(fed) = {}
    BY <2>4 DEF Range
  <2>7. Cardinality(Fetching) = 0 /\ Len(results) \in Nat
    BY <2>5, FS_EmptySet DEF RetrInv, PoolInv
  <2>8. Len(results) = Len(uuids)
    BY <2>1, <2>6, <2>7 DEF Accounted
  <2>9. Range(uuids) = Arrived
    BY <2>1, <2>5, <2>6 DEF Accounted
  <2>10. NoPartialAnswer'
    BY <1>1, <2>8, <2>9 DEF NoPartialAnswer, Arrived
  <2> QED
    BY <1>2, <1>3, <2>10 DEF RetrInv
<1> QED
  BY <1>4, <1>5

LEMMA RetrieverFrame ==
  ASSUME RetrInv, UNCHANGED retrVars
  PROVE  RetrInv'
<1>1. UNCHANGED <<rpc, uuids, pool, fed, feeding, chan, wpc, job, results, expired, missing, answer>>
  BY DEF retrVars
<1>2. PoolInv' /\ NoPartialAnswer'
  BY <1>1 DEF RetrInv, PoolInv, NoPartialAnswer
<1>3. OpenInv'
  BY <1>1 DEF RetrInv, OpenInv, EndsLate, Accounted, Fetching, Arrived
<1> QED
  BY <1>2, <1>3 DEF RetrInv

LEMMA RetrieverStep ==
  ASSUME CmdInv, RetrInv, [Next]_vars
  PROVE  RetrInv'
<1>1. CASE RetrNext
  BY <1>1, SearchStep, EndStep, FeedStep, CollectStep, TakeStep, LeaveStep, FetchStep DEF RetrNext
<1>2. CASE UNCHANGED retrVars
  BY <1>2, RetrieverFrame
<1> QED
  BY <1>1, <1>2 DEF Next, vars

-----------------------------------------------------------------------------
(* Part 3: the choice among what was fetched *)

\* A set of natural numbers that is not empty has a least one.
LEMMA LeastNumber ==
  ASSUME NEW T, T \subseteq Nat, T # {}
  PROVE  \E m \in T : \A n \in T : m <= n
<1> DEFINE Below == {1..m : m \in T}
<1>1. Below \subseteq FiniteSubsetsOf(Nat)
  <2>1. ASSUME NEW m \in T PROVE 1..m \in FiniteSubsetsOf(Nat)
    BY FS_Interval DEF FiniteSubsetsOf
  <2> QED
    BY <2>1
<1>2. Below # {}
  OBVIOUS
<1>3. PICK x \in Below : \A y \in Below : ~(<<y, x>> \in StrictSubsetOrdering(Nat))
  <2>1. IsWellFoundedOn(StrictSubsetOrdering(Nat), FiniteSubsetsOf(Nat))
    BY FS_StrictSubsetOrderingWellFounded
  <2> HIDE DEF Below
  <2> QED
    BY <1>1, <1>2, <2>1, WFMin
<1>4. PICK m \in T : x = 1..m
  BY <1>3
<1>5. ASSUME NEW n \in T, n < m PROVE FALSE
  <2>1. 1..n \subseteq 1..m /\ m \notin 1..n /\ m \in 1..m
    BY <1>5
  <2>2. <<1..n, 1..m>> \in StrictSubsetOrdering(Nat)
    BY <2>1 DEF StrictSubsetOrdering
  <2> QED
    BY <1>3, <1>4, <2>2
<1> QED
  BY <1>5

\* Induction on the turns of a loop: what holds before it and passes from each turn to
\* the next holds throughout.
LEMMA EveryTurn ==
  ASSUME NEW n \in Nat, NEW T, 0 \in T,
         \A k \in 1..n : k - 1 \in T => k \in T
  PROVE  0..n \subseteq T
<1> SUFFICES ASSUME NEW j \in (0..n) \ T PROVE FALSE
  OBVIOUS
<1> DEFINE Failing == (0..n) \ T
<1>1. PICK m \in Failing : \A i \in Failing : m <= i
  <2>1. Failing \subseteq Nat /\ Failing # {}
    OBVIOUS
  <2> HIDE DEF Failing
  <2> QED
    BY <2>1, LeastNumber
<1>2. m \in 1..n /\ m - 1 \in 0..n /\ ~(m <= m - 1)
  BY <1>1
<1>3. m - 1 \in T
  BY <1>1, <1>2
<1> QED
  BY <1>1, <1>2, <1>3

\* g has the values of a loop of n turns that begins with v.
LoopOf(n, V, v, step, g) ==
  g \in [0..n -> V] /\ g[0] = v /\ \A k \in 1..n : g[k] = step[k][g[k - 1]]

\* A loop that computes a value in each turn from the one before can be run.
LEMMA LoopRuns ==
  ASSUME NEW n \in Nat, NEW V, NEW v \in V, NEW step \in [1..n -> [V -> V]]
  PROVE  \E g : LoopOf(n, V, v, step, g)
<1> DEFINE Runs(m, g) == g[0] = v /\ \A k \in 1..m : g[k] = step[k][g[k - 1]]
           T == {m \in 0..n : \E g \in [0..m -> V] : Runs(m, g)}
<1>1. 0 \in T
  <2> DEFINE h == [i \in 0..0 |-> v]
  <2>1. h \in [0..0 -> V] /\ h[0] = v /\ 1..0 = {}
    OBVIOUS
  <2> HIDE DEF h
  <2>2. 0 \in 0..n /\ Runs(0, h)
    BY <2>1
  <2> QED
    BY <2>1, <2>2
<1>2. ASSUME NEW m \in 1..n, m - 1 \in T PROVE m \in T
  <2>1. PICK g \in [0..(m - 1) -> V] : Runs(m - 1, g)
    BY <1>2
  <2> DEFINE h == [i \in 0..m |-> IF i = m THEN step[m][g[m - 1]] ELSE g[i]]
  <2>2. g[m - 1] \in V /\ step[m][g[m - 1]] \in V
    BY <2>1
  <2>3. h \in [0..m -> V]
    BY <2>1, <2>2
  <2>4. \A i \in 0..(m - 1) : h[i] = g[i]
    OBVIOUS
  <2>5. h[m] = step[m][g[m - 1]]
    OBVIOUS
  <2> HIDE DEF h
  <2>6. h[0] = v
    BY <2>1, <2>4
  <2>7. ASSUME NEW k \in 1..m PROVE h[k] = step[k][h[k - 1]]
    <3>1. CASE k = m
      BY <2>4, <2>5, <3>1
    <3>2. CASE k # m
      <4>1. k \in 1..(m - 1) /\ k \in 0..(m - 1) /\ k - 1 \in 0..(m - 1)
        BY <3>2
      <4> QED
        BY <2>1, <2>4, <4>1
    <3> QED
      BY <3>1, <3>2
  <2>8. m \in 0..n /\ Runs(m, h)
    BY <2>6, <2>7
  <2> QED
    BY <2>3, <2>8
<1> HIDE DEF T
<1>3. 0..n \subseteq T
  BY <1>1, <1>2, EveryTurn
<1>4. n \in T
  BY <1>3
<1>5. PICK g \in [0..n -> V] : Runs(n, g)
  BY <1>4 DEF T
<1> QED
  BY <1>5 DEF LoopOf

\* The turns of findLatestEntryByIntegratedTime.
LatestRun(rs, I, f) ==
  f = [k \in 0..Len(rs) |->
         IF k = 0 THEN 0
         ELSE IF k \in I /\ (f[k - 1] = 0 \/ Later(log[rs[k].uuid], log[f[k - 1]]))
              THEN rs[k].uuid ELSE f[k - 1]]

LEMMA LatestRuns ==
  ASSUME NEW rs, NEW I, Len(rs) \in Nat, \A k \in 1..Len(rs) : rs[k].uuid \in Nat
  PROVE  \E f : LatestRun(rs, I, f) /\ findLatestEntryByIntegratedTime(rs, I) = f[Len(rs)]
<1> DEFINE n == Len(rs)
           Turn(k, l) == IF k \in I /\ (l = 0 \/ Later(log[rs[k].uuid], log[l])) THEN rs[k].uuid ELSE l
           step == [k \in 1..n |-> [l \in Nat |-> Turn(k, l)]]
           h == CHOOSE f : LatestRun(rs, I, f)
<1>1. step \in [1..n -> [Nat -> Nat]]
  OBVIOUS
<1>2. ASSUME NEW k \in 1..n, NEW l \in Nat PROVE step[k][l] = Turn(k, l)
  OBVIOUS
<1> HIDE DEF step, Turn
<1>3. PICK g : LoopOf(n, Nat, 0, step, g)
  <2>1. n \in Nat /\ 0 \in Nat
    OBVIOUS
  <2> HIDE DEF n
  <2> QED
    BY <1>1, <2>1, LoopRuns
<1>4. ASSUME NEW k \in 0..n PROVE g[k] = IF k = 0 THEN 0 ELSE Turn(k, g[k - 1])
  <2>1. CASE k = 0
    BY <1>3, <2>1 DEF LoopOf
  <2>2. CASE k # 0
    <3>1. k \in 1..n /\ k - 1 \in 0..n
      BY <2>2
    <3>2. g[k - 1] \in Nat
      BY <1>3, <3>1 DEF LoopOf
    <3> QED
      BY <1>2, <1>3, <2>2, <3>1, <3>2 DEF LoopOf
  <2> QED
    BY <2>1, <2>2
<1>5. g = [k \in 0..n |-> IF k = 0 THEN 0 ELSE Turn(k, g[k - 1])]
  BY <1>3, <1>4 DEF LoopOf
<1>6. LatestRun(rs, I, g)
  BY <1>5 DEF LatestRun, Turn
<1>7. LatestRun(rs, I, h)
  BY <1>6
<1>8. findLatestEntryByIntegratedTime(rs, I) = h[Len(rs)]
  BY DEF findLatestEntryByIntegratedTime, LatestRun
<1> QED
  BY <1>7, <1>8

\* No time is 0, the least of all.
LEMMA LaterTime ==
  ASSUME NEW e, NEW l, e.time \in Nat, l.time \in Nat
  PROVE  Later(e, l) <=> e.time > l.time
BY DEF Later, NoTime

LEMMA Elements ==
  ASSUME NEW S, NEW s \in Seq(S), NEW k \in 1..Len(s)
  PROVE  s[k] \in S
OBVIOUS

LEMMA StillLater ==
  ASSUME NEW a \in Nat, NEW b \in Nat, NEW c \in Nat, a <= b, c > b
  PROVE  a <= c
OBVIOUS

LEMMA AsLate ==
  ASSUME NEW a \in Nat
  PROVE  a <= a
OBVIOUS

LEMMA NotLater ==
  ASSUME NEW a \in Nat, NEW b \in Nat, ~(a > b)
  PROVE  a <= b
OBVIOUS

\* What the loop chooses is one of the entries, and none of them is later.
LEMMA LatestChosen ==
  ASSUME NEW rs \in Seq([uuid : Nat, ok : BOOLEAN]), NEW I, I \subseteq DOMAIN rs, I # {},
         \A k \in I : rs[k].uuid # 0 /\ log[rs[k].uuid].time \in Nat
  PROVE  /\ \E k \in I : findLatestEntryByIntegratedTime(rs, I) = rs[k].uuid
         /\ \A k \in I : log[rs[k].uuid].time <= log[findLatestEntryByIntegratedTime(rs, I)].time
<1> DEFINE n == Len(rs)
<1>1. n \in Nat /\ DOMAIN rs = 1..n /\ \A k \in 1..n : rs[k].uuid \in Nat
  <2>1. n \in Nat /\ DOMAIN rs = 1..n
    OBVIOUS
  <2>2. ASSUME NEW k \in 1..n PROVE rs[k].uuid \in Nat
    <3>1. rs[k] \in [uuid : Nat, ok : BOOLEAN]
      BY Elements
    <3> QED
      BY <3>1
  <2> QED
    BY <2>1, <2>2
<1>2. PICK f : LatestRun(rs, I, f) /\ findLatestEntryByIntegratedTime(rs, I) = f[n]
  BY <1>1, LatestRuns
<1>3. /\ f[0] = 0
      /\ \A k \in 1..n : f[k] = IF k \in I /\ (f[k - 1] = 0 \/ Later(log[rs[k].uuid], log[f[k - 1]]))
                                THEN rs[k].uuid ELSE f[k - 1]
  <2>1. ASSUME NEW k \in 0..n
        PROVE  f[k] = IF k = 0 THEN 0
                      ELSE IF k \in I /\ (f[k - 1] = 0 \/ Later(log[rs[k].uuid], log[f[k - 1]]))
                           THEN rs[k].uuid ELSE f[k - 1]
    BY <1>2, Zenon DEF LatestRun
  <2> QED
    BY <1>1, <2>1
<1> DEFINE Seen(k) == {i \in I : i <= k}
           LatestOf(S, v) == IF S = {} THEN v = 0
                             ELSE /\ \E i \in S : v = rs[i].uuid
                                  /\ \A i \in S : log[rs[i].uuid].time <= log[v].time
           Good(k) == LatestOf(Seen(k), f[k])
           T == {k \in 0..n : Good(k)}
<1>4. 0 \in T
  <2>1. Seen(0) = {}
    BY <1>1
  <2> QED
    BY <1>1, <1>3, <2>1
<1>5. ASSUME NEW k \in 1..n, k - 1 \in T PROVE k \in T
  <2>1. Good(k - 1) /\ k - 1 \in 0..n /\ k \in 0..n
    <3>1. k - 1 \in 0..n /\ k \in 0..n
      BY <1>1
    <3> HIDE DEF Good
    <3> QED
      BY <1>5, <3>1
  <2> SUFFICES Good(k)
    <3> HIDE DEF Good
    <3> QED
      BY <2>1
  <2> HIDE DEF T
  <2>2. CASE k \notin I
    <3>1. Seen(k) = Seen(k - 1) /\ f[k] = f[k - 1]
      BY <1>1, <1>3, <2>2
    <3> HIDE DEF Seen, LatestOf
    <3> QED
      BY <2>1, <3>1
  <2>3. CASE k \in I
    <3>1. Seen(k) = Seen(k - 1) \cup {k}
      BY <1>1, <2>3
    <3>2. CASE Seen(k - 1) = {}
      <4>1. f[k] = rs[k].uuid
        BY <1>3, <2>1, <2>3, <3>2
      <4> QED
        BY <2>3, <3>1, <3>2, <4>1
    <3>3. CASE Seen(k - 1) # {}
      <4>1. PICK i \in Seen(k - 1) : f[k - 1] = rs[i].uuid
        BY <2>1, <3>3
      <4>2. f[k - 1] # 0 /\ log[f[k - 1]].time \in Nat /\ log[rs[k].uuid].time \in Nat
        BY <2>3, <4>1
      <4>3. Later(log[rs[k].uuid], log[f[k - 1]]) <=> log[rs[k].uuid].time > log[f[k - 1]].time
        BY <4>2, LaterTime
      <4>4. CASE log[rs[k].uuid].time > log[f[k - 1]].time
        <5>1. f[k] = rs[k].uuid
          BY <1>3, <2>3, <4>3, <4>4
        <5>2. ASSUME NEW j \in Seen(k) PROVE log[rs[j].uuid].time <= log[f[k]].time
          <6>1. CASE j = k
            <7>1. log[f[k]].time <= log[f[k]].time
              BY <4>2, <5>1, AsLate
            <7> QED
              BY <5>1, <6>1, <7>1
          <6>2. CASE j \in Seen(k - 1)
            <7>1. log[rs[j].uuid].time <= log[f[k - 1]].time /\ log[rs[j].uuid].time \in Nat
              BY <2>1, <3>3, <6>2
            <7>2. log[f[k]].time = log[rs[k].uuid].time
              BY <5>1
            <7> QED
              BY <4>2, <4>4, <7>1, <7>2, StillLater
          <6> QED
            BY <3>1, <6>1, <6>2
        <5>3. \E j \in Seen(k) : f[k] = rs[j].uuid
          BY <3>1, <5>1
        <5>4. Seen(k) # {}
          BY <3>1
        <5> HIDE DEF Seen
        <5> QED
          BY <5>2, <5>3, <5>4
      <4>5. CASE ~(log[rs[k].uuid].time > log[f[k - 1]].time)
        <5>1. f[k] = f[k - 1]
          BY <1>3, <4>2, <4>3, <4>5
        <5>2. ASSUME NEW j \in Seen(k) PROVE log[rs[j].uuid].time <= log[f[k]].time
          <6>1. CASE j = k
            <7>1. log[rs[k].uuid].time <= log[f[k - 1]].time
              BY <4>2, <4>5, NotLater
            <7> QED
              BY <5>1, <6>1, <7>1
          <6>2. CASE j \in Seen(k - 1)
            BY <2>1, <3>3, <5>1, <6>2
          <6> QED
            BY <3>1, <6>1, <6>2
        <5>3. \E j \in Seen(k) : f[k] = rs[j].uuid
          BY <3>1, <4>1, <5>1
        <5>4. Seen(k) # {}
          BY <3>1
        <5> HIDE DEF Seen
        <5> QED
          BY <5>2, <5>3, <5>4
      <4> QED
        BY <4>4, <4>5
    <3> QED
      BY <3>2, <3>3
  <2> QED
    BY <2>2, <2>3
<1>6. Good(n)
  <2>1. 0..n \subseteq T
    <3> HIDE DEF T
    <3> QED
      BY <1>1, <1>4, <1>5, EveryTurn
  <2>2. n \in T
    <3> HIDE DEF T
    <3> QED
      BY <1>1, <2>1
  <2> HIDE DEF Good
  <2> QED
    BY <2>2
<1>7. Seen(n) = I
  BY <1>1
<1> QED
  BY <1>2, <1>6, <1>7

\* The times of entries are numbers, and what the search found was logged for the digest.
HitsInv ==
  /\ \A i \in DOMAIN log : log[i].time \in Nat
  /\ \A i \in Range(uuids) : i \in DOMAIN log /\ log[i].digest = setup.digest

\* The command only appends to the log.
LEMMA LogGrows ==
  ASSUME CmdInv, HitsInv, CommandNext
  PROVE  /\ setup' = setup
         /\ \A i \in DOMAIN log : i \in DOMAIN log' /\ log'[i] = log[i]
         /\ \A i \in DOMAIN log' : log'[i].time \in Nat
<1>1. CASE UNCHANGED <<setup, log>>
  BY <1>1 DEF HitsInv
<1>2. CASE UploadWithSigner
  <2>1. setup' = setup
    BY <1>2 DEF UploadWithSigner, uploadFrame
  <2>2. \/ UNCHANGED log
        \/ \E server, content : CreateLogEntry(server, content)
    BY <1>2 DEF UploadWithSigner, uploadSingle
  <2>3. ASSUME NEW server, NEW content, CreateLogEntry(server, content)
        PROVE  /\ \A i \in DOMAIN log : i \in DOMAIN log' /\ log'[i] = log[i]
               /\ \A i \in DOMAIN log' : log'[i].time \in Nat
    <3>1. PICK t \in {LastTime, LastTime + 1} : log' = Append(log, IntotoV002Entry(server, content, t))
      BY <2>3 DEF CreateLogEntry
    <3> DEFINE e == IntotoV002Entry(server, content, t)
    <3>2. /\ Len(log) \in Nat /\ DOMAIN log = 1..Len(log)
          /\ DOMAIN log' = 1..(Len(log) + 1)
          /\ \A i \in DOMAIN log : log'[i] = log[i]
          /\ log'[Len(log) + 1] = e
      BY <3>1, AppendFacts DEF CmdInv, KeptInv
    <3>3. LastTime \in Nat
      <4>1. CASE log = << >>
        BY <4>1 DEF LastTime
      <4>2. CASE log # << >>
        <5>1. IsSequence(log)
          BY DEF CmdInv, KeptInv
        <5>2. Len(log) # 0
          BY <4>2, <5>1 DEF IsSequence
        <5>3. Len(log) \in DOMAIN log
          BY <3>2, <5>2
        <5> QED
          BY <4>2, <5>3 DEF LastTime, HitsInv
      <4> QED
        BY <4>1, <4>2
    <3>4. e.time = t /\ t \in Nat
      BY <3>1, <3>3 DEF IntotoV002Entry
    <3> HIDE DEF e
    <3>5. ASSUME NEW i \in DOMAIN log' PROVE log'[i].time \in Nat
      <4>1. CASE i \in DOMAIN log
        BY <3>2, <4>1 DEF HitsInv
      <4>2. CASE i = Len(log) + 1
        BY <3>2, <3>4, <4>2
      <4> QED
        BY <3>2, <4>1, <4>2
    <3> QED
      BY <3>2, <3>5
  <2>4. CASE UNCHANGED log
    BY <2>1, <2>4 DEF HitsInv
  <2> QED
    BY <2>1, <2>2, <2>3, <2>4
<1> QED
  BY <1>1, <1>2 DEF CommandNext, NewSigner, ProcessNextComponent, ProcessSnapshotVSA, Finish,
     ReadEnvelope, SkipBackend, LocalUpload, uploadFrame

ChoiceInv == HitsInv /\ LatestOfFetched

LEMMA ChoiceInit ==
  ASSUME Init
  PROVE  ChoiceInv
<1>1. setup \in Setups /\ log = setup.log /\ uuids = << >> /\ answer = NoAnswer
  BY DEF Init, CmdInit, RetrInit
<1>2. HitsInv
  BY <1>1, SetupAssumption DEF HitsInv, Range
<1> QED
  BY <1>1, <1>2 DEF ChoiceInv, LatestOfFetched, NoAnswer

\* While the command appends to the log, neither the entries that were fetched nor what
\* they are changes.
LEMMA ChoiceKept ==
  ASSUME CmdInv, RetrInv, ChoiceInv, CommandNext, UNCHANGED retrVars
  PROVE  ChoiceInv'
<1>1. UNCHANGED <<uuids, results, answer>>
  BY DEF retrVars
<1>2. /\ setup' = setup
      /\ \A i \in DOMAIN log : i \in DOMAIN log' /\ log'[i] = log[i]
      /\ \A i \in DOMAIN log' : log'[i].time \in Nat
  BY LogGrows DEF ChoiceInv
<1>3. HitsInv'
  BY <1>1, <1>2 DEF ChoiceInv, HitsInv
<1>4. ASSUME answer.ok PROVE LatestOfFetched'
  <2>1. \A k \in DOMAIN results : results[k].uuid \in DOMAIN log /\ log'[results[k].uuid] = log[results[k].uuid]
    <3>1. {results[k].uuid : k \in DOMAIN results} = Range(uuids)
      BY <1>4 DEF RetrInv, NoPartialAnswer
    <3> QED
      BY <1>2, <3>1 DEF ChoiceInv, HitsInv
  <2>2. IntotoV002(results)' = IntotoV002(results)
    <3>1. ASSUME NEW k \in DOMAIN results
          PROVE  classifyEntryKind(log'[results[k].uuid]) = classifyEntryKind(log[results[k].uuid])
      BY <2>1
    <3>2. IntotoV002(results)'
            = {k \in DOMAIN results : results[k].ok /\ classifyEntryKind(log'[results[k].uuid]) = "intoto-v002"}
      BY <1>1 DEF IntotoV002, classifyEntryKind, Readable, Structured
    <3> QED
      BY <3>1, <3>2 DEF IntotoV002
  <2>3. IntotoV002(results) \subseteq DOMAIN results
    BY DEF IntotoV002
  <2>4. PICK k \in IntotoV002(results) : answer.entry = results[k].uuid
    BY <1>4 DEF ChoiceInv, LatestOfFetched
  <2>5. log'[answer.entry] = log[answer.entry]
    BY <2>1, <2>3, <2>4
  <2>6. ASSUME NEW j \in IntotoV002(results) PROVE log'[results[j].uuid].time <= log'[answer.entry].time
    BY <1>4, <2>1, <2>3, <2>5 DEF ChoiceInv, LatestOfFetched
  <2>7. log'[answer.entry].digest = setup'.digest
    BY <1>2, <1>4, <2>5 DEF ChoiceInv, LatestOfFetched
  <2> QED
    BY <1>1, <2>2, <2>4, <2>6, <2>7 DEF LatestOfFetched
<1>5. CASE ~answer.ok
  BY <1>1, <1>3, <1>5 DEF ChoiceInv, LatestOfFetched
<1> QED
  BY <1>3, <1>4, <1>5 DEF ChoiceInv

\* The search finds entries of the log for the digest.
LEMMA SearchHits ==
  ASSUME CmdInv, ChoiceInv, Search, UNCHANGED <<log, setup>>
  PROVE  HitsInv'
<1>1. uuids' \in SetToSeqs(Hits)
  BY DEF Search
<1>2. uuids' \in [1..Cardinality(Hits) -> Hits]
  BY <1>1 DEF SetToSeqs
<1>3. Range(uuids') \subseteq Hits
  BY <1>2 DEF Range
<1> QED
  BY <1>3 DEF ChoiceInv, HitsInv, Hits

LEMMA ChoiceMade ==
  ASSUME CmdInv, RetrInv, ChoiceInv, Collect, UNCHANGED <<log, setup>>
  PROVE  LatestOfFetched'
<1> SUFFICES ASSUME answer'.ok PROVE LatestOfFetched'
  BY DEF LatestOfFetched
<1> DEFINE I == IntotoV002(results)
           latest == findLatestEntryByIntegratedTime(results, I)
<1>1. UNCHANGED <<uuids, results, log, setup>>
  BY DEF Collect
<1>2. ~expired /\ answer' = Choice(results)
  BY DEF Collect, Failed
<1>3. I # {} /\ answer'.entry = latest
  BY <1>2 DEF Choice, Failed
<1>4. Range(uuids) = {results[k].uuid : k \in DOMAIN results}
  <2>1. NoPartialAnswer'
    BY CollectStep DEF RetrInv
  <2> QED
    BY <1>1, <2>1 DEF NoPartialAnswer
<1>5. I \subseteq DOMAIN results /\ results \in Seq([uuid : Nat, ok : BOOLEAN])
  BY DEF IntotoV002, RetrInv, PoolInv
<1>6. DOMAIN log = 1..Len(log) /\ Len(log) \in Nat
  BY AppendFacts DEF CmdInv, KeptInv
<1>7. ASSUME NEW k \in I
      PROVE  /\ results[k].uuid # 0 /\ log[results[k].uuid].time \in Nat
             /\ log[results[k].uuid].digest = setup.digest
  <2>1. results[k].uuid \in DOMAIN log /\ log[results[k].uuid].digest = setup.digest
    BY <1>4, <1>5 DEF ChoiceInv, HitsInv
  <2> QED
    BY <1>6, <2>1 DEF ChoiceInv, HitsInv
<1> HIDE DEF I
<1>8. /\ \E k \in I : latest = results[k].uuid
      /\ \A k \in I : log[results[k].uuid].time <= log[latest].time
  BY <1>3, <1>5, <1>7, LatestChosen
<1>9. log[latest].digest = setup.digest
  BY <1>7, <1>8
<1>10. IntotoV002(results)' = I
  BY <1>1 DEF I, IntotoV002, classifyEntryKind, Readable, Structured
<1> HIDE DEF latest
<1> QED
  BY <1>1, <1>3, <1>8, <1>9, <1>10 DEF LatestOfFetched

LEMMA ChoiceStep ==
  ASSUME CmdInv, RetrInv, ChoiceInv, [Next]_vars
  PROVE  ChoiceInv'
<1>1. CASE CommandNext /\ UNCHANGED retrVars
  BY <1>1, ChoiceKept
<1>2. ASSUME UNCHANGED <<setup, log, uuids>> PROVE HitsInv'
  BY <1>2 DEF ChoiceInv, HitsInv
<1>3. ASSUME UNCHANGED <<setup, log, results, answer>> PROVE LatestOfFetched'
  <2>1. IntotoV002(results)' = IntotoV002(results)
    BY <1>3 DEF IntotoV002, classifyEntryKind, Readable, Structured
  <2> QED
    BY <1>3, <2>1 DEF ChoiceInv, LatestOfFetched
<1>4. CASE RetrNext /\ UNCHANGED cmdVars
  <2>1. UNCHANGED <<setup, log>>
    BY <1>4 DEF cmdVars
  <2>2. CASE Search
    <3>1. rpc = "idle" /\ (answer' = Failed("no entries") \/ answer' = answer)
      BY <2>2 DEF Search
    <3>2. ~answer.ok
      BY <3>1 DEF RetrInv, PoolInv
    <3>3. ~answer'.ok
      <4>1. CASE answer' = Failed("no entries")
        BY <4>1 DEF Failed
      <4>2. CASE answer' = answer
        BY <3>2, <4>2
      <4> QED
        BY <3>1, <4>1, <4>2
    <3> QED
      BY <2>1, <2>2, <3>3, SearchHits DEF ChoiceInv, LatestOfFetched
  <2>3. CASE SearchFails
    <3>1. ~answer'.ok /\ UNCHANGED uuids
      BY <2>3 DEF SearchFails, Failed
    <3> QED
      BY <1>2, <2>1, <3>1 DEF ChoiceInv, LatestOfFetched
  <2>4. CASE Collect
    <3>1. UNCHANGED uuids
      BY <2>4 DEF Collect
    <3> QED
      BY <1>2, <2>1, <2>4, <3>1, ChoiceMade DEF ChoiceInv
  <2>5. CASE Expire \/ Feed \/ CloseUuids
    <3>1. UNCHANGED <<uuids, results, answer>>
      BY <2>5 DEF Expire, Feed, CloseUuids
    <3> QED
      BY <1>2, <1>3, <2>1, <3>1 DEF ChoiceInv
  <2>6. ASSUME NEW w \in Workers, Take(w) \/ Leave(w) PROVE ChoiceInv'
    <3>1. UNCHANGED <<uuids, results, answer>>
      BY <2>6 DEF Take, Leave
    <3> QED
      BY <1>2, <1>3, <2>1, <3>1 DEF ChoiceInv
  <2>7. ASSUME NEW w \in Workers, FetchEntry(w) PROVE ChoiceInv'
    <3>1. wpc[w] = "fetch" /\ UNCHANGED <<uuids, answer>>
      BY <2>7 DEF FetchEntry
    <3>2. ~answer'.ok
      BY <3>1 DEF RetrInv, PoolInv
    <3> QED
      BY <1>2, <2>1, <3>1, <3>2 DEF ChoiceInv, LatestOfFetched
  <2> QED
    BY <1>4, <2>2, <2>3, <2>4, <2>5, <2>6, <2>7 DEF RetrNext
<1>5. CASE UNCHANGED vars
  <2>1. UNCHANGED <<setup, log, uuids, results, answer>>
    BY <1>5 DEF vars, cmdVars, retrVars
  <2> QED
    BY <1>2, <1>3, <2>1 DEF ChoiceInv
<1> QED
  BY <1>1, <1>4, <1>5 DEF Next

\* rekor_retriever.go: whatever the pool's size, the order of its goroutines and the moment
\* of the deadline, and while the command appends to the log, an answer is chosen only when
\* every UUID of the index search was fetched or failed on its own, exactly once; it is one
\* of the in-toto 0.0.2 entries that were fetched, for the digest asked for, and none of
\* them is later.
THEOREM AnswersAreLatest == Spec => []AnswerLatest
<1>1. Init => CmdInv /\ RetrInv /\ ChoiceInv
  BY CommandInit, RetrieverInit, ChoiceInit DEF Init
<1>2. CmdInv /\ RetrInv /\ ChoiceInv /\ [Next]_vars => (CmdInv /\ RetrInv /\ ChoiceInv)'
  BY CommandStep, RetrieverStep, ChoiceStep
<1>3. RetrInv /\ ChoiceInv => AnswerLatest
  BY DEF RetrInv, ChoiceInv, AnswerLatest
<1> QED
  BY <1>1, <1>2, <1>3, PTL DEF Spec

===============================================================================
