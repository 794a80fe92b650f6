---------------------------- MODULE PrepareProofs ----------------------------
(***************************************************************************)
(* Proofs about the preparation of `ec validate image` (modules Prepare    *)
(* and SnapshotInput), for every set of flags, every snapshot and registry *)
(* and any number of goroutines that expand image indexes.                 *)
(***************************************************************************)
EXTENDS Prepare, FiniteSetTheorems, SequenceTheorems, TLAPS

-----------------------------------------------------------------------------
(* The inductive invariant: the snapshot *)

Pcs == {"new", "head", "index", "aliases", "children", "parents", "send", "done"}
Maps == {"aliases", "children", "parents"}

SnapTypes ==
  /\ input \in Inputs /\ limit \in Limits
  /\ at \in {"sources", "expand", "determined", "failed", "config", "load", "check",
             "download", "extra", "running", "refused"}
  /\ source \in 1..(Len(Sources) + 1) /\ item \in Nat
  /\ crashed \in BOOLEAN
  /\ at = "sources" => arrived = << >>

\* The places that are merged already.
Seen == {p \in Places : p[1] < source \/ (p[1] = source /\ p[2] <= item)}

\* Among the places seen, each image has one component, with the right name.
MergeInv ==
  at \in {"sources", "expand"} =>
    /\ components \in Seq(Given)
    /\ \A i, j \in DOMAIN components : components[i].image = components[j].image => i = j
    /\ \A p \in Seen : \E i \in DOMAIN components : components[i].image = At(p).image
    /\ \A i \in DOMAIN components : NamedFrom(components[i], Seen)
    /\ IF source <= Len(Sources) THEN item <= Len(Src(source)) ELSE item = 0
    /\ at = "expand" => source = Len(Sources) + 1

\* The manifests of the index have been read.
Expanded(i) == got[i].index # NoDigest

\* Where a goroutine is; only those of an index come to its images, and the digests that they
\* were given are ones that the reference had.
GoroutineOK(i) ==
  /\ worker[i] = [pc |-> worker[i].pc, child |-> worker[i].child]
  /\ worker[i].pc \in Pcs /\ worker[i].child \in Nat
  /\ worker[i].pc \in Maps \cup {"send"} => Expanded(i)
  /\ worker[i].pc \in {"children", "parents"} => worker[i].child \in 1..Len(Parts(i))
  /\ got[i] = [head |-> got[i].head, index |-> got[i].index]
  /\ worker[i].pc \in {"new", "head", "index"} => ~Expanded(i)
  /\ worker[i].pc = "index" => got[i].head \in Finds(i, "index") /\ ~Unreadable(i)
  /\ Expanded(i) => /\ got[i].head \in Finds(i, "index") /\ got[i].index \in Finds(i, "index")
                    /\ Access[Image(i)] = "ok"
  /\ worker[i].pc = "done" /\ ~Expanded(i) => Access[Image(i)] # "ok" \/ Finds(i, "image") # {}
  /\ writing[i] = [map |-> writing[i].map, read |-> writing[i].read]
  /\ writing[i].map # "none" => writing[i].map \in Maps /\ writing[i].map = worker[i].pc

PoolInv ==
  at = "expand" =>
    /\ DOMAIN worker = DOMAIN components /\ DOMAIN writing = DOMAIN components
    /\ DOMAIN got = DOMAIN components
    /\ \A i \in DOMAIN components : GoroutineOK(i)

\* c is what the goroutine for component i has sent.
SentBy(c, i) ==
  \/ c = components[i]
  \/ Expanded(i) /\ \E k \in DOMAIN Parts(i) : c = ArchComponent(components[i], Parts(i)[k])

\* A goroutine that is done has sent its component, once, and the images of the index.
SentInv ==
  at = "expand" =>
    /\ arrived \in Seq([name: Names, image: Images, of: Images \cup {NoImage}])
    /\ \A k \in DOMAIN arrived : \E i \in DOMAIN components : worker[i].pc = "done" /\ SentBy(arrived[k], i)
    /\ \A i \in DOMAIN components : worker[i].pc = "done" =>
         /\ \E k \in DOMAIN arrived : arrived[k] = components[i]
         /\ Expanded(i) => \A m \in DOMAIN Parts(i) :
              \E k \in DOMAIN arrived : arrived[k] = ArchComponent(components[i], Parts(i)[m])
    /\ \A k, l \in DOMAIN arrived :
         arrived[k].of = NoImage /\ arrived[l].of = NoImage /\ arrived[k].image = arrived[l].image => k = l

\* How many images of the index a goroutine has in ChildrenByIndex and in ParentByChild.
InChildren(i) ==
  IF ~Expanded(i) THEN 0
  ELSE IF worker[i].pc = "children" THEN worker[i].child - 1
  ELSE IF worker[i].pc = "parents" THEN worker[i].child
  ELSE IF worker[i].pc \in {"send", "done"} THEN Len(Parts(i)) ELSE 0
InParents(i) ==
  IF ~Expanded(i) THEN 0
  ELSE IF worker[i].pc \in {"children", "parents"} THEN worker[i].child - 1
  ELSE IF worker[i].pc \in {"send", "done"} THEN Len(Parts(i)) ELSE 0

Aliased == {i \in DOMAIN components : Expanded(i) /\ worker[i].pc \in {"children", "parents", "send", "done"}}

\* No reference moves.
Still == \A i \in DOMAIN components : \E d \in Digests : Pull[Image(i)] = {d}

AliasesOK ==
  /\ DOMAIN exp.aliases = {RefName[Image(i)] : i \in Aliased}
  /\ Still => \A i \in Aliased : exp.aliases[RefName[Image(i)]] = Index(i)

\* x is the digest of an index of which c is an image.
PartOf(c, x) ==
  \E i \in DOMAIN components : Expanded(i) /\ Index(i) = x /\ \E m \in DOMAIN Parts(i) : c = Parts(i)[m]

ChildrenOK ==
  /\ \A x \in DOMAIN exp.children :
       exp.children[x] \in Seq(Images) /\ \A k \in DOMAIN exp.children[x] : PartOf(exp.children[x][k], x)
  /\ \A i \in DOMAIN components : \A m \in 1..InChildren(i) :
       /\ Index(i) \in DOMAIN exp.children
       /\ \E k \in DOMAIN exp.children[Index(i)] : exp.children[Index(i)][k] = Parts(i)[m]

ParentsOK ==
  /\ \A c \in DOMAIN exp.parents : PartOf(c, exp.parents[c])
  /\ \A i \in DOMAIN components : \A m \in 1..InParents(i) : Parts(i)[m] \in DOMAIN exp.parents

\* With one goroutine at a time nothing is written twice at once, and the maps have what the
\* goroutines have come to.
MapInv ==
  limit = 1 =>
    /\ ~crashed
    /\ at = "expand" =>
         /\ \A i, j \in Active : i = j
         /\ \A i \in DOMAIN components : writing[i].map # "none" => writing[i].read = exp[writing[i].map]
         /\ exp = [aliases |-> exp.aliases, children |-> exp.children, parents |-> exp.parents]
         /\ AliasesOK /\ ChildrenOK /\ ParentsOK

-----------------------------------------------------------------------------
(* The inductive invariant: the policy *)

Loaded == {"check", "download", "extra", "running"}
Begun == {"config", "load"} \cup Loaded

AskedInv ==
  /\ at \in Begun => /\ asked.ref \in PolicyRefs /\ asked.options \in OptionSets /\ asked.extra \in ExtraData
                     /\ spec \/ "input" \in problems
  /\ at = "refused" => problems # {} /\ (spec \/ "input" \in problems)
  /\ at = "running" => problems = {}
  /\ at \in {"load"} \cup Loaded => GetPolicyConfig(asked.ref).ok /\ text = GetPolicyConfig(asked.ref).text

\* The policy is that of the text, with the flags over it.
PolicyInv ==
  /\ policy = [key |-> policy.key, rekor |-> policy.rekor, identity |-> policy.identity,
               verifier |-> policy.verifier, ignoreRekor |-> policy.ignoreRekor, loaded |-> policy.loaded]
  /\ at \in Loaded =>
       LET o == asked.options
           s == loadPolicy(text).spec
       IN  /\ loadPolicy(text).ok
           /\ policy.loaded /\ policy.key = Flag(o.key, s.key)
           /\ Keyless => policy.identity = IdentityOf(o, s)
           /\ Len(groups) = Len(s.groups) /\ DOMAIN groups = 1..Len(groups) /\ Len(groups) \in Nat
  /\ at \in Loaded \ {"check"} =>
       /\ policy.verifier = IF Keyless THEN "identity" ELSE "key"
       /\ Keyless => validateIdentity(policy.identity)

\* The first n items are in `after`, the last of a key counts, and the rest is as before.
Applied(before, after, items, n) ==
  /\ \A j \in 1..n : (\A k \in 1..n : items[k].key = items[j].key => k <= j) =>
       items[j].key \in DOMAIN after /\ after[items[j].key] = items[j].value
  /\ \A key \in DOMAIN before : (\A k \in 1..n : items[k].key # key) =>
       key \in DOMAIN after /\ after[key] = before[key]

ItemsIn(i) == IF i < group THEN Len(asked.extra) ELSE IF i = group THEN extra - 1 ELSE 0

DataInv ==
  /\ at \in {"check", "download"} => groups = loadPolicy(text).spec.groups
  /\ at = "download" => group \in Nat
  /\ at = "extra" =>
       /\ group \in 1..(Len(groups) + 1) /\ extra \in 1..(Len(asked.extra) + 1)
       /\ problems = {} => \A i \in DOMAIN groups :
            Applied(loadPolicy(text).spec.groups[i].ruleData, groups[i].ruleData, asked.extra, ItemsIn(i))
  /\ at = "running" => \A i \in DOMAIN groups :
       Applied(loadPolicy(text).spec.groups[i].ruleData, groups[i].ruleData, asked.extra, Len(asked.extra))

IInv ==
  /\ SnapTypes /\ MergeInv /\ PoolInv /\ SentInv /\ MapInv /\ SnapshotComplete
  /\ AskedInv /\ PolicyInv /\ DataInv

-----------------------------------------------------------------------------
(* Steps *)

SnapshotAts == {"sources", "expand", "determined", "failed"}

\* A step determines the snapshot, or leaves what is known of it.
LEMMA Phases ==
  ASSUME [Next]_vars
  PROVE  \/ Determine /\ at \in {"sources", "expand"} /\ at' \in SnapshotAts
         \/ /\ at' \in Begun \cup {"refused"}
            /\ UNCHANGED <<input, limit, source, item, crashed>>
         \/ UNCHANGED vars
<1>1. ASSUME Determine PROVE at \in {"sources", "expand"} /\ at' \in SnapshotAts
  BY <1>1 DEF Determine, DetermineInputSpec, SkipSource, Reading, MergeComponent, MergeReturns, BadInput,
     BeginExpand, Goroutine, Go, NotIndex, IsIndex, IndexGone, IndexRead, BeginWrite, EndWrite, SendExpanded,
     Collect, SnapshotAts
<1>2. ASSUME NEW ref \in PolicyRefs, NEW o \in OptionSets, NEW e \in ExtraData, InputReturns(ref, o, e)
      PROVE  at' \in Begun /\ UNCHANGED <<input, limit, source, item, crashed>>
  BY <1>2 DEF InputReturns, inputVars, Begun
<1>3. ASSUME \/ ConfigFails \/ Config \/ LoadFails \/ Load \/ CheckFails \/ Check
      PROVE  at' \in Begun \cup {"refused"} /\ UNCHANGED <<input, limit, source, item, crashed>>
  BY <1>3 DEF ConfigFails, Config, LoadFails, Load, CheckFails, Check, Refuse, quietVars, inputVars, raceVars,
     Begun, Loaded
<1>4. ASSUME \/ Download \/ DownloadFails \/ Downloaded \/ SkipGroup \/ AddItem \/ GroupDone \/ PreRunReturns
      PROVE  at' \in Begun \cup {"refused"} /\ UNCHANGED <<input, limit, source, item, crashed>>
  BY <1>4 DEF Download, DownloadFails, Downloaded, Adding, SkipGroup, AddItem, GroupDone, PreRunReturns, Refuse,
     quietVars, inputVars, raceVars, Begun, Loaded
<1> QED
  BY <1>1, <1>2, <1>3, <1>4 DEF Next, PreRunE, Over

\* The text is that of the reference, and an empty one was written by the user.
LEMMA TextFacts ==
  ASSUME AskedInv, at \in {"load"} \cup Loaded
  PROVE  /\ asked.ref \in PolicyRefs /\ text = asked.ref.text
         /\ asked.ref.form \in {"json", "other"} \/ text.kind # "empty"
         /\ text.kind \in {"empty", "object", "name"}
         /\ Len(loadPolicy(text).spec.groups) \in Nat
         /\ DOMAIN loadPolicy(text).spec.groups = 1..Len(loadPolicy(text).spec.groups)
<1>1. asked.ref \in PolicyRefs /\ GetPolicyConfig(asked.ref).ok /\ text = GetPolicyConfig(asked.ref).text
  BY DEF AskedInv, Begun
<1> DEFINE ref == asked.ref
           s == loadPolicy(text).spec
<1>2. /\ ref.form \in {"json", "git", "http", "file", "other"} /\ ref.text.kind \in {"empty", "object", "name"}
      /\ ref.text.kind # "empty" => Len(ref.text.spec.groups) \in Nat
      /\ ref.text.kind # "empty" => DOMAIN ref.text.spec.groups = 1..Len(ref.text.spec.groups)
      /\ ref.form = "file" /\ ~ref.ext => ref.text.kind # "empty"
  BY <1>1, PrepareAssumption
<1>3. text = ref.text /\ (ref.form \in {"json", "other"} \/ text.kind # "empty")
  <2>1. CASE ref.form \in {"json", "other"}
    BY <1>1, <2>1 DEF GetPolicyConfig
  <2>2. CASE ref.form \in {"git", "http"}
    <3>1. CASE ref.downloads
      BY <1>1, <2>2, <3>1 DEF GetPolicyConfig, ReadFile
    <3>2. CASE ~ref.downloads
      BY <1>1, <2>2, <3>2 DEF GetPolicyConfig
    <3> QED
      BY <3>1, <3>2
  <2>3. CASE ref.form = "file"
    BY <1>1, <1>2, <2>3 DEF GetPolicyConfig, ReadFile
  <2> QED
    BY <1>2, <2>1, <2>2, <2>3
<1>4. Len(s.groups) \in Nat /\ DOMAIN s.groups = 1..Len(s.groups)
  <2>1. CASE text.kind = "empty"
    <3>1. s.groups = << >>
      BY <2>1 DEF loadPolicy, EmptySpec
    <3> QED
      BY <3>1
  <2>2. CASE text.kind \in {"object", "name"}
    <3>1. s = text.spec \/ s = EmptySpec
      BY <2>2 DEF loadPolicy, SpecInObject
    <3>2. CASE s = EmptySpec
      <4>1. s.groups = << >>
        BY <3>2 DEF EmptySpec
      <4> QED
        BY <4>1
    <3>3. CASE s = text.spec
      BY <1>2, <1>3, <2>2, <3>3
    <3> QED
      BY <3>1, <3>2, <3>3
  <2> QED
    BY <1>2, <1>3, <2>1, <2>2
<1> QED
  BY <1>1, <1>2, <1>3, <1>4

\* A text that passes the schema is loaded as it is meant.
LEMMA LoadedAsMeant ==
  ASSUME NEW t, t.kind \in {"empty", "object", "name"}, loadPolicy(t).ok,
         t.kind = "object" => t.wrapped \in BOOLEAN /\ t.apiVersion \in BOOLEAN
  PROVE  loadPolicy(t).spec = Meant(t)
<1>1. CASE t.kind = "empty"
  BY <1>1 DEF loadPolicy, Meant, Misread, Written
<1>2. CASE t.kind = "name"
  BY <1>2 DEF loadPolicy, Meant, Misread, Written
<1>3. CASE t.kind = "object"
  <2>1. t.wrapped \/ ~t.apiVersion
    BY <1>3 DEF loadPolicy, validatePolicyConfig
  <2>2. loadPolicy(t).spec = SpecInObject(t)
    BY <1>3 DEF loadPolicy
  <2>3. SpecInObject(t) = IF t.wrapped /\ ~t.apiVersion THEN EmptySpec ELSE t.spec
    BY <1>3, <2>1, Zenon DEF SpecInObject
  <2> QED
    BY <1>3, <2>2, <2>3 DEF Meant, Misread, Written
<1> QED
  BY <1>1, <1>2, <1>3

\* The problems of the snapshot are kept, and the text stays what the reference names.
LEMMA AskedStep ==
  ASSUME IInv, [Next]_vars
  PROVE  AskedInv'
<1> USE DEF IInv
<1>1. ASSUME Determine PROVE AskedInv'
  <2>1. at \in {"sources", "expand"} /\ at' \in SnapshotAts
    BY <1>1 DEF Determine, DetermineInputSpec, SkipSource, Reading, MergeComponent, MergeReturns, BadInput,
       BeginExpand, Goroutine, Go, NotIndex, IsIndex, IndexGone, IndexRead, BeginWrite, EndWrite, SendExpanded,
       Collect, SnapshotAts
  <2> QED
    BY <1>1, <2>1 DEF SnapshotAts, Begun, Loaded, AskedInv, Determine, policyVars
<1>2. ASSUME NEW ref \in PolicyRefs, NEW o \in OptionSets, NEW e \in ExtraData, InputReturns(ref, o, e) PROVE AskedInv'
  BY <1>2 DEF AskedInv, Begun, Loaded, SnapTypes, InputReturns
<1>3. ASSUME ConfigFails PROVE AskedInv'
  BY <1>3 DEF AskedInv, Begun, Loaded, SnapTypes, ConfigFails, Refuse, quietVars
<1>4. ASSUME Config PROVE AskedInv'
  BY <1>4 DEF AskedInv, Begun, Loaded, SnapTypes, Config, quietVars
<1>5. ASSUME LoadFails PROVE AskedInv'
  BY <1>5 DEF AskedInv, Begun, Loaded, SnapTypes, LoadFails, Refuse, quietVars
<1>6. ASSUME Load PROVE AskedInv'
  BY <1>6 DEF AskedInv, Begun, Loaded, SnapTypes, Load, quietVars
<1>7. ASSUME CheckFails PROVE AskedInv'
  BY <1>7 DEF AskedInv, Begun, Loaded, SnapTypes, CheckFails, Refuse, quietVars
<1>8. ASSUME Check PROVE AskedInv'
  BY <1>8 DEF AskedInv, Begun, Loaded, SnapTypes, Check, quietVars
<1>9. ASSUME Download PROVE AskedInv'
  BY <1>9 DEF AskedInv, Begun, Loaded, SnapTypes, Download, quietVars
<1>10. ASSUME DownloadFails PROVE AskedInv'
  BY <1>10 DEF AskedInv, Begun, Loaded, SnapTypes, DownloadFails, Refuse, quietVars
<1>11. ASSUME Downloaded PROVE AskedInv'
  BY <1>11 DEF AskedInv, Begun, Loaded, SnapTypes, Downloaded, quietVars
<1>12. ASSUME SkipGroup PROVE AskedInv'
  BY <1>12 DEF AskedInv, Begun, Loaded, SnapTypes, SkipGroup, Adding, quietVars
<1>13. ASSUME AddItem PROVE AskedInv'
  BY <1>13 DEF AskedInv, Begun, Loaded, SnapTypes, AddItem, Adding, quietVars
<1>14. ASSUME GroupDone PROVE AskedInv'
  BY <1>14 DEF AskedInv, Begun, Loaded, SnapTypes, GroupDone, Adding, quietVars
<1>15. ASSUME PreRunReturns PROVE AskedInv'
  BY <1>15 DEF AskedInv, Begun, Loaded, SnapTypes, PreRunReturns, quietVars
<1>16. ASSUME UNCHANGED vars PROVE AskedInv'
  BY <1>16 DEF AskedInv, Begun, Loaded, SnapTypes, vars, policyVars, snapVars
<1> QED
  BY <1>1, <1>2, <1>3, <1>4, <1>5, <1>6, <1>7, <1>8, <1>9, <1>10, <1>11, <1>12, <1>13,
     <1>14, <1>15, <1>16 DEF Next, PreRunE, Over

\* The policy stays that of the text and the flags.
LEMMA PolicyStep ==
  ASSUME IInv, [Next]_vars
  PROVE  PolicyInv'
<1> USE DEF IInv
<1>1. ASSUME Determine PROVE PolicyInv'
  <2>1. at \in {"sources", "expand"} /\ at' \in SnapshotAts
    BY <1>1 DEF Determine, DetermineInputSpec, SkipSource, Reading, MergeComponent, MergeReturns, BadInput,
       BeginExpand, Goroutine, Go, NotIndex, IsIndex, IndexGone, IndexRead, BeginWrite, EndWrite, SendExpanded,
       Collect, SnapshotAts
  <2> QED
    BY <1>1, <2>1 DEF SnapshotAts, Begun, Loaded, PolicyInv, Keyless, Determine, policyVars
<1>2. ASSUME NEW ref \in PolicyRefs, NEW o \in OptionSets, NEW e \in ExtraData, InputReturns(ref, o, e) PROVE PolicyInv'
  BY <1>2 DEF PolicyInv, Keyless, Begun, Loaded, InputReturns
<1>3. ASSUME ConfigFails PROVE PolicyInv'
  BY <1>3 DEF PolicyInv, Keyless, Begun, Loaded, ConfigFails, Refuse, quietVars
<1>4. ASSUME Config PROVE PolicyInv'
  BY <1>4 DEF PolicyInv, Keyless, Begun, Loaded, Config, quietVars
<1>5. ASSUME LoadFails PROVE PolicyInv'
  BY <1>5 DEF PolicyInv, Keyless, Begun, Loaded, LoadFails, Refuse, quietVars
<1>6. ASSUME Load PROVE PolicyInv'
  <2> DEFINE o == asked.options
             s == loadPolicy(text).spec
  <2>1. Len(s.groups) \in Nat /\ DOMAIN s.groups = 1..Len(s.groups)
    BY <1>6, TextFacts DEF Load
  <2>2. /\ policy' = [policy EXCEPT
                        !.loaded = TRUE, !.key = Flag(o.key, s.key), !.rekor = Flag(o.rekor, s.rekor),
                        !.ignoreRekor = o.ignoreRekor,
                        !.identity = IF Flag(o.key, s.key) = Empty THEN IdentityOf(o, s) ELSE NoIdentity]
        /\ groups' = s.groups /\ text' = text /\ asked' = asked /\ at' = "check" /\ loadPolicy(text).ok
    BY <1>6 DEF Load, quietVars
  <2> HIDE DEF o, s
  <2>3. /\ policy'.loaded = TRUE /\ policy'.key = Flag(o.key, s.key)
        /\ policy'.identity = IF Flag(o.key, s.key) = Empty THEN IdentityOf(o, s) ELSE NoIdentity
        /\ policy' = [key |-> policy'.key, rekor |-> policy'.rekor, identity |-> policy'.identity,
                      verifier |-> policy'.verifier, ignoreRekor |-> policy'.ignoreRekor,
                      loaded |-> policy'.loaded]
    BY <2>2 DEF PolicyInv
  <2>4. o = asked'.options /\ s = loadPolicy(text').spec
    BY <2>2 DEF o, s
  <2> HIDE DEF PolicyInv
  <2> QED
    BY <2>1, <2>2, <2>3, <2>4 DEF PolicyInv, Keyless, Loaded
<1>7. ASSUME CheckFails PROVE PolicyInv'
  BY <1>7 DEF PolicyInv, Keyless, Begun, Loaded, CheckFails, Refuse, quietVars
<1>8. ASSUME Check PROVE PolicyInv'
  BY <1>8 DEF PolicyInv, Keyless, Begun, Loaded, Check, quietVars
<1>9. ASSUME Download PROVE PolicyInv'
  BY <1>9 DEF PolicyInv, Keyless, Begun, Loaded, Download, quietVars
<1>10. ASSUME DownloadFails PROVE PolicyInv'
  BY <1>10 DEF PolicyInv, Keyless, Begun, Loaded, DownloadFails, Refuse, quietVars
<1>11. ASSUME Downloaded PROVE PolicyInv'
  BY <1>11 DEF PolicyInv, Keyless, Begun, Loaded, Downloaded, quietVars
<1>12. ASSUME SkipGroup PROVE PolicyInv'
  BY <1>12 DEF PolicyInv, Keyless, Begun, Loaded, SkipGroup, Adding, quietVars
<1>13. ASSUME AddItem PROVE PolicyInv'
  BY <1>13 DEF PolicyInv, Keyless, Begun, Loaded, AddItem, Adding, quietVars
<1>14. ASSUME GroupDone PROVE PolicyInv'
  BY <1>14 DEF PolicyInv, Keyless, Begun, Loaded, GroupDone, Adding, quietVars
<1>15. ASSUME PreRunReturns PROVE PolicyInv'
  BY <1>15 DEF PolicyInv, Keyless, Begun, Loaded, PreRunReturns, quietVars
<1>16. ASSUME UNCHANGED vars PROVE PolicyInv'
  BY <1>16 DEF PolicyInv, Keyless, Begun, Loaded, vars, policyVars, snapVars
<1> QED
  BY <1>1, <1>2, <1>3, <1>4, <1>5, <1>6, <1>7, <1>8, <1>9, <1>10, <1>11, <1>12, <1>13,
     <1>14, <1>15, <1>16 DEF Next, PreRunE, Over

\* No item leaves the data as it is.
LEMMA AppliedNone ==
  ASSUME NEW d, NEW items
  PROVE  Applied(d, d, items, 0)
BY DEF Applied

\* One more item is put over what the others gave.
LEMMA AppliedOne ==
  ASSUME NEW before, NEW after, NEW items, NEW n \in Nat, Applied(before, after, items, n)
  PROVE  Applied(before, Put(after, items[n + 1].key, items[n + 1].value), items, n + 1)
<1> DEFINE e == items[n + 1]
           new == Put(after, e.key, e.value)
<1>1. /\ DOMAIN new = DOMAIN after \cup {e.key}
      /\ \A x \in DOMAIN new : new[x] = IF x = e.key THEN e.value ELSE after[x]
  BY DEF Put
<1> HIDE DEF new
<1>2. ASSUME NEW j \in 1..(n + 1), \A k \in 1..(n + 1) : items[k].key = items[j].key => k <= j
      PROVE  items[j].key \in DOMAIN new /\ new[items[j].key] = items[j].value
  <2>1. CASE j = n + 1
    BY <1>1, <2>1
  <2>2. CASE j # n + 1
    <3>1. j \in 1..n /\ n + 1 \in 1..(n + 1) /\ ~(n + 1 <= j)
      BY <2>2
    <3>2. items[j].key # e.key
      BY <1>2, <3>1
    <3>3. \A k \in 1..n : items[k].key = items[j].key => k <= j
      BY <1>2
    <3>4. items[j].key \in DOMAIN after /\ after[items[j].key] = items[j].value
      BY <3>1, <3>3 DEF Applied
    <3> QED
      BY <1>1, <3>2, <3>4
  <2> QED
    BY <2>1, <2>2
<1>3. ASSUME NEW key \in DOMAIN before, \A k \in 1..(n + 1) : items[k].key # key
      PROVE  key \in DOMAIN new /\ new[key] = before[key]
  <2>1. e.key # key /\ \A k \in 1..n : items[k].key # key
    BY <1>3
  <2>2. key \in DOMAIN after /\ after[key] = before[key]
    BY <2>1 DEF Applied
  <2> QED
    BY <1>1, <2>1, <2>2
<1> QED
  BY <1>2, <1>3 DEF Applied, new

\* What the flags add to the rule data of the groups so far.
LEMMA DataStep ==
  ASSUME IInv, [Next]_vars
  PROVE  DataInv'
<1> USE DEF IInv
<1>1. ASSUME Determine PROVE DataInv'
  <2>1. at \in {"sources", "expand"} /\ at' \in SnapshotAts
    BY <1>1 DEF Determine, DetermineInputSpec, SkipSource, Reading, MergeComponent, MergeReturns, BadInput,
       BeginExpand, Goroutine, Go, NotIndex, IsIndex, IndexGone, IndexRead, BeginWrite, EndWrite, SendExpanded,
       Collect, SnapshotAts
  <2> QED
    BY <1>1, <2>1 DEF SnapshotAts, Begun, Loaded, DataInv, Determine, policyVars
<1>2. ASSUME NEW ref \in PolicyRefs, NEW o \in OptionSets, NEW e \in ExtraData, InputReturns(ref, o, e) PROVE DataInv'
  BY <1>2 DEF DataInv, ItemsIn, InputReturns
<1>3. ASSUME ConfigFails PROVE DataInv'
  BY <1>3 DEF DataInv, ItemsIn, ConfigFails, Refuse, quietVars
<1>4. ASSUME Config PROVE DataInv'
  BY <1>4 DEF DataInv, ItemsIn, Config, quietVars
<1>5. ASSUME LoadFails PROVE DataInv'
  BY <1>5 DEF DataInv, ItemsIn, LoadFails, Refuse, quietVars
<1>6. ASSUME Load PROVE DataInv'
  <2>1. at' = "check" /\ groups' = loadPolicy(text).spec.groups /\ text' = text
    BY <1>6 DEF Load, quietVars
  <2> QED
    BY <2>1 DEF DataInv
<1>7. ASSUME CheckFails PROVE DataInv'
  BY <1>7 DEF DataInv, ItemsIn, CheckFails, Refuse, quietVars
<1>8. ASSUME Check PROVE DataInv'
  <2>1. at = "check" /\ at' = "download" /\ group' = 1 /\ groups' = groups /\ text' = text
    BY <1>8 DEF Check, quietVars
  <2> QED
    BY <2>1 DEF DataInv
<1>9. ASSUME Download PROVE DataInv'
  BY <1>9 DEF DataInv, ItemsIn, Download, quietVars
<1>10. ASSUME DownloadFails PROVE DataInv'
  BY <1>10 DEF DataInv, ItemsIn, DownloadFails, Refuse, quietVars
<1>11. ASSUME Downloaded PROVE DataInv'
  <2>1. /\ at = "download" /\ at' = "extra" /\ group' = 1 /\ extra' = 1
        /\ groups' = groups /\ text' = text /\ asked' = asked
    BY <1>11 DEF Downloaded, quietVars
  <2>2. Len(groups) \in Nat /\ asked.extra \in ExtraData
    BY <2>1 DEF PolicyInv, AskedInv, Begun, Loaded
  <2>3. Len(asked.extra) \in Nat
    BY <2>2, PrepareAssumption
  <2>4. groups = loadPolicy(text).spec.groups /\ DOMAIN groups = 1..Len(groups)
    BY <2>1 DEF DataInv, PolicyInv, Loaded
  <2>5. ASSUME NEW i \in DOMAIN groups PROVE ItemsIn(i)' = 0
    BY <2>1, <2>2, <2>4, <2>5 DEF ItemsIn
  <2>6. \A i \in DOMAIN groups :
          Applied(loadPolicy(text).spec.groups[i].ruleData, groups[i].ruleData, asked.extra, 0)
    BY <2>4, AppliedNone
  <2> QED
    BY <2>1, <2>2, <2>3, <2>5, <2>6 DEF DataInv
<1>12. ASSUME SkipGroup PROVE DataInv'
  <2>1. /\ at = "extra" /\ group \in 1..Len(groups) /\ extra \in 1..(Len(asked.extra) + 1)
        /\ Len(groups) \in Nat /\ DOMAIN groups = 1..Len(groups) /\ Len(asked.extra) \in Nat
    <3>1. at = "extra" /\ group <= Len(groups)
      BY <1>12 DEF SkipGroup, Adding
    <3>2. asked.extra \in ExtraData
      BY <3>1 DEF AskedInv, Begun, Loaded
    <3>3. Len(asked.extra) \in Nat
      BY <3>2, PrepareAssumption
    <3>4. Len(groups) \in Nat /\ DOMAIN groups = 1..Len(groups)
      BY <3>1 DEF PolicyInv, Loaded
    <3>5. group \in 1..(Len(groups) + 1) /\ extra \in 1..(Len(asked.extra) + 1)
      BY <3>1 DEF DataInv
    <3> QED
      BY <3>1, <3>3, <3>4, <3>5
  <2>2. /\ problems' # {} /\ group' = group + 1 /\ extra' = extra /\ at' = at
        /\ groups' = groups /\ asked' = asked
    BY <1>12 DEF SkipGroup, quietVars
  <2> QED
    BY <2>1, <2>2 DEF DataInv
<1>13. ASSUME AddItem PROVE DataInv'
  <2>1. /\ at = "extra" /\ group \in 1..Len(groups) /\ extra \in 1..(Len(asked.extra) + 1)
        /\ Len(groups) \in Nat /\ DOMAIN groups = 1..Len(groups) /\ Len(asked.extra) \in Nat
    <3>1. at = "extra" /\ group <= Len(groups)
      BY <1>13 DEF AddItem, Adding
    <3>2. asked.extra \in ExtraData
      BY <3>1 DEF AskedInv, Begun, Loaded
    <3>3. Len(asked.extra) \in Nat
      BY <3>2, PrepareAssumption
    <3>4. Len(groups) \in Nat /\ DOMAIN groups = 1..Len(groups)
      BY <3>1 DEF PolicyInv, Loaded
    <3>5. group \in 1..(Len(groups) + 1) /\ extra \in 1..(Len(asked.extra) + 1)
      BY <3>1 DEF DataInv
    <3> QED
      BY <3>1, <3>3, <3>4, <3>5
  <2>2. /\ extra <= Len(asked.extra) /\ group' = group /\ extra' = extra + 1 /\ at' = at
        /\ asked' = asked /\ text' = text
    BY <1>13 DEF AddItem, quietVars
  <2> DEFINE e == asked.extra[extra]
             g == groups[group]
  <2>3. CASE BadItem(e)
    <3>1. problems' # {} /\ groups' = groups
      BY <1>13, <2>3 DEF AddItem
    <3> QED
      BY <2>1, <2>2, <3>1 DEF DataInv
  <2>4. CASE ~BadItem(e)
    <3>1. /\ problems' = problems
          /\ groups' = [groups EXCEPT ![group] =
                          [ruleData |-> Put(g.ruleData, e.key, e.value), broken |-> g.broken]]
      BY <1>13, <2>4 DEF AddItem
    <3>2. DOMAIN groups' = DOMAIN groups /\ Len(groups') = Len(groups)
      BY <2>1, <3>1
    <3>3. ASSUME problems = {}, NEW i \in DOMAIN groups
          PROVE  Applied(loadPolicy(text).spec.groups[i].ruleData, groups'[i].ruleData, asked.extra, ItemsIn(i)')
      <4>1. Applied(loadPolicy(text).spec.groups[i].ruleData, groups[i].ruleData, asked.extra, ItemsIn(i))
        BY <2>1, <3>3 DEF DataInv
      <4>2. CASE i = group
        <5>1. ItemsIn(i) = extra - 1 /\ ItemsIn(i)' = (extra - 1) + 1 /\ extra - 1 \in Nat /\ (extra - 1) + 1 = extra
          BY <2>1, <2>2, <4>2 DEF ItemsIn
        <5>2. groups'[i].ruleData = Put(groups[i].ruleData, asked.extra[extra].key, asked.extra[extra].value)
          BY <2>1, <3>1, <4>2
        <5> QED
          BY <4>1, <5>1, <5>2, AppliedOne
      <4>3. CASE i # group
        <5>1. ItemsIn(i)' = ItemsIn(i) /\ groups'[i] = groups[i]
          BY <2>1, <2>2, <3>1, <4>3 DEF ItemsIn
        <5> QED
          BY <4>1, <5>1
      <4> QED
        BY <4>2, <4>3
    <3> QED
      BY <2>1, <2>2, <3>1, <3>2, <3>3 DEF DataInv
  <2> QED
    BY <2>3, <2>4
<1>14. ASSUME GroupDone PROVE DataInv'
  <2>1. /\ at = "extra" /\ group \in 1..Len(groups) /\ extra \in 1..(Len(asked.extra) + 1)
        /\ Len(groups) \in Nat /\ DOMAIN groups = 1..Len(groups) /\ Len(asked.extra) \in Nat
    <3>1. at = "extra" /\ group <= Len(groups)
      BY <1>14 DEF GroupDone, Adding
    <3>2. asked.extra \in ExtraData
      BY <3>1 DEF AskedInv, Begun, Loaded
    <3>3. Len(asked.extra) \in Nat
      BY <3>2, PrepareAssumption
    <3>4. Len(groups) \in Nat /\ DOMAIN groups = 1..Len(groups)
      BY <3>1 DEF PolicyInv, Loaded
    <3>5. group \in 1..(Len(groups) + 1) /\ extra \in 1..(Len(asked.extra) + 1)
      BY <3>1 DEF DataInv
    <3> QED
      BY <3>1, <3>3, <3>4, <3>5
  <2>2. /\ extra = Len(asked.extra) + 1 /\ group' = group + 1 /\ extra' = 1 /\ at' = at
        /\ groups' = groups /\ asked' = asked /\ text' = text /\ problems' = problems
    BY <1>14 DEF GroupDone, quietVars
  <2>3. ASSUME NEW i \in DOMAIN groups PROVE ItemsIn(i)' = ItemsIn(i)
    BY <2>1, <2>2 DEF ItemsIn
  <2>4. problems = {} => \A i \in DOMAIN groups : Applied(loadPolicy(text).spec.groups[i].ruleData, groups[i].ruleData, asked.extra, ItemsIn(i))
    BY <2>1 DEF DataInv
  <2> QED
    BY <2>1, <2>2, <2>3, <2>4 DEF DataInv
<1>15. ASSUME PreRunReturns PROVE DataInv'
  <2>1. /\ at = "extra" /\ (asked.extra = << >> \/ group = Len(groups) + 1)
        /\ at' = (IF problems = {} THEN "running" ELSE "refused")
        /\ groups' = groups /\ asked' = asked /\ text' = text
    BY <1>15 DEF PreRunReturns, quietVars
  <2>2. CASE problems = {}
    <3>1. asked.extra \in ExtraData /\ Len(groups) \in Nat /\ DOMAIN groups = 1..Len(groups)
      BY <2>1 DEF AskedInv, PolicyInv, Begun, Loaded
    <3>2. extra \in 1..(Len(asked.extra) + 1) /\ Len(asked.extra) \in Nat /\ group \in 1..(Len(groups) + 1)
      BY <2>1, <3>1, PrepareAssumption DEF DataInv
    <3>3. ASSUME NEW i \in DOMAIN groups PROVE ItemsIn(i) = Len(asked.extra)
      <4>1. CASE group = Len(groups) + 1
        BY <3>1, <3>2, <4>1 DEF ItemsIn
      <4>2. CASE asked.extra = << >>
        <5>1. Len(asked.extra) = 0
          BY <4>2
        <5> QED
          BY <3>2, <5>1 DEF ItemsIn
      <4> QED
        BY <2>1, <4>1, <4>2
    <3>4. \A i \in DOMAIN groups : Applied(loadPolicy(text).spec.groups[i].ruleData, groups[i].ruleData, asked.extra, ItemsIn(i))
      BY <2>1, <2>2 DEF DataInv
    <3>5. \A i \in DOMAIN groups : Applied(loadPolicy(text).spec.groups[i].ruleData, groups[i].ruleData, asked.extra, Len(asked.extra))
      BY <3>3, <3>4
    <3> QED
      BY <2>1, <2>2, <3>5 DEF DataInv
  <2>3. CASE problems # {}
    BY <2>1, <2>3 DEF DataInv
  <2> QED
    BY <2>2, <2>3
<1>16. ASSUME UNCHANGED vars PROVE DataInv'
  BY <1>16 DEF DataInv, ItemsIn, vars, policyVars, snapVars
<1> QED
  BY <1>1, <1>2, <1>3, <1>4, <1>5, <1>6, <1>7, <1>8, <1>9, <1>10, <1>11, <1>12, <1>13,
     <1>14, <1>15, <1>16 DEF Next, PreRunE, Over

-----------------------------------------------------------------------------
(* Steps of DetermineInputSpec: merging *)

\* What the flags describe has a place.
LEMMA PlaceFacts ==
  ASSUME input \in Inputs
  PROVE  /\ Len(Sources) = 5 /\ DOMAIN Sources = 1..5
         /\ \A s \in 1..5 : Src(s) \in Seq(Given) /\ (input[Sources[s]].kind = "none" => Src(s) = << >>)
         /\ \A p \in Places : /\ p = <<p[1], p[2]>> /\ p[1] \in 1..5 /\ p[2] \in 1..Len(Src(p[1]))
                              /\ At(p) \in Given
         /\ \A s \in 1..5 : \A k \in 1..Len(Src(s)) : <<s, k>> \in Places
<1>1. Len(Sources) = 5 /\ DOMAIN Sources = 1..5
  BY DEF Sources
<1>2. \A s \in 1..5 : Src(s) \in Seq(Given) /\ (input[Sources[s]].kind = "none" => Src(s) = << >>)
  BY <1>1, InputAssumption DEF Src
<1>3. \A s \in 1..5 : Len(Src(s)) \in Nat /\ DOMAIN Src(s) = 1..Len(Src(s))
  BY <1>2
<1>4. ASSUME NEW p \in Places
      PROVE  p = <<p[1], p[2]>> /\ p[1] \in 1..5 /\ p[2] \in 1..Len(Src(p[1])) /\ At(p) \in Given
  <2>1. PICK s \in 1..5 : p \in {<<s, k>> : k \in DOMAIN Src(s)}
    BY <1>1 DEF Places
  <2>2. PICK k \in DOMAIN Src(s) : p = <<s, k>>
    BY <2>1
  <2>3. p[1] = s /\ p[2] = k /\ k \in 1..Len(Src(s))
    BY <1>3, <2>2
  <2>4. Src(s)[k] \in Given
    BY <1>2, <2>2
  <2> QED
    BY <2>2, <2>3, <2>4 DEF At
<1>5. ASSUME NEW s \in 1..5, NEW k \in 1..Len(Src(s)) PROVE <<s, k>> \in Places
  BY <1>1, <1>3 DEF Places
<1> QED
  BY <1>1, <1>2, <1>4, <1>5

\* Types of the state of DetermineInputSpec.
LEMMA TypesStep ==
  ASSUME IInv, [Next]_vars
  PROVE  SnapTypes'
<1> USE DEF IInv, SnapTypes
<1>0. Len(Sources) = 5
  BY PlaceFacts
<1>1. ASSUME at' \in Begun \cup {"refused"}, UNCHANGED <<input, limit, source, item, crashed>> PROVE SnapTypes'
  BY <1>1 DEF Begun, Loaded
<1>2. ASSUME UNCHANGED vars PROVE SnapTypes'
  BY <1>2 DEF vars, snapVars, inputVars, raceVars
<1>3. ASSUME \/ SkipSource \/ MergeComponent \/ MergeReturns \/ BadInput \/ BeginExpand \/ Collect PROVE SnapTypes'
  BY <1>0, <1>3 DEF SkipSource, Reading, MergeComponent, MergeReturns, BadInput, BeginExpand, Collect, inputVars, raceVars
<1>4. ASSUME NEW i, Goroutine(i) PROVE SnapTypes'
  <2>1. crashed' \in BOOLEAN /\ UNCHANGED <<input, limit, at, source, item>> /\ at = "expand"
    <3>1. CASE BeginWrite(i)
      BY <3>1 DEF BeginWrite, inputVars
    <3>2. CASE EndWrite(i)
      BY <3>2 DEF EndWrite, inputVars
    <3> QED
      BY <1>4, <3>1, <3>2 DEF Goroutine, Go, NotIndex, IsIndex, IndexGone, IndexRead, SendExpanded, inputVars, raceVars
  <2> QED
    BY <2>1
<1> QED
  BY Phases, <1>1, <1>2, <1>3, <1>4 DEF Determine, DetermineInputSpec

\* Merging the component at the next place gives each image one component with its name.
LEMMA MergedNames ==
  ASSUME NEW s \in Seq(Given), NEW S, NEW q, S \subseteq Places, q \in Places, input \in Inputs,
         \A i, j \in DOMAIN s : s[i].image = s[j].image => i = j,
         \A p \in S : \E i \in DOMAIN s : s[i].image = At(p).image,
         \A i \in DOMAIN s : NamedFrom(s[i], S),
         \A p \in S : Earlier(p, q)
  PROVE  LET t == MergeOne(s, At(q))
         IN  /\ t \in Seq(Given)
             /\ \A i, j \in DOMAIN t : t[i].image = t[j].image => i = j
             /\ \A p \in S \cup {q} : \E i \in DOMAIN t : t[i].image = At(p).image
             /\ \A i \in DOMAIN t : NamedFrom(t[i], S \cup {q})
<1> DEFINE c == At(q)
           t == MergeOne(s, c)
           T == S \cup {q}
<1>1. c \in Given /\ \A p \in S : At(p) \in Given
  BY PlaceFacts
<1>2. \A p \in T : ~Earlier(q, p)
  <2>1. \A p \in T : p[1] \in Int /\ p[2] \in Int
    <3>1. \A p \in Places : p[1] \in Int
      BY PlaceFacts
    <3>2. ASSUME NEW p \in Places PROVE p[2] \in Int
      BY PlaceFacts
    <3> QED
      BY <3>1, <3>2
  <2> QED
    BY <2>1 DEF Earlier
<1>3. \A i \in DOMAIN s : s[i] \in Given
  OBVIOUS
<1>4. CASE \A i \in DOMAIN s : s[i].image # c.image
  <2>1. t = Append(s, c)
    BY <1>4 DEF MergeOne
  <2>2. /\ t \in Seq(Given) /\ DOMAIN t = DOMAIN s \cup {Len(s) + 1} /\ Len(s) + 1 \notin DOMAIN s
        /\ t[Len(s) + 1] = c /\ \A i \in DOMAIN s : t[i] = s[i]
    BY <1>1, <2>1
  <2> HIDE DEF t
  <2>3. \A i, j \in DOMAIN t : t[i].image = t[j].image => i = j
    BY <1>4, <2>2
  <2>4. \A p \in T : \E i \in DOMAIN t : t[i].image = At(p).image
    BY <2>2
  <2>5. \A p \in S : At(p).image # c.image
    BY <1>4
  <2>6. ASSUME NEW i \in DOMAIN s PROVE NamedFrom(t[i], T)
    BY <1>4, <2>2 DEF NamedFrom
  <2>7. NamedFrom(c, T)
    BY <1>2, <2>5 DEF NamedFrom
  <2> QED
    BY <2>2, <2>3, <2>4, <2>6, <2>7 DEF t
<1>5. CASE \E i \in DOMAIN s : s[i].image = c.image
  <2>1. PICK f \in DOMAIN s : s[f].image = c.image
    BY <1>5
  <2>2. DOMAIN s = 1..Len(s) /\ \A i \in DOMAIN s : s[i].image = c.image <=> i = f
    BY <2>1
  <2>3. /\ DOMAIN t = DOMAIN s /\ t = [i \in DOMAIN s |-> t[i]]
        /\ \A i \in DOMAIN s : t[i] = IF i = f /\ Nameless(s[i].name)
                                      THEN [name |-> c.name, image |-> s[i].image, of |-> s[i].of] ELSE s[i]
    <3>1. \A i \in DOMAIN s : (s[i].image = c.image /\ \A j \in 1..(i - 1) : s[j].image # c.image) <=> i = f
      BY <2>2
    <3>2. t = [i \in DOMAIN s |-> IF /\ s[i].image = c.image /\ \A j \in 1..(i - 1) : s[j].image # c.image
                                     /\ Nameless(s[i].name)
                                  THEN [name |-> c.name, image |-> s[i].image, of |-> s[i].of] ELSE s[i]]
      BY <1>5 DEF MergeOne
    <3> HIDE DEF t, c
    <3> QED
      BY <3>1, <3>2
  <2> HIDE DEF t
  <2>4. \A i \in DOMAIN s : t[i] \in Given /\ t[i].image = s[i].image
    <3>1. [name |-> c.name, image |-> s[f].image, of |-> s[f].of] \in Given
      BY <1>1, <1>3 DEF Given
    <3> QED
      BY <1>3, <2>3, <3>1
  <2>5. t \in Seq(Given)
    <3>1. t \in [1..Len(s) -> Given]
      BY <2>2, <2>3, <2>4
    <3> QED
      BY <3>1
  <2>6. ASSUME NEW i \in DOMAIN s, i # f PROVE NamedFrom(t[i], T)
    <3>1. t[i] = s[i] /\ s[i].image # c.image
      BY <2>2, <2>3, <2>6
    <3> QED
      BY <3>1 DEF NamedFrom
  <2>7. NamedFrom(t[f], T)
    <3>1. CASE Nameless(s[f].name)
      <4>1. t[f].name = c.name /\ t[f].image = c.image
        BY <2>1, <2>3, <3>1
      <4>2. \A p \in S : At(p).image = c.image => Nameless(At(p).name)
        BY <2>1, <3>1 DEF NamedFrom
      <4> QED
        BY <1>2, <4>1, <4>2 DEF NamedFrom
    <3>2. CASE ~Nameless(s[f].name)
      <4>1. t[f] = s[f]
        BY <2>3, <3>2
      <4>2. PICK p \in S : /\ At(p).image = s[f].image /\ At(p).name = s[f].name
                           /\ \A x \in S : At(x).image = s[f].image /\ Earlier(x, p) => Nameless(At(x).name)
        BY <3>2 DEF NamedFrom
      <4> QED
        BY <1>2, <3>2, <4>1, <4>2 DEF NamedFrom
    <3> QED
      BY <3>1, <3>2
  <2>8. \A p \in T : \E i \in DOMAIN t : t[i].image = At(p).image
    BY <2>1, <2>3, <2>4
  <2>9. \A i, j \in DOMAIN t : t[i].image = t[j].image => i = j
    BY <2>3, <2>4
  <2> QED
    BY <2>3, <2>5, <2>6, <2>7, <2>8, <2>9 DEF t
<1> QED
  BY <1>4, <1>5

\* The components stay those of the places that are merged.
LEMMA MergeStep ==
  ASSUME IInv, [Next]_vars
  PROVE  MergeInv'
<1> USE DEF IInv, SnapTypes
<1>0. /\ Len(Sources) = 5
      /\ \A s \in 1..5 : Src(s) \in Seq(Given) /\ Len(Src(s)) \in Nat
      /\ \A s \in 1..5 : input[Sources[s]].kind = "none" => Len(Src(s)) = 0
  BY PlaceFacts
<1>a. \A p \in Places : p[1] \in 1..5 /\ p[2] \in 1..Len(Src(p[1]))
  BY PlaceFacts
<1>b. ASSUME input' = input PROVE Places' = Places /\ Len(Src(source))' = Len(input[Sources[source']].components)
  BY <1>b DEF Places, Src
<1>c. ASSUME at = "sources", input' = input, components' = components, Seen' = Seen
      PROVE  /\ (components \in Seq(Given))'
             /\ (\A i, j \in DOMAIN components : components[i].image = components[j].image => i = j)'
             /\ (\A p \in Seen : \E i \in DOMAIN components : components[i].image = At(p).image)'
             /\ (\A i \in DOMAIN components : NamedFrom(components[i], Seen))'
  <2>1. \A p : At(p)' = At(p)
    BY <1>c DEF At, Src
  <2>2. (\A i \in DOMAIN components : NamedFrom(components[i], Seen))'
    BY <1>c, <2>1 DEF MergeInv, NamedFrom
  <2> QED
    BY <1>c, <2>1, <2>2 DEF MergeInv
<1>1. ASSUME at' \notin {"sources", "expand"} PROVE MergeInv'
  BY <1>1 DEF MergeInv
<1>2. ASSUME UNCHANGED <<input, at, source, item, components>> PROVE MergeInv'
  <2>1. Seen' = Seen /\ Len(Src(source))' = Len(Src(source))
    BY <1>2 DEF Seen, Places, Src
  <2>2. \A p : At(p)' = At(p)
    BY <1>2 DEF At, Src
  <2>3. \A c : NamedFrom(c, Seen)' <=> NamedFrom(c, Seen)
    BY <2>1, <2>2 DEF NamedFrom
  <2> QED
    BY <1>2, <2>1, <2>2, <2>3 DEF MergeInv
<1>3. ASSUME SkipSource PROVE MergeInv'
  <2>1. /\ at = "sources" /\ at' = at /\ source \in 1..5 /\ source' = source + 1
        /\ UNCHANGED <<input, item, components>> /\ Len(Src(source)) = 0
    BY <1>0, <1>3 DEF SkipSource, inputVars
  <2>2. item = 0
    BY <1>0, <2>1 DEF MergeInv
  <2>3. Seen' = Seen
    BY <1>a, <1>b, <2>1, <2>2 DEF Seen
  <2>4. source' <= 5 => item' <= Len(Src(source))'
    BY <1>0, <1>b, <2>1, <2>2 DEF Src
  <2> QED
    BY <1>0, <1>c, <2>1, <2>2, <2>3, <2>4 DEF MergeInv
<1>4. ASSUME MergeReturns PROVE MergeInv'
  <2>1. /\ at = "sources" /\ at' = at /\ source \in 1..5 /\ source' = source + 1 /\ item' = 0
        /\ UNCHANGED <<input, components>> /\ item = Len(Src(source))
    BY <1>0, <1>4 DEF MergeReturns, Reading, inputVars
  <2>3. Seen' = Seen
    <3>1. ASSUME NEW p \in Places
          PROVE  (p[1] < source + 1 \/ (p[1] = source + 1 /\ p[2] <= 0)) <=>
                 (p[1] < source \/ (p[1] = source /\ p[2] <= item))
      <4>1. p[1] \in Int /\ p[2] \in 1..Len(Src(p[1]))
        BY <1>a
      <4>2. p[2] \in Int /\ p[2] >= 1 /\ p[2] <= Len(Src(p[1]))
        BY <1>0, <1>a
      <4> QED
        BY <2>1, <4>1, <4>2
    <3> QED
      BY <1>b, <2>1, <3>1 DEF Seen
  <2>4. source' <= 5 => item' <= Len(Src(source))'
    BY <1>0, <1>b, <2>1 DEF Src
  <2> QED
    BY <1>0, <1>c, <2>1, <2>3, <2>4 DEF MergeInv
<1>5. ASSUME BeginExpand PROVE MergeInv'
  <2>1. at = "sources" /\ UNCHANGED <<input, source, item, components>> /\ source = 6 /\ Seen' = Seen
    BY <1>0, <1>5 DEF BeginExpand, inputVars, Seen, Places, Src
  <2> QED
    BY <1>0, <1>c, <2>1 DEF MergeInv
<1>6. ASSUME MergeComponent PROVE MergeInv'
  <2> DEFINE q == <<source, item + 1>>
  <2>1. /\ at = "sources" /\ at' = at /\ source \in 1..5 /\ source' = source /\ item' = item + 1
        /\ input' = input /\ item < Len(Src(source)) /\ components' = MergeOne(components, At(q))
    BY <1>0, <1>6 DEF MergeComponent, Reading, inputVars, At
  <2>2. q \in Places
    <3>1. item + 1 \in 1..Len(Src(source))
      BY <1>0, <2>1
    <3> QED
      BY <2>1, <3>1, PlaceFacts
  <2>3. Seen' = Seen \cup {q}
    <3>1. \A p \in Places : p[1] = source /\ p[2] = item + 1 => p = q
      BY PlaceFacts
    <3>2. q[1] = source /\ q[2] = item + 1
      OBVIOUS
    <3> HIDE DEF q
    <3>3. ASSUME NEW p \in Places
          PROVE  (p[1] < source \/ (p[1] = source /\ p[2] <= item + 1)) <=>
                 (p[1] < source \/ (p[1] = source /\ p[2] <= item) \/ p = q)
      <4>1. p[1] \in Int
        BY <1>a
      <4>2. p[2] \in Int
        BY <1>a, <1>0
      <4> QED
        BY <3>1, <3>2, <4>1, <4>2, <2>1
    <3> QED
      BY <1>b, <2>1, <2>2, <3>3 DEF Seen
  <2>4. \A p \in Seen : Earlier(p, q)
    <3>1. q[1] = source /\ q[2] = item + 1
      OBVIOUS
    <3> HIDE DEF q
    <3>2. ASSUME NEW p \in Seen PROVE Earlier(p, q)
      <4>1. p[2] \in Int /\ (p[1] < source \/ (p[1] = source /\ p[2] <= item))
        BY <1>a, <1>0 DEF Seen
      <4> QED
        BY <3>1, <4>1 DEF Earlier
    <3> QED
      BY <3>2
  <2>5. /\ Seen \subseteq Places /\ components \in Seq(Given)
        /\ \A i, j \in DOMAIN components : components[i].image = components[j].image => i = j
        /\ \A p \in Seen : \E i \in DOMAIN components : components[i].image = At(p).image
        /\ \A i \in DOMAIN components : NamedFrom(components[i], Seen)
    BY <2>1 DEF MergeInv, Seen
  <2> HIDE DEF q
  <2> DEFINE t == MergeOne(components, At(q))
  <2>6. /\ t \in Seq(Given)
        /\ \A i, j \in DOMAIN t : t[i].image = t[j].image => i = j
        /\ \A p \in Seen \cup {q} : \E i \in DOMAIN t : t[i].image = At(p).image
        /\ \A i \in DOMAIN t : NamedFrom(t[i], Seen \cup {q})
    BY <2>2, <2>4, <2>5, MergedNames
  <2>7. components' = t
    BY <2>1
  <2> HIDE DEF t
  <2>8. \A p : At(p)' = At(p)
    BY <2>1 DEF At, Src
  <2>9. (\A i \in DOMAIN components : NamedFrom(components[i], Seen))'
    <3>1. ASSUME NEW i \in DOMAIN t PROVE NamedFrom(components[i], Seen)'
      BY <2>3, <2>6, <2>7, <2>8 DEF NamedFrom
    <3> QED
      BY <2>7, <3>1
  <2>10. item' <= Len(Src(source))'
    BY <1>0, <2>1 DEF Src
  <2> QED
    <3>1. (\A p \in Seen : \E i \in DOMAIN components : components[i].image = At(p).image)'
      BY <2>3, <2>6, <2>7, <2>8
    <3>2. (components \in Seq(Given))' /\ (\A i, j \in DOMAIN components : components[i].image = components[j].image => i = j)'
      BY <2>6, <2>7
    <3> QED
      BY <1>0, <2>1, <2>9, <2>10, <3>1, <3>2 DEF MergeInv
<1>7. ASSUME NEW i, Goroutine(i) PROVE MergeInv'
  BY <1>2, <1>7 DEF Goroutine, Go, NotIndex, IsIndex, IndexGone, IndexRead, BeginWrite, EndWrite, SendExpanded, inputVars
<1> QED
  BY Phases, <1>1, <1>2, <1>3, <1>4, <1>5, <1>6, <1>7
     DEF Determine, DetermineInputSpec, Begun, Loaded, BadInput, Collect, vars, snapVars, inputVars

-----------------------------------------------------------------------------
(* Steps of DetermineInputSpec: the goroutines *)

\* While indexes are expanded the components are those of the flags.
LEMMA ExpandFacts ==
  ASSUME IInv, at = "expand"
  PROVE  /\ components \in Seq(Given) /\ DOMAIN worker = DOMAIN components /\ DOMAIN writing = DOMAIN components
         /\ DOMAIN got = DOMAIN components
         /\ \A i \in DOMAIN components :
              /\ GoroutineOK(i) /\ components[i] \in Given /\ components[i].image \in Images
              /\ components[i].of = NoImage /\ components[i].name \in Names
<1>1. /\ components \in Seq(Given) /\ DOMAIN worker = DOMAIN components /\ DOMAIN writing = DOMAIN components
      /\ DOMAIN got = DOMAIN components
  BY DEF IInv, MergeInv, PoolInv
<1>2. ASSUME NEW i \in DOMAIN components
      PROVE  /\ GoroutineOK(i) /\ components[i] \in Given /\ components[i].image \in Images
             /\ components[i].of = NoImage /\ components[i].name \in Names
  <2>1. components[i] \in Given /\ GoroutineOK(i)
    BY <1>1 DEF IInv, PoolInv
  <2>2. components[i].image \in Images /\ components[i].of = NoImage /\ components[i].name \in Names
    BY <2>1 DEF Given
  <2> QED
    BY <2>1, <2>2
<1> QED
  BY <1>1, <1>2

\* The images of an index are references to its repository.
LEMMA PartsTypes ==
  ASSUME NEW r \in Images, NEW d \in Digests
  PROVE  /\ PartsOf(r, d) \in Seq(Images) /\ Len(PartsOf(r, d)) \in Nat
         /\ DOMAIN PartsOf(r, d) = 1..Len(PartsOf(r, d))
<1>1. Manifests[d] \in Seq(Digests) /\ Pinned[r] \in [Digests -> Images]
  BY SnapshotAssumption
<1> DEFINE n == Len(Manifests[d])
<1>2. n \in Nat /\ DOMAIN Manifests[d] = 1..n /\ \A k \in 1..n : Manifests[d][k] \in Digests
  BY <1>1
<1>3. \A k \in 1..n : Pinned[r][Manifests[d][k]] \in Images
  BY <1>1, <1>2
<1>4. PartsOf(r, d) \in [1..n -> Images]
  BY <1>2, <1>3 DEF PartsOf
<1> HIDE DEF n
<1>5. PartsOf(r, d) \in Seq(Images)
  BY <1>2, <1>4, IsASeq
<1> QED
  BY <1>5

\* What a goroutine knows once the manifests are read.
LEMMA ExpandedFacts ==
  ASSUME IInv, at = "expand", NEW i \in DOMAIN components, Expanded(i)
  PROVE  /\ Image(i) \in Images /\ Image(i) = components[i].image
         /\ got[i].head \in Pull[Image(i)] /\ got[i].head \in Digests /\ Kind[got[i].head] = "index"
         /\ got[i].index \in Pull[Image(i)] /\ got[i].index \in Digests /\ Kind[got[i].index] = "index"
         /\ Access[Image(i)] = "ok"
         /\ Parts(i) \in Seq(Images) /\ Len(Parts(i)) \in Nat /\ DOMAIN Parts(i) = 1..Len(Parts(i))
         /\ Index(i) \in Images
<1>1. /\ GoroutineOK(i) /\ Image(i) \in Images /\ Image(i) = components[i].image
  BY ExpandFacts DEF Image
<1>2. Pull[Image(i)] \subseteq Digests /\ Pinned[Image(i)] \in [Digests -> Images]
  BY <1>1, SnapshotAssumption
<1>3. /\ got[i].head \in Pull[Image(i)] /\ Kind[got[i].head] = "index"
      /\ got[i].index \in Pull[Image(i)] /\ Kind[got[i].index] = "index"
      /\ Access[Image(i)] = "ok"
  BY <1>1 DEF GoroutineOK, Finds
<1>4. got[i].head \in Digests /\ got[i].index \in Digests
  BY <1>2, <1>3
<1>5. Parts(i) \in Seq(Images) /\ Len(Parts(i)) \in Nat /\ DOMAIN Parts(i) = 1..Len(Parts(i))
  BY <1>1, <1>4, PartsTypes DEF Parts
<1>6. Index(i) \in Images
  BY <1>2, <1>4 DEF Index
<1> QED
  BY <1>1, <1>3, <1>4, <1>5, <1>6

Sends(i) == IF Expanded(i) THEN Len(Parts(i)) ELSE 0

\* What a step of a goroutine changes.
LEMMA GoroutineStep ==
  ASSUME IInv, NEW i \in DOMAIN worker, Goroutine(i)
  PROVE  /\ at = "expand" /\ ~crashed /\ i \in DOMAIN components
         /\ DOMAIN worker' = DOMAIN components /\ DOMAIN writing' = DOMAIN components
         /\ DOMAIN got' = DOMAIN components
         /\ UNCHANGED <<input, limit, at, source, item, components>>
         /\ \A j \in DOMAIN components : j # i => worker'[j] = worker[j] /\ writing'[j] = writing[j] /\ got'[j] = got[j]
         /\ \/ /\ worker[i].pc = "new" /\ worker'[i] = [pc |-> "head", child |-> worker[i].child]
               /\ limit >= 0 => Cardinality(Active) < limit
               /\ UNCHANGED <<arrived, exp, writing, crashed, got>>
            \/ /\ worker[i].pc \in {"head", "index", "send"} /\ worker'[i] = [pc |-> "done", child |-> 0]
               /\ Send(i, Sends(i)) /\ UNCHANGED <<exp, writing, crashed, got>>
               /\ worker[i].pc # "send" => ~Expanded(i) /\ (Access[Image(i)] # "ok" \/ Finds(i, "image") # {})
            \/ /\ worker[i].pc = "head" /\ worker'[i] = [pc |-> "index", child |-> worker[i].child]
               /\ got'[i] = [head |-> got'[i].head, index |-> got[i].index]
               /\ got'[i].head \in Finds(i, "index") /\ ~Unreadable(i)
               /\ UNCHANGED <<arrived, exp, writing, crashed>>
            \/ /\ worker[i].pc = "index" /\ worker'[i] = [pc |-> "aliases", child |-> 0]
               /\ got'[i] = [head |-> got[i].head, index |-> got'[i].index]
               /\ got'[i].index \in Finds(i, "index") /\ Access[Image(i)] = "ok"
               /\ UNCHANGED <<arrived, exp, writing, crashed>>
            \/ BeginWrite(i) /\ UNCHANGED <<arrived, exp, worker, got>>
            \/ EndWrite(i) /\ worker'[i] = AfterWrite(i) /\ UNCHANGED <<arrived, crashed, got>>
<1>1. at = "expand" /\ ~crashed /\ UNCHANGED <<input, limit, at, source, item, components>>
  BY DEF Goroutine, Go, NotIndex, IsIndex, IndexGone, IndexRead, BeginWrite, EndWrite, SendExpanded, inputVars
<1>2. /\ DOMAIN worker = DOMAIN components /\ DOMAIN writing = DOMAIN components /\ GoroutineOK(i)
      /\ DOMAIN got = DOMAIN components
      /\ worker[i] = [pc |-> worker[i].pc, child |-> worker[i].child]
      /\ got[i] = [head |-> got[i].head, index |-> got[i].index]
      /\ Image(i) \in Images
  BY <1>1, ExpandFacts DEF GoroutineOK, Image
<1>3. CASE Go(i)
  BY <1>1, <1>2, <1>3 DEF Go, raceVars
<1>4. CASE NotIndex(i)
  <2>1. ~Expanded(i) /\ (Access[Image(i)] # "ok" \/ Finds(i, "image") # {})
    BY <1>2, <1>4 DEF NotIndex, Unreadable, GoroutineOK
  <2>2. Sends(i) = 0
    BY <2>1 DEF Sends
  <2> QED
    BY <1>1, <1>2, <1>4, <2>1, <2>2 DEF NotIndex, Send, raceVars
<1>5. CASE IsIndex(i)
  <2>1. PICK d \in Finds(i, "index") : got' = [got EXCEPT ![i].head = d]
    BY <1>5 DEF IsIndex
  <2>2. got'[i].head = d /\ got'[i] = [head |-> got'[i].head, index |-> got[i].index]
    BY <1>2, <2>1
  <2> QED
    BY <1>1, <1>2, <1>5, <2>1, <2>2 DEF IsIndex, raceVars
<1>6. CASE IndexGone(i)
  <2>1. ~Expanded(i) /\ (Access[Image(i)] # "ok" \/ Finds(i, "image") # {})
    BY <1>2, <1>6 DEF IndexGone, GoroutineOK
  <2>2. Sends(i) = 0
    BY <2>1 DEF Sends
  <2> QED
    BY <1>1, <1>2, <1>6, <2>1, <2>2 DEF IndexGone, Send, raceVars
<1>7. CASE IndexRead(i)
  <2>1. PICK d \in Finds(i, "index") : got' = [got EXCEPT ![i].index = d]
    BY <1>7 DEF IndexRead
  <2>2. got'[i].index = d /\ got'[i] = [head |-> got[i].head, index |-> got'[i].index]
    BY <1>2, <2>1
  <2>3. Access[Image(i)] = "ok"
    <3>1. ~Unreadable(i) /\ Access[Image(i)] # "gone"
      BY <1>2, <1>7 DEF IndexRead, GoroutineOK
    <3> QED
      BY <1>2, <3>1, SnapshotAssumption DEF Unreadable
  <2> QED
    BY <1>1, <1>2, <1>7, <2>1, <2>2, <2>3 DEF IndexRead, raceVars
<1>8. CASE BeginWrite(i)
  BY <1>1, <1>2, <1>8 DEF BeginWrite
<1>9. CASE EndWrite(i)
  BY <1>1, <1>2, <1>9 DEF EndWrite
<1>10. CASE SendExpanded(i)
  <2>1. Sends(i) = Len(Parts(i))
    BY <1>2, <1>10 DEF SendExpanded, GoroutineOK, Sends
  <2> QED
    BY <1>1, <1>2, <1>10, <2>1 DEF SendExpanded, Send, raceVars
<1> QED
  BY <1>3, <1>4, <1>5, <1>6, <1>7, <1>8, <1>9, <1>10 DEF Goroutine

\* What is known of an index does not change once it is read.
LEMMA GotKept ==
  ASSUME IInv, NEW i \in DOMAIN worker, Goroutine(i)
  PROVE  /\ \A j : Image(j)' = Image(j)
         /\ \A j \in DOMAIN components :
              /\ Expanded(j) => Expanded(j)' /\ got'[j] = got[j] /\ Parts(j)' = Parts(j) /\ Index(j)' = Index(j)
              /\ j # i => got'[j] = got[j] /\ Expanded(j)' = Expanded(j)
              /\ worker[i].pc # "index" => Expanded(j)' = Expanded(j)
<1>1. /\ at = "expand" /\ i \in DOMAIN components /\ components' = components
      /\ \A j \in DOMAIN components : j # i => got'[j] = got[j]
  BY GoroutineStep
<1>2. \A j : Image(j)' = Image(j)
  BY <1>1 DEF Image
<1>3. ASSUME NEW j \in DOMAIN components, got'[j] = got[j]
      PROVE  Expanded(j)' = Expanded(j) /\ Parts(j)' = Parts(j) /\ Index(j)' = Index(j)
  BY <1>2, <1>3 DEF Expanded, Parts, Index
<1>4. GoroutineOK(i)
  BY <1>1, ExpandFacts
<1>5. Expanded(i) => got'[i] = got[i]
  <2>1. Expanded(i) => worker[i].pc \notin {"head", "index"}
    BY <1>4 DEF GoroutineOK
  <2> QED
    BY <1>1, <2>1, GoroutineStep
<1>6. worker[i].pc # "index" => Expanded(i)' = Expanded(i)
  <2>1. worker[i].pc # "index" => got'[i] = got[i] \/ got'[i] = [head |-> got'[i].head, index |-> got[i].index]
    BY <1>1, GoroutineStep
  <2> QED
    BY <2>1 DEF Expanded
<1> QED
  BY <1>1, <1>2, <1>3, <1>5, <1>6

\* Only these steps lead to or stay in the expansion.
LEMMA ExpandCases ==
  ASSUME [Next]_vars, at' = "expand"
  PROVE  BeginExpand \/ (\E i \in DOMAIN worker : Goroutine(i)) \/ UNCHANGED vars
BY Phases DEF Determine, DetermineInputSpec, SkipSource, Reading, MergeComponent, MergeReturns, BadInput, Collect,
   Begun, Loaded

\* The goroutines stay where the statements of imageIndexWorker lead.
LEMMA PoolStep ==
  ASSUME IInv, [Next]_vars
  PROVE  PoolInv'
<1> SUFFICES ASSUME at' = "expand" PROVE PoolInv'
  BY DEF PoolInv
<1>1. ASSUME BeginExpand PROVE PoolInv'
  <2>1. /\ DOMAIN worker' = DOMAIN components' /\ DOMAIN writing' = DOMAIN components' /\ DOMAIN got' = DOMAIN components'
        /\ \A i \in DOMAIN components' : /\ worker'[i] = [pc |-> "new", child |-> 0] /\ writing'[i] = NotWriting
                                       /\ got'[i] = NothingGot
    BY <1>1 DEF BeginExpand
  <2>2. ASSUME NEW i \in DOMAIN components' PROVE GoroutineOK(i)'
    <3>1. /\ worker'[i].pc = "new" /\ worker'[i].child = 0 /\ writing'[i].map = "none"
          /\ worker'[i] = [pc |-> worker'[i].pc, child |-> worker'[i].child]
          /\ writing'[i] = [map |-> writing'[i].map, read |-> writing'[i].read]
      BY <2>1 DEF NotWriting
    <3>2. got'[i].index = NoDigest /\ got'[i] = [head |-> got'[i].head, index |-> got'[i].index]
      BY <2>1 DEF NothingGot
    <3> QED
      BY <3>1, <3>2 DEF GoroutineOK, Expanded, Pcs, Maps
  <2> QED
    BY <2>1, <2>2 DEF PoolInv
<1>2. ASSUME UNCHANGED vars PROVE PoolInv'
  BY <1>2 DEF IInv, PoolInv, GoroutineOK, Expanded, Finds, Unreadable, Image, Parts, vars, snapVars, raceVars
<1>3. ASSUME NEW i \in DOMAIN worker, Goroutine(i) PROVE PoolInv'
  <2>1. /\ at = "expand" /\ i \in DOMAIN components /\ components' = components
        /\ DOMAIN worker' = DOMAIN components /\ DOMAIN writing' = DOMAIN components /\ DOMAIN got' = DOMAIN components
    BY <1>3, GoroutineStep
  <2>a. \A j, kind : Image(j)' = Image(j) /\ Finds(j, kind)' = Finds(j, kind) /\ Unreadable(j)' = Unreadable(j)
    BY <2>1 DEF Image, Finds, Unreadable
  <2>2. ASSUME NEW j \in DOMAIN components, j # i PROVE GoroutineOK(j)'
    <3>1. worker'[j] = worker[j] /\ writing'[j] = writing[j] /\ got'[j] = got[j] /\ GoroutineOK(j)
      BY <1>3, <2>1, <2>2, GoroutineStep, ExpandFacts
    <3> QED
      BY <2>1, <2>a, <3>1 DEF GoroutineOK, Expanded, Parts
  <2>3. GoroutineOK(i)'
    <3>1. GoroutineOK(i) /\ (Expanded(i) => Len(Parts(i)) \in Nat)
      BY <2>1, ExpandFacts, ExpandedFacts
    <3>2. ASSUME got'[i] = got[i] PROVE Expanded(i)' = Expanded(i) /\ Parts(i)' = Parts(i)
      BY <2>a, <3>2 DEF Expanded, Parts
    <3> DEFINE w == worker[i]
               v == worker'[i]
    <3>3. CASE writing' = writing /\ got' = got /\ w.pc \in {"new", "head", "index", "send"}
               /\ \/ w.pc = "new" /\ v = [pc |-> "head", child |-> w.child]
                  \/ /\ v = [pc |-> "done", child |-> 0]
                     /\ w.pc # "send" => Access[Image(i)] # "ok" \/ Finds(i, "image") # {}
      <4>1. writing[i].map = "none" /\ w.child \in Nat
        BY <3>1, <3>3 DEF GoroutineOK, Maps
      <4>2. /\ v = [pc |-> v.pc, child |-> v.child] /\ v.child \in Nat
            /\ v.pc = "done" \/ (v.pc = "head" /\ w.pc = "new")
        BY <3>3, <4>1
      <4>3. Expanded(i)' = Expanded(i)
        BY <3>2, <3>3
      <4>4. w.pc = "send" => Expanded(i)
        BY <3>1 DEF GoroutineOK
      <4>5. w.pc = "new" => ~Expanded(i)
        BY <3>1 DEF GoroutineOK
      <4>6. v.pc = "done" /\ ~Expanded(i) => Access[Image(i)] # "ok" \/ Finds(i, "image") # {}
        BY <3>3, <4>4
      <4>7. writing'[i] = writing[i] /\ got'[i] = got[i]
        BY <3>3
      <4> QED
        BY <2>a, <3>1, <4>1, <4>2, <4>3, <4>5, <4>6, <4>7 DEF GoroutineOK, Pcs, Maps
    <3>6. CASE /\ w.pc = "head" /\ v = [pc |-> "index", child |-> w.child] /\ writing' = writing
               /\ got'[i] = [head |-> got'[i].head, index |-> got[i].index]
               /\ got'[i].head \in Finds(i, "index") /\ ~Unreadable(i)
      <4>1. writing[i].map = "none" /\ w.child \in Nat /\ ~Expanded(i)
        BY <3>1, <3>6 DEF GoroutineOK, Maps
      <4>2. v = [pc |-> v.pc, child |-> v.child] /\ v.child \in Nat /\ v.pc = "index"
        BY <3>6, <4>1
      <4>3. got'[i].index = got[i].index /\ got'[i] = [head |-> got'[i].head, index |-> got'[i].index]
        BY <3>6
      <4>4. ~Expanded(i)'
        BY <4>1, <4>3 DEF Expanded
      <4> QED
        BY <2>a, <3>1, <3>6, <4>1, <4>2, <4>3, <4>4 DEF GoroutineOK, Pcs, Maps
    <3>7. CASE /\ w.pc = "index" /\ v = [pc |-> "aliases", child |-> 0] /\ writing' = writing
               /\ got'[i] = [head |-> got[i].head, index |-> got'[i].index]
               /\ got'[i].index \in Finds(i, "index") /\ Access[Image(i)] = "ok"
      <4>1. writing[i].map = "none" /\ got[i].head \in Finds(i, "index")
        BY <3>1, <3>7 DEF GoroutineOK, Maps
      <4>2. v = [pc |-> v.pc, child |-> v.child] /\ v.child \in Nat /\ v.pc = "aliases"
        BY <3>7
      <4>3. got'[i].head = got[i].head /\ got'[i] = [head |-> got'[i].head, index |-> got'[i].index]
        BY <3>7
      <4>4. Expanded(i)'
        <5>1. Image(i) \in Images
          BY <2>1, ExpandFacts DEF Image
        <5>2. got'[i].index \in Digests
          BY <3>7, <5>1, SnapshotAssumption DEF Finds
        <5> QED
          BY <5>2, SnapshotAssumption DEF Expanded
      <4> QED
        BY <2>a, <3>1, <3>7, <4>1, <4>2, <4>3, <4>4 DEF GoroutineOK, Pcs, Maps
    <3>4. CASE BeginWrite(i) /\ got' = got
      <4>1. worker' = worker /\ writing'[i] = [map |-> w.pc, read |-> exp[w.pc]] /\ w.pc \in Maps
        BY <2>1, <3>4, ExpandFacts DEF BeginWrite, Maps
      <4>2. Expanded(i)' = Expanded(i) /\ Parts(i)' = Parts(i) /\ got'[i] = got[i]
        BY <3>2, <3>4
      <4> QED
        BY <2>a, <3>1, <4>1, <4>2 DEF GoroutineOK, Maps
    <3>5. CASE EndWrite(i) /\ got' = got
      <4>1. writing'[i] = NotWriting /\ v = AfterWrite(i) /\ w.pc \in Maps /\ Expanded(i)
        BY <2>1, <3>1, <3>5, ExpandFacts DEF EndWrite, GoroutineOK
      <4>2. /\ v = [pc |-> v.pc, child |-> v.child] /\ v.pc \in {"children", "parents", "send"} /\ v.child \in Nat
            /\ v.pc \in {"children", "parents"} => v.child \in 1..Len(Parts(i))
        BY <3>1, <4>1 DEF AfterWrite, Maps, GoroutineOK
      <4>3. Expanded(i)' = Expanded(i) /\ Parts(i)' = Parts(i) /\ got'[i] = got[i]
        BY <3>2, <3>5
      <4>4. writing'[i].map = "none" /\ writing'[i] = [map |-> writing'[i].map, read |-> writing'[i].read]
        BY <4>1 DEF NotWriting
      <4> QED
        BY <2>a, <3>1, <4>1, <4>2, <4>3, <4>4 DEF GoroutineOK, Pcs, Maps
    <3> QED
      BY <1>3, <3>3, <3>4, <3>5, <3>6, <3>7, GoroutineStep
  <2> QED
    BY <2>1, <2>2, <2>3 DEF PoolInv
<1> QED
  BY <1>1, <1>2, <1>3, ExpandCases

\* The parts of what is sent.
LEMMA SendFacts ==
  ASSUME NEW S, NEW a \in Seq(S), NEW c \in S, NEW n \in Nat, NEW b \in [1..n -> S]
  PROVE  LET t == a \o <<c>> \o b
         IN  /\ t \in Seq(S) /\ Len(t) = Len(a) + 1 + n /\ DOMAIN t = 1..(Len(a) + 1 + n)
             /\ \A k \in 1..Len(a) : t[k] = a[k]
             /\ t[Len(a) + 1] = c
             /\ \A k \in 1..n : t[Len(a) + 1 + k] = b[k]
<1> DEFINE t == a \o <<c>> \o b
<1>1. b \in Seq(S) /\ Len(b) = n
  BY Z3
<1>2. <<c>> \in Seq(S) /\ Len(<<c>>) = 1 /\ <<c>>[1] = c
  OBVIOUS
<1>3. a \o <<c>> \in Seq(S) /\ Len(a \o <<c>>) = Len(a) + 1
  BY <1>2
<1>4. \A k \in 1..Len(a) : (a \o <<c>>)[k] = a[k]
  BY <1>2
<1>5. (a \o <<c>>)[Len(a) + 1] = c
  BY <1>2
<1> DEFINE d == a \o <<c>>
<1> HIDE DEF d
<1>6. t = d \o b
  BY DEF d
<1>7. t \in Seq(S) /\ Len(t) = Len(d) + n /\ \A k \in 1..Len(d) + n : t[k] = IF k <= Len(d) THEN d[k] ELSE b[k - Len(d)]
  BY <1>1, <1>3, <1>6 DEF d
<1> HIDE DEF t
<1>8. Len(a) \in Nat /\ Len(d) = Len(a) + 1 /\ d[Len(a) + 1] = c /\ \A k \in 1..Len(a) : d[k] = a[k]
  BY <1>3, <1>4, <1>5 DEF d
<1>9. ASSUME NEW k \in 1..n PROVE t[Len(a) + 1 + k] = b[k]
  <2>1. Len(d) + k \in 1..Len(d) + n /\ ~(Len(d) + k <= Len(d)) /\ (Len(d) + k) - Len(d) = k
    BY <1>8
  <2> QED
    BY <1>7, <1>8, <2>1
<1>10. DOMAIN t = 1..(Len(a) + 1 + n) /\ Len(t) = Len(a) + 1 + n
  BY <1>7, <1>8
<1>11. t[Len(a) + 1] = c /\ \A k \in 1..Len(a) : t[k] = a[k]
  BY <1>7, <1>8
<1> QED
  BY <1>7, <1>9, <1>10, <1>11 DEF t

Pieces == [name: Names, image: Images, of: Images \cup {NoImage}]

\* What is in the channel is what the goroutines that are done have sent.
LEMMA SentStep ==
  ASSUME IInv, [Next]_vars
  PROVE  SentInv'
<1> SUFFICES ASSUME at' = "expand" PROVE SentInv'
  BY DEF SentInv
<1>1. ASSUME BeginExpand PROVE SentInv'
  <2>1. arrived' = << >> /\ components' = components /\ \A i \in DOMAIN components : worker'[i].pc = "new"
    BY <1>1 DEF BeginExpand, IInv, SnapTypes
  <2> QED
    BY <2>1 DEF SentInv
<1>2. ASSUME UNCHANGED <<at, components, worker, got, arrived>> PROVE SentInv'
  BY <1>2 DEF IInv, SentInv, SentBy, Expanded, Parts, Image, ArchComponent
<1>3. ASSUME NEW i \in DOMAIN worker, Goroutine(i) PROVE SentInv'
  <2>1. /\ at = "expand" /\ i \in DOMAIN components /\ components' = components
        /\ \A j \in DOMAIN components : j # i => worker'[j] = worker[j] /\ got'[j] = got[j]
    BY <1>3, GoroutineStep
  <2>a. ASSUME NEW j \in DOMAIN components, got'[j] = got[j]
        PROVE  /\ Expanded(j)' = Expanded(j) /\ Parts(j)' = Parts(j)
               /\ \A c : SentBy(c, j)' = SentBy(c, j)
    <3>1. Expanded(j)' = Expanded(j) /\ Parts(j)' = Parts(j)
      BY <2>1, <2>a DEF Expanded, Parts, Image
    <3> QED
      BY <2>1, <3>1 DEF SentBy, ArchComponent
  <2>c. /\ arrived \in Seq(Pieces)
        /\ \A k \in DOMAIN arrived : \E j \in DOMAIN components : worker[j].pc = "done" /\ SentBy(arrived[k], j)
        /\ \A j \in DOMAIN components : worker[j].pc = "done" =>
             /\ \E k \in DOMAIN arrived : arrived[k] = components[j]
             /\ Expanded(j) => \A m \in DOMAIN Parts(j) :
                  \E k \in DOMAIN arrived : arrived[k] = ArchComponent(components[j], Parts(j)[m])
        /\ \A k, l \in DOMAIN arrived :
             arrived[k].of = NoImage /\ arrived[l].of = NoImage /\ arrived[k].image = arrived[l].image => k = l
    BY <2>1 DEF IInv, SentInv, Pieces
  <2>2. CASE arrived' = arrived /\ worker[i].pc # "done" /\ worker'[i].pc # "done"
    <3>1. \A j \in DOMAIN components : worker'[j].pc = "done" <=> worker[j].pc = "done"
      BY <2>1, <2>2
    <3>2. ASSUME NEW j \in DOMAIN components, worker'[j].pc = "done"
          PROVE  /\ Expanded(j)' = Expanded(j) /\ Parts(j)' = Parts(j)
                 /\ \A c : SentBy(c, j)' = SentBy(c, j)
      BY <2>1, <2>2, <2>a, <3>2
    <3>3. (\A k \in DOMAIN arrived : \E j \in DOMAIN components : worker[j].pc = "done" /\ SentBy(arrived[k], j))'
      <4>1. \A k \in DOMAIN arrived : \E j \in DOMAIN components : worker'[j].pc = "done" /\ SentBy(arrived[k], j)
        BY <2>c, <3>1
      <4>2. ASSUME NEW k \in DOMAIN arrived, NEW x, x = arrived[k]
            PROVE  \E j \in DOMAIN components : worker'[j].pc = "done" /\ SentBy(x, j)'
        BY <3>2, <4>1, <4>2
      <4> QED
        BY <2>1, <2>2, <4>2 DEF SentBy, ArchComponent
    <3>4. (\A j \in DOMAIN components : worker[j].pc = "done" =>
             /\ \E k \in DOMAIN arrived : arrived[k] = components[j]
             /\ Expanded(j) => \A m \in DOMAIN Parts(j) :
                  \E k \in DOMAIN arrived : arrived[k] = ArchComponent(components[j], Parts(j)[m]))'
      BY <2>1, <2>2, <2>c, <3>1, <3>2 DEF ArchComponent
    <3> QED
      BY <2>2, <2>c, <3>3, <3>4 DEF SentInv, Pieces
  <2>3. CASE worker[i].pc # "done" /\ Send(i, Sends(i)) /\ worker'[i].pc = "done" /\ got' = got
    <3> DEFINE c == components[i]
               n == Sends(i)
               N == Len(arrived)
               b == [k \in 1..n |-> ArchComponent(c, Parts(i)[k])]
    <3>1. /\ c \in Given /\ c.image \in Images /\ c.of = NoImage /\ c.name \in Names
          /\ Expanded(i) => /\ Parts(i) \in Seq(Images) /\ Len(Parts(i)) \in Nat
                            /\ DOMAIN Parts(i) = 1..Len(Parts(i))
      BY <2>1, ExpandFacts, ExpandedFacts
    <3>a. \A j \in DOMAIN components : /\ Expanded(j)' = Expanded(j) /\ Parts(j)' = Parts(j)
                                      /\ \A x : SentBy(x, j)' = SentBy(x, j)
      BY <2>3, <2>a
    <3>2. n \in Nat /\ (Expanded(i) => n = Len(Parts(i))) /\ (~Expanded(i) => n = 0)
      BY <3>1 DEF Sends
    <3>3. c \in Pieces
      BY <3>1 DEF Pieces, Given
    <3>4. \A k \in 1..n : ArchComponent(c, Parts(i)[k]) \in Pieces
      <4>0. ~Expanded(i) => 1..n = {}
        BY <3>2
      <4>1. \A k \in 1..n : Parts(i)[k] \in Images
        BY <3>1, <3>2, <4>0
      <4> QED
        BY <3>1, <4>1 DEF ArchComponent, Pieces
    <3>5. arrived' = arrived \o <<c>> \o b
      BY <2>3 DEF Send
    <3> HIDE DEF n, c
    <3>6. b \in [1..n -> Pieces] /\ \A k \in 1..n : b[k] = ArchComponent(c, Parts(i)[k])
      BY <3>4
    <3> HIDE DEF b
    <3>7. /\ arrived' \in Seq(Pieces) /\ DOMAIN arrived' = 1..(N + 1 + n) /\ N \in Nat /\ DOMAIN arrived = 1..N
          /\ \A k \in 1..N : arrived'[k] = arrived[k]
          /\ arrived'[N + 1] = c
          /\ \A k \in 1..n : arrived'[N + 1 + k] = ArchComponent(c, Parts(i)[k])
      BY <2>c, <3>2, <3>3, <3>5, <3>6, SendFacts
    <3> HIDE DEF N
    <3>8. \A k \in DOMAIN arrived' : \/ k \in 1..N \/ k = N + 1
                                     \/ \E m \in 1..n : k = N + 1 + m
      <4>1. ASSUME NEW k \in 1..(N + 1 + n), k > N + 1 PROVE \E m \in 1..n : k = N + 1 + m
        <5>1. k - (N + 1) \in 1..n /\ k = N + 1 + (k - (N + 1))
          BY <3>2, <3>7, <4>1
        <5> QED
          BY <5>1
      <4> QED
        BY <3>2, <3>7, <4>1
    <3>9. (\A k \in DOMAIN arrived : \E j \in DOMAIN components : worker[j].pc = "done" /\ SentBy(arrived[k], j))'
      <4>1. ASSUME NEW k \in 1..N
            PROVE  \E j \in DOMAIN components : worker'[j].pc = "done" /\ SentBy(arrived'[k], j)
        BY <2>1, <2>c, <2>3, <3>7
      <4>2. SentBy(arrived'[N + 1], i)
        BY <3>7 DEF SentBy, c
      <4>3. ASSUME NEW m \in 1..n PROVE SentBy(arrived'[N + 1 + m], i)
        <5>0. n # 0 /\ m \in 1..n
          BY <3>2
        <5>1. Expanded(i) /\ m \in DOMAIN Parts(i)
          BY <3>1, <3>2, <5>0
        <5> QED
          BY <3>7, <5>1 DEF SentBy, c
      <4>4. \A k \in DOMAIN arrived' : \E j \in DOMAIN components : worker'[j].pc = "done" /\ SentBy(arrived'[k], j)
        BY <2>1, <2>3, <3>8, <4>1, <4>2, <4>3
      <4>5. ASSUME NEW k \in DOMAIN arrived', NEW x, x = arrived'[k]
            PROVE  \E j \in DOMAIN components : worker'[j].pc = "done" /\ SentBy(x, j)'
        BY <3>a, <4>4, <4>5
      <4> QED
        BY <2>1, <4>5 DEF SentBy, ArchComponent
    <3>10. ASSUME NEW j \in DOMAIN components, worker'[j].pc = "done"
           PROVE  /\ \E k \in DOMAIN arrived' : arrived'[k] = components[j]
                  /\ Expanded(j) => \A m \in DOMAIN Parts(j) :
                       \E k \in DOMAIN arrived' : arrived'[k] = ArchComponent(components[j], Parts(j)[m])
      <4>1. CASE j # i
        <5>1. \A k \in DOMAIN arrived : k \in DOMAIN arrived' /\ arrived'[k] = arrived[k]
          BY <3>2, <3>7
        <5>2. worker[j].pc = "done"
          BY <2>1, <3>10, <4>1
        <5> QED
          BY <2>c, <5>1, <5>2
      <4>2. CASE j = i
        <5>1. N + 1 \in DOMAIN arrived' /\ \A m \in 1..n : N + 1 + m \in DOMAIN arrived'
          BY <3>2, <3>7
        <5> QED
          BY <3>1, <3>2, <3>7, <4>2, <5>1 DEF c
      <4> QED
        BY <4>1, <4>2
    <3>11. ASSUME NEW k \in DOMAIN arrived', NEW l \in DOMAIN arrived', arrived'[k].of = NoImage, arrived'[l].of = NoImage,
                  arrived'[k].image = arrived'[l].image
           PROVE  k = l
      <4>1. ASSUME NEW m \in 1..n PROVE arrived'[N + 1 + m].of # NoImage
        <5>1. arrived'[N + 1 + m] = [name |-> c.name, image |-> Parts(i)[m], of |-> c.image]
          BY <3>7 DEF ArchComponent
        <5>2. arrived'[N + 1 + m].of = c.image
          BY <5>1
        <5> QED
          BY <3>1, <5>2, SnapshotAssumption
      <4>2. k \in 1..(N + 1) /\ l \in 1..(N + 1)
        BY <3>7, <3>8, <3>11, <4>1
      <4>3. ASSUME NEW x \in 1..N, arrived[x].of = NoImage PROVE arrived[x].image # c.image
        <5>1. PICK j \in DOMAIN components : worker[j].pc = "done" /\ SentBy(arrived[x], j)
          BY <2>c, <3>7
        <5>2. components[j].image \in Images
          BY <2>1, ExpandFacts
        <5>3. arrived[x] = components[j]
          <6>1. ASSUME NEW m, arrived[x] = ArchComponent(components[j], m) PROVE FALSE
            <7>1. arrived[x].of = components[j].image
              BY <6>1 DEF ArchComponent
            <7> QED
              BY <4>3, <5>2, <7>1, SnapshotAssumption
          <6> QED
            BY <5>1, <6>1 DEF SentBy
        <5>4. j # i
          BY <2>3, <5>1
        <5> QED
          BY <2>1, <5>3, <5>4 DEF IInv, MergeInv, c
      <4> QED
        BY <2>c, <3>7, <3>11, <4>2, <4>3
    <3>12. (arrived \in Seq([name: Names, image: Images, of: Images \cup {NoImage}]))'
      BY <3>7 DEF Pieces
    <3>13. (\A k, l \in DOMAIN arrived :
             arrived[k].of = NoImage /\ arrived[l].of = NoImage /\ arrived[k].image = arrived[l].image => k = l)'
      BY <3>11
    <3>14. (\A j \in DOMAIN components : worker[j].pc = "done" =>
             /\ \E k \in DOMAIN arrived : arrived[k] = components[j]
             /\ Expanded(j) => \A m \in DOMAIN Parts(j) :
                  \E k \in DOMAIN arrived : arrived[k] = ArchComponent(components[j], Parts(j)[m]))'
      BY <2>1, <3>a, <3>10 DEF ArchComponent
    <3> QED
      BY <3>9, <3>12, <3>13, <3>14 DEF SentInv
  <2>4. CASE EndWrite(i) /\ worker'[i] = AfterWrite(i) /\ arrived' = arrived
    <3>1. worker[i].pc # "done" /\ worker'[i].pc # "done"
      <4>1. GoroutineOK(i)
        BY <2>1, ExpandFacts
      <4>2. worker[i].pc \in Maps
        BY <2>4, <4>1 DEF EndWrite, GoroutineOK
      <4> QED
        BY <2>4, <4>2 DEF AfterWrite, Maps
    <3> QED
      BY <2>2, <2>4, <3>1
  <2>5. CASE BeginWrite(i) /\ UNCHANGED <<arrived, worker>>
    BY <2>1, <2>2, <2>5 DEF BeginWrite
  <2>6. CASE \/ worker[i].pc = "new" /\ worker'[i] = [pc |-> "head", child |-> worker[i].child] /\ arrived' = arrived
             \/ worker[i].pc = "head" /\ worker'[i] = [pc |-> "index", child |-> worker[i].child] /\ arrived' = arrived
             \/ worker[i].pc = "index" /\ worker'[i] = [pc |-> "aliases", child |-> 0] /\ arrived' = arrived
    BY <2>2, <2>6
  <2>7. CASE /\ worker[i].pc \in {"head", "index", "send"} /\ worker'[i] = [pc |-> "done", child |-> 0]
             /\ Send(i, Sends(i)) /\ got' = got
    BY <2>3, <2>7
  <2> QED
    BY <1>3, <2>4, <2>5, <2>6, <2>7, GoroutineStep
<1> QED
  BY <1>1, <1>2, <1>3, ExpandCases DEF vars, snapVars

-----------------------------------------------------------------------------
(* Steps of DetermineInputSpec: the maps of ExpansionInfo, with one goroutine at a time *)

\* Nothing changes about the indexes that are known.
LEMMA AliasesKept ==
  ASSUME components' = components, exp'.aliases = exp.aliases, Aliased' = Aliased, AliasesOK,
         \A i \in DOMAIN components : Expanded(i) => Index(i)' = Index(i)
  PROVE  AliasesOK'
<1>1. Still' = Still /\ \A i : Image(i)' = Image(i)
  BY DEF Still, Image
<1>2. \A i \in Aliased : Index(i)' = Index(i)
  BY DEF Aliased
<1>3. {RefName[Image(i)] : i \in Aliased}' = {RefName[Image(i)] : i \in Aliased}
  BY <1>1
<1> QED
  BY <1>1, <1>2, <1>3 DEF AliasesOK

\* The image of an index stays one.
LEMMA PartOfKept ==
  ASSUME components' = components,
         \A i \in DOMAIN components : Expanded(i) => Expanded(i)' /\ Parts(i)' = Parts(i) /\ Index(i)' = Index(i),
         NEW c, NEW x, PartOf(c, x)
  PROVE  PartOf(c, x)'
<1>1. PICK i \in DOMAIN components : Expanded(i) /\ Index(i) = x /\ \E m \in DOMAIN Parts(i) : c = Parts(i)[m]
  BY DEF PartOf
<1>2. Expanded(i)' /\ Index(i)' = x /\ \E m \in DOMAIN Parts(i)' : c = Parts(i)'[m]
  BY <1>1
<1> QED
  BY <1>2 DEF PartOf

\* Nothing changes about the images of the indexes.
LEMMA ChildrenKept ==
  ASSUME components' = components, exp'.children = exp.children, ChildrenOK,
         \A i \in DOMAIN components : InChildren(i)' = InChildren(i),
         \A i \in DOMAIN components : Expanded(i) => Expanded(i)' /\ Parts(i)' = Parts(i) /\ Index(i)' = Index(i)
  PROVE  ChildrenOK'
<1>1. \A c, x : PartOf(c, x) => PartOf(c, x)'
  BY PartOfKept
<1>2. ASSUME NEW i \in DOMAIN components, NEW m \in 1..InChildren(i)
      PROVE  Parts(i)' = Parts(i) /\ Index(i)' = Index(i)
  <2>1. Expanded(i)
    BY <1>2 DEF InChildren
  <2> QED
    BY <2>1
<1>3. (\A x \in DOMAIN exp.children :
         exp.children[x] \in Seq(Images) /\ \A k \in DOMAIN exp.children[x] : PartOf(exp.children[x][k], x))'
  <2>1. \A x \in DOMAIN exp.children :
         exp.children[x] \in Seq(Images) /\ \A k \in DOMAIN exp.children[x] : PartOf(exp.children[x][k], x)'
    BY <1>1 DEF ChildrenOK
  <2> QED
    BY <2>1 DEF PartOf
<1>4. (\A i \in DOMAIN components : \A m \in 1..InChildren(i) :
         /\ Index(i) \in DOMAIN exp.children
         /\ \E k \in DOMAIN exp.children[Index(i)] : exp.children[Index(i)][k] = Parts(i)[m])'
  BY <1>2 DEF ChildrenOK
<1> QED
  BY <1>3, <1>4 DEF ChildrenOK

\* Nothing changes about the indexes of the images.
LEMMA ParentsKept ==
  ASSUME components' = components, exp'.parents = exp.parents, ParentsOK,
         \A i \in DOMAIN components : InParents(i)' = InParents(i),
         \A i \in DOMAIN components : Expanded(i) => Expanded(i)' /\ Parts(i)' = Parts(i) /\ Index(i)' = Index(i)
  PROVE  ParentsOK'
<1>1. \A c, x : PartOf(c, x) => PartOf(c, x)'
  BY PartOfKept
<1>2. ASSUME NEW i \in DOMAIN components, NEW m \in 1..InParents(i) PROVE Parts(i)' = Parts(i)
  <2>1. Expanded(i)
    BY <1>2 DEF InParents
  <2> QED
    BY <2>1
<1>3. (\A c \in DOMAIN exp.parents : PartOf(c, exp.parents[c]))'
  <2>1. \A c \in DOMAIN exp.parents : PartOf(c, exp.parents[c])'
    <3>1. ASSUME NEW c \in DOMAIN exp.parents, NEW x, x = exp.parents[c] PROVE PartOf(c, x)'
      BY <1>1, <3>1 DEF ParentsOK
    <3> QED
      BY <3>1 DEF PartOf
  <2> QED
    BY <2>1 DEF PartOf
<1>4. (\A i \in DOMAIN components : \A m \in 1..InParents(i) : Parts(i)[m] \in DOMAIN exp.parents)'
  BY <1>2 DEF ParentsOK
<1> QED
  BY <1>3, <1>4 DEF ParentsOK

\* What has come into the maps changes for the goroutine that makes the step.
LEMMA OthersKept ==
  ASSUME components' = components, NEW i,
         \A j \in DOMAIN components : j # i => worker'[j] = worker[j] /\ got'[j] = got[j]
  PROVE  /\ \A j \in DOMAIN components : j # i =>
              /\ InChildren(j)' = InChildren(j) /\ InParents(j)' = InParents(j)
              /\ j \in Aliased' <=> j \in Aliased
         /\ Aliased' \subseteq Aliased \cup {i} /\ Aliased \subseteq Aliased' \cup {i}
<1>1. \A j \in DOMAIN components : j # i => Parts(j)' = Parts(j) /\ Expanded(j)' = Expanded(j)
  BY DEF Parts, Expanded, Image
<1>2. ASSUME NEW j \in DOMAIN components, j # i
      PROVE  /\ InChildren(j)' = InChildren(j) /\ InParents(j)' = InParents(j)
             /\ j \in Aliased' <=> j \in Aliased
  BY <1>1, <1>2 DEF InChildren, InParents, Aliased
<1>3. Aliased \subseteq DOMAIN components /\ Aliased' \subseteq DOMAIN components
  BY DEF Aliased
<1> QED
  BY <1>2, <1>3

\* One goroutine at a time.
LEMMA OneActive ==
  ASSUME IInv, limit = 1, NEW i \in DOMAIN worker, Goroutine(i)
  PROVE  /\ (\A j, k \in Active : j = k)'
         /\ \A j \in DOMAIN components : j # i => writing[j].map = "none"
<1>1. /\ at = "expand" /\ i \in DOMAIN components /\ components' = components
      /\ DOMAIN worker' = DOMAIN components /\ DOMAIN worker = DOMAIN components
      /\ \A j \in DOMAIN components : j # i => worker'[j] = worker[j]
  BY GoroutineStep, ExpandFacts
<1>2. \A j, k \in Active : j = k
  BY <1>1 DEF IInv, MapInv
<1>3. \A j \in DOMAIN components : GoroutineOK(j)
  BY <1>1, ExpandFacts
<1>4. \A j \in DOMAIN components : writing[j].map # "none" => j \in Active
  BY <1>1, <1>3 DEF GoroutineOK, Maps, Active
<1>5. CASE i \in Active
  <2>1. Active' \subseteq Active
    BY <1>1, <1>5 DEF Active
  <2> QED
    BY <1>2, <1>4, <1>5, <2>1
<1>6. CASE i \notin Active
  <2>1. worker[i].pc \in {"new", "done"}
    BY <1>6 DEF Active
  <2>2. writing[i].map = "none"
    BY <1>1, <1>4, <1>6
  <2>3. Cardinality(Active) < limit
    <3>1. ~BeginWrite(i) /\ ~EndWrite(i)
      BY <2>1, <2>2 DEF BeginWrite, EndWrite
    <3>2. Go(i)
      BY <2>1, <3>1 DEF Goroutine, NotIndex, IsIndex, IndexGone, IndexRead, SendExpanded
    <3> QED
      BY <3>2 DEF Go
  <2>4. Active = {}
    <3>1. DOMAIN worker = 1..Len(components) /\ Len(components) \in Nat
      BY <1>1, ExpandFacts
    <3>2. IsFiniteSet(Active)
      <4>1. IsFiniteSet(1..Len(components))
        BY <3>1, FS_Interval
      <4>2. Active \subseteq 1..Len(components)
        BY <3>1 DEF Active
      <4> QED
        BY <4>1, <4>2, FS_Subset
    <3>3. Cardinality(Active) \in Nat
      BY <3>2, FS_CardinalityType
    <3> QED
      BY <2>3, <3>2, <3>3, FS_EmptySet
  <2>5. Active' \subseteq {i}
    BY <1>1, <2>4 DEF Active
  <2> QED
    BY <1>1, <1>4, <2>4, <2>5
<1> QED
  BY <1>5, <1>6

\* A write that nobody disturbs.
LEMMA WriteFacts ==
  ASSUME IInv, limit = 1, NEW i \in DOMAIN components, EndWrite(i), worker'[i] = AfterWrite(i)
  PROVE  /\ Expanded(i) /\ writing[i].map = worker[i].pc
         /\ exp' = [aliases |-> exp'.aliases, children |-> exp'.children, parents |-> exp'.parents]
         /\ \/ /\ worker[i].pc = "aliases"
               /\ exp'.aliases = Put(exp.aliases, RefName[Image(i)], Index(i))
               /\ exp'.children = exp.children /\ exp'.parents = exp.parents
               /\ IF Len(Parts(i)) > 0 THEN worker'[i] = [pc |-> "children", child |-> 1]
                  ELSE worker'[i] = [pc |-> "send", child |-> 0]
            \/ /\ worker[i].pc = "children" /\ worker[i].child \in 1..Len(Parts(i))
               /\ exp'.children = Put(exp.children, Index(i),
                    Append(IF Index(i) \in DOMAIN exp.children THEN exp.children[Index(i)] ELSE << >>,
                           Parts(i)[worker[i].child]))
               /\ exp'.aliases = exp.aliases /\ exp'.parents = exp.parents
               /\ worker'[i] = [pc |-> "parents", child |-> worker[i].child]
            \/ /\ worker[i].pc = "parents" /\ worker[i].child \in 1..Len(Parts(i))
               /\ exp'.parents = Put(exp.parents, Parts(i)[worker[i].child], Index(i))
               /\ exp'.aliases = exp.aliases /\ exp'.children = exp.children
               /\ IF worker[i].child < Len(Parts(i))
                  THEN worker'[i] = [pc |-> "children", child |-> worker[i].child + 1]
                  ELSE worker'[i] = [pc |-> "send", child |-> 0]
<1>1. at = "expand" /\ writing[i].map # "none"
  BY DEF EndWrite
<1>a. GoroutineOK(i)
  BY <1>1, ExpandFacts
<1>b. Expanded(i)
  BY <1>1, <1>a DEF GoroutineOK
<1>2. GoroutineOK(i) /\ Len(Parts(i)) \in Nat
  BY <1>1, <1>a, <1>b, ExpandedFacts
<1>3. /\ Expanded(i) /\ writing[i].map = worker[i].pc /\ worker[i].pc \in Maps
      /\ worker[i].pc \in {"children", "parents"} => worker[i].child \in 1..Len(Parts(i))
  BY <1>1, <1>2 DEF GoroutineOK
<1>4. /\ writing[i].read = exp[worker[i].pc]
      /\ exp = [aliases |-> exp.aliases, children |-> exp.children, parents |-> exp.parents]
  BY <1>1, <1>3 DEF IInv, MapInv
<1>5. exp' = [exp EXCEPT ![worker[i].pc] = Update(i, exp[worker[i].pc])]
  BY <1>3, <1>4 DEF EndWrite
<1> DEFINE u == Update(i, exp[worker[i].pc])
<1>6. CASE worker[i].pc = "aliases"
  <2>1. u = Put(exp.aliases, RefName[Image(i)], Index(i))
    BY <1>6 DEF Update
  <2>2. IF Len(Parts(i)) > 0 THEN worker'[i] = [pc |-> "children", child |-> 1]
        ELSE worker'[i] = [pc |-> "send", child |-> 0]
    BY <1>2, <1>6 DEF AfterWrite
  <2> HIDE DEF u
  <2>3. exp' = [aliases |-> u, children |-> exp.children, parents |-> exp.parents]
    BY <1>4, <1>5, <1>6 DEF u
  <2> QED
    BY <1>3, <1>6, <2>1, <2>2, <2>3
<1>7. CASE worker[i].pc = "children"
  <2>1. u = Put(exp.children, Index(i),
                    Append(IF Index(i) \in DOMAIN exp.children THEN exp.children[Index(i)] ELSE << >>,
                           Parts(i)[worker[i].child]))
    BY <1>7 DEF Update, Child
  <2>2. worker'[i] = [pc |-> "parents", child |-> worker[i].child]
    BY <1>7 DEF AfterWrite
  <2> HIDE DEF u
  <2>3. exp' = [aliases |-> exp.aliases, children |-> u, parents |-> exp.parents]
    BY <1>4, <1>5, <1>7 DEF u
  <2> QED
    BY <1>3, <1>7, <2>1, <2>2, <2>3
<1>8. CASE worker[i].pc = "parents"
  <2>1. u = Put(exp.parents, Parts(i)[worker[i].child], Index(i))
    BY <1>8 DEF Update, Child
  <2>2. IF worker[i].child < Len(Parts(i))
        THEN worker'[i] = [pc |-> "children", child |-> worker[i].child + 1]
        ELSE worker'[i] = [pc |-> "send", child |-> 0]
    BY <1>2, <1>3, <1>8 DEF AfterWrite
  <2> HIDE DEF u
  <2>3. exp' = [aliases |-> exp.aliases, children |-> exp.children, parents |-> u]
    BY <1>4, <1>5, <1>8 DEF u
  <2> QED
    BY <1>3, <1>8, <2>1, <2>2, <2>3
<1> QED
  BY <1>3, <1>6, <1>7, <1>8 DEF Maps

\* A write keeps the maps what the goroutines have come to.
LEMMA WriteStep ==
  ASSUME IInv, limit = 1, NEW i \in DOMAIN worker, Goroutine(i), EndWrite(i), worker'[i] = AfterWrite(i)
  PROVE  (AliasesOK /\ ChildrenOK /\ ParentsOK)'
<1>1. /\ at = "expand" /\ i \in DOMAIN components /\ components' = components
      /\ \A j \in DOMAIN components : j # i => worker'[j] = worker[j] /\ got'[j] = got[j]
  BY GoroutineStep
<1>a. got' = got
  BY DEF EndWrite
<1>2. /\ \A j \in DOMAIN components : j # i =>
           /\ InChildren(j)' = InChildren(j) /\ InParents(j)' = InParents(j)
           /\ j \in Aliased' <=> j \in Aliased
      /\ Aliased' \subseteq Aliased \cup {i} /\ Aliased \subseteq Aliased' \cup {i}
      /\ \A j : Parts(j)' = Parts(j) /\ Index(j)' = Index(j) /\ Expanded(j)' = Expanded(j) /\ Image(j)' = Image(j)
  <2>1. \A j : Parts(j)' = Parts(j) /\ Index(j)' = Index(j) /\ Expanded(j)' = Expanded(j) /\ Image(j)' = Image(j)
    BY <1>1, <1>a DEF Parts, Index, Expanded, Image
  <2> QED
    BY <1>1, <2>1, OthersKept
<1>3. Expanded(i) /\ AliasesOK /\ ChildrenOK /\ ParentsOK
  BY <1>1, WriteFacts DEF IInv, MapInv
<1>4. /\ Parts(i) \in Seq(Images) /\ Len(Parts(i)) \in Nat /\ DOMAIN Parts(i) = 1..Len(Parts(i))
      /\ components[i].image \in Images
  BY <1>1, <1>3, ExpandFacts, ExpandedFacts
<1> DEFINE k == worker[i].child
           n == Len(Parts(i))
<1>5. CASE /\ worker[i].pc = "aliases"
           /\ exp'.aliases = Put(exp.aliases, RefName[Image(i)], Index(i))
           /\ exp'.children = exp.children /\ exp'.parents = exp.parents
           /\ IF n > 0 THEN worker'[i] = [pc |-> "children", child |-> 1]
              ELSE worker'[i] = [pc |-> "send", child |-> 0]
  <2>1. (worker'[i].pc = "children" /\ worker'[i].child = 1) \/ (worker'[i].pc = "send" /\ n = 0)
    BY <1>4, <1>5
  <2>2. InChildren(i)' = InChildren(i) /\ InParents(i)' = InParents(i)
    BY <1>2, <1>3, <1>5, <2>1 DEF InChildren, InParents
  <2>3. ChildrenOK' /\ ParentsOK'
    BY <1>1, <1>2, <1>3, <1>5, <2>2, ChildrenKept, ParentsKept
  <2>4. i \in Aliased'
    BY <1>1, <1>2, <1>3, <2>1 DEF Aliased
  <2>5. Aliased' = Aliased \cup {i}
    BY <1>2, <2>4
  <2>6. {RefName[Image(j)] : j \in Aliased}' = {RefName[Image(j)] : j \in Aliased} \cup {RefName[Image(i)]}
    BY <1>2, <2>5
  <2>7. DOMAIN exp'.aliases = DOMAIN exp.aliases \cup {RefName[Image(i)]}
    BY <1>5 DEF Put
  <2>8. ASSUME Still, NEW j \in Aliased \cup {i} PROVE exp'.aliases[RefName[Image(j)]] = Index(j)
    <3>1. j \in DOMAIN components /\ Expanded(j)
      BY <1>1, <1>3 DEF Aliased
    <3>2. CASE RefName[Image(j)] = RefName[Image(i)]
      <4>1. /\ Image(i) \in Images /\ Image(j) \in Images
            /\ got[i].head \in Pull[Image(i)] /\ got[j].head \in Pull[Image(j)]
        BY <1>1, <1>3, <3>1, ExpandedFacts
      <4>2. Pull[Image(i)] = Pull[Image(j)] /\ Pinned[Image(i)] = Pinned[Image(j)]
        BY <3>2, <4>1, RefNameAssumption
      <4>3. PICK d \in Digests : Pull[Image(i)] = {d}
        BY <1>1, <2>8 DEF Still
      <4>4. Index(i) = Index(j)
        BY <4>1, <4>2, <4>3 DEF Index
      <4> QED
        BY <1>5, <3>2, <4>4 DEF Put
    <3>3. CASE RefName[Image(j)] # RefName[Image(i)]
      <4>1. j \in Aliased
        BY <3>3
      <4>2. exp.aliases[RefName[Image(j)]] = Index(j) /\ RefName[Image(j)] \in DOMAIN exp.aliases
        BY <1>3, <2>8, <4>1 DEF AliasesOK
      <4> QED
        BY <1>5, <3>3, <4>2 DEF Put
    <3> QED
      BY <3>2, <3>3
  <2>10. Still' = Still
    BY <1>1, <1>2 DEF Still
  <2>9. AliasesOK'
    BY <1>2, <1>3, <2>5, <2>6, <2>7, <2>8, <2>10 DEF AliasesOK
  <2> QED
    BY <2>3, <2>9
<1>6. CASE /\ worker[i].pc = "children" /\ k \in 1..n
           /\ exp'.children = Put(exp.children, Index(i),
                Append(IF Index(i) \in DOMAIN exp.children THEN exp.children[Index(i)] ELSE << >>, Parts(i)[k]))
           /\ exp'.aliases = exp.aliases /\ exp'.parents = exp.parents
           /\ worker'[i] = [pc |-> "parents", child |-> k]
  <2> DEFINE m == exp.children
             x == Index(i)
             old == IF x \in DOMAIN m THEN m[x] ELSE << >>
             new == Append(old, Parts(i)[k])
  <2>1. worker'[i].pc = "parents" /\ worker'[i].child = k
    BY <1>6
  <2>2. InChildren(i)' = k /\ InChildren(i) = k - 1 /\ InParents(i)' = InParents(i)
    BY <1>2, <1>3, <1>6, <2>1 DEF InChildren, InParents
  <2>3. Aliased' = Aliased
    <3>1. i \in Aliased' /\ i \in Aliased
      BY <1>1, <1>2, <1>3, <1>6, <2>1 DEF Aliased
    <3> QED
      BY <1>2, <3>1
  <2>4. AliasesOK' /\ ParentsOK'
    BY <1>1, <1>2, <1>3, <1>6, <2>2, <2>3, AliasesKept, ParentsKept
  <2>5. \A c, y : PartOf(c, y)' = PartOf(c, y)
    BY <1>1, <1>2 DEF PartOf
  <2>6. old \in Seq(Images) /\ Parts(i)[k] \in Images
    BY <1>3, <1>4, <1>6 DEF ChildrenOK
  <2>7. PartOf(Parts(i)[k], x)
    BY <1>1, <1>3, <1>4, <1>6 DEF PartOf
  <2>8. /\ new \in Seq(Images) /\ new[Len(old) + 1] = Parts(i)[k]
        /\ Len(old) \in Nat /\ DOMAIN old = 1..Len(old) /\ DOMAIN new = DOMAIN old \cup {Len(old) + 1}
        /\ \A l \in DOMAIN old : new[l] = old[l]
    <3> HIDE DEF old
    <3> QED
      BY <2>6
  <2>9. exp'.children = Put(m, x, new)
    BY <1>6
  <2>10. \A l \in DOMAIN old : PartOf(old[l], x)
    BY <1>3 DEF ChildrenOK
  <2>11. x \in DOMAIN m => old = m[x]
    OBVIOUS
  <2> HIDE DEF new, old
  <2>12. DOMAIN exp'.children = DOMAIN m \cup {x} /\ exp'.children[x] = new
         /\ \A y \in DOMAIN m : y # x => exp'.children[y] = m[y]
    BY <2>9 DEF Put
  <2>13. ASSUME NEW y \in DOMAIN exp'.children
         PROVE  /\ exp'.children[y] \in Seq(Images)
                /\ \A l \in DOMAIN exp'.children[y] : PartOf(exp'.children[y][l], y)
    <3>1. CASE y = x
      BY <2>7, <2>8, <2>10, <2>12, <3>1
    <3>2. CASE y # x
      BY <1>3, <2>12, <3>2 DEF ChildrenOK
    <3> QED
      BY <3>1, <3>2
  <2>14. ASSUME NEW j \in DOMAIN components, NEW l \in 1..InChildren(j)
         PROVE  /\ Index(j) \in DOMAIN exp'.children
                /\ \E a \in DOMAIN exp'.children[Index(j)] : exp'.children[Index(j)][a] = Parts(j)[l]
    <3>1. Index(j) \in DOMAIN m /\ \E a \in DOMAIN m[Index(j)] : m[Index(j)][a] = Parts(j)[l]
      BY <1>3 DEF ChildrenOK
    <3>2. PICK a \in DOMAIN m[Index(j)] : m[Index(j)][a] = Parts(j)[l]
      BY <3>1
    <3>3. CASE Index(j) = x
      <4>1. a \in DOMAIN new /\ new[a] = Parts(j)[l]
        BY <2>8, <2>11, <3>1, <3>2, <3>3
      <4> QED
        BY <2>12, <3>3, <4>1
    <3>4. CASE Index(j) # x
      BY <2>12, <3>1, <3>2, <3>4
    <3> QED
      BY <3>3, <3>4
  <2>15. ASSUME NEW j \in DOMAIN components, NEW l \in 1..InChildren(j)'
         PROVE  /\ Index(j) \in DOMAIN exp'.children
                /\ \E a \in DOMAIN exp'.children[Index(j)] : exp'.children[Index(j)][a] = Parts(j)[l]
    <3>1. CASE l \in 1..InChildren(j)
      BY <2>14, <3>1
    <3>2. CASE l \notin 1..InChildren(j)
      <4>1. j = i /\ l = k
        BY <1>2, <1>6, <2>2, <3>2
      <4> QED
        BY <2>8, <2>12, <4>1
    <3> QED
      BY <3>1, <3>2
  <2>16. ChildrenOK'
    <3>1. (\A y \in DOMAIN exp.children : exp.children[y] \in Seq(Images)
             /\ \A l \in DOMAIN exp.children[y] : PartOf(exp.children[y][l], y))'
      BY <1>1, <1>2, <2>13 DEF PartOf
    <3>2. (\A j \in DOMAIN components : \A l \in 1..InChildren(j) :
             /\ Index(j) \in DOMAIN exp.children
             /\ \E a \in DOMAIN exp.children[Index(j)] : exp.children[Index(j)][a] = Parts(j)[l])'
      BY <1>1, <1>2, <2>15
    <3> QED
      BY <3>1, <3>2 DEF ChildrenOK
  <2> QED
    BY <2>4, <2>16
<1>7. CASE /\ worker[i].pc = "parents" /\ k \in 1..n
           /\ exp'.parents = Put(exp.parents, Parts(i)[k], Index(i))
           /\ exp'.aliases = exp.aliases /\ exp'.children = exp.children
           /\ IF k < n THEN worker'[i] = [pc |-> "children", child |-> k + 1]
              ELSE worker'[i] = [pc |-> "send", child |-> 0]
  <2>1. (worker'[i].pc = "children" /\ worker'[i].child = k + 1) \/ (worker'[i].pc = "send" /\ n = k)
    BY <1>4, <1>7
  <2>2. InChildren(i)' = InChildren(i) /\ InParents(i) = k - 1 /\ InParents(i)' = k
    BY <1>2, <1>3, <1>7, <2>1 DEF InChildren, InParents
  <2>3. Aliased' = Aliased
    <3>1. i \in Aliased' /\ i \in Aliased
      BY <1>1, <1>2, <1>3, <1>7, <2>1 DEF Aliased
    <3> QED
      BY <1>2, <3>1
  <2>4. AliasesOK' /\ ChildrenOK'
    BY <1>1, <1>2, <1>3, <1>7, <2>2, <2>3, AliasesKept, ChildrenKept
  <2>5. PartOf(Parts(i)[k], Index(i))
    BY <1>1, <1>3, <1>4, <1>7 DEF PartOf
  <2>6. /\ DOMAIN exp'.parents = DOMAIN exp.parents \cup {Parts(i)[k]}
        /\ \A c \in DOMAIN exp'.parents : PartOf(c, exp'.parents[c])
    BY <1>3, <1>7, <2>5 DEF Put, ParentsOK
  <2>7. ASSUME NEW j \in DOMAIN components, NEW l \in 1..InParents(j)' PROVE Parts(j)[l] \in DOMAIN exp'.parents
    <3>1. CASE l \in 1..InParents(j)
      BY <1>3, <2>6, <3>1 DEF ParentsOK
    <3>2. CASE l \notin 1..InParents(j)
      <4>1. j = i /\ l = k
        BY <1>2, <1>7, <2>2, <3>2
      <4> QED
        BY <2>6, <4>1
    <3> QED
      BY <3>1, <3>2
  <2>8. ParentsOK'
    <3>1. (\A c \in DOMAIN exp.parents : PartOf(c, exp.parents[c]))'
      BY <1>1, <1>2, <2>6 DEF PartOf
    <3>2. (\A j \in DOMAIN components : \A l \in 1..InParents(j) : Parts(j)[l] \in DOMAIN exp.parents)'
      BY <1>1, <1>2, <2>7
    <3> QED
      BY <3>1, <3>2 DEF ParentsOK
  <2> QED
    BY <2>4, <2>8
<1> QED
  BY <1>1, <1>5, <1>6, <1>7, WriteFacts

\* With one goroutine at a time the maps are complete so far and the process lives.
LEMMA MapStep ==
  ASSUME IInv, [Next]_vars
  PROVE  MapInv'
<1>1. limit' = limit
  BY Phases, GoroutineStep DEF Determine, DetermineInputSpec, SkipSource, MergeComponent, MergeReturns, BadInput,
     BeginExpand, Collect, inputVars, vars, snapVars
<1> SUFFICES ASSUME limit = 1 PROVE (~crashed)' /\ (at' = "expand" => MapInv')
  BY <1>1 DEF MapInv
<1>2. ~crashed
  BY DEF IInv, MapInv
<1>3. ASSUME NEW i \in DOMAIN worker, Goroutine(i) PROVE (~crashed)' /\ MapInv'
  <2>1. /\ at = "expand" /\ i \in DOMAIN components /\ components' = components
        /\ \A j \in DOMAIN components : j # i => worker'[j] = worker[j] /\ writing'[j] = writing[j] /\ got'[j] = got[j]
    BY <1>3, GoroutineStep
  <2>2. /\ \A j \in DOMAIN components : j # i =>
             /\ InChildren(j)' = InChildren(j) /\ InParents(j)' = InParents(j)
             /\ j \in Aliased' <=> j \in Aliased
        /\ Aliased' \subseteq Aliased \cup {i} /\ Aliased \subseteq Aliased' \cup {i}
        /\ \A j \in DOMAIN components : Expanded(j) => Expanded(j)' /\ Parts(j)' = Parts(j) /\ Index(j)' = Index(j)
    BY <1>3, <2>1, OthersKept, GotKept
  <2>3. (\A j, k \in Active : j = k)' /\ \A j \in DOMAIN components : j # i => writing[j].map = "none"
    BY <1>3, OneActive
  <2>4. /\ AliasesOK /\ ChildrenOK /\ ParentsOK
        /\ exp = [aliases |-> exp.aliases, children |-> exp.children, parents |-> exp.parents]
        /\ \A j \in DOMAIN components : writing[j].map # "none" => writing[j].read = exp[writing[j].map]
    BY <2>1 DEF IInv, MapInv
  <2>5. GoroutineOK(i)
    BY <2>1, ExpandFacts
  <2>6. CASE EndWrite(i) /\ worker'[i] = AfterWrite(i) /\ UNCHANGED crashed
    <3>1. AliasesOK' /\ ChildrenOK' /\ ParentsOK'
      BY <1>3, <2>6, WriteStep
    <3>2. (exp = [aliases |-> exp.aliases, children |-> exp.children, parents |-> exp.parents])'
      BY <2>1, <2>6, WriteFacts
    <3>3. \A j \in DOMAIN components : writing'[j].map = "none"
      <4>1. writing'[i] = NotWriting
        BY <2>1, <2>6, ExpandFacts DEF EndWrite
      <4> QED
        BY <2>1, <2>3, <4>1 DEF NotWriting
    <3> QED
      BY <1>2, <2>1, <2>3, <2>6, <3>1, <3>2, <3>3 DEF MapInv
  <2>7. ASSUME exp' = exp, crashed' = FALSE, InChildren(i)' = InChildren(i), InParents(i)' = InParents(i),
               i \in Aliased' <=> i \in Aliased,
               writing'[i].map # "none" => writing'[i].read = exp[writing'[i].map]
        PROVE  (~crashed)' /\ MapInv'
    <3>1. Aliased' = Aliased
      BY <2>2, <2>7
    <3>2. AliasesOK' /\ ChildrenOK' /\ ParentsOK'
      BY <2>1, <2>2, <2>4, <2>7, <3>1, AliasesKept, ChildrenKept, ParentsKept
    <3>3. \A j \in DOMAIN components : writing'[j].map # "none" => writing'[j].read = exp[writing'[j].map]
      BY <2>1, <2>4, <2>7
    <3> QED
      BY <2>1, <2>3, <2>4, <2>7, <3>2, <3>3 DEF MapInv
  <2>8. CASE BeginWrite(i) /\ UNCHANGED <<exp, worker, got>>
    <3>1. InChildren(i)' = InChildren(i) /\ InParents(i)' = InParents(i) /\ (i \in Aliased' <=> i \in Aliased)
      <4>1. Expanded(i)' = Expanded(i) /\ Parts(i)' = Parts(i)
        BY <2>1, <2>8 DEF Expanded, Parts, Image
      <4> QED
        BY <2>1, <2>8, <4>1 DEF InChildren, InParents, Aliased
    <3>2. writing'[i] = [map |-> worker[i].pc, read |-> exp[worker[i].pc]]
      BY <2>1, <2>8, ExpandFacts DEF BeginWrite
    <3>3. DOMAIN writing = DOMAIN components
      BY <2>1, ExpandFacts
    <3>4. \A j \in DOMAIN writing : writing[j].map # worker[i].pc
      BY <2>3, <2>8, <3>3 DEF BeginWrite
    <3>5. crashed' = FALSE
      BY <2>8, <3>4 DEF BeginWrite
    <3>6. writing'[i].read = exp[writing'[i].map]
      BY <3>2
    <3> QED
      BY <2>7, <2>8, <3>1, <3>5, <3>6
  <2>9. CASE /\ worker[i].pc \in {"new", "head", "index", "send"} /\ UNCHANGED <<exp, writing, crashed>>
             /\ \/ worker'[i].pc \in {"head", "index", "aliases"} /\ worker[i].pc # "send"
                \/ worker'[i].pc = "done" /\ (worker[i].pc # "send" => ~Expanded(i)) /\ got' = got
    <3>1. InChildren(i)' = InChildren(i) /\ InParents(i)' = InParents(i) /\ (i \in Aliased' <=> i \in Aliased)
      <4>1. ASSUME got' = got PROVE Expanded(i)' = Expanded(i) /\ Parts(i)' = Parts(i)
        BY <2>1, <4>1 DEF Expanded, Parts, Image
      <4>2. CASE worker'[i].pc \in {"head", "index", "aliases"} /\ worker[i].pc # "send"
        BY <2>1, <2>9, <4>2 DEF InChildren, InParents, Aliased
      <4>3. CASE worker'[i].pc = "done" /\ (worker[i].pc # "send" => ~Expanded(i)) /\ got' = got
        BY <2>1, <2>9, <4>1, <4>3 DEF InChildren, InParents, Aliased
      <4> QED
        BY <2>9, <4>2, <4>3
    <3> QED
      BY <1>2, <2>1, <2>4, <2>7, <2>9, <3>1 DEF IInv, SnapTypes
  <2>10. CASE \/ /\ worker[i].pc = "new" /\ worker'[i] = [pc |-> "head", child |-> worker[i].child]
                 /\ UNCHANGED <<exp, writing, crashed>>
              \/ /\ worker[i].pc \in {"head", "index", "send"} /\ worker'[i] = [pc |-> "done", child |-> 0]
                 /\ UNCHANGED <<exp, writing, crashed, got>> /\ (worker[i].pc # "send" => ~Expanded(i))
              \/ /\ worker[i].pc = "head" /\ worker'[i] = [pc |-> "index", child |-> worker[i].child]
                 /\ UNCHANGED <<exp, writing, crashed>>
              \/ /\ worker[i].pc = "index" /\ worker'[i] = [pc |-> "aliases", child |-> 0]
                 /\ UNCHANGED <<exp, writing, crashed>>
    BY <2>9, <2>10
  <2> QED
    BY <1>3, <2>6, <2>8, <2>10, GoroutineStep
<1>4. ASSUME BeginExpand PROVE (~crashed)' /\ MapInv'
  <2>1. /\ components' = components /\ crashed' = crashed /\ exp' = NoExpansion
        /\ DOMAIN worker' = DOMAIN components
        /\ \A i \in DOMAIN components : worker'[i].pc = "new" /\ writing'[i].map = "none"
    BY <1>4 DEF BeginExpand, NotWriting
  <2>2. Active' = {}
    BY <2>1 DEF Active
  <2>3. Aliased' = {} /\ \A i \in DOMAIN components : InChildren(i)' = 0 /\ InParents(i)' = 0
    BY <2>1 DEF Aliased, InChildren, InParents
  <2>4. /\ exp'.aliases = NoEntries /\ exp'.children = NoEntries /\ exp'.parents = NoEntries /\ DOMAIN NoEntries = {}
        /\ exp' = [aliases |-> exp'.aliases, children |-> exp'.children, parents |-> exp'.parents]
    BY <2>1 DEF NoExpansion, NoEntries
  <2>5. AliasesOK' /\ ChildrenOK' /\ ParentsOK'
    BY <2>1, <2>3, <2>4 DEF AliasesOK, ChildrenOK, ParentsOK
  <2> QED
    BY <1>2, <2>1, <2>2, <2>4, <2>5 DEF MapInv
<1>5. ASSUME UNCHANGED vars PROVE (~crashed)' /\ MapInv'
  <2>1. UNCHANGED <<at, limit, components, worker, got, exp, writing, crashed>>
    BY <1>5 DEF vars, snapVars, inputVars, raceVars
  <2>2. \A i : Expanded(i)' = Expanded(i) /\ Parts(i)' = Parts(i) /\ Index(i)' = Index(i)
    BY <2>1 DEF Expanded, Parts, Index, Image
  <2>3. Aliased' = Aliased /\ Active' = Active /\ \A i : InChildren(i)' = InChildren(i) /\ InParents(i)' = InParents(i)
    BY <2>1, <2>2 DEF Aliased, Active, InChildren, InParents
  <2>4. AliasesOK /\ ChildrenOK /\ ParentsOK => (AliasesOK /\ ChildrenOK /\ ParentsOK)'
    BY <2>1, <2>2, <2>3, AliasesKept, ChildrenKept, ParentsKept
  <2> QED
    BY <1>2, <2>1, <2>3, <2>4 DEF IInv, MapInv
<1>6. ASSUME \/ SkipSource \/ MergeComponent \/ MergeReturns \/ BadInput \/ Collect PROVE crashed' = crashed
  BY <1>6 DEF SkipSource, MergeComponent, MergeReturns, BadInput, Collect, raceVars
<1>7. (~crashed)'
  BY Phases, <1>2, <1>3, <1>4, <1>5, <1>6 DEF Determine, DetermineInputSpec
<1> QED
  BY <1>3, <1>4, <1>5, <1>7, ExpandCases

-----------------------------------------------------------------------------
(* Steps of DetermineInputSpec: the expanded snapshot *)

Below(s, i) == {j \in DOMAIN s : \/ Rank[s[j].image] < Rank[s[i].image]
                                 \/ Rank[s[j].image] = Rank[s[i].image] /\ j <= i}

\* Every element of a sequence has a place of its own in the sorted one.
LEMMA PlacesDiffer ==
  ASSUME NEW s \in Seq(Pieces)
  PROVE  /\ \A i \in DOMAIN s : PlaceOf(s, i) \in DOMAIN s
         /\ \A i, j \in DOMAIN s : PlaceOf(s, i) = PlaceOf(s, j) => i = j
<1>1. /\ Len(s) \in Nat /\ DOMAIN s = 1..Len(s) /\ IsFiniteSet(1..Len(s)) /\ Cardinality(1..Len(s)) = Len(s)
  <2>1. Len(s) \in Nat /\ DOMAIN s = 1..Len(s)
    OBVIOUS
  <2>2. IsFiniteSet(1..Len(s)) /\ Cardinality(1..Len(s)) = IF 1 > Len(s) THEN 0 ELSE Len(s) - 1 + 1
    BY <2>1, FS_Interval
  <2> QED
    BY <2>1, <2>2
<1>2. \A i \in DOMAIN s : Rank[s[i].image] \in Nat
  <2>1. \A i \in DOMAIN s : s[i] \in Pieces
    OBVIOUS
  <2>2. \A i \in DOMAIN s : s[i].image \in Images
    BY <2>1 DEF Pieces
  <2> QED
    BY <2>2, SnapshotAssumption
<1>3. \A i \in DOMAIN s : PlaceOf(s, i) = Cardinality(Below(s, i)) /\ i \in Below(s, i) /\ Below(s, i) \subseteq 1..Len(s)
  BY <1>1, <1>2 DEF PlaceOf, Below
<1>4. \A i \in DOMAIN s : IsFiniteSet(Below(s, i)) /\ Cardinality(Below(s, i)) \in Nat /\ Cardinality(Below(s, i)) <= Len(s)
  BY <1>1, <1>3, FS_Subset, FS_CardinalityType
<1>5. \A i \in DOMAIN s : Cardinality(Below(s, i)) # 0
  BY <1>3, <1>4, FS_EmptySet
<1>6. ASSUME NEW i \in DOMAIN s, NEW j \in DOMAIN s,
             \/ Rank[s[i].image] < Rank[s[j].image]
             \/ Rank[s[i].image] = Rank[s[j].image] /\ i < j
      PROVE  PlaceOf(s, i) # PlaceOf(s, j)
  <2>0. i \in Int /\ j \in Int /\ Rank[s[i].image] \in Int /\ Rank[s[j].image] \in Int
    BY <1>1, <1>2
  <2>1. Below(s, i) \subseteq Below(s, j)
    <3>1. ASSUME NEW k \in Below(s, i) PROVE k \in Below(s, j)
      <4>1. k \in DOMAIN s /\ k \in Int /\ Rank[s[k].image] \in Int
        BY <1>1, <1>2 DEF Below
      <4> QED
        BY <1>6, <2>0, <4>1 DEF Below
    <3> QED
      BY <3>1
  <2>2. j \in Below(s, j) /\ j \notin Below(s, i)
    BY <1>3, <1>6, <2>0 DEF Below
  <2>3. Cardinality(Below(s, i)) # Cardinality(Below(s, j))
    BY <1>4, <2>1, <2>2, FS_Subset
  <2> QED
    BY <1>3, <2>3
<1>7. ASSUME NEW i \in DOMAIN s, NEW j \in DOMAIN s, PlaceOf(s, i) = PlaceOf(s, j) PROVE i = j
  <2>1. i \in Int /\ j \in Int /\ Rank[s[i].image] \in Int /\ Rank[s[j].image] \in Int
    BY <1>1, <1>2
  <2> QED
    BY <1>6, <1>7, <2>1
<1>8. \A i \in DOMAIN s : PlaceOf(s, i) \in DOMAIN s
  BY <1>1, <1>3, <1>4, <1>5
<1> QED
  BY <1>7, <1>8

\* sort.Slice permutes the components.
LEMMA SortedFacts ==
  ASSUME NEW s \in Seq(Pieces)
  PROVE  /\ DOMAIN Sorted(s) = DOMAIN s
         /\ \E f \in [DOMAIN s -> DOMAIN s] :
              /\ \A k \in DOMAIN s : Sorted(s)[k] = s[f[k]]
              /\ \A k, l \in DOMAIN s : f[k] = f[l] => k = l
              /\ \A i \in DOMAIN s : \E k \in DOMAIN s : f[k] = i
<1> DEFINE D == DOMAIN s
           g == [i \in D |-> PlaceOf(s, i)]
           f == [k \in D |-> CHOOSE i \in D : PlaceOf(s, i) = k]
<1>1. Len(s) \in Nat /\ D = 1..Len(s) /\ IsFiniteSet(D)
  BY FS_Interval
<1>2. g \in [D -> D] /\ \A i, j \in D : g[i] = g[j] => i = j
  BY PlacesDiffer
<1>3. g \in Surjection(D, D)
  <2> HIDE DEF g, D
  <2>1. g \in Injection(D, D)
    BY <1>2 DEF Injection, IsInjective
  <2> QED
    BY <1>1, <2>1, FS_Injection
<1>4. \A k \in D : \E i \in D : PlaceOf(s, i) = k
  BY <1>3 DEF Surjection
<1>5. \A k \in D : f[k] \in D /\ PlaceOf(s, f[k]) = k
  BY <1>4
<1>6. f \in [D -> D] /\ \A k \in D : Sorted(s)[k] = s[f[k]]
  BY <1>5 DEF Sorted
<1>7. DOMAIN Sorted(s) = D
  BY DEF Sorted
<1> HIDE DEF f, g
<1>8. \A k, l \in D : f[k] = f[l] => k = l
  BY <1>5
<1>9. ASSUME NEW i \in D PROVE \E k \in D : f[k] = i
  <2>1. PlaceOf(s, i) \in D /\ f[PlaceOf(s, i)] = i
    BY <1>5, PlacesDiffer
  <2> QED
    BY <2>1
<1> QED
  BY <1>6, <1>7, <1>8, <1>9

\* What Collect collects: the components, once each, and the images of the indexes.
LEMMA Collected ==
  ASSUME IInv, Collect
  PROVE  LET t == components'
         IN  /\ \A k \in DOMAIN t : \E i \in DOMAIN components : SentBy(t[k], i)
             /\ \A i \in DOMAIN components :
                  /\ \E k \in DOMAIN t : t[k] = components[i]
                  /\ Expanded(i) => \A m \in DOMAIN Parts(i) :
                       \E k \in DOMAIN t : t[k] = ArchComponent(components[i], Parts(i)[m])
             /\ \A k, l \in DOMAIN t : t[k].of = NoImage /\ t[l].of = NoImage /\ t[k].image = t[l].image => k = l
             /\ \A i \in DOMAIN components : worker[i].pc = "done"
<1> DEFINE s == arrived
           t == components'
<1>1. at = "expand" /\ t = Sorted(s) /\ \A i \in DOMAIN components : worker[i].pc = "done"
  BY ExpandFacts DEF Collect
<1>2. /\ s \in Seq(Pieces)
      /\ \A k \in DOMAIN s : \E i \in DOMAIN components : SentBy(s[k], i)
      /\ \A i \in DOMAIN components :
           /\ \E k \in DOMAIN s : s[k] = components[i]
           /\ Expanded(i) => \A m \in DOMAIN Parts(i) :
                \E k \in DOMAIN s : s[k] = ArchComponent(components[i], Parts(i)[m])
      /\ \A k, l \in DOMAIN s : s[k].of = NoImage /\ s[l].of = NoImage /\ s[k].image = s[l].image => k = l
  BY <1>1 DEF IInv, SentInv, Pieces
<1>3. DOMAIN t = DOMAIN s
  BY <1>1, <1>2, SortedFacts
<1>a. \E g \in [DOMAIN s -> DOMAIN s] :  /\ \A k \in DOMAIN s : Sorted(s)[k] = s[g[k]]
                                         /\ \A k, l \in DOMAIN s : g[k] = g[l] => k = l
                                         /\ \A i \in DOMAIN s : \E k \in DOMAIN s : g[k] = i
  BY <1>2, SortedFacts
<1>4. PICK f \in [DOMAIN s -> DOMAIN s] : /\ \A k \in DOMAIN s : t[k] = s[f[k]]
                                          /\ \A k, l \in DOMAIN s : f[k] = f[l] => k = l
                                          /\ \A i \in DOMAIN s : \E k \in DOMAIN s : f[k] = i
  <2> HIDE DEF s, t
  <2> QED
    BY <1>1, <1>a
<1>5. \A k \in DOMAIN s : \E l \in DOMAIN t : t[l] = s[k]
  BY <1>3, <1>4
<1>6. \A k \in DOMAIN t : \E l \in DOMAIN s : t[k] = s[l]
  BY <1>3, <1>4
<1> HIDE DEF s, t
<1>7. \A k \in DOMAIN t : \E i \in DOMAIN components : SentBy(t[k], i)
  BY <1>2, <1>6
<1>8. \A i \in DOMAIN components :
        /\ \E k \in DOMAIN t : t[k] = components[i]
        /\ Expanded(i) => \A m \in DOMAIN Parts(i) :
             \E k \in DOMAIN t : t[k] = ArchComponent(components[i], Parts(i)[m])
  BY <1>2, <1>5
<1>9. \A k, l \in DOMAIN t : t[k].of = NoImage /\ t[l].of = NoImage /\ t[k].image = t[l].image => k = l
  <2>1. ASSUME NEW k \in DOMAIN s, NEW l \in DOMAIN s, s[f[k]].of = NoImage, s[f[l]].of = NoImage,
               s[f[k]].image = s[f[l]].image
        PROVE  k = l
    <3>1. f[k] \in DOMAIN s /\ f[l] \in DOMAIN s
      OBVIOUS
    <3>2. f[k] = f[l]
      BY <1>2, <2>1, <3>1
    <3> QED
      BY <1>4, <3>2
  <2> QED
    BY <1>3, <1>4, <2>1
<1> QED
  BY <1>1, <1>7, <1>8, <1>9 DEF t

\* A component that stands for itself is one of the merged ones; the others are of an index.
LEMMA OwnOrPart ==
  ASSUME IInv, at = "expand", NEW c, NEW i \in DOMAIN components, SentBy(c, i)
  PROVE  /\ c.of = NoImage => c = components[i]
         /\ c.of # NoImage => /\ Expanded(i) /\ c.of = components[i].image
                              /\ \E m \in DOMAIN Parts(i) : c.image = Parts(i)[m]
<1>1. components[i].image \in Images /\ components[i].of = NoImage
  BY ExpandFacts
<1>2. ASSUME NEW m, c = ArchComponent(components[i], m) PROVE c.of = components[i].image /\ c.image = m /\ c.of # NoImage
  <2>1. c.of = components[i].image /\ c.image = m
    BY <1>2 DEF ArchComponent
  <2> QED
    BY <1>1, <2>1, SnapshotAssumption
<1> QED
  BY <1>1, <1>2 DEF SentBy

\* The snapshot that is collected has all that the flags describe and all the platforms.
LEMMA CollectStep ==
  ASSUME IInv, Collect
  PROVE  SnapshotComplete'
<1> DEFINE t == components'
           Own == {k \in DOMAIN t : t[k].of = NoImage}
<1>1. /\ at = "expand" /\ ~crashed /\ at' = "determined"
      /\ UNCHANGED <<input, limit, source, item, exp, crashed>>
  BY DEF Collect, inputVars
<1>2. /\ \A k \in DOMAIN t : \E i \in DOMAIN components : SentBy(t[k], i)
      /\ \A i \in DOMAIN components :
           /\ \E k \in DOMAIN t : t[k] = components[i]
           /\ Expanded(i) => \A m \in DOMAIN Parts(i) :
                \E k \in DOMAIN t : t[k] = ArchComponent(components[i], Parts(i)[m])
      /\ \A k, l \in DOMAIN t : t[k].of = NoImage /\ t[l].of = NoImage /\ t[k].image = t[l].image => k = l
      /\ \A i \in DOMAIN components : worker[i].pc = "done"
  BY Collected
<1>3. /\ source = Len(Sources) + 1
      /\ \A i, j \in DOMAIN components : components[i].image = components[j].image => i = j
      /\ \A p \in Seen : \E i \in DOMAIN components : components[i].image = At(p).image
      /\ \A i \in DOMAIN components : NamedFrom(components[i], Seen)
  BY <1>1 DEF IInv, MergeInv
<1>4. Seen = Places
  <2>1. Len(Sources) = 5 /\ \A p \in Places : p[1] \in 1..5
    BY PlaceFacts DEF IInv, SnapTypes
  <2> QED
    BY <1>3, <2>1 DEF Seen
<1>5. OwnComponents' = Own
  BY DEF OwnComponents
<1>6. \A i \in DOMAIN components : /\ components[i].image \in Images /\ components[i].of = NoImage
                                   /\ Image(i) = components[i].image
                                   /\ ~Expanded(i) => Access[Image(i)] # "ok" \/ Finds(i, "image") # {}
  BY <1>1, <1>2, ExpandFacts DEF Image, GoroutineOK
<1>a. \A i \in DOMAIN components : Expanded(i) =>
        /\ got[i].head \in Pull[Image(i)] /\ got[i].head \in Digests
        /\ got[i].index \in Pull[Image(i)] /\ got[i].index \in Digests /\ Kind[got[i].index] = "index"
        /\ Access[Image(i)] = "ok" /\ Index(i) \in Images
        /\ Parts(i) \in Seq(Images) /\ Len(Parts(i)) \in Nat /\ DOMAIN Parts(i) = 1..Len(Parts(i))
  BY <1>1, ExpandedFacts
<1>7. \A k \in Own : \E i \in DOMAIN components : t[k] = components[i]
  BY <1>1, <1>2, OwnOrPart
<1>8. \A i \in DOMAIN components : \E k \in Own : t[k] = components[i]
  BY <1>2, <1>6
<1>9. \A p : At(p)' = At(p)
  BY <1>1 DEF At, Src
<1>10. Places' = Places
  BY <1>1 DEF Places, Src
<1> HIDE DEF t, Own
<1>11. NothingDropped'
  <2>1. \A k \in Own : \E p \in Places : t[k].image = At(p).image
    <3>1. ASSUME NEW i \in DOMAIN components PROVE \E p \in Places : components[i].image = At(p).image
      BY <1>3, <1>4 DEF NamedFrom
    <3> QED
      BY <1>7, <3>1
  <2>2. \A p \in Places : \E k \in Own : t[k].image = At(p).image
    BY <1>3, <1>4, <1>8
  <2>3. {t[k].image : k \in Own} = {At(p).image : p \in Places}
    BY <2>1, <2>2
  <2>4. \A k, l \in Own : t[k].image = t[l].image => k = l
    BY <1>2 DEF Own
  <2>5. ASSUME NEW k \in Own PROVE NamedFrom(t[k], Places)
    BY <1>3, <1>4, <1>7
  <2>6. (\A i \in OwnComponents : NamedFrom(components[i], Places))'
    BY <1>5, <1>9, <1>10, <2>5 DEF NamedFrom, t
  <2>7. {components[i].image : i \in OwnComponents}' = {At(p).image : p \in Places}'
    <3>1. {components[i].image : i \in OwnComponents}' = {t[k].image : k \in Own}
      BY <1>5 DEF t
    <3>2. {At(p).image : p \in Places}' = {At(p).image : p \in Places}
      BY <1>9, <1>10
    <3> QED
      BY <2>3, <3>1, <3>2
  <2> QED
    BY <1>5, <2>4, <2>6, <2>7 DEF NothingDropped, t
<1>12. EveryPlatform'
  <2>1. ASSUME NEW k \in Own
        PROVE  LET r == t[k].image
                   platforms == {t[l].image : l \in {l \in DOMAIN t : t[l].of = r}}
               IN  \/ Access[r] = "ok" /\ \E d \in Pull[r] : Kind[d] = "index" /\ platforms = Range(PartsOf(r, d))
                   \/ (Access[r] # "ok" \/ \E d \in Pull[r] : Kind[d] = "image") /\ platforms = {}
    <3>1. PICK i \in DOMAIN components : t[k] = components[i]
      BY <1>7
    <3> DEFINE r == components[i].image
               L == {l \in DOMAIN t : t[l].of = r}
    <3>2. ASSUME NEW l \in L PROVE Expanded(i) /\ \E m \in DOMAIN Parts(i) : t[l].image = Parts(i)[m]
      <4>1. t[l].of = r /\ t[l].of # NoImage
        BY <1>6, SnapshotAssumption
      <4>2. PICK j \in DOMAIN components : SentBy(t[l], j)
        BY <1>2
      <4>3. /\ Expanded(j) /\ t[l].of = components[j].image
            /\ \E m \in DOMAIN Parts(j) : t[l].image = Parts(j)[m]
        BY <1>1, <4>1, <4>2, OwnOrPart
      <4>4. j = i
        BY <1>3, <4>1, <4>3
      <4> QED
        BY <4>3, <4>4
    <3>3. ASSUME Expanded(i), NEW m \in DOMAIN Parts(i) PROVE \E l \in L : t[l].image = Parts(i)[m]
      <4>1. PICK l \in DOMAIN t : t[l] = ArchComponent(components[i], Parts(i)[m])
        BY <1>2, <3>3
      <4>2. t[l].of = r /\ t[l].image = Parts(i)[m]
        BY <4>1 DEF ArchComponent
      <4> QED
        BY <4>2
    <3>4. CASE Expanded(i)
      <4>1. {t[l].image : l \in L} = Range(Parts(i))
        BY <3>2, <3>3, <3>4 DEF Range
      <4>2. Parts(i) = PartsOf(r, got[i].index)
        BY <1>6 DEF Parts
      <4> QED
        BY <1>6, <1>a, <3>1, <3>4, <4>1, <4>2
    <3>5. CASE ~Expanded(i)
      <4>1. L = {}
        BY <3>2, <3>5
      <4>2. Access[r] # "ok" \/ \E d \in Pull[r] : Kind[d] = "image"
        BY <1>6, <3>5 DEF Finds
      <4> QED
        BY <3>1, <4>1, <4>2
    <3> QED
      BY <3>4, <3>5
  <2> QED
    BY <1>5, <2>1 DEF EveryPlatform, Image, t
<1>13. ExactWithOneWorker'
  <2> SUFFICES ASSUME limit = 1, Steady' PROVE Exact'
    BY <1>1 DEF ExactWithOneWorker
  <2> DEFINE I == {i \in DOMAIN components : Expanded(i)}
             Ix == {components[i].image : i \in I}
  <2>a. ASSUME NEW i \in DOMAIN components
        PROVE  /\ Pull[Image(i)] = {Digest(Image(i))} /\ Digest(Image(i)) \in Digests
    <3>1. PICK k \in Own : t[k] = components[i]
      BY <1>8
    <3>2. \E d \in Digests : Pull[t[k].image] = {d}
      BY <1>5, <3>1 DEF Steady, Image, t
    <3>3. \E d \in Digests : Pull[Image(i)] = {d}
      BY <1>6, <3>1, <3>2
    <3> QED
      BY <3>3 DEF Digest
  <2>b. Still
    BY <2>a DEF Still
  <2>c. \A i \in I : /\ got[i].head = Digest(Image(i)) /\ got[i].index = Digest(Image(i))
                    /\ Index(i) = IndexAt(Image(i)) /\ Range(Parts(i)) = PartsAt(Image(i))
    <3>1. \A i \in I : got[i].head = Digest(Image(i)) /\ got[i].index = Digest(Image(i))
      BY <1>a, <2>a
    <3> QED
      BY <3>1 DEF Index, IndexAt, Parts, PartsAt
  <2>d. \A i \in DOMAIN components : Expanded(i) <=> Access[Image(i)] = "ok" /\ Kind[Digest(Image(i))] = "index"
    <3>1. ASSUME NEW i \in DOMAIN components, ~Expanded(i), Access[Image(i)] = "ok" PROVE Kind[Digest(Image(i))] # "index"
      <4>1. \E d \in Pull[Image(i)] : Kind[d] = "image"
        BY <1>6, <3>1 DEF Finds
      <4> QED
        BY <2>a, <4>1
    <3> QED
      BY <1>a, <2>c, <3>1
  <2>1. Indexes' = Ix
    <3>1. Indexes' = {r \in {t[k].image : k \in Own} : Access[r] = "ok" /\ Kind[Digest(r)] = "index"}
      BY <1>5 DEF Indexes, Image, t
    <3>2. {t[k].image : k \in Own} = {components[i].image : i \in DOMAIN components}
      BY <1>7, <1>8
    <3> QED
      BY <1>6, <2>d, <3>1, <3>2
  <2>2. AliasesOK /\ ChildrenOK /\ ParentsOK
    BY <1>1 DEF IInv, MapInv
  <2>3. Aliased = I
    BY <1>2 DEF Aliased
  <2>4. \A i \in I : InChildren(i) = Len(Parts(i)) /\ InParents(i) = Len(Parts(i))
    BY <1>2 DEF InChildren, InParents
  <2>5. /\ DOMAIN exp.aliases = {RefName[r] : r \in Ix}
        /\ \A r \in Ix : exp.aliases[RefName[r]] = IndexAt(r)
    <3>1. {RefName[Image(i)] : i \in I} = {RefName[r] : r \in Ix}
      BY <1>6
    <3>2. \A i \in I : exp.aliases[RefName[Image(i)]] = IndexAt(Image(i))
      BY <2>2, <2>3, <2>b, <2>c DEF AliasesOK
    <3> QED
      BY <1>6, <2>2, <2>3, <3>1, <3>2 DEF AliasesOK
  <2>6. ASSUME NEW r \in Ix
        PROVE  /\ PartsAt(r) # {} =>
                    IndexAt(r) \in DOMAIN exp.children /\ Range(exp.children[IndexAt(r)]) = PartsAt(r)
               /\ \A c \in PartsAt(r) : c \in DOMAIN exp.parents /\
                    \E s \in Ix : exp.parents[c] = IndexAt(s) /\ c \in PartsAt(s)
    <3>1. PICK i \in I : r = Image(i)
      BY <1>6
    <3>2. /\ Range(Parts(i)) = PartsAt(r) /\ Index(i) = IndexAt(r) /\ r \in Images
          /\ DOMAIN Parts(i) = 1..Len(Parts(i)) /\ Len(Parts(i)) \in Nat
      BY <1>6, <1>a, <2>c, <3>1
    <3>3. \A m \in DOMAIN Parts(i) :
            /\ IndexAt(r) \in DOMAIN exp.children
            /\ \E k \in DOMAIN exp.children[IndexAt(r)] : exp.children[IndexAt(r)][k] = Parts(i)[m]
      <4>1. \A l \in 1..InChildren(i) :
              /\ Index(i) \in DOMAIN exp.children
              /\ \E k \in DOMAIN exp.children[Index(i)] : exp.children[Index(i)][k] = Parts(i)[l]
        BY <2>2 DEF ChildrenOK
      <4>2. 1..InChildren(i) = DOMAIN Parts(i)
        BY <2>4, <3>2
      <4> QED
        BY <3>2, <4>1, <4>2
    <3>4. \A m \in DOMAIN Parts(i) : Parts(i)[m] \in DOMAIN exp.parents
      BY <2>2, <2>4, <3>1, <3>2 DEF ParentsOK
    <3>5. ASSUME NEW c, NEW x, PartOf(c, x) PROVE \E s \in Ix : s \in Images /\ x = IndexAt(s) /\ c \in PartsAt(s)
      <4>1. PICK j \in DOMAIN components : Expanded(j) /\ Index(j) = x /\ \E m \in DOMAIN Parts(j) : c = Parts(j)[m]
        BY <3>5 DEF PartOf
      <4>2. j \in I /\ Image(j) \in Ix /\ Image(j) \in Images
        BY <1>6, <4>1
      <4>3. c \in Range(Parts(j))
        BY <4>1 DEF Range
      <4> QED
        BY <2>c, <4>1, <4>2, <4>3
    <3>6. ASSUME PartsAt(r) # {}
          PROVE  IndexAt(r) \in DOMAIN exp.children /\ Range(exp.children[IndexAt(r)]) = PartsAt(r)
      <4> DEFINE e == exp.children[IndexAt(r)]
      <4>1. DOMAIN Parts(i) # {}
        BY <3>2, <3>6 DEF Range
      <4>2. IndexAt(r) \in DOMAIN exp.children
        BY <3>3, <4>1
      <4>3. \A k \in DOMAIN e : PartOf(e[k], IndexAt(r))
        BY <2>2, <4>2 DEF ChildrenOK
      <4>4. ASSUME NEW s \in Ix, s \in Images, IndexAt(r) = IndexAt(s) PROVE PartsAt(s) = PartsAt(r)
        <5>1. Digest(s) \in Digests /\ Digest(r) \in Digests
          BY <1>6, <2>a
        <5>2. Digest(s) = Digest(r) /\ Pinned[s] = Pinned[r]
          BY <3>2, <4>4, <5>1, PinnedAssumption DEF IndexAt
        <5> QED
          BY <5>2 DEF PartsAt, PartsOf
      <4>5. \A k \in DOMAIN e : e[k] \in PartsAt(r)
        BY <3>5, <4>3, <4>4
      <4>6. Range(e) = PartsAt(r)
        <5>1. \A c \in Range(Parts(i)) : c \in Range(e)
          BY <3>3 DEF Range
        <5>2. \A c \in Range(e) : c \in PartsAt(r)
          BY <4>5 DEF Range
        <5> QED
          BY <3>2, <5>1, <5>2
      <4> QED
        BY <4>2, <4>6
    <3>7. ASSUME NEW c \in PartsAt(r)
          PROVE  c \in DOMAIN exp.parents /\ \E s \in Ix : exp.parents[c] = IndexAt(s) /\ c \in PartsAt(s)
      <4>0. \E m \in DOMAIN Parts(i) : c = Parts(i)[m]
        BY <3>2 DEF Range
      <4>1. c \in DOMAIN exp.parents
        BY <3>4, <4>0
      <4>2. PartOf(c, exp.parents[c])
        BY <2>2, <4>1 DEF ParentsOK
      <4> QED
        BY <3>5, <4>1, <4>2
    <3> QED
      BY <3>6, <3>7
  <2> HIDE DEF Ix
  <2> QED
    BY <1>1, <2>1, <2>5, <2>6 DEF Exact
<1> QED
  BY <1>11, <1>12, <1>13 DEF SnapshotComplete

\* The snapshot is collected once; the next step takes it away.
LEMMA SnapshotStep ==
  ASSUME IInv, [Next]_vars
  PROVE  SnapshotComplete'
<1>1. MapInv'
  BY MapStep
<1>2. CASE UNCHANGED vars
  <2>1. UNCHANGED <<input, limit, at, components, exp, crashed>>
    BY <1>2 DEF vars, snapVars, inputVars, raceVars
  <2>2. OwnComponents' = OwnComponents /\ Places' = Places /\ \A p : At(p)' = At(p)
    BY <2>1 DEF OwnComponents, Places, At, Src
  <2>3. NothingDropped'
    <3>1. NothingDropped
      BY DEF IInv, SnapshotComplete
    <3>2. {At(p).image : p \in Places}' = {At(p).image : p \in Places}
      BY <2>2
    <3> QED
      BY <2>1, <2>2, <3>1, <3>2 DEF NothingDropped, NamedFrom
  <2>4. EveryPlatform'
    BY <2>1, <2>2 DEF IInv, SnapshotComplete, EveryPlatform, Image
  <2>5. ExactWithOneWorker'
    <3>1. Indexes' = Indexes /\ Steady' = Steady
      BY <2>1, <2>2 DEF Indexes, Steady, Image
    <3> QED
      BY <2>1, <3>1 DEF IInv, SnapshotComplete, ExactWithOneWorker, Exact
  <2> QED
    BY <2>3, <2>4, <2>5 DEF SnapshotComplete
<1>3. CASE Collect
  BY <1>3, CollectStep
<1>4. CASE ~Collect /\ ~UNCHANGED vars
  <2>1. ASSUME NEW i \in DOMAIN worker, Goroutine(i) PROVE at' # "determined"
    BY <2>1, GoroutineStep
  <2>2. at' # "determined"
    BY <1>4, <2>1, Phases DEF Determine, DetermineInputSpec, SkipSource, Reading, MergeComponent, MergeReturns, BadInput,
       BeginExpand, Begun, Loaded
  <2> QED
    BY <1>1, <2>2 DEF SnapshotComplete, NothingDropped, EveryPlatform, ExactWithOneWorker, MapInv
<1> QED
  BY <1>2, <1>3, <1>4

\* Nothing is merged, sent or loaded at first.
LEMMA InitInv == Init => IInv
<1> SUFFICES ASSUME Init PROVE IInv
  OBVIOUS
<1>1. /\ input \in Inputs /\ limit \in Limits /\ at = "sources" /\ source = 1 /\ item = 0
      /\ components = << >> /\ arrived = << >> /\ crashed = FALSE
      /\ policy = NoPolicy
  BY DEF Init, SnapInit
<1>2. SnapTypes
  <2>1. Len(Sources) = 5
    BY DEF Sources
  <2>2. source \in 1..(Len(Sources) + 1) /\ item \in Nat
    BY <1>1, <2>1
  <2>3. crashed \in BOOLEAN
    BY <1>1, Zenon
  <2> QED
    BY <1>1, <2>2, <2>3 DEF SnapTypes
<1>3. MergeInv
  <2>1. Len(Sources) = 5 /\ \A s \in 1..5 : Len(Src(s)) \in Nat
    BY <1>1, PlaceFacts
  <2>2. Seen = {}
    <3>1. ASSUME NEW p \in Places PROVE ~(p[1] < source \/ (p[1] = source /\ p[2] <= item))
      <4>1. p[1] \in 1..5 /\ p[2] \in 1..Len(Src(p[1]))
        BY <1>1, PlaceFacts
      <4> QED
        BY <1>1, <2>1, <4>1
    <3> QED
      BY <3>1 DEF Seen
  <2> QED
    BY <1>1, <2>1, <2>2 DEF MergeInv
<1>4. PoolInv /\ SentInv /\ MapInv /\ SnapshotComplete
  BY <1>1 DEF PoolInv, SentInv, MapInv, SnapshotComplete, NothingDropped, EveryPlatform, ExactWithOneWorker
<1>5. AskedInv /\ DataInv
  BY <1>1 DEF AskedInv, DataInv, Begun, Loaded
<1>6. PolicyInv
  BY <1>1 DEF PolicyInv, NoPolicy, Loaded
<1> QED
  BY <1>2, <1>3, <1>4, <1>5, <1>6 DEF IInv

-----------------------------------------------------------------------------
(* Theorems *)

\* The invariant of the preparation holds in every behaviour of PreRunE: for all flags, for
\* every registry and any number of goroutines of the group.
THEOREM Invariance == Spec => []IInv
<1>1. ASSUME IInv, [Next]_vars PROVE IInv'
  BY <1>1, TypesStep, MergeStep, PoolStep, SentStep, MapStep, SnapshotStep, AskedStep, PolicyStep, DataStep DEF IInv
<1> QED
  BY <1>1, InitInv, PTL DEF Spec

\* What DetermineInputSpec returns has every image that the flags name, once and under the first
\* name that is one, with every platform of one content of every index, however the goroutines are
\* scheduled and the tags move; with one goroutine at a time, and tags that stay, ExpansionInfo is
\* complete as well.
THEOREM SnapshotIsComplete == Spec => []SnapshotComplete
<1>1. IInv => SnapshotComplete
  BY DEF IInv
<1> QED
  BY <1>1, Invariance, PTL

\* RunE starts with the policy that was asked for, but for the misread text (its source groups, its key or one whole identity, the
\* rule data of the flags in every group) and without a problem, or PreRunE reports them all.
THEOREM PolicyIsAsAsked == Spec => []PolicyAsAsked
<1>1. ASSUME IInv PROVE PolicyAsAsked
  <2> USE <1>1 DEF IInv
  <2>1. CASE at = "running"
    <3>1. /\ asked.ref \in PolicyRefs /\ text = asked.ref.text
          /\ asked.ref.form \in {"json", "other"} \/ text.kind # "empty"
          /\ text.kind \in {"empty", "object", "name"}
      BY <2>1, TextFacts DEF Loaded
    <3> DEFINE o == asked.options
               s == loadPolicy(text).spec
    <3>3. /\ loadPolicy(text).ok
          /\ policy.loaded /\ policy.key = Flag(o.key, s.key)
          /\ Keyless => policy.identity = IdentityOf(o, s)
          /\ Len(groups) = Len(s.groups) /\ DOMAIN groups = 1..Len(groups) /\ Len(groups) \in Nat
          /\ policy.verifier = IF Keyless THEN "identity" ELSE "key"
          /\ Keyless => validateIdentity(policy.identity)
      BY <2>1 DEF PolicyInv, Loaded
    <3>a. s = Meant(asked.ref.text)
      <4>1. text.kind = "object" => text.wrapped \in BOOLEAN /\ text.apiVersion \in BOOLEAN
        BY <3>1, PrepareAssumption
      <4> QED
        BY <3>1, <3>3, <4>1, LoadedAsMeant
    <3> HIDE DEF s
    <3>2. NoFalseSuccess
      BY <3>1, <3>3, <3>a DEF NoFalseSuccess, Meant
    <3>4. spec /\ problems = {}
      BY <2>1 DEF AskedInv, Begun, Loaded
    <3>5. NothingHidden
      BY <2>1, <3>3, <3>4 DEF NothingHidden
    <3>6. VerifiesAsAsked
      BY <2>1, <3>3, <3>a DEF VerifiesAsAsked, Flag, Keyless, IdentityOf, validateIdentity
    <3>7. RuleDataReachesAll
      <4>1. asked.extra \in ExtraData
        BY <2>1 DEF AskedInv, Begun, Loaded
      <4>2. DOMAIN asked.extra = 1..Len(asked.extra)
        BY <4>1, PrepareAssumption
      <4>3. \A i \in DOMAIN groups :
              Applied(s.groups[i].ruleData, groups[i].ruleData, asked.extra, Len(asked.extra))
        BY <2>1 DEF DataInv, s
      <4> QED
        BY <3>a, <4>2, <4>3 DEF RuleDataReachesAll, Applied
    <3> QED
      BY <3>2, <3>5, <3>6, <3>7 DEF PolicyAsAsked
  <2>2. CASE at # "running"
    BY <2>2 DEF AskedInv, PolicyAsAsked, NoFalseSuccess, VerifiesAsAsked, NothingHidden, RuleDataReachesAll
  <2> QED
    BY <2>1, <2>2
<1> QED
  BY <1>1, Invariance, PTL
===============================================================================
