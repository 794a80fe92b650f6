--------------------------- MODULE SnapshotInput ---------------------------
(***************************************************************************)
(* How `ec validate image` determines what to validate: DetermineInputSpec *)
(* merges up to five descriptions of a snapshot, and expandImageIndex adds *)
(* the images of every image index, reading the registry with a bounded    *)
(* group of goroutines that share one ExpansionInfo without a lock         *)
(* (internal/applicationsnapshot/input.go, internal/kubernetes).           *)
(***************************************************************************)
EXTENDS Integers, FiniteSets, Sequences, Functions

CONSTANTS
    Images,      \* image references
    NoImage,     \* "not an image"
    Names,       \* the names that a component may be given
    Rank,        \* [Images -> Nat], the order of the references as strings
    Digests,     \* digests in the registry
    NoDigest,    \* "not read yet"
    Kind,        \* [Digests -> the media type]
    Manifests,   \* [Digests -> Seq(Digests)], the manifests that an index lists
    Access,      \* [Images -> how far a reference can be read]
    Pull,        \* [Images -> the digests it has while the command runs]
    RefName,     \* [Images -> Images], ref.Name(): the one spelling of a reference
    Pinned,      \* [Images -> [Digests -> Images]], its repository with a digest
    Inputs,      \* the flags the command may be given: [Sources -> description]
    Limits,      \* values of IMAGE_INDEX_WORKERS
    Contexts     \* Kubernetes: [{"default", "flag"} -> namespace or ""]

ASSUME SnapshotAssumption ==
    /\ NoImage \notin Images
    /\ Rank \in [Images -> Nat]
    /\ NoDigest \notin Digests
    /\ Kind \in [Digests -> {"image", "index"}]
    /\ Manifests \in [Digests -> Seq(Digests)]
    /\ Access \in [Images -> {"ok", "unreadable", "badref", "gone"}]
    /\ Pull \in [Images -> SUBSET Digests \ {{}}]
    /\ RefName \in [Images -> Images]
    /\ Pinned \in [Images -> [Digests -> Images]]
    /\ Limits \subseteq Int

\* Two spellings of a reference are one reference to the registry
ASSUME RefNameAssumption ==
    \A r, q \in Images : RefName[r] = RefName[q] => Pull[r] = Pull[q] /\ Pinned[r] = Pinned[q]

\* "%s@%s": the repository and the digest can be read off
ASSUME PinnedAssumption ==
    \A r, q \in Images : \A d, e \in Digests :
        Pinned[r][d] = Pinned[q][e] => d = e /\ Pinned[r] = Pinned[q]

\* The flags, in the order in which DetermineInputSpec reads them
Sources == <<"images", "file", "json", "image", "snapshot">>

Given == [name: Names, image: Images, of: {NoImage}]

\* A flag that is not given describes nothing
ASSUME InputAssumption ==
    \A in \in Inputs : \A s \in DOMAIN Sources :
        /\ in[Sources[s]].components \in Seq(Given)
        /\ in[Sources[s]].kind = "none" => in[Sources[s]].components = <<>>

NotGiven == [kind |-> "none", components |-> <<>>]

VARIABLES
    input,       \* what the flags say
    limit,       \* imageWorkers()
    at,          \* where the preparation is
    source,      \* the next of Sources
    item,        \* how many of its components are merged
    components,  \* snapshot.Components
    worker,      \* [1 .. n -> progress of the goroutine for component i]
    got,         \* [1 .. n -> the digests that it was given for the reference]
    arrived,     \* componentChan
    exp,         \* the maps of ExpansionInfo
    writing,     \* [goroutine -> the map it is writing and what it read]
    crashed      \* the runtime found two goroutines in one map

inputVars == <<input, limit>>
raceVars == <<exp, writing, crashed>>
snapVars == <<inputVars, at, source, item, components, worker, got, arrived, raceVars>>

-----------------------------------------------------------------------------
(* Merging.                                                                *)

Component(n, i) == [name |-> n, image |-> i, of |-> NoImage]

Empty == ""
Nameless(n) == n \in {Empty, "Unnamed"}

\* One round of the second loop of merge: the name of the first component with the image
MergeOne(s, c) ==
    IF \A i \in DOMAIN s : s[i].image # c.image THEN Append(s, c)
    ELSE [i \in DOMAIN s |->
            IF /\ s[i].image = c.image /\ \A j \in 1 .. i - 1 : s[j].image # c.image
               /\ Nameless(s[i].name)
            THEN [name |-> c.name, image |-> s[i].image, of |-> s[i].of]
            ELSE s[i]]

\* NamespacedName: the namespace of the reference or of the current context.
\* currentNamespace reads the default configuration, whatever --kubeconfig says
NamespacedName(ref) ==
    IF ref.namespace # Empty THEN ref.namespace ELSE Contexts["default"]

\* FetchSnapshot and FetchEnterpriseContractPolicy: createK8SClient asks the
\* cluster that --kubeconfig names
FetchResource(ref) ==
    IF ref.name = Empty \/ NamespacedName(ref) = Empty THEN FALSE
    ELSE NamespacedName(ref) \in ref.found

\* What a source contributes; readSnapshotSource or the cluster may fail
Readable(src) ==
    CASE src.kind = "spec"    -> TRUE
      [] src.kind = "cluster" -> FetchResource(src.ref)
      [] OTHER                -> FALSE

-----------------------------------------------------------------------------
NoEntries == [x \in {} |-> NoImage]
NoExpansion ==
    [aliases |-> NoEntries, children |-> NoEntries, parents |-> NoEntries]

NothingGot == [head |-> NoDigest, index |-> NoDigest]
NotWriting == [map |-> "none", read |-> NoEntries]

SnapInit ==
    /\ input \in Inputs
    /\ limit \in Limits
    /\ at = "sources"
    /\ source = 1 /\ item = 0
    /\ components = <<>>
    /\ worker = <<>>
    /\ got = <<>>
    /\ arrived = <<>>
    /\ exp = NoExpansion
    /\ writing = <<>>
    /\ crashed = FALSE

Src(s) == input[Sources[s]].components

\* The flag is not given
SkipSource ==
    /\ at = "sources" /\ source <= Len(Sources)
    /\ input[Sources[source]].kind = "none"
    /\ source' = source + 1
    /\ UNCHANGED <<inputVars, at, item, components, worker, got, arrived, raceVars>>

Reading ==
    /\ at = "sources" /\ source <= Len(Sources)
    /\ input[Sources[source]].kind # "none" /\ Readable(input[Sources[source]])

\* snapshot.merge(..), a component at a time
MergeComponent ==
    /\ Reading /\ item < Len(Src(source))
    /\ components' = MergeOne(components, Src(source)[item + 1])
    /\ item' = item + 1
    /\ UNCHANGED <<inputVars, at, source, worker, got, arrived, raceVars>>

MergeReturns ==
    /\ Reading /\ item = Len(Src(source))
    /\ source' = source + 1 /\ item' = 0
    /\ UNCHANGED <<inputVars, at, components, worker, got, arrived, raceVars>>

\* An error of any of the sources ends DetermineInputSpec, and so does the
\* absence of all of them
BadInput ==
    /\ \/ /\ at = "sources" /\ source <= Len(Sources)
          /\ input[Sources[source]].kind # "none" /\ ~Readable(input[Sources[source]])
       \/ /\ at = "sources" /\ source = Len(Sources) + 1
          /\ \A i \in DOMAIN Sources : input[Sources[i]].kind = "none"
    /\ at' = "failed"
    /\ components' = <<>>
    /\ UNCHANGED <<inputVars, source, item, worker, got, arrived, raceVars>>

\* expandImageIndex: NewExpansionInfo, the channels and the group
BeginExpand ==
    /\ at = "sources" /\ source = Len(Sources) + 1
    /\ \E i \in DOMAIN Sources : input[Sources[i]].kind # "none"
    /\ at' = "expand"
    /\ worker' = [i \in DOMAIN components |-> [pc |-> "new", child |-> 0]]
    /\ got' = [i \in DOMAIN components |-> NothingGot]
    /\ writing' = [i \in DOMAIN components |-> NotWriting]
    /\ exp' = NoExpansion
    /\ UNCHANGED <<inputVars, source, item, components, arrived, crashed>>

Active == {i \in DOMAIN worker : worker[i].pc \notin {"new", "done"}}

\* Mutant: the group is full one goroutine too early
GoBelow(i) ==
    /\ at = "expand" /\ ~crashed
    /\ worker[i].pc = "new"
    /\ \A j \in 1 .. i - 1 : worker[j].pc # "new"
    /\ limit >= 0 => Cardinality(Active) + 1 < limit
    /\ worker' = [worker EXCEPT ![i].pc = "head"]
    /\ UNCHANGED <<inputVars, at, source, item, components, got, arrived, raceVars>>

\* g.Go: blocks while the group is full; a negative limit is no limit
Go(i) ==
    /\ at = "expand" /\ ~crashed
    /\ worker[i].pc = "new"
    /\ \A j \in 1 .. i - 1 : worker[j].pc # "new"
    /\ limit >= 0 => Cardinality(Active) < limit
    /\ worker' = [worker EXCEPT ![i].pc = "head"]
    /\ UNCHANGED <<inputVars, at, source, item, components, got, arrived, raceVars>>

Image(i) == components[i].image

\* The images of an index, as references to the repository of r
PartsOf(r, d) == [k \in DOMAIN Manifests[d] |-> Pinned[r][Manifests[d][k]]]
Parts(i) == PartsOf(Image(i), got[i].index)

\* The component of an image of the index
ArchComponent(c, child) ==
    [name |-> c.name, image |-> child, of |-> c.image]

\* The deferred send: the component itself, and the images found so far
Send(i, n) ==
    /\ arrived' = arrived \o <<components[i]>>
                   \o [k \in 1 .. n |-> ArchComponent(components[i], Parts(i)[k])]
    /\ worker' = [worker EXCEPT ![i] = [pc |-> "done", child |-> 0]]

\* What a request by the reference finds: a tag may have moved since the last one
Finds(i, kind) == {d \in Pull[Image(i)] : Kind[d] = kind}

\* ParseReference or client.Head fails
Unreadable(i) == Access[Image(i)] \in {"unreadable", "badref"}

\* Mutant: the component goes with the error
NotIndexDropped(i) ==
    /\ at = "expand" /\ ~crashed /\ worker[i].pc = "head"
    /\ Unreadable(i) \/ Finds(i, "image") # {}
    /\ IF ~Unreadable(i) THEN Send(i, 0)
       ELSE /\ worker' = [worker EXCEPT ![i] = [pc |-> "done", child |-> 0]]
            /\ UNCHANGED arrived
    /\ UNCHANGED <<inputVars, at, source, item, components, got, raceVars>>

\* There is an error, or it is an image: nothing to expand
NotIndex(i) ==
    /\ at = "expand" /\ ~crashed /\ worker[i].pc = "head"
    /\ Unreadable(i) \/ Finds(i, "image") # {}
    /\ Send(i, 0)
    /\ UNCHANGED <<inputVars, at, source, item, components, got, raceVars>>

IsIndex(i) ==
    /\ at = "expand" /\ ~crashed /\ worker[i].pc = "head"
    /\ ~Unreadable(i)
    /\ \E d \in Finds(i, "index") : got' = [got EXCEPT ![i].head = d]
    /\ worker' = [worker EXCEPT ![i].pc = "index"]
    /\ UNCHANGED <<inputVars, at, source, item, components, arrived, raceVars>>

\* client.Index or IndexManifest fails, or finds an image by now
IndexGone(i) ==
    /\ at = "expand" /\ ~crashed /\ worker[i].pc = "index"
    /\ Access[Image(i)] = "gone" \/ Finds(i, "image") # {}
    /\ Send(i, 0)
    /\ UNCHANGED <<inputVars, at, source, item, components, got, raceVars>>

\* The second request by the reference: its digest is not compared with the first
IndexRead(i) ==
    /\ at = "expand" /\ ~crashed /\ worker[i].pc = "index"
    /\ Access[Image(i)] # "gone"
    /\ \E d \in Finds(i, "index") : got' = [got EXCEPT ![i].index = d]
    /\ worker' = [worker EXCEPT ![i] = [pc |-> "aliases", child |-> 0]]
    /\ UNCHANGED <<inputVars, at, source, item, components, arrived, raceVars>>

\* exp.IndexAliases[..], ChildrenByIndex[..], ParentByChild[..] = ..
Index(i) == Pinned[Image(i)][got[i].head]
Child(i) == Parts(i)[worker[i].child]

Put(m, k, v) == [x \in DOMAIN m \cup {k} |-> IF x = k THEN v ELSE m[x]]

Update(i, m) ==
    CASE worker[i].pc = "aliases"  -> Put(m, RefName[Image(i)], Index(i))
      [] worker[i].pc = "children" ->
            Put(m, Index(i), Append(IF Index(i) \in DOMAIN m THEN m[Index(i)] ELSE <<>>, Child(i)))
      [] worker[i].pc = "parents"  -> Put(m, Child(i), Index(i))

\* The next statement of the goroutine after the write: the next image
AfterWrite(i) ==
    LET n == Len(Parts(i))
        w == worker[i]
    IN  CASE w.pc = "aliases" /\ n > 0         -> [pc |-> "children", child |-> 1]
          [] w.pc = "children"                 -> [pc |-> "parents", child |-> w.child]
          [] w.pc = "parents" /\ w.child < n   -> [pc |-> "children", child |-> w.child + 1]
          [] OTHER                             -> [pc |-> "send", child |-> 0]

\* An unsynchronised write to a map: it begins, and it ends. The runtime may
\* notice that another goroutine is in the map and kill the process; if not, a
\* write is lost
BeginWrite(i) ==
    /\ at = "expand" /\ ~crashed
    /\ worker[i].pc \in {"aliases", "children", "parents"}
    /\ writing[i].map = "none"
    /\ writing' = [writing EXCEPT ![i] = [map |-> worker[i].pc, read |-> exp[worker[i].pc]]]
    /\ crashed' \in IF \E j \in DOMAIN writing : writing[j].map = worker[i].pc
                    THEN BOOLEAN ELSE {FALSE}
    /\ UNCHANGED <<inputVars, at, source, item, components, worker, got, arrived, exp>>

EndWrite(i) ==
    /\ at = "expand" /\ ~crashed
    /\ writing[i].map # "none"
    /\ exp' = [exp EXCEPT ![writing[i].map] = Update(i, writing[i].read)]
    /\ writing' = [writing EXCEPT ![i] = NotWriting]
    /\ worker' = [worker EXCEPT ![i] = AfterWrite(i)]
    /\ UNCHANGED <<inputVars, at, source, item, components, got, arrived, crashed>>

SendExpanded(i) ==
    /\ at = "expand" /\ ~crashed /\ worker[i].pc = "send"
    /\ Send(i, Len(Parts(i)))
    /\ UNCHANGED <<inputVars, at, source, item, components, got, raceVars>>

\* Sorted by reference; sort.Slice promises nothing about equal ones, here they stay in
\* their order
PlaceOf(s, i) ==
    Cardinality({j \in DOMAIN s : \/ Rank[s[j].image] < Rank[s[i].image]
                                  \/ Rank[s[j].image] = Rank[s[i].image] /\ j <= i})
Sorted(s) == [k \in DOMAIN s |-> s[CHOOSE i \in DOMAIN s : PlaceOf(s, i) = k]]

\* The channels are closed after g.Wait; snap.Components is replaced and sorted
Collect ==
    /\ at = "expand" /\ ~crashed
    /\ \A i \in DOMAIN worker : worker[i].pc = "done"
    /\ components' = Sorted(arrived)
    /\ at' = "determined"
    /\ worker' = <<>> /\ got' = <<>> /\ writing' = <<>> /\ arrived' = <<>>
    /\ UNCHANGED <<inputVars, source, item, exp, crashed>>

Goroutine(i) ==
    \/ Go(i) \/ NotIndex(i) \/ IsIndex(i) \/ IndexGone(i) \/ IndexRead(i)
    \/ BeginWrite(i) \/ EndWrite(i) \/ SendExpanded(i)

DetermineInputSpec ==
    \/ SkipSource \/ MergeComponent \/ MergeReturns \/ BadInput \/ BeginExpand
    \/ \E i \in DOMAIN worker : Goroutine(i)
    \/ Collect

-----------------------------------------------------------------------------
(* Properties.                                                             *)

\* Where the flags describe a component: the source and the number in it
Places == UNION {{<<s, k>> : k \in DOMAIN Src(s)} : s \in DOMAIN Sources}
At(p) == Src(p[1])[p[2]]
Earlier(p, q) == p[1] < q[1] \/ (p[1] = q[1] /\ p[2] < q[2])

\* Of the places of an image among `places`, c has the first name that is one, or else the
\* last that is given
NamedFrom(c, places) ==
    \E p \in places :
        /\ At(p).image = c.image /\ At(p).name = c.name
        /\ \A q \in places : At(q).image = c.image =>
             IF Nameless(c.name) THEN Nameless(At(q).name) /\ ~Earlier(p, q)
             ELSE Earlier(q, p) => Nameless(At(q).name)

OwnComponents == {i \in DOMAIN components : components[i].of = NoImage}

\* Every image that any of the flags names is validated, exactly once, under
\* the first real name it was given, even when its manifest cannot be read:
\* an error of imageIndexWorker must stay a violation of that component
\* (input.go:198 "Do not raise an error if the image is inaccessible, it will
\* be handled as a violation"), and merge must neither drop nor double it.
NothingDropped ==
    at = "determined" =>
        /\ {components[i].image : i \in OwnComponents} = {At(p).image : p \in Places}
        /\ \A i, j \in OwnComponents : components[i].image = components[j].image => i = j
        /\ \A i \in OwnComponents : NamedFrom(components[i], Places)

\* Every platform of an index is validated besides the index itself, whatever
\* the interleaving of the goroutines and of their errors: the images are all
\* those of one content that the reference had, also when it moves while it is
\* read. There are none only for a reference that cannot be read or is an image.
EveryPlatform ==
    at = "determined" =>
        \A i \in OwnComponents :
            LET r == Image(i)
                platforms == {Image(k) : k \in {k \in DOMAIN components : components[k].of = r}}
            IN  \/ /\ Access[r] = "ok"
                   /\ \E d \in Pull[r] : Kind[d] = "index" /\ platforms = Range(PartsOf(r, d))
                \/ /\ Access[r] # "ok" \/ \E d \in Pull[r] : Kind[d] = "image"
                   /\ platforms = {}

\* No reference of the snapshot moves while it is read
Steady == \A i \in OwnComponents : \E d \in Digests : Pull[Image(i)] = {d}

Digest(r) == CHOOSE d \in Digests : Pull[r] = {d}
IndexAt(r) == Pinned[r][Digest(r)]
PartsAt(r) == Range(PartsOf(r, Digest(r)))
Indexes == {r \in {Image(i) : i \in OwnComponents} : Access[r] = "ok" /\ Kind[Digest(r)] = "index"}

Exact ==
    /\ DOMAIN exp.aliases = {RefName[r] : r \in Indexes}
    /\ \A r \in Indexes :
         /\ exp.aliases[RefName[r]] = IndexAt(r)
         /\ PartsAt(r) # {} =>
              IndexAt(r) \in DOMAIN exp.children /\ Range(exp.children[IndexAt(r)]) = PartsAt(r)
         /\ \A c \in PartsAt(r) : c \in DOMAIN exp.parents /\
              \E s \in Indexes : exp.parents[c] = IndexAt(s) /\ c \in PartsAt(s)

\* With one goroutine at a time the maps are safe, and when no reference moves
\* the expansion that the VSAs use to find the parts of an index is complete:
\* the alias of every spelling (input.go:238), all images and their index.
ExactWithOneWorker ==
    limit = 1 => ~crashed /\ (at = "determined" /\ Steady => Exact)

\* Said at expansion_info.go:19, "ExpansionInfo tracks the relationships
\* between image indexes and their child manifests": it does, whatever
\* IMAGE_INDEX_WORKERS is.
ExpansionTracked == ~crashed /\ (at = "determined" /\ Steady => Exact)

\* What is validated is all that the flags describe, with the platforms of every index;
\* with one goroutine, and references that stay, their relationships are all there too.
SnapshotComplete == NothingDropped /\ EveryPlatform /\ ExactWithOneWorker
=============================================================================
