-------------------------- MODULE PolicySourceProofs --------------------------
(***************************************************************************)
(* Proofs about PolicySource, for any policy configuration, any number of  *)
(* goroutines and of revisions, and any interleaving of downloads, links   *)
(* and pushes.                                                             *)
(***************************************************************************)
EXTENDS PolicySource, FiniteSetTheorems, WellFoundedInduction, TLAPS

(* The inductive invariant *)

\* Where a goroutine has read the URL of its source, and where it has a source at all.
Getting == {"load", "call", "download", "stat", "link", "again", "pin", "got"}
Active  == Getting \cup {"get"}

\* main pre-processes the policy before a target is taken up.
PcInv ==
  /\ \A p \in Procs :
       pc[p] \in Active \/ (pc[p] = "group" /\ at[p] \in Sources) => Wanted(p, at[p])
  /\ \A p \in Targets : pc[p] # "wait" => pc[Pre] = "done"
  /\ \A p \in Targets : pc[p] = "wait" => at[p] = 1
  /\ \A p \in Targets : pc[p] # "group"
  /\ pc[Pre] # "wait"
  /\ Command = "input" => pc[Pre] = "done"
  /\ Symlinks => \A p \in Procs : pc[p] # "again"

\* From then on the sources keep the URLs that the policy names, and those are pinned
\* for `ec validate image`.
UrlInv ==
  /\ \A s \in Sources : spec[s].ref = Config[s].ref /\ \A o \in Owners : src[o][s].ref = Config[s].ref
  /\ Command = "image" /\ pc[Pre] = "done" =>
       /\ src[Shared] = spec
       /\ \A s \in Sources : ~IsInline(s) => spec[s].rev # NotPinned
  /\ Command = "input" =>
       /\ \A s \in Sources : spec[s].rev = Config[s].rev
       /\ \A p \in Targets, s \in Sources :
            s > at[p] \/ (s = at[p] /\ pc[p] # "got") => src[p][s] = spec[s]
  /\ \A p \in Targets : pc[p] \in Getting => url[p] = spec[at[p]]

\* PreProcessPolicy pins the sources of a group one after the other, then the group.
PinInv ==
  pc[Pre] \in Active \cup {"group"} => \A s \in Sources : ~IsInline(s) =>
    /\ s < at[Pre] \/ (s = at[Pre] /\ pc[Pre] = "got") => src[Pre][s].rev # NotPinned
    /\ s < at[Pre] /\ (pc[Pre] = "group" \/ Config[s].group # GroupOf(Pre)) =>
         spec[s].rev # NotPinned

\* The download cache: an entry keeps the directory of the goroutine that stored it, one
\* goroutine fills it, and nobody passes on before it is full.
CacheInv ==
  /\ \A u \in DOMAIN cache :
       /\ cache[u].dir.url = u
       /\ cache[u].state = "done" =>
            cache[u].rev # NotPinned /\ (u.rev # NotPinned => cache[u].rev = u.rev)
  /\ \A p \in Procs :
       /\ pc[p] \in {"call", "download", "stat", "link", "again", "pin"} => url[p] \in DOMAIN cache
       /\ pc[p] = "download" => cache[url[p]].state = "running"
       /\ pc[p] \in {"stat", "link", "again", "pin"} => cache[url[p]].state = "done"
       /\ pc[p] \in {"link", "pin"} =>
            meta[p] # NotPinned /\ (url[p].rev # NotPinned => meta[p] = url[p].rev)
  /\ \A p, q \in Procs :
       pc[p] = "download" /\ pc[q] = "download" /\ url[p] = url[q] => p = q

\* Where links can be made, only the function that the cache keeps downloads.
CountInv ==
  Symlinks => \A u \in Urls :
    fetches[u] = IF u \in DOMAIN cache /\ cache[u].state # "stored" THEN 1 ELSE 0

\* validate image has removed the directories of its evaluators, or may.
Over == Command = "image" /\ pc[Pre] = "done" /\ \A p \in Targets : Ended(p)

\* A directory is incomplete only while, or because, its download is.
FileInv ==
  /\ \A d \in DOMAIN files : d.url \in DOMAIN cache
  /\ ~Over => \A u \in DOMAIN cache : cache[u].state # "stored" => cache[u].dir \in DOMAIN files
  /\ \A p \in Procs : pc[p] = "again" => MyDest(p) \in DOMAIN files
  /\ Symlinks => \A d \in DOMAIN files :
       LET e == cache[d.url]
       IN /\ e.dir # d => e.state = "done"
          /\ e.state = "done" <=> files[d].complete
          /\ e.state = "done" => files[d].rev = e.rev
  /\ ~Symlinks /\ Command = "input" => \A d \in DOMAIN files :
       \/ files[d].complete
       \/ cache[d.url].dir = d /\ cache[d.url].state \in {"running", "failed"}
       \/ pc[d.owner] = "again" /\ d = MyDest(d.owner)
       \/ pc[d.owner] = "error"

\* A directory in the cache that belongs to the evaluators of one input is full, or that
\* input waits for it, or has got an error.
OwnInv ==
  Command = "input" => \A u \in DOMAIN cache :
    LET o == cache[u].dir.owner
    IN \/ cache[u].state = "done"
       \/ pc[o] \in {"call", "download"} /\ url[o] = u
       \/ pc[o] = "error"

\* A work directory holds what the sources of its group name.
Placed(d) ==
  d.owner # Pre =>
    /\ pc[Pre] = "done"
    /\ Command = "input" => d.owner \in Targets
    /\ Command = "image" => d.owner = Shared
    /\ \E s \in Sources : Config[s].group = d.group /\ Subdir(s) = d.sub /\ spec[s] = d.url

PlaceInv ==
  /\ \A d \in DOMAIN files : Placed(d)
  /\ \A u \in DOMAIN cache : Placed(cache[u].dir)
  /\ Command = "input" => \A u \in DOMAIN cache : cache[u].dir.owner # Pre
  /\ Command = "input" => \A d \in DOMAIN files : d.owner # Pre

\* A goroutine that has passed a source of the group has its download and its directory.
PassInv ==
  \A p \in Targets : pc[p] \in Active => \A s \in Sources :
    Config[s].group = GroupOf(p) /\ (s < at[p] \/ (s = at[p] /\ pc[p] \in {"pin", "got"})) =>
      /\ spec[s] \in DOMAIN cache /\ cache[spec[s]].state = "done"
      /\ Dest(p, s, spec[s]) \in DOMAIN files

\* The sources of a group as conftest loads them where links can be made.
Loaded(g) ==
  {[sub |-> Subdir(s), url |-> spec[s], rev |-> cache[spec[s]].rev, complete |-> TRUE] :
     s \in {t \in Sources : Config[t].group = g}}

SeenInv ==
  \A p \in Targets, g \in Groups : seen[p][g] # {} =>
    /\ pc[Pre] = "done"
    /\ \A f \in seen[p][g] : \E s \in Sources :
         Config[s].group = g /\ Subdir(s) = f.sub /\ spec[s] = f.url
    /\ \A e, f \in seen[p][g] : e.sub = f.sub /\ e.url = f.url => e = f
    /\ Linked => \A f \in seen[p][g] : f.complete
    /\ Symlinks =>
         /\ \A s \in Sources : Config[s].group = g =>
              spec[s] \in DOMAIN cache /\ cache[spec[s]].state = "done"
         /\ seen[p][g] = Loaded(g)

\* What is known of cache, work directories and goroutines between any two steps.
IInv ==
  /\ TypeOK /\ PcInv /\ UrlInv /\ PinInv /\ CacheInv /\ CountInv
  /\ FileInv /\ OwnInv /\ PlaceInv /\ PassInv /\ SeenInv

-------------------------------------------------------------------------------
(* The sources of the policy *)

\* A set of natural numbers has a least element: the initial segments below its members
\* are finite, and inclusion of finite sets is well-founded.
LEMMA LeastElement ==
  ASSUME NEW T, T \subseteq Nat, T # {}
  PROVE  \E m \in T : \A n \in T : m <= n
  <1> DEFINE D == {1..m : m \in T}
  <1>1. D \subseteq FiniteSubsetsOf(Nat)
    <2>1. ASSUME NEW m \in T PROVE 1..m \in FiniteSubsetsOf(Nat)
      BY FS_Interval DEF FiniteSubsetsOf
    <2>2. QED
      BY <2>1
  <1>2. D # {}
    OBVIOUS
  <1>3. PICK x \in D : \A y \in D : ~(<<y, x>> \in StrictSubsetOrdering(Nat))
    <2>1. IsWellFoundedOn(StrictSubsetOrdering(Nat), FiniteSubsetsOf(Nat))
      BY FS_StrictSubsetOrderingWellFounded
    <2> HIDE DEF D
    <2>2. QED
      BY <1>1, <1>2, <2>1, WFMin
  <1>4. PICK m \in T : x = 1..m
    BY <1>3
  <1>5. ASSUME NEW n \in T, n < m PROVE FALSE
    <2>1. 1..n \subseteq 1..m /\ m \notin 1..n /\ m \in 1..m
      BY <1>5
    <2>2. <<1..n, 1..m>> \in StrictSubsetOrdering(Nat)
      BY <2>1 DEF StrictSubsetOrdering
    <2>3. QED
      BY <1>3, <1>4, <2>2
  <1>6. QED
    BY <1>4, <1>5

LEMMA SetupFacts ==
  ASSUME setup \in Setups
  PROVE  /\ NumSources \in Nat \ {0} /\ Sources = 1..NumSources /\ 1 \in Sources
         /\ Command \in {"image", "input"} /\ Symlinks \in BOOLEAN
         /\ \A s \in Sources :
              /\ Config[s].ref \in Refs /\ Config[s].group \in Groups
              /\ Config[s].group \in Nat /\ Config[s].rev \in 0..MaxRev
              /\ Subdir(s) \in {"policy", "data"}
              /\ IsInline(s) => Config[s].rev = NotPinned
              /\ \A t \in Sources : s <= t => Config[s].group <= Config[t].group
         /\ MaxRev \in Nat \ {0} /\ NotPinned = 0
         /\ Pre \notin Targets /\ Shared \notin Procs /\ Pre = 0
         /\ Targets \subseteq Procs /\ Pre \in Procs /\ Procs \subseteq Owners /\ Shared \in Owners
  BY SetupAssumption DEF NumSources, Sources, Config, Command, Symlinks, Refs, Groups, Subdir,
       IsInline, NotPinned, Pre, Shared, Procs, Owners

\* The loop over the sources takes them in order; PreProcessPolicy leaves out inline data.
LEMMA FromFacts ==
  ASSUME setup \in Setups, NEW p \in Procs, NEW s \in 1..(NumSources + 1)
  PROVE  /\ From(p, s) \in s..(NumSources + 1)
         /\ From(p, s) \in Sources => Wanted(p, From(p, s))
         /\ \A t \in Sources : s <= t /\ t < From(p, s) => ~Wanted(p, t)
         /\ p \in Targets => From(p, s) = s
  <1> DEFINE T == {t \in Sources : t >= s /\ Wanted(p, t)}
  <1>1. T \subseteq Nat /\ Sources = 1..NumSources /\ NumSources \in Nat
    BY SetupFacts
  <1>2. CASE T = {}
    <2>1. From(p, s) = NumSources + 1
      BY <1>2 DEF From
    <2>2. p \in Targets => s \notin Sources
      BY <1>1, <1>2, SetupFacts DEF Wanted
    <2>3. QED
      BY <1>1, <1>2, <2>1, <2>2
  <1>3. CASE T # {}
    <2>1. PICK m \in T : \A n \in T : m <= n
      BY <1>1, <1>3, LeastElement
    <2>2. /\ From(p, s) \in Sources /\ From(p, s) >= s /\ Wanted(p, From(p, s))
          /\ \A v \in Sources : v >= s /\ Wanted(p, v) => From(p, s) <= v
      BY <1>3, <2>1 DEF From
    <2>3. p \in Targets => s \in T
      BY <1>1, <2>2, SetupFacts DEF Wanted
    <2>4. QED
      BY <1>1, <2>2, <2>3
  <1>4. QED
    BY <1>2, <1>3

\* The setup is chosen once.
LEMMA SetupKept ==
  ASSUME setup' = setup
  PROVE  /\ Command' = Command /\ Config' = Config /\ Unpinnable' = Unpinnable
         /\ Symlinks' = Symlinks /\ NumSources' = NumSources /\ Sources' = Sources
         /\ Refs' = Refs /\ Groups' = Groups /\ Urls' = Urls /\ Linked' = Linked
         /\ \A s : IsInline(s)' = IsInline(s) /\ Subdir(s)' = Subdir(s)
         /\ \A p : Owner(p)' = Owner(p)
         /\ \A p, s, u : Dest(p, s, u)' = Dest(p, s, u)
         /\ \A p, s : Wanted(p, s)' = Wanted(p, s)
  BY DEF Command, Config, Unpinnable, Symlinks, NumSources, Sources, Refs, Groups, Urls,
         Linked, IsInline, Subdir, Owner, Dest, Wanted

-------------------------------------------------------------------------------
(* Type correctness *)

Directories == [owner: Owners, group: Groups, sub: {"policy", "data"}, url: Urls]

LEMMA DirectoryType ==
  ASSUME setup \in Setups, NEW p \in Procs, NEW s \in Sources, NEW u \in Urls
  PROVE  Dest(p, s, u) \in Directories
  BY SetupFacts DEF Dest, Directories, Owner

LEMMA UrlType ==
  ASSUME setup \in Setups, NEW u \in Urls
  PROVE  u.ref \in Refs /\ u.rev \in 0..MaxRev /\ u = [ref |-> u.ref, rev |-> u.rev]
  BY DEF Urls

\* The steps of the goroutines, main included.
LEMMA StepCases ==
  ASSUME [Next]_vars
  PROVE  /\ setup' = setup
         /\ \/ \E p \in Procs : GetPolicy(p) \/ NextSource(p) \/ Begin(p) \/ RunConftest(p)
            \/ PinGroup \/ PreProcess \/ Destroy
            \/ \E r \in Refs : Push(r)
            \/ UNCHANGED vars
  BY DEF Next, Main, Step, vars, Procs

\* What a goroutine that is getting a source has to do with, well typed.
LEMMA ActiveType ==
  ASSUME TypeOK, PcInv, NEW p \in Procs, pc[p] \in Active
  PROVE  /\ at[p] \in Sources /\ url[p] \in Urls /\ meta[p] \in 0..MaxRev
         /\ MyDest(p) \in Directories /\ Owner(p) \in Owners /\ src[Owner(p)][at[p]] \in Urls
  <1>1. at[p] \in Sources /\ url[p] \in Urls /\ meta[p] \in 0..MaxRev
    BY DEF TypeOK, PcInv, Wanted
  <1>2. Owner(p) \in Owners
    BY SetupFacts DEF TypeOK, Owner
  <1>3. QED
    BY <1>1, <1>2, DirectoryType DEF TypeOK, MyDest

LEMMA RevisionType ==
  ASSUME TypeOK, NEW u \in Urls
  PROVE  /\ Revision(u) \in 1..MaxRev
         /\ Revision(u) \in 0..MaxRev /\ Revision(u) # NotPinned
         /\ u.rev # NotPinned => Revision(u) = u.rev
  BY SetupFacts, UrlType DEF TypeOK, Revision

\* Adding or changing one entry keeps the cache and the directories well typed.
LEMMA CacheType ==
  ASSUME TypeOK, NEW u \in Urls, NEW e \in EntryType, setup' = setup,
         cache' = [v \in DOMAIN cache \cup {u} |-> IF v = u THEN e ELSE cache[v]]
  PROVE  DOMAIN cache' \subseteq Urls /\ \A v \in DOMAIN cache' : cache'[v] \in EntryType
  BY DEF TypeOK

LEMMA FilesType ==
  ASSUME TypeOK, NEW d \in Directories, NEW f \in FileType, Put(d, f)
  PROVE  \A e \in DOMAIN files' : e \in Directories /\ files'[e] \in FileType
  BY DEF TypeOK, Put, Directories

-------------------------------------------------------------------------------
(* What the steps of GetPolicy do *)

\* The entry of p's URL gets another state and revision.
Marks(p, state, rev) ==
  /\ url[p] \in DOMAIN cache /\ DOMAIN cache' = DOMAIN cache
  /\ \A v \in DOMAIN cache : v # url[p] => cache'[v] = cache[v]
  /\ cache'[url[p]].state = state /\ cache'[url[p]].rev = rev
  /\ cache'[url[p]].dir = cache[url[p]].dir
  /\ cache'[url[p]] \in EntryType

LEMMA MarkEntry ==
  ASSUME NEW p, url[p] \in DOMAIN cache, cache[url[p]] \in EntryType, NEW rev \in 0..MaxRev,
         NEW state \in {"stored", "running", "done", "failed"},
         \/ cache' = [cache EXCEPT ![url[p]].state = state, ![url[p]].rev = rev]
         \/ cache' = [cache EXCEPT ![url[p]].state = state] /\ rev = cache[url[p]].rev
  PROVE  Marks(p, state, rev)
  <1>1. CASE cache' = [cache EXCEPT ![url[p]].state = state, ![url[p]].rev = rev]
    <2>1. cache'[url[p]] = [cache[url[p]] EXCEPT !.state = state, !.rev = rev]
      BY <1>1 DEF EntryType
    <2>2. /\ cache'[url[p]].state = state /\ cache'[url[p]].rev = rev
          /\ cache'[url[p]].dir = cache[url[p]].dir /\ cache'[url[p]] \in EntryType
      BY <2>1 DEF EntryType
    <2>3. QED
      BY <1>1, <2>2 DEF Marks
  <1>2. CASE cache' = [cache EXCEPT ![url[p]].state = state] /\ rev = cache[url[p]].rev
    <2>1. cache'[url[p]] = [cache[url[p]] EXCEPT !.state = state]
      BY <1>2 DEF EntryType
    <2>2. /\ cache'[url[p]].state = state /\ cache'[url[p]].rev = rev
          /\ cache'[url[p]].dir = cache[url[p]].dir /\ cache'[url[p]] \in EntryType
      BY <1>2, <2>1 DEF EntryType
    <2>3. QED
      BY <1>2, <2>2 DEF Marks
  <1>3. QED
    BY <1>1, <1>2

LEMMA EntryFacts ==
  ASSUME TypeOK, NEW u \in DOMAIN cache
  PROVE  /\ u \in Urls /\ cache[u] \in EntryType
         /\ cache[u].state \in {"stored", "running", "done", "failed"}
         /\ cache[u].dir \in Directories /\ cache[u].rev \in 0..MaxRev
  BY DEF TypeOK, EntryType, Directories

\* While a goroutine is active the directories of the evaluators are not removed.
LEMMA NotOver ==
  ASSUME TypeOK, PcInv, NEW p \in Procs, pc[p] \in Active
  PROVE  ~Over
  BY SetupFacts DEF TypeOK, Over, Active, Getting, Procs, Ended

\* What lies in d is f.
Writes(d, rev, complete) ==
  /\ DOMAIN files' = DOMAIN files \cup {d}
  /\ \A e \in DOMAIN files : e # d => files'[e] = files[e]
  /\ files'[d].rev = rev /\ files'[d].complete = complete
  /\ files'[d] \in FileType

LEMMA PutWrites ==
  ASSUME NEW d, NEW f \in FileType, Put(d, f)
  PROVE  Writes(d, f.rev, f.complete)
  BY DEF Put, Writes

LEMMA FillWrites ==
  ASSUME NEW d \in DOMAIN files, files[d] \in FileType, NEW rev \in 0..MaxRev,
         files' = [files EXCEPT ![d] = [@ EXCEPT !.rev = rev, !.complete = TRUE]]
  PROVE  Writes(d, rev, TRUE)
  <1>1. files'[d] = [files[d] EXCEPT !.rev = rev, !.complete = TRUE]
    OBVIOUS
  <1>2. files'[d].rev = rev /\ files'[d].complete = TRUE /\ files'[d] \in FileType
    BY <1>1 DEF FileType
  <1>3. QED
    BY <1>2 DEF Writes

LEMMA PartialType == Partial \in FileType /\ Partial.rev = NotPinned /\ Partial.complete = FALSE
  BY SetupAssumption DEF Partial, FileType, NotPinned

\* The first caller of the cached function begins the download.
LEMMA BeginDownloadEffect ==
  ASSUME IInv, NEW p \in Procs, BeginDownload(p)
  PROVE  /\ Marks(p, "running", cache[url[p]].rev) /\ cache[url[p]].state = "stored"
         /\ Writes(cache[url[p]].dir, NotPinned, FALSE)
         /\ fetches' = [fetches EXCEPT ![url[p]] = @ + 1]
  <1>1. url[p] \in DOMAIN cache
    BY DEF IInv, CacheInv, BeginDownload
  <1>2. cache[url[p]] \in EntryType
    BY <1>1, EntryFacts DEF IInv
  <1>3. cache' = [cache EXCEPT ![url[p]].state = "running"] /\ cache[url[p]].rev \in 0..MaxRev
    BY <1>2 DEF BeginDownload, EntryType
  <1>4. Marks(p, "running", cache[url[p]].rev)
    BY <1>1, <1>2, <1>3, MarkEntry
  <1>5. Writes(cache[url[p]].dir, NotPinned, FALSE)
    BY PutWrites, PartialType DEF BeginDownload
  <1>6. QED
    BY <1>4, <1>5 DEF BeginDownload

LEMMA DownloadedEffect ==
  ASSUME IInv, NEW p \in Procs, Downloaded(p)
  PROVE  /\ Marks(p, "done", Revision(url[p])) /\ cache[url[p]].state = "running"
         /\ Writes(cache[url[p]].dir, Revision(url[p]), TRUE)
  <1>1. url[p] \in DOMAIN cache /\ cache[url[p]].state = "running" /\ pc[p] \in Active
    BY DEF IInv, CacheInv, Downloaded, Active, Getting
  <1>2. cache[url[p]] \in EntryType
    BY <1>1, EntryFacts DEF IInv
  <1>3. Marks(p, "done", Revision(url[p]))
    <2>1. Revision(url[p]) \in 0..MaxRev
      BY <1>1, EntryFacts, RevisionType DEF IInv
    <2>2. QED
      BY <1>1, <1>2, <2>1, MarkEntry DEF Downloaded
  <1>4. cache[url[p]].dir \in DOMAIN files /\ files[cache[url[p]].dir] \in FileType
    BY <1>1, NotOver DEF IInv, FileInv, TypeOK
  <1>5. Revision(url[p]) \in 0..MaxRev
    BY <1>1, EntryFacts, RevisionType DEF IInv
  <1>6. QED
    BY <1>1, <1>3, <1>4, <1>5, FillWrites DEF Downloaded

LEMMA DownloadFailsEffect ==
  ASSUME IInv, NEW p \in Procs, DownloadFails(p)
  PROVE  Marks(p, "failed", cache[url[p]].rev) /\ cache[url[p]].state = "running"
  <1>1. url[p] \in DOMAIN cache /\ cache[url[p]].state = "running"
    BY DEF IInv, CacheInv, DownloadFails
  <1>2. cache[url[p]] \in EntryType
    BY <1>1, EntryFacts DEF IInv
  <1>3. cache' = [cache EXCEPT ![url[p]].state = "failed"] /\ cache[url[p]].rev \in 0..MaxRev
    BY <1>2 DEF DownloadFails, EntryType
  <1>4. QED
    BY <1>1, <1>2, <1>3, MarkEntry

\* A link is as complete as what it points to.
LEMMA SymlinkEffect ==
  ASSUME IInv, NEW p \in Procs, Symlink(p), MyDest(p) \notin DOMAIN files
  PROVE  /\ url[p] \in DOMAIN cache /\ cache[url[p]].state = "done"
         /\ Writes(MyDest(p), cache[url[p]].rev, TRUE)
  <1> DEFINE d == cache[url[p]].dir
  <1>1. /\ url[p] \in DOMAIN cache /\ cache[url[p]].state = "done" /\ pc[p] \in Active
        /\ d.url = url[p]
    BY DEF IInv, CacheInv, Symlink, Active, Getting
  <1>2. d \in DOMAIN files /\ files[d] \in FileType
    BY <1>1, NotOver DEF IInv, FileInv, TypeOK
  <1>3. files[d].rev = cache[url[p]].rev /\ files[d].complete = TRUE
    BY <1>1, <1>2 DEF IInv, FileInv, FileType, Symlink
  <1>4. /\ [files[d] EXCEPT !.link = TRUE] \in FileType
        /\ [files[d] EXCEPT !.link = TRUE].rev = files[d].rev
        /\ [files[d] EXCEPT !.link = TRUE].complete = files[d].complete
    BY <1>2 DEF FileType
  <1>5. QED
    BY <1>1, <1>3, <1>4, PutWrites DEF Symlink

LEMMA BeginAgainEffect ==
  ASSUME NEW p \in Procs, BeginAgain(p)
  PROVE  Writes(MyDest(p), NotPinned, FALSE)
  BY PutWrites, PartialType DEF BeginAgain

LEMMA DownloadedAgainEffect ==
  ASSUME IInv, NEW p \in Procs, DownloadedAgain(p), pc'[p] # "error"
  PROVE  Writes(MyDest(p), Revision(url[p]), TRUE) /\ MyDest(p) \in DOMAIN files
  <1>1. pc[p] \in Active /\ MyDest(p) \in DOMAIN files
    BY DEF IInv, FileInv, DownloadedAgain, Active, Getting
  <1>2. files[MyDest(p)] \in FileType /\ Revision(url[p]) \in 0..MaxRev
    BY <1>1, ActiveType, RevisionType DEF IInv, TypeOK
  <1>3. files' = [files EXCEPT ![MyDest(p)] =
                    [@ EXCEPT !.rev = Revision(url[p]), !.complete = TRUE]]
    BY DEF DownloadedAgain, Go, IInv, TypeOK
  <1>4. QED
    BY <1>1, <1>2, <1>3, FillWrites

-------------------------------------------------------------------------------
(* Type correctness *)

LEMMA TypeNext ==
  ASSUME TypeOK, setup' = setup,
         head' \in [Refs -> 1..MaxRev], spec' \in [Sources -> Urls],
         src' \in [Owners -> [Sources -> Urls]],
         DOMAIN cache' \subseteq Urls, \A u \in DOMAIN cache' : cache'[u] \in EntryType,
         \A d \in DOMAIN files' : d \in Directories /\ files'[d] \in FileType,
         fetches' \in [Urls -> Nat], broken' \subseteq Urls,
         pc' \in [Procs -> Active \cup {"wait", "group", "done", "error"}],
         at' \in [Procs -> 1..(NumSources + 1)], url' \in [Procs -> Urls],
         meta' \in [Procs -> 0..MaxRev],
         seen' \in [Targets -> [Groups -> SUBSET
           [sub: {"policy", "data"}, url: Urls, rev: 0..MaxRev, complete: BOOLEAN]]]
  PROVE  TypeOK'
  <1>1. EntryType' = EntryType /\ FileType' = FileType
    BY SetupKept DEF EntryType, FileType
  <1>2. QED
    BY <1>1, SetupKept DEF TypeOK, Directories, Active, Getting

\* TypeOK with the names of this module.
LEMMA TypeNow ==
  ASSUME TypeOK
  PROVE  /\ \A u \in DOMAIN cache : cache[u] \in EntryType
         /\ \A d \in DOMAIN files : d \in Directories /\ files[d] \in FileType
         /\ pc \in [Procs -> Active \cup {"wait", "group", "done", "error"}]
  BY DEF TypeOK, Directories, Active, Getting

LEMMA MarksType ==
  ASSUME TypeOK, NEW p, NEW st, NEW rev, Marks(p, st, rev)
  PROVE  DOMAIN cache' \subseteq Urls /\ \A u \in DOMAIN cache' : cache'[u] \in EntryType
  BY DEF Marks, TypeOK

LEMMA WritesType ==
  ASSUME TypeOK, NEW d \in Directories, NEW rev, NEW c, Writes(d, rev, c)
  PROVE  \A e \in DOMAIN files' : e \in Directories /\ files'[e] \in FileType
  BY TypeNow DEF Writes

LEMMA TypeStep ==
  ASSUME IInv, [Next]_vars
  PROVE  TypeOK'
  <1> USE DEF IInv
  <1>1. setup' = setup /\ setup \in Setups
    BY StepCases DEF TypeOK
  <1> USE <1>1
  <1>2. ASSUME NEW p \in Procs, GetPolicy(p) PROVE TypeOK'
    <2>0. pc[p] \in Active
      BY <1>2 DEF GetPolicy, ReadUrl, LoadOrStore, BeginDownload, Downloaded, DownloadFails,
           Await, Stat, Symlink, BeginAgain, DownloadedAgain, Pin, Active, Getting
    <2>1. CASE ReadUrl(p)
      BY <2>0, <2>1, ActiveType, TypeNow, TypeNext DEF TypeOK, ReadUrl, Go, Active, Getting
    <2>2. CASE LoadOrStore(p)
      <3>1. Entry(MyDest(p)) \in EntryType
        BY <2>0, ActiveType, SetupFacts DEF Entry, EntryType, Directories
      <3>2. DOMAIN cache' \subseteq Urls /\ \A u \in DOMAIN cache' : cache'[u] \in EntryType
        BY <2>0, <2>2, <3>1, ActiveType DEF LoadOrStore, TypeOK
      <3>3. QED
        BY <2>2, <3>2, TypeNow, TypeNext DEF TypeOK, LoadOrStore, Go, Active, Getting
    <2>3. CASE BeginDownload(p)
      <3>1. /\ DOMAIN cache' \subseteq Urls /\ \A u \in DOMAIN cache' : cache'[u] \in EntryType
            /\ \A e \in DOMAIN files' : e \in Directories /\ files'[e] \in FileType
        <4>1. /\ Marks(p, "running", cache[url[p]].rev) /\ cache[url[p]].dir \in Directories
              /\ Writes(cache[url[p]].dir, NotPinned, FALSE)
          BY <2>3, BeginDownloadEffect, EntryFacts DEF Marks
        <4>2. QED
          BY <4>1, MarksType, WritesType
      <3>2. fetches' \in [Urls -> Nat]
        BY <2>3 DEF BeginDownload, TypeOK
      <3>3. QED
        BY <2>3, <3>1, <3>2, TypeNow, TypeNext DEF TypeOK, BeginDownload, Go, Active, Getting
    <2>4. CASE Downloaded(p)
      <3>1. /\ DOMAIN cache' \subseteq Urls /\ \A u \in DOMAIN cache' : cache'[u] \in EntryType
            /\ \A e \in DOMAIN files' : e \in Directories /\ files'[e] \in FileType
        <4>1. /\ Marks(p, "done", Revision(url[p])) /\ cache[url[p]].dir \in Directories
              /\ Writes(cache[url[p]].dir, Revision(url[p]), TRUE)
          BY <2>4, DownloadedEffect, EntryFacts DEF Marks
        <4>2. QED
          BY <4>1, MarksType, WritesType
      <3>2. QED
        BY <2>4, <3>1, TypeNow, TypeNext DEF TypeOK, Downloaded, Go, Active, Getting
    <2>5. CASE DownloadFails(p)
      <3>1. DOMAIN cache' \subseteq Urls /\ \A u \in DOMAIN cache' : cache'[u] \in EntryType
        BY <2>5, DownloadFailsEffect, MarksType
      <3>2. broken' \subseteq Urls
        BY <2>0, <2>5, ActiveType DEF DownloadFails, TypeOK
      <3>3. QED
        BY <2>5, <3>1, <3>2, TypeNow, TypeNext DEF TypeOK, DownloadFails, Go
    <2>6. CASE Await(p)
      BY <2>6, TypeNow, TypeNext DEF TypeOK, Await, Go, Active, Getting
    <2>7. CASE Stat(p)
      <3>1. cache[url[p]].rev \in 0..MaxRev
        BY <2>7, EntryFacts DEF Stat, CacheInv
      <3>2. meta' \in [Procs -> 0..MaxRev]
        BY <2>7, <3>1 DEF Stat, TypeOK
      <3>3. QED
        BY <2>7, <3>2, TypeNow, TypeNext DEF TypeOK, Stat, Go, Active, Getting
    <2>8. CASE Symlink(p)
      <3>1. \A e \in DOMAIN files' : e \in Directories /\ files'[e] \in FileType
        BY <2>0, <2>8, SymlinkEffect, WritesType, ActiveType, TypeNow DEF Symlink
      <3>2. pc' \in [Procs -> Active \cup {"wait", "group", "done", "error"}]
        BY <2>8, TypeNow DEF Symlink, Go, Active, Getting
      <3>3. QED
        BY <2>8, <3>1, <3>2, TypeNow, TypeNext DEF TypeOK, Symlink
    <2>9. CASE BeginAgain(p)
      <3>1. \A e \in DOMAIN files' : e \in Directories /\ files'[e] \in FileType
        BY <2>0, <2>9, BeginAgainEffect, WritesType, ActiveType
      <3>2. fetches' \in [Urls -> Nat]
        BY <2>9 DEF BeginAgain, TypeOK
      <3>3. QED
        BY <2>9, <3>1, <3>2, TypeNow, TypeNext DEF TypeOK, BeginAgain, Go, Active, Getting
    <2>10. CASE DownloadedAgain(p)
      <3>1. \A e \in DOMAIN files' : e \in Directories /\ files'[e] \in FileType
        BY <2>0, <2>10, DownloadedAgainEffect, WritesType, ActiveType, TypeNow
          DEF DownloadedAgain, Go, TypeOK
      <3>2. broken' \subseteq Urls /\ meta' \in [Procs -> 0..MaxRev]
        <4>1. url[p] \in Urls /\ Revision(url[p]) \in 0..MaxRev
          BY <2>0, ActiveType, RevisionType
        <4>2. QED
          BY <2>10, <4>1 DEF DownloadedAgain, TypeOK
      <3>3. pc' \in [Procs -> Active \cup {"wait", "group", "done", "error"}]
        BY <2>10, TypeNow DEF DownloadedAgain, Go, Active, Getting
      <3>4. QED
        BY <2>10, <3>1, <3>2, <3>3, TypeNow, TypeNext DEF TypeOK, DownloadedAgain
    <2>11. CASE Pin(p)
      <3>1. src' \in [Owners -> [Sources -> Urls]]
        <4>1. CASE UNCHANGED src
          BY <4>1 DEF TypeOK
        <4>2. CASE src' = [src EXCEPT ![Owner(p)][at[p]].rev = meta[p]]
          <5>1. [src[Owner(p)][at[p]] EXCEPT !.rev = meta[p]] \in Urls
            BY <2>0, ActiveType DEF Urls
          <5>2. [src[Owner(p)] EXCEPT ![at[p]].rev = meta[p]] \in [Sources -> Urls]
            BY <2>0, <5>1, ActiveType DEF TypeOK
          <5>3. QED
            BY <2>0, <4>2, <5>2, ActiveType DEF TypeOK
        <4>3. QED
          BY <2>11, <4>1, <4>2 DEF Pin
      <3>2. pc' \in [Procs -> Active \cup {"wait", "group", "done", "error"}]
        BY <2>11, TypeNow DEF Pin, Go, Active, Getting
      <3>3. QED
        BY <2>11, <3>1, <3>2, TypeNow, TypeNext DEF TypeOK, Pin
    <2>12. QED
      BY <1>2, <2>1, <2>2, <2>3, <2>4, <2>5, <2>6, <2>7, <2>8, <2>9, <2>10, <2>11 DEF GetPolicy
  <1>3. ASSUME NEW p \in Procs, at[p] \in Sources
        PROVE  From(p, at[p] + 1) \in 1..(NumSources + 1)
    <2>1. NumSources \in Nat /\ at[p] \in 1..NumSources
      BY <1>3, SetupFacts
    <2>2. at[p] + 1 \in 1..(NumSources + 1)
      BY <2>1
    <2>3. From(p, at[p] + 1) \in (at[p] + 1)..(NumSources + 1)
      BY <2>2, FromFacts
    <2>4. QED
      BY <2>1, <2>3
  <1>4. ASSUME NEW p \in Procs, NextSource(p) PROVE TypeOK'
    <2>1. at[p] \in Sources
      BY <1>4, ActiveType DEF NextSource, Active, Getting
    <2>2. QED
      BY <1>3, <1>4, <2>1, TypeNow, TypeNext DEF TypeOK, NextSource, Go, Active, Getting
  <1>5. ASSUME NEW p \in Procs, Begin(p) PROVE TypeOK'
    BY <1>5, TypeNow, TypeNext DEF TypeOK, Begin, Go, Active, Getting
  <1>6. ASSUME NEW p \in Procs, RunConftest(p) PROVE TypeOK'
    <2>1. at[p] \in Sources /\ p \in Targets
      BY <1>6, ActiveType DEF RunConftest, Active, Getting, Procs
    <2>2. Contents(Owner(p), GroupOf(p)) \in SUBSET
            [sub: {"policy", "data"}, url: Urls, rev: 0..MaxRev, complete: BOOLEAN]
      BY TypeNow DEF Contents, Directories, FileType
    <2>3. GroupOf(p) \in Groups
      BY <2>1, SetupFacts DEF GroupOf
    <2>4. seen' \in [Targets -> [Groups -> SUBSET
            [sub: {"policy", "data"}, url: Urls, rev: 0..MaxRev, complete: BOOLEAN]]]
      BY <1>6, <2>1, <2>2, <2>3 DEF RunConftest, TypeOK
    <2>5. QED
      BY <1>3, <1>6, <2>1, <2>4, TypeNow, TypeNext DEF TypeOK, RunConftest, Go, Active, Getting
  <1>7. CASE PinGroup
    <2>1. at[Pre] \in Sources /\ Pre \in Procs
      BY <1>7, SetupFacts, ActiveType DEF PinGroup, Active, Getting
    <2>2. spec' \in [Sources -> Urls]
      BY <1>7, SetupFacts DEF PinGroup, TypeOK
    <2>3. at' \in [Procs -> 1..(NumSources + 1)]
      BY <1>3, <1>7, <2>1 DEF PinGroup, TypeOK
    <2>4. QED
      BY <1>7, <2>2, <2>3, TypeNow, TypeNext DEF TypeOK, PinGroup, Go
  <1>8. CASE PreProcess
    <2>1. src' \in [Owners -> [Sources -> Urls]]
      BY <1>8 DEF PreProcess, TypeOK
    <2>2. pc' \in [Procs -> Active \cup {"wait", "group", "done", "error"}]
      BY <1>8, TypeNow DEF PreProcess, Go, Active, Getting
    <2>3. QED
      BY <1>8, <2>1, <2>2, TypeNow, TypeNext DEF TypeOK, PreProcess
  <1>9. CASE Destroy
    <2>1. \A e \in DOMAIN files' : e \in Directories /\ files'[e] \in FileType
      BY <1>9, TypeNow DEF Destroy, Restrict
    <2>2. QED
      BY <1>9, <2>1, TypeNow, TypeNext DEF TypeOK, Destroy
  <1>10. ASSUME NEW r \in Refs, Push(r) PROVE TypeOK'
    <2>1. head' \in [Refs -> 1..MaxRev]
      BY <1>10, SetupFacts DEF TypeOK, Push
    <2>2. QED
      BY <1>10, <2>1, TypeNow, TypeNext DEF TypeOK, Push
  <1>11. CASE UNCHANGED vars
    BY <1>11, TypeNow, TypeNext DEF TypeOK, vars
  <1>12. QED
    BY <1>2, <1>4, <1>5, <1>6, <1>7, <1>8, <1>9, <1>10, <1>11, StepCases

-------------------------------------------------------------------------------
(* What a step leaves alone *)

\* A step of GetPolicy is about the source its goroutine is at.
LEMMA GetPolicyFrame ==
  ASSUME IInv, NEW p \in Procs, GetPolicy(p)
  PROVE  /\ pc[p] \in Active /\ pc'[p] \in Getting \cup {"error"}
         /\ at' = at /\ spec' = spec /\ seen' = seen
         /\ \A q \in Procs : q # p => pc'[q] = pc[q] /\ url'[q] = url[q] /\ meta'[q] = meta[q]
         /\ pc[p] # "get" => url' = url
         /\ pc[p] # "pin" => src' = src
         /\ pc'[p] = "again" => pc[p] = "link" /\ ~Symlinks
  <1> USE DEF IInv, TypeOK, Go, Active, Getting
  <1>1. CASE ReadUrl(p)
    BY <1>1 DEF ReadUrl
  <1>2. CASE LoadOrStore(p)
    BY <1>2 DEF LoadOrStore
  <1>3. CASE BeginDownload(p)
    BY <1>3 DEF BeginDownload
  <1>4. CASE Downloaded(p)
    BY <1>4 DEF Downloaded
  <1>5. CASE DownloadFails(p)
    BY <1>5 DEF DownloadFails
  <1>6. CASE Await(p)
    BY <1>6 DEF Await
  <1>7. CASE Stat(p)
    BY <1>7 DEF Stat
  <1>8. CASE Symlink(p)
    BY <1>8 DEF Symlink
  <1>9. CASE BeginAgain(p)
    BY <1>9 DEF BeginAgain
  <1>10. CASE DownloadedAgain(p)
    BY <1>10 DEF DownloadedAgain
  <1>11. CASE Pin(p)
    BY <1>11 DEF Pin
  <1>12. QED
    BY <1>1, <1>2, <1>3, <1>4, <1>5, <1>6, <1>7, <1>8, <1>9, <1>10, <1>11 DEF GetPolicy

\* The other steps of a goroutine move on to another source or stop.
LEMMA MoveFrame ==
  ASSUME IInv, NEW p \in Procs, NextSource(p) \/ Begin(p) \/ RunConftest(p)
  PROVE  /\ spec' = spec /\ src' = src /\ cache' = cache /\ files' = files
         /\ fetches' = fetches /\ url' = url /\ meta' = meta
         /\ \A q \in Procs : q # p => pc'[q] = pc[q] /\ at'[q] = at[q]
         /\ pc'[p] = "get" \/ (pc'[p] = "done" /\ p # Pre)
         /\ pc[p] = "got" \/ (pc[p] = "wait" /\ at' = at /\ pc'[p] = "get")
         /\ pc[p] = "got" => at[p] \in Sources /\ at'[p] = From(p, at[p] + 1)
  <1>0. /\ pc[p] = "got" => at[p] \in Sources
        /\ DOMAIN pc = Procs /\ DOMAIN at = Procs
    BY ActiveType DEF Active, Getting, IInv, TypeOK
  <1>1. CASE NextSource(p)
    BY <1>0, <1>1 DEF NextSource, Go
  <1>2. CASE Begin(p)
    BY <1>0, <1>2 DEF Begin, Go
  <1>3. CASE RunConftest(p)
    BY <1>0, <1>3 DEF RunConftest, Go
  <1>4. QED
    BY <1>1, <1>2, <1>3

\* main's own steps.
LEMMA MainFrame ==
  ASSUME IInv, PinGroup \/ PreProcess
  PROVE  /\ cache' = cache /\ files' = files /\ fetches' = fetches /\ url' = url
         /\ meta' = meta /\ seen' = seen /\ pc[Pre] \in {"got", "group"} /\ Command = "image"
         /\ \A p \in Procs : p # Pre => pc'[p] = pc[p] /\ at'[p] = at[p]
         /\ pc'[Pre] \in {"group", "get", "done"}
         /\ \A p \in Targets : pc[p] = "wait"
  <1> USE DEF IInv, TypeOK, Go
  <1>1. CASE PinGroup
    BY <1>1, SetupFacts DEF PinGroup, PcInv
  <1>2. CASE PreProcess
    BY <1>2, SetupFacts DEF PreProcess, PcInv
  <1>3. QED
    BY <1>1, <1>2

LEMMA PcStep ==
  ASSUME IInv, [Next]_vars
  PROVE  PcInv'
  <1> USE DEF IInv
  <1>1. setup' = setup /\ setup \in Setups
    BY StepCases DEF TypeOK
  <1>2. /\ Command' = Command /\ Sources' = Sources /\ Symlinks' = Symlinks
        /\ \A p, s : Wanted(p, s)' = Wanted(p, s)
    BY <1>1, SetupKept
  <1>3. ASSUME NEW p \in Procs, GetPolicy(p) PROVE PcInv'
    BY <1>1, <1>2, <1>3, GetPolicyFrame, SetupFacts DEF PcInv, Active, Getting
  <1>4. ASSUME NEW p \in Procs, at[p] \in Sources
        PROVE  From(p, at[p] + 1) \in Sources => Wanted(p, From(p, at[p] + 1))
    BY <1>1, <1>4, FromFacts, SetupFacts
  <1>5. ASSUME NEW p \in Procs, NextSource(p) PROVE PcInv'
    <2>1. /\ at'[p] = From(p, at[p] + 1) /\ at[p] \in Sources /\ From(p, at[p] + 1) \in Sources
          /\ \A q \in Procs : q # p => pc'[q] = pc[q] /\ at'[q] = at[q]
          /\ pc'[p] = "get" /\ pc[p] = "got"
      BY <1>5, MoveFrame DEF NextSource, MoreInGroup, Go, TypeOK
    <2>2. QED
      BY <1>1, <1>2, <1>4, <2>1, SetupFacts DEF PcInv
  <1>6. ASSUME NEW p \in Procs, Begin(p) PROVE PcInv'
    <2>1. p \in Targets /\ pc[Pre] = "done" /\ at[p] = 1
      BY <1>6, SetupFacts DEF PcInv, Begin, Procs
    <2>2. Wanted(p, at[p])
      BY <1>1, <2>1, SetupFacts DEF Wanted
    <2>3. QED
      BY <1>1, <1>2, <1>6, <2>1, <2>2, MoveFrame, SetupFacts DEF PcInv, Begin
  <1>7. ASSUME NEW p \in Procs, RunConftest(p) PROVE PcInv'
    <2>1. /\ at'[p] = From(p, at[p] + 1) /\ at[p] \in Sources /\ p # Pre
          /\ \A q \in Procs : q # p => pc'[q] = pc[q] /\ at'[q] = at[q]
          /\ pc'[p] = "get" \/ pc'[p] = "done"
          /\ pc'[p] = "get" => From(p, at[p] + 1) \in Sources
          /\ pc[p] = "got"
      BY <1>7, MoveFrame DEF RunConftest, Go, TypeOK
    <2>2. QED
      BY <1>1, <1>2, <1>4, <2>1, SetupFacts DEF PcInv, Active, Getting
  <1>8. CASE PinGroup
    <2>1. /\ at'[Pre] = From(Pre, at[Pre] + 1) /\ at[Pre] \in Sources /\ pc'[Pre] = "group"
          /\ pc[Pre] = "got"
      BY <1>1, <1>8, SetupFacts, ActiveType DEF PinGroup, Go, TypeOK, Active, Getting
    <2>2. \A p \in Procs : p # Pre => pc'[p] = pc[p] /\ at'[p] = at[p]
      BY <1>8, MainFrame
    <2>3. Command = "image" /\ \A p \in Targets : pc[p] = "wait" /\ p # Pre /\ p \in Procs
      BY <1>1, <1>8, MainFrame, SetupFacts
    <2>4. pc'[Pre] = "group" /\ (at'[Pre] \in Sources => Wanted(Pre, at'[Pre]))
      BY <1>1, <1>4, <2>1, SetupFacts
    <2>5. QED
      BY <1>2, <2>2, <2>3, <2>4 DEF PcInv, Active, Getting
  <1>9. CASE PreProcess
    <2>1. /\ pc[Pre] = "group" /\ at' = at
          /\ (pc'[Pre] = "get" /\ at[Pre] \in Sources) \/ pc'[Pre] = "done"
      BY <1>1, <1>9, SetupFacts DEF PreProcess, Go, TypeOK
    <2>2. \A p \in Procs : p # Pre => pc'[p] = pc[p]
      BY <1>9, MainFrame
    <2>3. Command = "image" /\ \A p \in Targets : pc[p] = "wait" /\ p # Pre /\ p \in Procs
      BY <1>1, <1>9, MainFrame, SetupFacts
    <2>4. QED
      BY <1>2, <2>1, <2>2, <2>3 DEF PcInv, Active, Getting
  <1>10. CASE UNCHANGED <<pc, at>>
    BY <1>2, <1>10 DEF PcInv
  <1>11. QED
    BY <1>3, <1>5, <1>6, <1>7, <1>8, <1>9, <1>10, StepCases DEF Destroy, Push, vars

\* A URL that is read, main's end and the end of all are final.
LEMMA Settled ==
  ASSUME IInv, [Next]_vars
  PROVE  /\ pc[Pre] = "done" => pc'[Pre] = "done" /\ spec' = spec
         /\ Over => Over'
         /\ \A p \in Procs : Ended(p) => pc'[p] = pc[p] /\ at'[p] = at[p]
  <1> USE DEF IInv
  <1>1. setup' = setup /\ setup \in Setups
    BY StepCases DEF TypeOK
  <1>2. /\ pc[Pre] = "done" => pc'[Pre] = "done" /\ spec' = spec
        /\ \A p \in Procs : Ended(p) => pc'[p] = pc[p] /\ at'[p] = at[p]
    <2>1. ASSUME NEW p \in Procs, GetPolicy(p) PROVE <1>2!1 /\ <1>2!2
      BY <1>1, <2>1, GetPolicyFrame, SetupFacts DEF Ended, Active, Getting
    <2>2. ASSUME NEW p \in Procs, NextSource(p) \/ Begin(p) \/ RunConftest(p) PROVE <1>2!1 /\ <1>2!2
      BY <1>1, <2>2, MoveFrame, SetupFacts DEF Ended
    <2>3. ASSUME PinGroup \/ PreProcess PROVE <1>2!1 /\ <1>2!2
      BY <1>1, <2>3, MainFrame, SetupFacts DEF Ended
    <2>4. CASE UNCHANGED <<pc, at, spec>>
      BY <2>4
    <2>5. QED
      BY <2>1, <2>2, <2>3, <2>4, StepCases DEF Destroy, Push, vars
  <1>3. QED
    BY <1>1, <1>2, SetupKept, SetupFacts DEF Over, Ended

-------------------------------------------------------------------------------
(* The URLs of the sources *)

\* A target's Pin writes the URL that is there, or one that it will not read again.
LEMMA PinEffect ==
  ASSUME IInv, NEW p \in Procs, Pin(p)
  PROVE  /\ \A o \in Owners, s \in Sources :
              /\ src'[o][s].ref = src[o][s].ref
              /\ ~(o = Owner(p) /\ s = at[p]) => src'[o][s] = src[o][s]
         /\ pc'[p] = "got" /\ ~IsInline(at[p]) => src'[Owner(p)][at[p]].rev = meta[p]
         /\ pc'[p] \in {"got", "error"} /\ (pc'[p] = "error" => src' = src)
         /\ meta[p] # NotPinned /\ (url[p].rev # NotPinned => meta[p] = url[p].rev)
         /\ Command = "image" /\ p \in Targets => src' = src
  <1> USE DEF IInv
  <1>1. /\ pc[p] = "pin" /\ pc[p] \in Active /\ pc[p] \in Getting /\ setup \in Setups
        /\ at[p] \in Sources /\ Owner(p) \in Owners /\ DOMAIN pc = Procs
        /\ src \in [Owners -> [Sources -> Urls]] /\ src[Owner(p)][at[p]] \in Urls
    BY ActiveType DEF Pin, Active, Getting, TypeOK
  <1>2. meta[p] # NotPinned /\ (url[p].rev # NotPinned => meta[p] = url[p].rev)
    BY <1>1 DEF CacheInv
  <1>3. CASE UNCHANGED src /\ (pc'[p] = "error" \/ (IsInline(at[p]) /\ pc'[p] = "got"))
    BY <1>1, <1>2, <1>3
  <1>4. CASE /\ src' = [src EXCEPT ![Owner(p)][at[p]].rev = meta[p]]
             /\ pc'[p] = "got" /\ ~IsInline(at[p])
    <2>1. /\ src'[Owner(p)][at[p]] = [src[Owner(p)][at[p]] EXCEPT !.rev = meta[p]]
          /\ \A o \in Owners, s \in Sources :
               ~(o = Owner(p) /\ s = at[p]) => src'[o][s] = src[o][s]
      BY <1>1, <1>4
    <2>2. /\ src'[Owner(p)][at[p]].ref = src[Owner(p)][at[p]].ref
          /\ src'[Owner(p)][at[p]].rev = meta[p]
      BY <1>1, <2>1 DEF Urls
    <2>3. ASSUME Command = "image", p \in Targets PROVE src' = src
      <3>1. Owner(p) = Shared /\ pc[Pre] = "done"
        BY <1>1, <2>3, SetupFacts DEF Owner, PcInv
      <3>2. src[Shared] = spec /\ url[p] = spec[at[p]] /\ spec[at[p]].rev # NotPinned
        BY <1>1, <1>4, <2>3, <3>1 DEF UrlInv
      <3>3. meta[p] = src[Owner(p)][at[p]].rev
        BY <1>2, <3>1, <3>2
      <3>4. [src[Owner(p)][at[p]] EXCEPT !.rev = meta[p]] = src[Owner(p)][at[p]]
        BY <1>1, <3>3 DEF Urls
      <3>5. [src[Owner(p)] EXCEPT ![at[p]].rev = meta[p]] = src[Owner(p)]
        BY <1>1, <3>4
      <3>6. QED
        BY <1>1, <1>4, <3>5
    <2>4. QED
      BY <1>1, <1>2, <1>4, <2>1, <2>2, <2>3
  <1>5. QED
    BY <1>1, <1>3, <1>4 DEF Pin, Go

LEMMA UrlStep ==
  ASSUME IInv, [Next]_vars
  PROVE  UrlInv'
  <1> USE DEF IInv
  <1>1. setup' = setup /\ setup \in Setups /\ Pre \notin Targets
    BY StepCases, SetupAssumption DEF TypeOK, Pre
  <1>2. /\ Command' = Command /\ Sources' = Sources /\ Config' = Config
        /\ \A s : IsInline(s)' = IsInline(s)
    BY <1>1, SetupKept
  <1> DEFINE Refer == \A s \in Sources : spec[s].ref = Config[s].ref
                        /\ \A o \in Owners : src[o][s].ref = Config[s].ref
  <1> DEFINE Image == Command = "image" /\ pc[Pre] = "done" =>
                        /\ src[Shared] = spec
                        /\ \A s \in Sources : ~IsInline(s) => spec[s].rev # NotPinned
  <1> DEFINE Input == Command = "input" =>
                        /\ \A s \in Sources : spec[s].rev = Config[s].rev
                        /\ \A p \in Targets, s \in Sources :
                             s > at[p] \/ (s = at[p] /\ pc[p] # "got") => src[p][s] = spec[s]
  <1> DEFINE Read == \A p \in Targets : pc[p] \in Getting => url[p] = spec[at[p]]
  <1>3. Refer /\ Image /\ Input /\ Read
    BY DEF UrlInv
  <1>4. SUFFICES Refer' /\ Image' /\ Input' /\ Read'
    BY DEF UrlInv
  <1>5. ASSUME NEW p \in Procs, GetPolicy(p) PROVE Refer' /\ Image' /\ Input' /\ Read'
    <2>1. /\ pc[p] \in Active /\ at' = at /\ spec' = spec /\ at[p] \in Sources
          /\ pc'[p] \in Getting \cup {"error"}
          /\ \A q \in Procs : q # p => pc'[q] = pc[q] /\ url'[q] = url[q]
          /\ pc[p] # "get" => url' = url
          /\ p \in Targets => pc[Pre] = "done"
      BY <1>1, <1>5, GetPolicyFrame, ActiveType DEF PcInv, Active, Getting
    <2>2. CASE ReadUrl(p)
      <3>1. /\ src' = src /\ pc[p] = "get" /\ pc'[p] = "load" /\ url'[p] = src[Owner(p)][at[p]]
        BY <2>2 DEF ReadUrl, Go, TypeOK
      <3>2. p \in Targets => url'[p] = spec[at[p]]
        BY <1>1, <1>3, <2>1, <3>1, SetupFacts DEF Owner
      <3>3. Refer' /\ Image'
        BY <1>1, <1>2, <1>3, <2>1, <3>1, SetupFacts DEF Getting
      <3>4. Input'
        BY <1>1, <1>2, <1>3, <2>1, <3>1, SetupFacts DEF Getting
      <3>5. Read'
        BY <1>1, <1>2, <1>3, <2>1, <3>2, SetupFacts
      <3>6. QED
        BY <3>3, <3>4, <3>5
    <2>3. CASE Pin(p)
      <3>1. pc[p] = "pin" /\ pc'[p] \in {"got", "error"} /\ (pc'[p] = "error" => src' = src)
        BY <2>3, PinEffect DEF Pin
      <3>2. Refer'
        BY <1>1, <1>2, <1>3, <2>1, <2>3, PinEffect
      <3>3. Image'
        BY <1>1, <1>2, <1>3, <2>1, <2>3, <3>1, PinEffect, SetupFacts DEF Procs, Active, Getting
      <3>4. ASSUME Command = "input", NEW q \in Targets, NEW s \in Sources,
                   s > at[q] \/ (s = at[q] /\ pc'[q] # "got")
            PROVE  src'[q][s] = spec[s]
        <4>1. q \in Owners /\ q \in Procs /\ Owner(p) = p /\ src[q][s] = spec[s]
          BY <1>1, <1>3, <2>1, <3>1, <3>4, SetupFacts DEF Owner
        <4>2. q = p /\ s = at[p] => pc'[p] = "error"
          BY <1>1, <2>1, <3>1, <3>4, SetupFacts
        <4>3. QED
          BY <2>3, <3>1, <4>1, <4>2, PinEffect
      <3>5. Input'
        BY <1>1, <1>2, <1>3, <2>1, <3>4
      <3>6. Read'
        BY <1>1, <1>2, <1>3, <2>1, <3>1, SetupFacts DEF Getting
      <3>7. QED
        BY <3>2, <3>3, <3>5, <3>6
    <2>4. CASE pc[p] \notin {"get", "pin"}
      <3>1. src' = src /\ url' = url /\ pc[p] # "got" /\ pc[p] \in Getting
        BY <1>5, <2>1, <2>4, GetPolicyFrame
          DEF GetPolicy, LoadOrStore, BeginDownload, Downloaded, DownloadFails, Await, Stat,
              Symlink, BeginAgain, DownloadedAgain, ReadUrl, Pin, Active
      <3>2. Refer' /\ Image'
        BY <1>1, <1>2, <1>3, <2>1, <3>1, SetupFacts DEF Getting
      <3>3. Input'
        BY <1>1, <1>2, <1>3, <2>1, <3>1, SetupFacts DEF Getting
      <3>4. Read'
        BY <1>1, <1>2, <1>3, <2>1, <3>1, SetupFacts
      <3>5. QED
        BY <3>2, <3>3, <3>4
    <2>5. QED
      BY <1>5, <2>2, <2>3, <2>4 DEF GetPolicy, LoadOrStore, BeginDownload, Downloaded,
           DownloadFails, Await, Stat, Symlink, BeginAgain, DownloadedAgain
  <1>6. ASSUME NEW p \in Procs, NextSource(p) \/ Begin(p) \/ RunConftest(p)
        PROVE  Refer' /\ Image' /\ Input' /\ Read'
    <2>1. /\ spec' = spec /\ src' = src /\ url' = url
          /\ \A q \in Procs : q # p => pc'[q] = pc[q] /\ at'[q] = at[q]
          /\ pc'[p] = "get" \/ (pc'[p] = "done" /\ p # Pre)
          /\ pc[p] = "got" \/ (pc[p] = "wait" /\ at' = at /\ pc'[p] = "get")
      BY <1>6, MoveFrame
    <2>2. p \in Targets /\ pc[p] = "got" => at'[p] = at[p] + 1 /\ at[p] \in Sources
      BY <1>1, <1>6, MoveFrame, FromFacts, SetupFacts
    <2>3. Refer' /\ Image'
      BY <1>1, <1>2, <1>3, <2>1, SetupFacts DEF Getting
    <2>4. ASSUME Command = "input", NEW q \in Targets, NEW s \in Sources,
                 s > at'[q] \/ (s = at'[q] /\ pc'[q] # "got")
          PROVE  src[q][s] = spec[s]
      <3>1. CASE q = p /\ pc[p] = "got"
        <4>1. s > at[q]
          BY <1>1, <2>2, <2>4, <3>1, SetupFacts
        <4>2. QED
          BY <1>3, <2>4, <4>1
      <3>2. CASE ~(q = p /\ pc[p] = "got")
        BY <1>1, <1>3, <2>1, <2>4, <3>2, SetupFacts
      <3>3. QED
        BY <3>1, <3>2
    <2>5. Input'
      BY <1>1, <1>2, <1>3, <2>1, <2>4
    <2>6. Read'
      BY <1>1, <1>2, <1>3, <2>1, SetupFacts DEF Getting
    <2>7. QED
      BY <2>3, <2>5, <2>6
  <1>7. CASE PinGroup
    <2>1. /\ Command = "image" /\ url' = url /\ pc'[Pre] = "group" /\ src' = src
          /\ \A p \in Targets : pc'[p] = "wait" /\ pc[p] = "wait" /\ at'[p] = at[p]
          /\ spec' = [s \in Sources |->
                       IF Config[s].group = GroupOf(Pre) THEN src[Pre][s] ELSE spec[s]]
      BY <1>1, <1>7, MainFrame, SetupFacts DEF PinGroup, Go, TypeOK
    <2>2. Refer'
      BY <1>1, <1>2, <1>3, <2>1, SetupFacts
    <2>3. Image' /\ Input' /\ Read'
      BY <1>2, <2>1 DEF Getting
    <2>4. QED
      BY <2>2, <2>3
  <1>8. CASE PreProcess
    <2>1. /\ Command = "image" /\ url' = url /\ pc[Pre] = "group" /\ spec' = spec
          /\ \A p \in Targets : pc'[p] = "wait"
          /\ \/ pc'[Pre] = "get" /\ src' = src
             \/ /\ pc'[Pre] = "done" /\ src' = [src EXCEPT ![Shared] = spec]
                /\ at[Pre] \notin Sources
      BY <1>1, <1>8, MainFrame, SetupFacts DEF PreProcess, Go, TypeOK
    <2>2. Refer'
      <3>1. \A o \in Owners : src'[o] = src[o] \/ src'[o] = spec
        BY <2>1 DEF TypeOK
      <3>2. QED
        BY <1>2, <1>3, <2>1, <3>1
    <2>3. ASSUME at[Pre] \notin Sources, NEW s \in Sources, ~IsInline(s)
          PROVE  spec[s].rev # NotPinned
      <3>1. s < at[Pre]
        BY <1>1, <2>3, SetupFacts DEF TypeOK
      <3>2. QED
        BY <2>1, <2>3, <3>1 DEF PinInv
    <2>4. Image'
      BY <1>1, <1>2, <2>1, <2>3, SetupFacts DEF TypeOK
    <2>5. Input' /\ Read'
      BY <1>2, <2>1 DEF Getting
    <2>6. QED
      BY <2>2, <2>4, <2>5
  <1>9. CASE UNCHANGED <<spec, src, url, pc, at>>
    BY <1>1, <1>2, <1>3, <1>9
  <1>10. QED
    BY <1>5, <1>6, <1>7, <1>8, <1>9, StepCases DEF Destroy, Push, vars

LEMMA PinStep ==
  ASSUME IInv, [Next]_vars
  PROVE  PinInv'
  <1> USE DEF IInv
  <1>1. /\ setup' = setup /\ setup \in Setups /\ Pre \notin Targets /\ Pre \in Procs
        /\ \A p \in Procs : p = Pre \/ p \in Targets
    BY StepCases, SetupFacts DEF TypeOK, Procs
  <1>2. /\ Sources' = Sources /\ Config' = Config /\ \A s : IsInline(s)' = IsInline(s)
    BY <1>1, SetupKept
  <1>3. CASE pc[Pre] \notin Active \cup {"group"}
    <2>1. pc[Pre] = "done" \/ pc[Pre] = "error"
      BY <1>1, <1>3, TypeNow DEF PcInv
    <2>2. pc'[Pre] = pc[Pre]
      BY <1>1, <2>1, Settled DEF Ended
    <2>3. QED
      BY <1>3, <2>2 DEF PinInv
  <1>4. CASE pc[Pre] \in Active \cup {"group"}
    <2>0. \A p \in Targets : pc[p] = "wait"
      BY <1>4 DEF PcInv, Active, Getting
    <2>1. ASSUME NEW p \in Procs, GetPolicy(p) PROVE PinInv'
      <3>1. p = Pre
        BY <1>1, <2>0, <2>1, GetPolicyFrame DEF Active, Getting
      <3>2. /\ at' = at /\ spec' = spec /\ GroupOf(Pre)' = GroupOf(Pre) /\ pc[Pre] \in Active
            /\ at[Pre] \in Sources
        BY <1>1, <1>2, <2>1, <3>1, GetPolicyFrame, ActiveType DEF GroupOf
      <3>3. CASE Pin(Pre)
        <4>1. Owner(Pre) = Pre /\ Pre \in Owners
          BY <1>1, SetupFacts DEF Owner
        <4>2. ASSUME NEW s \in Sources, ~IsInline(s), pc'[Pre] = "got" \/ s # at[Pre],
                     s < at[Pre] \/ s = at[Pre]
              PROVE  src'[Pre][s].rev # NotPinned
          BY <1>1, <1>4, <3>3, <4>1, <4>2, PinEffect DEF PinInv
        <4>3. \A s \in Sources : s < at[Pre] => s # at[Pre]
          BY <1>1, <3>2, SetupFacts
        <4>4. pc[Pre] # "group" /\ pc'[Pre] # "group"
          BY <3>3, PinEffect, <1>1 DEF Pin
        <4>5. QED
          BY <1>2, <1>4, <3>2, <4>2, <4>3, <4>4 DEF PinInv
      <3>4. CASE ~Pin(Pre)
        <4>1. /\ src' = src /\ pc'[Pre] # "got" /\ pc'[Pre] # "group"
          BY <1>1, <2>1, <3>1, <3>4 DEF GetPolicy, ReadUrl, LoadOrStore, BeginDownload, Downloaded,
               DownloadFails, Await, Stat, Symlink, BeginAgain, DownloadedAgain, Go, TypeOK
        <4>2. pc[Pre] # "group"
          BY <3>2 DEF Active, Getting
        <4>3. QED
          BY <1>2, <1>4, <3>2, <4>1, <4>2 DEF PinInv
      <3>5. QED
        BY <3>3, <3>4
    <2>2. ASSUME at'[Pre] = From(Pre, at[Pre] + 1), pc[Pre] = "got", NEW s \in Sources,
                 ~IsInline(s), s < at'[Pre]
          PROVE  s < at[Pre] \/ s = at[Pre]
      <3>1. at[Pre] \in Sources
        BY <1>1, <2>2, ActiveType DEF Active, Getting
      <3>2. CASE at[Pre] + 1 <= s
        <4>1. at[Pre] + 1 \in 1..(NumSources + 1)
          BY <1>1, <3>1, SetupFacts
        <4>2. ~Wanted(Pre, s)
          BY <1>1, <2>2, <3>2, <4>1, FromFacts
        <4>3. QED
          BY <2>2, <4>2 DEF Wanted
      <3>3. QED
        BY <1>1, <3>1, <3>2, SetupFacts
    <2>3. ASSUME NEW p \in Procs, NextSource(p) \/ Begin(p) \/ RunConftest(p) PROVE PinInv'
      <3>1. CASE p # Pre
        BY <1>1, <1>4, <2>0, <2>3, <3>1 DEF NextSource, RunConftest, Begin, Active, Getting
      <3>2. CASE p = Pre
        <4>1. /\ pc[Pre] = "got" /\ at'[Pre] = From(Pre, at[Pre] + 1) /\ src' = src
              /\ spec' = spec /\ pc'[Pre] = "get" /\ GroupOf(Pre)' = GroupOf(Pre)
          <5>1. NextSource(Pre)
            BY <1>1, <2>3, <3>2 DEF Begin, PcInv, RunConftest
          <5>2. at'[Pre] = From(Pre, at[Pre] + 1) /\ pc'[Pre] = "get" /\ pc[Pre] = "got"
            BY <1>1, <5>1, MoveFrame DEF NextSource
          <5>3. GroupOf(Pre)' = GroupOf(Pre)
            BY <1>2, <5>1, <5>2 DEF NextSource, MoreInGroup, GroupOf
          <5>4. QED
            BY <5>1, <5>2, <5>3 DEF NextSource
        <4>2. QED
          BY <1>2, <1>4, <2>2, <4>1 DEF PinInv, GroupOf
      <3>3. QED
        BY <3>1, <3>2
    <2>4. CASE PinGroup
      <3>1. /\ pc[Pre] = "got" /\ at'[Pre] = From(Pre, at[Pre] + 1) /\ src' = src
            /\ pc'[Pre] = "group"
            /\ \A s \in Sources : spec'[s] =
                 IF Config[s].group = GroupOf(Pre) THEN src[Pre][s] ELSE spec[s]
        BY <1>1, <2>4 DEF PinGroup, Go, TypeOK
      <3>2. \A s \in Sources : s = at[Pre] => Config[s].group = GroupOf(Pre)
        BY DEF GroupOf
      <3>3. QED
        BY <1>2, <1>4, <2>2, <3>1, <3>2 DEF PinInv
    <2>5. CASE PreProcess
      <3>1. /\ pc[Pre] = "group" /\ at' = at /\ spec' = spec
            /\ pc'[Pre] = "done" \/ (pc'[Pre] = "get" /\ src' = src)
        BY <1>1, <2>5 DEF PreProcess, Go, TypeOK
      <3>2. QED
        BY <1>2, <1>4, <3>1 DEF PinInv, Active, Getting
    <2>6. CASE UNCHANGED <<spec, src, pc, at>>
      BY <1>2, <2>6 DEF PinInv, GroupOf
    <2>7. QED
      BY <2>1, <2>3, <2>4, <2>5, <2>6, StepCases DEF Destroy, Push, vars
  <1>5. QED
    BY <1>3, <1>4

-------------------------------------------------------------------------------
(* The download cache *)

\* What a step may do to the cache: nothing, a new entry, or the entry of a download that
\* begins, ends or fails.
LEMMA CacheCases ==
  ASSUME IInv, NEW p \in Procs, GetPolicy(p)
  PROVE  \/ LoadOrStore(p)
         \/ BeginDownload(p) \/ Downloaded(p) \/ DownloadFails(p)
         \/ cache' = cache
  BY DEF GetPolicy, ReadUrl, Await, Stat, Symlink, BeginAgain, DownloadedAgain, Pin

LEMMA StoreEffect ==
  ASSUME IInv, NEW p \in Procs, LoadOrStore(p)
  PROVE  /\ DOMAIN cache' = DOMAIN cache \cup {url[p]}
         /\ \A u \in DOMAIN cache : cache'[u] = cache[u]
         /\ url[p] \notin DOMAIN cache =>
              /\ cache'[url[p]].dir = MyDest(p) /\ cache'[url[p]].state = "stored"
              /\ cache'[url[p]].rev = NotPinned
         /\ MyDest(p).url = url[p] /\ MyDest(p).owner = Owner(p)
         /\ pc[p] = "load" /\ pc'[p] = "call" /\ url' = url /\ files' = files
  BY DEF LoadOrStore, Entry, MyDest, Dest, Go, IInv, TypeOK

\* Entries stay, and what is downloaded is final.
LEMMA CacheGrows ==
  ASSUME IInv, [Next]_vars
  PROVE  /\ DOMAIN cache \subseteq DOMAIN cache'
         /\ \A u \in DOMAIN cache :
              /\ cache'[u].dir = cache[u].dir
              /\ cache[u].state = "done" => cache'[u] = cache[u]
  <1> DEFINE Grows == /\ DOMAIN cache \subseteq DOMAIN cache'
                      /\ \A u \in DOMAIN cache :
                           /\ cache'[u].dir = cache[u].dir
                           /\ cache[u].state = "done" => cache'[u] = cache[u]
  <1>1. ASSUME NEW p \in Procs, LoadOrStore(p) PROVE Grows
    BY <1>1, StoreEffect
  <1>2. ASSUME NEW p \in Procs, BeginDownload(p) PROVE Grows
    BY <1>2, BeginDownloadEffect DEF Marks
  <1>3. ASSUME NEW p \in Procs, Downloaded(p) PROVE Grows
    BY <1>3, DownloadedEffect DEF Marks
  <1>4. ASSUME NEW p \in Procs, DownloadFails(p) PROVE Grows
    BY <1>4, DownloadFailsEffect DEF Marks
  <1>5. CASE cache' = cache
    BY <1>5
  <1>6. QED
    BY <1>1, <1>2, <1>3, <1>4, <1>5, StepCases, CacheCases, MoveFrame, MainFrame
      DEF Destroy, Push, vars

LEMMA CacheStep ==
  ASSUME IInv, [Next]_vars
  PROVE  CacheInv'
  <1> USE DEF IInv
  <1>1. setup' = setup /\ setup \in Setups /\ TypeOK'
    BY StepCases, TypeStep DEF TypeOK
  <1> DEFINE Kept(u) == /\ cache[u].dir.url = u
                        /\ cache[u].state = "done" =>
                             cache[u].rev # NotPinned /\ (u.rev # NotPinned => cache[u].rev = u.rev)
  <1> DEFINE Own(p) ==
        /\ pc[p] \in {"call", "download", "stat", "link", "again", "pin"} => url[p] \in DOMAIN cache
        /\ pc[p] = "download" => cache[url[p]].state = "running"
        /\ pc[p] \in {"stat", "link", "again", "pin"} => cache[url[p]].state = "done"
        /\ pc[p] \in {"link", "pin"} =>
             meta[p] # NotPinned /\ (url[p].rev # NotPinned => meta[p] = url[p].rev)
  <1> DEFINE Alone(p, q) == pc[p] = "download" /\ pc[q] = "download" /\ url[p] = url[q] => p = q
  <1>2. /\ \A u \in DOMAIN cache : Kept(u)
        /\ \A p \in Procs : Own(p)
        /\ \A p, q \in Procs : Alone(p, q)
    BY DEF CacheInv
  <1>3. SUFFICES /\ \A u \in DOMAIN cache' : Kept(u)'
                 /\ \A p \in Procs : Own(p)'
                 /\ \A p, q \in Procs : Alone(p, q)'
    BY DEF CacheInv
  <1>4. ASSUME NEW p \in Procs, GetPolicy(p)
        PROVE  /\ \A u \in DOMAIN cache' : Kept(u)'
               /\ \A q \in Procs : Own(q)'
               /\ \A q, r \in Procs : Alone(q, r)'
    <2>1. \A q \in Procs : q # p => pc'[q] = pc[q] /\ url'[q] = url[q] /\ meta'[q] = meta[q]
      BY <1>4, GetPolicyFrame
    <2>2. CASE LoadOrStore(p)
      <3>1. /\ DOMAIN cache' = DOMAIN cache \cup {url[p]} /\ url' = url
            /\ \A u \in DOMAIN cache : cache'[u] = cache[u]
            /\ url[p] \notin DOMAIN cache =>
                 cache'[url[p]].dir.url = url[p] /\ cache'[url[p]].state = "stored"
            /\ pc[p] = "load" /\ pc'[p] = "call"
        BY <2>2, StoreEffect
      <3>2. \A u \in DOMAIN cache' : Kept(u)'
        BY <1>2, <3>1
      <3>3. \A q \in Procs : Own(q)'
        BY <1>2, <2>1, <3>1
      <3>4. \A q, r \in Procs : Alone(q, r)'
        BY <1>2, <2>1, <3>1
      <3>5. QED
        BY <3>2, <3>3, <3>4
    <2>3. CASE BeginDownload(p)
      <3>1. /\ Marks(p, "running", cache[url[p]].rev) /\ cache[url[p]].state = "stored"
            /\ pc[p] = "call" /\ pc'[p] = "download" /\ url' = url
        BY <2>3, BeginDownloadEffect DEF BeginDownload, Go, TypeOK
      <3>2. \A u \in DOMAIN cache' : Kept(u)'
        BY <1>2, <3>1 DEF Marks
      <3>3. \A q \in Procs : Own(q)'
        BY <1>2, <2>1, <3>1 DEF Marks
      <3>4. \A q, r \in Procs : Alone(q, r)'
        BY <1>2, <2>1, <3>1
      <3>5. QED
        BY <3>2, <3>3, <3>4
    <2>4. CASE Downloaded(p)
      <3>1. /\ Marks(p, "done", Revision(url[p])) /\ cache[url[p]].state = "running"
            /\ pc[p] = "download" /\ pc'[p] = "stat" /\ url' = url
        BY <2>4, DownloadedEffect DEF Downloaded, Go, TypeOK
      <3>2. Revision(url[p]) # NotPinned /\ (url[p].rev # NotPinned => Revision(url[p]) = url[p].rev)
        BY <3>1, RevisionType DEF TypeOK
      <3>3. \A u \in DOMAIN cache' : Kept(u)'
        BY <1>2, <3>1, <3>2 DEF Marks
      <3>4. \A q \in Procs : Own(q)'
        BY <1>2, <2>1, <3>1 DEF Marks
      <3>5. \A q, r \in Procs : Alone(q, r)'
        BY <1>2, <2>1, <3>1
      <3>6. QED
        BY <3>3, <3>4, <3>5
    <2>5. CASE DownloadFails(p)
      <3>1. /\ Marks(p, "failed", cache[url[p]].rev) /\ cache[url[p]].state = "running"
            /\ pc[p] = "download" /\ pc'[p] = "error" /\ url' = url
        BY <2>5, DownloadFailsEffect DEF DownloadFails, Go, TypeOK
      <3>2. \A u \in DOMAIN cache' : Kept(u)'
        BY <1>2, <3>1 DEF Marks
      <3>3. \A q \in Procs : Own(q)'
        BY <1>2, <2>1, <3>1 DEF Marks
      <3>4. \A q, r \in Procs : Alone(q, r)'
        BY <1>2, <2>1, <3>1
      <3>5. QED
        BY <3>2, <3>3, <3>4
    <2>6. ASSUME /\ cache' = cache /\ pc'[p] \notin {"call", "download"}
                 /\ pc'[p] \in {"stat", "link", "again", "pin"} =>
                      url' = url /\ url[p] \in DOMAIN cache /\ cache[url[p]].state = "done"
                 /\ pc'[p] \in {"link", "pin"} =>
                      meta'[p] # NotPinned /\ (url[p].rev # NotPinned => meta'[p] = url[p].rev)
          PROVE  /\ \A u \in DOMAIN cache' : Kept(u)'
                 /\ \A q \in Procs : Own(q)'
                 /\ \A q, r \in Procs : Alone(q, r)'
      BY <1>2, <2>1, <2>6
    <2>7. CASE ReadUrl(p) \/ Pin(p)
      BY <2>6, <2>7 DEF ReadUrl, Pin, Go, TypeOK
    <2>8. CASE Await(p)
      BY <1>2, <2>6, <2>8 DEF Await, Go, TypeOK
    <2>9. CASE Stat(p)
      <3>1. pc'[p] \in {"pin", "link"} /\ meta'[p] = cache[url[p]].rev /\ pc[p] = "stat"
            /\ cache' = cache /\ url' = url
        BY <2>9 DEF Stat, Go, TypeOK
      <3>2. QED
        BY <1>2, <2>6, <3>1
    <2>10. CASE Symlink(p)
      BY <1>2, <2>6, <2>10 DEF Symlink, Go, TypeOK
    <2>11. CASE BeginAgain(p)
      BY <1>2, <2>6, <2>11 DEF BeginAgain, Go, TypeOK
    <2>12. CASE DownloadedAgain(p)
      <3>1. Revision(url[p]) # NotPinned /\ (url[p].rev # NotPinned => Revision(url[p]) = url[p].rev)
        BY RevisionType DEF TypeOK
      <3>2. /\ cache' = cache /\ url' = url /\ pc[p] = "again"
            /\ pc'[p] = "error" \/ (pc'[p] = "pin" /\ meta'[p] = Revision(url[p]))
        BY <2>12 DEF DownloadedAgain, Go, TypeOK
      <3>3. QED
        BY <1>2, <2>6, <3>1, <3>2
    <2>13. QED
      BY <1>4, <2>2, <2>3, <2>4, <2>5, <2>7, <2>8, <2>9, <2>10, <2>11, <2>12 DEF GetPolicy
  <1>5. ASSUME cache' = cache, url' = url, meta' = meta,
               \A p \in Procs : pc'[p] = pc[p] \/ pc'[p] \in {"get", "group", "done"}
        PROVE  /\ \A u \in DOMAIN cache' : Kept(u)'
               /\ \A q \in Procs : Own(q)'
               /\ \A q, r \in Procs : Alone(q, r)'
    BY <1>2, <1>5
  <1>6. ASSUME NEW p \in Procs, NextSource(p) \/ Begin(p) \/ RunConftest(p)
        PROVE  /\ cache' = cache /\ url' = url /\ meta' = meta
               /\ \A q \in Procs : pc'[q] = pc[q] \/ pc'[q] \in {"get", "group", "done"}
    BY <1>6, MoveFrame
  <1>7. ASSUME PinGroup \/ PreProcess
        PROVE  /\ cache' = cache /\ url' = url /\ meta' = meta
               /\ \A q \in Procs : pc'[q] = pc[q] \/ pc'[q] \in {"get", "group", "done"}
    BY <1>7, MainFrame
  <1>8. CASE UNCHANGED <<cache, url, meta, pc>>
    BY <1>5, <1>8
  <1>9. QED
    BY <1>4, <1>5, <1>6, <1>7, <1>8, StepCases DEF Destroy, Push, vars

LEMMA CountStep ==
  ASSUME IInv, [Next]_vars
  PROVE  CountInv'
  <1> USE DEF IInv
  <1>1. setup' = setup /\ setup \in Setups /\ Symlinks' = Symlinks /\ Urls' = Urls
    BY StepCases, SetupKept DEF TypeOK
  <1>2. ASSUME NEW p \in Procs, LoadOrStore(p) PROVE CountInv'
    BY <1>1, <1>2, StoreEffect DEF CountInv, LoadOrStore
  <1>3. ASSUME NEW p \in Procs, BeginDownload(p) PROVE CountInv'
    <2>1. Marks(p, "running", cache[url[p]].rev) /\ cache[url[p]].state = "stored"
      BY <1>3, BeginDownloadEffect
    <2>2. /\ fetches'[url[p]] = fetches[url[p]] + 1 /\ url[p] \in Urls
          /\ \A u \in Urls : u # url[p] => fetches'[u] = fetches[u]
      BY <1>3 DEF BeginDownload, TypeOK
    <2>3. QED
      BY <1>1, <2>1, <2>2 DEF CountInv, Marks
  <1>4. ASSUME NEW p \in Procs, Downloaded(p) PROVE CountInv'
    BY <1>1, <1>4, DownloadedEffect DEF CountInv, Marks, Downloaded
  <1>5. ASSUME NEW p \in Procs, DownloadFails(p) PROVE CountInv'
    BY <1>1, <1>5, DownloadFailsEffect DEF CountInv, Marks, DownloadFails
  <1>6. CASE UNCHANGED <<cache, fetches>>
    BY <1>1, <1>6 DEF CountInv
  <1>7. CASE ~Symlinks
    BY <1>1, <1>7 DEF CountInv
  <1>8. QED
    BY <1>2, <1>3, <1>4, <1>5, <1>6, <1>7, StepCases, MoveFrame, MainFrame
      DEF GetPolicy, ReadUrl, Await, Stat, Symlink, BeginAgain, DownloadedAgain, Pin,
          Destroy, Push, vars

-------------------------------------------------------------------------------
(* The work directories *)

LEMMA MyDestFacts ==
  ASSUME NEW p
  PROVE  /\ MyDest(p).url = url[p] /\ MyDest(p).owner = Owner(p)
         /\ MyDest(p).group = GroupOf(p) /\ MyDest(p).sub = Subdir(at[p])
         /\ MyDest(p) = Dest(p, at[p], url[p])
  BY DEF MyDest, Dest, GroupOf

\* A directory stays until validate image is over.
LEMMA FilesGrow ==
  ASSUME IInv, [Next]_vars, ~Over
  PROVE  DOMAIN files \subseteq DOMAIN files'
  <1>1. ASSUME NEW p \in Procs, GetPolicy(p) PROVE DOMAIN files \subseteq DOMAIN files'
    BY <1>1 DEF GetPolicy, ReadUrl, LoadOrStore, BeginDownload, Downloaded, DownloadFails,
         Await, Stat, Symlink, BeginAgain, DownloadedAgain, Pin, Put
  <1>2. QED
    BY <1>1, StepCases, MoveFrame, MainFrame DEF Destroy, Over, Push, vars

\* Each directory is one of a URL in the cache, and the cache's own directories exist.
LEMMA FileHereStep ==
  ASSUME IInv, [Next]_vars
  PROVE  /\ \A d \in DOMAIN files' : d.url \in DOMAIN cache'
         /\ ~Over' => \A u \in DOMAIN cache' :
              cache'[u].state # "stored" => cache'[u].dir \in DOMAIN files'
         /\ \A p \in Procs : pc'[p] = "again" => MyDest(p)' \in DOMAIN files'
  <1> USE DEF IInv
  <1>1. setup' = setup /\ setup \in Setups
    BY StepCases DEF TypeOK
  <1>2. \A d \in DOMAIN files' : d.url \in DOMAIN cache'
    <2>1. ASSUME NEW p \in Procs, GetPolicy(p), NEW d \in DOMAIN files', d \notin DOMAIN files
          PROVE  d.url \in DOMAIN cache
      <3>1. CASE d = MyDest(p) /\ pc[p] \in {"link", "again"}
        BY <3>1, MyDestFacts DEF CacheInv
      <3>2. CASE BeginDownload(p) /\ d = cache[url[p]].dir
        BY <3>2 DEF CacheInv, BeginDownload
      <3>3. CASE Downloaded(p)
        <4>1. d = cache[url[p]].dir /\ url[p] \in DOMAIN cache
          <5>1. /\ DOMAIN files' = DOMAIN files \cup {cache[url[p]].dir}
                /\ url[p] \in DOMAIN cache
            BY <3>3, DownloadedEffect DEF Writes, Marks
          <5>2. QED
            BY <2>1, <5>1
        <4>2. QED
          BY <4>1 DEF CacheInv
      <3>4. CASE Symlink(p) \/ BeginAgain(p) \/ DownloadedAgain(p)
        <4>1. d = MyDest(p) /\ pc[p] \in {"link", "again"}
          BY <2>1, <3>4 DEF Symlink, BeginAgain, DownloadedAgain, Put
        <4>2. QED
          BY <3>1, <4>1
      <3>5. CASE ReadUrl(p) \/ LoadOrStore(p) \/ DownloadFails(p) \/ Await(p) \/ Stat(p) \/ Pin(p)
        BY <2>1, <3>5 DEF ReadUrl, LoadOrStore, DownloadFails, Await, Stat, Pin
      <3>6. CASE BeginDownload(p)
        BY <2>1, <3>2, <3>6 DEF BeginDownload, Put
      <3>7. QED
        BY <2>1, <3>3, <3>4, <3>5, <3>6 DEF GetPolicy
    <2>2. CASE \E p \in Procs : GetPolicy(p)
      BY <2>1, <2>2, CacheGrows DEF FileInv
    <2>3. CASE DOMAIN files' \subseteq DOMAIN files
      BY <2>3, CacheGrows DEF FileInv
    <2>4. QED
      BY <2>2, <2>3, StepCases, MoveFrame, MainFrame DEF Destroy, Restrict, Push, vars
  <1>3. ASSUME ~Over', NEW u \in DOMAIN cache', cache'[u].state # "stored"
        PROVE  cache'[u].dir \in DOMAIN files'
    <2>1. ~Over /\ DOMAIN files \subseteq DOMAIN files'
      BY <1>3, Settled, FilesGrow
    <2>2. CASE u \in DOMAIN cache /\ cache[u].state # "stored"
      BY <2>1, <2>2, CacheGrows DEF FileInv
    <2>3. CASE ~(u \in DOMAIN cache /\ cache[u].state # "stored")
      <3>1. PICK p \in Procs : LoadOrStore(p) \/ BeginDownload(p) \/ Downloaded(p) \/ DownloadFails(p)
        BY <1>3, <2>3, StepCases, CacheCases, MoveFrame, MainFrame DEF Destroy, Push, vars
      <3>2. BeginDownload(p) /\ u = url[p]
        <4>1. CASE LoadOrStore(p)
          <5>1. u \in DOMAIN cache \/ (u = url[p] /\ url[p] \notin DOMAIN cache)
            BY <1>3, <4>1, StoreEffect
          <5>2. QED
            BY <1>3, <2>3, <4>1, <5>1, StoreEffect
        <4>2. CASE Downloaded(p)
          BY <1>3, <2>3, <4>2, DownloadedEffect DEF Marks
        <4>3. CASE DownloadFails(p)
          BY <1>3, <2>3, <4>3, DownloadFailsEffect DEF Marks
        <4>4. CASE BeginDownload(p)
          BY <1>3, <2>3, <4>4, BeginDownloadEffect DEF Marks
        <4>5. QED
          BY <3>1, <4>1, <4>2, <4>3, <4>4
      <3>3. QED
        BY <3>2, BeginDownloadEffect DEF Marks, Writes
    <2>4. QED
      BY <2>2, <2>3
  <1>4. ASSUME NEW p \in Procs, pc'[p] = "again" PROVE MyDest(p)' \in DOMAIN files'
    <2>1. ASSUME at'[p] = at[p], url'[p] = url[p] PROVE MyDest(p)' = MyDest(p)
      BY <1>1, <2>1, SetupKept DEF MyDest
    <2>2. CASE BeginAgain(p)
      BY <2>1, <2>2, BeginAgainEffect DEF BeginAgain, Writes
    <2>3. CASE ~BeginAgain(p)
      <3>1. pc[p] = "again" /\ at'[p] = at[p] /\ url'[p] = url[p]
        <4>1. CASE GetPolicy(p)
          <5>1. pc[p] = "link"
            BY <1>4, <4>1, GetPolicyFrame
          <5>2. Symlink(p)
            BY <2>3, <4>1, <5>1 DEF GetPolicy, ReadUrl, LoadOrStore, BeginDownload, Downloaded,
                 DownloadFails, Await, Stat, DownloadedAgain, Pin
          <5>3. QED
            BY <1>4, <5>2 DEF Symlink, Go, TypeOK
        <4>2. ASSUME NEW q \in Procs, q # p, GetPolicy(q)
              PROVE  pc[p] = "again" /\ at'[p] = at[p] /\ url'[p] = url[p]
          BY <1>4, <4>2, GetPolicyFrame
        <4>3. QED
          BY <1>1, <1>4, <4>1, <4>2, StepCases, MoveFrame, MainFrame, SetupFacts
            DEF Destroy, Push, vars
      <3>2. DOMAIN files \subseteq DOMAIN files'
        BY <3>1, NotOver, FilesGrow DEF Active, Getting
      <3>3. QED
        BY <2>1, <3>1, <3>2 DEF FileInv
    <2>4. QED
      BY <2>2, <2>3
  <1>5. QED
    BY <1>2, <1>3, <1>4

\* Where links can be made, a directory is as complete as the cache says.
LEMMA FileLinkedStep ==
  ASSUME IInv, [Next]_vars, Symlinks, NEW d \in DOMAIN files'
  PROVE  /\ cache'[d.url].dir # d => cache'[d.url].state = "done"
         /\ cache'[d.url].state = "done" <=> files'[d].complete
         /\ cache'[d.url].state = "done" => files'[d].rev = cache'[d.url].rev
  <1> USE DEF IInv
  <1> DEFINE True(e, f) == /\ e.dir # d => e.state = "done"
                           /\ e.state = "done" <=> f.complete
                           /\ e.state = "done" => f.rev = e.rev
  <1>1. SUFFICES True(cache'[d.url], files'[d])
    OBVIOUS
  <1>2. d \in DOMAIN files => d.url \in DOMAIN cache /\ True(cache[d.url], files[d])
    BY DEF FileInv
  <1> HIDE DEF True
  <1>3. CASE d \in DOMAIN files /\ files'[d] = files[d] /\ cache'[d.url] = cache[d.url]
    BY <1>2, <1>3
  <1>4. ASSUME NEW p \in Procs, LoadOrStore(p) PROVE True(cache'[d.url], files'[d])
    BY <1>2, <1>3, <1>4, StoreEffect
  <1>5. ASSUME NEW p \in Procs, BeginDownload(p) PROVE True(cache'[d.url], files'[d])
    <2>1. /\ Marks(p, "running", cache[url[p]].rev) /\ cache[url[p]].state = "stored"
          /\ Writes(cache[url[p]].dir, NotPinned, FALSE) /\ cache[url[p]].dir.url = url[p]
      BY <1>5, BeginDownloadEffect DEF CacheInv, Marks
    <2>2. CASE d.url # url[p]
      BY <1>2, <1>3, <2>1, <2>2 DEF Marks, Writes
    <2>3. CASE d.url = url[p]
      <3>1. d = cache[url[p]].dir
        BY <1>2, <2>1, <2>3 DEF True, Writes
      <3>2. QED
        BY <2>1, <3>1 DEF True, Marks, Writes
    <2>4. QED
      BY <2>2, <2>3
  <1>6. ASSUME NEW p \in Procs, Downloaded(p) PROVE True(cache'[d.url], files'[d])
    <2>1. /\ Marks(p, "done", Revision(url[p])) /\ cache[url[p]].state = "running"
          /\ Writes(cache[url[p]].dir, Revision(url[p]), TRUE) /\ cache[url[p]].dir.url = url[p]
      BY <1>6, DownloadedEffect DEF CacheInv, Marks
    <2>2. CASE d.url # url[p]
      BY <1>2, <1>3, <2>1, <2>2 DEF Marks, Writes
    <2>3. CASE d.url = url[p]
      <3>1. d = cache[url[p]].dir
        BY <1>2, <2>1, <2>3 DEF True, Writes
      <3>2. QED
        BY <2>1, <3>1 DEF True, Marks, Writes
    <2>4. QED
      BY <2>2, <2>3
  <1>7. ASSUME NEW p \in Procs, DownloadFails(p) PROVE True(cache'[d.url], files'[d])
    <2>1. /\ Marks(p, "failed", cache[url[p]].rev) /\ cache[url[p]].state = "running"
          /\ files' = files
      BY <1>7, DownloadFailsEffect DEF DownloadFails
    <2>2. QED
      BY <1>2, <2>1 DEF True, Marks
  <1>8. ASSUME NEW p \in Procs, Symlink(p) PROVE True(cache'[d.url], files'[d])
    <2>1. cache' = cache
      BY <1>8 DEF Symlink
    <2>2. CASE d \in DOMAIN files
      BY <1>2, <1>3, <1>8, <2>1, <2>2, SymlinkEffect DEF Symlink, Writes
    <2>3. CASE d \notin DOMAIN files
      <3>1. d = MyDest(p) /\ MyDest(p) \notin DOMAIN files
        BY <1>8, <2>3 DEF Symlink, Put
      <3>2. QED
        <4>1. /\ d.url = url[p] /\ cache[url[p]].state = "done"
              /\ files'[d].rev = cache[url[p]].rev /\ files'[d].complete = TRUE
          BY <1>8, <3>1, SymlinkEffect, MyDestFacts DEF Writes
        <4>2. QED
          BY <2>1, <4>1 DEF True
    <2>4. QED
      BY <2>2, <2>3
  <1>9. CASE UNCHANGED <<cache, files>>
    BY <1>3, <1>9
  <1>10. CASE Destroy
    BY <1>3, <1>10 DEF Destroy, Restrict
  <1>11. ASSUME NEW p \in Procs PROVE pc[p] # "again" /\ ~BeginAgain(p)
    BY DEF BeginAgain, PcInv
  <1>12. QED
    BY <1>4, <1>5, <1>6, <1>7, <1>8, <1>9, <1>10, <1>11, StepCases, MoveFrame, MainFrame
      DEF GetPolicy, ReadUrl, Await, Stat, DownloadedAgain, Pin, Push, vars

\* Where they cannot be made, an input's directory is incomplete only while the input
\* waits for its download, or has got an error.
LEMMA FileOwnStep ==
  ASSUME IInv, [Next]_vars, ~Symlinks, Command = "input", NEW d \in DOMAIN files'
  PROVE  \/ files'[d].complete
         \/ cache'[d.url].dir = d /\ cache'[d.url].state \in {"running", "failed"}
         \/ pc'[d.owner] = "again" /\ d = MyDest(d.owner)'
         \/ pc'[d.owner] = "error"
  <1> USE DEF IInv
  <1> DEFINE Goal == \/ files'[d].complete
                     \/ cache'[d.url].dir = d /\ cache'[d.url].state \in {"running", "failed"}
                     \/ pc'[d.owner] = "again" /\ d = MyDest(d.owner)'
                     \/ pc'[d.owner] = "error"
  <1>1. /\ setup' = setup /\ setup \in Setups /\ Targets \subseteq Procs
        /\ \A p \in Procs : Owner(p) = p
    BY StepCases, SetupFacts DEF TypeOK, Owner
  <1>2. d \in DOMAIN files =>
          /\ d.owner \in Procs /\ d.url \in DOMAIN cache
          /\ \/ files[d].complete
             \/ cache[d.url].dir = d /\ cache[d.url].state \in {"running", "failed"}
             \/ pc[d.owner] = "again" /\ d = MyDest(d.owner)
             \/ pc[d.owner] = "error"
    BY <1>1 DEF FileInv, PlaceInv, Placed
  <1>3. ASSUME NEW p, at'[p] = at[p], url'[p] = url[p] PROVE MyDest(p)' = MyDest(p)
    BY <1>1, <1>3, SetupKept DEF MyDest
  <1>4. ASSUME NEW p \in Procs, GetPolicy(p) PROVE Goal
    <2>1. /\ pc[p] \in Active /\ at' = at
          /\ \A q \in Procs : q # p => pc'[q] = pc[q] /\ MyDest(q)' = MyDest(q)
      BY <1>3, <1>4, GetPolicyFrame
    <2>2. \A q \in Procs : pc[q] = "error" => pc'[q] = "error"
      BY Settled DEF Ended
    <2>3. CASE LoadOrStore(p)
      <3>1. \A u \in DOMAIN cache : cache'[u] = cache[u]
        BY <2>3, StoreEffect
      <3>2. pc[p] = "load" /\ files' = files
        BY <2>3 DEF LoadOrStore
      <3>3. QED
        BY <1>2, <2>1, <2>2, <3>1, <3>2
    <2>4. CASE BeginDownload(p)
      <3>1. /\ Marks(p, "running", cache[url[p]].rev) /\ cache[url[p]].state = "stored"
            /\ Writes(cache[url[p]].dir, NotPinned, FALSE) /\ pc[p] = "call"
            /\ cache[url[p]].dir.url = url[p]
        BY <2>4, BeginDownloadEffect DEF BeginDownload, CacheInv, Marks
      <3>2. CASE d = cache[url[p]].dir
        BY <3>1, <3>2 DEF Marks
      <3>3. CASE d # cache[url[p]].dir
        <4>1. d \in DOMAIN files /\ files'[d] = files[d]
          BY <3>1, <3>3 DEF Writes
        <4>2. cache[d.url].state \in {"running", "failed"} => cache'[d.url] = cache[d.url]
          BY <1>2, <3>1, <4>1 DEF Marks
        <4>3. QED
          BY <1>2, <2>1, <2>2, <3>1, <4>1, <4>2
      <3>4. QED
        BY <3>2, <3>3
    <2>5. CASE Downloaded(p)
      <3>1. /\ Marks(p, "done", Revision(url[p])) /\ pc[p] = "download"
            /\ Writes(cache[url[p]].dir, Revision(url[p]), TRUE)
        BY <2>5, DownloadedEffect DEF Downloaded
      <3>2. CASE d = cache[url[p]].dir
        BY <3>1, <3>2 DEF Writes
      <3>3. CASE d # cache[url[p]].dir
        <4>1. d \in DOMAIN files /\ files'[d] = files[d]
          BY <3>1, <3>3 DEF Writes
        <4>2. cache[d.url].dir = d => cache'[d.url] = cache[d.url]
          BY <1>2, <3>1, <3>3, <4>1 DEF Marks
        <4>3. QED
          BY <1>2, <2>1, <2>2, <3>1, <4>1, <4>2
      <3>4. QED
        BY <3>2, <3>3
    <2>6. CASE DownloadFails(p)
      <3>1. /\ Marks(p, "failed", cache[url[p]].rev) /\ pc[p] = "download" /\ files' = files
        BY <2>6, DownloadFailsEffect DEF DownloadFails
      <3>2. QED
        BY <1>2, <2>1, <2>2, <3>1 DEF Marks
    <2>7. CASE BeginAgain(p)
      <3>1. /\ Writes(MyDest(p), NotPinned, FALSE) /\ pc[p] = "link" /\ cache' = cache
            /\ pc'[p] = "again" /\ MyDest(p)' = MyDest(p)
        BY <1>3, <2>7, BeginAgainEffect DEF BeginAgain, Go, TypeOK
      <3>2. CASE d = MyDest(p)
        <4>1. d.owner = p
          BY <1>1, <3>2, MyDestFacts
        <4>2. QED
          BY <3>1, <3>2, <4>1
      <3>3. CASE d # MyDest(p)
        <4>1. d \in DOMAIN files /\ files'[d] = files[d]
          BY <3>1, <3>3 DEF Writes
        <4>2. QED
          BY <1>2, <2>1, <2>2, <3>1, <4>1
      <3>4. QED
        BY <3>2, <3>3
    <2>8. CASE DownloadedAgain(p)
      <3>1. cache' = cache /\ pc[p] = "again" /\ (pc'[p] = "error" => files' = files)
        BY <2>8 DEF DownloadedAgain, Go, TypeOK
      <3>2. CASE pc'[p] = "error"
        BY <1>2, <2>1, <2>2, <3>1, <3>2
      <3>3. CASE pc'[p] # "error"
        <4>1. Writes(MyDest(p), Revision(url[p]), TRUE)
          BY <2>8, <3>3, DownloadedAgainEffect
        <4>2. CASE d = MyDest(p)
          BY <4>1, <4>2 DEF Writes
        <4>3. CASE d # MyDest(p)
          <5>1. d \in DOMAIN files /\ files'[d] = files[d]
            BY <4>1, <4>3 DEF Writes
          <5>2. QED
            BY <1>2, <2>1, <2>2, <3>1, <4>3, <5>1
        <4>4. QED
          BY <4>2, <4>3
      <3>4. QED
        BY <3>2, <3>3
    <2>9. CASE /\ UNCHANGED <<cache, files>>
               /\ pc[p] # "again"
      BY <1>2, <2>1, <2>2, <2>9 DEF Active, Getting
    <2>10. QED
      BY <1>4, <2>3, <2>4, <2>5, <2>6, <2>7, <2>8, <2>9
        DEF GetPolicy, ReadUrl, Await, Stat, Symlink, Pin
  <1>5. ASSUME NEW p \in Procs, NextSource(p) \/ Begin(p) \/ RunConftest(p) PROVE Goal
    <2>1. /\ cache' = cache /\ files' = files /\ pc[p] \notin {"again", "error"}
          /\ \A q \in Procs : q # p => pc'[q] = pc[q] /\ MyDest(q)' = MyDest(q)
      BY <1>3, <1>5, MoveFrame
    <2>2. QED
      BY <1>2, <2>1
  <1>6. ~(PinGroup \/ PreProcess \/ Destroy)
    BY MainFrame DEF Destroy
  <1>7. CASE UNCHANGED <<cache, files, pc, at, url>>
    BY <1>2, <1>3, <1>7
  <1>8. QED
    BY <1>4, <1>5, <1>6, <1>7, StepCases DEF Push, vars

LEMMA FileStep ==
  ASSUME IInv, [Next]_vars
  PROVE  FileInv'
  <1>1. /\ setup' = setup /\ Symlinks' = Symlinks /\ Command' = Command
    BY StepCases, SetupKept
  <1>2. QED
    BY <1>1, FileHereStep, FileLinkedStep, FileOwnStep DEF FileInv

LEMMA OwnStep ==
  ASSUME IInv, [Next]_vars
  PROVE  OwnInv'
  <1> USE DEF IInv
  <1>1. /\ setup' = setup /\ Command' = Command /\ setup \in Setups
    BY StepCases, SetupKept DEF TypeOK
  <1>2. SUFFICES ASSUME Command = "input", NEW u \in DOMAIN cache'
                 PROVE  \/ cache'[u].state = "done"
                        \/ pc'[cache'[u].dir.owner] \in {"call", "download"}
                             /\ url'[cache'[u].dir.owner] = u
                        \/ pc'[cache'[u].dir.owner] = "error"
    BY <1>1 DEF OwnInv
  <1> DEFINE o == cache[u].dir.owner
  <1>3. u \in DOMAIN cache =>
          /\ o \in Procs /\ cache'[u].dir.owner = o
          /\ \/ cache[u].state = "done"
             \/ pc[o] \in {"call", "download"} /\ url[o] = u
             \/ pc[o] = "error"
          /\ cache[u].state = "done" => cache'[u].state = "done"
    BY <1>1, <1>2, CacheGrows, SetupFacts DEF OwnInv, PlaceInv, Placed
  <1>4. \A p \in Procs : pc[p] = "error" => pc'[p] = "error"
    BY Settled DEF Ended
  <1> HIDE DEF o
  <1>5. ASSUME NEW p \in Procs, GetPolicy(p)
        PROVE  \/ cache'[u].state = "done"
               \/ pc'[cache'[u].dir.owner] \in {"call", "download"}
                    /\ url'[cache'[u].dir.owner] = u
               \/ pc'[cache'[u].dir.owner] = "error"
    <2>1. \A q \in Procs : q # p => pc'[q] = pc[q] /\ url'[q] = url[q]
      BY <1>5, GetPolicyFrame
    <2>2. CASE LoadOrStore(p)
      <3>0. /\ DOMAIN cache' = DOMAIN cache \cup {url[p]} /\ url' = url
            /\ \A v \in DOMAIN cache : cache'[v] = cache[v]
            /\ url[p] \notin DOMAIN cache => cache'[url[p]].dir = MyDest(p)
            /\ MyDest(p).owner = Owner(p) /\ pc[p] = "load" /\ pc'[p] = "call"
        BY <2>2, StoreEffect
      <3>1. CASE u \in DOMAIN cache
        BY <1>3, <1>4, <2>1, <3>0, <3>1
      <3>2. CASE u \notin DOMAIN cache
        <4>1. u = url[p] /\ cache'[u].dir.owner = p
          BY <1>2, <3>0, <3>2 DEF Owner
        <4>2. QED
          BY <3>0, <4>1
      <3>3. QED
        BY <3>1, <3>2
    <2>3. u \in DOMAIN cache \/ LoadOrStore(p)
      BY <1>5, CacheCases, BeginDownloadEffect, DownloadedEffect, DownloadFailsEffect DEF Marks
    <2>4. CASE BeginDownload(p)
      <3>1. pc'[p] = "download" /\ url' = url /\ pc[p] = "call"
        BY <2>4 DEF BeginDownload, Go, TypeOK
      <3>2. QED
        BY <1>3, <1>4, <2>1, <2>3, <2>4, <3>1 DEF LoadOrStore
    <2>5. CASE Downloaded(p)
      <3>1. Marks(p, "done", Revision(url[p])) /\ pc[p] = "download"
        BY <2>5, DownloadedEffect DEF Downloaded
      <3>2. QED
        BY <1>3, <1>4, <2>1, <2>3, <3>1 DEF Marks, LoadOrStore
    <2>6. CASE DownloadFails(p)
      <3>1. pc'[p] = "error" /\ pc[p] = "download"
        BY <2>6 DEF DownloadFails, Go, TypeOK
      <3>2. QED
        BY <1>3, <1>4, <2>1, <2>3, <3>1 DEF LoadOrStore
    <2>7. CASE Await(p)
      <3>1. /\ pc[p] = "call" /\ cache' = cache
            /\ pc'[p] = "error" \/ cache[url[p]].state = "done"
        BY <2>7 DEF Await, Go, TypeOK
      <3>2. QED
        BY <1>3, <1>4, <2>1, <2>3, <3>1 DEF LoadOrStore
    <2>8. CASE pc[p] \notin {"call", "download", "load"}
      BY <1>3, <1>4, <2>1, <2>3, <2>8 DEF LoadOrStore
    <2>9. QED
      BY <1>5, <2>2, <2>4, <2>5, <2>6, <2>7, <2>8
        DEF GetPolicy, ReadUrl, Stat, Symlink, BeginAgain, DownloadedAgain, Pin
  <1>6. ASSUME NEW p \in Procs, NextSource(p) \/ Begin(p) \/ RunConftest(p)
        PROVE  /\ cache' = cache /\ url' = url
               /\ \A q \in Procs : pc[q] \in {"call", "download"} => pc'[q] = pc[q]
    BY <1>6, MoveFrame
  <1>7. ~(PinGroup \/ PreProcess \/ Destroy)
    BY <1>2, MainFrame DEF Destroy
  <1>8. QED
    BY <1>3, <1>4, <1>5, <1>6, <1>7, StepCases DEF Push, vars

-------------------------------------------------------------------------------
(* What the goroutines have got *)

\* The directory of a goroutine that is getting a source is placed.
LEMMA MyDestPlaced ==
  ASSUME IInv, NEW p \in Procs, pc[p] \in Getting
  PROVE  Placed(MyDest(p)) /\ (Command = "input" => MyDest(p).owner # Pre)
  <1> USE DEF IInv
  <1>1. setup \in Setups /\ Pre \notin Targets /\ Command \in {"image", "input"}
        /\ Shared # Pre /\ (p = Pre \/ p \in Targets) /\ at[p] \in Sources
    BY SetupFacts, ActiveType DEF TypeOK, Procs, Active, Shared, Pre
  <1>2. CASE p = Pre
    BY <1>1, <1>2, MyDestFacts DEF Placed, Owner, PcInv, Getting
  <1>3. CASE p \in Targets
    <2>1. pc[Pre] = "done" /\ url[p] = spec[at[p]]
      BY <1>3 DEF PcInv, UrlInv, Getting
    <2>2. Owner(p) = IF Command = "image" THEN Shared ELSE p
      BY <1>1, <1>3 DEF Owner
    <2>3. QED
      BY <1>1, <1>3, <2>1, <2>2, MyDestFacts DEF Placed, GroupOf
  <1>4. QED
    BY <1>1, <1>2, <1>3

LEMMA PlaceStep ==
  ASSUME IInv, [Next]_vars
  PROVE  PlaceInv'
  <1> USE DEF IInv
  <1>1. /\ setup' = setup /\ Command' = Command /\ Sources' = Sources /\ Config' = Config
        /\ \A s : Subdir(s)' = Subdir(s)
    BY StepCases, SetupKept
  <1>2. ASSUME NEW d, Placed(d) PROVE Placed(d)'
    BY <1>1, <1>2, Settled DEF Placed
  <1> DEFINE Good(d) == Placed(d) /\ (Command = "input" => d.owner # Pre)
  <1>3. /\ \A d \in DOMAIN files : Good(d)
        /\ \A u \in DOMAIN cache : Good(cache[u].dir)
    BY DEF PlaceInv
  <1>4. ASSUME NEW u \in DOMAIN cache' PROVE Good(cache'[u].dir)
    <2>1. CASE u \in DOMAIN cache
      BY <1>3, <2>1, CacheGrows
    <2>2. CASE u \notin DOMAIN cache
      <3>0. PICK p \in Procs : GetPolicy(p) /\ cache' # cache
        BY <2>2, StepCases, MoveFrame, MainFrame DEF Destroy, Push, vars
      <3>1. LoadOrStore(p)
        <4>1. ~(DOMAIN cache' = DOMAIN cache)
          BY <2>2
        <4>2. ~BeginDownload(p) /\ ~Downloaded(p) /\ ~DownloadFails(p)
          BY <4>1, BeginDownloadEffect, DownloadedEffect, DownloadFailsEffect DEF Marks
        <4>3. QED
          BY <3>0, <4>2, CacheCases
      <3>2. u = url[p] /\ cache'[u].dir = MyDest(p) /\ pc[p] \in Getting
        <4>1. /\ DOMAIN cache' = DOMAIN cache \cup {url[p]} /\ pc[p] = "load"
              /\ url[p] \notin DOMAIN cache => cache'[url[p]].dir = MyDest(p)
          BY <3>1, StoreEffect
        <4>2. u = url[p]
          BY <1>4, <2>2, <4>1
        <4>3. QED
          BY <2>2, <4>1, <4>2 DEF Getting
      <3>3. QED
        BY <3>2, MyDestPlaced
    <2>3. QED
      BY <2>1, <2>2
  <1>5. ASSUME NEW d \in DOMAIN files' PROVE Good(d)
    <2>1. CASE d \in DOMAIN files
      BY <1>3, <2>1
    <2>2. CASE d \notin DOMAIN files
      <3>1. PICK p \in Procs : GetPolicy(p)
        BY <2>2, StepCases, MoveFrame, MainFrame DEF Destroy, Restrict, Push, vars
      <3>2. CASE d = MyDest(p) /\ pc[p] \in Getting
        BY <3>2, MyDestPlaced
      <3>3. CASE BeginDownload(p) /\ d = cache[url[p]].dir
        <4>1. url[p] \in DOMAIN cache
          BY <3>3 DEF BeginDownload, CacheInv
        <4>2. QED
          BY <1>3, <3>3, <4>1
      <3>4. CASE Symlink(p) \/ BeginAgain(p) \/ DownloadedAgain(p)
        <4>1. d = MyDest(p) /\ pc[p] \in Getting
          BY <2>2, <3>4 DEF Symlink, BeginAgain, DownloadedAgain, Put, Getting
        <4>2. QED
          BY <3>2, <4>1
      <3>5. CASE ReadUrl(p) \/ LoadOrStore(p) \/ DownloadFails(p) \/ Await(p) \/ Stat(p) \/ Pin(p)
        BY <2>2, <3>5 DEF ReadUrl, LoadOrStore, DownloadFails, Await, Stat, Pin
      <3>6. CASE BeginDownload(p)
        BY <2>2, <3>3, <3>6 DEF BeginDownload, Put
      <3>7. CASE Downloaded(p)
        <4>1. DOMAIN files' = DOMAIN files
          BY <3>7 DEF Downloaded
        <4>2. QED
          BY <2>2, <4>1
      <3>8. QED
        BY <3>1, <3>4, <3>5, <3>6, <3>7 DEF GetPolicy
    <2>3. QED
      BY <2>1, <2>2
  <1>6. QED
    BY <1>1, <1>2, <1>4, <1>5 DEF PlaceInv

\* The source s of p's group is downloaded and lies in p's work directory.
Has(p, s) == /\ spec[s] \in DOMAIN cache /\ cache[spec[s]].state = "done"
             /\ Dest(p, s, spec[s]) \in DOMAIN files

LEMMA HasKept ==
  ASSUME IInv, [Next]_vars, NEW p \in Targets, pc[p] \in Active, NEW s \in Sources, Has(p, s)
  PROVE  Has(p, s)'
  <1>1. setup' = setup /\ p \in Procs
    BY StepCases, SetupFacts DEF IInv, TypeOK
  <1>2. spec' = spec
    BY Settled DEF IInv, PcInv, Active, Getting
  <1>3. DOMAIN files \subseteq DOMAIN files'
    BY <1>1, NotOver, FilesGrow DEF IInv
  <1>4. Dest(p, s, spec[s])' = Dest(p, s, spec[s])
    BY <1>1, <1>2, SetupKept DEF Dest
  <1>5. QED
    BY <1>2, <1>3, <1>4, CacheGrows DEF Has

\* A goroutine goes on to pin its source only when the source is there.
LEMMA PinHas ==
  ASSUME IInv, [Next]_vars, NEW p \in Targets, GetPolicy(p), pc'[p] = "pin"
  PROVE  Has(p, at[p])'
  <1> USE DEF IInv
  <1>1. /\ p \in Procs /\ setup' = setup /\ setup \in Setups /\ at[p] \in Sources
        /\ pc[p] \in Active
    BY StepCases, SetupFacts, GetPolicyFrame, ActiveType DEF TypeOK
  <1>2. Stat(p) \/ Symlink(p) \/ DownloadedAgain(p)
    BY <1>1 DEF GetPolicy, ReadUrl, LoadOrStore, BeginDownload, Downloaded, DownloadFails,
         Await, BeginAgain, Pin, Go, TypeOK
  <1>3. /\ pc[p] \in {"stat", "link", "again"} /\ cache' = cache /\ at' = at /\ url' = url
        /\ spec' = spec
    BY <1>2 DEF Stat, Symlink, DownloadedAgain
  <1>4. /\ url[p] = spec[at[p]] /\ url[p] \in DOMAIN cache /\ cache[url[p]].state = "done"
        /\ cache[url[p]].dir.url = url[p]
    BY <1>1, <1>3 DEF UrlInv, CacheInv, Getting
  <1>5. Dest(p, at[p], spec[at[p]])' = MyDest(p)
    BY <1>1, <1>3, <1>4, SetupKept, MyDestFacts DEF Dest
  <1>6. MyDest(p) \in DOMAIN files'
    <2>1. CASE Stat(p)
      <3>1. files' = files /\ (MyDest(p) \in DOMAIN files \/ SameDir(MyDest(p), cache[url[p]].dir))
        BY <1>1, <2>1 DEF Stat, Go, TypeOK
      <3>2. cache[url[p]].dir \in DOMAIN files
        BY <1>1, <1>4, NotOver DEF FileInv
      <3>3. ASSUME SameDir(MyDest(p), cache[url[p]].dir) PROVE MyDest(p) = cache[url[p]].dir
        <4>1. MyDest(p) \in Directories /\ cache[url[p]].dir \in Directories
          BY <1>1, <1>4, ActiveType, EntryFacts
        <4>2. MyDest(p).url = cache[url[p]].dir.url
          BY <1>4, MyDestFacts
        <4>3. QED
          BY <3>3, <4>1, <4>2 DEF SameDir, Directories
      <3>4. QED
        BY <3>1, <3>2, <3>3
    <2>2. CASE Symlink(p)
      BY <1>1, <2>2 DEF Symlink, Put, Go, TypeOK
    <2>3. CASE DownloadedAgain(p)
      BY <1>1, <2>3, DownloadedAgainEffect DEF Writes
    <2>4. QED
      BY <1>2, <2>1, <2>2, <2>3
  <1>7. QED
    BY <1>3, <1>4, <1>5, <1>6 DEF Has

LEMMA PassStep ==
  ASSUME IInv, [Next]_vars
  PROVE  PassInv'
  <1> USE DEF IInv
  <1>1. /\ setup' = setup /\ setup \in Setups /\ Sources' = Sources /\ Config' = Config
    BY StepCases, SetupKept DEF TypeOK
  <1>2. SUFFICES ASSUME NEW p \in Targets, pc'[p] \in Active, NEW s \in Sources,
                        Config[s].group = Config[at'[p]].group,
                        s < at'[p] \/ (s = at'[p] /\ pc'[p] \in {"pin", "got"})
                 PROVE  Has(p, s)'
    BY <1>1 DEF PassInv, GroupOf, Has
  <1>3. p \in Procs /\ p # Pre
    BY <1>1, SetupFacts
  <1>4. ASSUME pc[p] \in Active, Config[s].group = Config[at[p]].group,
               s < at[p] \/ (s = at[p] /\ pc[p] \in {"pin", "got"})
        PROVE  Has(p, s)'
    <2>1. Has(p, s)
      BY <1>4 DEF PassInv, GroupOf, Has
    <2>2. QED
      BY <1>4, <2>1, HasKept
  <1>5. CASE GetPolicy(p)
    <2>1. at' = at /\ pc[p] \in Active
      BY <1>3, <1>5, GetPolicyFrame
    <2>2. CASE s < at[p]
      BY <1>2, <1>4, <2>1, <2>2
    <2>3. CASE s = at[p] /\ pc'[p] = "pin"
      BY <1>5, <2>1, <2>3, PinHas DEF Has
    <2>4. CASE s = at[p] /\ pc'[p] = "got"
      <3>1. pc[p] = "pin"
        BY <1>3, <1>5, <2>4 DEF GetPolicy, ReadUrl, LoadOrStore, BeginDownload, Downloaded,
             DownloadFails, Await, Stat, Symlink, BeginAgain, DownloadedAgain, Pin, Go, TypeOK
      <3>2. QED
        BY <1>2, <1>4, <2>1, <2>4, <3>1
    <2>5. QED
      BY <1>2, <2>1, <2>2, <2>3, <2>4
  <1>6. CASE NextSource(p) \/ Begin(p) \/ RunConftest(p)
    <2>1. CASE pc[p] = "wait"
      <3>1. at'[p] = 1 /\ pc'[p] = "get"
        BY <1>3, <1>6, <2>1, MoveFrame DEF PcInv
      <3>2. QED
        BY <1>1, <1>2, <3>1, SetupFacts
    <2>2. CASE pc[p] = "got"
      <3>1. at[p] \in Sources /\ at'[p] = at[p] + 1 /\ pc'[p] = "get"
        BY <1>1, <1>2, <1>3, <1>6, <2>2, MoveFrame, FromFacts, SetupFacts DEF Active, Getting
      <3>2. at[p] + 1 \in Sources
        <4>1. Wanted(p, at[p])'
          BY <1>2, <1>3, PcStep DEF PcInv
        <4>2. QED
          BY <1>1, <3>1, <4>1 DEF Wanted
      <3>3. s <= at[p] /\ (s < at[p] \/ s = at[p])
        BY <1>1, <1>2, <3>1, SetupFacts
      <3>4. Config[s].group = Config[at[p]].group
        <4>1. /\ Config[s].group <= Config[at[p]].group
              /\ Config[at[p]].group <= Config[at[p] + 1].group
              /\ Config[s].group \in Nat /\ Config[at[p]].group \in Nat
          BY <1>1, <3>1, <3>2, <3>3, SetupFacts
        <4>2. QED
          BY <1>2, <3>1, <4>1
      <3>5. QED
        BY <1>4, <2>2, <3>3, <3>4 DEF Active, Getting
    <2>3. QED
      BY <1>3, <1>6, <2>1, <2>2, MoveFrame
  <1>7. CASE pc'[p] = pc[p] /\ at'[p] = at[p]
    BY <1>2, <1>4, <1>7
  <1>8. ASSUME NEW q \in Procs, q # p,
               GetPolicy(q) \/ NextSource(q) \/ Begin(q) \/ RunConftest(q)
        PROVE  pc'[p] = pc[p] /\ at'[p] = at[p]
    BY <1>3, <1>8, GetPolicyFrame, MoveFrame
  <1>9. QED
    BY <1>3, <1>5, <1>6, <1>7, <1>8, StepCases, MainFrame DEF Destroy, Push, vars

\* What conftest is given is what the sources of the group name, each once and finished.
LEMMA ConftestSees ==
  ASSUME IInv, NEW p \in Targets, RunConftest(p), NEW g, g = GroupOf(p)
  PROVE  /\ pc[Pre] = "done"
         /\ \A f \in Contents(Owner(p), g) : \E s \in Sources :
              Config[s].group = g /\ Subdir(s) = f.sub /\ spec[s] = f.url
         /\ \A e, f \in Contents(Owner(p), g) : e.sub = f.sub /\ e.url = f.url => e = f
         /\ Linked => \A f \in Contents(Owner(p), g) : f.complete
         /\ \A s \in Sources : Config[s].group = g =>
              spec[s] \in DOMAIN cache /\ cache[spec[s]].state = "done"
         /\ Symlinks => Contents(Owner(p), g) = Loaded(g)
  <1> USE DEF IInv
  <1>1. /\ setup \in Setups /\ p \in Procs /\ p # Pre /\ pc[p] = "got" /\ pc[p] \in Active
        /\ at[p] \in Sources /\ Owner(p) \in Owners /\ pc[Pre] = "done" /\ Owner(p) # Pre
        /\ Command \in {"image", "input"} /\ (Command = "input" => Owner(p) = p)
    BY SetupFacts, ActiveType DEF TypeOK, RunConftest, Active, Getting, PcInv, Owner, Shared, Pre
  <1> DEFINE Dirs == {e \in DOMAIN files : e.owner = Owner(p) /\ e.group = g}
  <1> DEFINE Item(d) == [sub |-> d.sub, url |-> d.url, rev |-> files[d].rev,
                         complete |-> files[d].complete]
  <1>2. Contents(Owner(p), g) = {Item(d) : d \in Dirs}
    BY DEF Contents
  <1>3. ASSUME NEW d \in Dirs
        PROVE  \E s \in Sources : Config[s].group = g /\ Subdir(s) = d.sub /\ spec[s] = d.url
    BY <1>1, <1>3 DEF PlaceInv, Placed
  <1>4. ASSUME NEW s \in Sources, Config[s].group = g PROVE Has(p, s)
    <2>1. s <= at[p]
      <3>1. SUFFICES ASSUME at[p] < s PROVE FALSE
        BY <1>1, SetupFacts
      <3>2. at[p] + 1 \in Sources /\ at[p] + 1 <= s /\ at[p] <= at[p] + 1
            /\ at[p] + 1 \in 1..(NumSources + 1)
        BY <1>1, <3>1, SetupFacts
      <3>3. Config[at[p] + 1].group = g
        <4>1. /\ Config[at[p]].group <= Config[at[p] + 1].group
              /\ Config[at[p] + 1].group <= Config[s].group
              /\ Config[s].group \in Nat /\ Config[at[p] + 1].group \in Nat
          BY <1>1, <3>2, SetupFacts
        <4>2. QED
          BY <1>4, <4>1 DEF GroupOf
      <3>4. From(p, at[p] + 1) = at[p] + 1
        BY <1>1, <3>2, FromFacts
      <3>5. QED
        BY <3>2, <3>3, <3>4 DEF RunConftest, MoreInGroup
    <2>2. s < at[p] \/ s = at[p]
      BY <1>1, <2>1, SetupFacts
    <2>3. QED
      BY <1>1, <1>4, <2>2 DEF PassInv, Has
  <1>5. ASSUME NEW d \in Dirs
        PROVE  /\ d.url \in DOMAIN cache /\ cache[d.url].state = "done"
               /\ Linked => files[d].complete = TRUE
               /\ Symlinks => files[d].rev = cache[d.url].rev
    <2>1. d.url \in DOMAIN cache /\ cache[d.url].state = "done"
      BY <1>3, <1>4 DEF Has
    <2>2. files[d].complete \in BOOLEAN
      BY TypeNow DEF FileType
    <2>3. CASE Symlinks
      BY <2>1, <2>2, <2>3 DEF FileInv
    <2>4. CASE ~Symlinks /\ Command = "input"
      BY <1>1, <2>1, <2>2, <2>4 DEF FileInv
    <2>5. QED
      BY <2>1, <2>3, <2>4 DEF Linked
  <1>6. \A f \in Contents(Owner(p), g) : \E s \in Sources :
          Config[s].group = g /\ Subdir(s) = f.sub /\ spec[s] = f.url
    BY <1>2, <1>3
  <1>7. ASSUME NEW d \in Dirs, NEW e \in Dirs, d.sub = e.sub, d.url = e.url PROVE d = e
    BY <1>7, TypeNow DEF Directories
  <1>8. \A e, f \in Contents(Owner(p), g) : e.sub = f.sub /\ e.url = f.url => e = f
    BY <1>2, <1>7
  <1>9. ASSUME Linked, NEW f \in Contents(Owner(p), g) PROVE f.complete
    <2>1. PICK d \in Dirs : f = Item(d)
      BY <1>2
    <2>2. f.complete = TRUE
      BY <1>5, <1>9, <2>1
    <2>3. QED
      BY <2>2
  <1>10. ASSUME Symlinks PROVE Contents(Owner(p), g) = Loaded(g)
    <2>0. Linked
      BY <1>10 DEF Linked
    <2> DEFINE Source(s) == [sub |-> Subdir(s), url |-> spec[s], rev |-> cache[spec[s]].rev,
                             complete |-> TRUE]
    <2>1. Loaded(g) = {Source(s) : s \in {t \in Sources : Config[t].group = g}}
      BY DEF Loaded
    <2>2. ASSUME NEW d \in Dirs PROVE Item(d) \in Loaded(g)
      <3>1. PICK s \in Sources : Config[s].group = g /\ Subdir(s) = d.sub /\ spec[s] = d.url
        BY <1>3
      <3>2. Item(d) = Source(s)
        BY <1>5, <1>10, <2>0, <3>1
      <3>3. QED
        BY <2>1, <3>1, <3>2
    <2>3. ASSUME NEW s \in Sources, Config[s].group = g PROVE Source(s) \in Contents(Owner(p), g)
      <3> DEFINE d == Dest(p, s, spec[s])
      <3>1. d \in Dirs /\ d.sub = Subdir(s) /\ d.url = spec[s]
        BY <1>4, <2>3 DEF Has, Dest
      <3>2. Item(d) = Source(s)
        BY <1>5, <1>10, <2>0, <3>1
      <3>3. QED
        BY <1>2, <3>1, <3>2
    <2>4. Contents(Owner(p), g) \subseteq Loaded(g)
      BY <1>2, <2>2
    <2>5. Loaded(g) \subseteq Contents(Owner(p), g)
      BY <2>1, <2>3
    <2>6. QED
      BY <2>4, <2>5
  <1>11. QED
    BY <1>1, <1>4, <1>6, <1>8, <1>9, <1>10 DEF Has

LEMMA SeenStep ==
  ASSUME IInv, [Next]_vars
  PROVE  SeenInv'
  <1> USE DEF IInv
  <1>1. /\ setup' = setup /\ Sources' = Sources /\ Config' = Config /\ Groups' = Groups
        /\ Symlinks' = Symlinks /\ Linked' = Linked /\ \A s : Subdir(s)' = Subdir(s)
        /\ setup \in Setups
    BY StepCases, SetupKept DEF TypeOK
  <1> DEFINE Fine(S, g) ==
        /\ pc[Pre] = "done"
        /\ \A f \in S : \E s \in Sources :
             Config[s].group = g /\ Subdir(s) = f.sub /\ spec[s] = f.url
        /\ \A e, f \in S : e.sub = f.sub /\ e.url = f.url => e = f
        /\ Linked => \A f \in S : f.complete
        /\ Symlinks =>
             /\ \A s \in Sources : Config[s].group = g =>
                  spec[s] \in DOMAIN cache /\ cache[spec[s]].state = "done"
             /\ S = Loaded(g)
  <1>2. ASSUME NEW S, NEW g, Fine(S, g) PROVE Fine(S, g)'
    <2>1. pc'[Pre] = "done" /\ spec' = spec
      BY <1>2, Settled
    <2>2. ASSUME Symlinks
          PROVE  /\ \A s \in Sources : Config[s].group = g =>
                      spec[s] \in DOMAIN cache' /\ cache'[spec[s]] = cache[spec[s]]
                 /\ Loaded(g)' = Loaded(g)
      <3>1. \A s \in Sources : Config[s].group = g =>
              spec[s] \in DOMAIN cache' /\ cache'[spec[s]] = cache[spec[s]]
        BY <1>2, <2>2, CacheGrows
      <3>2. QED
        BY <1>1, <2>1, <3>1 DEF Loaded
    <2>3. QED
      BY <1>1, <1>2, <2>1, <2>2
  <1>3. SUFFICES ASSUME NEW p \in Targets, NEW g \in Groups, NEW S, S = seen'[p][g], S # {}
                 PROVE  Fine(S, g)'
    BY <1>1 DEF SeenInv
  <1> HIDE DEF Fine
  <1>4. CASE seen'[p][g] = seen[p][g]
    <2>1. Fine(S, g)
      BY <1>3, <1>4 DEF SeenInv, Fine
    <2>2. QED
      BY <1>2, <2>1
  <1>5. CASE RunConftest(p) /\ g = GroupOf(p)
    <2>1. S = Contents(Owner(p), g)
      BY <1>3, <1>5 DEF RunConftest, TypeOK
    <2>2. Fine(S, g)
      BY <1>5, <2>1, ConftestSees DEF Fine
    <2>3. QED
      BY <1>2, <2>2
  <1>6. ASSUME NEW q \in Procs, RunConftest(q), ~(q = p /\ g = GroupOf(p))
        PROVE  seen'[p][g] = seen[p][g]
    BY <1>6 DEF RunConftest, TypeOK
  <1>7. QED
    BY <1>4, <1>5, <1>6, StepCases, GetPolicyFrame, MainFrame
      DEF NextSource, Begin, Destroy, Push, vars

-------------------------------------------------------------------------------
(* The theorems *)

LEMMA InitInv == Init => IInv
  <1> SUFFICES ASSUME Init PROVE IInv
    OBVIOUS
  <1> DEFINE u0(s) == Url(Config[s].ref, Config[s].rev)
  <1>1. /\ setup \in Setups /\ 1 \in Sources /\ NumSources \in Nat \ {0} /\ Sources = 1..NumSources
        /\ Pre \notin Targets /\ Pre \in Procs /\ Targets \subseteq Procs
        /\ \A p \in Procs : p = Pre \/ p \in Targets
        /\ Command \in {"image", "input"} /\ MaxRev \in Nat \ {0} /\ NotPinned = 0
        /\ \A s \in Sources : u0(s) \in Urls /\ u0(s).ref = Config[s].ref /\ u0(s).rev = Config[s].rev
    BY SetupFacts DEF Init, Url, Urls, Procs
  <1>2. /\ \A p \in Procs : at[p] = From(p, 1) /\ at[p] \in 1..(NumSources + 1)
        /\ \A p \in Procs : at[p] \in Sources => Wanted(p, at[p])
        /\ \A p \in Targets : at[p] = 1
        /\ \A s \in Sources : s < at[Pre] => IsInline(s)
    <2>1. 1 \in 1..(NumSources + 1)
      BY <1>1
    <2>2. \A p \in Procs : at[p] = From(p, 1)
      BY DEF Init
    <2>3. ASSUME NEW p \in Procs
          PROVE  /\ From(p, 1) \in 1..(NumSources + 1)
                 /\ From(p, 1) \in Sources => Wanted(p, From(p, 1))
                 /\ \A t \in Sources : t < From(p, 1) => ~Wanted(p, t)
                 /\ p \in Targets => From(p, 1) = 1
      BY <1>1, <2>1, FromFacts
    <2>4. \A s \in Sources : s < at[Pre] => IsInline(s)
      BY <1>1, <2>2, <2>3 DEF Wanted
    <2>5. QED
      BY <1>1, <2>2, <2>3, <2>4
  <1>3. /\ pc = [p \in Procs |-> IF p # Pre THEN "wait"
                                 ELSE IF Command = "image" THEN "group" ELSE "done"]
        /\ cache = << >> /\ files = << >>
        /\ \A s \in Sources : spec[s] = u0(s) /\ \A o \in Owners : src[o][s] = u0(s)
    BY DEF Init
  <1>4. DOMAIN cache = {} /\ DOMAIN files = {}
    BY <1>3
  <1>5. TypeOK
    <2>1. head \in [Refs -> 1..MaxRev] /\ spec \in [Sources -> Urls] /\ src \in [Owners -> [Sources -> Urls]]
      BY <1>1 DEF Init
    <2>2. pc \in [Procs -> {"wait", "group", "get", "load", "call", "download", "stat", "link",
                            "again", "pin", "got", "done", "error"}]
      BY <1>3
    <2>3. at \in [Procs -> 1..(NumSources + 1)]
      BY <1>2 DEF Init
    <2>4. url \in [Procs -> Urls] /\ meta \in [Procs -> 0..MaxRev] /\ fetches \in [Urls -> Nat]
          /\ broken \subseteq Urls
      BY <1>1, <2>1 DEF Init
    <2>5. seen \in [Targets -> [Groups -> SUBSET
            [sub: {"policy", "data"}, url: Urls, rev: 0..MaxRev, complete: BOOLEAN]]]
      BY DEF Init
    <2>6. QED
      BY <1>1, <1>4, <2>1, <2>2, <2>3, <2>4, <2>5 DEF TypeOK
  <1>6. PcInv
    BY <1>1, <1>2, <1>3 DEF PcInv, Active, Getting
  <1>7. UrlInv
    BY <1>1, <1>3, SetupFacts DEF UrlInv, Getting
  <1>8. PinInv
    BY <1>1, <1>2, <1>3 DEF PinInv, Active, Getting
  <1>9. CacheInv
    BY <1>1, <1>3, <1>4 DEF CacheInv
  <1>10. CountInv
    BY <1>4 DEF Init, CountInv
  <1>11. FileInv /\ OwnInv /\ PlaceInv
    BY <1>1, <1>3, <1>4 DEF FileInv, OwnInv, PlaceInv
  <1>12. PassInv /\ SeenInv
    BY <1>1, <1>3 DEF Init, PassInv, SeenInv, Active, Getting
  <1>13. QED
    BY <1>5, <1>6, <1>7, <1>8, <1>9, <1>10, <1>11, <1>12 DEF IInv

\* The invariant of the download cache (source.go, 68-150), the work directories and the
\* goroutines that GetPolicy runs in holds in every reachable state.
THEOREM Invariance == Spec => []IInv
  <1>1. IInv /\ [Next]_vars => IInv'
    BY TypeStep, PcStep, UrlStep, PinStep, CacheStep, CountStep, FileStep, OwnStep, PlaceStep,
       PassStep, SeenStep DEF IInv
  <1>2. QED
    BY <1>1, InitInv, PTL DEF Spec

\* However many goroutines call GetPolicy, whenever they do, and whatever fails, where
\* links can be made a URL is downloaded at most once (source.go, 99-107).
THEOREM DownloadsOnce == Spec => []OneDownload
  <1>1. IInv => OneDownload
    BY DEF IInv, CountInv, OneDownload
  <1>2. QED
    BY <1>1, Invariance, PTL

\* What conftest loads for a target is never a directory that a goroutine is still
\* filling, or one whose download failed (source.go, 109-117).
THEOREM LoadsAreFinished == Spec => []LoadsFinished
  <1>1. IInv => LoadsFinished
    BY DEF IInv, SeenInv, LoadsFinished
  <1>2. QED
    BY <1>1, Invariance, PTL

\* What was loaded from a URL with a revision is that revision.
LEMMA LoadedRevision ==
  ASSUME IInv, Symlinks, NEW p \in Targets, NEW g \in Groups, NEW f \in seen[p][g],
         f.url.rev # NotPinned
  PROVE  f.rev = f.url.rev
  <1>1. PICK s \in Sources : /\ Config[s].group = g
                             /\ f = [sub |-> Subdir(s), url |-> spec[s],
                                     rev |-> cache[spec[s]].rev, complete |-> TRUE]
    BY DEF IInv, SeenInv, Loaded
  <1>2. spec[s] \in DOMAIN cache /\ cache[spec[s]].state = "done"
    BY <1>1 DEF IInv, SeenInv
  <1>3. QED
    BY <1>1, <1>2 DEF IInv, CacheInv

\* The policy directory that conftest compiles never holds the rules of a download twice,
\* whichever goroutine fetched them (source_test.go, 605-607).
THEOREM RulesAreOnce == Spec => []NoDuplicateRules
  <1>1. ASSUME IInv PROVE NoDuplicateRules
    <2> USE <1>1 DEF IInv
    <2>1. SUFFICES ASSUME Linked, Command = "image" \/ NamedOnce, NEW p \in Targets,
                          NEW g \in Groups, NEW e \in seen[p][g], NEW f \in seen[p][g],
                          e.sub = "policy", f.sub = "policy", e.url.ref = f.url.ref,
                          e.rev = f.rev
                   PROVE  e = f
      BY DEF NoDuplicateRules
    <2>2. PICK s \in Sources : Config[s].group = g /\ Subdir(s) = "policy" /\ spec[s] = e.url
      BY <2>1 DEF SeenInv
    <2>3. PICK t \in Sources : Config[t].group = g /\ Subdir(t) = "policy" /\ spec[t] = f.url
      BY <2>1 DEF SeenInv
    <2>4. /\ pc[Pre] = "done" /\ e.url \in Urls /\ f.url \in Urls
          /\ ~IsInline(s) /\ ~IsInline(t) /\ Config[s].kind = "policy" /\ Config[t].kind = "policy"
      BY <2>1, <2>2, <2>3 DEF SeenInv, TypeOK, Subdir, IsInline
    <2>5. e.url.rev = f.url.rev
      <3>1. CASE Command = "image"
        <4>1. Symlinks /\ e.url.rev # NotPinned /\ f.url.rev # NotPinned
          BY <2>1, <2>2, <2>3, <2>4, <3>1 DEF Linked, UrlInv
        <4>2. QED
          BY <2>1, <4>1, LoadedRevision
      <3>2. CASE Command = "input" /\ NamedOnce
        BY <2>1, <2>2, <2>3, <2>4, <3>2 DEF UrlInv, NamedOnce
      <3>3. QED
        BY <2>1, <3>1, <3>2, SetupFacts DEF TypeOK
    <2>6. e.url = f.url
      BY <2>1, <2>4, <2>5 DEF Urls
    <2>7. QED
      BY <2>1, <2>6 DEF SeenInv
  <1>2. QED
    BY <1>1, Invariance, PTL

\* However the references move while the command runs, all targets are judged by one
\* revision of each source, the one in the report's policy (policy.go, 567-626).
THEOREM JudgedByOneRevision == Spec => []OneRevision
  <1>1. ASSUME IInv PROVE OneRevision
    <2> USE <1>1 DEF IInv
    <2> DEFINE Revs(t, s) == {f.rev : f \in {e \in seen[t][Config[s].group] :
                                e.sub = Subdir(s) /\ e.url.ref = Config[s].ref}}
    <2>1. SUFFICES ASSUME Symlinks, NEW s \in Sources, NEW p \in Targets, NEW q \in Targets,
                          Evaluated(p, Config[s].group), Evaluated(q, Config[s].group)
                   PROVE  /\ Revs(p, s) = Revs(q, s)
                          /\ Command = "image" /\ ~IsInline(s) => spec[s].rev \in Revs(p, s)
      BY DEF OneRevision
    <2>2. Config[s].group \in Groups /\ Groups = {Config[t].group : t \in Sources}
      BY SetupFacts DEF TypeOK, Groups
    <2>3. /\ seen[p][Config[s].group] = Loaded(Config[s].group)
          /\ seen[q][Config[s].group] = Loaded(Config[s].group)
          /\ pc[Pre] = "done"
      BY <2>1, <2>2 DEF SeenInv, Evaluated
    <2>4. ASSUME Command = "image", ~IsInline(s) PROVE spec[s].rev \in Revs(p, s)
      <3> DEFINE f == [sub |-> Subdir(s), url |-> spec[s], rev |-> cache[spec[s]].rev,
                       complete |-> TRUE]
      <3>1. f \in seen[p][Config[s].group]
        BY <2>3 DEF Loaded
      <3>2. f.sub = Subdir(s) /\ f.url.ref = Config[s].ref /\ f.url.rev # NotPinned
        BY <2>3, <2>4 DEF UrlInv
      <3>3. f.rev = spec[s].rev
        BY <2>1, <2>2, <3>1, <3>2, LoadedRevision
      <3> HIDE DEF f
      <3>4. QED
        BY <3>1, <3>2, <3>3
    <2>5. QED
      BY <2>3, <2>4
  <1>2. QED
    BY <1>1, Invariance, PTL

===============================================================================
