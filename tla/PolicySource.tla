---------------------------- MODULE PolicySource ----------------------------
(***************************************************************************)
(* How policy and data sources reach the evaluators: GetPolicy and         *)
(* getPolicyThroughCache of internal/policy/source/source.go with the      *)
(* process-wide downloadCache, PreProcessPolicy of                         *)
(* internal/policy/policy.go, which pins the sources of the policy, and    *)
(* the beginning of Evaluate (internal/evaluator/conftest_evaluator.go),   *)
(* which fetches the sources of one group into the evaluator's work        *)
(* directory and hands that directory to conftest.                         *)
(*                                                                         *)
(* `ec validate image` pins the policy first and then shares its           *)
(* evaluators between the goroutines; `ec validate input` builds its own   *)
(* evaluators for each input and pins nothing.                             *)
(***************************************************************************)
EXTENDS Integers, FiniteSets, Sequences, Functions

CONSTANTS
  Setups,      \* what a process may find; one of them is chosen when it starts
  Targets,     \* components or inputs, each validated by its own goroutine
  MaxRev       \* bound: the newest revision that a reference can get

\* A setup is the command, the sources of the policy (config, group after group), the
\* references whose metadata cannot be turned into a pinned URL (unpinnable) and whether
\* the file system implements afero.Symlinker (symlinks).
VARIABLE setup

Command    == setup.command
Config     == setup.config
Unpinnable == setup.unpinnable
Symlinks   == setup.symlinks
NumSources == Len(Config)

Sources == 1..NumSources
Refs    == {Config[s].ref : s \in Sources}
Groups  == {Config[s].group : s \in Sources}

\* A URL names a reference, and a revision once it is pinned.
NotPinned == 0
Url(ref, rev) == [ref |-> ref, rev |-> rev]
Urls == [ref: Refs, rev: 0..MaxRev]

ASSUME SetupAssumption ==
  /\ Targets \subseteq Nat \ {0} /\ IsFiniteSet(Targets) /\ MaxRev \in Nat \ {0}
  /\ \A c \in Setups :
       /\ c.command \in {"image", "input"} /\ c.symlinks \in BOOLEAN
       /\ Len(c.config) \in Nat \ {0} /\ DOMAIN c.config = 1..Len(c.config)
       /\ \A i \in DOMAIN c.config :
            /\ c.config[i].group \in Nat
            /\ c.config[i].kind \in {"policy", "data", "inline"}
            /\ c.config[i].rev \in {NotPinned, 1}
            /\ c.config[i].kind = "inline" => c.config[i].rev = NotPinned
            /\ \A j \in DOMAIN c.config : i <= j => c.config[i].group <= c.config[j].group

\* The goroutines: 0 is main while it pre-processes the policy.
Pre   == 0
Procs == {Pre} \cup Targets

\* Who owns the PolicyUrl objects and the work directories that p uses.
Shared == -1
Owner(p) == IF Command = "image" /\ p # Pre THEN Shared ELSE p
Owners == Procs \cup {Shared}

VARIABLES
  head,     \* the newest revision of each reference at its origin
  spec,     \* the URL of each source in the policy's Spec()
  src,      \* the Url field of each owner's PolicyUrl objects
  cache,    \* downloadCache: the entries stored so far, by URL
  files,    \* what exists in the work directories, by path
  fetches,  \* history: how often each URL was downloaded
  broken,   \* history: the URLs whose download failed
  pc,       \* where each goroutine is
  at,       \* the source that a goroutine is getting
  url,      \* getPolicyThroughCache's sourceUrl
  meta,     \* the revision in the metadata that it returns
  seen      \* history: what conftest was given for each target and group

vars == <<setup, head, spec, src, cache, files, fetches, broken, pc, at, url, meta, seen>>

-----------------------------------------------------------------------------

IsInline(s) == Config[s].kind = "inline"

Subdir(s) == IF IsInline(s) THEN "data" ELSE Config[s].kind

\* uniqueDestination: the work directory of the owner's group, the subdirectory of
\* the kind, a directory named for the URL.
Dest(p, s, u) ==
  [owner |-> Owner(p), group |-> Config[s].group, sub |-> Subdir(s), url |-> u]

MyDest(p) == Dest(p, at[p], url[p])

\* filepath.Dir of two destinations is the same.
SameDir(d, e) == d.owner = e.owner /\ d.group = e.group /\ d.sub = e.sub

\* The first source to fetch at or after s; PreProcessPolicy skips "data:" URLs.
Wanted(p, s) == s \in Sources /\ (p = Pre => ~IsInline(s))
From(p, s) ==
  IF \E t \in Sources : t >= s /\ Wanted(p, t)
  THEN CHOOSE t \in Sources :
         t >= s /\ Wanted(p, t) /\ \A v \in Sources : v >= s /\ Wanted(p, v) => t <= v
  ELSE NumSources + 1

Init ==
  /\ setup \in Setups
  /\ head = [r \in Refs |-> 1]
  /\ spec = [s \in Sources |-> Url(Config[s].ref, Config[s].rev)]
  /\ src = [o \in Owners |-> [s \in Sources |-> Url(Config[s].ref, Config[s].rev)]]
  /\ cache = << >>
  /\ files = << >>
  /\ fetches = [u \in Urls |-> 0]
  /\ broken = {}
  /\ pc = [p \in Procs |-> CASE p # Pre -> "wait"
                             [] p = Pre /\ Command = "image" -> "group"
                             [] OTHER -> "done"]
  /\ at = [p \in Procs |-> From(p, 1)]
  /\ url = [p \in Procs |-> spec[1]]
  /\ meta = [p \in Procs |-> NotPinned]
  /\ seen = [p \in Targets |-> [g \in Groups |-> {}]]

\* External: a new revision is pushed to a branch or a tag.
Push(r) ==
  /\ head[r] < MaxRev
  /\ \E s \in Sources : Config[s].ref = r /\ ~IsInline(s)
  /\ head' = [head EXCEPT ![r] = @ + 1]
  /\ UNCHANGED <<spec, src, cache, files, fetches, broken, pc, at, url, meta, seen>>

Go(p, where) == pc' = [pc EXCEPT ![p] = where]

-----------------------------------------------------------------------------
(* GetPolicy *)

\* sourceUrl := s.PolicyUrl()
ReadUrl(p) ==
  /\ pc[p] = "get"
  /\ url' = [url EXCEPT ![p] = src[Owner(p)][at[p]]]
  /\ Go(p, "load")
  /\ UNCHANGED <<head, spec, src, cache, files, fetches, broken, at, meta, seen>>

Entry(d) == [state |-> "stored", dir |-> d, rev |-> NotPinned]

\* Mutant: the entry is stored without a look at the one that is there.
Store(p) ==
  /\ pc[p] = "load"
  /\ cache' = [u \in DOMAIN cache \cup {url[p]} |->
                 IF u = url[p] THEN Entry(MyDest(p)) ELSE cache[u]]
  /\ Go(p, "call")
  /\ UNCHANGED <<head, spec, src, files, fetches, broken, at, url, meta, seen>>

LoadOrStore(p) ==
  /\ pc[p] = "load"
  /\ cache' = [u \in DOMAIN cache \cup {url[p]} |->
                 IF u \in DOMAIN cache THEN cache[u] ELSE Entry(MyDest(p))]
  /\ Go(p, "call")
  /\ UNCHANGED <<head, spec, src, files, fetches, broken, at, url, meta, seen>>

Partial == [link |-> FALSE, rev |-> NotPinned, complete |-> FALSE]

Put(d, f) == files' = [e \in DOMAIN files \cup {d} |-> IF e = d THEN f ELSE files[e]]

\* The function of sync.OnceValues: its first caller downloads.
BeginDownload(p) ==
  /\ pc[p] = "call"
  /\ cache[url[p]].state = "stored"
  /\ cache' = [cache EXCEPT ![url[p]].state = "running"]
  /\ fetches' = [fetches EXCEPT ![url[p]] = @ + 1]
  /\ Put(cache[url[p]].dir, Partial)
  /\ Go(p, "download")
  /\ UNCHANGED <<head, spec, src, broken, at, url, meta, seen>>

\* What a download of u brings: a branch or a tag gives its newest revision.
Revision(u) == IF u.rev = NotPinned THEN head[u.ref] ELSE u.rev

Downloaded(p) ==
  /\ pc[p] = "download"
  /\ cache' = [cache EXCEPT ![url[p]].state = "done", ![url[p]].rev = Revision(url[p])]
  /\ files' = [files EXCEPT ![cache[url[p]].dir] =
                 [@ EXCEPT !.rev = Revision(url[p]), !.complete = TRUE]]
  /\ Go(p, "stat")
  /\ UNCHANGED <<head, spec, src, fetches, broken, at, url, meta, seen>>

\* Mutant: the error is returned and not kept.
DownloadFailsQuietly(p) ==
  /\ pc[p] = "download"
  /\ broken' = broken \cup {url[p]}
  /\ Go(p, "error")
  /\ UNCHANGED <<head, spec, src, cache, files, fetches, at, url, meta, seen>>

\* The error is kept in the cache, and what was written stays where it is.
DownloadFails(p) ==
  /\ pc[p] = "download"
  /\ cache' = [cache EXCEPT ![url[p]].state = "failed"]
  /\ broken' = broken \cup {url[p]}
  /\ Go(p, "error")
  /\ UNCHANGED <<head, spec, src, files, fetches, at, url, meta, seen>>

\* The other callers wait for the first one and get what it got.
Await(p) ==
  /\ pc[p] = "call"
  /\ cache[url[p]].state \in {"done", "failed"}
  /\ Go(p, IF cache[url[p]].state = "done" THEN "stat" ELSE "error")
  /\ UNCHANGED <<head, spec, src, cache, files, fetches, broken, at, url, meta, seen>>

\* fs.Stat(dest), and whether the download is in the very directory of dest.
Stat(p) ==
  /\ pc[p] = "stat"
  /\ Go(p, IF MyDest(p) \in DOMAIN files \/ SameDir(MyDest(p), cache[url[p]].dir)
           THEN "pin" ELSE "link")
  /\ meta' = [meta EXCEPT ![p] = cache[url[p]].rev]
  /\ UNCHANGED <<head, spec, src, cache, files, fetches, broken, at, url, seen>>

\* Mutant: the source is fetched once more where a link would do.
FetchForLink(p) ==
  /\ pc[p] = "link" /\ Symlinks
  /\ Put(MyDest(p), [link |-> FALSE, rev |-> Revision(url[p]), complete |-> TRUE])
  /\ Go(p, "pin")
  /\ UNCHANGED <<head, spec, src, cache, fetches, broken, at, url, meta, seen>>

\* SymlinkIfPossible fails on a path that has come to exist since the Stat.
Symlink(p) ==
  /\ pc[p] = "link" /\ Symlinks
  /\ IF MyDest(p) \in DOMAIN files
     THEN UNCHANGED files /\ Go(p, "error")
     ELSE /\ Put(MyDest(p), [files[cache[url[p]].dir] EXCEPT !.link = TRUE])
          /\ Go(p, "pin")
  /\ UNCHANGED <<head, spec, src, cache, fetches, broken, at, url, meta, seen>>

\* Mutant: nobody waits for the second download.
BeginAgainOnly(p) ==
  /\ pc[p] = "link" /\ ~Symlinks
  /\ fetches' = [fetches EXCEPT ![url[p]] = @ + 1]
  /\ Put(MyDest(p), Partial)
  /\ Go(p, "pin")
  /\ UNCHANGED <<head, spec, src, cache, broken, at, url, meta, seen>>

\* Without symbolic links the source is downloaded again.
BeginAgain(p) ==
  /\ pc[p] = "link" /\ ~Symlinks
  /\ fetches' = [fetches EXCEPT ![url[p]] = @ + 1]
  /\ Put(MyDest(p), Partial)
  /\ Go(p, "again")
  /\ UNCHANGED <<head, spec, src, cache, broken, at, url, meta, seen>>

DownloadedAgain(p) ==
  /\ pc[p] = "again"
  /\ \/ /\ files' = [files EXCEPT ![MyDest(p)] =
                       [@ EXCEPT !.rev = Revision(url[p]), !.complete = TRUE]]
        /\ meta' = [meta EXCEPT ![p] = Revision(url[p])]
        /\ Go(p, "pin")
        /\ UNCHANGED broken
     \/ /\ broken' = broken \cup {url[p]}
        /\ Go(p, "error")
        /\ UNCHANGED <<files, meta>>
  /\ UNCHANGED <<head, spec, src, cache, fetches, at, url, seen>>

\* p.Url, err = metadata.GetPinnedURL(p.Url), on an object that other goroutines may
\* be reading; inline data has no URL to pin.
Pin(p) ==
  /\ pc[p] = "pin"
  /\ \/ IsInline(at[p]) /\ UNCHANGED src /\ Go(p, "got")
     \/ /\ ~IsInline(at[p]) /\ Config[at[p]].ref \in Unpinnable
        /\ UNCHANGED src /\ Go(p, "error")
     \/ /\ ~IsInline(at[p]) /\ Config[at[p]].ref \notin Unpinnable
        /\ src' = [src EXCEPT ![Owner(p)][at[p]].rev = meta[p]]
        /\ Go(p, "got")
  /\ UNCHANGED <<head, spec, cache, files, fetches, broken, at, url, meta, seen>>

-----------------------------------------------------------------------------
(* The callers of GetPolicy *)

GroupOf(p) == Config[at[p]].group

\* The next source belongs to the same group.
MoreInGroup(p) ==
  LET n == From(p, at[p] + 1) IN n \in Sources /\ Config[n].group = GroupOf(p)

\* A source is there; the loop over the sources of the group goes on.
NextSource(p) ==
  /\ pc[p] = "got" /\ MoreInGroup(p)
  /\ at' = [at EXCEPT ![p] = From(p, at[p] + 1)]
  /\ Go(p, "get")
  /\ UNCHANGED <<head, spec, src, cache, files, fetches, broken, url, meta, seen>>

\* Mutant: the group keeps the URLs that the policy came with.
KeepGroup ==
  /\ pc[Pre] = "got" /\ ~MoreInGroup(Pre)
  /\ at' = [at EXCEPT ![Pre] = From(Pre, at[Pre] + 1)]
  /\ Go(Pre, "group")
  /\ UNCHANGED <<head, spec, src, cache, files, fetches, broken, url, meta, seen>>

\* PreProcessPolicy replaces the group by one with the pinned URLs, in the slice that
\* the policy's Spec() shares.
PinGroup ==
  /\ pc[Pre] = "got" /\ ~MoreInGroup(Pre)
  /\ spec' = [s \in Sources |-> IF Config[s].group = GroupOf(Pre) THEN src[Pre][s] ELSE spec[s]]
  /\ at' = [at EXCEPT ![Pre] = From(Pre, at[Pre] + 1)]
  /\ Go(Pre, "group")
  /\ UNCHANGED <<head, src, cache, files, fetches, broken, url, meta, seen>>

\* The next group of the policy; after the last one, PolicySourcesFrom builds the
\* objects that the evaluators share.
PreProcess ==
  /\ pc[Pre] = "group"
  /\ IF at[Pre] \in Sources
     THEN Go(Pre, "get") /\ UNCHANGED src
     ELSE Go(Pre, "done") /\ src' = [src EXCEPT ![Shared] = spec]
  /\ UNCHANGED <<head, spec, cache, files, fetches, broken, at, url, meta, seen>>

\* A goroutine takes up its target.
Begin(p) ==
  /\ pc[p] = "wait" /\ pc[Pre] = "done"
  /\ Go(p, "get")
  /\ UNCHANGED <<head, spec, src, cache, files, fetches, broken, at, url, meta, seen>>

\* What lies in a work directory.
Contents(o, g) ==
  {[sub |-> d.sub, url |-> d.url, rev |-> files[d].rev, complete |-> files[d].complete] :
     d \in {e \in DOMAIN files : e.owner = o /\ e.group = g}}

\* conftest loads the policy and the data directory of the evaluator; then the next
\* evaluator has its turn.
RunConftest(p) ==
  /\ p # Pre
  /\ pc[p] = "got" /\ ~MoreInGroup(p)
  /\ seen' = [seen EXCEPT ![p][GroupOf(p)] = Contents(Owner(p), GroupOf(p))]
  /\ at' = [at EXCEPT ![p] = From(p, at[p] + 1)]
  /\ Go(p, IF From(p, at[p] + 1) \in Sources THEN "get" ELSE "done")
  /\ UNCHANGED <<head, spec, src, cache, files, fetches, broken, url, meta>>

Ended(p) == pc[p] \in {"done", "error"}

\* RunE of validate image returns: Destroy removes the evaluators' directories, the ones
\* that PreProcessPolicy made stay.
Destroy ==
  /\ Command = "image" /\ pc[Pre] = "done"
  /\ \A p \in Targets : Ended(p)
  /\ files # Restrict(files, {d \in DOMAIN files : d.owner # Shared})
  /\ files' = Restrict(files, {d \in DOMAIN files : d.owner # Shared})
  /\ UNCHANGED <<head, spec, src, cache, fetches, broken, pc, at, url, meta, seen>>

-----------------------------------------------------------------------------

GetPolicy(p) ==
  \/ ReadUrl(p) \/ LoadOrStore(p) \/ BeginDownload(p) \/ Downloaded(p) \/ DownloadFails(p)
  \/ Await(p) \/ Stat(p) \/ Symlink(p) \/ BeginAgain(p) \/ DownloadedAgain(p) \/ Pin(p)

Step(p) == GetPolicy(p) \/ NextSource(p) \/ Begin(p) \/ RunConftest(p)

Main == Step(Pre) \/ PinGroup \/ PreProcess \/ Destroy

Next ==
  /\ Main \/ (\E p \in Targets : Step(p)) \/ (\E r \in Refs : Push(r))
  /\ UNCHANGED setup

Spec == Init /\ [][Next]_vars

\* The scheduler runs every goroutine that can run, and a download ends.
Fairness ==
  /\ WF_vars(Main /\ UNCHANGED setup)
  /\ \A p \in Targets : WF_vars(Step(p) /\ UNCHANGED setup)

FairSpec == Spec /\ Fairness

-----------------------------------------------------------------------------
(* Properties *)

EntryType == [state: {"stored", "running", "done", "failed"},
              dir: [owner: Owners, group: Groups, sub: {"policy", "data"}, url: Urls],
              rev: 0..MaxRev]

FileType == [link: BOOLEAN, rev: 0..MaxRev, complete: BOOLEAN]

\* Every variable has the type its Go counterpart gives it.
TypeOK ==
  /\ setup \in Setups
  /\ head \in [Refs -> 1..MaxRev]
  /\ spec \in [Sources -> Urls]
  /\ src \in [Owners -> [Sources -> Urls]]
  /\ DOMAIN cache \subseteq Urls /\ \A u \in DOMAIN cache : cache[u] \in EntryType
  /\ \A d \in DOMAIN files :
       /\ d \in [owner: Owners, group: Groups, sub: {"policy", "data"}, url: Urls]
       /\ files[d] \in FileType
  /\ fetches \in [Urls -> Nat]
  /\ broken \subseteq Urls
  /\ pc \in [Procs -> {"wait", "group", "get", "load", "call", "download", "stat", "link",
                       "again", "pin", "got", "done", "error"}]
  /\ at \in [Procs -> 1..(NumSources + 1)]
  /\ url \in [Procs -> Urls]
  /\ meta \in [Procs -> 0..MaxRev]
  /\ seen \in [Targets -> [Groups -> SUBSET
       [sub: {"policy", "data"}, url: Urls, rev: 0..MaxRev, complete: BOOLEAN]]]

\* However many goroutines ask for it, a URL is downloaded once (source.go, 99-107).
OneDownload == Symlinks => \A u \in Urls : fetches[u] <= 1

\* The group g was evaluated for the target p.
Evaluated(p, g) == seen[p][g] # {}

\* Goroutines that share a work directory do so where links can be made: a directory
\* that BeginAgain fills is there for the Stat of another goroutine before it is full.
Linked == Symlinks \/ Command = "input"

\* What conftest loads for a target is a finished download, never one that another
\* goroutine is still writing (source.go, 109-117).
LoadsFinished ==
  Linked => \A p \in Targets, g \in Groups : \A f \in seen[p][g] : f.complete

\* No group names a policy both by branch and by revision.  `ec validate image` may: it
\* pins them all before a work directory is filled.
NamedOnce ==
  \A s, t \in Sources :
    /\ Config[s].kind = "policy" /\ Config[t].kind = "policy"
    /\ Config[s].group = Config[t].group /\ Config[s].ref = Config[t].ref
    => Config[s].rev = Config[t].rev

\* A work directory holds the policies of a download once: the same rules in two
\* directories of it do not compile (source_test.go, 605-607, EC-936).
NoDuplicateRules ==
  Linked /\ (Command = "image" \/ NamedOnce) =>
    \A p \in Targets, g \in Groups : \A e, f \in seen[p][g] :
      e.sub = "policy" /\ f.sub = "policy" /\ e.url.ref = f.url.ref /\ e.rev = f.rev => e = f

\* Whatever is pushed meanwhile, where links can be made every target that is judged is judged by one revision of
\* a source, and `ec validate image` names that revision in the policy of its report
\* (policy.go, 567-626).
OneRevision == Symlinks =>
  \A s \in Sources : \A p, q \in Targets :
    LET Revs(t) == {f.rev : f \in {e \in seen[t][Config[s].group] :
                      e.sub = Subdir(s) /\ e.url.ref = Config[s].ref}}
    IN Evaluated(p, Config[s].group) /\ Evaluated(q, Config[s].group) =>
         /\ Revs(p) = Revs(q)
         /\ Command = "image" /\ ~IsInline(s) => spec[s].rev \in Revs(p)

\* A goroutine gets an error only for a source that could not be downloaded or pinned:
\* one that is in the download cache is loaded from there (source.go, 96-98).
ErrorsExplained(p) == pc[p] = "error" => url[p] \in broken \/ url[p].ref \in Unpinnable

\* Said at source.go, 96-98, of every caller: "loaded from the cache". Components that
\* share an evaluator race between Stat and SymlinkIfPossible, and one is refused.
NeverRefused == \A p \in Procs : ErrorsExplained(p)

\* Every goroutine gets its sources or an error: nobody waits for a download for ever.
AllEnd == <>(pc[Pre] = "error" \/ \A p \in Procs : Ended(p))
=============================================================================
