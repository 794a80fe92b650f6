------------------------------ MODULE Tracker ------------------------------
(***************************************************************************)
(* `ec track bundle` (cmd/track/track_bundle.go): reads a tracking file or *)
(* image, adds the Tekton bundles and git tasks that it is given           *)
(* (internal/tracker), drops records that are superfluous or have expired, *)
(* dates the superseded ones and writes the result.  Each execution of the *)
(* command is a run; runs can overlap, and nothing locks the file.         *)
(*                                                                         *)
(* Time is counted in half days because setExpiration rounds to days.      *)
(***************************************************************************)
EXTENDS Integers, Sequences, FiniteSets, SequencesExt

CONSTANTS
  Procs,     \* terminals or pipelines, each executes one run after the other
  Groups,    \* the keys of trusted_tasks
  KindOf,    \* "tag", "untagged" (a bundle known by digest only) or "git"
  RepoOf,    \* the git repository of a group
  Refs,      \* digests and commits
  Taskless,  \* digests of bundles without a Task
  Commands,  \* the command lines
  Never,     \* no expires_on
  MaxTime,   \* bound: the last half day
  MaxRuns,   \* bound: the number of runs
  MaxPushes  \* bound: how often tags and branches move

Latest == "latest"   \* a URL without digest or revision

ASSUME TrackerAssumption ==
  /\ IsFiniteSet(Groups)
  /\ KindOf \in [Groups -> {"tag", "untagged", "git"}]
  /\ MaxTime \in Nat /\ MaxRuns \in Nat /\ MaxPushes \in Nat
  /\ Latest \notin Refs \cup Taskless /\ Never \notin Int
  /\ Refs \ Taskless # {}

Urls == [group: Groups, ref: Refs \cup Taskless \cup {Latest}]

\* --in-effect-days is any number; a URL names a bundle or a git path, with or without a
\* digest or revision.
ASSUME CommandAssumption ==
  /\ Commands # {}
  /\ \A c \in Commands :
       /\ c.input \in {"none", "main", "other"} /\ c.output \in {"stdout", "main", "other"}
       /\ c.prune \in BOOLEAN /\ c.freshen \in BOOLEAN /\ c.replace \in BOOLEAN
       /\ c.days \in Int /\ c.urls \in Seq(Urls)

VARIABLES
  now, runs, pushes,
  head,     \* what a tag, or a path on the default branch, is at
  past,     \* history: every value that head had
  files,    \* the tracking files; group -> records, newest first
  newest,   \* history: the reference last tracked in "main"
  clean,    \* history: runs did not overlap and did not crash so far
  pc, cmd,
  data,     \* what a run read
  t,        \* its Tracker
  urls,     \* the git URLs that it has not tracked
  clones,   \* gitTracker.repositories: repository -> head when it was cloned
  resolved, \* history: git group -> the commit that GitResolve returned
  added     \* history: group -> the reference that the run added to it last

vars == <<now, runs, pushes, head, past, files, newest, clean, pc, cmd, data, t, urls, clones, resolved, added>>
frame == <<now, pushes, head, past>>

Empty == [g \in Groups |-> << >>]
Record(ref, exp) == [ref |-> ref, exp |-> exp]
RefsOf(records) == {records[i].ref : i \in DOMAIN records}
Unresolved == [g \in {} |-> Latest]
NothingAdded == [g \in Groups |-> Latest]
NoClones == [r \in {} |-> Empty]
NoCommand == CHOOSE c \in Commands : TRUE

Init ==
  /\ now = 0 /\ runs = 0 /\ pushes = 0
  /\ head \in [Groups -> {CHOOSE r \in Refs : r \notin Taskless}] /\ past = {head}
  /\ files = [f \in {"main", "other"} |-> Empty]
  /\ newest = NothingAdded /\ clean = TRUE
  /\ pc = [p \in Procs |-> "idle"] /\ cmd = [p \in Procs |-> NoCommand]
  /\ data = [p \in Procs |-> Empty] /\ t = [p \in Procs |-> Empty]
  /\ urls = [p \in Procs |-> << >>] /\ clones = [p \in Procs |-> NoClones]
  /\ resolved = [p \in Procs |-> Unresolved] /\ added = [p \in Procs |-> NothingAdded]

\* External: time passes, a tag or a branch moves.
Tick ==
  /\ now < MaxTime /\ now' = now + 1
  /\ UNCHANGED <<runs, pushes, head, past, files, newest, clean, pc, cmd, data, t, urls, clones, resolved, added>>

Push(g, r) ==
  /\ pushes < MaxPushes /\ pushes' = pushes + 1 /\ r # head[g]
  /\ head' = [head EXCEPT ![g] = r] /\ past' = past \cup {head'}
  /\ UNCHANGED <<now, runs, files, newest, clean, pc, cmd, data, t, urls, clones, resolved, added>>

-----------------------------------------------------------------------------
(* tracker.go *)

\* addTrustedTaskRecord: the new record comes first.
addTrustedTaskRecord(tr, g, ref) == [tr EXCEPT ![g] = <<Record(ref, Never)>> \o @]

\* The elements of s at the positions I, in their order.
Kept(s, I) == [k \in 1..Cardinality(I) |-> s[CHOOSE i \in I : Cardinality({j \in I : j <= i}) = k]]

\* Mutant: nothing is removed.
UniqueNot(records) == DOMAIN records

\* Mutant: duplicates are looked for among all the records of the group.
UniqueAnywhere(records) ==
  {i \in DOMAIN records : \A j \in DOMAIN records : records[j].ref = records[i].ref => j <= i}

\* The first loop of filterRecords: of consecutive records with the same reference the
\* oldest stays. The positions of those.
Unique(records) ==
  {i \in DOMAIN records : i < Len(records) => records[i + 1].ref # records[i].ref}

Current(r) == r.exp = Never \/ now < r.exp

\* Mutant: pruning leaves the newest record only.
filterRecordsButNewest(records, prune) ==
  Kept(records, {i \in Unique(records) : prune => records[i].exp = Never /\ records[i] = records[1]})

filterRecords(records, prune) ==
  Kept(records, {i \in Unique(records) : prune => Current(records[i])})

\* time.Now().UTC().Round(oneDay)
Today == IF now % 2 = 0 THEN now ELSE now + 1

Expiry(days) == Today + 2 * days

setExpiration(records, days) ==
  [i \in DOMAIN records |->
     Record(records[i].ref,
            IF i = 1 THEN Never
            ELSE IF records[i].exp = Never THEN Expiry(days) ELSE records[i].exp)]

-----------------------------------------------------------------------------
(* One run *)

Go(p, where) == pc' = [pc EXCEPT ![p] = where]

\* What the process held is gone when it ends.
End(p) ==
  /\ Go(p, "idle")
  /\ cmd' = [cmd EXCEPT ![p] = NoCommand]
  /\ data' = [data EXCEPT ![p] = Empty] /\ t' = [t EXCEPT ![p] = Empty]
  /\ urls' = [urls EXCEPT ![p] = << >>] /\ clones' = [clones EXCEPT ![p] = NoClones]
  /\ resolved' = [resolved EXCEPT ![p] = Unresolved] /\ added' = [added EXCEPT ![p] = NothingAdded]

Continue(p, where) == Go(p, where) /\ UNCHANGED <<cmd, data, t, urls, clones, resolved, added>>

Overlapping(p) == \E q \in Procs \ {p} : pc[q] # "idle"

\* RunE up to the call of track: the whole input is read; an empty file is an empty
\* tracker (newTracker).
Start(p, c) ==
  /\ pc[p] = "idle" /\ runs < MaxRuns
  /\ runs' = runs + 1
  /\ cmd' = [cmd EXCEPT ![p] = c]
  /\ LET in == IF c.input = "none" THEN Empty ELSE files[c.input] IN
     data' = [data EXCEPT ![p] = in] /\ t' = [t EXCEPT ![p] = in]
  /\ clean' = (clean /\ ~Overlapping(p))
  /\ Go(p, "images")
  /\ UNCHANGED <<files, newest, urls, clones, resolved, added>> /\ UNCHANGED frame

\* groupUrls
GitUrls(c) == Kept(c.urls, {i \in DOMAIN c.urls : KindOf[c.urls[i].group] = "git"})
ImageUrls(c) == Kept(c.urls, {i \in DOMAIN c.urls : KindOf[c.urls[i].group] # "git"})

Known(p) == {g \in Groups : t[p][g] # << >>}

\* ParseAndResolveAll asks the registry for a URL without a digest.
Resolve(u) == IF u.ref = Latest THEN head[u.group] ELSE u.ref

\* inputBundleTags: the groups of the tracker; strict parsing refuses one without a tag.
FreshenTags(p) == IF cmd[p].freshen THEN {g \in Known(p) : KindOf[g] = "tag"} ELSE {}
FreshenRefused(p) == cmd[p].freshen /\ \E g \in Known(p) : KindOf[g] = "untagged"

\* trackGitReferences adds the git groups of the tracker in the order of the map.
FreshenGits(p) ==
  IF cmd[p].freshen
  THEN {[group |-> g, ref |-> Latest] : g \in {h \in Known(p) : KindOf[h] = "git"}}
  ELSE {}

\* containsTask: a bundle without a Task is passed over.
WithTask(list, g) ==
  Kept(list, {i \in DOMAIN list : list[i].group = g /\ Resolve(list[i]) \notin Taskless})

\* What trackImageReferences puts before the records of a group: the bundles of the URLs,
\* the last of them first, and before these the freshened one.
NewRecords(p, g) ==
  LET given == WithTask(ImageUrls(cmd[p]), g)
      fresh == IF g \in FreshenTags(p) /\ head[g] \notin Taskless THEN <<Record(head[g], Never)>> ELSE << >>
  IN  fresh \o [k \in DOMAIN given |-> Record(Resolve(given[Len(given) + 1 - k]), Never)]

\* trackImageReferences; the groups that are freshened differ, so that their order in the
\* map does not matter.  The given URLs and the freshened tags are resolved by two calls
\* of ParseAndResolveAll, one reference after the other; here they see one registry.
TrackImages(p) ==
  /\ pc[p] = "images" /\ ~FreshenRefused(p)
  /\ t' = [t EXCEPT ![p] = [g \in Groups |-> NewRecords(p, g) \o @[g]]]
  /\ added' = [added EXCEPT ![p] =
                  [g \in Groups |-> IF NewRecords(p, g) = << >> THEN Latest ELSE NewRecords(p, g)[1].ref]]
  /\ \E order \in SetToSeqs(FreshenGits(p)) : urls' = [urls EXCEPT ![p] = GitUrls(cmd[p]) \o order]
  /\ Go(p, "gits")
  /\ UNCHANGED <<runs, files, newest, clean, cmd, data, clones, resolved>> /\ UNCHANGED frame

\* Mutant: every path is looked up in a clone of its own.
GitResolveFresh(p, g) == head

\* GitResolve: a repository is cloned once in a run.
GitResolve(p, g) == IF RepoOf[g] \in DOMAIN clones[p] THEN clones[p][RepoOf[g]] ELSE head

\* One URL of trackGitReferences.
TrackGit(p) ==
  /\ pc[p] = "gits" /\ urls[p] # << >>
  /\ LET u == Head(urls[p])
         c == GitResolve(p, u.group)
         ref == IF u.ref = Latest THEN c[u.group] ELSE u.ref
     IN
       /\ u.ref = Latest => cmd[p].freshen
       /\ urls' = [urls EXCEPT ![p] = Tail(@)]
       /\ t' = [t EXCEPT ![p] = addTrustedTaskRecord(@, u.group, ref)]
       /\ added' = [added EXCEPT ![p][u.group] = ref]
       /\ IF u.ref = Latest
          THEN /\ clones' = [clones EXCEPT ![p] =
                               [r \in DOMAIN @ \cup {RepoOf[u.group]} |-> IF r \in DOMAIN @ THEN @[r] ELSE c]]
               /\ resolved' = [resolved EXCEPT ![p] =
                                 [g \in DOMAIN @ \cup {u.group} |-> IF g = u.group THEN c[g] ELSE @[g]]]
          ELSE UNCHANGED <<clones, resolved>>
  /\ UNCHANGED <<runs, files, newest, clean, pc, cmd, data>> /\ UNCHANGED frame

\* The rest of Track: filterBundles, setExpiration, Output.
Filter(p) ==
  /\ pc[p] = "gits" /\ urls[p] = << >>
  /\ t' = [t EXCEPT ![p] = [g \in Groups |-> setExpiration(filterRecords(@[g], cmd[p].prune), cmd[p].days)]]
  /\ Go(p, "output")
  /\ UNCHANGED <<runs, files, newest, clean, cmd, data, urls, clones, resolved, added>> /\ UNCHANGED frame

Replaces(p) == cmd[p].replace /\ cmd[p].input # "none"

\* History: what the run tracked is the newest in the file now; what earlier runs tracked
\* in it still is, unless this one began with other records.
Noted(p, f) ==
  IF f # "main" THEN newest
  ELSE [g \in Groups |-> IF added[p][g] # Latest THEN added[p][g]
                         ELSE IF cmd[p].input = "main" THEN newest[g] ELSE Latest]

\* Writing truncates the file first.
Truncate(p, f) ==
  /\ files' = [files EXCEPT ![f] = Empty]
  /\ UNCHANGED <<runs, newest, clean, cmd, data, t, urls, clones, resolved, added>> /\ UNCHANGED frame

Output(p) ==
  /\ pc[p] = "output" /\ cmd[p].output # "stdout"
  /\ Go(p, "outputting") /\ Truncate(p, cmd[p].output)

Replace(p) ==
  /\ pc[p] = "replace" /\ Go(p, "replacing") /\ Truncate(p, cmd[p].input)

Write(p, f) ==
  /\ files' = [files EXCEPT ![f] = t[p]]
  /\ newest' = Noted(p, f)
  /\ UNCHANGED <<runs, clean>> /\ UNCHANGED frame

AfterOutput(p) == IF Replaces(p) THEN Continue(p, "replace") ELSE End(p)

FinishOutput(p) ==
  /\ pc[p] = "outputting" /\ Write(p, cmd[p].output) /\ AfterOutput(p)

FinishReplace(p) == pc[p] = "replacing" /\ Write(p, cmd[p].input) /\ End(p)

Stdout(p) ==
  /\ pc[p] = "output" /\ cmd[p].output = "stdout"
  /\ AfterOutput(p)
  /\ UNCHANGED <<runs, files, newest, clean>> /\ UNCHANGED frame

\* An error of the registry or of git, a URL without revision, or a group that cannot be
\* freshened: the run ends and nothing is written.
Fail(p) ==
  /\ pc[p] \in {"images", "gits"} /\ End(p)
  /\ UNCHANGED <<runs, files, newest, clean>> /\ UNCHANGED frame

\* The process dies.
Crash(p) ==
  /\ pc[p] # "idle" /\ End(p) /\ clean' = FALSE
  /\ UNCHANGED <<runs, files, newest>> /\ UNCHANGED frame

Step(p) ==
  \/ \E c \in Commands : Start(p, c)
  \/ TrackImages(p) \/ TrackGit(p) \/ Filter(p)
  \/ Output(p) \/ FinishOutput(p) \/ Stdout(p) \/ Replace(p) \/ FinishReplace(p)
  \/ Fail(p) \/ Crash(p)

Next == Tick \/ (\E g \in Groups, r \in Refs : Push(g, r)) \/ (\E p \in Procs : Step(p))

Spec == Init /\ [][Next]_vars

-----------------------------------------------------------------------------
(* Properties *)

Records == [ref: Refs \cup Taskless, exp: {Never} \cup Int]
Trackers == [Groups -> Seq(Records)]

\* Types of the state; a record has a digest or a commit, never the tag it was asked by.
TypeOK ==
  /\ now \in 0..MaxTime /\ runs \in 0..MaxRuns /\ pushes \in 0..MaxPushes
  /\ head \in [Groups -> Refs] /\ past \subseteq [Groups -> Refs] /\ head \in past
  /\ files \in [{"main", "other"} -> Trackers]
  /\ newest \in [Groups -> Refs \cup Taskless \cup {Latest}] /\ clean \in BOOLEAN
  /\ pc \in [Procs -> {"idle", "images", "gits", "output", "outputting", "replace", "replacing"}]
  /\ cmd \in [Procs -> Commands]
  /\ data \in [Procs -> Trackers] /\ t \in [Procs -> Trackers]
  /\ urls \in [Procs -> Seq(Urls)]
  /\ added \in [Procs -> [Groups -> Refs \cup Taskless \cup {Latest}]]
  /\ DOMAIN clones = Procs /\ DOMAIN resolved = Procs
  /\ \A p \in Procs : DOMAIN resolved[p] \subseteq Groups

\* All runs have one value of --in-effect-days. With two, a newer record may expire before
\* an older one; pruned from between two records of one reference it leaves these side by
\* side, and later filterRecords keeps only the older, which may have expired.
OneGrace == \A c, d \in Commands : c.days = d.days

\* tracker.go, setExpiration: in every file, after any sequence of runs, the first record
\* of a group has no date, every other has one, and no reference comes twice in a row.
InEffectFirst ==
  \A f \in DOMAIN files, g \in Groups : \A i \in DOMAIN files[f][g] :
    /\ (files[f][g][i].exp = Never) <=> i = 1
    /\ OneGrace /\ i > 1 => files[f][g][i].ref # files[f][g][i - 1].ref

\* track_bundle.go:71, "Any entry with an expires_on date in the future (or no expires_on
\* date) is considered current and will not be pruned": what the run read as current is
\* still in its result.
KeepsCurrent(p) ==
  \A g \in Groups : \A i \in DOMAIN data[p][g] :
    Current(data[p][g][i]) => data[p][g][i].ref \in RefsOf(t'[p][g])

\* track_bundle.go:67, "When a new entry is introduced, an expiration date is added to the
\* previous newest entry": a reference that is superseded stays for inEffectDays.
GraceGiven(p) ==
  \A g \in Groups :
    data[p][g] # << >> /\ t'[p][g] # << >> /\ t'[p][g][1].ref # data[p][g][1].ref =>
      \E i \in DOMAIN t'[p][g] :
        t'[p][g][i].ref = data[p][g][1].ref /\ t'[p][g][i].exp >= Expiry(cmd[p].days)

\* tracker.go, setExpiration: a date once given to a superseded record is not moved: each
\* dated record of the result was dated so in the input, or was the newest there, or is
\* one that the run itself added and superseded.
DatesFixed(p) ==
  \A g \in Groups : \A i \in DOMAIN t'[p][g] :
    i > 1 =>
      \/ t'[p][g][i] \in Range(data[p][g])
      \/ /\ t'[p][g][i].exp = Expiry(cmd[p].days)
         /\ \E j \in DOMAIN t[p][g] :
              j <= Len(t[p][g]) - Len(data[p][g]) + 1 /\ t'[p][g][i].ref = t[p][g][j].ref

\* What a run makes of the records that it read (tracker.go, Track): current ones stay,
\* a superseded one gets its days, and a date once given stays.
HistoryKept ==
  [][OneGrace => \A p \in Procs : Filter(p) => KeepsCurrent(p) /\ GraceGiven(p) /\ DatesFixed(p)]_vars

Writing(f) == \E p \in Procs : \/ pc[p] = "outputting" /\ cmd[p].output = f
                               \/ pc[p] = "replacing" /\ cmd[p].input = f

\* track_bundle.go: while runs neither overlap nor crash, what the last of them tracked in
\* a file is in effect there, whatever was pruned or freshened before.
NewestKept ==
  OneGrace /\ clean /\ ~Writing("main") =>
    \A g \in Groups : newest[g] # Latest => files["main"][g] # << >> /\ files["main"][g][1].ref = newest[g]

\* git.go, GitResolve: the commits that one run finds for the paths of a repository were the
\* newest at one moment, although it is pushed to meanwhile.
OneClone ==
  \A p \in Procs, r \in {RepoOf[g] : g \in Groups} :
    \E h \in past : \A g \in DOMAIN resolved[p] : RepoOf[g] = r => resolved[p][g] = h[g]
=============================================================================
