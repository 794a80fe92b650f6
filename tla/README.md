# A formal model of `ec`, the Conforma command line

`ec validate image` takes a snapshot (a list of components, each a container image),
a policy (groups of Rego rules and data) and answers whether every image is signed,
attested and accepted by the rules. The answer, an exit status and a report, gates
releases, so what matters is that it is never better than what was checked, that every
component is answered for, and that the same policy at the same time judges all of them.
This directory holds TLA+ models of the parts of the program on which that rests, TLC
configurations that check them on small instances, and TLAPS proofs.

## Inventory of the system

| Part | Code | State | Operations | Hard behaviour |
|---|---|---|---|---|
| validate image | `cmd/validate/image.go` | evaluators, two channels, a pool of goroutines, errors, report | `RunE`, `worker` | results in any order, errors of some components, closing of channels, goroutines that outlive their use |
| image pipeline | `internal/image/validate.go`, `internal/evaluation_target/application_snapshot_image` | one `Output` per component | `ValidateImage` and the checks it makes | early returns between checks, some errors end the component, some are recorded, some logged |
| policy object | `internal/policy/policy.go` | effective time, spec | `NewPolicy`, `AttestationTime`, `EffectiveTime`, `PreProcessPolicy` | one object written and read by all goroutines without a lock |
| policy sources | `internal/policy/source`, `internal/policy/cache`, `internal/downloader` | process-wide download cache, work directories, the URL of each source | `GetPolicy`, `getPolicyThroughCache` | concurrent first use, failed downloads, check-then-act on the file system, moving branches |
| evaluator | `internal/evaluator` | sources, include and exclude criteria, work directory | `Evaluate`, `ResolvePolicy`, `FilterResults`, `CategorizeResults`, `trim` | two filters that must agree, scores with ties, results that depend on others |
| output | `internal/output` | five checks and the policy results | `Set...Check`, `Violations`, `Warnings`, `Successes` | a check that was not made is not a failure |
| report | `internal/applicationsnapshot/report.go`, `internal/input/report.go`, `internal/format` | components, success, effective time | `NewReport`, `WriteAll`, formats | several targets of which one fails |
| validate input | `cmd/validate/input.go`, `internal/input` | as validate image, with evaluators per input | `RunE`, `ValidateInput` | a pool of size zero |
| snapshot input | `internal/applicationsnapshot/input.go` | the snapshot, the expansion of image indexes | `merge`, `DetermineInputSpec`, `expandImageIndex` | maps written by several goroutines |
| HTTP retry | `internal/http` | attempt, last response and error | `RoundTrip`, `calculateBackoff` | retries of what must not be retried, backoff at its bounds |
| VSA | `internal/validate/vsa` | envelopes, storage backends, Rekor entries | `ProcessAllVSAs`, `UploadVSAEnvelope`, `RetrieveVSA` | one upload of several failing, entries that cannot be fetched |
| tracker | `internal/tracker`, `cmd/track` | records of trusted tasks with expiry | `Track`, `filterRecords`, `setExpiration` | long sequences of runs, two runs at once |
| attestations, signatures | `internal/attestation`, `internal/signature` | parsed statements and signers | `ProvenanceFromSignature`, `NewEntitySignature` | a layer that does not parse among some that do |
| Rego builtins | `internal/rego/oci`, `internal/rego/sigstore` | answers that OPA memoizes within a query | `ec.oci.*`, `ec.sigstore.*` | tags that move between two requests, options that are turned into a term and back |
| registry client | `internal/utils/oci`, `internal/fetchers/oci` | caches | `Image`, `Layer`, `Head`, `FetchImageFiles` | bodies that break off, retries on top of retries |
| Kubernetes client | `internal/kubernetes` | none | `FetchEnterpriseContractPolicy`, `FetchSnapshot` | names with and without a namespace |
| others | OPA inspection, purl builtins, other commands, generators of documentation | none of their own | | |

The parts interact by calls on shared objects: the command hands one `policy.Policy` and
one list of evaluators to all goroutines; every goroutine runs the pipeline, the pipeline
writes the attestation time into the policy and runs the evaluators in turn; an evaluator
fetches its sources through the download cache, reads the policy's effective time and
returns outcomes, which the `Output` turns into violations and the report into an answer.

What makes each part correct: the report and the exit status are exact for the components
(command, output, report); each component is judged at the time the flag says (policy
object); each is judged by the same, complete, once-downloaded sources, and those are the
ones the report names (policy sources); what the criteria select before the evaluation is
what they keep after it (evaluator); an index's children join the snapshot and nothing
leaves it (snapshot input); a record in effect is never pruned and an update never lost
(tracker); the latest VSA is the one retrieved, an upload that failed is reported (VSA).

## Modules

### `ValidateImages`: the command, the pipeline and the policy's time

| Model | Code |
|---|---|
| `main`, `evaluators`, `sent`, `received`, `jobsClosed`, `resultsClosed`, `exit` | the locals and the program position of `RunE` |
| `worker[w]`, `cur[w]` | goroutine `w` of the pool (`0..Workers`, as the loop starts `Workers + 1`) and its `comp` |
| `stage[c]` | where a component is: in the snapshot, in the jobs channel, at a step of `ValidateImage`, in the results channel, received |
| `out[c]` | the `*output.Output` and the error of `ValidateImage`: each check unset, passed or failed |
| `effectiveTime` | the field of the policy that all goroutines share |
| `world[c]` | input: what registry, signatures and rules would answer about the component |
| `builtAt`, `judged` | history: the effective time read when an evaluator was built and when it judged |

`RunE` is `CreateEvaluator`, `CreateEvaluatorFails`, `StartWorkers`, `QueueJob`, `CloseJobs`,
`CollectResult`, `CloseResults`, `NewReport`, `NewReportFails`, `WriteAll`, `VSASignerFails`
and `Conclude`. A goroutine is `ReceiveJob`, then `AccessImage`, `VerifySignatures`,
`SetAttestationTime`, `WriteInput`, one `Evaluate` per evaluator, `SetPolicyCheck`,
`SendResult`, and in the end `WorkerDone`. The grain is one action per access to state that
goroutines share (the two channels and the effective time); steps between them that touch
one component only are one action with all its early returns. A rule is abstracted to the
instants at which it fails (`fails`), which is what makes the effective time matter.

### `SnapshotVerdict`: what the command promises

Every component is judged once and in any order; the command then answers for all of them.
`ValidateImages` implements it under the mapping `Verdict`: a component is judged when its
result is sent. `SafetySpec` is the promise without its fairness.

### `PolicySource`: how sources reach the evaluators

| Model | Code |
|---|---|
| `cache` | `downloadCache`: per URL the `sync.OnceValues` function, not called, running, done or failed |
| `files` | what exists in the work directories; a path is owner, group, subdirectory and URL (`uniqueDestination`) |
| `src[o][s]` | the `Url` field of a `PolicyUrl` object, which `GetPolicy` overwrites |
| `spec` | the source URLs in the policy that `PreProcessPolicy` returns and the report shows |
| `head` | external: the newest revision of a branch or tag; `Push` moves it |
| `pc`, `at`, `url`, `meta` | position and locals of a goroutine in `GetPolicy` and its caller |
| `seen`, `fetches`, `broken` | history: what conftest was given, downloads made, downloads failed |

`setup.command = "image"` is `validate image`: `PreProcessPolicy` first, by the main goroutine, then
goroutines that share source objects and work directories. `setup.command = "input"` is
`validate input`: every input has its own. I/O errors of the work directory itself (`MkdirAll`)
are left out: they would make an error possible anywhere and hide the ones that are about the
order of steps. A variable `setup` holds the command, the policy and the file system, so that one run
covers all three instances.

### `Evaluator`: criteria, selections and results

| Model | Code |
|---|---|
| `policy` | input: the source's criteria, its rules, and what the rules of each package return for the target |
| `include`, `exclude` | the two `Criteria` of the evaluator |
| `rules` | `policyRules`; `policy.bare` are the codes in `nonAnnotatedRules` |
| `pending`, `results` | `runResults` still to process, and the outcomes |
| `missing`, `total` | `missingIncludes`, and whether `totalRules` is not 0 |
| `untrimmed` | history: the outcomes before `trim` |

An evaluator is made (`NewConftestEvaluator`), collects the rules (`CollectRules`, `CollectFails`),
selects packages and runs conftest on them (`Run`, `RunFails`), filters, categorises and completes
one outcome after the other (`ProcessResult`), adds the warnings of include items that match
nothing (`ReportMissing`) and removes results that depend on reported ones (`Trim`). Names are
sequences of their dotted parts, because the code takes the package of a rule from three different
places of its code. Lists of results are sets; a list of criteria stays a list, because an item
that is listed twice counts twice. Conftest is external: asked for a namespace it returns the
results of the package of exactly that name. Work directory errors are left out, and the time is
fixed: `ValidateImages` has the policy's changing time.

### `PolicyFilters`: the other resolvers and filters

Extends `Evaluator` with what exported constructors of `filters.go` offer beside what `Evaluate`
uses: `ECPolicyResolver` with pipeline intentions from the rule data (`ECRulesOf`, `ECKeptResults`),
the package filters of the two factories, and the legacy filter. They are functions of the evaluator's
state, compared in every state with the resolver and the filter in use.

### `ImageCheck`: one component, in detail

| Model | Code |
|---|---|
| `url`, `tag`, `world` | `comp.ContainerImage`; external: where the tag points, and what the registry holds per digest |
| `a` | the `ApplicationSnapshotImage`: reference, config, parent, files, signatures, attestations |
| `out`, `input` | the `Output`, and `input.json` |
| `policy`, `defaults` | the policy with its check options, and `data.config.default_sigstore_opts` |
| `at` | where `createConfigJSON` and `ValidateImage` are |
| `answers` | the memoized answers of the sigstore builtins |

`ValidateImages` has many components and few details, `ImageCheck` one component and what each check
reads and keeps: `CreateConfig`, `NewApplicationSnapshotImage`, `ValidateImageAccess`,
`resolveAndSetImageUrl`, the three fetches, `ValidateImageSignature`, `ValidateAttestationSignature`,
`ValidateAttestationSyntax`, `WriteInputFile`, then `Call` for each builtin that a rule calls. `MoveTag`
may happen between any two of them, and each request may fail. A layer is a record of who signed it, in
which transparency log it is, and which of its parts decode. Verification itself (`Accepts`) is external: that no
signature at all is an error is cosign's, not a guard of the builtins.

### `SnapshotInput` and `Prepare`: before anything is validated

| Model | Code |
|---|---|
| `input`, `limit` | the five ways to describe a snapshot, `IMAGE_INDEX_WORKERS` |
| `source`, `item`, `components` | the next of the five to merge, how many of its components are merged, `snapshot.Components` |
| `worker[i]`, `got[i]`, `arrived` | the goroutine for component `i`, the digests that its two requests found, `componentChan` |
| `exp`, `writing`, `crashed` | the maps of `ExpansionInfo`, a write under way, the runtime's "concurrent map writes" |
| `asked`, `text`, `policy`, `problems` | the flags about the policy, the text found for it, the object made of it, `allErrors` |
| `groups`, `group`, `extra` | the source groups of its spec, the one at hand, the item of `--extra-rule-data` at hand |

`SnapshotInput` is `DetermineInputSpec` with `merge` (a component at a time: `MergeComponent`, `MergeReturns`)
and `expandImageIndex`. A write to a map is two steps (`BeginWrite`, `EndWrite`), because nothing locks it: if
two overlap, the runtime either notices (`crashed`) or one of them is lost. A reference has a set of digests
that it points to while the command runs (`Pull`), one for a digest or a tag that stays. `client.Head` and
`client.Index` are two requests by the reference, so for a tag that moves they may find two of them (`IsIndex`,
`IndexRead`). References have spellings: `RefName` is `ref.Name()`, under which `IndexAliases` has an index, while
the components keep the text that was given. When two components are spellings of one index its images are
recorded twice in `ChildrenByIndex`; the properties compare the sets. The names made up for the images of an index
are abstracted to that of their component.

`Prepare` continues with the policy: `GetPolicyConfig`, `NewPolicy` (`Load`, `Check`), the downloads and
`--extra-rule-data` (`AddItem` for each item and group). A text with an `apiVersion` is a resource and its `spec`
is the policy; any other text is the policy itself, with the fields that have no place in it dropped
(`SpecInObject`), while the schema looks at `spec` whenever there is one (`validatePolicyConfig`). The `PreRunE` of
`validate input` takes its policy through the same `GetPolicyConfig` and `loadPolicy`; the object it makes
(`NewInputPolicy`, no key and no identity) is the policy of kind `input` in `ImageCheck`.

### `Registry`: builtins and fetchers on a flaky registry

| Model | Code |
|---|---|
| `retry` | the flags `--retry-*`: `DefaultRetry` and `DefaultBackoff` |
| `tags`, `moves`, `expired` | external: where tags point; the command's `--timeout` |
| `call`, `step`, `left` | the call under way, its stage (resolve, fetch, child, read) and the exchanges left of it |
| `resolved`, `served` | the digest `resolveIfNeeded` found, the content that is read |
| `position`, `files` | the layers read, and the files kept of them |
| `round`, `steps`, `sent`, `waited` | `RoundTrip`'s attempts inside the library's, `retry.OnError`'s steps left, requests sent, the backoff under way |
| `given` | history: every answer with its call and the digest resolved |

A call is `Begin` (or `BadReference`), then its stages. `ResolveDigest` is the first for a tag. `FetchHead`,
`FetchIndex`, `FetchLayer` and `FetchImage` are the methods of the client. `client.Image` follows an index to the
image of the default platform (`ImageOfIndex`, `Child`), so the manifest, the config and the files of an index
are those of that image. `ReadBlob`, `ReadConfig` and `ReadLayer` read bodies, layer by layer for
`ec.oci.image_files`. With the image cache on, the config is read first, for the diff IDs, and a layer may come from
the cache (`LayerCached`).

A stage is a number of exchanges: a ping and a token (`Preamble`), a manifest, a blob. Each request of
each of them may be lost (`NetworkError`), refused for now (`Unavailable`, with every value of the random jitter)
or for good (`Refused`), or cancelled by the deadline during a backoff. The transport tries an exchange
`MaxRetry + 1` times, the library around it `MaxRetry` times, `retry.OnError` calls `client.Image` up to
`OnErrorSteps` times; with `--retry-max-retry 0` the library has no step to make and sends nothing (`NoSteps`). Flags
are not checked by the code: any integer is allowed, factor and jitter in percent. Waits are Durations:
a product out of range is converted to the least or the greatest one, as the platform has it, and the sum with
the jitter wraps around. Rounding of float64 below one nanosecond, infinities and NaN are left out, and so are the waits
between the library's own steps.

What is external: which exchanges a method of go-containerregistry makes, that an index does not list
an index for the platform, and that `mutate.Extract` gives the files of the layers, topmost first, without those
that a higher layer hides (a layer in the model is what is left of it). OPA's memo of a builtin lasts
for one query, and conftest makes a query per rule: it repeats an answer that was given and is left out, so no
property says that two calls have one answer.

### `Vsa` and `VsaRetriever`: summary attestations

| Model | Code |
|---|---|
| `setup` | input: the report, the `--vsa-upload` flags, `--strict`, what the log held before |
| `todo`, `files`, `envs`, `snapEnv` | `ProcessAllVSAs`: the next component, the temporary files, `ComponentEnvelopes`, `SnapshotEnvelope` |
| `queue`, `cur` | the uploads left, and the envelope and flag at hand |
| `log`, `dirs` | the Rekor log, the directories of local backends |
| `warned`, `logged`, `faults` | history: pairs of envelope and flag that `UploadVSAEnvelope` or its caller warned about, and those that the Rekor backend logged at error level; failures so far |
| `rpc`, `fed`, `chan`, `wpc`, `job`, `results`, `expired` | `RetrieveVSA`: main, the feeder, `uuidChan`, the workers, the results, the deadline |

`Vsa` is what `RunE` does after the report: a signer, an envelope per component and one for the snapshot,
then each envelope to each backend. Rekor failures are told apart by who logs them: `uploadSingle` and
`uploadIntotoV002Envelope` log what they fail with, `UploadVSAEnvelope` warns about none of them (`uploadErr` is
shadowed), and a server address for which there is no client (`GetRekorClient`) passes without a message.
`VsaRetriever` composes it with a retrieval that runs at the same time
on the log that the command appends to: `Search` (`SearchFails` when the request fails, or when the digest is
empty or malformed), `Feed`, `Take`, `FetchEntry`, `Leave`, `Collect`. The index may
name the entries in any order.

### `Tracker`: runs of `ec track bundle`

| Model | Code |
|---|---|
| `files` | the tracking files: group to records, newest first |
| `pc[p]`, `cmd[p]`, `data[p]`, `t[p]`, `urls[p]`, `clones[p]` | a run: position, flags, what it read, its `Tracker`, git URLs left, clones made |
| `head`, `now` | external: where tags and branches are; time in half days, since `setExpiration` rounds to days |
| `past`, `newest`, `clean`, `resolved` | history |

A run is `Start`, `TrackImages` (with the tags that are freshened; the two `ParseAndResolveAll` calls see one state
of the registry, on which no property depends), one `TrackGit` per git URL, `Filter`
(prune and `setExpiration`), then `Output`, `Replace` or `Stdout`, where a file is truncated first and
written later. A run may `Fail` or `Crash` between any two steps; two may overlap. `Never` stands for a record
without `expires_on`. What is said about neighbours and pruning assumes that all runs have one value of
`--in-effect-days` (`OneGrace`); see the findings for what happens with two. `OneClone` is about each repository:
clones of two may be of different moments.

### `Reporting`: inputs, reports, targets

| Model | Code |
|---|---|
| `kind`, `flags` | which of the two commands, its flags |
| `jobs`, `busy`, `results`, `received`, `failed`, `comps` | the pool of `validate input` and what main has collected |
| `target`, `written`, `bad` | `WriteAll`: the next target, the documents per destination, the targets that failed |
| `outcome` | history: what each evaluation came to |

For `validate input` it is the whole of `RunE`. For `validate image` it starts with validated components
(that part is `ValidateImages`). A document is the format with what it tells: verdict, TEST_OUTPUT
result, totals, condensed parts of the summary.

### Which module uses which

`SnapshotVerdict` is implemented by `ValidateImages`. `Prepare` extends `SnapshotInput`, `VsaRetriever`
extends `Vsa`, `PolicyFilters` extends `Evaluator`. Every `MC` module extends a specification and gives its
constants. `ValidateImagesProofs`, `PolicySourceProofs`, `ImageCheckProofs`, `RegistryProofs`, `TrackerProofs`
and `PrepareProofs` extend the specification of that name, `VsaProofs` extends `VsaRetriever` and
`EvaluatorProofs` extends `PolicyFilters`. The other specifications meet at data: the
components that `SnapshotInput` determines are those of `ValidateImages`; a step of `ValidateImages` is
`ImageCheck`; its `Evaluate` is `PolicySource` and then `Evaluator`, whose rules call `Registry` and the
builtins of `ImageCheck`; its report is `Reporting`'s, and `Vsa` starts from it.

## Runs

| Run | Instance | Shows |
|---|---|---|
| `validate_images` | 2 components, 2 goroutines, 2 evaluators, every pair of 12 worlds, both values of `--strict`, fairness | the inductive invariant `IInv`, `ReportExact`, `ExitSound`, `NothingInFlight` (no sender after close), `UniformTime`, `Terminates`, and that the command implements `SnapshotVerdict` |
| `validate_images_own_time` | 2 goroutines, `--effective-time attestation` | `OwnTime` is violated: a component is judged at another's time |
| `policy_source` | 2 components that share evaluators; 2 inputs with their own, one source pinned, one that cannot be; 2 inputs without symbolic links; one push | `OneDownload`, `LoadsFinished` (nobody loads what is half written), `NoDuplicateRules`, `OneRevision`, `AllEnd` |
| `policy_source_race` | 2 components that share evaluators | `NeverRefused` is violated: the second symbolic link fails |
| `evaluator` | 2 packages, 3 annotated rules that depend on one another and one without annotations, 72 pairs of lists, volatile criteria around their bounds, pipeline intentions, 12 ways to answer | `FailuresExact`, `AnsweredOnce`, `SelectionSound` (both selections agree; a rule beats its package), `MissingExact`, `TrimLeavesCause`, `NotVacuous`, `FiltersAgree` (the other resolvers and filters differ only in the intentions) |
| `image_check` | 25 images (signed with keys, keyless, unlogged, damaged; attestations that conform, do not, or do not parse), 6 policies, a moving tag, failing requests, one builtin call | `OneImage`, `ChecksSound` (a check that passed speaks for all that verified), `BuiltinsSound` (the builtins agree with the checks, and never accept nothing) |
| `prepare` | 10 combinations of snapshot flags, two spellings of a reference and a tag that moves among them, 4 limits of goroutines, 15 policy references, 5 sets of flags, 3 lists of extra rule data, fairness | `SnapshotComplete` (nothing dropped or doubled, every platform present), `PolicyAsAsked` (no empty policy by accident, identity from one place, no problem hidden, extra data in every group), `PreparationEnds` |
| `prepare_race` | the default of 5 goroutines | `ExpansionTracked` is violated: concurrent writes of one map |
| `registry` | each of 17 calls, 6 contents (an index with and one without an image for the platform among them), one tag that moves once, 3 settings of the flags, Durations of 6 bits, fairness | `AnswersSound` (content of the digest asked, or of the one a tag was resolved to unless it is pushed, or of its platform image, whole, of the declared type), `RetriesBounded`, `EveryCallAnswered` |
| `vsa` | 3 reports and lists of backends with up to 2 failing operations; 4 logs and a retrieval by 2 goroutines beside the command, fairness | `AttestsOwn` (an envelope is about its own image), `UploadsSound`, `AnswerLatest` (no answer from a part of the entries), `RetrievalEnds` |
| `tracker` | 2 terminals, 3 runs of 5 command lines, 2 pushes, 3 half days, crashes | `InEffectFirst`, `NewestKept`, `OneClone`, `HistoryKept` (current records stay, superseded ones get their days, dates do not move) |
| `reporting` | 3 files, 0 to 2 workers, 4 lists of targets, 4 outcomes, fairness | `ReportTells` (whole, formats agree, totals do not depend on display flags), `FailuresTold`, `CommandEnds` |

Where a property is a conjunction, its parts are defined next to it with a comment each. Every module has a
type invariant; `IInv` contains that of `ValidateImages`, the others document the state and are not listed
in the configurations.

Bounds. The interesting events of the pool need two goroutines that hold different components. Two
evaluators are enough for one to judge before and another after the policy's time changes; three instants
separate two build times from the clock. In `PolicySource` a race needs two goroutines, a moving branch one
push, and two groups with equal sources are what makes links necessary. In `Evaluator` the lists of criteria
have up to three items, enough for every kind of item on both sides and for ties; chains of two dependencies
are what trim can get wrong. In `Registry` one call at a time is enough, since calls share no state but the registry;
a maximum of two retries is enough for a layer to give up and the next to begin again, and Durations of six bits
make waits overflow. In
`Vsa` two failures let one backend fail for one envelope and another for the next. In `Tracker` three runs
are one that supersedes, one that overlaps and one that reads what both left. The bounds that are in guards
have names: `MaxRev` (pushes in `PolicySource`), `MaxCalls` and `MaxMoves` (`Registry`, `ImageCheck`),
`MaxTime`, `MaxRuns`, `MaxPushes` (`Tracker`), `MaxMissing` and `maxFaults` (failures in `VsaRetriever` and
`Vsa`). None of them cuts off the end of a command.

Deadlock is checked in `registry`, where an evaluation that is over stutters explicitly. It is off in the
others: the commands end, and two settings of the real program hang (see below).

Fairness. The Go scheduler runs every goroutine that can run, so each goroutine and main has weak fairness
(`Fairness` in `ValidateImages`, `PolicySource` and `VsaRetriever`; the next-state relation in `Reporting`,
`PreRunE` in `Prepare`, `Serve` in `Registry`, where whatever is enabled is some goroutine's step). Calls to
registries, downloads and evaluations are assumed to return, which the deadline of the command's context
(`cmd/root`) is there for. No strong fairness is used: what is in a channel stays until it is taken. Nothing
makes a deadline pass, a tag move or a request fail. `PreparationEnds` and `CommandEnds` exclude a limit of
0 goroutines, with which the program hangs.

## Proofs

Eight modules hold proofs. Each extends the specification it is about, so that the formulas proved are the
ones the runs check; a theorem holds for every value of the constants that satisfies the assumptions named
in the specification, and TLC evaluates those in every run.

| Module | Theorems | For every |
|---|---|---|
| `ValidateImagesProofs` | `TypeCorrect`, `Invariance`, `ReportIsExact`, `ExitIsSound`, `NoneInFlight`, `TimeIsUniform`, `ImplementsVerdict` | number of components, workers and evaluators, set of worlds, set of instants whose subsets have a greatest element |
| `PolicySourceProofs` | `Invariance`, `DownloadsOnce`, `LoadsAreFinished`, `RulesAreOnce`, `JudgedByOneRevision` | list of sources in groups, finite set of targets, both commands, with and without symbolic links, number of pushes |
| `ImageCheckProofs` | `Invariance`, `ImageIsOne`, `ChecksAreSound`, `BuiltinsAreSound` | registry content, policy, sequence of builtin calls, movement of the tag |
| `RegistryProofs` | `Invariance`, `AnswersAreSound`, `RetriesAreBounded` | content of the registry, integer values of the flags, width of Durations, number of exchanges and of steps, calls |
| `VsaProofs` | `CommandInvariance`, `EnvelopesAttestTheirOwn`, `UploadsAreSound`, `AnswersAreLatest` | report, list of flags, log, number of failures and of workers |
| `EvaluatorProofs` | `EvaluatorInvariance`, `EvaluatorTypes`, `SelectionIsSound`, `FailuresAreExact`, `RulesAnsweredOnce`, `MissingIsExact`, `TrimKeepsCause`, `SuccessIsNotVacuous`, `OtherFiltersAgree` | include and exclude list, volatile criteria, rules and their dependencies, answers of conftest, image, instant, order of the packages |
| `TrackerProofs` | `Invariance`, `InEffectIsFirst`, `NewestIsKept`, `ClonesAreOne`, `HistoryIsKept` | number of processes and runs, set of command lines, groups, pushes and days |
| `PrepareProofs` | `Invariance`, `SnapshotIsComplete`, `PolicyIsAsAsked` | flags, contents of the registry, limit of the group, policy reference and options, list of rule data items |

None of the properties is inductive. The invariants, and why each part is there:

- `ValidateImages!IInv`. `HolderInv`: a component at a busy stage is held by exactly one goroutine, which
  is what lets a step of one goroutine leave the others' components alone. `MainInv`: `received` counts the
  components that were received, so that leaving the collection means that all were. `OutputInv`: what the
  `Output` holds at each stage, ending in "success if and only if acceptable" once `ValidateImage` has
  returned without an error. `ReportInv`: what the report was made of. `UniformTime` needs one more (`TimeKept`), that
  the shared effective time is the flag's whenever it is not the attestation's. `ImplementsVerdict` is the
  refinement of `SnapshotVerdict` in its safety part (`SafetySpec`): `RefinesInit` and `RefinesStep` map
  every step to a judgement, an answer or a stutter.
- `PolicySourceProofs!IInv`. `CacheInv`: an entry of the download cache has one directory, one goroutine
  fills it and nobody passes on before it is full. `FileInv` and `OwnInv`: a directory is incomplete only while,
  or because, its download is. `UrlInv` and `PinInv`: from pre-processing on the sources keep the URLs that
  the policy names. `PassInv` and `SeenInv`: who has passed a source has its complete directory, and what
  conftest was given is that of the group. `LoadsFinished` is claimed where links can be made or directories are
  not shared (`Linked`): otherwise a directory is there for another goroutine's `Stat` before it is full.
  `NoDuplicateRules` for `validate input` assumes that no group names a source both by branch and by revision
  (`NamedOnce`); `validate image` pins before it fills.
- `ImageCheckProofs!IInv`. `RefInv`: nothing is fetched before the reference is a digest, which is why all parts
  (`PartsInv`, `SigInv`, `AttInv`) are of one image. `OutInv` and `InputInv` carry that over to the report and to
  what the rules read. `AnswersInv` explains each answer of a builtin by the layers that verified.
- `RegistryProofs!IInv`. `ControlInv`: what each stage of a call knows of the call, the image that an index was followed
  to and the files kept of the layers read so far (`ReadInv`) included. `RoundInv`: the attempts of the two inner layers
  of retries are within the flags. `BudgetInv`: the requests sent are those of the exchanges gone by, each at most
  `PerExchange`, and of the one under way; the exchanges still to come (`Remaining`) decrease with every stage, layer
  and repetition by `retry.OnError`. `RetriesAreBounded` is the sum. `WaitsCapped` needs no bound on flags,
  random numbers or Durations: the cap is the last thing that `calculateBackoff` does, except for the first attempt.
  `TagInv`, inductive relative to `IInv`: while no tag moves, what is fetched by a tag is what it was resolved to.
- `VsaProofs!CmdInv` and `RetrInv`. `FilesInv`: every temporary directory is new. `EnvsInv`: an envelope is
  signed, about its own image. `TriedInv`: each envelope is queued, being uploaded, or for each flag it is
  stored, a message was logged, or the flag names a server that is not a URL.
  `Accounted`: every UUID is with the feeder, in the channel, with a worker or in the results, exactly once.
  `AnswerLatest` then is a statement about the loop of `findLatestEntryByIntegratedTime`, by induction on its turns:
  after each turn no entry seen so far is later than the one held.
- `EvaluatorProofs!EvalInv` is exact: at each place of `Evaluate` the outcomes are those of the packages processed
  so far and no others, `missing` is what these have not matched and `total` what they have counted. It can say so
  because what becomes of a package (`Processed`, `PrunedBy`) depends only on the policy, the criteria and the rules,
  which do not change once they are collected (`ProcessingFrame`): the order of the Go map cannot matter. The properties are then consequences
  of `EvalInv`, each from lemmas about the operators: `ScoreGrows`, `ScoreSame`, `ScoreAtLeast` and `ScoreAtMost` bound a
  score by the items that match, `IncludedIsSelected` and `SelectedIsIncluded` relate the matchers of rules and of
  results, `CauseStays` follows dependencies downwards by their rank. The hypotheses are in the properties, each
  where the code needs it: an include item with a term does not select its package (`NoIncludeTerms`), a nested package
  is taken from different places of a code (`PlainCodes`), rules that depend on one another in a circle trim each
  other away (`Acyclic`), and where all include items are for other images every package is run by default and
  nothing that it returns is kept (`Get(include) # << >>` in `SameSelection`). `PolicyAssumption` says of which types a
  policy, its rules and the answers are, that a code has at least two parts and that a collection has a name;
  `EvaluatorAssumption` also says that two string constants are strings, which TLAPS does not know.
- `TrackerProofs!IInv`. `FilesInv`: what files hold and runs have read is dated (first record only
  undated), and with one `--in-effect-days` the dates decrease from the newest record to the oldest, neighbours
  differ, and no date is later than today's expiry. The order of the dates is what makes pruning safe: a record
  that expires takes the older ones with it, so that none is left beside another of the same reference. `RunInv`: what
  a run holds at each step extends what it read by undated records. `NewestInv`: without overlaps and crashes one
  run reads what the one before it wrote. `CloneInv`: a clone is a former head, and what was resolved
  comes from the clone.
- `PrepareProofs!IInv`. `MergeInv`: each image described at the places merged so far has one component, with
  the first real name among those places; one more place keeps that (`MergedNames`) because it is later than all of
  them. `PoolInv`: what a goroutine was given by each of its requests is a digest that its reference has. `SentInv`:
  what is in the channel is exactly what the goroutines that are done have sent, whatever their order. `Collect` then
  only permutes it (`SortedFacts`). `MapInv`, for one goroutine at a time and references that stay: the maps hold
  what the goroutines have come to (`InChildren`, `InParents`); that no write is lost is the uniqueness of the active
  goroutine. `PolicyInv`: the policy is the text's with the flags over it. `DataInv`: the items added so far are in the
  group, the last of a key counts, the rest is as before (`Applied`). `PinnedAssumption` (repository and digest can be
  read off a pinned reference) and `RefNameAssumption` (two spellings of a reference are one to the registry) are
  needed where two components of a snapshot are the same index.

The provers cannot use an induction theorem over data. Where an argument needs one (the first record from which
on all are expired, the least source at which two goroutines differ), it goes through a least element:
`LeastNumber` follows from the library's theorem that finite sets are well-founded under inclusion. Loops are
recursive functions of the number of turns. That such a function exists and takes each turn as the code does is
`LoopRuns`; what holds of every turn is `EveryTurn`, for a set of turns instead of an operator. Scores,
volatile criteria and the choice of the latest entry are proved about in this way.
The specifications that are proved about select from sequences with `Kept` or a comprehension over
positions, not with `SelectSeq` or the folds of the library, whose definitions are opaque to the provers.

Only model-checked:
- liveness (`Terminates`, `AllEnd`, `RetrievalEnds`, `EveryCallAnswered`, `PreparationEnds`, `CommandEnds`) and
  the fairness of the refinement, which are out of the prover's reach;
- `ReportTells` and `FailuresTold` of `Reporting`: its totals are folds, its condensed messages and the documents
  of a target go through `SelectSeq`, and the order of the report through `SortSeq`.

## Findings

1. With `--effective-time attestation` and more than one goroutine, a component may be judged at
   the time of another component's attestation: `AttestationTime` writes to the shared policy.
2. Two goroutines that share an evaluator can both try to link a downloaded source into its work
   directory; the second fails, and with it the whole command. Two source groups with the same
   rules or the same rule data, or a policy that is pinned already, are enough.
3. With two image indexes in a snapshot, goroutines of `expandImageIndex` write the maps of one
   `ExpansionInfo` at once: the process may die, or a child is lost from its index.

`PROJECT.json` has the lines and the quotations. Reading and modelling also met behaviour that has no run
of its own. The properties are stated so as to leave it open.

Command and time:
- `--effective-time ATTESTATION`, in capitals, is accepted (`EqualFold`, `policy.go:387`), but `AttestationTime` compares
  exactly (360) and leaves the time unset: each call of `EffectiveTime` then reads the clock. In the model it may be a
  different instant each time, and `UniformTime` does not speak of this case.
- `--workers n` of `validate image` starts n + 1 goroutines; `--workers 0` of `validate input` starts
  none and waits for ever, as `IMAGE_INDEX_WORKERS=0` does.
- With `--effective-time attestation` a component whose attestations have no build time is judged at the
  time of an earlier one.
- The signatures are missing from the output when the attestation check fails.

Evaluator:
- An include item with a term does not get its package evaluated, and the rules of a nested package
  (`a.p`) are included by default and never evaluated.
- A source whose only include items are for other images selects every rule before the evaluation
  and none after it; `Evaluate` then ends in "no successes, warnings, or failures".
- The warning that an include item matches no rule is also given when it matches a rule whose
  package was not evaluated.
- `trim` keeps a result that depends on a reported rule and also on one that is not reported, against its comment
  (`conftest_evaluator.go:61`), and appends it once for each that is not reported, so it may be in the output twice;
  results are sets in the model.
- The bounds of volatile criteria are in the model (`InForce`), but both sides of every property use the lists that
  are in effect, so that a bound at the wrong instant would not be found.
- A failure without a code is reported as a warning if a warning has the same message.
- `totalRules` counts before `trim`, so `Evaluate` may return without an error when all that is left
  is a skipped rule.
- `NewConftestEvaluatorWithPostEvaluationFilter` does not install the filter it is given; the legacy filter scores
  results without codes, `IncludeListFilter` does not know the wildcard, and the filter of
  `ECPolicyResolver` ignores terms.

Policy and snapshot:
- A tag that moves while `imageIndexWorker` reads it, between `client.Head` and `client.Index`, has the images of the new
  index recorded under the digest of the old one. `SnapshotComplete` says what is recorded only of references that stay.
- A policy with a `spec` and no `apiVersion` passes the schema and is loaded as the empty policy (`policy.go:307`), although
  a test has this form as a valid one (`policy_test.go:1386`). `PolicyAsAsked` is about all other texts.
- `IndexAliases` has an index under `ref.Name()`, while the generator of VSAs looks it up by the image text of the
  component (`vsa.go:75`): a reference in another spelling is not found there and stands for itself.
- For a name without a namespace the current namespace is taken from the default configuration, also when
  `--kubeconfig` names another (`names.go:56`).
- `validate input` with a policy that has a public key fails when the options for the builtins are made
  (`policy.go:99`); a term without `ignore_rekor` dereferences nil (`sigstore.go:277`).
- The alternative names of a certificate come in the order of a Go map: `sort.StringSlice(...)` is a
  conversion and sorts nothing (`certificate.go`).
- `resolveDigest` (`process.go:95`) does not go through the retrying transport.

Registry and retries:
- `resolveIfNeeded` returns the digest as text and the tag as the reference (`oci.go:680`): content is fetched by tag, and
  is that of another digest if the tag moved. `TagAnswers` is about tags that stay.
- The first backoff is not capped: it is `--retry-duration`, also above `--retry-max-wait` (`retry.go:160`).
- Requests that fail on the network are sent again at once, although the comment says they are not (`retry.go:113`).
- With `--retry-max-retry 0` the library has 0 steps and makes no request at all: every call fails.
- Asked for the manifest, config or files of an index, the builtins and fetchers answer with those of the image for
  the default platform.
- Two queries of one evaluation may be given different answers for one tag.
- The declared type of an index lacks `subject` and `artifactType`.
- The random number of the jitter is between -1 and 3; waits that overflow may be negative, which is no wait at
  all; tracing reads a response that may be nil (`tracing.go:49`).

VSA:
- `uploadErr` is shadowed where an envelope is uploaded with a signer (`storage.go:173`): `UploadVSAEnvelope` warns about
  no failure of Rekor. The backend logs most of them itself, but not an address that is not a URL.
- `RetrieveVSA` chooses among entries without looking at their predicate type, and leaves out those it
  could not fetch.

Tracker:
- Overlapping runs lose updates; a run that dies between truncation and write leaves an empty file.
- With different values of `--in-effect-days` a current record may be dropped: of two neighbours with one
  reference only the older stays.

Reports:
- The flag's help of `validate input` lists formats that `input.Report` does not have; options of a single
  target are not applied there; the order of `policyInput` is that of arrival; `success` of the summary is
  never set.

## What is left

Every component that carries state has its module, and eight of the nine groups of modules have proofs, which state
every safety property that the passing runs check of them. `Reporting` would come next: its operators over lists would have
to become functions of positions, as they are in the other specifications.

## Not modelled

Rego evaluation itself, signature cryptography, registries, Git and Kubernetes are inputs (`world`,
`policy.answers`) or external actions (`Push`, `MoveTag`, `Move`). Message texts, templates, flag parsing and
logging are left out, and so is the layout of the formats. OPA inspection and the purl builtins are pure
functions over library types: their result is an input of `Evaluator`. The remaining commands (`fetch`,
`inspect`, `sigstore`, `test`, `opa`, `version`) call the components above or a library and keep no state.
The generators of the documentation run when it is built. The `acceptance` and `benchmark` trees are test
code.
