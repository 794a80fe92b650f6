------------------------------ MODULE Registry ------------------------------
(***************************************************************************)
(* One evaluation that asks an OCI registry for content: the Rego builtins *)
(* ec.oci.* (internal/rego/oci), the fetchers of the evaluation target     *)
(* (internal/fetchers/oci), the client they share (internal/utils/oci) and *)
(* the retrying HTTP transport under it (internal/http).                   *)
(*                                                                         *)
(* A call goes through stages, each of one method of the client; a stage   *)
(* is a number of HTTP exchanges (a ping, a token, a manifest, a blob),    *)
(* each retried by the transport and by the library around it. The         *)
(* registry is outside: a tag moves at any moment, a request is answered,  *)
(* refused or lost, a body is cut, and the --timeout of the command        *)
(* expires. OPA's memo of a builtin lasts for one query and repeats an     *)
(* answer given before: it is left out.                                    *)
(***************************************************************************)
EXTENDS Integers, FiniteSets, Sequences

CONSTANTS
    Tags,          \* references by tag
    Digests,       \* references by digest
    Store,         \* [Digests -> content]: what a registry holds for a digest
    Policy,        \* the calls that the policy and the evaluation target make
    Paths,         \* the directories that ec.oci.image_files is asked for
    Settings,      \* values of the flags --retry-*
    MinInt,        \* least time.Duration, -2^63 in the code
    MaxInt,        \* greatest time.Duration, 2^63 - 1 in the code
    RandomUnits,   \* a quarter of the random numbers, 2^62 in the code
    OnErrorSteps,  \* Steps of client-go's retry.DefaultRetry, 5 in the library
    Preamble,      \* exchanges (ping, token) before a method's own
    CacheOn,       \* EC_CACHE: images are wrapped in the file cache
    MaxCalls,      \* bound: calls in the evaluation
    MaxMoves,      \* bound: tag movements
    NoDigest       \* "no digest"

NoCall == [fn |-> "none", ref |-> NoDigest]
Builtins == {"blob", "descriptor", "manifest", "files", "index"}
Fetchers == {"config", "parent"}

Calls == [fn : Builtins \cup Fetchers, ref : Tags \cup Digests]

(* Nothing checks the flags: a count may be negative, the base longer than *)
(* the maximal wait. Factor and Jitter are in percent.                     *)
ASSUME SettingsAssumption ==
    Settings \subseteq [MaxWait : Int, MaxRetry : Int, Duration : Int,
                        Factor : Int, Jitter : Int]

ASSUME RegistryAssumption ==
    /\ MinInt \in Int /\ MaxInt \in Int /\ MinInt <= MaxInt
    /\ RandomUnits \in Nat \ {0} /\ OnErrorSteps \in Nat \ {0} /\ Preamble \in Nat \ {0}
    /\ CacheOn \in BOOLEAN /\ MaxCalls \in Nat /\ MaxMoves \in Nat
    /\ NoDigest \notin Digests /\ Tags \cap Digests = {}
    /\ Policy \subseteq Calls

(* The child of an index is the image of the default platform, if it has   *)
(* one; the layers of an image are the sets of files that mutate.Extract   *)
(* gives of them, topmost first.                                           *)
ASSUME StoreAssumption ==
    \A d \in Digests :
        /\ Store[d].child \in {NoDigest} \cup {c \in Digests : Store[c].kind = "image"}
        /\ Len(Store[d].layers) \in Nat
        /\ DOMAIN Store[d].layers = 1 .. Len(Store[d].layers)

VARIABLES
    retry,     \* the settings of this run of the command
    tags,      \* [Tags -> Digests], moved by other people
    moves,     \* how often they moved
    expired,   \* the deadline of the context is over
    call,      \* the call being served, or NoCall
    step,      \* its stage: idle, resolve, fetch, child, read
    left,      \* exchanges of the stage that have not succeeded yet
    resolved,  \* the digest that resolveIfNeeded found
    served,    \* the digest of the content that is read
    position,  \* layers read so far
    files,     \* files of them kept so far
    round,     \* the RoundTrip under way
    steps,     \* client.Image calls left to retry.OnError
    sent,      \* requests sent for this call, counted to MaxSent + 1
    waited,    \* the length of the backoff under way, 0 when there is none
    given      \* every call of the evaluation with the answer it was given

registryVars == <<retry, tags, moves, expired>>
stageVars == <<step, left, resolved, served, position, files, steps>>
netVars == <<round, sent, waited>>
vars == <<registryVars, call, stageVars, netVars, given>>

\* name.NewDigest in ociBlob and ociImageFiles; the fetchers are given the
\* digest that ValidateImage resolved
NeedsDigest == {"blob", "files"} \cup Fetchers

\* The calls that use client.Image, which follows an index to its child
ImageCalls == {"manifest", "files"} \cup Fetchers

-----------------------------------------------------------------------------
(* The terms given to the policy and the types declared for them.          *)

newDescriptorTerm(c) ==
    {"mediaType", "size", "digest", "data", "urls", "annotations", "artifactType"}
        \cup (IF c.platform THEN {"platform"} ELSE {})

ManifestTerm(c) ==
    {"schemaVersion", "mediaType", "config", "layers", "annotations"}
        \cup (IF c.subject THEN {"subject"} ELSE {})

IndexTerm(c) ==
    {"schemaVersion", "mediaType", "manifests", "annotations"}
        \cup (IF c.subject THEN {"subject"} ELSE {})

DescriptorDecl ==
    {"mediaType", "size", "digest", "data", "urls", "annotations", "platform",
     "artifactType"}

ManifestDecl ==
    {"schemaVersion", "mediaType", "config", "layers", "annotations", "subject"}

\* the declaration of ec.oci.image_index has no subject, although the term
\* may have one
IndexDecl ==
    {"schemaVersion", "mediaType", "manifests", "annotations"}

\* FetchParentImage: the annotations of the base image must give a digest
HasParent(c) == c.base = "pinned" \/ (c.base = "named" /\ c.baseDigest)

Undefined == [ok |-> FALSE, digest |-> NoDigest, value |-> {}]
Defined(d, v) == [ok |-> TRUE, digest |-> d, value |-> v]

-----------------------------------------------------------------------------
(* Exchanges and retries.                                                  *)

NoRound == [attempt |-> 0, err |-> FALSE, backoff |-> FALSE, outer |-> 0]

\* The exchanges of client.Head, Index or Image before an index is followed;
\* client.Layer only prepares the transport
FetchLength(fn) == IF fn = "blob" THEN Preamble ELSE Preamble + 1

\* The image that client.Image gives for a digest
Target(fn, d) ==
    IF fn \in ImageCalls /\ Store[d].kind = "index" THEN Store[d].child ELSE d

\* cache.Image finds a layer by its diff ID, which is in the image's config
ConfigReads == IF CacheOn THEN 1 ELSE 0

\* Blobs that are read after the method: one, or one of every layer
Reads(c) ==
    CASE c.fn \in {"blob", "config"} -> 1
      [] c.fn = "files" ->
           IF Target("files", c.ref) = NoDigest THEN 0
           ELSE ConfigReads + Len(Store[Target("files", c.ref)].layers)
      [] OTHER -> 0

Tries(fn) == IF fn = "manifest" THEN OnErrorSteps ELSE 1

\* The exchanges of the method that fetches, an index followed included
MethodLength(fn) == FetchLength(fn) + IF fn \in ImageCalls THEN 1 ELSE 0

\* The exchanges of a call: resolve, fetch (repeated by OnError) and read
MaxExchanges(c) ==
    (IF c.ref \in Tags THEN Preamble + 1 ELSE 0)
        + Tries(c.fn) * MethodLength(c.fn) + Reads(c)

\* The requests of an exchange: the transport tries MaxRetry + 1 times, the
\* library around it MaxRetry times (Steps in createRemoteOptions)
PerExchange == IF retry.MaxRetry > 0 THEN retry.MaxRetry * (retry.MaxRetry + 1) ELSE 0

MaxSent(c) == MaxExchanges(c) * PerExchange

\* Conversion of the float64 n / d: towards zero; out of range it is left to
\* the platform (amd64 gives the least, arm64 the nearest Duration)
ToDuration(n, d) ==
    LET q == IF n >= 0 THEN n \div d ELSE -((-n) \div d)
    IN  IF q \in MinInt .. MaxInt THEN {q} ELSE {MinInt, MaxInt}

\* Addition of Durations wraps around
Wrap(n) == ((n - MinInt) % (MaxInt - MinInt + 1)) + MinInt

\* 64 random bits over 2^63, times 2, minus 1: from -1 up to 3
Randoms == 0 .. 4 * RandomUnits - 1
RandomValue(r) == r - RandomUnits

\* The duration with the jitter added
Jittered(duration, r) ==
    IF retry.Jitter <= 0 THEN {duration}
    ELSE {Wrap(duration + j) :
             j \in ToDuration(duration * retry.Jitter * RandomValue(r), 100 * RandomUnits)}

\* The durations that calculateBackoff may return
calculateBackoff(attempt, r) ==
    IF attempt = 0 THEN {retry.Duration}
    ELSE LET bases == ToDuration(retry.Duration * retry.Factor ^ attempt, 100 ^ attempt)
         IN  {IF d > retry.MaxWait THEN retry.MaxWait ELSE d :
                 d \in UNION {Jittered(b, r) : b \in bases}}

-----------------------------------------------------------------------------
Init ==
    /\ retry \in Settings
    /\ tags \in [Tags -> {d \in Digests : Store[d].kind # "blob"}]
    /\ moves = 0
    /\ expired = FALSE
    /\ call = NoCall
    /\ step = "idle"
    /\ left = 0
    /\ resolved = NoDigest
    /\ served = NoDigest
    /\ position = 0
    /\ files = {}
    /\ round = NoRound
    /\ steps = 0
    /\ sent = 0
    /\ waited = 0
    /\ given = {}

\* Somebody pushes the tag again
Move(t, d) ==
    /\ moves < MaxMoves
    /\ d # tags[t] /\ Store[d].kind # "blob"
    /\ tags' = [tags EXCEPT ![t] = d]
    /\ moves' = moves + 1
    /\ UNCHANGED <<retry, expired, call, stageVars, netVars, given>>

\* context.WithTimeout in PersistentPreRun, --timeout
Expire ==
    /\ ~expired
    /\ expired' = TRUE
    /\ UNCHANGED <<retry, tags, moves, call, stageVars, netVars, given>>

\* The call returns; a builtin never returns an error, only no value
Answer(a) ==
    /\ given' = given \cup {[call |-> call, resolved |-> resolved, answer |-> a]}
    /\ call' = NoCall
    /\ step' = "idle"
    /\ left' = 0
    /\ resolved' = NoDigest
    /\ served' = NoDigest
    /\ position' = 0
    /\ files' = {}
    /\ round' = NoRound
    /\ steps' = 0
    /\ sent' = 0
    /\ waited' = 0
    /\ UNCHANGED registryVars

\* The call starts: the reference is parsed, NewClient builds the transport
Begin(c) ==
    /\ call = NoCall /\ Cardinality(given) < MaxCalls
    /\ c.ref \in Tags => c.fn \notin NeedsDigest
    /\ call' = c
    /\ IF c.ref \in Tags
       THEN step' = "resolve" /\ left' = Preamble + 1
       ELSE step' = "fetch" /\ left' = FetchLength(c.fn)
    /\ steps' = Tries(c.fn)
    /\ UNCHANGED <<registryVars, resolved, served, position, files, netVars, given>>

\* name.NewDigest fails on a tag, no request is made
BadReference(c) ==
    /\ call = NoCall /\ Cardinality(given) < MaxCalls
    /\ c.ref \in Tags /\ c.fn \in NeedsDigest \ Fetchers
    /\ given' = given \cup {[call |-> c, resolved |-> NoDigest, answer |-> Undefined]}
    /\ UNCHANGED <<registryVars, call, stageVars, netVars>>

\* The loop of RoundTrip: base.RoundTrip is called once more
Sending ==
    /\ call # NoCall /\ retry.MaxRetry > 0
    /\ round.attempt <= retry.MaxRetry /\ ~round.backoff

Counted == IF sent > MaxSent(call) THEN sent ELSE sent + 1

\* Mutant: a request that is lost does not count as an attempt
NetworkErrorForEver ==
    /\ Sending
    /\ sent' = Counted
    /\ round' = [round EXCEPT !.err = TRUE]
    /\ UNCHANGED <<registryVars, call, stageVars, waited, given>>

\* The request is lost. The loop goes on at once
NetworkError ==
    /\ Sending
    /\ sent' = Counted
    /\ round' = [round EXCEPT !.err = TRUE, !.attempt = @ + 1]
    /\ UNCHANGED <<registryVars, call, stageVars, waited, given>>

\* 429, 408 or 503: the body is closed and a backoff of length w begins
Unavailable(w) ==
    /\ Sending /\ ~expired
    /\ sent' = Counted
    /\ round' = [round EXCEPT !.err = FALSE, !.backoff = TRUE]
    /\ waited' = w
    /\ UNCHANGED <<registryVars, call, stageVars, given>>

\* time.After, at once when the backoff is negative
BackoffOver ==
    /\ round.backoff
    /\ round' = [round EXCEPT !.backoff = FALSE, !.attempt = @ + 1]
    /\ waited' = 0
    /\ UNCHANGED <<registryVars, call, stageVars, sent, given>>

\* The library makes the request again, Steps times in all
LibraryRetries(n) ==
    /\ round.outer + 1 < retry.MaxRetry
    /\ round' = [NoRound EXCEPT !.outer = round.outer + 1]
    /\ waited' = 0
    /\ sent' = n
    /\ UNCHANGED <<registryVars, call, stageVars, given>>

\* The method of the client fails; OnError may call client.Image again
MethodFails(n) ==
    IF step \in {"fetch", "child"} /\ steps > 1
    THEN /\ step' = "fetch"
         /\ left' = FetchLength(call.fn)
         /\ steps' = steps - 1
         /\ round' = NoRound
         /\ waited' = 0
         /\ sent' = n
         /\ UNCHANGED <<registryVars, call, resolved, served, position, files, given>>
    ELSE Answer(Undefined)

\* A RoundTrip failed: whether it is tried again depends on the error or the
\* status, which the library looks at
RequestFails(n) == LibraryRetries(n) \/ MethodFails(n)

\* Steps is not positive: the library makes no request at all
NoSteps ==
    /\ call # NoCall /\ retry.MaxRetry <= 0
    /\ MethodFails(sent)

\* case <-req.Context().Done(): the response and the error are returned
Cancelled ==
    /\ round.backoff /\ expired
    /\ RequestFails(sent)

\* Mutant: the last attempt is followed by a first one
ExhaustedForEver ==
    /\ call # NoCall /\ retry.MaxRetry > 0 /\ round.attempt > retry.MaxRetry
    /\ round' = NoRound
    /\ UNCHANGED <<registryVars, call, stageVars, sent, waited, given>>

\* The loop ends: lastResp and lastErr are returned, both when a network error
\* came after a 503
Exhausted ==
    /\ call # NoCall /\ retry.MaxRetry > 0 /\ round.attempt > retry.MaxRetry
    /\ RequestFails(sent)

\* Any other status is returned by the transport at once: 401, 404, 500, ...
Refused ==
    /\ Sending /\ ~expired
    /\ RequestFails(Counted)

-----------------------------------------------------------------------------
(* The registry's answers, stage by stage of a call.                       *)

\* An exchange of the stage succeeds that is not its last one
Exchanged ==
    /\ Sending /\ ~expired /\ left > 1
    /\ left' = left - 1
    /\ round' = NoRound
    /\ sent' = Counted
    /\ UNCHANGED <<registryVars, call, step, resolved, served, position, files, steps,
                   waited, given>>

\* The last exchange of the stage succeeds
Completes(stage) == Sending /\ ~expired /\ step = stage /\ left = 1

\* The next stage begins, with l exchanges, on the content d
Continue(stage, l, d) ==
    /\ step' = stage
    /\ left' = l
    /\ served' = d
    /\ round' = NoRound
    /\ sent' = Counted
    /\ UNCHANGED <<registryVars, call, resolved, position, files, steps, waited, given>>

\* client.ResolveDigest in resolveIfNeeded
ResolveDigest ==
    /\ Completes("resolve")
    /\ resolved' = tags[call.ref]
    /\ step' = "fetch"
    /\ left' = FetchLength(call.fn)
    /\ round' = NoRound
    /\ sent' = Counted
    /\ UNCHANGED <<registryVars, call, served, position, files, steps, waited, given>>

\* resolveIfNeeded returns the reference it was given, not the resolved one
Fetches == IF call.ref \in Tags THEN tags[call.ref] ELSE call.ref

\* What is there is no manifest, no index, or an index without the platform
NotThere ==
    /\ Completes("fetch")
    /\ CASE call.fn = "blob"       -> FALSE
         [] call.fn = "descriptor" -> Store[Fetches].kind = "blob"
         [] call.fn = "index"      -> Store[Fetches].kind # "index"
         [] OTHER -> Store[Fetches].kind = "blob" \/ Target(call.fn, Fetches) = NoDigest
    /\ MethodFails(Counted)

\* client.Layer: the blob is requested when it is read
FetchLayer ==
    /\ Completes("fetch") /\ call.fn = "blob"
    /\ Continue("read", 1, call.ref)

\* client.Head in ociDescriptor
FetchHead ==
    /\ Completes("fetch") /\ call.fn = "descriptor"
    /\ Store[Fetches].kind # "blob"
    /\ Answer(Defined(Fetches, newDescriptorTerm(Store[Fetches])))

\* client.Index in ociImageIndex
FetchIndex ==
    /\ Completes("fetch") /\ call.fn = "index"
    /\ Store[Fetches].kind = "index"
    /\ Answer(Defined(Fetches, IndexTerm(Store[Fetches])))

\* What ociImageManifest, FetchParentImage, FetchImageConfig and ImageFiles do
\* with the image d that client.Image gave them
UseImage(d) ==
    CASE call.fn = "manifest" -> Answer(Defined(d, ManifestTerm(Store[d])))
      [] call.fn = "parent" ->
           Answer(IF HasParent(Store[d]) THEN Defined(d, {}) ELSE Undefined)
      [] call.fn = "config" -> Continue("read", 1, d)
      [] OTHER ->
           IF Paths = {} \/ Len(Store[d].layers) = 0 THEN Answer(Defined(d, {}))
           ELSE Continue("read", 1 + ConfigReads, d)

\* client.Image, of an image
FetchImage ==
    /\ Completes("fetch") /\ call.fn \in ImageCalls
    /\ Store[Fetches].kind = "image"
    /\ UseImage(Fetches)

\* client.Image, of an index: the manifest of the platform is fetched next
ImageOfIndex ==
    /\ Completes("fetch") /\ call.fn \in ImageCalls
    /\ Store[Fetches].kind = "index" /\ Store[Fetches].child # NoDigest
    /\ Continue("child", 1, Store[Fetches].child)

Child ==
    /\ Completes("child")
    /\ UseImage(served)

\* image.ConfigFile
ReadConfig ==
    /\ Completes("read") /\ call.fn = "config"
    /\ Answer(Defined(served, {}))

\* The body as it was read: whole, or cut somewhere. Uncompressed unpacks a
\* gzip layer, so that what is hashed is not what the digest is of
Sum(d, cut) == IF cut \/ Store[d].gzip THEN NoDigest ELSE d

\* Mutant: the digest of the body is not compared
ReadBlobUnchecked(cut) ==
    /\ Completes("read") /\ call.fn = "blob"
    /\ Answer(Defined(Sum(served, cut), {}))

\* io.Copy through the hasher, then sum # ref.DigestStr(); a manifest is no blob
ReadBlob(cut) ==
    /\ Completes("read") /\ call.fn = "blob"
    /\ Answer(IF Store[served].kind = "blob" /\ Sum(served, cut) = call.ref
              THEN Defined(Sum(served, cut), {}) ELSE Undefined)

\* PathMatcher.Match
Match(p, f) == p = f.dir /\ f.supported

\* The matchers' loop of ImageFiles: the first one that matches reads the file
\* and breaks out; a file that is neither YAML nor JSON is ignored
Kept(layer) == {f \in layer : (\E p \in Paths : Match(p, f)) /\ f.structured}

\* archive.Next gave the headers of one more layer; after the last one io.EOF
KeepLayer ==
    LET kept == files \cup Kept(Store[served].layers[position + 1])
    IN  IF position + 1 = Len(Store[served].layers)
        THEN Answer(Defined(served, kept))
        ELSE /\ position' = position + 1
             /\ files' = kept
             /\ round' = NoRound
             /\ UNCHANGED <<registryVars, call, step, left, resolved, served, steps, waited,
                            given>>

\* A layer is fetched and unpacked
ReadLayer ==
    /\ Completes("read") /\ call.fn = "files"
    /\ KeepLayer
    /\ call' # NoCall => sent' = Counted

\* cache.Image has the layer in the file cache: no request is made
LayerCached ==
    /\ CacheOn
    /\ step = "read" /\ left = 1 /\ call.fn = "files" /\ round = NoRound
    /\ KeepLayer
    /\ call' # NoCall => sent' = sent

\* A body breaks off: archive.Next, ReadAll or ConfigFile fails and the call
\* returns no value
BodyFails ==
    /\ Completes("read") /\ call.fn # "blob"
    /\ Answer(Undefined)

-----------------------------------------------------------------------------
Serve ==
    \/ NetworkError \/ BackoffOver \/ Cancelled \/ Exhausted \/ Refused \/ NoSteps
    \/ \E r \in Randoms : \E w \in calculateBackoff(round.attempt, r) : Unavailable(w)
    \/ Exchanged \/ ResolveDigest \/ NotThere
    \/ FetchLayer \/ FetchHead \/ FetchIndex \/ FetchImage \/ ImageOfIndex \/ Child
    \/ ReadConfig \/ (\E cut \in BOOLEAN : ReadBlob(cut))
    \/ ReadLayer \/ LayerCached \/ BodyFails

\* The evaluation is over
Over ==
    /\ call = NoCall /\ Cardinality(given) >= MaxCalls
    /\ UNCHANGED vars

Next ==
    \/ \E t \in Tags, d \in Digests : Move(t, d)
    \/ Expire
    \/ \E c \in Policy : Begin(c) \/ BadReference(c)
    \/ Serve
    \/ Over

Spec == Init /\ [][Next]_vars

\* The goroutine of the evaluation runs, timers fire
FairSpec == Spec /\ WF_vars(Serve)

-----------------------------------------------------------------------------
(* Properties.                                                             *)

\* Types of the state.
TypeOK ==
    /\ retry \in Settings
    /\ tags \in [Tags -> Digests] /\ moves \in 0 .. MaxMoves /\ expired \in BOOLEAN
    /\ call \in Calls \cup {NoCall}
    /\ step \in {"idle", "resolve", "fetch", "child", "read"}
    /\ left \in Nat /\ position \in Nat /\ sent \in Nat /\ waited \in Int
    /\ {resolved, served} \subseteq Digests \cup {NoDigest}
    /\ round \in [attempt : Nat, err : BOOLEAN, backoff : BOOLEAN, outer : Nat]
    /\ steps \in 0 .. OnErrorSteps

\* A reference by digest is answered with content of that digest, or of the
\* image that an index of that digest has for the platform, or not at all;
\* also when the connection breaks in the middle of the body or the layer is
\* compressed: the digest check of ociBlob (oci.go:361).
PinnedAnswers ==
    \A g \in given :
        g.call.ref \in Digests /\ g.answer.ok =>
            g.answer.digest = Target(g.call.fn, g.call.ref)

\* A reference by tag is answered with content of the digest that it was
\* resolved to, unless somebody pushes the tag: resolveIfNeeded returns the tag,
\* by which the content is then fetched (oci.go:680), and nothing compares them.
TagAnswers ==
    moves = 0 =>
        \A g \in given :
            g.call.ref \in Tags /\ g.answer.ok =>
                g.answer.digest = Target(g.call.fn, g.resolved)

\* ec.oci.image_files gives every structured file of the directories, of every
\* layer, or nothing: an archive that breaks off is never mistaken for one with
\* fewer files (files.go:84).
WholeFiles ==
    \A g \in given :
        g.call.fn = "files" /\ g.answer.ok =>
            LET layers == Store[Target("files", g.call.ref)].layers
            IN  g.answer.value =
                    {f \in UNION {layers[i] : i \in DOMAIN layers} :
                        f.dir \in Paths /\ f.supported /\ f.structured}

\* Every field of a descriptor, manifest or index given to a policy is one the
\* builtin's type declares: a policy that uses it compiles (oci.go:97 "ensure
\* the compiler catches typos"). The subject of an index is the exception.
TermsDeclared ==
    \A g \in given :
        /\ g.call.fn = "descriptor" => g.answer.value \subseteq DescriptorDecl
        /\ g.call.fn = "manifest" => g.answer.value \subseteq ManifestDecl
        /\ g.call.fn = "index" => g.answer.value \ {"subject"} \subseteq IndexDecl

\* An answer of a builtin is what was asked for: content of the digest, or of
\* the tag, whole, and of the type that the builtin declares.
AnswersSound == PinnedAnswers /\ TagAnswers /\ WholeFiles /\ TermsDeclared

\* Three layers of retries are stacked (retry.OnError in ociImageManifest, the
\* library's, the transport's) over every exchange of a call, pings, tokens,
\* configs and layers included: their product bounds the requests of a call.
RequestsBounded == call # NoCall => sent <= MaxSent(call)

\* From the second attempt on no wait is longer than --retry-max-wait, whatever
\* the random number and however the conversions overflow (retry.go:187); the
\* first wait is --retry-duration.
WaitsCapped ==
    round.backoff =>
        IF round.attempt = 0 THEN waited = retry.Duration ELSE waited <= retry.MaxWait

\* The retries of a call are bounded in number and each wait in length.
RetriesBounded == RequestsBounded /\ WaitsCapped

\* Every call is answered, however the registry behaves: the retries end
\* (retry.go:105) and the deadline cuts a backoff short.
EveryCallAnswered == call # NoCall ~> call = NoCall
=============================================================================
