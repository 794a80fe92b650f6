-------------------------------- MODULE Vsa --------------------------------
(***************************************************************************)
(* Verification summary attestations: what `ec validate image --vsa` does  *)
(* after the report is written (the VSA block of RunE,                     *)
(* cmd/validate/image.go).  internal/validate/vsa makes and signs one      *)
(* envelope for each component and one for the snapshot (vsa.go,           *)
(* orchestrator.go, attest.go, service.go), and then uploads each of them  *)
(* to each --vsa-upload backend (storage*.go): a directory, or a Rekor     *)
(* transparency log, which module VsaRetriever reads.                      *)
(***************************************************************************)
EXTENDS Integers, Sequences, FiniteSets, SequencesExt

CONSTANTS
  Setups,      \* the reports, flags and old log entries that a run can start from
  Children,    \* ExpansionInfo.ChildrenByIndex: pinned index -> its manifests
  IndexAliases,\* ExpansionInfo.IndexAliases: reference -> pinned index
  DigestOf,    \* pinned references -> digest
  TagDigests   \* what a reference without a digest can resolve to

IsSequence(s) == s \in Seq(Range(s))

\* A component that passed carries the pinned reference that was validated: validate.go
\* sets ImageURL to the resolved reference and RunE copies it into ContainerImage.
ASSUME SetupAssumption ==
  \A s \in Setups :
    /\ s.maxFaults \in Nat
    /\ IsSequence(s.report) /\ IsSequence(s.flags) /\ IsSequence(s.log)
    /\ \A i \in DOMAIN s.log : s.log[i].time \in Nat
    /\ \A c \in DOMAIN s.report : s.report[c].ok =>
         /\ s.report[c].image \in DOMAIN DigestOf
         /\ DigestOf[s.report[c].image] = s.report[c].validated

None == "none"
NoPath == <<0, None>>
NoContent == << >>
NoStatement == [digest |-> None, image |-> None, results |-> {}]

VARIABLES
  setup,    \* report (sequence of components), upload flags, strict, old log, and a bound:
            \* maxFaults external operations of the command fail
  pc,       \* where RunE is
  todo,     \* components that ProcessAllVSAs has not reached
  files,    \* predicates and envelopes in the temporary directories, by path
  envs,     \* VSAProcessingResult.ComponentEnvelopes: image -> envelope path
  snapEnv,  \* VSAProcessingResult.SnapshotEnvelope
  queue,    \* envelope paths that are not uploaded yet
  cur,      \* UploadVSAEnvelope: its path and the flag it is at
  log,      \* the entries of the Rekor log
  dirs,     \* files that local backends wrote: <<directory, envelope>>
  warned,   \* history: <<path, flag>> that a warning was logged for
  logged,   \* history: <<path, flag>> that the Rekor backend logged an error for
  uploaded, \* history: the paths that the command called uploaded
  faults,   \* number of failed operations so far
  exit      \* the command's result

cmdVars == <<setup, pc, todo, files, envs, snapEnv, queue, cur, log, dirs,
             warned, logged, uploaded, faults, exit>>

report == setup.report
Success == \A c \in DOMAIN report : report[c].ok

-----------------------------------------------------------------------------
(* vsa.go: the predicate *)

Restricted(f, k) == IF k \in DOMAIN f THEN f[k] ELSE k

normalizeIndexRef(ref) == Restricted(IndexAliases, ref)

FilterExactly(ref) == {c \in DOMAIN report : report[c].image = ref}

FilterReportForTargetRef(ref) ==
  LET target == normalizeIndexRef(ref)
      include == {target} \cup IF target \in DOMAIN Children THEN Children[target] ELSE {}
  IN {c \in DOMAIN report : report[c].image \in include}

\* GeneratePredicate; the Results hold the filtered components.
GeneratePredicate(c) ==
  [image |-> report[c].image, results |-> FilterReportForTargetRef(report[c].image)]

\* SnapshotVSAGenerator.GeneratePredicate: the report itself.
GenerateSnapshotPredicate == [image |-> None, results |-> DOMAIN report]

\* WritePredicate: a new temporary directory, named here by a number.
NewDir == Cardinality({p \in DOMAIN files : p[2] = "predicate"}) + 1
PredicatePath == <<NewDir, "predicate">>

\* WriteEnvelope: next to the predicate.
EnvelopePath(p) == <<p[1], "envelope">>

\* AttestPredicate: the signed statement binds the predicate to a digest; the signature
\* comes without its public key.
AttestPredicate(pred, digest) ==
  [statement |-> [digest |-> digest, image |-> pred.image, results |-> pred.results],
   publicKey |-> None]

Put(f, k, v) == [x \in DOMAIN f \cup {k} |-> IF x = k THEN v ELSE f[x]]

Written(pred) == Put(files, PredicatePath, pred)
Attested(pred, digest) ==
  Put(Written(pred), EnvelopePath(PredicatePath), AttestPredicate(pred, digest))

-----------------------------------------------------------------------------
(* RunE and service.go *)

CmdInit ==
  /\ setup \in Setups
  /\ pc = "sign" /\ todo = 1
  /\ files = << >> /\ envs = << >> /\ snapEnv = NoPath
  /\ queue = {} /\ cur = [path |-> NoPath, flag |-> 0, content |-> NoContent]
  /\ log = setup.log /\ dirs = << >>
  /\ warned = {} /\ logged = {} /\ uploaded = {}
  /\ faults = 0 /\ exit = None

Fault == faults < setup.maxFaults /\ faults' = faults + 1
NoFault == UNCHANGED faults

\* if data.strict && !report.Success
Verdict == IF setup.strict /\ ~Success THEN "error" ELSE "ok"

\* NewSigner: the only step of the VSA block that ends the command.
NewSigner ==
  /\ pc = "sign"
  /\ \/ NoFault /\ pc' = "components" /\ UNCHANGED exit
     \/ Fault /\ pc' = "done" /\ exit' = "error"
  /\ UNCHANGED <<setup, todo, files, envs, snapEnv, queue, cur, log, dirs, warned, logged, uploaded>>

\* getDigest: a reference with a digest resolves to it, another to what the tag names now.
Digests(c) ==
  IF report[c].image \in DOMAIN DigestOf THEN {DigestOf[report[c].image]} ELSE TagDigests

\* ProcessComponentVSA, whole or up to the operation that fails.
ProcessComponentVSA(c, digest) ==
  LET pred == GeneratePredicate(c) IN
  \/ /\ NoFault
     /\ files' = Attested(pred, digest)
     /\ envs' = Put(envs, report[c].image, EnvelopePath(PredicatePath))
  \/ \* the directory or the file of the predicate
     Fault /\ UNCHANGED <<files, envs>>
  \/ \* the signature, or the file of the envelope
     Fault /\ files' = Written(pred) /\ UNCHANGED envs

\* One turn of the loop of ProcessAllVSAs: what fails is logged and skipped.
ProcessNextComponent ==
  /\ pc = "components" /\ todo <= Len(report)
  /\ todo' = todo + 1
  /\ \/ \E d \in Digests(todo) : ProcessComponentVSA(todo, d)
     \/ Fault /\ UNCHANGED <<files, envs>>
  /\ UNCHANGED <<setup, pc, snapEnv, queue, cur, log, dirs, warned, logged, uploaded, exit>>

Envelopes == {envs[i] : i \in DOMAIN envs} \cup IF snapEnv = NoPath THEN {} ELSE {snapEnv}

\* ProcessSnapshotVSA attests the digest of the predicate's file.
SnapshotDigest == "snapshot"

\* After ProcessAllVSAs: an error is logged and skips the upload.
ProcessSnapshotVSA ==
  /\ pc = "components" /\ todo > Len(report)
  /\ \/ /\ NoFault
        /\ files' = Attested(GenerateSnapshotPredicate, SnapshotDigest)
        /\ snapEnv' = EnvelopePath(PredicatePath)
        /\ pc' = "uploads"
        /\ queue' = IF setup.flags = << >> THEN {} ELSE {envs[i] : i \in DOMAIN envs} \cup {snapEnv'}
     \/ /\ Fault /\ pc' = "verdict"
        /\ files' \in {files, Written(GenerateSnapshotPredicate)}
        /\ UNCHANGED <<snapEnv, queue>>
  /\ UNCHANGED <<setup, todo, envs, cur, log, dirs, warned, logged, uploaded, exit>>

Finish ==
  /\ \/ pc = "verdict"
     \/ pc = "uploads" /\ queue = {} /\ cur.path = NoPath
  /\ pc' = "done" /\ exit' = Verdict
  /\ UNCHANGED <<setup, todo, files, envs, snapEnv, queue, cur, log, dirs, warned, logged, uploaded, faults>>

-----------------------------------------------------------------------------
(* storage.go: the flag and its backend *)

Bad == [backend |-> "bad"]

\* The components come in the order of a map, the snapshot last.
UploadOrder(p) == p = snapEnv => queue = {snapEnv}

\* UploadVSAEnvelope reads the envelope; an error there ends the upload of it.
ReadEnvelope(p) ==
  /\ pc = "uploads" /\ cur.path = NoPath /\ p \in queue /\ UploadOrder(p)
  /\ queue' = queue \ {p}
  /\ \/ /\ NoFault /\ p \in DOMAIN files
        /\ cur' = [path |-> p, flag |-> 1, content |-> files[p]]
        /\ UNCHANGED warned
     \/ /\ Fault
        /\ warned' = warned \cup {<<p, i>> : i \in DOMAIN setup.flags}
        /\ UNCHANGED cur
  /\ UNCHANGED <<setup, pc, todo, files, envs, snapEnv, log, dirs, logged, uploaded, exit>>

SupportedBackends == {"rekor", "local"}

\* ParseStorageFlag of <backend>@<base>?<params>; the backend is in lower case here.
ParseStorageFlag(flag) ==
  IF flag.backend \in SupportedBackends /\ flag.wellFormed THEN flag ELSE Bad

\* A parameter that is given with several names: the order of the map decides.
Overridden(config, keys, default) ==
  LET given == {config.params[k] : k \in DOMAIN config.params \cap keys}
  IN IF given # {} THEN given ELSE {IF config.base # "" THEN config.base ELSE default}

\* NewRekorBackend: the servers it can end with, none when a parameter does not parse.
NewRekorBackend(config) ==
  LET bad == \E k \in DOMAIN config.params : k \in {"timeout", "retries"} /\ config.params[k] = "junk"
  IN IF bad THEN {} ELSE Overridden(config, {"server", "url"}, "public")

\* NewLocalBackend: the directories it can end with.
NewLocalBackend(config) == Overridden(config, {"path", "dir", "directory"}, "./vsa-upload")

CreateStorageBackend(config) ==
  CASE config.backend = "rekor" -> NewRekorBackend(config)
    [] config.backend = "local" -> NewLocalBackend(config)
    [] OTHER -> {}

NextFlag ==
  IF cur.flag < Len(setup.flags)
  THEN cur' = [cur EXCEPT !.flag = @ + 1] /\ UNCHANGED uploaded
  ELSE cur' = [path |-> NoPath, flag |-> 0, content |-> NoContent] /\ uploaded' = uploaded \cup {cur.path}

Here == <<cur.path, cur.flag>>
Uploading == pc = "uploads" /\ cur.path # NoPath
Config == ParseStorageFlag(setup.flags[cur.flag])
uploadFrame == <<setup, pc, todo, files, envs, snapEnv, queue, exit>>

\* Mutant: the first backend that fails ends the upload of the envelope.
SkipBackendReturns ==
  /\ Uploading /\ CreateStorageBackend(Config) = {} /\ NoFault
  /\ warned' = warned \cup {Here}
  /\ cur' = [path |-> NoPath, flag |-> 0, content |-> NoContent]
  /\ uploaded' = uploaded \cup {cur.path}
  /\ UNCHANGED <<log, dirs, logged>> /\ UNCHANGED uploadFrame

\* A flag that does not parse, or a backend that cannot be made, is warned about.
SkipBackend ==
  /\ Uploading
  /\ \/ CreateStorageBackend(Config) = {} /\ NoFault
     \/ Config.backend = "local" /\ Fault  \* os.MkdirAll
  /\ warned' = warned \cup {Here}
  /\ NextFlag
  /\ UNCHANGED <<log, dirs, logged>> /\ UNCHANGED uploadFrame

\* LocalBackend.Upload: the time and a hash of the content make the file name new.
LocalUpload ==
  /\ Uploading /\ Config.backend = "local"
  /\ \/ /\ NoFault /\ UNCHANGED warned
        /\ \E dir \in CreateStorageBackend(Config) : dirs' = Append(dirs, <<dir, cur.content>>)
     \/ Fault /\ warned' = warned \cup {Here} /\ UNCHANGED dirs
  /\ NextFlag
  /\ UNCHANGED <<log, logged>> /\ UNCHANGED uploadFrame

\* External: the log indexes an entry by the digest of its subject, keeps the payload
\* as an attestation, and stamps it with a time that never decreases.
LastTime == IF log = << >> THEN 0 ELSE log[Len(log)].time
IntotoV002Entry(server, content, time) ==
  [server |-> server, digest |-> content.statement.digest, time |-> time, publicKey |-> content.publicKey,
   body |-> [kind |-> "intoto", api |-> "0.0.2", envelope |-> {"payloadType", "signatures"},
             sigs |-> 1, legacy |-> {}],
   att |-> content.statement]

\* External: an entry that the log holds already is refused.
InLog(server, content) == \E i \in DOMAIN log : log[i].server = server /\ log[i].att = content.statement

CreateLogEntry(server, content) ==
  \E t \in {LastTime, LastTime + 1} : log' = Append(log, IntotoV002Entry(server, content, t))

\* prepareDSSEForRekor adds the signer's public key to a signature that has none; an
\* envelope without payload or signatures does not come from AttestPredicate.
SignerKey == "signer"
prepareDSSEForRekor(content) ==
  [content EXCEPT !.publicKey = IF @ = None THEN SignerKey ELSE @]

\* External: the client library makes no client for an address that is not a URL.
GetRekorClient(server) == server # "junk"

\* uploadSingle and uploadIntotoV002Envelope log at Error what they fail with.
FailedUpload == logged' = logged \cup {Here}

\* uploadSingle: an entry that cannot be proposed, a request that the log does not get, an
\* answer that is lost when the log has the entry, and an entry that the log refuses.
uploadSingle(server, content) ==
  \/ /\ ~InLog(server, content) /\ NoFault
     /\ CreateLogEntry(server, content) /\ UNCHANGED logged
  \/ /\ ~InLog(server, content) /\ Fault
     /\ \/ CreateLogEntry(server, content)
        \/ UNCHANGED log
     /\ FailedUpload
  \/ InLog(server, content) /\ NoFault /\ UNCHANGED log /\ FailedUpload

\* RekorBackend.UploadWithSigner.  Its own errors are returned and not logged: of them a
\* run can only meet the one for the client, since the key was loaded by NewSigner and
\* the envelope comes from AttestPredicate.  Nor does UploadVSAEnvelope warn about any
\* error of it: uploadErr is declared again in the branch of a signer, and the check
\* after the branch sees the outer one.
UploadWithSigner ==
  /\ Uploading /\ Config.backend = "rekor"
  /\ \E server \in CreateStorageBackend(Config) :
       \/ ~GetRekorClient(server) /\ NoFault /\ UNCHANGED <<log, logged>>
       \/ GetRekorClient(server) /\ uploadSingle(server, prepareDSSEForRekor(cur.content))
  /\ NextFlag
  /\ UNCHANGED <<dirs, warned>> /\ UNCHANGED uploadFrame

CommandNext ==
  \/ NewSigner \/ ProcessNextComponent \/ ProcessSnapshotVSA \/ Finish
  \/ \E p \in queue : ReadEnvelope(p)
  \/ SkipBackend \/ LocalUpload \/ UploadWithSigner

-----------------------------------------------------------------------------
(* Properties *)

\* Types of the state of the command.
CmdTypeOK ==
  /\ setup \in Setups /\ faults \in 0..setup.maxFaults
  /\ pc \in {"sign", "components", "uploads", "verdict", "done"}
  /\ todo \in 1..(Len(report) + 1)
  /\ DOMAIN envs \subseteq {report[c].image : c \in DOMAIN report}
  /\ queue \subseteq DOMAIN files
  /\ cur.flag \in 0..Len(setup.flags)
  /\ exit \in {None, "ok", "error"}

\* What the filtered report of an image should hold: the image, and the manifests of
\* the index that it is or that it is a name of.
Family(ref) ==
  {c \in DOMAIN report :
     \/ report[c].image = normalizeIndexRef(ref)
     \/ \E i \in DOMAIN Children : i = normalizeIndexRef(ref) /\ report[c].image \in Children[i]}

\* service.go, vsa.go: an envelope that ComponentEnvelopes names exists, was signed for
\* the image it is kept under and for the results of that image and its manifests, and,
\* when the image passed, attests the digest that was validated, whatever failed for
\* the components around it.
AttestsOwn ==
  \A i \in DOMAIN envs :
    /\ envs[i] \in DOMAIN files
    /\ files[envs[i]].statement.image = i
    /\ files[envs[i]].statement.results = Family(i)
    /\ \E c \in DOMAIN report :
         /\ report[c].image = i
         /\ report[c].ok => files[envs[i]].statement.digest = report[c].validated

Stored(path, f) ==
  /\ path \in DOMAIN files
  /\ LET config == ParseStorageFlag(setup.flags[f]) IN
     CASE config.backend = "local" ->
            \E i \in DOMAIN dirs : dirs[i][2] = files[path] /\ dirs[i][1] \in CreateStorageBackend(config)
       [] config.backend = "rekor" ->
            \E i \in DOMAIN log : log[i].att = files[path].statement /\ log[i].server \in CreateStorageBackend(config)
       [] OTHER -> FALSE

\* The flag is for Rekor and its address can be one that no client is made for.
NoClient(f) ==
  LET config == ParseStorageFlag(setup.flags[f])
  IN config.backend = "rekor" /\ \E server \in NewRekorBackend(config) : ~GetRekorClient(server)

\* storage.go, UploadVSAEnvelope: one backend that fails does not keep an envelope from
\* the others: at the end each envelope is in each backend, or a message was logged for
\* the pair, by UploadVSAEnvelope, by its caller or by the Rekor backend.  The one failure
\* that may pass without a message is an address that is not a URL.
EveryBackendTried ==
  pc = "done" /\ snapEnv # NoPath =>
    \A p \in Envelopes, f \in DOMAIN setup.flags :
      Stored(p, f) \/ <<p, f>> \in warned \/ <<p, f>> \in logged \/ NoClient(f)

\* image.go 500, "Failed to process VSAs": unless the snapshot was attested nothing
\* reaches a backend, and what does is an envelope of this report, in the log
\* with the key that verifies it.
OnlyWholeResults ==
  /\ snapEnv = NoPath => dirs = << >> /\ log = setup.log
  /\ \A i \in DOMAIN dirs : dirs[i][2] \in {files[p] : p \in Envelopes}
  /\ \A i \in DOMAIN log : i > Len(setup.log) =>
       /\ log[i].att \in {files[p].statement : p \in Envelopes}
       /\ log[i].publicKey = SignerKey

\* image.go: no failure of the VSA steps after the key was read changes the verdict.
VerdictKept == exit # None /\ todo > 1 => exit = Verdict

\* The uploads of the command: each backend is tried for each envelope, nothing but whole
\* results is uploaded, and no failure among them changes the verdict.
UploadsSound == EveryBackendTried /\ OnlyWholeResults /\ VerdictKept
=============================================================================
