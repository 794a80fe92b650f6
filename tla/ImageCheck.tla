----------------------------- MODULE ImageCheck -----------------------------
(***************************************************************************)
(* ValidateImage for one component (internal/image/validate.go): from the  *)
(* reference that the snapshot gives to the policy input and the checks of *)
(* the Output, with the signatures and attestations as the code parses     *)
(* them (internal/signature, internal/attestation,                         *)
(* application_snapshot_image.go); and the builtins                        *)
(* ec.sigstore.verify_image and ec.sigstore.verify_attestation             *)
(* (internal/rego/sigstore), which the rules call with the options that    *)
(* the evaluator wrote to its data or with options of their own.           *)
(*                                                                         *)
(* So an image is verified along two paths: by CheckOpts of the policy     *)
(* object, and by options that went through SigstoreOpts, a JSON file, a   *)
(* Rego term and a second policy object.                                   *)
(*                                                                         *)
(* A tag may move and any request may fail at any time. The layers that a  *)
(* digest has in the registry stay the same.                               *)
(***************************************************************************)
EXTENDS Integers, SequencesExt

CONSTANTS
    Digests,      \* the images of the registry
    Worlds,       \* what they hold: a set of functions from Digests
    Urls,         \* the component's ContainerImage: Tag, Unparsable or a digest
    Policies,     \* what the policy is made of: kind, key, identity, rekor, ignoreRekor
    Material,     \* the public key that a key reference resolves to
    Pem,          \* the reference that is a public key's own PEM text
    RuleTerms,    \* options that rules write themselves
    MaxCalls      \* bound on the builtin calls of the rules

Empty == ""
Tag == "tag"
Unparsable == "unparsable"
NotString == "not a string"
NoIdentity == [issuer |-> Empty, subject |-> Empty]
Nothing == "nothing"
NameKinds == {"DNSNames", "EmailAddresses"}

ASSUME ImageCheckAssumption ==
    /\ Urls \subseteq Digests \cup {Tag, Unparsable} /\ MaxCalls \in Nat
    /\ Digests \cap {Tag, Unparsable, Nothing} = {}

\* A public key has a PEM text, which is a reference to the key; what the flags
\* and the policy say are strings
ASSUME PolicyAssumption ==
    /\ \A r \in DOMAIN Material : Material[r] \in DOMAIN Pem
    /\ \A k \in DOMAIN Pem :
         /\ Pem[k] \in DOMAIN Material \ {Empty, NotString}
         /\ Material[Pem[k]] = k
    /\ \A p \in Policies :
         /\ p.kind \in {"image", "input"} /\ p.ignoreRekor \in BOOLEAN
         /\ p.identity = [issuer |-> p.identity.issuer, subject |-> p.identity.subject]
         /\ p.identity.issuer # NotString /\ p.identity.subject # NotString

IsSequence(s) == s \in Seq(ToSet(s))

ASSUME WorldAssumption ==
    \A w \in Worlds, d \in Digests :
        /\ IsSequence(w[d].signatures) /\ IsSequence(w[d].attestations)
        /\ \A i \in DOMAIN w[d].attestations : IsSequence(w[d].attestations[i].envelope)
        /\ w[d].parent \in Digests \cup {Nothing}

VARIABLES
    world,        \* what the registry holds
    tag,          \* the digest that the tag points to
    url,          \* comp.ContainerImage
    policy,       \* the policy object: what it was made of and its checkOpts
    defaults,     \* data.config.default_sigstore_opts
    at,           \* the step of the evaluator's creation and of ValidateImage
    a,            \* the ApplicationSnapshotImage
    out,          \* the Output
    input,        \* input.json
    answers       \* the answers of the builtins, kept per call (Memoize)

given == <<world, url>>
vars == <<world, tag, url, policy, defaults, at, a, out, input, answers>>

-----------------------------------------------------------------------------
(* Signatures and certificates.                                            *)

\* The elements of s at the positions I, in their order: SelectSeq by positions
Kept(s, I) ==
    [k \in 1 .. Cardinality(I) |->
        s[CHOOSE i \in I : Cardinality({j \in I : j <= i}) = k]]

\* san: the kinds of names in the order of a Go map (sort.StringSlice only
\* converts), then the other name
san(cert, order) ==
    Kept(order, {i \in DOMAIN order : order[i] \in cert.names})
        \o (IF cert.otherName THEN <<"OtherName">> ELSE <<>>)

Orders == SetToSeqs(NameKinds)

\* addCertificateMetadataTo: only what is not empty; one extension that cannot
\* be decoded fails the whole signature
CertificateMetadata(cert, order) ==
    IF san(cert, order) = <<>> THEN <<>> ELSE [san |-> san(cert, order)]

NoCert == [id |-> Empty, names |-> {}, otherName |-> FALSE, decodes |-> TRUE]

\* The chain without its empty certificates
CertificateChain(l) == SelectSeq(l.chain, LAMBDA c : c # Empty)

\* NewEntitySignature and whether it succeeds
SignatureParses(l) == l.readable /\ l.cert.decodes
NewEntitySignature(l, order) ==
    [keyid |-> l.cert.id, sig |-> l.sig, certificate |-> l.cert.id,
     chain |-> CertificateChain(l),
     metadata |-> IF l.cert = NoCert THEN <<>> ELSE CertificateMetadata(l.cert, order)]

\* createEntitySignatures: one for every signature of the envelope; the values
\* of the layer come first
createEntitySignatures(l, order) ==
    LET es == NewEntitySignature(l, order)
    IN  [i \in DOMAIN l.envelope |->
            [keyid |-> IF es.keyid = Empty THEN l.envelope[i].keyid ELSE es.keyid,
             sig |-> IF es.sig = Empty THEN l.envelope[i].sig ELSE es.sig,
             certificate |-> es.certificate, chain |-> es.chain, metadata |-> es.metadata]]

\* payloadFromSig and decodedPayload: the media type, the JSON of the envelope,
\* its payload and the base64 text
PayloadDecodes(l) == l.payload

\* ProvenanceFromSignature
ProvenanceParses(l) == PayloadDecodes(l) /\ l.statement.json /\ SignatureParses(l)
Provenance(l, order) ==
    [statement |-> l.statement, signatures |-> createEntitySignatures(l, order)]

\* SLSAProvenanceFromSignature also looks into the predicate
SLSAProvenanceParses(l) == ProvenanceParses(l) /\ l.statement.slsa

\* The switch of ValidateAttestationSignature
AttestationParses(l) ==
    IF ProvenanceParses(l) /\ l.statement.predicateType = "slsa"
    THEN SLSAProvenanceParses(l)
    ELSE ProvenanceParses(l)

\* A loop that stops at the first layer that does not parse
Before(layers, bad) == IF bad = {} THEN layers ELSE SubSeq(layers, 1, Min(bad) - 1)

\* Every signature has its own iteration of the map
MapOrders(layers) == [DOMAIN layers -> Orders]

-----------------------------------------------------------------------------
(* Policy objects and their check options.                                 *)

NoCheckOpts == [verifier |-> Empty, identities |-> <<>>, ignoreTlog |-> FALSE, rekorKeys |-> {}]

validateIdentity(id) == id.issuer # Empty /\ id.subject # Empty

\* NewPolicy succeeds when the key can be loaded, or there is none and the
\* identity is whole
PolicyMade(o) ==
    IF o.key # Empty THEN o.key \in DOMAIN Material ELSE validateIdentity(o.identity)

\* checkOpts: a verifier or an identity, and the Rekor keys of the trust root
checkOpts(o) ==
    [verifier |-> IF o.key # Empty THEN Material[o.key] ELSE Empty,
     identities |-> IF o.key # Empty THEN <<>> ELSE <<o.identity>>,
     ignoreTlog |-> o.ignoreRekor,
     rekorKeys |-> IF o.ignoreRekor THEN {} ELSE {"tuf"}]

\* External: cosign accepts a layer that the key or an identity signed and, if
\* asked, a known log recorded; no such layer is an error
Accepts(c, l) ==
    /\ IF c.verifier # Empty THEN l.by.key = c.verifier
       ELSE \E i \in DOMAIN c.identities : l.by.identity = c.identities[i]
    /\ c.ignoreTlog \/ l.log \in c.rekorKeys
Verified(c, layers) == Kept(layers, {i \in DOMAIN layers : Accepts(c, layers[i])})

\* Mutant: --ignore-rekor is not passed on
SigstoreOptsForgetsRekor(p) ==
    [ignoreRekor |-> FALSE,
     props |-> [certificate_identity |-> p.identity.subject,
                certificate_oidc_issuer |-> p.identity.issuer,
                public_key |-> IF p.key = Empty THEN Empty ELSE Pem[p.checkOpts.verifier],
                rekor_url |-> p.rekor]]

\* SigstoreOpts: the key as PEM; it is an error when the policy names a key
\* and has no verifier, as the one of `ec validate input`
PublicKeyPEM(p) == IF p.key = Empty THEN Empty ELSE Pem[p.checkOpts.verifier]
SigstoreOptsFail(p) == p.key # Empty /\ p.checkOpts.verifier = Empty
SigstoreOpts(p) ==
    [ignoreRekor |-> p.ignoreRekor,
     props |-> [certificate_identity |-> p.identity.subject,
                certificate_oidc_issuer |-> p.identity.issuer,
                public_key |-> PublicKeyPEM(p),
                rekor_url |-> p.rekor]]

\* stringPropertyFromTerm: Empty when it is absent or no string
Property(term, name) ==
    IF name \in DOMAIN term.props /\ term.props[name] # NotString
    THEN term.props[name] ELSE Empty

\* optionsFromTerm, as the options of NewPolicy
optionsFromTerm(term) ==
    [key |-> Property(term, "public_key"),
     identity |-> [issuer |-> Property(term, "certificate_oidc_issuer"),
                   subject |-> Property(term, "certificate_identity")],
     rekor |-> Property(term, "rekor_url"),
     ignoreRekor |-> term.ignoreRekor]

\* parseCheckOpts: the Rekor key of the options, if it is one, replaces those of the
\* trust root
NoKey == "junk"
OptsParse(term) ==
    PolicyMade(optionsFromTerm(term)) /\ Property(term, "rekor_public_key") # NoKey
parseCheckOpts(term) ==
    LET own == Property(term, "rekor_public_key")
        c == checkOpts(optionsFromTerm(term))
    IN  IF own # Empty THEN [c EXCEPT !.rekorKeys = {own}] ELSE c

-----------------------------------------------------------------------------
NoImage == [reference |-> Nothing, signatures |-> <<>>, attestations |-> <<>>,
            config |-> Nothing, parent |-> Nothing, parentConfig |-> Nothing,
            files |-> Nothing]
NoOutput == [imageUrl |-> Nothing, access |-> Empty, signature |-> Empty, attestation |-> Empty,
             syntax |-> Empty, policy |-> Empty, signatures |-> <<>>, attestations |-> <<>>]
NoInput == [written |-> FALSE]
NoDefaults == [ignoreRekor |-> FALSE, props |-> <<>>]

\* NewPolicy for `ec validate image`; NewInputPolicy makes no verifier
PolicyObject(p) ==
    [key |-> p.key, identity |-> IF p.kind = "image" /\ p.key = Empty THEN p.identity ELSE NoIdentity,
     rekor |-> p.rekor, ignoreRekor |-> p.kind = "image" /\ p.ignoreRekor, kind |-> p.kind,
     checkOpts |-> IF p.kind = "image" THEN checkOpts(p) ELSE NoCheckOpts]

Init ==
    /\ world \in Worlds /\ url \in Urls /\ tag \in Digests
    /\ policy \in {PolicyObject(p) : p \in {q \in Policies : q.kind = "image" => PolicyMade(q)}}
    /\ defaults = NoDefaults
    /\ at = "config"
    /\ a = NoImage /\ out = NoOutput /\ input = NoInput
    /\ answers = <<>>

Content(ref) == world[IF ref = Tag THEN tag ELSE ref]

\* External: somebody pushes the tag again
MoveTag(d) ==
    /\ tag # d /\ at \notin {"done", "error"}
    /\ tag' = d
    /\ UNCHANGED <<given, policy, defaults, at, a, out, input, answers>>

quiet == <<given, tag, policy, answers>>

\* createConfigJSON
CreateConfig ==
    /\ at = "config" /\ ~SigstoreOptsFail(policy)
    /\ defaults' = SigstoreOpts(policy)
    /\ at' = IF policy.kind = "image" THEN "new" ELSE "evaluate"
    /\ UNCHANGED <<quiet, a, out, input>>

CreateConfigFails ==
    /\ at = "config" /\ SigstoreOptsFail(policy)
    /\ at' = "error"
    /\ UNCHANGED <<quiet, defaults, a, out, input>>

\* ValidateImage returns an error and no Output
ReturnError ==
    /\ at' = "error"
    /\ out' = NoOutput

\* SetImageURL, which also forgets what was found for the reference before
SetImageURL(ref) == [a EXCEPT !.reference = ref, !.signatures = <<>>, !.attestations = <<>>]

NewApplicationSnapshotImage ==
    /\ at = "new"
    /\ IF url = Unparsable
       THEN ReturnError /\ UNCHANGED a
       ELSE /\ a' = SetImageURL(url)
            /\ out' = [out EXCEPT !.imageUrl = url]
            /\ at' = "access"
    /\ UNCHANGED <<quiet, defaults, input>>

ValidateImageAccess(found) ==
    /\ at = "access"
    /\ out' = [out EXCEPT !.access = IF found THEN "pass" ELSE "fail"]
    /\ at' = IF found THEN "resolve" ELSE "done"
    /\ UNCHANGED <<quiet, defaults, a, input>>

\* Mutant: the reference stays what it was
ResolvedNot(ref) == ref

\* ParseAndResolve asks for the digest unless the URL has one
Resolved(ref) == IF ref = Tag THEN tag ELSE ref

resolveAndSetImageUrl ==
    /\ at = "resolve"
    /\ a' = SetImageURL(Resolved(url))
    /\ out' = [out EXCEPT !.imageUrl = Resolved(url)]
    /\ at' = "fetch"
    /\ UNCHANGED <<quiet, defaults, input>>

ResolveFails ==
    /\ at = "resolve" /\ url = Tag
    /\ ReturnError
    /\ UNCHANGED <<quiet, defaults, a, input>>

\* FetchImageConfig; what fails is only logged
FetchImageConfig(found) ==
    /\ at = "fetch"
    /\ a' = [a EXCEPT !.config = IF found THEN Content(a.reference).config ELSE Nothing]
    /\ at' = "parent"
    /\ UNCHANGED <<quiet, defaults, out, input>>

\* FetchParentImageConfig: the reference of the parent may be found and its
\* configuration not
FetchParentImageConfig(found, config) ==
    /\ at = "parent"
    /\ LET p == IF found THEN Content(a.reference).parent ELSE Nothing
       IN  a' = [a EXCEPT !.parent = p,
                          !.parentConfig = IF config /\ p # Nothing THEN Content(p).config
                                           ELSE Nothing]
    /\ at' = "files"
    /\ UNCHANGED <<quiet, defaults, out, input>>

FetchImageFiles(found) ==
    /\ at = "files"
    /\ a' = [a EXCEPT !.files = IF found THEN Content(a.reference).files ELSE Nothing]
    /\ at' = "signature"
    /\ UNCHANGED <<quiet, defaults, out, input>>

\* The signatures before one that does not parse stay with the image
ValidateImageSignature(reached) ==
    LET layers == Verified(policy.checkOpts, Content(a.reference).signatures)
        parsed == Before(layers, {i \in DOMAIN layers : ~SignatureParses(layers[i])})
        ok == reached /\ layers # <<>> /\ parsed = layers
    IN
    /\ at = "signature"
    /\ \E order \in MapOrders(parsed) :
         a' = IF ~reached THEN a
              ELSE [a EXCEPT !.signatures =
                      [i \in DOMAIN parsed |-> NewEntitySignature(parsed[i], order[i])]]
    /\ out' = [out EXCEPT !.signature = IF ok THEN "pass" ELSE "fail"]
    /\ at' = "attestation"
    /\ UNCHANGED <<quiet, defaults, input>>

\* Mutant: a layer that does not parse is left out
ValidateAttestationSignatureSkips(reached) ==
    LET layers == SelectSeq(Verified(policy.checkOpts, Content(a.reference).attestations),
                            AttestationParses)
        ok == reached
    IN
    /\ at = "attestation"
    /\ \E order \in MapOrders(layers) :
         a' = [a EXCEPT !.attestations =
                 [i \in DOMAIN layers |-> Provenance(layers[i], order[i])]]
    /\ out' = [out EXCEPT !.attestation = IF ok THEN "pass" ELSE "fail"]
    /\ at' = IF ok THEN "syntax" ELSE "done"
    /\ UNCHANGED <<quiet, defaults, input>>

\* A layer that does not parse fails the check, and so the whole validation. The
\* caller allows for an answer without an error and without layers
ValidateAttestationSignature(reached) ==
    LET layers == Verified(policy.checkOpts, Content(a.reference).attestations)
        parsed == Before(layers, {i \in DOMAIN layers : ~AttestationParses(layers[i])})
        ok == reached /\ parsed = layers
    IN
    /\ at = "attestation"
    /\ \E order \in MapOrders(parsed) :
         a' = IF ~reached THEN a
              ELSE [a EXCEPT !.attestations =
                      [i \in DOMAIN parsed |-> Provenance(parsed[i], order[i])]]
    /\ out' = [out EXCEPT !.attestation = IF ok THEN "pass" ELSE "fail"]
    /\ at' = IF ok THEN "syntax" ELSE "done"
    /\ UNCHANGED <<quiet, defaults, input>>

\* Every statement with a known schema is checked against it
SyntaxValid(atts) ==
    /\ atts # <<>>
    /\ \A i \in DOMAIN atts :
         atts[i].statement.predicateType = "slsa" => atts[i].statement.conforms

ValidateAttestationSyntax ==
    /\ at = "syntax"
    /\ out' = [out EXCEPT !.signatures = a.signatures, !.attestations = a.attestations,
                          !.syntax = IF SyntaxValid(a.attestations) THEN "pass" ELSE "fail"]
    /\ at' = "input"
    /\ UNCHANGED <<quiet, defaults, a, input>>

NoAttestations ==
    /\ at = "input" /\ a.attestations = <<>>
    /\ out' = [out EXCEPT !.policy = "none"]
    /\ at' = "done"
    /\ UNCHANGED <<quiet, defaults, a, input>>

\* WriteInputFile: the parent is there when its reference is
WriteInputFile ==
    /\ at = "input" /\ a.attestations # <<>>
    /\ input' = [written |-> TRUE, ref |-> a.reference, signatures |-> a.signatures,
                 attestations |-> a.attestations, config |-> a.config, files |-> a.files,
                 parent |-> a.parent, parentConfig |-> a.parentConfig]
    /\ at' = "evaluate"
    /\ UNCHANGED <<quiet, defaults, a, out>>

WriteInputFails ==
    /\ at = "input" /\ a.attestations # <<>>
    /\ ReturnError
    /\ UNCHANGED <<quiet, defaults, a, input>>

-----------------------------------------------------------------------------
(* The builtins.                                                           *)

Failed(why) == [success |-> FALSE, errors |-> {why}, found |-> <<>>]

\* What does not parse is left out and makes the result a failure
Result(layers, values) ==
    IF Len(values) = Len(layers)
    THEN [success |-> TRUE, errors |-> {}, found |-> values]
    ELSE [success |-> FALSE, errors |-> {"parse"}, found |-> values]

signatureResult(layers, order) ==
    LET good == Kept([i \in DOMAIN layers |-> i], {i \in DOMAIN layers : SignatureParses(layers[i])})
    IN  Result(layers, [i \in DOMAIN good |-> NewEntitySignature(layers[good[i]], order[good[i]])])

attestationResult(layers, order) ==
    LET good == Kept([i \in DOMAIN layers |-> i], {i \in DOMAIN layers : ProvenanceParses(layers[i])})
    IN  Result(layers, [i \in DOMAIN good |-> Provenance(layers[good[i]], order[good[i]])])

\* ref and opts are looked at before the registry is
BadCall(ref, term) == ref \notin Digests \/ ~OptsParse(term)
Refusal(ref, term) == Failed(IF ref \notin Digests THEN "ref" ELSE "opts")

sigstoreVerifyImage(ref, term, reached, order) ==
    LET layers == Verified(parseCheckOpts(term), Content(ref).signatures)
    IN  CASE ~reached             -> Failed("request")
          [] reached /\ layers = <<>> -> Failed("unmatched")
          [] OTHER -> signatureResult(layers, order)

sigstoreVerifyAttestation(ref, term, reached, order) ==
    LET layers == Verified(parseCheckOpts(term), Content(ref).attestations)
    IN  CASE ~reached             -> Failed("request")
          [] reached /\ layers = <<>> -> Failed("unmatched")
          [] OTHER -> attestationResult(layers, order)

\* The references and the options that the rules use
CallRefs == Digests \cup {Tag}
CallTerms == {defaults} \cup RuleTerms

Asked == {answers[i].call : i \in DOMAIN answers}

\* A call that the evaluation has not made yet
Call(builtin, ref, term, reached) ==
    LET c == <<builtin, ref, term>>
        layers == IF builtin = "image" THEN Verified(parseCheckOpts(term), Content(ref).signatures)
                  ELSE Verified(parseCheckOpts(term), Content(ref).attestations)
        Answer(order) == IF builtin = "image" THEN sigstoreVerifyImage(ref, term, reached, order)
                         ELSE sigstoreVerifyAttestation(ref, term, reached, order)
    IN
    /\ at = "evaluate" /\ Len(answers) < MaxCalls
    /\ c \notin Asked
    /\ IF BadCall(ref, term)
       THEN answers' = Append(answers, [call |-> c, answer |-> Refusal(ref, term)])
       ELSE \E order \in MapOrders(layers) :
              answers' = Append(answers, [call |-> c, answer |-> Answer(order)])
    /\ UNCHANGED <<given, tag, policy, defaults, at, a, out, input>>

\* Evaluate returns and SetPolicyCheck is called
Evaluated ==
    /\ at = "evaluate"
    /\ out' = [out EXCEPT !.policy = "evaluated"]
    /\ at' = "done"
    /\ UNCHANGED <<quiet, defaults, a, input>>

EvaluateFails ==
    /\ at = "evaluate"
    /\ ReturnError
    /\ UNCHANGED <<quiet, defaults, a, input>>

-----------------------------------------------------------------------------
Validate ==
    \/ CreateConfig \/ CreateConfigFails \/ NewApplicationSnapshotImage
    \/ \E found \in BOOLEAN :
         \/ ValidateImageAccess(found) \/ FetchImageConfig(found) \/ FetchImageFiles(found)
         \/ ValidateImageSignature(found) \/ ValidateAttestationSignature(found)
    \/ resolveAndSetImageUrl \/ ResolveFails
    \/ \E found, config \in BOOLEAN : FetchParentImageConfig(found, config)
    \/ ValidateAttestationSyntax \/ NoAttestations \/ WriteInputFile \/ WriteInputFails
    \/ \E b \in {"image", "attestation"}, ref \in CallRefs, reached \in BOOLEAN :
         \E term \in CallTerms : Call(b, ref, term, reached)
    \/ Evaluated \/ EvaluateFails

Next == Validate \/ \E d \in Digests : MoveTag(d)

Spec == Init /\ [][Next]_vars

-----------------------------------------------------------------------------
(* Properties.                                                             *)

\* Types of the state.
TypeOK ==
    /\ at \in {"config", "new", "access", "resolve", "fetch", "parent", "files", "signature",
               "attestation", "syntax", "input", "evaluate", "done", "error"}
    /\ tag \in Digests
    /\ a.reference \in Digests \cup {Tag, Nothing}
    /\ at \notin {"config", "new", "error"} /\ policy.kind = "image" => a.reference # Nothing
    /\ \A check \in {"access", "signature", "attestation", "syntax"} :
         out[check] \in {Empty, "pass", "fail"}
    /\ out.policy \in {Empty, "none", "evaluated"}
    /\ input.written \in BOOLEAN
    /\ Len(answers) <= MaxCalls
    /\ \A i \in DOMAIN answers : answers[i].answer.success \in BOOLEAN

\* What a signature says apart from the order of the alternative names.
PlainMetadata(m) == IF m = <<>> THEN {} ELSE ToSet(m.san)
Plain(es) == [es EXCEPT !.metadata = PlainMetadata(@)]
PlainSignatures(s) == [i \in DOMAIN s |-> Plain(s[i])]
PlainAttestations(s) ==
    [i \in DOMAIN s |-> [s[i] EXCEPT !.signatures = PlainSignatures(@)]]

AnyOrder == CHOOSE o \in Orders : TRUE
SignaturesOf(layers) == [i \in DOMAIN layers |-> Plain(NewEntitySignature(layers[i], AnyOrder))]

\* Everything that the rules see of an image belongs to one image, the one whose
\* digest the report names, however often the tag moves while its parts are
\* fetched (validate.go:152 "the image is only accessed by digest from this point
\* forward"); a part that could not be fetched is left out, never replaced.
OneImage ==
    input.written =>
        /\ input.ref \in Digests
        /\ at # "error" => input.ref = out.imageUrl
        /\ LET image == world[input.ref] IN
            /\ input.config \in {image.config, Nothing}
            /\ input.files \in {image.files, Nothing}
            /\ input.parent \in {image.parent, Nothing}
            /\ input.parentConfig # Nothing =>
                 input.parentConfig = world[image.parent].config
            /\ \A i \in DOMAIN input.attestations :
                 \E j \in DOMAIN image.attestations :
                   input.attestations[i].statement = image.attestations[j].statement

\* A check that passed speaks for all the layers that verify: each of them is
\* parsed and shown, in order, so a rule that looks at all attestations looks
\* at all that were verified; none that the policy does not accept is shown.
PassedMeansAll ==
    out.imageUrl \in Digests /\ out.syntax # Empty =>
        LET image == world[out.imageUrl]
            sigs == Verified(policy.checkOpts, image.signatures)
            atts == Verified(policy.checkOpts, image.attestations)
        IN  /\ Len(out.attestations) = Len(atts)
            /\ \A i \in DOMAIN atts : out.attestations[i].statement = atts[i].statement
            /\ out.signature = "pass" =>
                 sigs # <<>> /\ PlainSignatures(out.signatures) = SignaturesOf(sigs)
            /\ IsPrefix(PlainSignatures(out.signatures), SignaturesOf(sigs))

\* The syntax check passes only for attestations that are there and whose SLSA
\* statements all conform to the schema.
SyntaxSound ==
    out.syntax = "pass" =>
        /\ out.attestations # <<>>
        /\ \A i \in DOMAIN out.attestations :
             LET s == out.attestations[i].statement
             IN  s.predicateType = "slsa" => s.slsa /\ s.conforms

\* The signers of an attestation stay apart: when the layer itself names none,
\* the signatures shown are those of its envelope, one by one.
SignersKept ==
    out.syntax # Empty =>
        LET atts == Verified(policy.checkOpts, world[out.imageUrl].attestations)
        IN  \A i \in DOMAIN atts :
              LET shown == out.attestations[i].signatures
              IN  /\ Len(shown) = Len(atts[i].envelope)
                  /\ atts[i].sig = Empty /\ atts[i].cert = NoCert =>
                       \A j \in DOMAIN shown :
                         /\ shown[j].sig = atts[i].envelope[j].sig
                         /\ shown[j].keyid = atts[i].envelope[j].keyid

Answered(builtin, ref, term) ==
    {answers[i].answer : i \in {j \in DOMAIN answers : answers[j].call = <<builtin, ref, term>>}}

\* The builtins and the checks agree. With the default options, for the image that
\* is validated, and if the registry answers, verify_image finds what the signature
\* check found and is successful if and only if that had passed (or could not reach
\* the registry); verify_attestation accepts whatever the attestation check accepts.
BuiltinsAgree ==
    input.written /\ at # "error" =>
        /\ \A r \in Answered("image", input.ref, defaults) :
             /\ out.signature = "pass" /\ "request" \notin r.errors =>
                  r.success /\ PlainSignatures(r.found) = PlainSignatures(out.signatures)
             /\ r.success /\ out.signatures # <<>> => out.signature = "pass"
        /\ \A r \in Answered("attestation", input.ref, defaults) :
             "request" \notin r.errors =>
               r.success /\ PlainAttestations(r.found) = PlainAttestations(out.attestations)

\* A builtin is successful only if it verified something against something: a key
\* or a whole identity that the options name, by which every result was signed.
BuiltinDefinite ==
    \A i \in DOMAIN answers :
        LET r == answers[i].answer
            o == optionsFromTerm(answers[i].call[3])
            layers == IF answers[i].call[1] = "image"
                      THEN world[answers[i].call[2]].signatures
                      ELSE world[answers[i].call[2]].attestations
        IN  r.success =>
              /\ r.found # <<>>
              /\ o.key # Empty \/ (o.identity.issuer # Empty /\ o.identity.subject # Empty)
              /\ Len(r.found) <= Cardinality({j \in DOMAIN layers :
                    IF o.key # Empty THEN layers[j].by.key = Material[o.key]
                    ELSE layers[j].by.identity = o.identity})

\* The signature, attestation and syntax checks speak for everything that was verified,
\* and show it as it was signed.
ChecksSound == PassedMeansAll /\ SyntaxSound /\ SignersKept

\* The builtins verify what the checks verify, and, since cosign makes it an error when no
\* layer matches, never nothing.
BuiltinsSound == BuiltinsAgree /\ BuiltinDefinite
=============================================================================
