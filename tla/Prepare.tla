------------------------------ MODULE Prepare ------------------------------
(***************************************************************************)
(* PreRunE of `ec validate image`: the snapshot (SnapshotInput), then the  *)
(* policy: where its text comes from (internal/validate/helpers.go), what  *)
(* NewPolicy makes of it and of the flags (internal/policy/policy.go), the *)
(* download of its sources, and the rule data that --extra-rule-data adds. *)
(* Problems are joined, and RunE only starts when there are none.          *)
(***************************************************************************)
EXTENDS SnapshotInput

CONSTANTS
    PolicyRefs,   \* what --policy may be
    OptionSets,   \* the other flags of the command that shape the policy
    ExtraData     \* --extra-rule-data, in order: a set of sequences

ASSUME PrepareAssumption ==
    /\ \A ref \in PolicyRefs :
         /\ ref.form \in {"json", "git", "http", "file", "other"}
         /\ ref.text.kind \in {"empty", "object", "name"}
         /\ ref.text.kind = "object" => ref.text.wrapped \in BOOLEAN /\ ref.text.apiVersion \in BOOLEAN
         /\ ref.text.kind # "empty" => Len(ref.text.spec.groups) \in Nat
         /\ ref.text.kind # "empty" => DOMAIN ref.text.spec.groups = 1 .. Len(ref.text.spec.groups)
         /\ ref.form = "file" /\ ~ref.ext => ref.text.kind # "empty"
    /\ \A o \in OptionSets : o.time \in {"now", "date", "bad"}
    /\ \A e \in ExtraData : Len(e) \in Nat /\ DOMAIN e = 1 .. Len(e)

VARIABLES
    spec,        \* data.spec is set
    asked,       \* the flags about the policy: ref, options, extra
    text,        \* data.policyConfiguration after GetPolicyConfig
    policy,      \* the policy object under construction
    groups,      \* the source groups in its spec
    group,       \* the one being downloaded or changed
    extra,       \* the item of --extra-rule-data being added to it
    problems     \* allErrors

policyVars == <<asked, text, policy, groups, group, extra>>
vars == <<snapVars, spec, policyVars, problems>>

NoText == [kind |-> "none"]
NoIdentity == [issuer |-> Empty, subject |-> Empty]
EmptySpec == [key |-> Empty, identity |-> NoIdentity, rekor |-> Empty, groups |-> <<>>]
NoPolicy == [key |-> Empty, rekor |-> Empty, identity |-> NoIdentity, verifier |-> "none",
             ignoreRekor |-> FALSE, loaded |-> FALSE]
NotAsked == [asked |-> FALSE]

-----------------------------------------------------------------------------
(* The text of the policy.                                                 *)

\* ReadFile refuses an empty file, "as that would cause a false success"
ReadFile(t) == [ok |-> t.kind # "empty", text |-> t]

\* GetPolicyConfig: JSON as it is, a git or https URL downloaded, a file with
\* the right extension read, anything else as it is
GetPolicyConfig(ref) ==
    CASE ref.form = "json"                                  -> [ok |-> TRUE, text |-> ref.text]
      [] ref.form \in {"git", "http"} /\ ~ref.downloads     -> [ok |-> FALSE, text |-> NoText]
      [] ref.form \in {"git", "http"} /\ ref.downloads      -> ReadFile(ref.text)
      [] ref.form = "file" /\ ref.ext                       -> ReadFile(ref.text)
      [] OTHER                                              -> [ok |-> TRUE, text |-> ref.text]

\* validatePolicyConfig: the schema, applied to the value of "spec" if there is one; it
\* knows no "apiVersion"
validatePolicyConfig(t) == t.conformant /\ (t.wrapped \/ ~t.apiVersion)

\* An object with an apiVersion is a resource and its "spec" is the policy, any other is the
\* policy; a field that has no place in it is dropped
SpecInObject(t) == IF t.apiVersion = t.wrapped THEN t.spec ELSE EmptySpec

\* loadPolicy: nothing, an object (a resource or its spec), or the name of a
\* resource in the cluster
loadPolicy(t) ==
    CASE t.kind = "empty"  -> [ok |-> TRUE, spec |-> EmptySpec]
      [] t.kind = "object" -> [ok |-> t.parses /\ validatePolicyConfig(t), spec |-> SpecInObject(t)]
      [] t.kind = "name"   -> [ok |-> FetchResource(t.ref), spec |-> t.spec]

\* validateIdentity
validateIdentity(id) == id.issuer # Empty /\ id.subject # Empty

\* A flag replaces the attribute of the policy
Flag(flag, own) == IF flag # Empty THEN flag ELSE own

\* Mutant: each field of the identity comes from the flag that is set
IdentityFieldByField(o, s) ==
    [issuer |-> Flag(o.identity.issuer, s.identity.issuer),
     subject |-> Flag(o.identity.subject, s.identity.subject)]

\* The identity is taken as a whole from the flags or as a whole from the policy
IdentityOf(o, s) == IF o.identity # NoIdentity THEN o.identity ELSE s.identity

-----------------------------------------------------------------------------
Init ==
    /\ SnapInit
    /\ spec = FALSE
    /\ asked = NotAsked
    /\ text = NoText
    /\ policy = NoPolicy
    /\ groups = <<>> /\ group = 0 /\ extra = 0
    /\ problems = {}

Refuse(p, next) ==
    /\ problems' = problems \cup {p}
    /\ at' = next

\* DetermineInputSpec, one of its steps
Determine ==
    /\ DetermineInputSpec
    /\ UNCHANGED <<spec, policyVars, problems>>

\* Its error is kept and the preparation goes on
InputReturns(ref, o, e) ==
    /\ at \in {"determined", "failed"}
    /\ spec' = (at = "determined")
    /\ problems' = IF at = "failed" THEN problems \cup {"input"} ELSE problems
    /\ asked' = [asked |-> TRUE, ref |-> ref, options |-> o, extra |-> e]
    /\ at' = "config"
    /\ components' = <<>> /\ exp' = NoExpansion
    /\ UNCHANGED <<inputVars, source, item, worker, got, arrived, writing, crashed, text, policy, groups, group, extra>>

quietVars == <<inputVars, source, item, components, worker, got, arrived, raceVars, spec, asked>>

\* GetPolicyConfig fails: PreRunE returns at once, with the errors so far
ConfigFails ==
    /\ at = "config" /\ ~GetPolicyConfig(asked.ref).ok
    /\ Refuse("config", "refused")
    /\ UNCHANGED <<quietVars, text, policy, groups, group, extra>>

Config ==
    /\ at = "config" /\ GetPolicyConfig(asked.ref).ok
    /\ text' = GetPolicyConfig(asked.ref).text
    /\ at' = "load"
    /\ UNCHANGED <<quietVars, policy, groups, group, extra, problems>>

LoadFails ==
    /\ at = "load" /\ ~loadPolicy(text).ok
    /\ Refuse("policy", "refused")
    /\ UNCHANGED <<quietVars, text, policy, groups, group, extra>>

\* The flags override the key and the Rekor URL; without a key the identity is
\* determined
Load ==
    /\ at = "load" /\ loadPolicy(text).ok
    /\ LET o == asked.options
           s == loadPolicy(text).spec
           key == Flag(o.key, s.key)
       IN  /\ policy' = [policy EXCEPT
                            !.loaded = TRUE, !.key = key, !.rekor = Flag(o.rekor, s.rekor),
                            !.ignoreRekor = o.ignoreRekor,
                            !.identity = IF key = Empty THEN IdentityOf(o, s) ELSE NoIdentity]
           /\ groups' = s.groups
    /\ at' = "check"
    /\ UNCHANGED <<quietVars, text, group, extra, problems>>

Keyless == policy.key = Empty

\* validateIdentity, parseEffectiveTime or checkOpts fails: an identity that is
\* not whole, a date that is none, a key that cannot be read, no trust root
CheckFails ==
    /\ at = "check"
    /\ Refuse("policy", "refused")
    /\ UNCHANGED <<quietVars, text, policy, groups, group, extra>>

Check ==
    /\ at = "check" /\ asked.options.time # "bad"
    /\ Keyless => validateIdentity(policy.identity)
    /\ policy' = [policy EXCEPT !.verifier = IF Keyless THEN "identity" ELSE "key"]
    /\ at' = "download" /\ group' = 1
    /\ UNCHANGED <<quietVars, text, groups, extra, problems>>

\* PreProcessPolicy: the sources of a group, in detail in PolicySource
Download ==
    /\ at = "download" /\ group <= Len(groups)
    /\ group' = group + 1
    /\ UNCHANGED <<quietVars, at, text, policy, groups, extra, problems>>

DownloadFails ==
    /\ at = "download" /\ group <= Len(groups)
    /\ Refuse("source", "refused")
    /\ UNCHANGED <<quietVars, text, policy, groups, group, extra>>

Downloaded ==
    /\ at = "download" /\ group = Len(groups) + 1
    /\ at' = "extra" /\ group' = 1 /\ extra' = 1
    /\ UNCHANGED <<quietVars, text, policy, groups, problems>>

\* An item without "=" or whose value cannot be loaded
BadItem(e) == ~e.assigns \/ ~e.loads

Adding == at = "extra" /\ asked.extra # <<>> /\ group <= Len(groups)

\* A group whose own rule data is no JSON object is left as it is
SkipGroup ==
    /\ Adding /\ groups[group].broken
    /\ problems' = problems \cup {"ruledata"}
    /\ group' = group + 1
    /\ UNCHANGED <<quietVars, at, text, policy, groups, extra>>

\* The items, one after the other, over the rule data of the group
AddItem ==
    /\ Adding /\ ~groups[group].broken /\ extra <= Len(asked.extra)
    /\ LET e == asked.extra[extra]
           g == groups[group]
       IN  IF BadItem(e) THEN problems' = problems \cup {"extra"} /\ UNCHANGED groups
           ELSE /\ groups' = [groups EXCEPT ![group] =
                                [ruleData |-> Put(g.ruleData, e.key, e.value), broken |-> g.broken]]
                /\ UNCHANGED problems
    /\ extra' = extra + 1
    /\ UNCHANGED <<quietVars, at, text, policy, group>>

GroupDone ==
    /\ Adding /\ ~groups[group].broken /\ extra = Len(asked.extra) + 1
    /\ group' = group + 1 /\ extra' = 1
    /\ UNCHANGED <<quietVars, at, text, policy, groups, problems>>

\* PreRunE returns; RunE starts when there is no error
PreRunReturns ==
    /\ at = "extra" /\ (asked.extra = <<>> \/ group = Len(groups) + 1)
    /\ at' = IF problems = {} THEN "running" ELSE "refused"
    /\ UNCHANGED <<quietVars, text, policy, groups, group, extra, problems>>

Over ==
    /\ at \in {"running", "refused"} \/ crashed
    /\ UNCHANGED vars

PreRunE ==
    \/ Determine
    \/ \E ref \in PolicyRefs, o \in OptionSets, e \in ExtraData : InputReturns(ref, o, e)
    \/ ConfigFails \/ Config \/ LoadFails \/ Load \/ CheckFails \/ Check
    \/ Download \/ DownloadFails \/ Downloaded
    \/ SkipGroup \/ AddItem \/ GroupDone \/ PreRunReturns

Next == PreRunE \/ Over

Spec == Init /\ [][Next]_vars

\* Goroutines are scheduled and every request to a registry, a cluster or a
\* source ends (under --timeout)
FairSpec == Spec /\ WF_vars(PreRunE)

-----------------------------------------------------------------------------
(* Properties.                                                             *)

\* Types of the state.
TypeOK ==
    /\ at \in {"sources", "expand", "determined", "failed", "config", "load", "check",
               "download", "extra", "running", "refused"}
    /\ source \in 1 .. Len(Sources) + 1
    /\ \A i \in DOMAIN components : components[i].image \in Images
    /\ DOMAIN worker = DOMAIN writing /\ Len(worker) \in {0, Len(components)}
    /\ \A i \in DOMAIN worker :
         /\ {got[i].head, got[i].index} \subseteq Digests \cup {NoDigest}
         /\ worker[i].child > 0 => worker[i].child <= Len(Parts(i))
    /\ crashed \in BOOLEAN /\ spec \in BOOLEAN
    /\ group \in Nat
    /\ problems \subseteq {"input", "config", "policy", "source", "ruledata", "extra"}

\* A "spec" without an apiVersion beside it: the schema is applied to the "spec"
\* (policy.go:552), the policy is read from around it (policy.go:307)
Misread(t) == t.kind = "object" /\ t.wrapped /\ ~t.apiVersion

\* What the user wrote, and with what a misread text is replaced
Written(t) == IF t.kind = "empty" THEN EmptySpec ELSE t.spec
Meant(t) == IF Misread(t) THEN EmptySpec ELSE Written(t)

\* An empty file, or an empty download, never becomes the empty policy that every
\* image passes (helpers.go:80 "that would cause a false success"): validation
\* has as many source groups as the user wrote, and a policy without any only
\* when he wrote none. The one exception is the misread text.
NoFalseSuccess ==
    at = "running" =>
        /\ asked.ref.text.kind = "empty" => asked.ref.form \in {"json", "other"}
        /\ ~Misread(asked.ref.text) => Len(groups) = Len(Written(asked.ref.text).groups)

\* Signatures are always verified against something definite: the key of the
\* flags, else the key of the policy, else one whole identity that comes from
\* one place; an issuer of the flags is never combined with a subject of the
\* policy.
VerifiesAsAsked ==
    at = "running" =>
        LET o == asked.options
            s == Meant(asked.ref.text)
        IN  IF o.key # Empty \/ s.key # Empty
            THEN /\ policy.verifier = "key"
                 /\ policy.key = (IF o.key # Empty THEN o.key ELSE s.key)
            ELSE /\ policy.verifier = "identity"
                 /\ policy.identity \in {o.identity, s.identity}
                 /\ policy.identity.issuer # Empty /\ policy.identity.subject # Empty

\* Validation starts only with a snapshot and a policy, and an error of the
\* snapshot is still reported when the policy fails as well (errors.Join in
\* PreRunE): the user sees both at once.
NothingHidden ==
    /\ at = "running" => spec /\ policy.loaded /\ problems = {}
    /\ at = "refused" => problems # {} /\ (~spec => "input" \in problems)

\* Every source group is evaluated with all of --extra-rule-data, the last
\* assignment of a key winning, and with the rest of its own rule data.
RuleDataReachesAll ==
    at = "running" =>
        \A i \in DOMAIN groups :
            LET before == Meant(asked.ref.text).groups[i].ruleData
                after == groups[i].ruleData
                items == asked.extra
            IN  /\ \A j \in DOMAIN items :
                     (\A k \in DOMAIN items : items[k].key = items[j].key => k <= j)
                        => after[items[j].key] = items[j].value
                /\ \A key \in DOMAIN before :
                     (\A k \in DOMAIN items : items[k].key # key)
                        => after[key] = before[key]

\* The preparation ends: no goroutine of the group is stuck and the channels
\* are closed, with any IMAGE_INDEX_WORKERS but 0 (with 0, g.Go never returns:
\* input.go:276).
PreparationEnds ==
    limit # 0 ~> (crashed \/ at \in {"running", "refused"})

\* Validation starts with the policy that was asked for, but for the misread text: with all
\* its source groups, its key or identity and the rule data of the flags, or it does not
\* start and says why.
PolicyAsAsked == NoFalseSuccess /\ VerifiesAsAsked /\ NothingHidden /\ RuleDataReachesAll
=============================================================================
