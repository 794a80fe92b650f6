--------------------------- MODULE ValidateImages ---------------------------
(***************************************************************************)
(* The `ec validate image` command: RunE of cmd/validate/image.go with its *)
(* worker pool, the per-component pipeline ValidateImage of                *)
(* internal/image/validate.go, and the one policy object                   *)
(* (internal/policy/policy.go) that every worker shares.                   *)
(*                                                                         *)
(* What the registry, the signatures and the policies would answer about a *)
(* component is its "world": a record chosen once, in Init.  The model     *)
(* keeps the control of the code and abstracts a check to the error it     *)
(* does or does not return.                                                *)
(***************************************************************************)
EXTENDS Integers, FiniteSets

CONSTANTS
  NumComponents,   \* len(data.spec.Components)
  Workers,         \* data.workers, the --workers flag
  NumEvaluators,   \* one evaluator per source group of the policy
  ChoosenTime,     \* the --effective-time flag
  Times,           \* the instants that occur in the run
  Clock,           \* what time.Now() reads when the policy is made
  FixedTime,       \* the instant that a date given as ChoosenTime denotes
  Worlds           \* the possible answers about one component

\* A nil *time.Time, and the build time of an attestation that has none.
NoTime == -1

Components == 1..NumComponents
Evaluators == 1..NumEvaluators

WorldType ==
  [ ref: BOOLEAN,        \* the reference parses, the policy has check options
    access: BOOLEAN,     \* the registry answers the HEAD request
    resolve: BOOLEAN,    \* the reference resolves to a digest
    sig: BOOLEAN,        \* the image signature verifies
    attSig: BOOLEAN,     \* the attestation signatures verify and parse
    syntax: BOOLEAN,     \* every statement satisfies the schema of its type
    atts: SUBSET (Times \cup {NoTime}),   \* the attestations, by build time
    input: BOOLEAN,      \* the input file can be written
    errs: SUBSET Evaluators,              \* evaluators that return an error
    fails: SUBSET (Evaluators \X Times) ] \* <<e, t>>: e judged at t reports a failure

ASSUME CountAssumption ==
  NumComponents \in Nat /\ NumEvaluators \in Nat /\ Workers \in Int

ASSUME TimeAssumption ==
  /\ Times \subseteq Nat
  /\ Clock \in Times
  /\ FixedTime \in Times
  /\ \A S \in SUBSET Times : S # {} => \E t \in S : \A u \in S : u <= t

ASSUME FlagAssumption ==
  ChoosenTime \in {"now", "NOW", "attestation", "ATTESTATION", "date"}

ASSUME WorldAssumption == Worlds \subseteq WorldType

VARIABLES
  world,          \* input: the answers about each component
  strict,         \* input: the --strict flag
  main,           \* where RunE stands
  evaluators,     \* how many evaluators exist
  builtAt,        \* the effective time that each evaluator was built with
  sent,           \* jobs sent by main
  jobsClosed,     \* close(jobs) was called
  worker,         \* each goroutine of the pool: "unborn", "running" or "done"
  cur,            \* the component that a goroutine holds, 0 when none
  stage,          \* where each component is
  out,            \* the Output and the error of each component's validation
  next,           \* the next evaluator of a component that is being evaluated
  effectiveTime,  \* the policy's effectiveTime, shared by all goroutines
  received,       \* results that main has received
  resultsClosed,  \* close(results) was called
  report,         \* the report, once there is one
  exit,           \* what RunE returned
  judged          \* history: when each evaluator judged each component

inputs    == <<world, strict>>
mainVars  == <<main, evaluators, builtAt, sent, jobsClosed, received,
               resultsClosed, report, exit>>
poolVars  == <<worker, cur>>
imageVars == <<out, next, judged>>
vars == <<inputs, mainVars, poolVars, stage, imageVars, effectiveTime>>

-----------------------------------------------------------------------------
(* The policy's notion of time *)

\* Both keywords are recognised whatever their case.
parseEffectiveTime ==
  CASE ChoosenTime \in {"now", "NOW"} -> Clock
    [] ChoosenTime \in {"attestation", "ATTESTATION"} -> NoTime
    [] OTHER -> FixedTime

\* What EffectiveTime can return.  It has a value receiver: a nil time reads as the
\* clock, and since the reading is not kept the next call reads the clock again.
EffectiveTime == IF effectiveTime = NoTime THEN {t \in Times : t >= Clock} ELSE {effectiveTime}

\* Mutant: the attestation's time is taken whatever the flag says.
AttestationTimeUnguarded(t) == effectiveTime' = t

\* AttestationTime compares the flag exactly.
AttestationTime(t) ==
  effectiveTime' = IF ChoosenTime = "attestation" THEN t ELSE effectiveTime

BuildTimes(c) == world[c].atts \ {NoTime}

\* The youngest build time among the attestations, NoTime when none has one.
determineAttestationTime(c) ==
  IF BuildTimes(c) = {} THEN NoTime
  ELSE CHOOSE t \in BuildTimes(c) : \A u \in BuildTimes(c) : u <= t

-----------------------------------------------------------------------------
(* The Output of a component *)

Checks == {"access", "signature", "attestation", "syntax", "policy"}

Outputs == [err: BOOLEAN, checks: [Checks -> {"unset", "pass", "fail"}]]

NewOutput == [err |-> FALSE, checks |-> [k \in Checks |-> "unset"]]

Status(passed) == IF passed THEN "pass" ELSE "fail"

\* Mutant: the image signature check is left out of the violations.
ViolationsButSignature(o) == {k \in Checks \ {"signature"} : o.checks[k] = "fail"}

\* A check that was not made contributes nothing.
Violations(o) == {k \in Checks : o.checks[k] = "fail"}

\* component.Success of the worker.
Success(o) == ~o.err /\ Violations(o) = {}

-----------------------------------------------------------------------------
(* RunE before the pool *)

NoReport == [created |-> FALSE, written |-> FALSE, components |-> {},
             success |-> FALSE, time |-> NoTime]

Init ==
  /\ world \in [Components -> Worlds]
  /\ strict \in BOOLEAN
  /\ main = "evaluators"
  /\ evaluators = 0
  /\ builtAt = [e \in Evaluators |-> NoTime]
  /\ sent = 0
  /\ jobsClosed = FALSE
  /\ worker = [w \in 0..Workers |-> "unborn"]
  /\ cur = [w \in 0..Workers |-> 0]
  /\ stage = [c \in Components |-> "snapshot"]
  /\ out = [c \in Components |-> NewOutput]
  /\ next = [c \in Components |-> 1]
  /\ effectiveTime = parseEffectiveTime
  /\ received = 0
  /\ resultsClosed = FALSE
  /\ report = NoReport
  /\ exit = "running"
  /\ judged = [c \in Components |-> [e \in Evaluators |-> NoTime]]

\* RunE returns; its deferred calls destroy the evaluators.
Return(status) ==
  /\ main' = "returned"
  /\ exit' = status

\* NewConftestEvaluatorWithNamespace for the next source group.  The volatile
\* configuration and the data given to the rules are fixed here.
CreateEvaluator ==
  /\ main = "evaluators"
  /\ evaluators < NumEvaluators
  /\ evaluators' = evaluators + 1
  /\ \E t \in EffectiveTime : builtAt' = [builtAt EXCEPT ![evaluators + 1] = t]
  /\ UNCHANGED <<inputs, main, sent, jobsClosed, received, resultsClosed, report,
                 exit, poolVars, stage, imageVars, effectiveTime>>

CreateEvaluatorFails ==
  /\ main = "evaluators"
  /\ evaluators < NumEvaluators
  /\ Return("error")
  /\ UNCHANGED <<inputs, evaluators, builtAt, sent, jobsClosed, received,
                 resultsClosed, report, poolVars, stage, imageVars, effectiveTime>>

\* for i := 0; i <= numWorkers: one goroutine more than the flag asks for.
StartWorkers ==
  /\ main = "evaluators"
  /\ evaluators = NumEvaluators
  /\ main' = "queue"
  /\ worker' = [w \in 0..Workers |-> "running"]
  /\ UNCHANGED <<inputs, evaluators, builtAt, sent, jobsClosed, received,
                 resultsClosed, report, exit, cur, stage, imageVars, effectiveTime>>

QueueJob ==
  /\ main = "queue"
  /\ sent < NumComponents
  /\ sent' = sent + 1
  /\ stage' = [stage EXCEPT ![sent + 1] = "jobs"]
  /\ UNCHANGED <<inputs, main, evaluators, builtAt, jobsClosed, received,
                 resultsClosed, report, exit, poolVars, imageVars, effectiveTime>>

CloseJobs ==
  /\ main = "queue"
  /\ sent = NumComponents
  /\ jobsClosed' = TRUE
  /\ main' = "collect"
  /\ UNCHANGED <<inputs, evaluators, builtAt, sent, received, resultsClosed, report,
                 exit, poolVars, stage, imageVars, effectiveTime>>

-----------------------------------------------------------------------------
(* A goroutine of the pool *)

\* comp := <-jobs; the channel delivers in the order of the snapshot.
ReceiveJob(w) ==
  /\ worker[w] = "running"
  /\ cur[w] = 0
  /\ \E c \in Components :
       /\ stage[c] = "jobs"
       /\ \A d \in 1..(c - 1) : stage[d] # "jobs"
       /\ cur' = [cur EXCEPT ![w] = c]
       /\ stage' = [stage EXCEPT ![c] = "access"]
  /\ UNCHANGED <<inputs, mainVars, worker, imageVars, effectiveTime>>

WorkerDone(w) ==
  /\ worker[w] = "running"
  /\ cur[w] = 0
  /\ jobsClosed
  /\ \A c \in Components : stage[c] # "jobs"
  /\ worker' = [worker EXCEPT ![w] = "done"]
  /\ UNCHANGED <<inputs, mainVars, cur, stage, imageVars, effectiveTime>>

\* The goroutine holds c, which is at stage s.
At(w, c, s) == cur[w] = c /\ c # 0 /\ stage[c] = s

\* ValidateImage returns for c with the given Output.
Finish(c, o) ==
  /\ stage' = [stage EXCEPT ![c] = "send"]
  /\ out' = [out EXCEPT ![c] = o]

Failed(c) == [out[c] EXCEPT !.err = TRUE]

\* The image object, the access check and the resolution of the reference.
\* The fetches that follow only log their errors.
AccessImage(w) ==
  \E c \in Components :
    LET o == [out[c] EXCEPT !.checks["access"] = Status(world[c].access)]
    IN /\ At(w, c, "access")
       /\ \/ ~world[c].ref /\ Finish(c, Failed(c))
          \/ world[c].ref /\ ~world[c].access /\ Finish(c, o)
          \/ world[c].ref /\ world[c].access /\ ~world[c].resolve /\ Finish(c, Failed(c))
          \/ /\ world[c].ref /\ world[c].access /\ world[c].resolve
             /\ stage' = [stage EXCEPT ![c] = "verify"]
             /\ out' = [out EXCEPT ![c] = o]
       /\ UNCHANGED <<inputs, mainVars, poolVars, next, judged, effectiveTime>>

\* A missing image signature is recorded and the pipeline goes on; without
\* verified attestations it ends.  No attestation at all fails the syntax check.
VerifySignatures(w) ==
  \E c \in Components :
    LET o == [out[c] EXCEPT !.checks["signature"] = Status(world[c].sig),
                            !.checks["attestation"] = Status(world[c].attSig)]
    IN /\ At(w, c, "verify")
       /\ \/ ~world[c].attSig /\ Finish(c, o)
          \/ /\ world[c].attSig
             /\ stage' = [stage EXCEPT ![c] = "time"]
             /\ out' = [out EXCEPT ![c] = [o EXCEPT !.checks["syntax"] =
                  Status(world[c].syntax /\ world[c].atts # {})]]
       /\ UNCHANGED <<inputs, mainVars, poolVars, next, judged, effectiveTime>>

SetAttestationTime(w) ==
  \E c \in Components :
    /\ At(w, c, "time")
    /\ stage' = [stage EXCEPT ![c] = "input"]
    /\ IF determineAttestationTime(c) = NoTime
       THEN UNCHANGED effectiveTime
       ELSE AttestationTime(determineAttestationTime(c))
    /\ UNCHANGED <<inputs, mainVars, poolVars, imageVars>>

WriteInput(w) ==
  \E c \in Components :
    /\ At(w, c, "input")
    /\ \/ /\ world[c].atts = {}
          /\ Finish(c, [out[c] EXCEPT !.checks["policy"] = "fail"])
       \/ /\ world[c].atts # {} /\ ~world[c].input
          /\ Finish(c, Failed(c))
       \/ /\ world[c].atts # {} /\ world[c].input
          /\ stage' = [stage EXCEPT ![c] = "evaluate"]
          /\ UNCHANGED out
    /\ UNCHANGED <<inputs, mainVars, poolVars, next, judged, effectiveTime>>

\* One evaluator's Evaluate: it reads the policy's effective time after its run.
Evaluate(w) ==
  \E c \in Components :
    /\ At(w, c, "evaluate")
    /\ next[c] <= NumEvaluators
    /\ \/ /\ next[c] \in world[c].errs
          /\ Finish(c, Failed(c))
          /\ UNCHANGED <<next, judged>>
       \/ /\ next[c] \notin world[c].errs
          /\ \E t \in EffectiveTime : judged' = [judged EXCEPT ![c][next[c]] = t]
          /\ next' = [next EXCEPT ![c] = @ + 1]
          /\ UNCHANGED <<stage, out>>
    /\ UNCHANGED <<inputs, mainVars, poolVars, effectiveTime>>

\* SetPolicyCheck with the results of all evaluators.
SetPolicyCheck(w) ==
  \E c \in Components :
    /\ At(w, c, "evaluate")
    /\ next[c] > NumEvaluators
    /\ Finish(c, [out[c] EXCEPT !.checks["policy"] =
         Status(\A e \in Evaluators : <<e, judged[c][e]>> \notin world[c].fails)])
    /\ UNCHANGED <<inputs, mainVars, poolVars, next, judged, effectiveTime>>

\* Mutant: a worker that got an error goes on to the next job.
SendResultUnlessError(w) ==
  \E c \in Components :
    /\ At(w, c, "send")
    /\ stage' = [stage EXCEPT ![c] = IF out[c].err THEN "dropped" ELSE "results"]
    /\ cur' = [cur EXCEPT ![w] = 0]
    /\ UNCHANGED <<inputs, mainVars, worker, imageVars, effectiveTime>>

\* results <- res; the channel has room for every component.
SendResult(w) ==
  \E c \in Components :
    /\ At(w, c, "send")
    /\ stage' = [stage EXCEPT ![c] = "results"]
    /\ cur' = [cur EXCEPT ![w] = 0]
    /\ UNCHANGED <<inputs, mainVars, worker, imageVars, effectiveTime>>

-----------------------------------------------------------------------------
(* RunE after the pool was started *)

CollectResult ==
  /\ main = "collect"
  /\ received < NumComponents
  /\ \E c \in Components :
       /\ stage[c] = "results"
       /\ stage' = [stage EXCEPT ![c] = "received"]
  /\ received' = received + 1
  /\ UNCHANGED <<inputs, main, evaluators, builtAt, sent, jobsClosed, resultsClosed,
                 report, exit, poolVars, imageVars, effectiveTime>>

Received == {c \in Components : stage[c] = "received"}

\* allErrors of RunE, as the set of components it speaks of.
AllErrors == {c \in Received : out[c].err}

\* Mutant: RunE returns as soon as it has seen an error.
CloseResultsOnError ==
  /\ main = "collect"
  /\ received = NumComponents \/ AllErrors # {}
  /\ resultsClosed' = TRUE
  /\ IF AllErrors # {} THEN Return("error") ELSE main' = "report" /\ UNCHANGED exit
  /\ UNCHANGED <<inputs, evaluators, builtAt, sent, jobsClosed, received, report,
                 poolVars, stage, imageVars, effectiveTime>>

\* Mutant: the errors of the workers are forgotten.
CloseResultsIgnoringErrors ==
  /\ main = "collect"
  /\ received = NumComponents
  /\ resultsClosed' = TRUE
  /\ main' = "report"
  /\ UNCHANGED <<inputs, evaluators, builtAt, sent, jobsClosed, received, report,
                 exit, poolVars, stage, imageVars, effectiveTime>>

CloseResults ==
  /\ main = "collect"
  /\ received = NumComponents
  /\ resultsClosed' = TRUE
  /\ IF AllErrors # {} THEN Return("error") ELSE main' = "report" /\ UNCHANGED exit
  /\ UNCHANGED <<inputs, evaluators, builtAt, sent, jobsClosed, received, report,
                 poolVars, stage, imageVars, effectiveTime>>

\* NewReport reads the effective time once more.
NewReport ==
  /\ main = "report"
  /\ main' = "write"
  /\ \E t \in EffectiveTime :
       report' = [created |-> TRUE,
                  written |-> FALSE,
                  components |-> Received,
                  success |-> \A c \in Received : Success(out[c]),
                  time |-> t]
  /\ UNCHANGED <<inputs, evaluators, builtAt, sent, jobsClosed, received,
                 resultsClosed, exit, poolVars, stage, imageVars, effectiveTime>>

\* The key of the policy cannot be written as PEM.
NewReportFails ==
  /\ main = "report"
  /\ Return("error")
  /\ UNCHANGED <<inputs, evaluators, builtAt, sent, jobsClosed, received,
                 resultsClosed, report, poolVars, stage, imageVars, effectiveTime>>

\* WriteAll goes on with the other targets when one fails, so the report may have
\* been written when it returns an error.
WriteAll ==
  /\ main = "write"
  /\ \E errors \in BOOLEAN :
       IF errors THEN Return("error") ELSE main' = "vsa" /\ UNCHANGED exit
  /\ report' = [report EXCEPT !.written = TRUE]
  /\ UNCHANGED <<inputs, evaluators, builtAt, sent, jobsClosed, received,
                 resultsClosed, poolVars, stage, imageVars, effectiveTime>>

\* Only a signer that cannot be made ends the command: the other errors of the
\* VSA service are logged.
VSASignerFails ==
  /\ main = "vsa"
  /\ Return("error")
  /\ UNCHANGED <<inputs, evaluators, builtAt, sent, jobsClosed, received,
                 resultsClosed, report, poolVars, stage, imageVars, effectiveTime>>

Conclude ==
  /\ main = "vsa"
  /\ Return(IF strict /\ ~report.success THEN "failure" ELSE "ok")
  /\ UNCHANGED <<inputs, evaluators, builtAt, sent, jobsClosed, received,
                 resultsClosed, report, poolVars, stage, imageVars, effectiveTime>>

-----------------------------------------------------------------------------

MainStep ==
  \/ CreateEvaluator \/ CreateEvaluatorFails \/ StartWorkers
  \/ QueueJob \/ CloseJobs
  \/ CollectResult \/ CloseResults
  \/ NewReport \/ NewReportFails \/ WriteAll \/ VSASignerFails \/ Conclude

WorkerStep(w) ==
  \/ ReceiveJob(w) \/ AccessImage(w) \/ VerifySignatures(w) \/ SetAttestationTime(w)
  \/ WriteInput(w) \/ Evaluate(w) \/ SetPolicyCheck(w) \/ SendResult(w)
  \/ WorkerDone(w)

Next == MainStep \/ \E w \in 0..Workers : WorkerStep(w)

Spec == Init /\ [][Next]_vars

\* The Go scheduler runs every goroutine that can run, and every registry or
\* policy call returns (the command's context has a deadline).
Fairness == WF_vars(MainStep) /\ \A w \in 0..Workers : WF_vars(WorkerStep(w))

FairSpec == Spec /\ Fairness

-----------------------------------------------------------------------------
(* Properties *)

Stages == {"snapshot", "jobs", "access", "verify", "time", "input", "evaluate",
           "send", "results", "received"}

\* A goroutine works on a component that is at one of these stages.
Busy == {"access", "verify", "time", "input", "evaluate", "send"}

MaybeTime == Times \cup {NoTime}

\* Every variable has the type its Go counterpart gives it.
TypeOK ==
  /\ world \in [Components -> Worlds]
  /\ strict \in BOOLEAN
  /\ main \in {"evaluators", "queue", "collect", "report", "write", "vsa", "returned"}
  /\ evaluators \in 0..NumEvaluators
  /\ builtAt \in [Evaluators -> MaybeTime]
  /\ sent \in 0..NumComponents
  /\ jobsClosed \in BOOLEAN
  /\ worker \in [0..Workers -> {"unborn", "running", "done"}]
  /\ cur \in [0..Workers -> 0..NumComponents]
  /\ stage \in [Components -> Stages]
  /\ out \in [Components -> Outputs]
  /\ next \in [Components -> 1..(NumEvaluators + 1)]
  /\ effectiveTime \in MaybeTime
  /\ received \in 0..NumComponents
  /\ resultsClosed \in BOOLEAN
  /\ report \in [created: BOOLEAN, written: BOOLEAN, components: SUBSET Components,
                 success: BOOLEAN, time: MaybeTime]
  /\ exit \in {"running", "error", "failure", "ok"}
  /\ judged \in [Components -> [Evaluators -> MaybeTime]]

\* What the command stands for: the image is accessible, it and its attestations
\* are signed, there are attestations, they are well formed, and every evaluator
\* has judged them without a failure.
Acceptable(c) ==
  /\ world[c].ref /\ world[c].access /\ world[c].resolve /\ world[c].input
  /\ world[c].sig /\ world[c].attSig /\ world[c].syntax
  /\ world[c].atts # {}
  /\ \A e \in Evaluators : judged[c][e] # NoTime /\ <<e, judged[c][e]>> \notin world[c].fails

\* A report speaks of every component of the snapshot and calls the snapshot a
\* success exactly when every component is acceptable (cmd/validate/image.go,
\* 401 and 430-457, with NewReport and Output.Violations).
ReportExact ==
  report.created =>
    /\ report.components = Components
    /\ report.success <=> \A c \in Components : Acceptable(c)

\* A zero exit status under --strict means that every component is acceptable,
\* and "success criteria not met" that some component is not (542-546).
ExitSound ==
  /\ exit = "ok" /\ strict => \A c \in Components : Acceptable(c)
  /\ exit = "failure" => strict /\ \E c \in Components : ~Acceptable(c)

\* When main closes the results channel, and when RunE returns and its deferred
\* calls remove the evaluators' directories, no goroutine is still validating:
\* nothing is sent on a closed channel, no evaluator is used after Destroy.
NothingInFlight ==
  resultsClosed \/ exit # "running" => \A c \in Components : stage[c] \notin Busy

\* Unless the time of the attestations was asked for, in letters of any case, one
\* instant is used for the whole run: by every evaluator's configuration, for every
\* verdict and in the report, whatever AttestationTime is called with (policy.go, 358-375).
UniformTime ==
  LET T == parseEffectiveTime
  IN T # NoTime =>
       /\ \A e \in Evaluators : builtAt[e] \in {NoTime, T}
       /\ \A c \in Components, e \in Evaluators : judged[c][e] \in {NoTime, T}
       /\ report.created => report.time = T

\* With --effective-time attestation, a component whose attestations carry a build
\* time is judged at the youngest of them (flag text, image.go 605-610).
OwnTime ==
  ChoosenTime = "attestation" =>
    \A c \in Components, e \in Evaluators :
      judged[c][e] # NoTime /\ BuildTimes(c) # {} =>
        judged[c][e] \in BuildTimes(c) /\ \A u \in BuildTimes(c) : u <= judged[c][e]

\* Whatever fails, RunE returns: every component that was queued is answered for.
Terminates == <>(exit # "running")

-----------------------------------------------------------------------------
(* The inductive invariant behind ReportExact, ExitSound and NothingInFlight *)

\* A component at a busy stage is held by exactly one goroutine.
HolderInv ==
  /\ \A w \in 0..Workers : cur[w] # 0 => stage[cur[w]] \in Busy
  /\ \A v, w \in 0..Workers : cur[v] = cur[w] /\ cur[v] # 0 => v = w
  /\ \A c \in Components : stage[c] \in Busy => \E w \in 0..Workers : cur[w] = c

\* Either nothing was ever queued or everything was received.
Quiet == (\A c \in Components : stage[c] = "snapshot") \/ Received = Components

\* main has received what it counts; it is past the collection only when Quiet.
MainInv ==
  /\ \A c \in Components : c > sent => stage[c] = "snapshot"
  /\ main = "evaluators" => sent = 0
  /\ received = Cardinality(Received)
  /\ main \in {"report", "write", "vsa"} => Received = Components
  /\ main = "returned" => Quiet
  /\ resultsClosed => main \in {"report", "write", "vsa", "returned"}
  /\ exit # "running" <=> main = "returned"

\* What is known of a component and of its Output at each stage of the pipeline.
ComponentInv(c) ==
  /\ \A e \in Evaluators : judged[c][e] # NoTime <=> e < next[c]
  /\ stage[c] \in {"snapshot", "jobs", "access"} => out[c] = NewOutput
  /\ stage[c] \in {"verify", "time", "input", "evaluate"} =>
       /\ ~out[c].err
       /\ world[c].ref /\ world[c].resolve /\ world[c].access
       /\ out[c].checks["access"] = "pass" /\ out[c].checks["policy"] = "unset"
  /\ stage[c] \in {"time", "input", "evaluate"} =>
       /\ world[c].attSig /\ out[c].checks["attestation"] = "pass"
       /\ out[c].checks["signature"] = Status(world[c].sig)
       /\ out[c].checks["syntax"] = Status(world[c].syntax /\ world[c].atts # {})
  /\ stage[c] = "evaluate" => world[c].input /\ world[c].atts # {}
  /\ stage[c] \in {"send", "results", "received"} /\ ~out[c].err =>
       (Success(out[c]) <=> Acceptable(c))

OutputInv == \A c \in Components : ComponentInv(c)

\* The report, and with it the exit status, is made of final and error-free Outputs.
ReportInv ==
  /\ report.created \/ main \in {"report", "write", "vsa"} =>
       Received = Components /\ AllErrors = {}
  /\ report.created =>
       /\ report.components = Components
       /\ report.success <=> \A c \in Components : Success(out[c])
  /\ main \in {"write", "vsa"} => report.created
  /\ exit = "ok" => report.created /\ (strict => report.success)
  /\ exit = "failure" => report.created /\ strict /\ ~report.success

\* What the pool, the pipeline and main together preserve in every step of the command
\* (cmd/validate/image.go, 307-547, and internal/image/validate.go, 39-142).
IInv == TypeOK /\ HolderInv /\ MainInv /\ OutputInv /\ ReportInv

-----------------------------------------------------------------------------
(* Refinement *)

\* The verdict that a component's result carries, once it was sent.
Verdict(c) ==
  CASE stage[c] \notin {"results", "received"} -> "pending"
    [] stage[c] \in {"results", "received"} /\ out[c].err -> "error"
    [] stage[c] \in {"results", "received"} /\ Success(out[c]) -> "accepted"
    [] OTHER -> "rejected"

Abstract == INSTANCE SnapshotVerdict WITH
  verdict <- [c \in Components |-> Verdict(c)],
  outcome <- exit

\* The command implements SnapshotVerdict: a component is answered for once, at the
\* moment its result is sent, and the exit status follows from the verdicts alone.
ImplementsSnapshotVerdict == Abstract!Spec
=============================================================================
