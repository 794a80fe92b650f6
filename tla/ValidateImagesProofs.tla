------------------------- MODULE ValidateImagesProofs -------------------------
(***************************************************************************)
(* Proofs about ValidateImages, for any number of components, goroutines   *)
(* and evaluators, any instants and any answers about the components.      *)
(***************************************************************************)
EXTENDS ValidateImages, FiniteSetTheorems, TLAPS

(* The instants *)

LEMMA ParsedTime == parseEffectiveTime \in MaybeTime
  BY TimeAssumption DEF parseEffectiveTime, MaybeTime

LEMMA ReadTime == ASSUME TypeOK PROVE EffectiveTime \subseteq Times /\ NoTime \notin EffectiveTime
  BY TimeAssumption DEF TypeOK, EffectiveTime, MaybeTime, NoTime

LEMMA YoungestTime ==
  ASSUME TypeOK, NEW c \in Components
  PROVE  /\ determineAttestationTime(c) \in MaybeTime
         /\ BuildTimes(c) # {} =>
              /\ determineAttestationTime(c) \in BuildTimes(c)
              /\ \A u \in BuildTimes(c) : u <= determineAttestationTime(c)
         /\ BuildTimes(c) = {} <=> determineAttestationTime(c) = NoTime
  <1>1. BuildTimes(c) \subseteq Times
    BY WorldAssumption DEF TypeOK, WorldType, BuildTimes
  <1>2. CASE BuildTimes(c) = {}
    BY <1>2 DEF determineAttestationTime, MaybeTime
  <1>3. CASE BuildTimes(c) # {}
    <2>1. PICK t \in BuildTimes(c) : \A u \in BuildTimes(c) : u <= t
      BY <1>1, <1>3, TimeAssumption
    <2>2. /\ determineAttestationTime(c) \in BuildTimes(c)
          /\ \A u \in BuildTimes(c) : u <= determineAttestationTime(c)
      BY <1>3, <2>1 DEF determineAttestationTime
    <2>3. NoTime \notin Times
      BY TimeAssumption DEF NoTime
    <2>4. QED
      BY <1>1, <1>3, <2>2, <2>3 DEF MaybeTime
  <1>4. QED
    BY <1>2, <1>3

-------------------------------------------------------------------------------
(* Type correctness *)

LEMMA StatusType == \A b \in BOOLEAN : Status(b) \in {"pass", "fail"}
  BY DEF Status

LEMMA OutputType ==
  /\ NewOutput \in Outputs
  /\ \A o \in Outputs : [o EXCEPT !.err = TRUE] \in Outputs
  /\ \A o \in Outputs, k \in Checks, s \in {"unset", "pass", "fail"} :
       [o EXCEPT !.checks[k] = s] \in Outputs
  BY DEF Outputs, NewOutput

LEMMA InitType == Init => TypeOK
  <1> SUFFICES ASSUME Init PROVE TypeOK
    OBVIOUS
  <1>1. NoReport \in [created: BOOLEAN, written: BOOLEAN, components: SUBSET Components,
                      success: BOOLEAN, time: MaybeTime]
    BY DEF NoReport, MaybeTime
  <1>2. 1 \in 1..(NumEvaluators + 1)
    BY CountAssumption
  <1>3. 0 \in 0..NumComponents /\ 0 \in 0..NumEvaluators
    BY CountAssumption
  <1>4. NoTime \in MaybeTime
    BY DEF MaybeTime
  <1>5. QED
    BY <1>1, <1>2, <1>3, <1>4, OutputType, ParsedTime DEF Init, TypeOK, Stages

LEMMA TypeStep == TypeOK /\ [Next]_vars => TypeOK'
  <1> SUFFICES ASSUME TypeOK, [Next]_vars PROVE TypeOK'
    OBVIOUS
  <1> USE DEF TypeOK, inputs, mainVars, poolVars, imageVars, Stages
  <1>1. CASE CreateEvaluator
    <2>1. evaluators + 1 \in 0..NumEvaluators
      BY <1>1, CountAssumption DEF CreateEvaluator
    <2>2. builtAt' \in [Evaluators -> MaybeTime]
      BY <1>1, ReadTime DEF CreateEvaluator, MaybeTime
    <2>3. QED
      BY <1>1, <2>1, <2>2 DEF CreateEvaluator
  <1>2. CASE CreateEvaluatorFails
    BY <1>2 DEF CreateEvaluatorFails, Return
  <1>3. CASE StartWorkers
    BY <1>3 DEF StartWorkers
  <1>4. CASE QueueJob
    <2>1. sent + 1 \in 0..NumComponents
      BY <1>4, CountAssumption DEF QueueJob
    <2>2. stage' \in [Components -> Stages]
      BY <1>4 DEF QueueJob
    <2>3. QED
      BY <1>4, <2>1, <2>2 DEF QueueJob
  <1>5. CASE CloseJobs
    BY <1>5 DEF CloseJobs
  <1>6. CASE CollectResult
    <2>1. received + 1 \in 0..NumComponents
      BY <1>6, CountAssumption DEF CollectResult
    <2>2. QED
      BY <1>6, <2>1 DEF CollectResult
  <1>7. CASE CloseResults
    BY <1>7 DEF CloseResults, Return
  <1>8. CASE NewReport
    <2>1. Received \in SUBSET Components
      BY DEF Received
    <2>2. QED
      BY <1>8, <2>1, ReadTime DEF NewReport, MaybeTime
  <1>9. CASE NewReportFails
    BY <1>9 DEF NewReportFails, Return
  <1>10. CASE WriteAll
    BY <1>10 DEF WriteAll, Return
  <1>11. CASE VSASignerFails
    BY <1>11 DEF VSASignerFails, Return
  <1>12. CASE Conclude
    BY <1>12 DEF Conclude, Return
  <1>13. ASSUME NEW w \in 0..Workers, WorkerStep(w)
         PROVE  TypeOK'
    <2>1. CASE ReceiveJob(w)
      <3>1. Components \subseteq 0..NumComponents
        BY CountAssumption DEF Components
      <3>2. QED
        BY <2>1, <3>1 DEF ReceiveJob
    <2>2. CASE AccessImage(w)
      <3>1. PICK c \in Components : AccessImage(w)!(c)
        BY <2>2 DEF AccessImage
      <3>2. world[c].access \in BOOLEAN /\ "access" \in Checks
        BY WorldAssumption DEF WorldType, Checks
      <3>3. Failed(c) \in Outputs
        BY OutputType DEF Failed
      <3>4. [out[c] EXCEPT !.checks["access"] = Status(world[c].access)] \in Outputs
        BY <3>2, OutputType, StatusType
      <3>5. PICK s \in {"send", "verify"}, o \in Outputs :
              stage' = [stage EXCEPT ![c] = s] /\ out' = [out EXCEPT ![c] = o]
        BY <3>1, <3>3, <3>4, Zenon DEF Finish
      <3>6. QED
        BY <3>1, <3>5
    <2>3. CASE VerifySignatures(w)
      <3>1. PICK c \in Components : VerifySignatures(w)!(c)
        BY <2>3 DEF VerifySignatures
      <3> DEFINE o1 == [out[c] EXCEPT !.checks["signature"] = Status(world[c].sig)]
                 o2 == [o1 EXCEPT !.checks["attestation"] = Status(world[c].attSig)]
                 o3 == [o2 EXCEPT !.checks["syntax"] =
                          Status(world[c].syntax /\ world[c].atts # {})]
      <3>2. /\ world[c].sig \in BOOLEAN /\ world[c].attSig \in BOOLEAN
            /\ (world[c].syntax /\ world[c].atts # {}) \in BOOLEAN
            /\ {"signature", "attestation", "syntax"} \subseteq Checks
        BY WorldAssumption DEF WorldType, Checks
      <3>3. o1 \in Outputs
        BY <3>2, OutputType, StatusType
      <3>4. o2 \in Outputs
        BY <3>2, <3>3, OutputType, StatusType
      <3>5. o3 \in Outputs
        BY <3>2, <3>4, OutputType, StatusType
      <3>6. PICK s \in {"send", "time"}, o \in Outputs :
              stage' = [stage EXCEPT ![c] = s] /\ out' = [out EXCEPT ![c] = o]
        BY <3>1, <3>4, <3>5, Zenon DEF Finish
      <3>7. QED
        BY <3>1, <3>6
    <2>4. CASE SetAttestationTime(w)
      BY <2>4, YoungestTime DEF SetAttestationTime, AttestationTime, At
    <2>5. CASE WriteInput(w)
      <3>1. PICK c \in Components : WriteInput(w)!(c)
        BY <2>5 DEF WriteInput
      <3>2. Failed(c) \in Outputs
        BY OutputType DEF Failed
      <3>3. [out[c] EXCEPT !.checks["policy"] = "fail"] \in Outputs
        BY OutputType DEF Checks
      <3>4. PICK s \in {"send", "evaluate"}, o \in Outputs :
              stage' = [stage EXCEPT ![c] = s] /\ out' \in {out, [out EXCEPT ![c] = o]}
        BY <3>1, <3>2, <3>3, Zenon DEF Finish
      <3>5. stage' \in [Components -> Stages] /\ out' \in [Components -> Outputs]
        BY <3>4
      <3>6. UNCHANGED <<inputs, mainVars, poolVars, next, judged, effectiveTime>>
        BY <3>1
      <3>7. QED
        BY <3>5, <3>6
    <2>6. CASE Evaluate(w)
      <3>1. PICK c \in Components : Evaluate(w)!(c)
        BY <2>6 DEF Evaluate
      <3>2. Failed(c) \in Outputs
        BY OutputType DEF Failed
      <3>3. next[c] + 1 \in 1..(NumEvaluators + 1)
        BY <3>1, CountAssumption
      <3>4. EffectiveTime \subseteq MaybeTime
        BY ReadTime DEF MaybeTime
      <3>5. \A t \in EffectiveTime :
              [judged EXCEPT ![c][next[c]] = t] \in [Components -> [Evaluators -> MaybeTime]]
        BY <3>4
      <3>6. CASE next[c] \in world[c].errs
        <4>1. /\ UNCHANGED <<inputs, mainVars, poolVars, effectiveTime, next, judged>>
              /\ Finish(c, Failed(c))
          BY <3>1, <3>6
        <4>2. QED
          BY <3>2, <4>1 DEF Finish
      <3>7. CASE next[c] \notin world[c].errs
        <4>1. /\ UNCHANGED <<inputs, mainVars, poolVars, effectiveTime, stage, out>>
              /\ \E t \in EffectiveTime : judged' = [judged EXCEPT ![c][next[c]] = t]
              /\ next' = [next EXCEPT ![c] = next[c] + 1]
          BY <3>1, <3>7
        <4>2. QED
          BY <3>3, <3>5, <4>1
      <3>8. QED
        BY <3>6, <3>7
    <2>7. CASE SetPolicyCheck(w)
      <3>1. PICK c \in Components : SetPolicyCheck(w)!(c)
        BY <2>7 DEF SetPolicyCheck
      <3> DEFINE passed == \A e \in Evaluators : <<e, judged[c][e]>> \notin world[c].fails
      <3>2. [out[c] EXCEPT !.checks["policy"] = Status(passed)] \in Outputs
        BY OutputType, StatusType DEF Checks
      <3>3. QED
        BY <3>1, <3>2 DEF Finish
    <2>8. CASE SendResult(w)
      <3>1. 0 \in 0..NumComponents
        BY CountAssumption
      <3>2. QED
        BY <2>8, <3>1 DEF SendResult, At
    <2>9. CASE WorkerDone(w)
      BY <2>9 DEF WorkerDone
    <2>10. QED
      BY <1>13, <2>1, <2>2, <2>3, <2>4, <2>5, <2>6, <2>7, <2>8, <2>9 DEF WorkerStep
  <1>14. CASE UNCHANGED vars
    BY <1>14 DEF vars
  <1>15. QED
    BY <1>1, <1>2, <1>3, <1>4, <1>5, <1>6, <1>7, <1>8, <1>9, <1>10, <1>11, <1>12,
       <1>13, <1>14 DEF Next, MainStep

\* Every reachable state of the command is well typed: no counter passes the number
\* of components, no goroutine holds anything but a component of the snapshot
\* (cmd/validate/image.go, 411-443).
THEOREM TypeCorrect == Spec => []TypeOK
  BY InitType, TypeStep, PTL DEF Spec

-------------------------------------------------------------------------------
(* The inductive invariant *)

\* The steps of ValidateImage, between taking a job and sending its result.
Pipeline(w) ==
  \/ AccessImage(w) \/ VerifySignatures(w) \/ SetAttestationTime(w)
  \/ WriteInput(w) \/ Evaluate(w) \/ SetPolicyCheck(w)

\* c, held by w, moves from one busy stage to another and nothing but its own
\* Output changes.
Moves(w, c) ==
  /\ cur[w] = c
  /\ stage[c] \in Busy
  /\ \E s \in Busy : stage' = [stage EXCEPT ![c] = s]
  /\ \A d \in Components \ {c} :
       out'[d] = out[d] /\ next'[d] = next[d] /\ judged'[d] = judged[d]
  /\ UNCHANGED <<inputs, mainVars, poolVars>>

\* Every step of ValidateImage is such a move (internal/image/validate.go, 39-142).
LEMMA PipelineMoves ==
  ASSUME TypeOK, NEW w \in 0..Workers, Pipeline(w)
  PROVE  \E c \in Components : Moves(w, c)
  <1> USE DEF TypeOK, At, Busy, Finish, Stages, Moves, inputs, mainVars, poolVars, imageVars
  <1>1. CASE AccessImage(w)
    <2>1. PICK c \in Components : AccessImage(w)!(c)
      BY <1>1 DEF AccessImage
    <2>2. PICK s \in {"send", "verify"} : \E o :
            stage' = [stage EXCEPT ![c] = s] /\ out' = [out EXCEPT ![c] = o]
      BY <2>1, Zenon
    <2>3. QED
      BY <2>1, <2>2
  <1>2. CASE VerifySignatures(w)
    <2>1. PICK c \in Components : VerifySignatures(w)!(c)
      BY <1>2 DEF VerifySignatures
    <2>2. PICK s \in {"send", "time"} : \E o :
            stage' = [stage EXCEPT ![c] = s] /\ out' = [out EXCEPT ![c] = o]
      BY <2>1, Zenon
    <2>3. QED
      BY <2>1, <2>2
  <1>3. CASE SetAttestationTime(w)
    <2>1. PICK c \in Components : SetAttestationTime(w)!(c)
      BY <1>3 DEF SetAttestationTime
    <2>2. QED
      BY <2>1
  <1>4. CASE WriteInput(w)
    <2>1. PICK c \in Components : WriteInput(w)!(c)
      BY <1>4 DEF WriteInput
    <2>2. PICK s \in {"send", "evaluate"} : \E o :
            stage' = [stage EXCEPT ![c] = s] /\ out' \in {out, [out EXCEPT ![c] = o]}
      BY <2>1, Zenon
    <2>3. QED
      BY <2>1, <2>2
  <1>5. CASE Evaluate(w)
    <2>1. PICK c \in Components : Evaluate(w)!(c)
      BY <1>5 DEF Evaluate
    <2>2. CASE next[c] \in world[c].errs
      <3>1. Finish(c, Failed(c)) /\ UNCHANGED <<next, judged>>
        BY <2>1, <2>2
      <3>2. QED
        BY <2>1, <3>1
    <2>3. CASE next[c] \notin world[c].errs
      <3>1. PICK t \in EffectiveTime :
              /\ UNCHANGED <<stage, out>>
              /\ judged' = [judged EXCEPT ![c][next[c]] = t]
              /\ next' = [next EXCEPT ![c] = next[c] + 1]
        BY <2>1, <2>3
      <3>2. stage' = [stage EXCEPT ![c] = "evaluate"]
        BY <2>1, <3>1
      <3>3. QED
        BY <2>1, <3>1, <3>2
    <2>4. QED
      BY <2>2, <2>3
  <1>6. CASE SetPolicyCheck(w)
    <2>1. PICK c \in Components : SetPolicyCheck(w)!(c)
      BY <1>6 DEF SetPolicyCheck
    <2>2. QED
      BY <2>1
  <1>7. QED
    BY <1>1, <1>2, <1>3, <1>4, <1>5, <1>6 DEF Pipeline

\* The steps of the command, by what they do to the stages.
LEMMA StepCases ==
  ASSUME [Next]_vars
  PROVE  \/ \E w \in 0..Workers : Pipeline(w)
         \/ \E w \in 0..Workers : ReceiveJob(w)
         \/ \E w \in 0..Workers : SendResult(w)
         \/ \E w \in 0..Workers : WorkerDone(w)
         \/ QueueJob
         \/ CollectResult
         \/ CreateEvaluator \/ CreateEvaluatorFails \/ StartWorkers \/ CloseJobs
         \/ CloseResults \/ NewReport \/ NewReportFails \/ WriteAll
         \/ VSASignerFails \/ Conclude
         \/ UNCHANGED vars
  BY DEF Next, MainStep, WorkerStep, Pipeline

LEMMA MainStages ==
  ASSUME \/ CreateEvaluator \/ CreateEvaluatorFails \/ StartWorkers \/ CloseJobs
         \/ CloseResults \/ NewReport \/ NewReportFails \/ WriteAll
         \/ VSASignerFails \/ Conclude \/ UNCHANGED vars
  PROVE  UNCHANGED <<inputs, stage, cur, imageVars>>
  BY DEF CreateEvaluator, CreateEvaluatorFails, StartWorkers, CloseJobs, CloseResults,
         NewReport, NewReportFails, WriteAll, VSASignerFails, Conclude, vars, poolVars

LEMMA HolderStep == IInv /\ [Next]_vars => HolderInv'
  <1> SUFFICES ASSUME TypeOK, HolderInv, MainInv, [Next]_vars
                PROVE  HolderInv'
    BY DEF IInv
  <1> USE DEF TypeOK, HolderInv, Busy, Stages
  <1>1. ASSUME NEW w \in 0..Workers, Pipeline(w) PROVE HolderInv'
    <2>1. PICK c \in Components : Moves(w, c)
      BY <1>1, PipelineMoves
    <2>2. QED
      BY <2>1 DEF Moves, poolVars
  <1>2. ASSUME NEW w \in 0..Workers, ReceiveJob(w) PROVE HolderInv'
    <2>1. PICK c \in Components : /\ stage[c] = "jobs"
                                  /\ cur' = [cur EXCEPT ![w] = c]
                                  /\ stage' = [stage EXCEPT ![c] = "access"]
      BY <1>2 DEF ReceiveJob
    <2>2. cur[w] = 0
      BY <1>2 DEF ReceiveJob
    <2>3. c # 0
      BY CountAssumption DEF Components
    <2>4. \A v \in 0..Workers : cur[v] # c
      BY <2>1, <2>3
    <2>5. cur'[w] = c /\ \A v \in 0..Workers : v # w => cur'[v] = cur[v]
      BY <2>1
    <2>6. stage'[c] = "access" /\ \A d \in Components : d # c => stage'[d] = stage[d]
      BY <2>1
    <2>7. \A v \in 0..Workers : cur[v] # 0 => cur[v] \in Components
      BY CountAssumption DEF Components
    <2>8. \A v \in 0..Workers : cur'[v] # 0 => stage'[cur'[v]] \in Busy
      BY <2>4, <2>5, <2>6, <2>7
    <2>9. \A u, v \in 0..Workers : cur'[u] = cur'[v] /\ cur'[u] # 0 => u = v
      BY <2>4, <2>5
    <2>10. \A d \in Components : stage'[d] \in Busy => \E v \in 0..Workers : cur'[v] = d
      <3> SUFFICES ASSUME NEW d \in Components, stage'[d] \in Busy
                   PROVE  \E v \in 0..Workers : cur'[v] = d
        OBVIOUS
      <3>1. CASE d = c
        BY <2>5, <3>1
      <3>2. CASE d # c
        <4>1. PICK v \in 0..Workers : cur[v] = d
          BY <2>6, <3>2
        <4>2. d # 0
          BY CountAssumption DEF Components
        <4>3. QED
          BY <2>2, <2>5, <4>1, <4>2
      <3>3. QED
        BY <3>1, <3>2
    <2>11. QED
      BY <2>8, <2>9, <2>10
  <1>3. ASSUME NEW w \in 0..Workers, SendResult(w) PROVE HolderInv'
    <2>1. PICK c \in Components : /\ cur[w] = c /\ c # 0
                                  /\ cur' = [cur EXCEPT ![w] = 0]
                                  /\ stage' = [stage EXCEPT ![c] = "results"]
      BY <1>3 DEF SendResult, At
    <2>2. \A v \in 0..Workers : v # w => cur[v] # c
      BY <2>1
    <2>3. QED
      BY <2>1, <2>2
  <1>4. ASSUME NEW w \in 0..Workers, WorkerDone(w) PROVE HolderInv'
    BY <1>4 DEF WorkerDone
  <1>5. CASE QueueJob
    <2>1. /\ UNCHANGED cur
          /\ sent + 1 \in Components
          /\ stage' = [stage EXCEPT ![sent + 1] = "jobs"]
      BY <1>5, CountAssumption DEF QueueJob, poolVars, Components
    <2>2. stage[sent + 1] = "snapshot"
      BY <2>1 DEF MainInv
    <2>3. QED
      BY <2>1, <2>2
  <1>6. CASE CollectResult
    BY <1>6 DEF CollectResult, poolVars
  <1>7. CASE \/ CreateEvaluator \/ CreateEvaluatorFails \/ StartWorkers \/ CloseJobs
             \/ CloseResults \/ NewReport \/ NewReportFails \/ WriteAll
             \/ VSASignerFails \/ Conclude \/ UNCHANGED vars
    <2>1. UNCHANGED <<stage, cur>>
      BY <1>7, MainStages
    <2>2. QED
      BY <2>1
  <1>8. QED
    BY <1>1, <1>2, <1>3, <1>4, <1>5, <1>6, <1>7, StepCases

\* A worker moves one component between stages that main does not count.
WorkerMove ==
  /\ \E c \in Components, s \in Stages \ {"snapshot", "received"} :
       /\ stage[c] \notin {"snapshot", "received"}
       /\ stage' = [stage EXCEPT ![c] = s]
  /\ UNCHANGED <<inputs, mainVars>>

LEMMA WorkerMoves ==
  ASSUME TypeOK, NEW w \in 0..Workers, Pipeline(w) \/ ReceiveJob(w) \/ SendResult(w)
  PROVE  WorkerMove
  <1>1. CASE Pipeline(w)
    <2>1. PICK c \in Components : Moves(w, c)
      BY <1>1, PipelineMoves
    <2>2. PICK s \in Busy : stage' = [stage EXCEPT ![c] = s]
      BY <2>1 DEF Moves
    <2>3. stage[c] \in Busy /\ UNCHANGED <<inputs, mainVars>>
      BY <2>1 DEF Moves
    <2>4. Busy \subseteq Stages \ {"snapshot", "received"}
      BY DEF Busy, Stages
    <2>5. stage[c] \notin {"snapshot", "received"}
      BY <2>3, <2>4
    <2>6. QED
      BY <2>2, <2>3, <2>4, <2>5 DEF WorkerMove
  <1>2. CASE ReceiveJob(w)
    BY <1>2 DEF ReceiveJob, WorkerMove, Stages
  <1>3. CASE SendResult(w)
    BY <1>3 DEF SendResult, At, WorkerMove, Stages
  <1>4. QED
    BY <1>1, <1>2, <1>3

LEMMA ReceivedCount ==
  ASSUME TypeOK
  PROVE  /\ IsFiniteSet(Components) /\ Cardinality(Components) = NumComponents
         /\ IsFiniteSet(Received) /\ Received \subseteq Components
         /\ Cardinality(Received) = NumComponents => Received = Components
  <1>1. IsFiniteSet(Components) /\ Cardinality(Components) = NumComponents
    BY FS_Interval, CountAssumption DEF Components
  <1>2. Received \subseteq Components
    BY DEF Received
  <1>3. QED
    BY <1>1, <1>2, FS_Subset

LEMMA MainInvStep == IInv /\ [Next]_vars => MainInv'
  <1> SUFFICES ASSUME TypeOK, MainInv, [Next]_vars PROVE MainInv'
    BY DEF IInv
  <1> USE DEF TypeOK, MainInv, Quiet, mainVars
  <1>1. ASSUME NEW w \in 0..Workers, Pipeline(w) \/ ReceiveJob(w) \/ SendResult(w)
        PROVE  MainInv'
    <2>1. WorkerMove
      BY <1>1, WorkerMoves
    <2>2. PICK c \in Components, s \in Stages \ {"snapshot", "received"} :
            /\ stage[c] \notin {"snapshot", "received"}
            /\ stage' = [stage EXCEPT ![c] = s]
      BY <2>1 DEF WorkerMove
    <2>3. UNCHANGED mainVars
      BY <2>1 DEF WorkerMove
    <2>4. Received' = Received
      BY <2>2 DEF Received
    <2>5. \A d \in Components : d > sent => stage'[d] = "snapshot"
      BY <2>2
    <2>6. main = "returned" => Received = Components
      BY <2>2
    <2>7. QED
      BY <2>3, <2>4, <2>5, <2>6
  <1>2. ASSUME NEW w \in 0..Workers, WorkerDone(w) PROVE MainInv'
    BY <1>2 DEF WorkerDone, Received
  <1>3. CASE QueueJob
    <2>1. sent + 1 \in Components /\ stage[sent + 1] = "snapshot"
      BY <1>3, CountAssumption DEF QueueJob, Components
    <2>2. Received' = Received
      BY <1>3, <2>1 DEF QueueJob, Received
    <2>3. \A d \in Components : d > sent' => stage'[d] = "snapshot"
      BY <1>3, <2>1, CountAssumption DEF QueueJob, Components
    <2>4. QED
      BY <1>3, <2>2, <2>3 DEF QueueJob
  <1>4. CASE CollectResult
    <2>1. PICK c \in Components : /\ stage[c] = "results"
                                  /\ stage' = [stage EXCEPT ![c] = "received"]
      BY <1>4 DEF CollectResult
    <2>2. Received' = Received \cup {c} /\ c \notin Received
      BY <2>1 DEF Received
    <2>3. Cardinality(Received') = Cardinality(Received) + 1
      BY <2>2, ReceivedCount, FS_AddElement
    <2>4. \A d \in Components : d > sent => stage'[d] = "snapshot"
      BY <2>1
    <2>5. QED
      BY <1>4, <2>3, <2>4 DEF CollectResult
  <1>5. CASE CloseResults
    <2>1. Received = Components
      BY <1>5, ReceivedCount DEF CloseResults
    <2>2. Received' = Received
      BY <1>5 DEF CloseResults, Received
    <2>3. QED
      BY <1>5, <2>1, <2>2 DEF CloseResults, Return
  <1>6. CASE CreateEvaluatorFails
    <2>1. \A c \in Components : stage[c] = "snapshot"
      BY <1>6, CountAssumption DEF CreateEvaluatorFails, Components
    <2>2. QED
      BY <1>6, <2>1 DEF CreateEvaluatorFails, Return, Received
  <1>7. CASE CreateEvaluator \/ StartWorkers \/ CloseJobs
    <2>1. Received' = Received /\ UNCHANGED stage
      BY <1>7 DEF CreateEvaluator, StartWorkers, CloseJobs, Received
    <2>2. /\ UNCHANGED <<sent, received, resultsClosed, exit>>
          /\ main \in {"evaluators", "queue"}
          /\ main' \in {"evaluators", "queue", "collect"}
          /\ main' = "evaluators" => main = "evaluators"
      BY <1>7 DEF CreateEvaluator, StartWorkers, CloseJobs
    <2>3. QED
      BY <2>1, <2>2
  <1>8. CASE NewReport \/ NewReportFails \/ WriteAll \/ VSASignerFails \/ Conclude
    <2>1. Received' = Received /\ UNCHANGED stage
      BY <1>8 DEF NewReport, NewReportFails, WriteAll, VSASignerFails, Conclude, Received
    <2>2. QED
      BY <1>8, <2>1 DEF NewReport, NewReportFails, WriteAll, VSASignerFails, Conclude, Return
  <1>9. CASE UNCHANGED vars
    BY <1>9 DEF vars, Received
  <1>10. QED
    BY <1>1, <1>2, <1>3, <1>4, <1>5, <1>6, <1>7, <1>8, <1>9, StepCases

\* A component whose own state does not change, or changes stage within a group of
\* stages about which the same is known, keeps its invariant.
LEMMA ComponentKept ==
  ASSUME NEW c \in Components, ComponentInv(c), UNCHANGED world,
         out'[c] = out[c], next'[c] = next[c], judged'[c] = judged[c],
         \/ stage'[c] = stage[c]
         \/ {stage[c], stage'[c]} \subseteq {"snapshot", "jobs", "access"}
         \/ {stage[c], stage'[c]} \subseteq {"send", "results", "received"}
  PROVE  ComponentInv(c)'
  <1>1. Acceptable(c)' <=> Acceptable(c)
    BY DEF Acceptable
  <1>2. Success(out[c])' <=> Success(out[c])
    BY DEF Success, Violations
  <1>3. QED
    BY <1>1, <1>2 DEF ComponentInv

LEMMA AccessKeeps ==
  ASSUME TypeOK, NEW w \in 0..Workers, NEW c \in Components, ComponentInv(c),
         AccessImage(w)!(c)
  PROVE  ComponentInv(c)'
  <1> DEFINE o == [out[c] EXCEPT !.checks["access"] = Status(world[c].access)]
  <1>1. /\ out \in [Components -> Outputs] /\ stage \in [Components -> Stages]
        /\ out[c] = NewOutput
    BY DEF TypeOK, ComponentInv, At
  <1>2. /\ o.err = FALSE /\ o.checks["access"] = Status(world[c].access)
        /\ \A k \in Checks : k # "access" => o.checks[k] = "unset"
        /\ Failed(c).err = TRUE
    BY <1>1 DEF NewOutput, Failed, Checks
  <1>3. UNCHANGED <<world, next, judged>>
    BY DEF inputs
  <1>4. \A e \in Evaluators : judged'[c][e] # NoTime <=> e < next'[c]
    BY <1>3 DEF ComponentInv
  <1>5. CASE Finish(c, Failed(c))
    <2>1. stage'[c] = "send" /\ out'[c].err
      BY <1>1, <1>2, <1>5 DEF Finish
    <2>2. QED
      BY <1>4, <2>1 DEF ComponentInv
  <1>6. CASE ~world[c].access /\ Finish(c, o)
    <2>1. stage'[c] = "send" /\ out'[c] = o
      BY <1>1, <1>6 DEF Finish
    <2>2. o.checks["access"] = "fail" /\ "access" \in Checks
      BY <1>2, <1>6 DEF Status, Checks
    <2>3. ~Success(out[c])'
      BY <2>1, <2>2 DEF Success, Violations
    <2>4. ~Acceptable(c)'
      BY <1>3, <1>6 DEF Acceptable
    <2>5. QED
      BY <1>4, <2>1, <2>3, <2>4 DEF ComponentInv
  <1>7. CASE /\ world[c].ref /\ world[c].access /\ world[c].resolve
             /\ stage' = [stage EXCEPT ![c] = "verify"]
             /\ out' = [out EXCEPT ![c] = o]
    <2>1. stage'[c] = "verify" /\ out'[c] = o
      BY <1>1, <1>7
    <2>2. o.checks["access"] = "pass" /\ o.checks["policy"] = "unset"
      BY <1>2, <1>7 DEF Status, Checks
    <2>3. QED
      BY <1>2, <1>3, <1>4, <1>7, <2>1, <2>2 DEF ComponentInv
  <1>8. QED
    BY <1>5, <1>6, <1>7

LEMMA VerifyKeeps ==
  ASSUME TypeOK, NEW w \in 0..Workers, NEW c \in Components, ComponentInv(c),
         VerifySignatures(w)!(c)
  PROVE  ComponentInv(c)'
  <1> DEFINE o == [out[c] EXCEPT !.checks["signature"] = Status(world[c].sig),
                                 !.checks["attestation"] = Status(world[c].attSig)]
             p == [o EXCEPT !.checks["syntax"] = Status(world[c].syntax /\ world[c].atts # {})]
  <1>1. /\ out \in [Components -> Outputs] /\ stage \in [Components -> Stages]
        /\ ~out[c].err /\ out[c].checks["access"] = "pass" /\ out[c].checks["policy"] = "unset"
        /\ world[c].ref /\ world[c].resolve /\ world[c].access
    BY DEF TypeOK, ComponentInv, At
  <1>2. /\ o.err = FALSE /\ o.checks["access"] = "pass" /\ o.checks["policy"] = "unset"
        /\ o.checks["signature"] = Status(world[c].sig)
        /\ o.checks["attestation"] = Status(world[c].attSig)
    BY <1>1 DEF Outputs, Checks
  <1>3. /\ p.err = FALSE /\ p.checks["access"] = "pass" /\ p.checks["policy"] = "unset"
        /\ p.checks["signature"] = Status(world[c].sig)
        /\ p.checks["attestation"] = Status(world[c].attSig)
        /\ p.checks["syntax"] = Status(world[c].syntax /\ world[c].atts # {})
    BY <1>1 DEF Outputs, Checks
  <1>4. UNCHANGED <<world, next, judged>>
    BY DEF inputs
  <1>5. \A e \in Evaluators : judged'[c][e] # NoTime <=> e < next'[c]
    BY <1>4 DEF ComponentInv
  <1>6. CASE ~world[c].attSig /\ Finish(c, o)
    <2>1. stage'[c] = "send" /\ out'[c] = o
      BY <1>1, <1>6 DEF Finish
    <2>2. o.checks["attestation"] = "fail" /\ "attestation" \in Checks
      BY <1>2, <1>6 DEF Status, Checks
    <2>3. ~Success(out[c])'
      BY <2>1, <2>2 DEF Success, Violations
    <2>4. ~Acceptable(c)'
      BY <1>4, <1>6 DEF Acceptable
    <2>5. QED
      BY <1>5, <2>1, <2>3, <2>4 DEF ComponentInv
  <1>7. CASE /\ world[c].attSig
             /\ stage' = [stage EXCEPT ![c] = "time"]
             /\ out' = [out EXCEPT ![c] = p]
    <2>1. stage'[c] = "time" /\ out'[c] = p
      BY <1>1, <1>7
    <2>2. Status(world[c].attSig) = "pass"
      BY <1>7 DEF Status
    <2>3. QED
      BY <1>1, <1>3, <1>4, <1>5, <1>7, <2>1, <2>2 DEF ComponentInv
  <1>8. QED
    BY <1>6, <1>7

LEMMA TimeKeeps ==
  ASSUME TypeOK, NEW w \in 0..Workers, NEW c \in Components, ComponentInv(c),
         SetAttestationTime(w)!(c)
  PROVE  ComponentInv(c)'
  <1>1. stage[c] = "time" /\ stage'[c] = "input"
    BY DEF TypeOK, At
  <1>2. UNCHANGED <<world, out, next, judged>>
    BY DEF inputs, imageVars
  <1>3. QED
    BY <1>1, <1>2 DEF ComponentInv

LEMMA InputKeeps ==
  ASSUME TypeOK, NEW w \in 0..Workers, NEW c \in Components, ComponentInv(c),
         WriteInput(w)!(c)
  PROVE  ComponentInv(c)'
  <1> DEFINE o == [out[c] EXCEPT !.checks["policy"] = "fail"]
  <1>1. /\ out \in [Components -> Outputs] /\ stage \in [Components -> Stages]
        /\ stage[c] = "input"
    BY DEF TypeOK, At
  <1>2. UNCHANGED <<world, next, judged>>
    BY DEF inputs
  <1>3. \A e \in Evaluators : judged'[c][e] # NoTime <=> e < next'[c]
    BY <1>2 DEF ComponentInv
  <1>4. CASE world[c].atts = {} /\ Finish(c, o)
    <2>1. stage'[c] = "send" /\ out'[c] = o
      BY <1>1, <1>4 DEF Finish
    <2>2. o.checks["policy"] = "fail" /\ "policy" \in Checks
      BY <1>1 DEF Outputs, Checks
    <2>3. ~Success(out[c])'
      BY <2>1, <2>2 DEF Success, Violations
    <2>4. ~Acceptable(c)'
      BY <1>2, <1>4 DEF Acceptable
    <2>5. QED
      BY <1>3, <2>1, <2>3, <2>4 DEF ComponentInv
  <1>5. CASE Finish(c, Failed(c))
    <2>1. stage'[c] = "send" /\ out'[c].err
      BY <1>1, <1>5 DEF Finish, Failed, Outputs
    <2>2. QED
      BY <1>3, <2>1 DEF ComponentInv
  <1>6. CASE /\ world[c].atts # {} /\ world[c].input
             /\ stage' = [stage EXCEPT ![c] = "evaluate"]
             /\ UNCHANGED out
    <2>1. stage'[c] = "evaluate" /\ out'[c] = out[c]
      BY <1>1, <1>6
    <2>2. QED
      BY <1>1, <1>2, <1>6, <2>1 DEF ComponentInv
  <1>7. QED
    BY <1>4, <1>5, <1>6

LEMMA EvaluateKeeps ==
  ASSUME TypeOK, NEW w \in 0..Workers, NEW c \in Components, ComponentInv(c),
         Evaluate(w)!(c)
  PROVE  ComponentInv(c)'
  <1>1. /\ out \in [Components -> Outputs] /\ stage \in [Components -> Stages]
        /\ judged \in [Components -> [Evaluators -> MaybeTime]]
        /\ next \in [Components -> 1..(NumEvaluators + 1)]
        /\ stage[c] = "evaluate"
    BY DEF TypeOK, At
  <1>2. UNCHANGED world
    BY DEF inputs
  <1>3. CASE next[c] \in world[c].errs
    <2>1. Finish(c, Failed(c)) /\ UNCHANGED <<next, judged>>
      BY <1>3
    <2>2. stage'[c] = "send" /\ out'[c].err
      BY <1>1, <2>1 DEF Finish, Failed, Outputs
    <2>3. QED
      BY <2>1, <2>2 DEF ComponentInv
  <1>4. CASE next[c] \notin world[c].errs
    <2>1. PICK t \in EffectiveTime :
            /\ judged' = [judged EXCEPT ![c][next[c]] = t]
            /\ next' = [next EXCEPT ![c] = next[c] + 1]
            /\ UNCHANGED <<stage, out>>
      BY <1>4
    <2>2. /\ next'[c] = next[c] + 1
          /\ \A e \in Evaluators : judged'[c][e] =
               IF e = next[c] THEN t ELSE judged[c][e]
      BY <1>1, <2>1
    <2>3. ASSUME NEW e \in Evaluators PROVE judged'[c][e] # NoTime <=> e < next'[c]
      <3>1. judged[c][e] # NoTime <=> e < next[c]
        BY DEF ComponentInv
      <3>2. e \in Int /\ next[c] \in Int
        BY <1>1, CountAssumption DEF Evaluators
      <3>3. t # NoTime
        BY ReadTime
      <3>4. QED
        BY <2>2, <3>1, <3>2, <3>3
    <2>4. QED
      BY <1>1, <1>2, <2>1, <2>3 DEF ComponentInv
  <1>5. QED
    BY <1>3, <1>4

LEMMA PolicyKeeps ==
  ASSUME TypeOK, NEW w \in 0..Workers, NEW c \in Components, ComponentInv(c),
         SetPolicyCheck(w)!(c)
  PROVE  ComponentInv(c)'
  <1> DEFINE passed == \A e \in Evaluators : <<e, judged[c][e]>> \notin world[c].fails
             o == [out[c] EXCEPT !.checks["policy"] = Status(passed)]
  <1>1. /\ out \in [Components -> Outputs] /\ stage \in [Components -> Stages]
        /\ next \in [Components -> 1..(NumEvaluators + 1)]
        /\ stage[c] = "evaluate" /\ next[c] > NumEvaluators
    BY DEF TypeOK, At
  <1>2. UNCHANGED <<world, next, judged>>
    BY DEF inputs
  <1>3. stage'[c] = "send" /\ out'[c] = o
    BY <1>1 DEF Finish
  <1>4. /\ o.err = FALSE /\ o.checks["policy"] = Status(passed)
        /\ \A k \in Checks : k # "policy" => o.checks[k] = out[c].checks[k]
    BY <1>1 DEF Outputs, Checks, ComponentInv
  <1>5. /\ o.checks["access"] = "pass" /\ o.checks["attestation"] = "pass"
        /\ o.checks["signature"] = Status(world[c].sig)
        /\ o.checks["syntax"] = Status(world[c].syntax /\ world[c].atts # {})
    BY <1>1, <1>4 DEF Checks, ComponentInv
  <1>6. \A k \in Checks : k \in {"access", "attestation", "signature", "syntax", "policy"}
    BY DEF Checks
  <1>7. Success(o) <=> world[c].sig /\ world[c].syntax /\ world[c].atts # {} /\ passed
    BY <1>4, <1>5, <1>6 DEF Success, Violations, Status, Checks
  <1>8. \A e \in Evaluators : judged[c][e] # NoTime
    BY <1>1, CountAssumption DEF ComponentInv, Evaluators
  <1>9. /\ world[c].ref /\ world[c].access /\ world[c].resolve /\ world[c].input
        /\ world[c].attSig
    BY <1>1 DEF ComponentInv
  <1>10. Acceptable(c) <=> world[c].sig /\ world[c].syntax /\ world[c].atts # {} /\ passed
    BY <1>8, <1>9 DEF Acceptable
  <1>11. Acceptable(c)' <=> Acceptable(c)
    BY <1>2 DEF Acceptable
  <1>12. Success(out[c])' <=> Success(o)
    BY <1>3 DEF Success, Violations
  <1>13. QED
    BY <1>2, <1>3, <1>7, <1>10, <1>11, <1>12 DEF ComponentInv

LEMMA OutputStep == IInv /\ [Next]_vars => OutputInv'
  <1> SUFFICES ASSUME TypeOK, MainInv, OutputInv, [Next]_vars, NEW d \in Components
               PROVE  ComponentInv(d)'
    BY DEF IInv, OutputInv
  <1>0. ComponentInv(d)
    BY DEF OutputInv
  <1>1. ASSUME NEW w \in 0..Workers, Pipeline(w) PROVE ComponentInv(d)'
    <2>1. CASE Moves(w, d)
      <3>1. ASSUME NEW c \in Components, At(w, c, stage[c]) PROVE c = d
        BY <2>1, <3>1 DEF Moves, At
      <3>2. CASE AccessImage(w)
        BY <1>0, <3>1, <3>2, AccessKeeps DEF AccessImage, At
      <3>3. CASE VerifySignatures(w)
        BY <1>0, <3>1, <3>3, VerifyKeeps DEF VerifySignatures, At
      <3>4. CASE SetAttestationTime(w)
        BY <1>0, <3>1, <3>4, TimeKeeps DEF SetAttestationTime, At
      <3>5. CASE WriteInput(w)
        BY <1>0, <3>1, <3>5, InputKeeps DEF WriteInput, At
      <3>6. CASE Evaluate(w)
        BY <1>0, <3>1, <3>6, EvaluateKeeps DEF Evaluate, At
      <3>7. CASE SetPolicyCheck(w)
        BY <1>0, <3>1, <3>7, PolicyKeeps DEF SetPolicyCheck, At
      <3>8. QED
        BY <1>1, <3>2, <3>3, <3>4, <3>5, <3>6, <3>7 DEF Pipeline
    <2>2. CASE ~Moves(w, d)
      <3>1. PICK c \in Components : Moves(w, c)
        BY <1>1, PipelineMoves
      <3>2. c # d
        BY <2>2, <3>1
      <3>3. /\ out'[d] = out[d] /\ next'[d] = next[d] /\ judged'[d] = judged[d]
            /\ stage'[d] = stage[d] /\ UNCHANGED world
        BY <3>1, <3>2 DEF Moves, inputs, TypeOK
      <3>4. QED
        BY <1>0, <3>3, ComponentKept
    <2>3. QED
      BY <2>1, <2>2
  <1>2. ASSUME NEW w \in 0..Workers, ReceiveJob(w) PROVE ComponentInv(d)'
    <2>1. UNCHANGED <<world, out, next, judged>>
      BY <1>2 DEF ReceiveJob, inputs, imageVars
    <2>2. \/ stage'[d] = stage[d]
          \/ stage[d] = "jobs" /\ stage'[d] = "access"
      BY <1>2 DEF ReceiveJob, TypeOK
    <2>3. QED
      BY <1>0, <2>1, <2>2, ComponentKept
  <1>3. ASSUME NEW w \in 0..Workers, SendResult(w) PROVE ComponentInv(d)'
    <2>1. UNCHANGED <<world, out, next, judged>>
      BY <1>3 DEF SendResult, inputs, imageVars
    <2>2. \/ stage'[d] = stage[d]
          \/ stage[d] = "send" /\ stage'[d] = "results"
      BY <1>3 DEF SendResult, At, TypeOK
    <2>3. QED
      BY <1>0, <2>1, <2>2, ComponentKept
  <1>4. ASSUME NEW w \in 0..Workers, WorkerDone(w) PROVE ComponentInv(d)'
    BY <1>0, <1>4, ComponentKept DEF WorkerDone, inputs, imageVars
  <1>5. CASE QueueJob
    <2>1. UNCHANGED <<world, out, next, judged>>
      BY <1>5 DEF QueueJob, inputs, imageVars
    <2>2. stage[sent + 1] = "snapshot"
      BY <1>5, CountAssumption DEF QueueJob, TypeOK, MainInv, Components
    <2>3. \/ stage'[d] = stage[d]
          \/ stage[d] = "snapshot" /\ stage'[d] = "jobs"
      BY <1>5, <2>2 DEF QueueJob, TypeOK
    <2>4. QED
      BY <1>0, <2>1, <2>3, ComponentKept
  <1>6. CASE CollectResult
    <2>1. UNCHANGED <<world, out, next, judged>>
      BY <1>6 DEF CollectResult, inputs, imageVars
    <2>2. \/ stage'[d] = stage[d]
          \/ stage[d] = "results" /\ stage'[d] = "received"
      BY <1>6 DEF CollectResult, TypeOK
    <2>3. QED
      BY <1>0, <2>1, <2>2, ComponentKept
  <1>7. CASE \/ CreateEvaluator \/ CreateEvaluatorFails \/ StartWorkers \/ CloseJobs
             \/ CloseResults \/ NewReport \/ NewReportFails \/ WriteAll
             \/ VSASignerFails \/ Conclude \/ UNCHANGED vars
    <2>1. UNCHANGED <<world, stage, out, next, judged>>
      BY <1>7, MainStages DEF inputs, imageVars
    <2>2. QED
      BY <1>0, <2>1, ComponentKept
  <1>8. QED
    BY <1>1, <1>2, <1>3, <1>4, <1>5, <1>6, <1>7, StepCases

LEMMA ReportStep == IInv /\ [Next]_vars => ReportInv'
  <1> SUFFICES ASSUME TypeOK, MainInv, ReportInv, [Next]_vars PROVE ReportInv'
    BY DEF IInv
  <1>0. ASSUME UNCHANGED <<out, stage>>
        PROVE  /\ Received' = Received /\ AllErrors' = AllErrors
               /\ \A c \in Components : Success(out[c])' <=> Success(out[c])
    BY <1>0 DEF Received, AllErrors, Success, Violations
  <1>1. ASSUME NEW w \in 0..Workers, Pipeline(w) \/ ReceiveJob(w) \/ SendResult(w)
        PROVE  ReportInv'
    <2>1. WorkerMove
      BY <1>1, WorkerMoves
    <2>2. Received # Components
      BY <2>1 DEF WorkerMove, Received
    <2>3. ~report.created /\ main \notin {"report", "write", "vsa"}
      BY <2>2 DEF ReportInv
    <2>4. UNCHANGED <<main, report, exit>>
      BY <2>1 DEF WorkerMove, mainVars
    <2>5. exit \notin {"ok", "failure"}
      BY <2>3 DEF ReportInv
    <2>6. QED
      BY <2>3, <2>4, <2>5 DEF ReportInv
  <1>2. ASSUME NEW w \in 0..Workers, WorkerDone(w) PROVE ReportInv'
    <2>1. UNCHANGED <<out, stage, strict, main, report, exit>>
      BY <1>2 DEF WorkerDone, inputs, mainVars, imageVars
    <2>2. QED
      BY <1>0, <2>1 DEF ReportInv
  <1>3. CASE QueueJob \/ CollectResult
    <2>1. Received # Components
      <3>1. CASE QueueJob
        <4>1. sent + 1 \in Components /\ stage[sent + 1] = "snapshot"
          BY <3>1, CountAssumption DEF QueueJob, TypeOK, MainInv, Components
        <4>2. QED
          BY <4>1 DEF Received
      <3>2. CASE CollectResult
        BY <3>2 DEF CollectResult, Received
      <3>3. QED
        BY <1>3, <3>1, <3>2
    <2>2. ~report.created /\ main \notin {"report", "write", "vsa"}
      BY <2>1 DEF ReportInv
    <2>3. UNCHANGED <<main, report, exit>> /\ exit \notin {"ok", "failure"}
      BY <1>3, <2>2 DEF QueueJob, CollectResult, ReportInv
    <2>4. QED
      BY <2>2, <2>3 DEF ReportInv
  <1>4. CASE CreateEvaluator \/ CreateEvaluatorFails \/ StartWorkers \/ CloseJobs
    <2>1. /\ UNCHANGED <<out, stage, strict, report>>
          /\ main' \in {"evaluators", "queue", "collect", "returned"}
          /\ exit' \in {exit, "error"}
      BY <1>4 DEF CreateEvaluator, CreateEvaluatorFails, StartWorkers, CloseJobs, Return,
                  inputs, imageVars
    <2>2. QED
      BY <1>0, <2>1 DEF ReportInv
  <1>5. CASE CloseResults
    <2>1. Received = Components
      BY <1>5, ReceivedCount DEF CloseResults, MainInv
    <2>2. UNCHANGED <<out, stage, strict, report>>
      BY <1>5 DEF CloseResults, inputs, imageVars
    <2>3. \/ AllErrors # {} /\ main' = "returned" /\ exit' = "error"
          \/ AllErrors = {} /\ main' = "report" /\ exit' = exit
      BY <1>5 DEF CloseResults, Return
    <2>4. QED
      BY <1>0, <2>1, <2>2, <2>3 DEF ReportInv
  <1>6. CASE NewReport
    <2>1. UNCHANGED <<out, stage, strict, exit>> /\ main = "report" /\ main' = "write"
      BY <1>6 DEF NewReport, inputs, imageVars
    <2>2. Received = Components /\ AllErrors = {} /\ exit = "running"
      BY <2>1 DEF ReportInv, MainInv, TypeOK
    <2>3. /\ report'.components = Components
          /\ report'.success <=> \A c \in Components : Success(out[c])
          /\ report'.created
      BY <1>6, <2>2 DEF NewReport
    <2>4. QED
      BY <1>0, <2>1, <2>2, <2>3 DEF ReportInv
  <1>7. CASE NewReportFails \/ VSASignerFails
    <2>1. UNCHANGED <<out, stage, strict, report>> /\ main' = "returned" /\ exit' = "error"
      BY <1>7 DEF NewReportFails, VSASignerFails, Return, inputs, imageVars
    <2>2. QED
      BY <1>0, <2>1 DEF ReportInv
  <1>8. CASE WriteAll
    <2>1. /\ UNCHANGED <<out, stage, strict>> /\ main = "write"
          /\ main' \in {"vsa", "returned"} /\ exit' \in {exit, "error"}
          /\ report' = [report EXCEPT !.written = TRUE]
      BY <1>8 DEF WriteAll, Return, inputs, imageVars
    <2>2. /\ report'.created = report.created /\ report'.success = report.success
          /\ report'.components = report.components
      BY <2>1 DEF TypeOK
    <2>3. QED
      BY <1>0, <2>1, <2>2 DEF ReportInv
  <1>9. CASE Conclude
    <2>1. /\ UNCHANGED <<out, stage, strict, report>> /\ main = "vsa" /\ main' = "returned"
          /\ exit' = IF strict /\ ~report.success THEN "failure" ELSE "ok"
      BY <1>9 DEF Conclude, Return, inputs, imageVars
    <2>2. QED
      BY <1>0, <2>1 DEF ReportInv
  <1>10. CASE UNCHANGED vars
    <2>1. UNCHANGED <<out, stage, strict, main, report, exit>>
      BY <1>10 DEF vars, inputs, mainVars, imageVars
    <2>2. QED
      BY <1>0, <2>1 DEF ReportInv
  <1>11. QED
    BY <1>1, <1>2, <1>3, <1>4, <1>5, <1>6, <1>7, <1>8, <1>9, <1>10, StepCases

LEMMA InitInv == Init => IInv
  <1> SUFFICES ASSUME Init PROVE IInv
    OBVIOUS
  <1>1. TypeOK
    BY InitType
  <1>2. HolderInv
    BY DEF Init, HolderInv, Busy
  <1>3. MainInv
    <2>1. Received = {}
      BY DEF Init, Received
    <2>2. Cardinality(Received) = 0
      BY <2>1, FS_EmptySet
    <2>3. QED
      BY <2>2 DEF Init, MainInv
  <1>4. OutputInv
    BY CountAssumption DEF Init, OutputInv, ComponentInv, Evaluators
  <1>5. ReportInv
    BY DEF Init, ReportInv, NoReport
  <1>6. QED
    BY <1>1, <1>2, <1>3, <1>4, <1>5 DEF IInv

\* The invariant of pool, pipeline and main holds throughout (cmd/validate/image.go,
\* 307-547, and internal/image/validate.go, 39-142).
THEOREM Invariance == Spec => []IInv
  <1>1. IInv /\ [Next]_vars => IInv'
    BY TypeStep, HolderStep, MainInvStep, OutputStep, ReportStep DEF IInv
  <1>2. QED
    BY <1>1, InitInv, PTL DEF Spec

\* The report speaks of every component and calls the snapshot a success exactly when
\* every component passed every check and every evaluator (image.go, 401-457).
THEOREM ReportIsExact == Spec => []ReportExact
  <1>1. IInv => ReportExact
    <2> SUFFICES ASSUME IInv, report.created PROVE ReportExact
      BY DEF ReportExact
    <2>1. Received = Components /\ AllErrors = {} /\ report.components = Components
      BY DEF IInv, ReportInv
    <2>2. \A c \in Components : stage[c] = "received" /\ ~out[c].err
      BY <2>1 DEF Received, AllErrors
    <2>3. \A c \in Components : Success(out[c]) <=> Acceptable(c)
      BY <2>2 DEF IInv, OutputInv, ComponentInv
    <2>4. QED
      BY <2>1, <2>3 DEF IInv, ReportInv, ReportExact
  <1>2. QED
    BY <1>1, Invariance, PTL

\* The exit status under --strict tells whether every component is acceptable
\* (image.go, 542-546).
THEOREM ExitIsSound == Spec => []ExitSound
  <1>1. IInv /\ ReportExact => ExitSound
    BY DEF IInv, ReportInv, ReportExact, ExitSound
  <1>2. QED
    BY <1>1, Invariance, ReportIsExact, PTL

\* No goroutine validates anything once the results channel is closed or RunE has
\* returned and destroyed the evaluators (image.go, 349, 406 and 433-446).
THEOREM NoneInFlight == Spec => []NothingInFlight
  <1>1. IInv => NothingInFlight
    <2> SUFFICES ASSUME TypeOK, MainInv, resultsClosed \/ exit # "running",
                        NEW c \in Components
                 PROVE  stage[c] \notin Busy
      BY DEF IInv, NothingInFlight
    <2>1. Quiet
      BY DEF MainInv, Quiet
    <2>2. stage[c] \in {"snapshot", "received"}
      BY <2>1 DEF Quiet, Received
    <2>3. QED
      BY <2>2 DEF Busy
  <1>2. QED
    BY <1>1, Invariance, PTL

-------------------------------------------------------------------------------
(* One instant for the whole run *)

\* Whatever the workers do, the policy keeps the time it was created with, unless the
\* time of the attestations was asked for in so many letters.
TimeKept == ChoosenTime # "attestation" => effectiveTime = parseEffectiveTime

LEMMA TimeKeptStep == TypeOK /\ TimeKept /\ [Next]_vars => TimeKept'
  <1> SUFFICES ASSUME TypeOK, TimeKept, [Next]_vars, ChoosenTime # "attestation"
               PROVE  effectiveTime' = effectiveTime
    BY DEF TimeKept, parseEffectiveTime
  <1>1. ASSUME NEW w \in 0..Workers, Pipeline(w) PROVE effectiveTime' = effectiveTime
    <2>1. CASE SetAttestationTime(w)
      BY <2>1 DEF SetAttestationTime, AttestationTime
    <2>2. CASE AccessImage(w)
      BY <2>2 DEF AccessImage
    <2>3. CASE VerifySignatures(w)
      BY <2>3 DEF VerifySignatures
    <2>4. CASE WriteInput(w) \/ Evaluate(w) \/ SetPolicyCheck(w)
      BY <2>4 DEF WriteInput, Evaluate, SetPolicyCheck
    <2>5. QED
      BY <1>1, <2>1, <2>2, <2>3, <2>4 DEF Pipeline
  <1>2. ASSUME NEW w \in 0..Workers, ReceiveJob(w) \/ SendResult(w) \/ WorkerDone(w)
        PROVE  effectiveTime' = effectiveTime
    BY <1>2 DEF ReceiveJob, SendResult, WorkerDone
  <1>3. CASE QueueJob \/ CollectResult
    BY <1>3 DEF QueueJob, CollectResult
  <1>4. CASE \/ CreateEvaluator \/ CreateEvaluatorFails \/ StartWorkers \/ CloseJobs
             \/ CloseResults \/ NewReport \/ NewReportFails \/ WriteAll
             \/ VSASignerFails \/ Conclude \/ UNCHANGED vars
    BY <1>4 DEF CreateEvaluator, CreateEvaluatorFails, StartWorkers, CloseJobs, CloseResults,
                NewReport, NewReportFails, WriteAll, VSASignerFails, Conclude, vars
  <1>5. QED
    BY <1>1, <1>2, <1>3, <1>4, StepCases

LEMMA UniformStep == TypeOK /\ TimeKept /\ UniformTime /\ [Next]_vars => UniformTime'
  <1> DEFINE T == parseEffectiveTime
  <1> SUFFICES ASSUME TypeOK, TimeKept, UniformTime, [Next]_vars, T # NoTime
               PROVE  /\ \A e \in Evaluators : builtAt'[e] \in {NoTime, T}
                      /\ \A c \in Components, e \in Evaluators : judged'[c][e] \in {NoTime, T}
                      /\ report'.created => report'.time = T
    BY DEF UniformTime, parseEffectiveTime
  <1>1. EffectiveTime = {T}
    BY DEF TimeKept, EffectiveTime, parseEffectiveTime
  <1>2. /\ \A e \in Evaluators : builtAt[e] \in {NoTime, T}
        /\ \A c \in Components, e \in Evaluators : judged[c][e] \in {NoTime, T}
        /\ report.created => report.time = T
    BY DEF UniformTime
  <1> HIDE DEF T
  <1> USE DEF mainVars, imageVars
  <1>3. ASSUME UNCHANGED <<builtAt, judged, report>>
        PROVE  /\ \A e \in Evaluators : builtAt'[e] \in {NoTime, T}
               /\ \A c \in Components, e \in Evaluators : judged'[c][e] \in {NoTime, T}
               /\ report'.created => report'.time = T
    BY <1>2, <1>3
  <1>4. ASSUME NEW w \in 0..Workers, Evaluate(w)
        PROVE  /\ UNCHANGED <<builtAt, report>>
               /\ \A c \in Components, e \in Evaluators : judged'[c][e] \in {NoTime, T}
    <2>1. PICK c \in Components : Evaluate(w)!(c)
      BY <1>4 DEF Evaluate
    <2>2. judged' \in {judged, [judged EXCEPT ![c][next[c]] = T]}
      BY <1>1, <2>1
    <2>3. \A d \in Components, e \in Evaluators : judged'[d][e] \in {judged[d][e], T}
      BY <2>2 DEF TypeOK
    <2>4. QED
      BY <1>2, <2>1, <2>3
  <1>5. ASSUME NEW w \in 0..Workers, Pipeline(w), ~Evaluate(w)
        PROVE  UNCHANGED <<builtAt, judged, report>>
    <2>1. CASE AccessImage(w)
      BY <2>1 DEF AccessImage
    <2>2. CASE VerifySignatures(w)
      BY <2>2 DEF VerifySignatures
    <2>3. CASE SetAttestationTime(w)
      BY <2>3 DEF SetAttestationTime
    <2>4. CASE WriteInput(w) \/ SetPolicyCheck(w)
      BY <2>4 DEF WriteInput, SetPolicyCheck
    <2>5. QED
      BY <1>5, <2>1, <2>2, <2>3, <2>4 DEF Pipeline
  <1>6. ASSUME NEW w \in 0..Workers, ReceiveJob(w) \/ SendResult(w) \/ WorkerDone(w)
        PROVE  UNCHANGED <<builtAt, judged, report>>
    BY <1>6 DEF ReceiveJob, SendResult, WorkerDone
  <1>7. CASE CreateEvaluator
    <2>1. /\ builtAt' = [builtAt EXCEPT ![evaluators + 1] = T]
          /\ UNCHANGED <<judged, report>>
      BY <1>1, <1>7 DEF CreateEvaluator
    <2>2. \A e \in Evaluators : builtAt'[e] \in {builtAt[e], T}
      BY <2>1 DEF TypeOK
    <2>3. QED
      BY <1>2, <2>1, <2>2
  <1>8. CASE NewReport
    BY <1>1, <1>2, <1>8 DEF NewReport
  <1>9. CASE WriteAll
    <2>1. report'.created = report.created /\ report'.time = report.time
      BY <1>9 DEF WriteAll, TypeOK
    <2>2. UNCHANGED <<builtAt, judged>>
      BY <1>9 DEF WriteAll
    <2>3. QED
      BY <1>2, <2>1, <2>2
  <1>10. CASE \/ QueueJob \/ CollectResult \/ CreateEvaluatorFails \/ StartWorkers
              \/ CloseJobs \/ CloseResults \/ NewReportFails \/ VSASignerFails
              \/ Conclude \/ UNCHANGED vars
    <2>1. UNCHANGED <<builtAt, judged, report>>
      BY <1>10 DEF QueueJob, CollectResult, CreateEvaluatorFails, StartWorkers, CloseJobs,
                   CloseResults, NewReportFails, VSASignerFails, Conclude, vars
    <2>2. QED
      BY <1>3, <2>1
  <1>11. QED
    BY <1>2, <1>3, <1>4, <1>5, <1>6, <1>7, <1>8, <1>9, <1>10, StepCases

\* Unless the time of the attestations was asked for, every evaluator is configured,
\* every component judged and the report dated at one and the same instant, in whatever
\* order the goroutines run (internal/policy/policy.go, 358-375).
THEOREM TimeIsUniform == Spec => []UniformTime
  <1>1. Init => TimeKept /\ UniformTime
    BY DEF Init, TimeKept, UniformTime, NoReport
  <1>2. QED
    BY <1>1, TypeCorrect, TimeKeptStep, UniformStep, PTL DEF Spec

-------------------------------------------------------------------------------
(* The command implements SnapshotVerdict, but for its fairness *)

Verdicts == [c \in Components |-> Verdict(c)]

\* A verdict depends on the stage and the Output of its component alone.
LEMMA VerdictKept ==
  ASSUME NEW c \in Components,
         \/ out'[c] = out[c] /\ stage'[c] = stage[c]
         \/ {stage[c], stage'[c]} \cap {"results", "received"} = {}
         \/ out'[c] = out[c] /\ {stage[c], stage'[c]} \subseteq {"results", "received"}
  PROVE  Verdict(c)' = Verdict(c)
  BY DEF Verdict, Success, Violations

LEMMA VerdictOf ==
  ASSUME NEW c \in Components
  PROVE  /\ stage[c] \notin {"results", "received"} => Verdict(c) = "pending"
         /\ stage[c] \in {"results", "received"} =>
              /\ Verdict(c) \in {"accepted", "rejected", "error"}
              /\ Verdict(c) = "error" <=> out[c].err
              /\ Verdict(c) = "accepted" <=> Success(out[c])
  BY DEF Verdict, Success

\* A step that changes no verdict and does not return is invisible.
LEMMA Invisible ==
  ASSUME UNCHANGED <<strict, exit>>, \A c \in Components : Verdict(c)' = Verdict(c)
  PROVE  UNCHANGED Abstract!vars
  <1>1. Verdicts' = Verdicts
    BY DEF Verdicts
  <1>2. QED
    BY <1>1 DEF Verdicts, Abstract!vars

LEMMA RefinesInit == Init => Abstract!Init
  BY DEF Init, Abstract!Init, Abstract!Components, Components, Verdict

\* An error of the command's own comes before the first component is judged or after
\* the last one.
LEMMA RefinesFail ==
  ASSUME exit = "running", exit' = "error", UNCHANGED <<strict, out, stage>>,
         (\A c \in Components : stage[c] = "snapshot") \/ Received = Components
  PROVE  Abstract!Fail
  <1>1. \A c \in Components : Verdict(c)' = Verdict(c)
    BY VerdictKept
  <1>2. Verdicts' = Verdicts
    BY <1>1 DEF Verdicts
  <1>3. \/ \A c \in Components : Verdict(c) = "pending"
        \/ \A c \in Components : Verdict(c) \in {"accepted", "rejected", "error"}
    BY VerdictOf DEF Received
  <1>4. QED
    BY <1>2, <1>3 DEF Abstract!Fail, Abstract!AllAre, Abstract!Components, Components, Verdicts

LEMMA RefinesJudge ==
  ASSUME IInv, NEW w \in 0..Workers, SendResult(w)
  PROVE  \E c \in Components : Abstract!Judge(c)
  <1>1. PICK c \in Components : /\ stage[c] = "send"
                                 /\ stage' = [stage EXCEPT ![c] = "results"]
                                 /\ UNCHANGED <<strict, out, exit, main>>
    BY DEF SendResult, At, inputs, imageVars, mainVars
  <1>2. exit = "running"
    <2>1. ~Quiet
      BY <1>1 DEF Quiet, Received
    <2>2. QED
      BY <2>1 DEF IInv, MainInv
  <1>3. stage'[c] = "results" /\ \A d \in Components \ {c} : stage'[d] = stage[d]
    BY <1>1 DEF IInv, TypeOK
  <1>4. Verdict(c) = "pending" /\ \A d \in Components \ {c} : Verdict(d)' = Verdict(d)
    BY <1>1, <1>3, VerdictOf, VerdictKept
  <1>5. Verdict(c)' \in {"accepted", "rejected", "error"}
    BY <1>3 DEF Verdict
  <1>6. Verdicts' = [Verdicts EXCEPT ![c] = Verdict(c)']
    BY <1>4 DEF Verdicts
  <1>7. QED
    BY <1>1, <1>2, <1>4, <1>5, <1>6 DEF Abstract!Judge, Verdicts

LEMMA RefinesAnswer == ASSUME IInv, Conclude PROVE Abstract!Answer
  <1>1. /\ main = "vsa" /\ UNCHANGED <<strict, out, stage>>
        /\ exit' = IF strict /\ ~report.success THEN "failure" ELSE "ok"
    BY DEF Conclude, Return, inputs, imageVars
  <1>2. exit = "running" /\ Received = Components /\ AllErrors = {} /\ report.created
    BY <1>1 DEF IInv, TypeOK, MainInv, ReportInv
  <1>3. report.success <=> \A c \in Components : Success(out[c])
    BY <1>2 DEF IInv, ReportInv
  <1>4. \A c \in Components : stage[c] = "received" /\ ~out[c].err
    BY <1>2 DEF Received, AllErrors
  <1>5. \A c \in Components :
          /\ Verdict(c)' = Verdict(c)
          /\ Verdict(c) \in {"accepted", "rejected"}
          /\ Verdict(c) = "accepted" <=> Success(out[c])
    <2> SUFFICES ASSUME NEW c \in Components
                 PROVE  /\ Verdict(c)' = Verdict(c)
                        /\ Verdict(c) \in {"accepted", "rejected"}
                        /\ Verdict(c) = "accepted" <=> Success(out[c])
      OBVIOUS
    <2>1. Verdict(c)' = Verdict(c)
      BY <1>1, VerdictKept
    <2>2. QED
      BY <1>4, <2>1, VerdictOf
  <1>6. Verdicts' = Verdicts
    BY <1>5 DEF Verdicts
  <1>7. Abstract!AllAre({"accepted", "rejected"})
    BY <1>5 DEF Abstract!AllAre, Abstract!Components, Components
  <1>8. Abstract!AllAre({"accepted"}) <=> report.success
    BY <1>3, <1>5 DEF Abstract!AllAre, Abstract!Components, Components
  <1>9. QED
    BY <1>1, <1>2, <1>6, <1>7, <1>8 DEF Abstract!Answer, Verdicts

LEMMA RefinesStep == IInv /\ [Next]_vars => [Abstract!Next]_(Abstract!vars)
  <1> SUFFICES ASSUME IInv, [Next]_vars PROVE Abstract!Next \/ UNCHANGED Abstract!vars
    OBVIOUS
  <1> USE DEF inputs, mainVars, imageVars
  <1>1. ASSUME NEW w \in 0..Workers, Pipeline(w) PROVE UNCHANGED Abstract!vars
    <2>1. PICK c \in Components : Moves(w, c)
      BY <1>1, PipelineMoves DEF IInv
    <2>2. /\ {stage[c], stage'[c]} \cap {"results", "received"} = {}
          /\ \A d \in Components \ {c} : stage'[d] = stage[d] /\ out'[d] = out[d]
      BY <2>1 DEF Moves, Busy, IInv, TypeOK
    <2>3. \A d \in Components : Verdict(d)' = Verdict(d)
      BY <2>2, VerdictKept
    <2>4. QED
      BY <2>1, <2>3, Invisible DEF Moves
  <1>2. ASSUME NEW w \in 0..Workers, ReceiveJob(w) PROVE UNCHANGED Abstract!vars
    <2>1. PICK c \in Components : stage[c] = "jobs" /\ stage' = [stage EXCEPT ![c] = "access"]
      BY <1>2 DEF ReceiveJob
    <2>2. \A d \in Components : \/ stage'[d] = stage[d]
                                 \/ {stage[d], stage'[d]} \cap {"results", "received"} = {}
      BY <2>1 DEF IInv, TypeOK
    <2>3. UNCHANGED <<strict, exit, out>>
      BY <1>2 DEF ReceiveJob
    <2>4. \A d \in Components : Verdict(d)' = Verdict(d)
      BY <2>2, <2>3, VerdictKept
    <2>5. QED
      BY <2>3, <2>4, Invisible
  <1>3. ASSUME NEW w \in 0..Workers, SendResult(w) PROVE Abstract!Next
    BY <1>3, RefinesJudge DEF Abstract!Next, Abstract!Components, Components
  <1>4. ASSUME NEW w \in 0..Workers, WorkerDone(w) PROVE UNCHANGED Abstract!vars
    <2>1. UNCHANGED <<strict, exit, out, stage>>
      BY <1>4 DEF WorkerDone
    <2>2. QED
      BY <2>1, VerdictKept, Invisible
  <1>5. CASE QueueJob
    <2>1. sent + 1 \in Components /\ stage[sent + 1] = "snapshot"
      BY <1>5, CountAssumption DEF QueueJob, IInv, TypeOK, MainInv, Components
    <2>2. \A d \in Components : \/ stage'[d] = stage[d]
                                 \/ {stage[d], stage'[d]} \cap {"results", "received"} = {}
      BY <1>5, <2>1 DEF QueueJob, IInv, TypeOK
    <2>3. UNCHANGED <<strict, exit, out>>
      BY <1>5 DEF QueueJob
    <2>4. \A d \in Components : Verdict(d)' = Verdict(d)
      BY <2>2, <2>3, VerdictKept
    <2>5. QED
      BY <2>3, <2>4, Invisible
  <1>6. CASE CollectResult
    <2>1. \A d \in Components : \/ stage'[d] = stage[d]
                                 \/ {stage[d], stage'[d]} \subseteq {"results", "received"}
      BY <1>6 DEF CollectResult, IInv, TypeOK
    <2>2. UNCHANGED <<strict, exit, out>>
      BY <1>6 DEF CollectResult
    <2>3. \A d \in Components : Verdict(d)' = Verdict(d)
      BY <2>1, <2>2, VerdictKept
    <2>4. QED
      BY <2>2, <2>3, Invisible
  <1>7. CASE CreateEvaluatorFails
    <2>1. main = "evaluators" /\ exit' = "error" /\ UNCHANGED <<strict, out, stage>>
      BY <1>7 DEF CreateEvaluatorFails, Return
    <2>2. exit = "running" /\ \A c \in Components : stage[c] = "snapshot"
      BY <2>1, CountAssumption DEF IInv, TypeOK, MainInv, Components
    <2>3. QED
      BY <2>1, <2>2, RefinesFail DEF Abstract!Next
  <1>8. CASE CloseResults
    <2>1. main = "collect" /\ Received = Components /\ UNCHANGED <<strict, out, stage>>
      BY <1>8, ReceivedCount DEF CloseResults, IInv, MainInv
    <2>2. exit = "running"
      BY <2>1 DEF IInv, TypeOK, MainInv
    <2>3. CASE AllErrors # {}
      BY <1>8, <2>1, <2>2, <2>3, RefinesFail DEF CloseResults, Return, Abstract!Next
    <2>4. CASE AllErrors = {}
      BY <1>8, <2>1, <2>4, VerdictKept, Invisible DEF CloseResults
    <2>5. QED
      BY <2>3, <2>4
  <1>9. CASE NewReportFails \/ VSASignerFails \/ WriteAll
    <2>1. /\ main \in {"report", "write", "vsa"} /\ UNCHANGED <<strict, out, stage>>
          /\ exit' \in {exit, "error"}
      BY <1>9 DEF NewReportFails, VSASignerFails, WriteAll, Return
    <2>2. exit = "running" /\ Received = Components
      BY <2>1 DEF IInv, TypeOK, MainInv
    <2>3. CASE exit' = exit
      BY <2>1, <2>3, VerdictKept, Invisible
    <2>4. CASE exit' = "error"
      BY <2>1, <2>2, <2>4, RefinesFail DEF Abstract!Next
    <2>5. QED
      BY <2>1, <2>3, <2>4
  <1>10. CASE Conclude
    BY <1>10, RefinesAnswer DEF Abstract!Next
  <1>11. CASE CreateEvaluator \/ StartWorkers \/ CloseJobs \/ NewReport \/ UNCHANGED vars
    <2>1. UNCHANGED <<strict, exit, out, stage>>
      BY <1>11 DEF CreateEvaluator, StartWorkers, CloseJobs, NewReport, vars
    <2>2. QED
      BY <2>1, VerdictKept, Invisible
  <1>12. QED
    BY <1>1, <1>2, <1>3, <1>4, <1>5, <1>6, <1>7, <1>8, <1>9, <1>10, <1>11, StepCases

\* Every behaviour of the command is one of SnapshotVerdict's: a component is judged
\* once, when its result is sent, no verdict changes afterwards, and the exit status
\* follows from the verdicts alone; the command never gives up between the first
\* verdict and the last (cmd/validate/image.go, 307-547).
THEOREM ImplementsVerdict == Spec => Abstract!SafetySpec
  BY RefinesInit, RefinesStep, Invariance, PTL DEF Spec, Abstract!SafetySpec
===============================================================================
