--------------------------- MODULE SnapshotVerdict ---------------------------
(***************************************************************************)
(* What `ec validate image` promises, without pool, pipeline or clock:     *)
(* every component of the snapshot is judged once, in any order; the       *)
(* command then answers for the snapshot as a whole, and an error about    *)
(* any component is never turned into an answer.                           *)
(***************************************************************************)
EXTENDS Integers

CONSTANTS NumComponents

VARIABLES
  strict,    \* the --strict flag
  verdict,   \* of each component: "pending", "accepted", "rejected" or "error"
  outcome    \* of the command: "running", "ok", "failure" or "error"

vars == <<strict, verdict, outcome>>

Components == 1..NumComponents

Init ==
  /\ strict \in BOOLEAN
  /\ verdict = [c \in Components |-> "pending"]
  /\ outcome = "running"

\* A verdict is final.
Judge(c) ==
  /\ outcome = "running"
  /\ verdict[c] = "pending"
  /\ \E v \in {"accepted", "rejected", "error"} : verdict' = [verdict EXCEPT ![c] = v]
  /\ UNCHANGED <<strict, outcome>>

AllAre(vs) == \A c \in Components : verdict[c] \in vs

\* --strict decides whether a rejected component is a failure of the command.
Answer ==
  /\ outcome = "running"
  /\ AllAre({"accepted", "rejected"})
  /\ outcome' = IF strict /\ ~AllAre({"accepted"}) THEN "failure" ELSE "ok"
  /\ UNCHANGED <<strict, verdict>>

\* The command may fail for reasons of its own: before the first component is
\* judged (its evaluators), or once all of them are (an error about one, the
\* report, the VSA).  It never leaves components behind half way.
Fail ==
  /\ outcome = "running"
  /\ AllAre({"pending"}) \/ AllAre({"accepted", "rejected", "error"})
  /\ outcome' = "error"
  /\ UNCHANGED <<strict, verdict>>

Next == Answer \/ Fail \/ \E c \in Components : Judge(c)

\* What may happen, and with Spec that an answer is given in the end.
SafetySpec == Init /\ [][Next]_vars

Spec == SafetySpec /\ WF_vars(Next)
=============================================================================
