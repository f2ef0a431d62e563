--------------------------- MODULE ActivityRetry ----------------------------
(***************************************************************************)
(* Temporal as the worker uses it (apps/worker/src/workflows.ts): every    *)
(* workflow runs one activity, with at most MaxAttempts attempts and a     *)
(* start-to-close timeout, without heartbeat.  An attempt that outlives    *)
(* its timeout is not told; Temporal listens to the latest attempt only.   *)
(*                                                                         *)
(* The modules of the worker's activities instantiate this one.            *)
(***************************************************************************)
EXTENDS Naturals

CONSTANTS
  Op,           \* workflows
  MaxAttempts   \* maximumAttempts of the retry policy

VARIABLES
  wf,           \* wf[o]: the workflow of o
  attempts      \* attempts[o]: attempts of its activity so far

Attempt == 1 .. MaxAttempts

RetryTypeOK ==
  /\ wf \in [Op -> {"none", "scheduled", "started", "completed", "failed"}]
  /\ attempts \in [Op -> 0 .. MaxAttempts]

RetryInit ==
  /\ wf = [o \in Op |-> "none"]
  /\ attempts = [o \in Op |-> 0]

WorkflowOpen(o) == wf[o] \in {"scheduled", "started"}

(* Only the latest attempt of an open workflow is listened to. *)
Current(o, k) == wf[o] = "started" /\ attempts[o] = k

(* client.workflow.start. *)
Start(o) ==
  /\ wf' = [wf EXCEPT ![o] = "scheduled"]
  /\ UNCHANGED attempts

(* A worker polls the activity task. *)
Poll(o) ==
  /\ wf[o] = "scheduled"
  /\ wf' = [wf EXCEPT ![o] = "started"]
  /\ attempts' = [attempts EXCEPT ![o] = @ + 1]

(* Mutant of RetryOrGiveUp: one attempt too many. *)
RetryOnceMore(o) == IF attempts[o] <= MaxAttempts THEN "scheduled" ELSE "failed"

RetryOrGiveUp(o) == IF attempts[o] < MaxAttempts THEN "scheduled" ELSE "failed"

(* Attempt k returns; or throws. *)
Returns(o, k) ==
  /\ wf' = IF Current(o, k) THEN [wf EXCEPT ![o] = "completed"] ELSE wf
  /\ UNCHANGED attempts

Throws(o, k) ==
  /\ wf' = IF Current(o, k) THEN [wf EXCEPT ![o] = RetryOrGiveUp(o)] ELSE wf
  /\ UNCHANGED attempts

(* The start-to-close timeout of the latest attempt. *)
Expire(o) ==
  /\ wf[o] = "started"
  /\ wf' = [wf EXCEPT ![o] = RetryOrGiveUp(o)]
  /\ UNCHANGED attempts
=============================================================================
