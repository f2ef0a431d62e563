---------------------------- MODULE JobLifecycle ----------------------------
(***************************************************************************)
(* What the backup_jobs table promises of a job: the abstract              *)
(* specification that BackupExecution implements.                          *)
(*                                                                         *)
(* While work on a job is open its row moves between the states of the     *)
(* job_status enum; once work is closed the row is final, and says what    *)
(* became of the job, except that retention may prune a success.  Less is  *)
(* promised of a stray, a job that two attempts work on or that was        *)
(* dispatched although the dispatcher believes it was not.                 *)
(***************************************************************************)
CONSTANT Job

VARIABLES
  status,       \* the status column; "absent" before, "pruned" after the row
  open,         \* may somebody still work on the job?
  stray         \* jobs that attempts work on unheard

lifeVars == <<status, open, stray>>

LifeInit ==
  /\ status = [j \in Job |-> "absent"]
  /\ open = [j \in Job |-> FALSE]
  /\ stray = {}

Move(j, from, to) ==
  /\ status[j] \in from
  /\ status' = [status EXCEPT ![j] = to]
  /\ UNCHANGED stray

Submit(j) == Move(j, {"absent"}, "queued") /\ open' = [open EXCEPT ![j] = TRUE]

(* The dispatcher marks a job it could not start, and drops it. *)
Refuse(j) ==
  open[j] /\ Move(j, {"queued"}, "failed") /\ open' = [open EXCEPT ![j] = FALSE]

(* An attempt begins: the first one, the retry of a failed one, or of one  *)
(* that succeeded and died before it could say so.                         *)
Begin(j) ==
  open[j] /\ Move(j, {"queued", "failed", "succeeded"}, "running") /\ UNCHANGED open

Succeed(j) == open[j] /\ Move(j, {"running"}, "succeeded") /\ UNCHANGED open

Fail(j) == open[j] /\ Move(j, {"running"}, "failed") /\ UNCHANGED open

(* A crash of the API may end the work on several jobs at once. *)
Close(J) ==
  /\ \A j \in J : open[j]
  /\ open' = [j \in Job |-> open[j] /\ j \notin J]
  /\ UNCHANGED <<status, stray>>

(* One retention statement may prune several jobs. *)
Prune(J) ==
  /\ \A j \in J : status[j] = "succeeded"
  /\ status' = [j \in Job |-> IF j \in J THEN "pruned" ELSE status[j]]
  /\ UNCHANGED <<open, stray>>

(* A job goes astray, or its row is written in an order nobody keeps; it   *)
(* is never queued again, and a pruned row stays away.                     *)
Stray(j) ==
  /\ status[j] # "absent"
  /\ stray' = stray \cup {j}
  /\ \E to \in {"running", "succeeded", "failed"} :
       status' \in {status, [status EXCEPT ![j] = IF @ = "pruned" THEN @ ELSE to]}
  /\ \E still \in BOOLEAN : open' = [open EXCEPT ![j] = still]

LifeNext ==
  \/ \E j \in Job : Submit(j) \/ Refuse(j) \/ Begin(j) \/ Succeed(j) \/ Fail(j) \/ Stray(j)
  \/ \E J \in SUBSET Job : Close(J) \/ Prune(J)

Lifecycle == LifeInit /\ [][LifeNext]_lifeVars
=============================================================================
