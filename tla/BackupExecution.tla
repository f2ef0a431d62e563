-------------------------- MODULE BackupExecution --------------------------
(***************************************************************************)
(* The execution of backup jobs: createBackupActivity of the worker        *)
(* (apps/worker/src/activities.ts), its retries by Temporal                *)
(* (apps/worker/src/workflows.ts), the routes that record and dispatch a   *)
(* job (POST /databases/:id/backups; runSchedule of the API's scheduler),  *)
(* and the retention of scheduled backups.                                 *)
(*                                                                         *)
(* Each database statement, the dump, and each report to Temporal is one   *)
(* step, so attempts of several jobs interleave, and so do attempts of one *)
(* job: the activity has no heartbeat, an attempt that outlives the start- *)
(* to-close timeout is retried while it still runs.                        *)
(*                                                                         *)
(* Abstractions:                                                           *)
(*   - one cluster, one branch, one schedule and one S3 destination;       *)
(*   - jobs are numbered in the order of createdAt;                        *)
(*   - a backup of attempt k of job j is the S3 object <<j, k>>: the key   *)
(*     holds the job and the time of the attempt (backupS3ObjectKey).      *)
(***************************************************************************)
EXTENDS Naturals, FiniteSets

CONSTANTS
  Job,            \* backup jobs, a set of numbers
  Scheduled,      \* jobs recorded by the scheduler (scheduleId not null)
  Uploading,      \* jobs with an S3 destination
  Keep,           \* retentionKeepLast of the schedule
  MaxAttempts,    \* maximumAttempts of the activity's retry policy
  MaxLosses,      \* bound: crashes and failed database statements
  MaxRaces,       \* bound: timeouts of running attempts, lost replies
  Overlapping,    \* BOOLEAN: may a job be recorded while another one runs?
  Restoring,      \* BOOLEAN: may backups be restored?
  Placeholder,    \* an artifact URI local://..., which names no object
  None            \* SQL null

ASSUME JobAssumption == Job \subseteq Nat /\ IsFiniteSet(Job)
ASSUME ScheduledAssumption == Scheduled \subseteq Uploading /\ Uploading \subseteq Job
ASSUME KeepAssumption == Keep \in Nat \ {0}
ASSUME AttemptsAssumption == MaxAttempts \in Nat \ {0}
ASSUME BoundsAssumption == MaxLosses \in Nat /\ MaxRaces \in Nat
ASSUME SwitchAssumption == Overlapping \in BOOLEAN /\ Restoring \in BOOLEAN
ASSUME NoneAssumption == None \notin Nat /\ Placeholder \notin Nat /\ None # Placeholder

VARIABLES
  row,          \* backup_jobs
  schedule,     \* the backup_schedules row: to "here" (the destination), moved, gone
  destination,  \* does the s3_destinations row exist?
  restored,     \* jobs a restore_jobs row references
  refused,      \* history: did the foreign key refuse the last delete of the retention?
  api,          \* api[j]: where the API is in recording and dispatching j
  wf,           \* wf[j]: the createBackup workflow of j
  attempts,     \* attempts[j]: attempts of the activity so far
  run,          \* run[j][k]: where the worker is in attempt k of j
  objects,      \* S3 objects that hold a whole dump
  lost,         \* history: jobs hit by a crash or a failed statement
  raced,        \* history: jobs with a timed-out attempt or a lost reply
  losses, races \* how many of them

vars == <<row, schedule, destination, restored, refused, api, wf, attempts, run, objects,
          lost, raced, losses, races>>

-----------------------------------------------------------------------------
Attempt == 1 .. MaxAttempts

Artifact == Attempt \cup {Placeholder, None}

JobRow == [status: {"absent", "queued", "running", "succeeded", "failed", "pruned"},
           artifact: Artifact]

(* What an attempt holds in memory: whether it read a destination and a    *)
(* schedule id, the artifact it made, the survivors it selected.           *)
Run == [pc: {"idle", "begin", "load", "backup", "succeed", "select", "delete",
             "report", "fail", "rethrow", "over"},
        dest: BOOLEAN,
        sched: BOOLEAN,
        made: Artifact,
        keep: SUBSET Job]

Blank(pc) == [pc |-> pc, dest |-> FALSE, sched |-> FALSE, made |-> None, keep |-> {}]

Present(j) == row[j].status \notin {"absent", "pruned"}

Working(j) == \E k \in Attempt : run[j][k].pc \notin {"idle", "over"}

WorkflowOpen(j) == wf[j] \in {"scheduled", "started"}

(* Nobody will touch the job again. *)
Quiescent(j) == api[j] = "idle" /\ ~WorkflowOpen(j) /\ ~Working(j)

(* Mutants of Newest: oldest first; a limit one too high. *)
Oldest(n, J) == {j \in J : Cardinality({i \in J : i < j}) < n}
NewestAndOne(n, J) == {j \in J : Cardinality({i \in J : i > j}) <= n}

(* What orderBy(desc(createdAt)).limit(keep) selects of a set of jobs. *)
Newest(n, J) == {j \in J : Cardinality({i \in J : i > j}) < n}

SucceededOfSchedule == {j \in Scheduled : row[j].status = "succeeded"}

Init ==
  /\ row = [j \in Job |-> [status |-> "absent", artifact |-> None]]
  /\ schedule = "here"
  /\ destination = TRUE
  /\ restored = {} /\ refused = FALSE
  /\ api = [j \in Job |-> "idle"]
  /\ wf = [j \in Job |-> "none"]
  /\ attempts = [j \in Job |-> 0]
  /\ run = [j \in Job |-> [k \in Attempt |-> Blank("idle")]]
  /\ objects = {}
  /\ lost = {} /\ raced = {} /\ losses = 0 /\ races = 0

faultVars == <<lost, raced, losses, races>>
configVars == <<schedule, destination, restored, refused>>

-----------------------------------------------------------------------------
(***************************************************************************)
(* The API.                                                                *)
(***************************************************************************)

(* The insert; a destination that is gone fails it. *)
RecordJob(j) ==
  /\ row[j].status = "absent"
  /\ j \in Uploading => destination
  /\ \A i \in Job : i < j => row[i].status # "absent"
  /\ Overlapping \/ \A i \in Job : Quiescent(i)
  /\ row' = [row EXCEPT ![j].status = "queued"]
  /\ api' = [api EXCEPT ![j] = "dispatch"]
  /\ UNCHANGED <<configVars, wf, attempts, run, objects, faultVars>>

DispatchAccepted(j) ==
  /\ api[j] = "dispatch"
  /\ wf' = [wf EXCEPT ![j] = "scheduled"]
  /\ api' = [api EXCEPT ![j] = "idle"]
  /\ UNCHANGED <<row, configVars, attempts, run, objects, faultVars>>

(* The scheduler goes on to mark the job; POST /backups answers 503 and    *)
(* leaves it queued.                                                       *)
DispatchThrows(j) ==
  /\ api[j] = "dispatch"
  /\ api' = [api EXCEPT ![j] = IF j \in Scheduled THEN "mark" ELSE "idle"]
  /\ UNCHANGED <<row, configVars, attempts, run, objects>>
  /\ \/ UNCHANGED <<wf, faultVars>>
     \/ /\ races < MaxRaces
        /\ wf' = [wf EXCEPT ![j] = "scheduled"]
        /\ raced' = raced \cup {j} /\ races' = races + 1
        /\ UNCHANGED <<lost, losses>>

MarkNotDispatched(j) ==
  /\ api[j] = "mark"
  /\ row' = IF Present(j) THEN [row EXCEPT ![j].status = "failed"] ELSE row
  /\ api' = [api EXCEPT ![j] = "idle"]
  /\ UNCHANGED <<configVars, wf, attempts, run, objects, faultVars>>

(* The API process dies: whatever it had in hand is dropped. *)
ApiCrash ==
  /\ losses < MaxLosses
  /\ \E j \in Job : api[j] # "idle"
  /\ lost' = lost \cup {j \in Job : api[j] # "idle"}
  /\ losses' = losses + 1
  /\ api' = [j \in Job |-> "idle"]
  /\ UNCHANGED <<row, configVars, wf, attempts, run, objects, raced, races>>

(* PATCH of the schedule with another destination. *)
MoveSchedule ==
  /\ schedule = "here"
  /\ schedule' = "moved"
  /\ UNCHANGED <<row, destination, restored, refused, api, wf, attempts, run, objects, faultVars>>

DeleteSchedule ==
  /\ schedule # "gone"
  /\ schedule' = "gone"
  /\ UNCHANGED <<row, destination, restored, refused, api, wf, attempts, run, objects, faultVars>>

(* on delete restrict keeps the destination of a schedule. *)
DeleteDestination ==
  /\ destination /\ schedule # "here"
  /\ destination' = FALSE
  /\ UNCHANGED <<row, schedule, restored, refused, api, wf, attempts, run, objects, faultVars>>

(* POST /backups/:id/restores does not look at the status of the job. *)
RequestRestore(j) ==
  /\ Restoring /\ Present(j) /\ j \notin restored
  /\ restored' = restored \cup {j}
  /\ UNCHANGED <<row, schedule, destination, refused, api, wf, attempts, run, objects, faultVars>>

(* A branch that was restored into expires or is deleted with its project: *)
(* the restore_jobs rows with that target go by cascade.                   *)
DeleteTarget ==
  /\ \E J \in SUBSET restored \ {{}} : restored' = restored \ J
  /\ UNCHANGED <<row, schedule, destination, refused, api, wf, attempts, run, objects, faultVars>>

-----------------------------------------------------------------------------
At(j, k, pc) == run[j][k].pc = pc

Becomes(j, k, r) == run' = [run EXCEPT ![j][k] = r]

Goto(j, k, pc) == Becomes(j, k, [run[j][k] EXCEPT !.pc = pc])

(***************************************************************************)
(* Temporal.                                                               *)
(***************************************************************************)

(* A worker polls the activity task. *)
PickUp(j) ==
  /\ wf[j] = "scheduled"
  /\ attempts' = [attempts EXCEPT ![j] = @ + 1]
  /\ wf' = [wf EXCEPT ![j] = "started"]
  /\ Becomes(j, attempts[j] + 1, Blank("begin"))
  /\ UNCHANGED <<row, configVars, api, objects, faultVars>>

(* Temporal listens to the latest attempt only. *)
Current(j, k) == wf[j] = "started" /\ attempts[j] = k

(* Mutant of RetryOrGiveUp: one attempt too many. *)
RetryOnceMore(j) == IF attempts[j] <= MaxAttempts THEN "scheduled" ELSE "failed"

RetryOrGiveUp(j) == IF attempts[j] < MaxAttempts THEN "scheduled" ELSE "failed"

(* Mutant of TimeOut: the activity has no start-to-close timeout. *)
NoTimeOut(j) == FALSE /\ wf[j] = "started" /\ UNCHANGED vars

(* startToCloseTimeout.  An attempt that still runs is not told. *)
TimeOut(j) ==
  /\ wf[j] = "started"
  /\ wf' = [wf EXCEPT ![j] = RetryOrGiveUp(j)]
  /\ IF run[j][attempts[j]].pc = "over"
     THEN UNCHANGED faultVars
     ELSE /\ races < MaxRaces
          /\ raced' = raced \cup {j} /\ races' = races + 1
          /\ UNCHANGED <<lost, losses>>
  /\ UNCHANGED <<row, configVars, api, attempts, run, objects>>

-----------------------------------------------------------------------------
(***************************************************************************)
(* createBackupActivity, attempt k of job j.                               *)
(***************************************************************************)
(* An update of a row that retention deleted matches nothing. *)
SetStatus(j, status) ==
  row' = IF Present(j) THEN [row EXCEPT ![j].status = status] ELSE row

MarkRunning(j, k) ==
  /\ At(j, k, "begin")
  /\ SetStatus(j, "running")
  /\ Goto(j, k, "load")
  /\ UNCHANGED <<configVars, api, wf, attempts, objects, faultVars>>

(* loadBackupContext. *)
LoadContext(j, k) ==
  /\ At(j, k, "load")
  /\ Becomes(j, k, [run[j][k] EXCEPT
               !.pc = "backup",
               !.dest = Present(j) /\ j \in Uploading /\ destination,
               !.sched = Present(j) /\ j \in Scheduled])
  /\ UNCHANGED <<row, configVars, api, wf, attempts, objects, faultVars>>

(* streamPgDumpToS3 resolves. *)
Upload(j, k) ==
  /\ At(j, k, "backup") /\ run[j][k].dest
  /\ objects' = objects \cup {<<j, k>>}
  /\ Becomes(j, k, [run[j][k] EXCEPT !.pc = "succeed", !.made = k])
  /\ UNCHANGED <<row, configVars, api, wf, attempts, faultVars>>

(* Without a destination createBackup returns a local:// URI of nothing. *)
UsePlaceholder(j, k) ==
  /\ At(j, k, "backup") /\ ~run[j][k].dest
  /\ Becomes(j, k, [run[j][k] EXCEPT !.pc = "succeed", !.made = Placeholder])
  /\ UNCHANGED <<row, configVars, api, wf, attempts, objects, faultVars>>

(* Mutant of BackupThrows: the rejection of the upload goes unnoticed. *)
BackupUnawaited(j, k) ==
  /\ At(j, k, "backup") /\ run[j][k].dest
  /\ Becomes(j, k, [run[j][k] EXCEPT !.pc = "succeed", !.made = k])
  /\ UNCHANGED <<row, configVars, api, wf, attempts, objects, faultVars>>

(* No exec target, no container, pg_dump or the upload fails. *)
BackupThrows(j, k) ==
  /\ At(j, k, "backup") /\ run[j][k].dest
  /\ Goto(j, k, "fail")
  /\ UNCHANGED <<row, configVars, api, wf, attempts, objects, faultVars>>

MarkSucceeded(j, k) ==
  /\ At(j, k, "succeed")
  /\ row' = IF Present(j)
            THEN [row EXCEPT ![j] = [status |-> "succeeded", artifact |-> run[j][k].made]]
            ELSE row
  /\ Goto(j, k, IF run[j][k].sched THEN "select" ELSE "report")
  /\ UNCHANGED <<configVars, api, wf, attempts, objects, faultVars>>

(* The two selects of applyScheduleRetention. *)
SelectSurvivors(j, k) ==
  /\ At(j, k, "select")
  /\ LET survivors == Newest(Keep, SucceededOfSchedule)
     IN  Becomes(j, k, [run[j][k] EXCEPT
                   !.pc = IF schedule # "gone" /\ survivors # {} THEN "delete" ELSE "report",
                   !.keep = survivors])
  /\ UNCHANGED <<row, configVars, api, wf, attempts, objects, faultVars>>

(* Its delete: all or nothing.  restore_jobs references a victim on delete *)
(* restrict, the statement fails and the activity only logs it.            *)
DeleteOld(j, k) ==
  /\ At(j, k, "delete")
  /\ LET old == SucceededOfSchedule \ run[j][k].keep
     IN  /\ refused' = (old \cap restored # {})
         /\ row' = IF old \cap restored = {}
                   THEN [i \in Job |-> IF i \in old THEN [row[i] EXCEPT !.status = "pruned"]
                                                    ELSE row[i]]
                   ELSE row
  /\ Goto(j, k, "report")
  /\ UNCHANGED <<schedule, destination, restored, api, wf, attempts, objects, faultVars>>

ReportResult(j, k) ==
  /\ At(j, k, "report")
  /\ wf' = IF Current(j, k) THEN [wf EXCEPT ![j] = "completed"] ELSE wf
  /\ Becomes(j, k, Blank("over"))
  /\ UNCHANGED <<row, configVars, api, attempts, objects, faultVars>>

(* Mutant of MarkFailed: the row goes back to queued for the retry. *)
MarkForRetry(j, k) ==
  /\ At(j, k, "fail")
  /\ SetStatus(j, "queued")
  /\ Goto(j, k, "rethrow")
  /\ UNCHANGED <<configVars, api, wf, attempts, objects, faultVars>>

(* The catch block: the mark has no condition on the status. *)
MarkFailed(j, k) ==
  /\ At(j, k, "fail")
  /\ SetStatus(j, "failed")
  /\ Goto(j, k, "rethrow")
  /\ UNCHANGED <<configVars, api, wf, attempts, objects, faultVars>>

(* Mutant of Rethrow: the catch block swallows the error. *)
CatchSwallows(j, k) ==
  /\ At(j, k, "rethrow")
  /\ wf' = IF Current(j, k) THEN [wf EXCEPT ![j] = "completed"] ELSE wf
  /\ Becomes(j, k, Blank("over"))
  /\ UNCHANGED <<row, configVars, api, attempts, objects, faultVars>>

Rethrow(j, k) ==
  /\ At(j, k, "rethrow")
  /\ wf' = IF Current(j, k) THEN [wf EXCEPT ![j] = RetryOrGiveUp(j)] ELSE wf
  /\ Becomes(j, k, Blank("over"))
  /\ UNCHANGED <<row, configVars, api, attempts, objects, faultVars>>

(* A statement of the activity throws.  The first one stands before the    *)
(* try, those of the retention have a try of their own.                    *)
StatementFails(j, k) ==
  /\ losses < MaxLosses
  /\ \E step \in {<<"begin", "rethrow">>, <<"load", "fail">>, <<"succeed", "fail">>,
                  <<"select", "report">>, <<"delete", "report">>, <<"fail", "rethrow">>} :
       At(j, k, step[1]) /\ Goto(j, k, step[2])
  /\ lost' = lost \cup {j} /\ losses' = losses + 1
  /\ UNCHANGED <<row, configVars, api, wf, attempts, objects, raced, races>>

(* The worker process dies; Temporal learns of it by the timeout. *)
WorkerCrash ==
  /\ losses < MaxLosses
  /\ \E j \in Job : Working(j)
  /\ run' = [j \in Job |-> [k \in Attempt |->
               IF At(j, k, "idle") THEN run[j][k] ELSE Blank("over")]]
  /\ lost' = lost \cup {j \in Job : Working(j)}
  /\ losses' = losses + 1
  /\ UNCHANGED <<row, configVars, api, wf, attempts, objects, raced, races>>

-----------------------------------------------------------------------------
Dispatch(j) == DispatchAccepted(j) \/ DispatchThrows(j) \/ MarkNotDispatched(j)

Work(j, k) ==
  \/ MarkRunning(j, k) \/ LoadContext(j, k)
  \/ Upload(j, k) \/ UsePlaceholder(j, k) \/ BackupThrows(j, k)
  \/ MarkSucceeded(j, k) \/ SelectSurvivors(j, k) \/ DeleteOld(j, k) \/ ReportResult(j, k)
  \/ MarkFailed(j, k) \/ Rethrow(j, k)

Next ==
  \/ \E j \in Job : RecordJob(j) \/ Dispatch(j) \/ RequestRestore(j) \/ PickUp(j) \/ TimeOut(j)
  \/ \E j \in Job, k \in Attempt : Work(j, k) \/ StatementFails(j, k)
  \/ MoveSchedule \/ DeleteSchedule \/ DeleteDestination \/ DeleteTarget
  \/ ApiCrash \/ WorkerCrash

Spec == Init /\ [][Next]_vars

(* The API finishes what it began, a worker polls the task queue and runs  *)
(* its attempts, Temporal keeps its timers.                                *)
Fairness ==
  \A j \in Job :
    /\ WF_vars(Dispatch(j)) /\ WF_vars(PickUp(j)) /\ WF_vars(TimeOut(j))
    /\ \A k \in Attempt : WF_vars(Work(j, k))

FairSpec == Spec /\ Fairness

-----------------------------------------------------------------------------
(* The type invariant; no job has more than MaxAttempts attempts. *)
TypeOK ==
  /\ row \in [Job -> JobRow]
  /\ schedule \in {"here", "moved", "gone"} /\ destination \in BOOLEAN
  /\ restored \subseteq Job /\ refused \in BOOLEAN
  /\ api \in [Job -> {"idle", "dispatch", "mark"}]
  /\ wf \in [Job -> {"none", "scheduled", "started", "completed", "failed"}]
  /\ attempts \in [Job -> 0 .. MaxAttempts]
  /\ run \in [Job -> [Attempt -> Run]]
  /\ objects \subseteq Job \X Attempt
  /\ lost \subseteq Job /\ raced \subseteq Job
  /\ losses \in 0 .. MaxLosses /\ races \in 0 .. MaxRaces

(* A succeeded job has a dump in S3, or a placeholder when it has no       *)
(* destination or lost it, whatever attempts and crashes produced it       *)
(* (createBackupActivity writes the artifact of its own attempt).          *)
ArtifactIsReal ==
  \A j \in Job : row[j].status = "succeeded" =>
    IF row[j].artifact = Placeholder THEN j \in Uploading => ~destination
    ELSE <<j, row[j].artifact>> \in objects

(* The row agrees with the closed workflow unless attempts overlapped or   *)
(* a reply was lost; a success survives crashes and failed statements too  *)
(* (createBackupActivity marks before it reports, Temporal retries).       *)
OutcomeAgrees ==
  \A j \in Job \ raced :
    /\ wf[j] = "completed" => row[j].status \in {"succeeded", "pruned"}
    /\ wf[j] = "failed" /\ j \notin lost => row[j].status = "failed"

(* Retention prunes succeeded jobs of a schedule only, never one that a    *)
(* restore refers to, and at the end of the step Keep newer ones remain    *)
(* ("deleting succeeded jobs older than the most recent N",                *)
(* activities.ts).                                                         *)
PrunesOldOnly ==
  \A j \in Job : row[j].status # "pruned" /\ row'[j].status = "pruned" =>
    /\ j \in Scheduled \ restored
    /\ row[j].status = "succeeded"
    /\ Cardinality({i \in Scheduled : i > j /\ row'[i].status = "succeeded"}) >= Keep

(* PrunesOldOnly is what every step does. *)
RetentionKeepsNewest == [][PrunesOldOnly]_vars

(* When all jobs have come to rest, retention has left no more than Keep   *)
(* succeeded jobs, whatever it was refused before: restore_jobs references *)
(* jobs on delete restrict, a delete with one such victim lets all of them *)
(* go on living, and the next retention that gets through catches up.      *)
(* Excused are a schedule that is gone, a crash or failed statement that   *)
(* cut a retention off, and a last delete that was itself refused, also    *)
(* when the restore that refused it is gone by now: nothing tries again    *)
(* before the next success.                                                *)
RetentionConverges ==
  (\A j \in Job : Quiescent(j)) /\ schedule # "gone" /\ lost = {} /\ ~refused =>
    Cardinality(SucceededOfSchedule) <= Keep

(* Every accepted workflow closes within its attempts. *)
WorkflowCloses == \A j \in Job : wf[j] = "scheduled" ~> wf[j] \in {"completed", "failed"}

-----------------------------------------------------------------------------
(***************************************************************************)
(* The refinement: the rows live as JobLifecycle says, and the jobs whose  *)
(* attempts overlapped or whose dispatch was answered wrongly are strays.  *)
(***************************************************************************)
(* Work on a job is open while the API or Temporal has it in hand. *)
statusOf == [j \in Job |-> row[j].status]
openOf == [j \in Job |-> api[j] # "idle" \/ WorkflowOpen(j)]

Lifecycle ==
  INSTANCE JobLifecycle WITH status <- statusOf, open <- openOf, stray <- raced

(* Rows live as JobLifecycle promises. *)
RowsFollowLifecycle == Lifecycle!Lifecycle
=============================================================================
