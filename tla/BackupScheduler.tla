-------------------------- MODULE BackupScheduler --------------------------
(***************************************************************************)
(* The in-process backup scheduler of the API (apps/api/src/               *)
(* backup-scheduler.ts) together with the routes that edit the             *)
(* backup_schedules rows it polls (apps/api/src/routes/v1.ts).             *)
(*                                                                         *)
(* Every API process runs one scheduler.  A tick selects the due rows into *)
(* memory and then, row by row, inserts a backup job, moves nextRunAt on   *)
(* and asks Temporal to start the createBackup workflow.  Each database    *)
(* statement and each Temporal call is one step here, so ticks of several  *)
(* processes, edits of the rows, crashes and failed calls fall between     *)
(* them as they do in the program.                                         *)
(*                                                                         *)
(* Abstractions:                                                           *)
(*   - a cron expression with its timezone is the set of minutes it        *)
(*     matches; one that cron-parser rejects matches none;                 *)
(*   - of a schedule row only what the scheduler reads is kept;            *)
(*   - what the worker makes of a job once its workflow runs is module     *)
(*     BackupExecution; the scheduler never reads a job's status.          *)
(***************************************************************************)
EXTENDS Naturals, FiniteSets

CONSTANTS
  Server,       \* API processes, each with its scheduler
  Schedule,     \* ids of backup_schedules rows
  Job,          \* ids createId("backup_job") draws from
  Cron,         \* cron expressions (with their timezone)
  Fires,        \* Cron -> set of minutes the expression matches
  MaxTime,      \* bound: the last minute of the clock
  MaxFaults,    \* bound: crashes and failed database calls
  None          \* SQL null

ASSUME CronAssumption == Cron # {}
ASSUME FiresAssumption == Fires \in [Cron -> SUBSET Nat]
ASSUME BoundsAssumption == MaxTime \in Nat /\ MaxFaults \in Nat
ASSUME ServerAssumption == IsFiniteSet(Server)
ASSUME NoneAssumption == None \notin Nat /\ None \notin Schedule /\ None \notin Job

VARIABLES
  clock,        \* the wall clock, in minutes (one scheduler interval)
  sched,        \* backup_schedules
  job,          \* backup_jobs
  wf,           \* jobs whose workflow Temporal accepted
  pc,           \* pc[a]: where process a is in runSchedule; "loop" between rows
  due,          \* due[a]: rows selected by a's tick and not yet run
  cur,          \* cur[a]: the row a is running
  jobOf,        \* jobOf[a]: the job a inserted for cur[a]
  tickAt,       \* tickAt[a]: `now` of a's latest tick (or of its start)
  faults,       \* history: crashes and failed database calls so far
  unheard,      \* history: jobs whose workflow start was accepted and threw
  firedPaused   \* history: jobs inserted for s since it was last paused

vars == <<clock, sched, job, wf, pc, due, cur, jobOf, tickAt, faults, unheard, firedPaused>>
serverVars == <<pc, due, cur, jobOf, tickAt>>
faultVars == <<faults, unheard>>

-----------------------------------------------------------------------------
Time == Nat \cup {None}

(* "cascaded": the branch went, and the schedule with it (on delete cascade). *)
RowState == {"unborn", "live", "deleted", "cascaded"}

ScheduleRow == [state: RowState, enabled: BOOLEAN, cron: Cron, nextRunAt: Time]

(* What a tick holds of a row it selected. *)
DueRow == [id: Schedule, cron: Cron, nextRunAt: Time]

(* cut is history: the last step of its firing a job saw before a fault    *)
(* ended that firing ("no" when none did).                                 *)
JobRow == [status: {"absent", "queued", "failed"},
           schedule: Schedule \cup {None},
           occurrence: Time,
           cut: {"no", "insert", "advance", "dispatch"}]

AbsentJob == [status |-> "absent", schedule |-> None,
              occurrence |-> None, cut |-> "no"]

UnbornSchedule == [state |-> "unborn", enabled |-> FALSE,
                   cron |-> CHOOSE c \in Cron : TRUE, nextRunAt |-> None]

(* Mutant of NextFire: a match at t itself counts as the next one. *)
NextFireFrom(c, t) ==
  LET later == {u \in Fires[c] : u >= t}
  IN  IF later = {} THEN None
      ELSE CHOOSE u \in later : \A v \in later : u <= v

(* computeNextRun: the first match strictly after t, null if there is none. *)
NextFire(c, t) ==
  LET later == {u \in Fires[c] : u > t}
  IN  IF later = {} THEN None
      ELSE CHOOSE u \in later : \A v \in later : u <= v

OrElse(t, default) == IF t = None THEN default ELSE t

Live(s) == sched[s].state = "live"

-----------------------------------------------------------------------------
Init ==
  /\ clock = 0
  /\ sched = [s \in Schedule |-> UnbornSchedule]
  /\ job = [j \in Job |-> AbsentJob]
  /\ wf = {}
  /\ pc = [a \in Server |-> "loop"]
  /\ due = [a \in Server |-> {}]
  /\ cur = [a \in Server |-> None]
  /\ jobOf = [a \in Server |-> None]
  /\ tickAt = [a \in Server |-> 0]
  /\ faults = 0
  /\ unheard = {}
  /\ firedPaused = [s \in Schedule |-> 0]

-----------------------------------------------------------------------------
(***************************************************************************)
(* The routes that edit schedules, and the expiry of a branch.  Only       *)
(* before the last minute of the clock, so that a tick still follows.      *)
(***************************************************************************)
EditsOpen == clock < MaxTime

(* POST /databases/:id/backup-schedules.  nextRunAt starts out null. *)
CreateSchedule(s, c, on) ==
  /\ EditsOpen
  /\ sched[s].state = "unborn"
  /\ sched' = [sched EXCEPT ![s] = [state |-> "live", enabled |-> on,
                                    cron |-> c, nextRunAt |-> None]]
  /\ UNCHANGED <<clock, job, wf, serverVars, faultVars, firedPaused>>

(* PATCH /backup-schedules/:id.  nextRunAt is never part of the patch. *)
PatchSchedule(s, c, on) ==
  /\ EditsOpen
  /\ Live(s)
  /\ sched' = [sched EXCEPT ![s].cron = c, ![s].enabled = on]
  /\ firedPaused' = [firedPaused EXCEPT
                       ![s] = IF sched[s].enabled /\ ~on THEN 0 ELSE @]
  /\ UNCHANGED <<clock, job, wf, serverVars, faultVars>>

(* DELETE /backup-schedules/:id.  The jobs keep the id of the deleted row. *)
DeleteSchedule(s) ==
  /\ EditsOpen
  /\ Live(s)
  /\ sched' = [sched EXCEPT ![s].state = "deleted"]
  /\ UNCHANGED <<clock, job, wf, serverVars, faultVars, firedPaused>>

(* deleteExpiredBranchesForDatabase: the branch takes its schedules along. *)
(* After DELETE of the schedule its S3 destination may go with like effect *)
(* on a tick that still holds the row.                                     *)
ExpireBranch(s) ==
  /\ EditsOpen
  /\ sched[s].state \in {"live", "deleted"}
  /\ sched' = [sched EXCEPT ![s].state = "cascaded"]
  /\ UNCHANGED <<clock, job, wf, serverVars, faultVars, firedPaused>>

-----------------------------------------------------------------------------
(***************************************************************************)
(* tick and runSchedule.                                                   *)
(***************************************************************************)

(* `running` is false exactly between ticks. *)
Idle(a) == pc[a] = "loop" /\ due[a] = {}

(* Mutant of DueRows: the select forgets the enabled column. *)
DueRowsPausedToo ==
  {[id |-> s, cron |-> sched[s].cron, nextRunAt |-> sched[s].nextRunAt] :
     s \in {r \in Schedule : Live(r) /\ (\/ sched[r].nextRunAt = None
                                        \/ sched[r].nextRunAt <= clock)}}

(* Mutant of DueRows: an overdue row is no longer due. *)
DueRowsThisMinute ==
  {[id |-> s, cron |-> sched[s].cron, nextRunAt |-> sched[s].nextRunAt] :
     s \in {r \in Schedule : /\ Live(r)
                             /\ sched[r].enabled
                             /\ sched[r].nextRunAt \in {None, clock}}}

(* The rows the select of a tick returns. *)
DueRows == {[id |-> s, cron |-> sched[s].cron, nextRunAt |-> sched[s].nextRunAt] :
              s \in {r \in Schedule : /\ Live(r)
                                      /\ sched[r].enabled
                                      /\ \/ sched[r].nextRunAt = None
                                         \/ sched[r].nextRunAt <= clock}}

(* setInterval fires at most once a minute; a tick that finds the previous *)
(* one running returns.                                                    *)
TickStart(a) ==
  /\ Idle(a)
  /\ tickAt[a] < clock
  /\ tickAt' = [tickAt EXCEPT ![a] = clock]
  /\ due' = [due EXCEPT ![a] = DueRows]
  /\ UNCHANGED <<clock, sched, job, wf, pc, cur, jobOf, faultVars, firedPaused>>

(* Updates of a row that is gone match nothing. *)
UpdateNextRun(s, t) ==
  sched' = IF Live(s) THEN [sched EXCEPT ![s].nextRunAt = t] ELSE sched

(* First run: only seeds nextRunAt. *)
SeedNextRun(a, row) ==
  /\ pc[a] = "loop"
  /\ row \in due[a]
  /\ row.nextRunAt = None
  /\ UpdateNextRun(row.id, OrElse(NextFire(row.cron, tickAt[a]), tickAt[a]))
  /\ due' = [due EXCEPT ![a] = @ \ {row}]
  /\ UNCHANGED <<clock, job, wf, pc, cur, jobOf, tickAt, faultVars, firedPaused>>

InsertJob(a, row, j) ==
  /\ pc[a] = "loop"
  /\ row \in due[a]
  /\ row.nextRunAt # None
  /\ sched[row.id].state # "cascaded"
  /\ job[j].status = "absent"
  /\ job' = [job EXCEPT ![j] = [status |-> "queued",
                                schedule |-> row.id, occurrence |-> row.nextRunAt,
                                cut |-> "no"]]
  /\ pc' = [pc EXCEPT ![a] = "advance"]
  /\ due' = [due EXCEPT ![a] = @ \ {row}]
  /\ cur' = [cur EXCEPT ![a] = row]
  /\ jobOf' = [jobOf EXCEPT ![a] = j]
  /\ firedPaused' = [firedPaused EXCEPT
                       ![row.id] = IF Live(row.id) /\ ~sched[row.id].enabled
                                   THEN @ + 1 ELSE @]
  /\ UNCHANGED <<clock, sched, wf, tickAt, faultVars>>

(* branch_id references a row that is gone: the insert throws, tick        *)
(* reports it and goes on with the next row.                               *)
InsertRejected(a, row) ==
  /\ pc[a] = "loop"
  /\ row \in due[a]
  /\ row.nextRunAt # None
  /\ sched[row.id].state = "cascaded"
  /\ due' = [due EXCEPT ![a] = @ \ {row}]
  /\ UNCHANGED <<clock, sched, job, wf, pc, cur, jobOf, tickAt, faultVars, firedPaused>>

LeaveRow(a) ==
  /\ pc' = [pc EXCEPT ![a] = "loop"]
  /\ cur' = [cur EXCEPT ![a] = None]
  /\ jobOf' = [jobOf EXCEPT ![a] = None]

(* Mutant of AdvanceSchedule: a row that is gone ends the firing. *)
AdvanceOrReturn(a) ==
  /\ pc[a] = "advance"
  /\ UpdateNextRun(cur[a].id, NextFire(cur[a].cron, tickAt[a]))
  /\ IF Live(cur[a].id)
     THEN pc' = [pc EXCEPT ![a] = "dispatch"] /\ UNCHANGED <<cur, jobOf>>
     ELSE LeaveRow(a)
  /\ UNCHANGED <<clock, job, wf, due, tickAt, faultVars, firedPaused>>

AdvanceSchedule(a) ==
  /\ pc[a] = "advance"
  /\ UpdateNextRun(cur[a].id, NextFire(cur[a].cron, tickAt[a]))
  /\ pc' = [pc EXCEPT ![a] = "dispatch"]
  /\ UNCHANGED <<clock, job, wf, due, cur, jobOf, tickAt, faultVars, firedPaused>>

(* Mutant of DispatchAccepted: the schedule's id instead of the job's. *)
DispatchScheduleId(a) ==
  /\ pc[a] = "dispatch"
  /\ wf' = wf \cup {cur[a].id}
  /\ LeaveRow(a)
  /\ UNCHANGED <<clock, sched, job, due, tickAt, faultVars, firedPaused>>

(* Mutant of DispatchAccepted: the mark also follows a start that worked. *)
DispatchThenMark(a) ==
  /\ pc[a] = "dispatch"
  /\ wf' = wf \cup {jobOf[a]}
  /\ pc' = [pc EXCEPT ![a] = "markFailed"]
  /\ UNCHANGED <<clock, sched, job, due, cur, jobOf, tickAt, faultVars, firedPaused>>

(* startControlPlaneWorkflow returns. *)
DispatchAccepted(a) ==
  /\ pc[a] = "dispatch"
  /\ wf' = wf \cup {jobOf[a]}
  /\ LeaveRow(a)
  /\ UNCHANGED <<clock, sched, job, due, tickAt, faultVars, firedPaused>>

(* Mutant of DispatchThrows: the error is swallowed without the mark. *)
DispatchSwallowed(a) ==
  /\ pc[a] = "dispatch"
  /\ LeaveRow(a)
  /\ UNCHANGED <<clock, sched, job, wf, due, tickAt, faultVars, firedPaused>>

(* It throws WorkflowDispatchError: Temporal never got the start, or it    *)
(* did and the reply was lost or connection.close() failed.                *)
DispatchThrows(a) ==
  /\ pc[a] = "dispatch"
  /\ \/ UNCHANGED <<wf, unheard>>
     \/ wf' = wf \cup {jobOf[a]} /\ unheard' = unheard \cup {jobOf[a]}
  /\ pc' = [pc EXCEPT ![a] = "markFailed"]
  /\ UNCHANGED <<clock, sched, job, due, cur, jobOf, tickAt, faults, firedPaused>>

(* The catch block: an update without any condition on the status. *)
MarkFailed(a) ==
  /\ pc[a] = "markFailed"
  /\ job' = [job EXCEPT ![jobOf[a]].status = "failed"]
  /\ LeaveRow(a)
  /\ UNCHANGED <<clock, sched, wf, due, tickAt, faultVars, firedPaused>>

-----------------------------------------------------------------------------
(***************************************************************************)
(* Faults.                                                                 *)
(***************************************************************************)
CutJob(a) ==
  job' = IF jobOf[a] = None THEN job
         ELSE [job EXCEPT ![jobOf[a]].cut =
                 CASE pc[a] = "advance"  -> "insert"
                   [] pc[a] = "dispatch" -> "advance"
                   [] OTHER              -> "dispatch"]

(* A statement of runSchedule throws: tick (or the catch of the mark)      *)
(* swallows it and goes on with the next row.                              *)
StatementFails(a) ==
  /\ faults < MaxFaults
  /\ \/ pc[a] = "loop" /\ \E row \in due[a] : due' = [due EXCEPT ![a] = @ \ {row}]
     \/ pc[a] \in {"advance", "markFailed"} /\ UNCHANGED due
  /\ CutJob(a)
  /\ LeaveRow(a)
  /\ faults' = faults + 1
  /\ UNCHANGED <<clock, sched, wf, tickAt, unheard, firedPaused>>

(* The process dies and its service manager starts it again. *)
Crash(a) ==
  /\ faults < MaxFaults
  /\ CutJob(a)
  /\ LeaveRow(a)
  /\ due' = [due EXCEPT ![a] = {}]
  /\ tickAt' = [tickAt EXCEPT ![a] = clock]
  /\ faults' = faults + 1
  /\ UNCHANGED <<clock, sched, wf, unheard, firedPaused>>

-----------------------------------------------------------------------------
Tock ==
  /\ clock < MaxTime
  /\ clock' = clock + 1
  /\ UNCHANGED <<sched, job, wf, serverVars, faultVars, firedPaused>>

-----------------------------------------------------------------------------
Edits ==
  \E s \in Schedule :
    \/ \E c \in Cron, on \in BOOLEAN : CreateSchedule(s, c, on) \/ PatchSchedule(s, c, on)
    \/ DeleteSchedule(s)
    \/ ExpireBranch(s)

RunRow(a) ==
  \/ \E row \in due[a] : \/ SeedNextRun(a, row)
                         \/ InsertRejected(a, row)
                         \/ \E j \in Job : InsertJob(a, row, j)
  \/ AdvanceSchedule(a)
  \/ DispatchAccepted(a)
  \/ DispatchThrows(a)
  \/ MarkFailed(a)

Next ==
  \/ Edits
  \/ \E a \in Server : \/ TickStart(a)
                       \/ RunRow(a)
                       \/ StatementFails(a)
                       \/ Crash(a)
  \/ Tock

Spec == Init /\ [][Next]_vars

(* The event loop keeps running the scheduler of a live process, and time  *)
(* passes.  Nobody has to edit a schedule.                                 *)
Fairness ==
  /\ WF_clock(Tock)
  /\ \A a \in Server : WF_vars(TickStart(a)) /\ WF_vars(RunRow(a))

FairSpec == Spec /\ Fairness

-----------------------------------------------------------------------------
(* The type invariant. *)
TypeOK ==
  /\ clock \in Nat
  /\ sched \in [Schedule -> ScheduleRow]
  /\ job \in [Job -> JobRow]
  /\ wf \subseteq Job
  /\ pc \in [Server -> {"loop", "advance", "dispatch", "markFailed"}]
  /\ due \in [Server -> SUBSET DueRow]
  /\ cur \in [Server -> DueRow \cup {None}]
  /\ jobOf \in [Server -> Job \cup {None}]
  /\ tickAt \in [Server -> Nat]
  /\ faults \in Nat
  /\ unheard \subseteq Job
  /\ firedPaused \in [Schedule -> Nat]

Present(j) == job[j].status # "absent"

(* Two jobs never stand for the same occurrence of a schedule, unless one  *)
(* of them was cut off before its firing had moved nextRunAt on            *)
(* (backup-scheduler.ts: the insert and the update are two statements).    *)
OneRunPerOccurrence ==
  \A i, j \in Job :
    /\ Present(i) /\ Present(j) /\ i # j
    /\ job[i].schedule = job[j].schedule
    /\ job[i].occurrence = job[j].occurrence
    => "insert" \in {job[i].cut, job[j].cut}

(* Process a alone has ticked so far; no other one was even restarted      *)
(* after the first minute.                                                 *)
Alone(a) == \A b \in Server \ {a} : tickAt[b] = 0

(* OneRunPerOccurrence, while one process alone has ticked.                *)
AloneFiresOnce == (\E a \in Server : Alone(a)) => OneRunPerOccurrence

(* A queued job that Temporal never accepted is in some scheduler's hands, *)
(* or a fault ended its firing: no interleaving of ticks, edits and        *)
(* dispatch errors loses one.                                              *)
NoLostJob ==
  \A j \in Job :
    job[j].status = "queued" /\ j \notin wf
      => job[j].cut # "no" \/ \E a \in Server : jobOf[a] = j

(* Once PATCH has disabled a schedule, the rows already selected fire it   *)
(* at most once more per API process, until it is enabled again.           *)
PausedFiresOncePerServer ==
  \A s \in Schedule :
    Live(s) /\ ~sched[s].enabled => firedPaused[s] <= Cardinality(Server)

(* "job recorded but not dispatched", the error message the scheduler      *)
(* writes: no workflow of a job so marked is known to Temporal, unless its *)
(* start was accepted and threw nevertheless (a lost reply, a connection   *)
(* that did not close).                                                    *)
NotDispatchedIsTrue ==
  \A j \in Job \ unheard : job[j].status = "failed" => j \notin wf

(* A due row of an enabled schedule gets its job, unless the schedule is   *)
(* disabled, edited away or deleted first.  (Before the last minute: the   *)
(* tick that would run a row due in the last minute lies past the bound.)  *)
DueScheduleFires ==
  \A s \in Schedule, t \in 0 .. MaxTime - 1 :
    (Live(s) /\ sched[s].enabled /\ sched[s].nextRunAt = t /\ t <= clock)
      ~> \/ ~Live(s)
         \/ ~sched[s].enabled
         \/ \E j \in Job : job[j].schedule = s /\ job[j].occurrence = t

(* Every job the scheduler records is handed to Temporal or marked failed. *)
QueuedJobSettles ==
  \A j \in Job : job[j].status = "queued" ~> (j \in wf \/ job[j].status = "failed")
=============================================================================
