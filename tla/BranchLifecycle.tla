--------------------------- MODULE BranchLifecycle --------------------------
(***************************************************************************)
(* Branches of a cluster and the local Postgres databases behind them:     *)
(* creation and cloning (POST /databases/:id/branches, cloneBranch-        *)
(* Activity), restores (POST /backups/:id/restores, restoreBackup-         *)
(* Activity), expiry on read, and the lazy creation of a database by the   *)
(* routes that connect to a branch (ensureLocalBranchDatabase).            *)
(*                                                                         *)
(* The branch row says what the control plane believes, disk[b] what       *)
(* Postgres holds.  Routes and activities touch them statement by          *)
(* statement; several operations, and several attempts of one operation,   *)
(* may run on one branch.                                                  *)
(*                                                                         *)
(* Abstractions:                                                           *)
(*   - a database is the set of the rows users wrote, plus, for every      *)
(*     pg_restore that has begun and not ended, that restore itself;       *)
(*   - terminating the connections of a database and dropping it is one    *)
(*     step; a connection made in between is the failing statement;        *)
(*   - what makes the data of a backup is module BackupExecution.          *)
(***************************************************************************)
EXTENDS Naturals, FiniteSets

CONSTANTS
  Branch,         \* branch ids
  Primary,        \* branches that exist from the start (provisioned with the cluster)
  Restore,        \* restore jobs
  Backup,         \* backup jobs
  Datum,          \* rows users write
  MaxAttempts,    \* maximumAttempts of the activities
  MaxLosses,      \* bound: crashes and failed database statements
  MaxRaces,       \* bound: timeouts of running attempts, starts that are not heard of
  Overlapping,    \* BOOLEAN: may operations of one branch overlap?
  None

ASSUME PrimaryAssumption == Primary \subseteq Branch
ASSUME DistinctAssumption ==
  /\ Branch \cap Restore = {} /\ Datum \cap (Branch \cup Restore) = {}
  /\ None \notin Branch \cup Restore \cup Backup
  /\ \A S \in SUBSET (Datum \cup Restore) : S # None
ASSUME AttemptAssumption == MaxAttempts \in Nat \ {0}
ASSUME BoundAssumption == MaxLosses \in Nat /\ MaxRaces \in Nat /\ Overlapping \in BOOLEAN

(* A clone is known by the branch it makes: workflow clone-branch-<id>. *)
Op == Branch \cup Restore

VARIABLES
  branch,       \* branches
  restore,      \* restore_jobs
  disk,         \* disk[b]: the database of b, None when there is none
  dump,         \* dump[d]: what backup d holds, None until it succeeded
  lostDest,     \* backups whose S3 destination is no longer configured
  api,          \* api[o]: where the API is in dispatching o
  wf, attempts, \* Temporal
  run,          \* run[o][k]: the next step of attempt k of o
  stranded,     \* history: operations whose dispatch or mark was lost
  disturbed,    \* history: branches with overlapping, repeated or unheard operations
  losses, races

dbVars == <<branch, restore, disk>>
backupVars == <<dump, lostDest>>
faultVars == <<stranded, losses, races>>
vars == <<branch, restore, disk, dump, lostDest, api, wf, attempts, run,
          stranded, disturbed, losses, races>>

Temporal == INSTANCE ActivityRetry

-----------------------------------------------------------------------------
Attempt == 1 .. MaxAttempts

BranchRow == [status: {"absent", "creating", "ready", "failed", "gone"},
              expires: BOOLEAN,
              parent: Branch \cup {None},
              mode: {"schema_only", "schema_and_data"}]

RestoreRow == [status: {"absent", "queued", "running", "succeeded", "failed", "gone"},
               target: Branch \cup {None},
               backup: Backup \cup {None}]

(* Rows, and restores that are half loaded. *)
Content == SUBSET (Datum \cup Restore)

Step == {"idle", "begin", "reset", "copy", "truncate", "create", "load", "loading",
         "commit", "report", "fail", "rethrow", "over"}

Here(b) == branch[b].status \notin {"absent", "gone"}

Target(o) == IF o \in Restore THEN restore[o].target ELSE o

Source(o) == branch[o].parent

(* The branches an operation works on. *)
Touches(o) == (IF o \in Restore THEN {restore[o].target} ELSE {o, branch[o].parent}) \ {None}

Running(o) == \E k \in Attempt : run[o][k] \notin {"idle", "over"}

Open(o) == api[o] # "idle" \/ Temporal!WorkflowOpen(o) \/ Running(o)

Whole(b) == disk[b] = None \/ disk[b] \cap Restore = {}

NewRow(status, expires, parent, mode) ==
  [status |-> status, expires |-> expires, parent |-> parent, mode |-> mode]

Init ==
  /\ branch = [b \in Branch |->
                 NewRow(IF b \in Primary THEN "ready" ELSE "absent", FALSE, None, "schema_only")]
  /\ restore = [r \in Restore |-> [status |-> "absent", target |-> None, backup |-> None]]
  /\ disk = [b \in Branch |-> None]
  /\ dump = [d \in Backup |-> None] /\ lostDest = {}
  /\ api = [o \in Op |-> "idle"]
  /\ Temporal!RetryInit
  /\ run = [o \in Op |-> [k \in Attempt |-> "idle"]]
  /\ stranded = {} /\ disturbed = {} /\ losses = 0 /\ races = 0

-----------------------------------------------------------------------------
(***************************************************************************)
(* The API.                                                                *)
(***************************************************************************)
(* An operation on branches B is about to begin.  When others work on them *)
(* the branches of all are disturbed, and so is what is cloned from one.   *)
Enter(B) ==
  LET others == {o \in Op : Open(o) /\ Touches(o) \cap B # {}}
  IN  /\ Overlapping \/ others = {}
      /\ disturbed' = IF others = {} /\ B \cap disturbed = {} THEN disturbed
                      ELSE disturbed \cup B \cup UNION {Touches(o) : o \in others}

(* POST branches without a parent. *)
CreateEmptyBranch(b, expires) ==
  /\ branch[b].status = "absent"
  /\ branch' = [branch EXCEPT ![b] = NewRow("ready", expires, None, "schema_only")]
  /\ UNCHANGED <<restore, disk, backupVars, api, wf, attempts, run, disturbed, faultVars>>

(* Mutant of MayBeParent: a parent may have an expiration. *)
MayBeExpiringParent(p) == branch[p].status = "ready"

(* "Branches with an expiration cannot be used as parents", "Parent branch *)
(* must be ready".                                                         *)
MayBeParent(p) == branch[p].status = "ready" /\ ~branch[p].expires

(* POST branches with a parent. *)
RequestClone(b, p, mode, expires) ==
  /\ branch[b].status = "absent"
  /\ MayBeParent(p)
  /\ Enter({b, p})
  /\ branch' = [branch EXCEPT ![b] = NewRow("creating", expires, p, mode)]
  /\ api' = [api EXCEPT ![b] = "dispatch"]
  /\ UNCHANGED <<restore, disk, backupVars, wf, attempts, run, faultVars>>

(* Mutant of RequestRestore: a branch that is there keeps its status. *)
RequestUnmarked(r, d, b) ==
  /\ restore[r].status = "absent"
  /\ branch[b].status # "gone"
  /\ Enter({b})
  /\ branch' = IF Here(b) THEN branch
               ELSE [branch EXCEPT ![b] = NewRow("creating", FALSE, None, "schema_and_data")]
  /\ restore' = [restore EXCEPT ![r] = [status |-> "queued", target |-> b, backup |-> d]]
  /\ api' = [api EXCEPT ![r] = "dispatch"]
  /\ UNCHANGED <<disk, backupVars, wf, attempts, run, faultVars>>

(* POST restores: the branch is made, or marked creating, with the job.    *)
(* Neither the status of the backup nor that of the branch is looked at.   *)
RequestRestore(r, d, b) ==
  /\ restore[r].status = "absent"
  /\ branch[b].status # "gone"
  /\ Enter({b})
  /\ branch' = [branch EXCEPT ![b] =
                  IF Here(b) THEN [@ EXCEPT !.status = "creating"]
                  ELSE NewRow("creating", FALSE, None, "schema_and_data")]
  /\ restore' = [restore EXCEPT ![r] = [status |-> "queued", target |-> b, backup |-> d]]
  /\ api' = [api EXCEPT ![r] = "dispatch"]
  /\ UNCHANGED <<disk, backupVars, wf, attempts, run, faultVars>>

DispatchAccepted(o) ==
  /\ api[o] = "dispatch"
  /\ Temporal!Start(o)
  /\ api' = [api EXCEPT ![o] = "idle"]
  /\ UNCHANGED <<dbVars, backupVars, run, disturbed, faultVars>>

(* A clone goes on to mark its branch failed; POST restores answers 503    *)
(* and leaves job and branch as they are.                                  *)
DispatchThrows(o) ==
  /\ api[o] = "dispatch"
  /\ api' = [api EXCEPT ![o] = IF o \in Restore THEN "idle" ELSE "mark"]
  /\ stranded' = IF o \in Restore THEN stranded \cup {o} ELSE stranded
  /\ UNCHANGED <<dbVars, backupVars, wf, attempts, run, disturbed, losses, races>>

(* Temporal starts the workflow, but the reply is lost or connection.close *)
(* throws: for the API that is a dispatch that failed, and the branch of a *)
(* clone gets marks of both, in any order.                                 *)
StartUnheard(o) ==
  /\ api[o] = "dispatch" /\ races < MaxRaces
  /\ Temporal!Start(o)
  /\ api' = [api EXCEPT ![o] = IF o \in Restore THEN "idle" ELSE "mark"]
  /\ disturbed' = IF o \in Restore THEN disturbed ELSE disturbed \cup {o}
  /\ races' = races + 1
  /\ UNCHANGED <<dbVars, backupVars, run, stranded, losses>>

(* An update of a branch that is gone matches nothing. *)
SetBranch(b, status) ==
  branch' = IF Here(b) THEN [branch EXCEPT ![b].status = status] ELSE branch

MarkNotDispatched(b) ==
  /\ api[b] = "mark"
  /\ SetBranch(b, "failed")
  /\ api' = [api EXCEPT ![b] = "idle"]
  /\ UNCHANGED <<restore, disk, backupVars, wf, attempts, run, disturbed, faultVars>>

(* The API process dies between the rows and the dispatch. *)
ApiCrash ==
  /\ losses < MaxLosses
  /\ \E o \in Op : api[o] # "idle"
  /\ stranded' = stranded \cup {o \in Op : api[o] # "idle"}
  /\ losses' = losses + 1
  /\ api' = [o \in Op |-> "idle"]
  /\ UNCHANGED <<dbVars, backupVars, wf, attempts, run, disturbed, races>>

(* A read finds the branch expired and deletes it; restore jobs cascade,   *)
(* the database stays.                                                     *)
ExpireBranch(b) ==
  /\ Here(b) /\ branch[b].expires
  /\ branch' = [branch EXCEPT ![b].status = "gone"]
  /\ restore' = [r \in Restore |-> IF restore[r].target = b
                                   THEN [restore[r] EXCEPT !.status = "gone"]
                                   ELSE restore[r]]
  /\ UNCHANGED <<disk, backupVars, api, wf, attempts, run, disturbed, faultVars>>

(* ensureLocalBranchDatabase: it looks, and creates what it did not find.  *)
(* Sessions that open the branch exclude each other by an advisory lock,   *)
(* the activities do not take it; when one of them makes the database      *)
(* meanwhile, create database fails and nothing has happened.              *)
OpenBranch(b) ==
  /\ Here(b) /\ disk[b] = None
  /\ disk' = [disk EXCEPT ![b] = {}]
  /\ UNCHANGED <<branch, restore, backupVars, api, wf, attempts, run, disturbed, faultVars>>

(* POST branches/:id/query. *)
WriteRow(b, x) ==
  /\ Here(b) /\ disk[b] # None /\ x \notin disk[b]
  /\ disk' = [disk EXCEPT ![b] = @ \cup {x}]
  /\ UNCHANGED <<branch, restore, backupVars, api, wf, attempts, run, disturbed, faultVars>>

(* The environment: a backup succeeds, with the rows there are; its        *)
(* destination is deleted.                                                 *)
FinishBackup(d, b) ==
  /\ dump[d] = None /\ d \notin lostDest /\ Here(b) /\ disk[b] # None
  /\ dump' = [dump EXCEPT ![d] = disk[b] \ Restore]
  /\ UNCHANGED <<dbVars, lostDest, api, wf, attempts, run, disturbed, faultVars>>

LoseDestination(d) ==
  /\ d \notin lostDest
  /\ lostDest' = lostDest \cup {d}
  /\ UNCHANGED <<dbVars, dump, api, wf, attempts, run, disturbed, faultVars>>

-----------------------------------------------------------------------------
At(o, k, pc) == run[o][k] = pc

Goto(o, k, pc) == run' = [run EXCEPT ![o][k] = pc]

(* Attempt k of o goes on; terminateLocalDatabaseConnections breaks every  *)
(* pg_restore that loads into a database of B.                             *)
GotoKilling(o, k, pc, B) ==
  run' = [p \in Op |-> [i \in Attempt |->
            IF p = o /\ i = k THEN pc
            ELSE IF run[p][i] = "loading" /\ Target(p) \in B THEN "fail"
            ELSE run[p][i]]]

Loading(b) == \E o \in Restore, k \in Attempt : At(o, k, "loading") /\ Target(o) = b

PickUp(o) ==
  /\ Temporal!Poll(o)
  /\ Goto(o, attempts[o] + 1, "begin")
  /\ UNCHANGED <<dbVars, backupVars, api, disturbed, faultVars>>

TimeOut(o) ==
  /\ Temporal!Expire(o)
  /\ IF At(o, attempts[o], "over")
     THEN UNCHANGED <<disturbed, races>>
     ELSE races < MaxRaces /\ races' = races + 1 /\ disturbed' = disturbed \cup Touches(o)
  /\ UNCHANGED <<dbVars, backupVars, api, run, stranded, losses>>

-----------------------------------------------------------------------------
(***************************************************************************)
(* cloneBranchActivity, attempt k for branch b.                            *)
(***************************************************************************)
MarkCreating(b, k) ==
  /\ b \in Branch /\ At(b, k, "begin")
  /\ SetBranch(b, "creating")
  /\ Goto(b, k, "reset")
  /\ UNCHANGED <<restore, disk, backupVars, api, wf, attempts, disturbed, faultVars>>

(* requireLocalBranchDatabaseName, then the drop of the target. *)
ResetClone(b, k) ==
  /\ b \in Branch /\ At(b, k, "reset")
  /\ IF disk[Source(b)] = None
     THEN Goto(b, k, "fail") /\ UNCHANGED disk
     ELSE /\ GotoKilling(b, k, "copy", {b, Source(b)})
          /\ disk' = [disk EXCEPT ![b] = None]
  /\ UNCHANGED <<branch, restore, backupVars, api, wf, attempts, disturbed, faultVars>>

(* create database ... with template: it needs the target absent and the   *)
(* source present and without connections.                                 *)
CanCopy(b) == disk[b] = None /\ disk[Source(b)] # None /\ ~Loading(Source(b))

CopyDatabase(b, k) ==
  /\ b \in Branch /\ At(b, k, "copy") /\ CanCopy(b)
  /\ disk' = [disk EXCEPT ![b] = disk[Source(b)]]
  /\ Goto(b, k, IF branch[b].mode = "schema_only" THEN "truncate" ELSE "commit")
  /\ UNCHANGED <<branch, restore, backupVars, api, wf, attempts, disturbed, faultVars>>

CopyRefused(b, k) ==
  /\ b \in Branch /\ At(b, k, "copy") /\ ~CanCopy(b)
  /\ Goto(b, k, "fail")
  /\ UNCHANGED <<dbVars, backupVars, api, wf, attempts, disturbed, faultVars>>

(* truncateLocalBranchData: no rows are left; a schema that was half       *)
(* restored stays so.                                                      *)
TruncateCopy(b, k) ==
  /\ b \in Branch /\ At(b, k, "truncate")
  /\ disk' = [disk EXCEPT ![b] = IF @ = None THEN {} ELSE @ \cap Restore]
  /\ Goto(b, k, "commit")
  /\ UNCHANGED <<branch, restore, backupVars, api, wf, attempts, disturbed, faultVars>>

MarkCloned(b, k) ==
  /\ b \in Branch /\ At(b, k, "commit")
  /\ SetBranch(b, "ready")
  /\ Goto(b, k, "report")
  /\ UNCHANGED <<restore, disk, backupVars, api, wf, attempts, disturbed, faultVars>>

(* Mutant of MarkCloneFailed: the error is only thrown on. *)
ThrowUnmarked(b, k) ==
  /\ b \in Branch /\ At(b, k, "fail")
  /\ Goto(b, k, "rethrow")
  /\ UNCHANGED <<dbVars, backupVars, api, wf, attempts, disturbed, faultVars>>

MarkCloneFailed(b, k) ==
  /\ b \in Branch /\ At(b, k, "fail")
  /\ SetBranch(b, "failed")
  /\ Goto(b, k, "rethrow")
  /\ UNCHANGED <<restore, disk, backupVars, api, wf, attempts, disturbed, faultVars>>

-----------------------------------------------------------------------------
(***************************************************************************)
(* restoreBackupActivity, attempt k of restore job r.                      *)
(***************************************************************************)
SetRestore(r, status) ==
  restore' = IF restore[r].status = "gone" THEN restore
             ELSE [restore EXCEPT ![r].status = status]

MarkRestoring(r, k) ==
  /\ r \in Restore /\ At(r, k, "begin")
  /\ SetRestore(r, "running")
  /\ Goto(r, k, "reset")
  /\ UNCHANGED <<branch, disk, backupVars, api, wf, attempts, disturbed, faultVars>>

(* prepareTargetDatabaseForRestore, before the backup is looked at: the    *)
(* drop, and the create.                                                   *)
DropTarget(r, k) ==
  /\ r \in Restore /\ At(r, k, "reset")
  /\ disk' = [disk EXCEPT ![Target(r)] = None]
  /\ GotoKilling(r, k, "create", {Target(r)})
  /\ UNCHANGED <<branch, restore, backupVars, api, wf, attempts, disturbed, faultVars>>

CreateTarget(r, k) ==
  /\ r \in Restore /\ At(r, k, "create")
  /\ IF disk[Target(r)] = None
     THEN disk' = [disk EXCEPT ![Target(r)] = {}] /\ Goto(r, k, "load")
     ELSE Goto(r, k, "fail") /\ UNCHANGED disk
  /\ UNCHANGED <<branch, restore, backupVars, api, wf, attempts, disturbed, faultVars>>

(* loadRestoreContext: the job's row went with its branch or not, what is  *)
(* read is the backup and its destination.                                 *)
Restorable(d) == dump[d] # None /\ d \notin lostDest

RefuseRestore(r, k) ==
  /\ r \in Restore /\ At(r, k, "load")
  /\ ~Restorable(restore[r].backup) \/ disk[Target(r)] = None
  /\ Goto(r, k, "fail")
  /\ UNCHANGED <<dbVars, backupVars, api, wf, attempts, disturbed, faultVars>>

(* streamS3ToPgRestore: pg_restore connects and begins; it exits with 0;   *)
(* or something breaks and leaves what it loaded so far.                   *)
BeginLoad(r, k) ==
  /\ r \in Restore /\ At(r, k, "load")
  /\ Restorable(restore[r].backup) /\ disk[Target(r)] # None
  /\ disk' = [disk EXCEPT ![Target(r)] = @ \cup {r}]
  /\ Goto(r, k, "loading")
  /\ UNCHANGED <<branch, restore, backupVars, api, wf, attempts, disturbed, faultVars>>

EndLoad(r, k) ==
  /\ r \in Restore /\ At(r, k, "loading")
  /\ disk' = [disk EXCEPT ![Target(r)] = (@ \ {r}) \cup dump[restore[r].backup]]
  /\ Goto(r, k, "commit")
  /\ UNCHANGED <<branch, restore, backupVars, api, wf, attempts, disturbed, faultVars>>

(* Mutant of LoadBreaks: an early end of the stream counts as success. *)
LoadCutShort(r, k) ==
  /\ r \in Restore /\ At(r, k, "loading")
  /\ Goto(r, k, "commit")
  /\ UNCHANGED <<dbVars, backupVars, api, wf, attempts, disturbed, faultVars>>

LoadBreaks(r, k) ==
  /\ r \in Restore /\ At(r, k, "loading")
  /\ Goto(r, k, "fail")
  /\ UNCHANGED <<dbVars, backupVars, api, wf, attempts, disturbed, faultVars>>

(* One transaction for the job and the branch. *)
CommitRestored(r, k) ==
  /\ r \in Restore /\ At(r, k, "commit")
  /\ SetRestore(r, "succeeded")
  /\ SetBranch(Target(r), "ready")
  /\ Goto(r, k, "report")
  /\ UNCHANGED <<disk, backupVars, api, wf, attempts, disturbed, faultVars>>

(* Mutant of MarkRestoreFailed: the branch is forgotten. *)
MarkJobFailed(r, k) ==
  /\ r \in Restore /\ At(r, k, "fail")
  /\ SetRestore(r, "failed")
  /\ Goto(r, k, "rethrow")
  /\ UNCHANGED <<branch, disk, backupVars, api, wf, attempts, disturbed, faultVars>>

MarkRestoreFailed(r, k) ==
  /\ r \in Restore /\ At(r, k, "fail")
  /\ SetRestore(r, "failed")
  /\ SetBranch(Target(r), "failed")
  /\ Goto(r, k, "rethrow")
  /\ UNCHANGED <<disk, backupVars, api, wf, attempts, disturbed, faultVars>>

-----------------------------------------------------------------------------
(* Both activities return or throw. *)
ReportResult(o, k) ==
  /\ At(o, k, "report")
  /\ Temporal!Returns(o, k)
  /\ Goto(o, k, "over")
  /\ UNCHANGED <<dbVars, backupVars, api, disturbed, faultVars>>

(* Mutant of Rethrow: the catch swallows the error. *)
CatchSwallows(o, k) ==
  /\ At(o, k, "rethrow")
  /\ Temporal!Returns(o, k)
  /\ Goto(o, k, "over")
  /\ UNCHANGED <<dbVars, backupVars, api, disturbed, faultVars>>

Rethrow(o, k) ==
  /\ At(o, k, "rethrow")
  /\ Temporal!Throws(o, k)
  /\ Goto(o, k, "over")
  /\ UNCHANGED <<dbVars, backupVars, api, disturbed, faultVars>>

(* The statement that throws is not made up for: it is the mark of the     *)
(* catch, or the one before the try in the last attempt there is.          *)
LosesMark(o, k) == At(o, k, "fail") \/ (At(o, k, "begin") /\ k = MaxAttempts)

(* A statement throws.  The first one stands before the try, the marks of  *)
(* the catch have no try of their own.                                     *)
StatementFails(o, k) ==
  /\ losses < MaxLosses
  /\ \/ run[o][k] \in {"begin", "fail"} /\ Goto(o, k, "rethrow")
     \/ run[o][k] \in {"reset", "copy", "truncate", "create", "load", "commit"}
        /\ Goto(o, k, "fail")
  /\ stranded' = IF LosesMark(o, k) THEN stranded \cup {o} ELSE stranded
  /\ losses' = losses + 1
  /\ UNCHANGED <<dbVars, backupVars, api, wf, attempts, disturbed, races>>

(* The worker process dies; Temporal learns of it by the timeout, and the  *)
(* attempt it starts then repeats what may have been finished.             *)
WorkerCrash ==
  /\ losses < MaxLosses
  /\ \E o \in Op : Running(o)
  /\ run' = [o \in Op |-> [k \in Attempt |->
               IF At(o, k, "idle") THEN "idle" ELSE "over"]]
  /\ stranded' = stranded \cup {o \in Op : Running(o)}
  /\ disturbed' = disturbed \cup UNION {Touches(o) : o \in {p \in Op : Running(p)}}
  /\ losses' = losses + 1
  /\ UNCHANGED <<dbVars, backupVars, api, wf, attempts, races>>

-----------------------------------------------------------------------------
Request ==
  \/ \E b \in Branch, on \in BOOLEAN :
       \/ CreateEmptyBranch(b, on)
       \/ \E p \in Branch, m \in {"schema_only", "schema_and_data"} : RequestClone(b, p, m, on)
  \/ \E r \in Restore, d \in Backup, b \in Branch : RequestRestore(r, d, b)

Dispatch(o) == DispatchAccepted(o) \/ DispatchThrows(o) \/ StartUnheard(o)

CloneStep(b, k) ==
  \/ MarkCreating(b, k) \/ ResetClone(b, k) \/ CopyDatabase(b, k) \/ CopyRefused(b, k)
  \/ TruncateCopy(b, k) \/ MarkCloned(b, k) \/ MarkCloneFailed(b, k)

RestoreStep(r, k) ==
  \/ MarkRestoring(r, k) \/ DropTarget(r, k) \/ CreateTarget(r, k) \/ RefuseRestore(r, k)
  \/ BeginLoad(r, k) \/ EndLoad(r, k) \/ LoadBreaks(r, k)
  \/ CommitRestored(r, k) \/ MarkRestoreFailed(r, k)

Work(o, k) == CloneStep(o, k) \/ RestoreStep(o, k) \/ ReportResult(o, k) \/ Rethrow(o, k)

Next ==
  \/ Request
  \/ \E o \in Op : Dispatch(o) \/ PickUp(o) \/ TimeOut(o)
  \/ \E o \in Op, k \in Attempt : Work(o, k) \/ StatementFails(o, k)
  \/ \E b \in Branch : \/ MarkNotDispatched(b) \/ ExpireBranch(b) \/ OpenBranch(b)
                       \/ \E x \in Datum : WriteRow(b, x)
                       \/ \E d \in Backup : FinishBackup(d, b)
  \/ \E d \in Backup : LoseDestination(d)
  \/ ApiCrash \/ WorkerCrash

Spec == Init /\ [][Next]_vars

(* The API finishes what it began, a worker polls and runs its attempts,   *)
(* Temporal keeps its timers.                                              *)
Fairness ==
  /\ \A b \in Branch : WF_vars(MarkNotDispatched(b))
  /\ \A o \in Op : /\ WF_vars(Dispatch(o)) /\ WF_vars(PickUp(o)) /\ WF_vars(TimeOut(o))
                   /\ \A k \in Attempt : WF_vars(Work(o, k))

FairSpec == Spec /\ Fairness

-----------------------------------------------------------------------------
(* The type invariant. *)
TypeOK ==
  /\ branch \in [Branch -> BranchRow]
  /\ restore \in [Restore -> RestoreRow]
  /\ disk \in [Branch -> {None} \cup Content]
  /\ dump \in [Backup -> {None} \cup SUBSET Datum]
  /\ lostDest \subseteq Backup
  /\ api \in [Op -> {"idle", "dispatch", "mark"}]
  /\ Temporal!RetryTypeOK
  /\ run \in [Op -> [Attempt -> Step]]
  /\ stranded \subseteq Op /\ disturbed \subseteq Branch
  /\ losses \in 0 .. MaxLosses /\ races \in 0 .. MaxRaces

(* A branch that stays ready loses no row, and its database is whole: only *)
(* after its row has stopped saying ready do clones and restores take it   *)
(* apart, unless two operations overlap on it, an attempt is repeated      *)
(* after a crash or a timeout (cloneBranchActivity marks creating again,   *)
(* restoreBackupActivity relies on the mark of the request), or the API    *)
(* did not hear of the clone it started.                                   *)
KeepsReadyData ==
  \A b \in Branch \ disturbed' :
    branch[b].status = "ready" /\ branch'[b].status = "ready" =>
      disk[b] = None \/ (disk'[b] # None /\ disk[b] \subseteq disk'[b])

(* KeepsReadyData is what every step does. *)
ReadyKeepsData == [][KeepsReadyData]_vars

(* A ready branch never holds half a restore, whatever was refused, broke  *)
(* off or was retried before.                                              *)
ReadyIsWhole ==
  \A b \in Branch \ disturbed : branch[b].status = "ready" => Whole(b)

(* A branch says creating only while an operation on it is under way: the  *)
(* marks of every error path are there.  Not so for a restore that could   *)
(* not be dispatched (POST restores answers 503 and leaves the mark), nor  *)
(* where a mark itself failed, or the statement before the try did in the  *)
(* last attempt.                                                           *)
CreatingIsUnderWay ==
  \A b \in Branch : branch[b].status = "creating" =>
    \/ \E o \in Op : Open(o) /\ Target(o) = b
    \/ \E o \in stranded : Target(o) = b

(* The parent of a branch is never deleted: what may expire is no parent   *)
(* (the row of a parent has no foreign key that would keep it).            *)
ParentStays ==
  \A b \in Branch : Here(b) /\ branch[b].parent # None => Here(branch[b].parent)

(* A restore job agrees with its closed workflow and with what it did to   *)
(* the branch, unless something disturbed it.                              *)
RestoreOutcome ==
  \A r \in Restore : Target(r) \notin disturbed /\ restore[r].status # "gone" =>
    /\ wf[r] = "completed" => restore[r].status = "succeeded"
    /\ wf[r] = "failed" /\ r \notin stranded => restore[r].status = "failed"

(* "the simplest way to guarantee a clean canvas for `pg_restore`", says   *)
(* activities.ts of the drop: pg_restore begins on an empty database.      *)
CleanCanvas ==
  [][\A r \in Restore, k \in Attempt :
       ~At(r, k, "loading") /\ run'[r][k] = "loading" => disk[Target(r)] = {}]_vars

(* Every branch that is being made or restored comes to rest. *)
BranchSettles ==
  \A b \in Branch :
    branch[b].status = "creating" ~>
      branch[b].status # "creating" \/ \E o \in stranded : Target(o) = b

-----------------------------------------------------------------------------
(* The refinement.                                                         *)
statusOf == [b \in Branch |-> IF b \in disturbed THEN "disturbed" ELSE branch[b].status]
wholeOf == [b \in Branch |-> Whole(b)]

Promise == INSTANCE BranchService WITH status <- statusOf, whole <- wholeOf

(* Branches live as BranchService promises. *)
BranchesFollowService == Promise!Service
=============================================================================
