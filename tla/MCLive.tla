------------------------------- MODULE MCLive -------------------------------
(***************************************************************************)
(* Liveness of the scheduler, of backups, of branches and of workloads.    *)
(* Only the `active` component takes steps, and fairness speaks of it only. *)
(***************************************************************************)
EXTENDS MCBackupScheduler

CONSTANTS main, b1, r1, d1, w1, q1, q2, First, Placeholder

VARIABLES active,
          rowB, scheduleB, destinationB, restoredB, refusedB, apiB, wfB, attemptsB,
          runB, objectsB, lostB, racedB, lossesB, racesB, branchC, restoreC,
          diskC, dumpC, lostDestC, apiC, wfC, attemptsC, runC, strandedC,
          disturbedC, lossesC, racesC, rowW, reqW, seenW, payloadW, wfW,
          attemptsW, runW, dockerW, imageW, stagingW, strandedW, disturbedW,
          lossesW, racesW

backupVars ==
  <<rowB, scheduleB, destinationB, restoredB, refusedB, apiB, wfB, attemptsB, runB,
  objectsB, lostB, racedB, lossesB, racesB>>

branchVars ==
  <<branchC, restoreC, diskC, dumpC, lostDestC, apiC, wfC, attemptsC, runC,
  strandedC, disturbedC, lossesC, racesC>>

workloadVars ==
  <<rowW, reqW, seenW, payloadW, wfW, attemptsW, runW, dockerW, imageW,
  stagingW, strandedW, disturbedW, lossesW, racesW>>

(* One scheduled backup, with attempts that may overlap. *)
Backups ==
  INSTANCE BackupExecution WITH
    Job <- {1}, Scheduled <- {1}, Uploading <- {1}, Keep <- 1,
    MaxAttempts <- 2, MaxLosses <- 1, MaxRaces <- 1, Overlapping <- FALSE,
    Restoring <- FALSE,
    row <- rowB, schedule <- scheduleB, destination <- destinationB,
    restored <- restoredB, refused <- refusedB, api <- apiB, wf <- wfB, attempts <- attemptsB,
    run <- runB, objects <- objectsB, lost <- lostB, raced <- racedB,
    losses <- lossesB, races <- racesB

(* A branch that is cloned from another. *)
Clones ==
  INSTANCE BranchLifecycle WITH
    Branch <- {main, b1}, Primary <- {main}, Restore <- {}, Backup <- {},
    Datum <- {}, MaxAttempts <- 2, MaxLosses <- 1, MaxRaces <- 0,
    Overlapping <- FALSE,
    branch <- branchC, restore <- restoreC, disk <- diskC, dump <- dumpC,
    lostDest <- lostDestC, api <- apiC, wf <- wfC, attempts <- attemptsC,
    run <- runC, stranded <- strandedC, disturbed <- disturbedC,
    losses <- lossesC, races <- racesC

(* A restore into either of two branches. *)
Restores ==
  INSTANCE BranchLifecycle WITH
    Branch <- {main, b1}, Primary <- {main, b1}, Restore <- {r1},
    Backup <- {d1}, Datum <- {}, MaxAttempts <- 2, MaxLosses <- 1,
    MaxRaces <- 0, Overlapping <- FALSE,
    branch <- branchC, restore <- restoreC, disk <- diskC, dump <- dumpC,
    lostDest <- lostDestC, api <- apiC, wf <- wfC, attempts <- attemptsC,
    run <- runC, stranded <- strandedC, disturbed <- disturbedC,
    losses <- lossesC, races <- racesC

(* A workload with a Dockerfile, then with a bundle. *)
Workloads ==
  INSTANCE WorkloadProvisioning WITH
    Workload <- {w1}, Deployed <- {}, Request <- {q1, q2}, Built <- {q1},
    Bundled <- {q2}, Tracked <- {}, MaxAttempts <- 2, MaxLosses <- 1,
    MaxRaces <- 0, Overlapping <- FALSE,
    row <- rowW, req <- reqW, seen <- seenW, payload <- payloadW, wf <- wfW,
    attempts <- attemptsW, run <- runW, docker <- dockerW, image <- imageW,
    staging <- stagingW, stranded <- strandedW, disturbed <- disturbedW,
    losses <- lossesW, races <- racesW

MCInit ==
  /\ active \in {"scheduler", "backups", "clones", "restores",
                "workloads"}
  /\ Init /\ Backups!Init /\ Workloads!Init
  /\ IF active = "clones" THEN Clones!Init ELSE Restores!Init

MCNext ==
  /\ \/ /\ active = "scheduler" /\ Next
        /\ UNCHANGED <<backupVars, branchVars, workloadVars>>
     \/ /\ active = "backups" /\ Backups!Next
        /\ UNCHANGED <<vars, branchVars, workloadVars>>
     \/ /\ \/ active = "clones" /\ Clones!Next
           \/ active = "restores" /\ Restores!Next
        /\ UNCHANGED <<vars, backupVars, workloadVars>>
     \/ /\ active = "workloads" /\ Workloads!Next
        /\ UNCHANGED <<vars, backupVars, branchVars>>
  /\ UNCHANGED active

Turn(component, A) == active = component /\ A

(* The Fairness of each component while it is active. *)
MCFairness ==
  /\ WF_clock(Turn("scheduler", Tock))
  /\ \A a \in Server : /\ WF_vars(Turn("scheduler", TickStart(a)))
                        /\ WF_vars(Turn("scheduler", RunRow(a)))
  /\ WF_backupVars(Turn("backups", Backups!Dispatch(1)))
  /\ WF_backupVars(Turn("backups", Backups!PickUp(1)))
  /\ WF_backupVars(Turn("backups", Backups!TimeOut(1)))
  /\ \A k \in 1 .. 2 : WF_backupVars(Turn("backups", Backups!Work(1, k)))
  /\ \A b \in {main, b1} :
       /\ WF_branchVars(Turn("clones", Clones!Dispatch(b) \/ Clones!MarkNotDispatched(b)))
       /\ WF_branchVars(Turn("clones", Clones!PickUp(b)))
       /\ WF_branchVars(Turn("clones", Clones!TimeOut(b)))
       /\ \A k \in 1 .. 2 : WF_branchVars(Turn("clones", Clones!Work(b, k)))
  /\ WF_branchVars(Turn("restores", Restores!Dispatch(r1)))
  /\ WF_branchVars(Turn("restores", Restores!PickUp(r1)))
  /\ WF_branchVars(Turn("restores", Restores!TimeOut(r1)))
  /\ \A k \in 1 .. 2 : WF_branchVars(Turn("restores", Restores!Work(r1, k)))
  /\ \A q \in {q1, q2} :
       /\ WF_workloadVars(Turn("workloads", Workloads!Serve(q)))
       /\ WF_workloadVars(Turn("workloads", Workloads!PickUp(<<q, w1>>)))
       /\ WF_workloadVars(Turn("workloads", Workloads!TimeOut(<<q, w1>>)))
       /\ \A k \in 1 .. 2 : WF_workloadVars(Turn("workloads", Workloads!Work(<<q, w1>>, k)))

MCSpec ==
  MCInit /\ [][MCNext]_<<active, vars, backupVars, branchVars, workloadVars>> /\ MCFairness

(* WorkflowCloses of the backups. *)
BackupsClose == Backups!WorkflowCloses

(* BranchSettles, which reads the same for the clone and for the restore. *)
BranchesSettle == Restores!BranchSettles

(* WorkloadSettles of the workload. *)
WorkloadsSettle == Workloads!WorkloadSettles
=============================================================================
