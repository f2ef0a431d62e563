----------------------- MODULE BackupExecutionProofs -----------------------
(***************************************************************************)
(* Theorems about BackupExecution, for any set of jobs, any limit of the   *)
(* retention, any number of attempts, crashes, failed statements, timeouts *)
(* and lost replies.  The inductive invariant has six parts:               *)
(*   - TypeOK;                                                             *)
(*   - InStep: how far the API, Temporal and the worker are with a job;    *)
(*   - ArtifactInHand: what an attempt is about to write into its row;     *)
(*   - ArtifactIsReal: the property;                                       *)
(*   - InOrder: a job whose attempts do not overlap has one attempt at     *)
(*     work, and its row says what that attempt has done;                  *)
(*   - Retained: no more than Keep successes remain, or an attempt is      *)
(*     still to apply the retention.                                       *)
(***************************************************************************)
EXTENDS MCBackups, FiniteSetTheorems, WellFoundedInduction, TLAPS

(* How far the API, Temporal and the worker are with one job: what makes   *)
(* attempts[j] + 1 an attempt whenever Temporal schedules one, and no      *)
(* attempt run before its row exists.                                      *)
InStep ==
  \A j \in Job :
    /\ api[j] = "dispatch" => wf[j] = "none"
    /\ wf[j] = "none" => attempts[j] = 0
    /\ wf[j] = "scheduled" => attempts[j] < MaxAttempts
    /\ wf[j] = "started" => attempts[j] > 0
    /\ row[j].status = "absent" => api[j] = "idle" /\ wf[j] = "none"
    /\ \A k \in Attempt : ~At(j, k, "idle") => k <= attempts[j]

(* A placeholder is made, or about to be, only where it is legitimate.     *)
MayHold(j) == Present(j) /\ j \in Uploading /\ destination

InHand(j, k) ==
  /\ At(j, k, "backup") /\ MayHold(j) => run[j][k].dest
  /\ At(j, k, "succeed") /\ MayHold(j) => run[j][k].made # Placeholder
  /\ At(j, k, "succeed") =>
       run[j][k].made = Placeholder \/ (run[j][k].made = k /\ <<j, k>> \in objects)

ArtifactInHand == \A j \in Job, k \in Attempt : InHand(j, k)

-----------------------------------------------------------------------------
(* Attempts are numbers, and there is a first one. *)
LEMMA AttemptType == Attempt \subseteq Nat /\ 1 \in Attempt
BY AttemptsAssumption DEF Attempt

(* An attempt that holds nothing is typed at every step. *)
LEMMA BlankType ==
  ASSUME NEW pc \in {"idle", "begin", "load", "backup", "succeed", "select", "delete",
                     "report", "fail", "rethrow", "over"}
  PROVE  Blank(pc) \in Run
BY DEF Blank, Run, Artifact

(* What one attempt does leaves the other attempts alone. *)
LEMMA BecomesAt ==
  ASSUME TypeOK, NEW j \in Job, NEW k \in Attempt, NEW r \in Run, Becomes(j, k, r)
  PROVE  /\ run' \in [Job -> [Attempt -> Run]]
         /\ run'[j][k] = r
         /\ \A i \in Job, l \in Attempt : i # j \/ l # k => run'[i][l] = run[i][l]
BY DEF TypeOK, Becomes

(* Each attempt is typed. *)
LEMMA RunAt ==
  ASSUME TypeOK, NEW j \in Job, NEW k \in Attempt
  PROVE  run[j][k] \in Run
BY DEF TypeOK

(* The initial state is typed. *)
LEMMA TypeInit == Init => TypeOK
<1> SUFFICES ASSUME Init PROVE TypeOK
  OBVIOUS
<1>1. row \in [Job -> JobRow]
  BY DEF Init, JobRow, Artifact
<1>2. run \in [Job -> [Attempt -> Run]]
  BY BlankType DEF Init
<1>3. refused \in BOOLEAN /\ destination \in BOOLEAN
  BY Zenon DEF Init
<1>4. losses \in 0 .. MaxLosses /\ races \in 0 .. MaxRaces /\ attempts \in [Job -> 0 .. MaxAttempts]
  BY BoundsAssumption, AttemptsAssumption DEF Init
<1>5. /\ schedule \in {"here", "moved", "gone"} /\ restored \subseteq Job
      /\ api \in [Job -> {"idle", "dispatch", "mark"}]
      /\ wf \in [Job -> {"none", "scheduled", "started", "completed", "failed"}]
      /\ objects \subseteq Job \X Attempt /\ lost \subseteq Job /\ raced \subseteq Job
  BY DEF Init
<1> QED
  BY <1>1, <1>2, <1>3, <1>4, <1>5, Zenon DEF TypeOK

(* An attempt that moves on with an artifact stays typed. *)
LEMMA AmendMade ==
  ASSUME NEW r \in Run, NEW made \in Artifact,
         NEW pc \in {"idle", "begin", "load", "backup", "succeed", "select", "delete",
                     "report", "fail", "rethrow", "over"}
  PROVE  /\ [r EXCEPT !.pc = pc, !.made = made] \in Run
         /\ [r EXCEPT !.pc = pc, !.made = made].pc = pc
BY DEF Run

(* An attempt that moves on with a survivor list stays typed. *)
LEMMA AmendKeep ==
  ASSUME NEW r \in Run, NEW keep \in SUBSET Job,
         NEW pc \in {"idle", "begin", "load", "backup", "succeed", "select", "delete",
                     "report", "fail", "rethrow", "over"}
  PROVE  /\ [r EXCEPT !.pc = pc, !.keep = keep] \in Run
         /\ [r EXCEPT !.pc = pc, !.keep = keep].pc = pc
BY DEF Run

(* Moving one attempt on leaves the others alone. *)
LEMMA GotoAt ==
  ASSUME TypeOK, NEW j \in Job, NEW k \in Attempt,
         NEW pc \in {"idle", "begin", "load", "backup", "succeed", "select", "delete",
                     "report", "fail", "rethrow", "over"},
         Goto(j, k, pc)
  PROVE  /\ run' \in [Job -> [Attempt -> Run]]
         /\ run'[j][k] = [run[j][k] EXCEPT !.pc = pc]
         /\ \A i \in Job, l \in Attempt : i # j \/ l # k => run'[i][l] = run[i][l]
<1>1. [run[j][k] EXCEPT !.pc = pc] \in Run
  BY RunAt DEF Run
<1> QED
  BY <1>1, BecomesAt DEF Goto

(* Marking a row keeps the rows typed. *)
LEMMA SetStatusType ==
  ASSUME TypeOK, NEW j \in Job,
         NEW status \in {"running", "failed"}, SetStatus(j, status)
  PROVE  row' \in [Job -> JobRow]
BY DEF TypeOK, SetStatus, JobRow

(* Every step keeps the types, given how far the parties are. *)
LEMMA TypeStep == ASSUME TypeOK, InStep, Next PROVE TypeOK'
<1> USE DEF faultVars, configVars
<1>1. ASSUME NEW j \in Job, RecordJob(j) PROVE TypeOK'
  BY <1>1 DEF RecordJob, TypeOK, JobRow
<1>2. ASSUME NEW j \in Job, DispatchAccepted(j) PROVE TypeOK'
  BY <1>2 DEF DispatchAccepted, TypeOK
<1>3. ASSUME NEW j \in Job, DispatchThrows(j) PROVE TypeOK'
  BY <1>3, BoundsAssumption DEF DispatchThrows, TypeOK
<1>4. ASSUME NEW j \in Job, MarkNotDispatched(j) PROVE TypeOK'
  BY <1>4 DEF MarkNotDispatched, TypeOK, JobRow
<1>5. ASSUME ApiCrash PROVE TypeOK'
  BY <1>5, BoundsAssumption DEF ApiCrash, TypeOK
<1>6. ASSUME MoveSchedule \/ DeleteSchedule \/ DeleteDestination \/ DeleteTarget PROVE TypeOK'
  BY <1>6 DEF MoveSchedule, DeleteSchedule, DeleteDestination, DeleteTarget, TypeOK
<1>7. ASSUME NEW j \in Job, RequestRestore(j) PROVE TypeOK'
  BY <1>7 DEF RequestRestore, TypeOK
<1>8. ASSUME NEW j \in Job, PickUp(j) PROVE TypeOK'
  <2>1. attempts[j] + 1 \in Attempt /\ attempts' \in [Job -> 0 .. MaxAttempts]
    BY <1>8, AttemptsAssumption DEF PickUp, TypeOK, InStep, Attempt
  <2>2. run' \in [Job -> [Attempt -> Run]]
    BY <1>8, <2>1, BlankType, BecomesAt DEF PickUp
  <2> QED
    BY <1>8, <2>1, <2>2 DEF PickUp, TypeOK
<1>9. ASSUME NEW j \in Job, TimeOut(j) PROVE TypeOK'
  BY <1>9, BoundsAssumption DEF TimeOut, RetryOrGiveUp, TypeOK
<1>10. ASSUME NEW j \in Job, NEW k \in Attempt, MarkRunning(j, k) PROVE TypeOK'
  BY <1>10, GotoAt, SetStatusType DEF MarkRunning, TypeOK
<1>11. ASSUME NEW j \in Job, NEW k \in Attempt, LoadContext(j, k) PROVE TypeOK'
  <2> DEFINE dest == Present(j) /\ j \in Uploading /\ destination
             sched == Present(j) /\ j \in Scheduled
             r == [run[j][k] EXCEPT !.pc = "backup", !.dest = dest, !.sched = sched]
  <2>1. Becomes(j, k, r)
    BY <1>11 DEF LoadContext
  <2>2. dest \in BOOLEAN /\ sched \in BOOLEAN
    OBVIOUS
  <2> HIDE DEF dest, sched
  <2>3. r \in Run
    <3>1. run[j][k] \in Run
      BY RunAt
    <3> QED
      BY <3>1, <2>2 DEF Run
  <2> HIDE DEF r
  <2>4. run' \in [Job -> [Attempt -> Run]]
    BY <2>1, <2>3, BecomesAt
  <2> QED
    BY <1>11, <2>4 DEF LoadContext, TypeOK
<1>12. ASSUME NEW j \in Job, NEW k \in Attempt, Upload(j, k) PROVE TypeOK'
  <2> DEFINE r == [run[j][k] EXCEPT !.pc = "succeed", !.made = k]
  <2>1. r \in Run
    BY RunAt, AmendMade DEF Artifact
  <2>2. Becomes(j, k, r)
    BY <1>12 DEF Upload
  <2> HIDE DEF r
  <2>3. run' \in [Job -> [Attempt -> Run]]
    BY <2>1, <2>2, BecomesAt
  <2> QED
    BY <1>12, <2>3 DEF Upload, TypeOK
<1>13. ASSUME NEW j \in Job, NEW k \in Attempt, UsePlaceholder(j, k) PROVE TypeOK'
  <2> DEFINE r == [run[j][k] EXCEPT !.pc = "succeed", !.made = Placeholder]
  <2>1. r \in Run
    BY RunAt, AmendMade DEF Artifact
  <2>2. Becomes(j, k, r)
    BY <1>13 DEF UsePlaceholder
  <2> HIDE DEF r
  <2>3. run' \in [Job -> [Attempt -> Run]]
    BY <2>1, <2>2, BecomesAt
  <2> QED
    BY <1>13, <2>3 DEF UsePlaceholder, TypeOK
<1>14. ASSUME NEW j \in Job, NEW k \in Attempt, BackupThrows(j, k) PROVE TypeOK'
  BY <1>14, GotoAt DEF BackupThrows, TypeOK
<1>15. ASSUME NEW j \in Job, NEW k \in Attempt, MarkSucceeded(j, k) PROVE TypeOK'
  <2>1. row' \in [Job -> JobRow]
    BY <1>15, RunAt DEF MarkSucceeded, TypeOK, JobRow, Run
  <2>2. run' \in [Job -> [Attempt -> Run]]
    BY <1>15, GotoAt DEF MarkSucceeded
  <2> QED
    BY <1>15, <2>1, <2>2 DEF MarkSucceeded, TypeOK
<1>16. ASSUME NEW j \in Job, NEW k \in Attempt, SelectSurvivors(j, k) PROVE TypeOK'
  <2> DEFINE survivors == Newest(Keep, SucceededOfSchedule)
             next == IF schedule # "gone" /\ survivors # {} THEN "delete" ELSE "report"
             r == [run[j][k] EXCEPT !.pc = next, !.keep = survivors]
  <2>1. Becomes(j, k, r)
    BY <1>16 DEF SelectSurvivors
  <2>2. survivors \in SUBSET Job
    BY ScheduledAssumption DEF Newest, SucceededOfSchedule
  <2>3. next \in {"delete", "report"}
    OBVIOUS
  <2> HIDE DEF survivors, next
  <2>4. r \in Run
    BY <2>2, <2>3, RunAt, AmendKeep
  <2> HIDE DEF r
  <2>5. run' \in [Job -> [Attempt -> Run]]
    BY <2>1, <2>4, BecomesAt
  <2> QED
    BY <1>16, <2>5 DEF SelectSurvivors, TypeOK
<1>17. ASSUME NEW j \in Job, NEW k \in Attempt, DeleteOld(j, k) PROVE TypeOK'
  <2>1. row' \in [Job -> JobRow]
    BY <1>17 DEF DeleteOld, TypeOK, JobRow
  <2> QED
    BY <1>17, <2>1, GotoAt DEF DeleteOld, TypeOK
<1>18. ASSUME NEW j \in Job, NEW k \in Attempt, ReportResult(j, k) PROVE TypeOK'
  BY <1>18, BlankType, BecomesAt DEF ReportResult, TypeOK
<1>19. ASSUME NEW j \in Job, NEW k \in Attempt, MarkFailed(j, k) PROVE TypeOK'
  BY <1>19, GotoAt, SetStatusType DEF MarkFailed, TypeOK
<1>20. ASSUME NEW j \in Job, NEW k \in Attempt, Rethrow(j, k) PROVE TypeOK'
  BY <1>20, BlankType, BecomesAt DEF Rethrow, RetryOrGiveUp, TypeOK
<1>21. ASSUME NEW j \in Job, NEW k \in Attempt, StatementFails(j, k) PROVE TypeOK'
  <2>1. PICK step \in {<<"begin", "rethrow">>, <<"load", "fail">>, <<"succeed", "fail">>,
                       <<"select", "report">>, <<"delete", "report">>,
                       <<"fail", "rethrow">>} : At(j, k, step[1]) /\ Goto(j, k, step[2])
    BY <1>21 DEF StatementFails
  <2>2. step[2] \in {"rethrow", "fail", "report"}
    OBVIOUS
  <2>3. run' \in [Job -> [Attempt -> Run]]
    BY <2>1, <2>2, GotoAt
  <2> QED
    BY <1>21, <2>3, BoundsAssumption DEF StatementFails, TypeOK
<1>22. ASSUME WorkerCrash PROVE TypeOK'
  BY <1>22, BlankType, BoundsAssumption DEF WorkerCrash, TypeOK
<1> QED
  BY <1>1, <1>2, <1>3, <1>4, <1>5, <1>6, <1>7, <1>8, <1>9, <1>10, <1>11, <1>12, <1>13,
     <1>14, <1>15, <1>16, <1>17, <1>18, <1>19, <1>20, <1>21, <1>22
     DEF Next, Dispatch, Work

-----------------------------------------------------------------------------
(* Rows are born once, stay gone once pruned, succeed by MarkSucceeded     *)
(* only; the destination never comes back, objects are never deleted.      *)
Monotone ==
  /\ \A i \in Job : row[i].status # "absent" =>
       row'[i].status # "absent" /\ (row[i].status = "pruned" => row'[i].status = "pruned")
  /\ destination' => destination
  /\ objects \subseteq objects'

KeepsSuccess ==
  \A i \in Job : row'[i].status = "succeeded" =>
    row[i].status = "succeeded" /\ row'[i].artifact = row[i].artifact

(* Marking a row running or failed makes no success and revives no row. *)
LEMMA SetStatusKeeps ==
  ASSUME TypeOK, NEW j \in Job, NEW status \in {"running", "failed"}, SetStatus(j, status)
  PROVE  /\ KeepsSuccess
         /\ \A i \in Job : row[i].status # "absent" =>
              row'[i].status # "absent" /\ (row[i].status = "pruned" => row'[i].status = "pruned")
BY DEF TypeOK, SetStatus, JobRow, KeepsSuccess, Present

(* Every step but MarkSucceeded only keeps or drops successes. *)
LEMMA MonotoneStep ==
  ASSUME TypeOK, Next
  PROVE  Monotone /\ (KeepsSuccess \/ \E j \in Job, k \in Attempt : MarkSucceeded(j, k))
<1> USE DEF Monotone, KeepsSuccess, TypeOK, JobRow, configVars
<1>1. ASSUME NEW j \in Job, RecordJob(j) PROVE Monotone /\ KeepsSuccess
  BY <1>1 DEF RecordJob
<1>2. ASSUME NEW j \in Job, DispatchAccepted(j) \/ DispatchThrows(j)
      PROVE  Monotone /\ KeepsSuccess
  BY <1>2 DEF DispatchAccepted, DispatchThrows
<1>3. ASSUME NEW j \in Job, MarkNotDispatched(j) PROVE Monotone /\ KeepsSuccess
  BY <1>3 DEF MarkNotDispatched, Present
<1>4. ASSUME ApiCrash \/ WorkerCrash \/ MoveSchedule \/ DeleteSchedule \/ DeleteDestination \/ DeleteTarget
      PROVE  Monotone /\ KeepsSuccess
  BY <1>4 DEF ApiCrash, WorkerCrash, MoveSchedule, DeleteSchedule, DeleteDestination, DeleteTarget
<1>5. ASSUME NEW j \in Job, RequestRestore(j) \/ PickUp(j) \/ TimeOut(j)
      PROVE  Monotone /\ KeepsSuccess
  BY <1>5 DEF RequestRestore, PickUp, TimeOut
<1>6. ASSUME NEW j \in Job, NEW k \in Attempt, MarkRunning(j, k) \/ MarkFailed(j, k)
      PROVE  Monotone /\ KeepsSuccess
  BY <1>6, SetStatusKeeps DEF MarkRunning, MarkFailed
<1>7. ASSUME NEW j \in Job, NEW k \in Attempt,
             \/ LoadContext(j, k) \/ Upload(j, k) \/ UsePlaceholder(j, k)
             \/ BackupThrows(j, k) \/ SelectSurvivors(j, k)
             \/ ReportResult(j, k) \/ Rethrow(j, k) \/ StatementFails(j, k)
      PROVE  Monotone /\ KeepsSuccess
  BY <1>7 DEF LoadContext, Upload, UsePlaceholder, BackupThrows, SelectSurvivors,
              ReportResult, Rethrow, StatementFails
<1>8. ASSUME NEW j \in Job, NEW k \in Attempt, DeleteOld(j, k)
      PROVE  Monotone /\ KeepsSuccess
  BY <1>8 DEF DeleteOld, SucceededOfSchedule
<1>9. ASSUME NEW j \in Job, NEW k \in Attempt, MarkSucceeded(j, k) PROVE Monotone
  BY <1>9 DEF MarkSucceeded, Present
<1> QED
  BY <1>1, <1>2, <1>3, <1>4, <1>5, <1>6, <1>7, <1>8, <1>9 DEF Next, Dispatch, Work

-----------------------------------------------------------------------------
(* A step of attempt k of j, and what it may tell Temporal. *)
WorkStep(j, k) ==
  /\ ~At(j, k, "idle")
  /\ \E r \in Run : r.pc # "idle" /\ Becomes(j, k, r)
  /\ UNCHANGED <<api, attempts>>
  /\ \A i \in Job : \/ wf'[i] = wf[i]
                    \/ wf[i] = "started" /\ wf'[i] \in {"completed", "failed"}
                    \/ wf[i] = "started" /\ wf'[i] = "scheduled" /\ attempts[i] < MaxAttempts

(* A step within an attempt tells Temporal nothing. *)
LEMMA GotoIsWork ==
  ASSUME TypeOK, NEW j \in Job, NEW k \in Attempt, ~At(j, k, "idle"),
         NEW pc \in {"begin", "load", "backup", "succeed", "select", "delete",
                     "report", "fail", "rethrow", "over"},
         Goto(j, k, pc), UNCHANGED <<api, attempts, wf>>
  PROVE  WorkStep(j, k)
<1> DEFINE r == [run[j][k] EXCEPT !.pc = pc]
<1>1. r \in Run /\ r.pc # "idle"
  BY RunAt DEF Run
<1>2. Becomes(j, k, r)
  BY DEF Goto
<1> QED
  BY <1>1, <1>2 DEF WorkStep

(* The last step of an attempt tells Temporal only if it is current. *)
LEMMA ReportIsWork ==
  ASSUME TypeOK, NEW j \in Job, NEW k \in Attempt, ~At(j, k, "idle"),
         NEW outcome \in {"completed", "failed", "scheduled"},
         outcome = "scheduled" => attempts[j] < MaxAttempts,
         wf' = IF Current(j, k) THEN [wf EXCEPT ![j] = outcome] ELSE wf,
         Becomes(j, k, Blank("over")), UNCHANGED <<api, attempts>>
  PROVE  WorkStep(j, k)
<1>1. Blank("over") \in Run /\ Blank("over").pc # "idle"
  BY BlankType DEF Blank
<1>2. ASSUME NEW i \in Job
      PROVE  \/ wf'[i] = wf[i]
             \/ wf[i] = "started" /\ wf'[i] \in {"completed", "failed"}
             \/ wf[i] = "started" /\ wf'[i] = "scheduled" /\ attempts[i] < MaxAttempts
  <2>1. CASE ~Current(j, k) \/ i # j
    BY <2>1 DEF TypeOK
  <2>2. CASE Current(j, k) /\ i = j
    <3>1. wf[j] = "started" /\ wf'[j] = outcome
      BY <2>2 DEF TypeOK, Current
    <3> QED
      BY <2>2, <3>1
  <2> QED
    BY <2>1, <2>2
<1> QED
  BY <1>1, <1>2 DEF WorkStep

(* Every action of createBackupActivity is a step of one attempt. *)
LEMMA WorkIsWork ==
  ASSUME TypeOK, NEW j \in Job, NEW k \in Attempt, Work(j, k) \/ StatementFails(j, k)
  PROVE  WorkStep(j, k)
<1>1. CASE MarkRunning(j, k)
  BY <1>1, GotoIsWork DEF MarkRunning, At
<1>2. CASE LoadContext(j, k)
  <2> DEFINE dest == Present(j) /\ j \in Uploading /\ destination
             sched == Present(j) /\ j \in Scheduled
             r == [run[j][k] EXCEPT !.pc = "backup", !.dest = dest, !.sched = sched]
  <2>1. Becomes(j, k, r) /\ ~At(j, k, "idle")
    BY <1>2 DEF LoadContext, At
  <2>2. dest \in BOOLEAN /\ sched \in BOOLEAN
    OBVIOUS
  <2> HIDE DEF dest, sched
  <2>3. r \in Run /\ r.pc # "idle"
    <3>1. run[j][k] \in Run
      BY RunAt
    <3> QED
      BY <3>1, <2>2 DEF Run
  <2> QED
    BY <1>2, <2>1, <2>3 DEF LoadContext, WorkStep
<1>3. CASE Upload(j, k) \/ UsePlaceholder(j, k)
  <2>1. PICK made \in Artifact :
          Becomes(j, k, [run[j][k] EXCEPT !.pc = "succeed", !.made = made])
    BY <1>3 DEF Upload, UsePlaceholder, Artifact
  <2> DEFINE r == [run[j][k] EXCEPT !.pc = "succeed", !.made = made]
  <2>2. r \in Run /\ r.pc # "idle"
    BY RunAt, AmendMade
  <2> QED
    BY <1>3, <2>1, <2>2 DEF Upload, UsePlaceholder, WorkStep, At
<1>4. CASE BackupThrows(j, k)
  BY <1>4, GotoIsWork DEF BackupThrows, At
<1>5. CASE MarkSucceeded(j, k)
  BY <1>5, GotoIsWork DEF MarkSucceeded, At
<1>6. CASE SelectSurvivors(j, k)
  <2> DEFINE survivors == Newest(Keep, SucceededOfSchedule)
             next == IF schedule # "gone" /\ survivors # {} THEN "delete" ELSE "report"
             r == [run[j][k] EXCEPT !.pc = next, !.keep = survivors]
  <2>1. Becomes(j, k, r) /\ ~At(j, k, "idle")
    BY <1>6 DEF SelectSurvivors, At
  <2>2. survivors \in SUBSET Job
    BY ScheduledAssumption DEF Newest, SucceededOfSchedule
  <2>3. next \in {"delete", "report"}
    OBVIOUS
  <2> HIDE DEF survivors, next
  <2>4. r \in Run /\ r.pc # "idle"
    BY <2>2, <2>3, RunAt, AmendKeep
  <2> QED
    BY <1>6, <2>1, <2>4 DEF SelectSurvivors, WorkStep
<1>7. CASE DeleteOld(j, k)
  BY <1>7, GotoIsWork DEF DeleteOld, At
<1>8. CASE ReportResult(j, k)
  BY <1>8, ReportIsWork DEF ReportResult, At
<1>9. CASE MarkFailed(j, k)
  BY <1>9, GotoIsWork DEF MarkFailed, At
<1>10. CASE Rethrow(j, k)
  <2>1. RetryOrGiveUp(j) \in {"completed", "failed", "scheduled"}
    BY DEF RetryOrGiveUp
  <2>2. RetryOrGiveUp(j) = "scheduled" => attempts[j] < MaxAttempts
    BY DEF RetryOrGiveUp
  <2> QED
    BY <1>10, <2>1, <2>2, ReportIsWork DEF Rethrow, At
<1>11. CASE StatementFails(j, k)
  <2>1. PICK step \in {<<"begin", "rethrow">>, <<"load", "fail">>, <<"succeed", "fail">>,
                       <<"select", "report">>, <<"delete", "report">>,
                       <<"fail", "rethrow">>} : At(j, k, step[1]) /\ Goto(j, k, step[2])
    BY <1>11 DEF StatementFails
  <2>2. step[1] # "idle" /\ step[2] \in {"rethrow", "fail", "report"}
    OBVIOUS
  <2>3. ~At(j, k, "idle")
    BY <2>1, <2>2 DEF At
  <2> QED
    BY <1>11, <2>1, <2>2, <2>3, GotoIsWork DEF StatementFails
<1> QED
  BY <1>1, <1>2, <1>3, <1>4, <1>5, <1>6, <1>7, <1>8, <1>9, <1>10, <1>11 DEF Work

(* A step of one attempt keeps API, Temporal and worker in step. *)
LEMMA WorkInStep ==
  ASSUME TypeOK, InStep, Monotone, NEW j \in Job, NEW k \in Attempt, WorkStep(j, k)
  PROVE  InStep'
<1>1. PICK r \in Run : r.pc # "idle" /\ Becomes(j, k, r)
  BY DEF WorkStep
<1>2. run'[j][k] = r
      /\ \A i \in Job, l \in Attempt : i # j \/ l # k => run'[i][l] = run[i][l]
  BY <1>1, BecomesAt
<1>3. \A i \in Job, l \in Attempt : run'[i][l].pc # "idle" => run[i][l].pc # "idle"
  BY <1>2 DEF WorkStep, At
<1> QED
  BY <1>3 DEF InStep, WorkStep, Monotone, At, TypeOK

(* Every step keeps API, Temporal and worker in step. *)
LEMMA InStepStep == ASSUME TypeOK, InStep, Monotone, Next PROVE InStep'
<1> USE DEF InStep, At, TypeOK, configVars, faultVars
<1>1. ASSUME NEW j \in Job, RecordJob(j) PROVE InStep'
  BY <1>1 DEF RecordJob, JobRow
<1>2. ASSUME NEW j \in Job, DispatchAccepted(j) PROVE InStep'
  BY <1>2, AttemptsAssumption DEF DispatchAccepted
<1>3. ASSUME NEW j \in Job, DispatchThrows(j) PROVE InStep'
  BY <1>3, AttemptsAssumption DEF DispatchThrows
<1>4. ASSUME NEW j \in Job, MarkNotDispatched(j) PROVE InStep'
  BY <1>4 DEF MarkNotDispatched, Monotone
<1>5. ASSUME ApiCrash \/ MoveSchedule \/ DeleteSchedule \/ DeleteDestination \/ DeleteTarget PROVE InStep'
  BY <1>5 DEF ApiCrash, MoveSchedule, DeleteSchedule, DeleteDestination, DeleteTarget
<1>6. ASSUME NEW j \in Job, RequestRestore(j) PROVE InStep'
  BY <1>6 DEF RequestRestore
<1>7. ASSUME NEW j \in Job, PickUp(j) PROVE InStep'
  <2>1. attempts[j] + 1 \in Attempt
    BY <1>7, AttemptsAssumption DEF PickUp, Attempt
  <2>2. \A i \in Job, l \in Attempt :
          i # j \/ l # attempts[j] + 1 => run'[i][l] = run[i][l]
    BY <1>7, <2>1, BlankType, BecomesAt DEF PickUp
  <2>3. /\ wf[j] = "scheduled" /\ wf'[j] = "started"
        /\ attempts'[j] = attempts[j] + 1 /\ attempts[j] \in Nat
        /\ \A i \in Job : i # j => wf'[i] = wf[i] /\ attempts'[i] = attempts[i]
        /\ api' = api /\ row' = row
    BY <1>7 DEF PickUp
  <2>4. \A l \in Attempt : ~At(j, l, "idle")' => l <= attempts'[j]
    <3>1. ASSUME NEW l \in Attempt, run'[j][l].pc # "idle"
          PROVE  l <= attempts[j] + 1
      <4>1. CASE l = attempts[j] + 1
        BY <4>1, <2>3 DEF Attempt
      <4>2. CASE l # attempts[j] + 1
        <5>1. run[j][l].pc # "idle"
          BY <3>1, <4>2, <2>2
        <5>2. l <= attempts[j] /\ l \in Nat
          BY <5>1, AttemptType
        <5> QED
          BY <5>2, <2>3
      <4> QED
        BY <4>1, <4>2
    <3> QED
      BY <3>1, <2>3
  <2>5. \A i \in Job, l \in Attempt : i # j /\ ~At(i, l, "idle")' => l <= attempts'[i]
    BY <2>2, <2>3
  <2>6. \A i \in Job :
          /\ api'[i] = "dispatch" => wf'[i] = "none"
          /\ wf'[i] = "none" => attempts'[i] = 0
          /\ wf'[i] = "scheduled" => attempts'[i] < MaxAttempts
          /\ wf'[i] = "started" => attempts'[i] > 0
          /\ row'[i].status = "absent" => api'[i] = "idle" /\ wf'[i] = "none"
    BY <2>3
  <2>7. \A i \in Job, l \in Attempt : run'[i][l].pc # "idle" => l <= attempts'[i]
    BY <2>4, <2>5
  <2> QED
    BY <2>6, <2>7
<1>8. ASSUME NEW j \in Job, TimeOut(j) PROVE InStep'
  BY <1>8 DEF TimeOut, RetryOrGiveUp
<1>9. ASSUME NEW j \in Job, NEW k \in Attempt, Work(j, k) \/ StatementFails(j, k)
      PROVE  InStep'
  BY <1>9, WorkIsWork, WorkInStep
<1>10. ASSUME WorkerCrash PROVE InStep'
  <2>1. \A i \in Job, l \in Attempt : run'[i][l].pc # "idle" => run[i][l].pc # "idle"
    BY <1>10 DEF WorkerCrash
  <2> QED
    BY <1>10, <2>1 DEF WorkerCrash
<1> QED
  BY <1>1, <1>2, <1>3, <1>4, <1>5, <1>6, <1>7, <1>8, <1>9, <1>10 DEF Next, Dispatch

-----------------------------------------------------------------------------
(* No attempt runs before its job is recorded. *)
LEMMA StartedIsRecorded ==
  ASSUME TypeOK, InStep, NEW j \in Job, NEW k \in Attempt, ~At(j, k, "idle")
  PROVE  row[j].status # "absent"
<1>1. k <= attempts[j] /\ k > 0 /\ k \in Nat /\ attempts[j] \in Nat
  BY DEF TypeOK, InStep, Attempt
<1> QED
  BY <1>1 DEF InStep

(* A recorded job that can still upload could before. *)
LEMMA MayHoldShrinks ==
  ASSUME TypeOK, TypeOK', Monotone, NEW j \in Job, row[j].status # "absent", MayHold(j)'
  PROVE  MayHold(j)
BY DEF Monotone, MayHold, Present

(* What an attempt holds stays legitimate while it does not move. *)
LEMMA Untouched ==
  ASSUME TypeOK, TypeOK', InStep, ArtifactInHand, Monotone,
         NEW j \in Job, NEW k \in Attempt, run'[j][k] = run[j][k]
  PROVE  InHand(j, k)'
<1>1. InHand(j, k)
  BY DEF ArtifactInHand
<1>2. CASE At(j, k, "idle")
  BY <1>2 DEF InHand, At
<1>3. CASE ~At(j, k, "idle")
  <2>1. MayHold(j)' => MayHold(j)
    BY <1>3, StartedIsRecorded, MayHoldShrinks
  <2>2. objects \subseteq objects'
    BY DEF Monotone
  <2> QED
    BY <1>1, <2>1, <2>2 DEF InHand, At
<1> QED
  BY <1>2, <1>3

(* An attempt away from the backup and its mark holds no artifact. *)
LEMMA GotoInHand ==
  ASSUME TypeOK, TypeOK', InStep, ArtifactInHand, Monotone,
         NEW j \in Job, NEW k \in Attempt, NEW r \in Run, Becomes(j, k, r),
         r.pc \notin {"backup", "succeed"}
  PROVE  ArtifactInHand'
<1>1. ASSUME NEW i \in Job, NEW l \in Attempt PROVE InHand(i, l)'
  <2>1. CASE i = j /\ l = k
    <3>1. run'[i][l] = r
      BY <2>1, BecomesAt
    <3> QED
      BY <3>1 DEF InHand, At
  <2>2. CASE i # j \/ l # k
    BY <2>2, BecomesAt, Untouched
  <2> QED
    BY <2>1, <2>2
<1> QED
  BY <1>1 DEF ArtifactInHand

(* Every step keeps what the attempts hold legitimate. *)
LEMMA InHandStep ==
  ASSUME TypeOK, TypeOK', InStep, ArtifactInHand, Monotone, Next
  PROVE  ArtifactInHand'
<1>1. ASSUME run' = run PROVE ArtifactInHand'
  BY <1>1, Untouched DEF ArtifactInHand
<1>2. ASSUME NEW j \in Job,
             \/ RecordJob(j) \/ Dispatch(j) \/ RequestRestore(j) \/ TimeOut(j)
             \/ MoveSchedule \/ DeleteSchedule \/ DeleteDestination \/ DeleteTarget \/ ApiCrash
      PROVE  run' = run
  BY <1>2 DEF RecordJob, Dispatch, DispatchAccepted, DispatchThrows, MarkNotDispatched,
              RequestRestore, TimeOut, MoveSchedule, DeleteSchedule, DeleteDestination, DeleteTarget, ApiCrash
<1>3. ASSUME MoveSchedule \/ DeleteSchedule \/ DeleteDestination \/ DeleteTarget \/ ApiCrash PROVE run' = run
  BY <1>3 DEF MoveSchedule, DeleteSchedule, DeleteDestination, DeleteTarget, ApiCrash
<1>4. ASSUME NEW j \in Job, PickUp(j) PROVE ArtifactInHand'
  <2>1. attempts[j] + 1 \in Attempt
    BY <1>4, AttemptsAssumption DEF PickUp, TypeOK, InStep, Attempt
  <2>2. Blank("begin") \in Run /\ Blank("begin").pc = "begin"
    BY BlankType DEF Blank
  <2>3. Becomes(j, attempts[j] + 1, Blank("begin"))
    BY <1>4 DEF PickUp
  <2> QED
    BY <2>1, <2>2, <2>3, GotoInHand
<1>5. ASSUME NEW j \in Job, NEW k \in Attempt, LoadContext(j, k) PROVE ArtifactInHand'
  <2> DEFINE dest == Present(j) /\ j \in Uploading /\ destination
             sched == Present(j) /\ j \in Scheduled
             r == [run[j][k] EXCEPT !.pc = "backup", !.dest = dest, !.sched = sched]
  <2>1. Becomes(j, k, r) /\ (MayHold(j)' <=> dest)
    BY <1>5 DEF LoadContext, MayHold, Present, configVars
  <2>2. dest \in BOOLEAN /\ sched \in BOOLEAN
    OBVIOUS
  <2> HIDE DEF dest, sched
  <2>3. r \in Run /\ r.pc = "backup" /\ (r.dest <=> dest)
    <3>1. run[j][k] \in Run
      BY RunAt
    <3> QED
      BY <3>1, <2>2 DEF Run
  <2> HIDE DEF r
  <2>4. run'[j][k] = r
        /\ \A i \in Job, l \in Attempt : i # j \/ l # k => run'[i][l] = run[i][l]
    BY <2>1, <2>3, BecomesAt
  <2>5. InHand(j, k)'
    BY <2>1, <2>3, <2>4 DEF InHand, At
  <2> QED
    BY <2>4, <2>5, Untouched DEF ArtifactInHand
<1>6. ASSUME NEW j \in Job, NEW k \in Attempt, Upload(j, k) PROVE ArtifactInHand'
  <2> DEFINE r == [run[j][k] EXCEPT !.pc = "succeed", !.made = k]
  <2>1. r \in Run /\ r.pc = "succeed" /\ r.made = k
    <3>1. run[j][k] \in Run
      BY RunAt
    <3> QED
      BY <3>1 DEF Run, Artifact
  <2>2. Becomes(j, k, r) /\ <<j, k>> \in objects'
    BY <1>6 DEF Upload
  <2> HIDE DEF r
  <2>3. run'[j][k] = r
        /\ \A i \in Job, l \in Attempt : i # j \/ l # k => run'[i][l] = run[i][l]
    BY <2>1, <2>2, BecomesAt
  <2>4. InHand(j, k)'
    BY <2>1, <2>2, <2>3, AttemptType, NoneAssumption DEF InHand, At
  <2> QED
    BY <2>3, <2>4, Untouched DEF ArtifactInHand
<1>7. ASSUME NEW j \in Job, NEW k \in Attempt, UsePlaceholder(j, k) PROVE ArtifactInHand'
  <2> DEFINE r == [run[j][k] EXCEPT !.pc = "succeed", !.made = Placeholder]
  <2>1. r \in Run /\ r.pc = "succeed" /\ r.made = Placeholder
    <3>1. run[j][k] \in Run
      BY RunAt
    <3> QED
      BY <3>1 DEF Run, Artifact
  <2>2. Becomes(j, k, r)
    BY <1>7 DEF UsePlaceholder
  <2> HIDE DEF r
  <2>3. run'[j][k] = r
        /\ \A i \in Job, l \in Attempt : i # j \/ l # k => run'[i][l] = run[i][l]
    BY <2>1, <2>2, BecomesAt
  <2>4. ~MayHold(j)'
    BY <1>7, StartedIsRecorded, MayHoldShrinks
       DEF UsePlaceholder, At, ArtifactInHand, InHand
  <2>5. InHand(j, k)'
    BY <2>1, <2>3, <2>4 DEF InHand, At
  <2> QED
    BY <2>3, <2>5, Untouched DEF ArtifactInHand
<1>8. ASSUME NEW j \in Job, NEW k \in Attempt, SelectSurvivors(j, k) PROVE ArtifactInHand'
  <2> DEFINE survivors == Newest(Keep, SucceededOfSchedule)
             next == IF schedule # "gone" /\ survivors # {} THEN "delete" ELSE "report"
             r == [run[j][k] EXCEPT !.pc = next, !.keep = survivors]
  <2>1. Becomes(j, k, r)
    BY <1>8 DEF SelectSurvivors
  <2>2. survivors \in SUBSET Job
    BY ScheduledAssumption DEF Newest, SucceededOfSchedule
  <2>3. next \in {"delete", "report"}
    OBVIOUS
  <2> HIDE DEF survivors, next
  <2>4. r \in Run /\ r.pc = next
    <3>1. run[j][k] \in Run
      BY RunAt
    <3> QED
      BY <3>1, <2>2, <2>3 DEF Run
  <2> HIDE DEF r
  <2> QED
    BY <2>1, <2>3, <2>4, GotoInHand
<1>9. ASSUME NEW j \in Job, NEW k \in Attempt,
             NEW pc \in {"load", "select", "delete", "report", "fail", "rethrow"},
             Goto(j, k, pc)
      PROVE  ArtifactInHand'
  <2> DEFINE r == [run[j][k] EXCEPT !.pc = pc]
  <2>1. r \in Run /\ r.pc = pc
    BY RunAt DEF Run
  <2>2. Becomes(j, k, r)
    BY <1>9 DEF Goto
  <2> HIDE DEF r
  <2> QED
    BY <2>1, <2>2, GotoInHand
<1>10. ASSUME NEW j \in Job, NEW k \in Attempt,
              \/ MarkRunning(j, k) \/ BackupThrows(j, k) \/ MarkSucceeded(j, k)
              \/ DeleteOld(j, k) \/ MarkFailed(j, k) \/ StatementFails(j, k)
       PROVE  ArtifactInHand'
  <2>1. CASE StatementFails(j, k)
    <3>1. PICK step \in {<<"begin", "rethrow">>, <<"load", "fail">>, <<"succeed", "fail">>,
                         <<"select", "report">>, <<"delete", "report">>,
                         <<"fail", "rethrow">>} : At(j, k, step[1]) /\ Goto(j, k, step[2])
      BY <2>1 DEF StatementFails
    <3>2. step[2] \in {"rethrow", "fail", "report"}
      OBVIOUS
    <3> QED
      BY <3>1, <3>2, <1>9
  <2> QED
    BY <1>9, <1>10, <2>1 DEF MarkRunning, BackupThrows, MarkSucceeded, DeleteOld, MarkFailed
<1>11. ASSUME NEW j \in Job, NEW k \in Attempt, ReportResult(j, k) \/ Rethrow(j, k)
       PROVE  ArtifactInHand'
  <2>1. Becomes(j, k, Blank("over"))
    BY <1>11 DEF ReportResult, Rethrow
  <2>2. Blank("over") \in Run /\ Blank("over").pc = "over"
    BY BlankType DEF Blank
  <2> QED
    BY <2>1, <2>2, GotoInHand
<1>12. ASSUME WorkerCrash PROVE ArtifactInHand'
  <2>1. ASSUME NEW i \in Job, NEW l \in Attempt PROVE InHand(i, l)'
    <3>1. run'[i][l] = run[i][l] \/ run'[i][l].pc = "over"
      BY <1>12 DEF WorkerCrash, Blank
    <3>2. CASE run'[i][l].pc = "over"
      BY <3>2 DEF InHand, At
    <3> QED
      BY <3>1, <3>2, Untouched
  <2> QED
    BY <2>1 DEF ArtifactInHand
<1> QED
  BY <1>1, <1>2, <1>3, <1>4, <1>5, <1>6, <1>7, <1>8, <1>10, <1>11, <1>12 DEF Next, Work

(* A row that succeeds takes the artifact its attempt holds; one that had  *)
(* succeeded keeps what it had.                                            *)
LEMMA RealStep ==
  ASSUME TypeOK, TypeOK', InStep, ArtifactInHand, ArtifactIsReal, Monotone,
         KeepsSuccess \/ \E j \in Job, k \in Attempt : MarkSucceeded(j, k)
  PROVE  ArtifactIsReal'
<1>1. CASE KeepsSuccess
  BY <1>1 DEF ArtifactIsReal, KeepsSuccess, Monotone
<1>2. ASSUME NEW j \in Job, NEW k \in Attempt, MarkSucceeded(j, k)
      PROVE  ArtifactIsReal'
  <2>1. UNCHANGED <<destination, objects>>
    BY <1>2 DEF MarkSucceeded, configVars
  <2>2. ASSUME NEW i \in Job, row'[i].status = "succeeded"
        PROVE  \/ row'[i] = row[i]
               \/ i = j /\ Present(j) /\ row'[i].artifact = run[j][k].made
    BY <1>2, <2>2 DEF MarkSucceeded, TypeOK
  <2>3. At(j, k, "succeed") /\ InHand(j, k)
    BY <1>2 DEF MarkSucceeded, ArtifactInHand
  <2>4. ASSUME NEW i \in Job, row'[i].status = "succeeded"
        PROVE  IF row'[i].artifact = Placeholder THEN i \in Uploading => ~destination
               ELSE <<i, row'[i].artifact>> \in objects
    <3>1. CASE row'[i] = row[i]
      BY <2>4, <3>1 DEF ArtifactIsReal
    <3>2. CASE i = j /\ Present(j) /\ row'[i].artifact = run[j][k].made
      BY <2>3, <3>2 DEF InHand, MayHold
    <3> QED
      BY <2>2, <2>4, <3>1, <3>2
  <2> QED
    BY <2>1, <2>4 DEF ArtifactIsReal
<1> QED
  BY <1>1, <1>2

-----------------------------------------------------------------------------
(***************************************************************************)
(* Jobs whose attempts follow each other.                                  *)
(***************************************************************************)
Success == {"succeeded", "pruned"}

Busy(j, k) == ~At(j, k, "idle") /\ ~At(j, k, "over")

(* What the row says while the one attempt at work is at pc.  A crash or a *)
(* failed statement may have left it behind, but a success is marked       *)
(* before it is reported.                                                  *)
Fits(pc, status, harmed) ==
  /\ pc \in {"select", "delete", "report"} => status \in Success
  /\ pc \in {"load", "backup", "succeed", "fail"} => status \in {"running", "pruned"}
  /\ ~harmed =>
       /\ pc = "begin" => status \in {"queued", "failed"}
       /\ pc \in {"load", "backup", "succeed", "fail"} => status = "running"
       /\ pc = "rethrow" => status = "failed"

(* What the row says between attempts and after the last. *)
Waits(w, status) ==
  /\ w = "none" => status \in {"absent", "queued", "failed"}
  /\ w = "scheduled" => status \in {"queued", "failed"}
  /\ w = "failed" => status = "failed"

Orderly(j) ==
  /\ api[j] # "idle" => wf[j] = "none" /\ row[j].status = "queued"
  /\ \A k \in Attempt : Busy(j, k) =>
       Current(j, k) /\ Fits(run[j][k].pc, row[j].status, j \in lost)
  /\ wf[j] = "completed" => row[j].status \in Success
  /\ j \notin lost => Waits(wf[j], row[j].status)
  /\ j \notin lost /\ wf[j] = "started" => \E k \in Attempt : Busy(j, k)

(* A job is orderly until an attempt of it outlives its timeout or the     *)
(* reply to its dispatch is lost.                                          *)
InOrder == \A j \in Job : j \notin raced => Orderly(j)

-----------------------------------------------------------------------------
(* What may happen to a job that no step is about: retention prunes it,    *)
(* the API forgets it.                                                     *)
Aside(i) ==
  /\ \/ row'[i].status = row[i].status
     \/ row[i].status = "succeeded" /\ row'[i].status = "pruned"
  /\ api'[i] \in {api[i], "idle"}
  /\ wf'[i] = wf[i] /\ attempts'[i] = attempts[i]
  /\ \A k \in Attempt : run'[i][k].pc = run[i][k].pc
  /\ i \in lost => i \in lost'
  /\ i \in raced => i \in raced'

(* Such a job stays orderly. *)
LEMMA AsideStays ==
  ASSUME TypeOK, InStep, NEW i \in Job, i \notin raced => Orderly(i), Aside(i), i \notin raced'
  PROVE  Orderly(i)'
<1>1. Orderly(i)
  BY DEF Aside
<1>3. \A k \in Attempt : Busy(i, k)' <=> Busy(i, k)
  BY DEF Busy, At, Aside
<1>4. \A k \in Attempt : Busy(i, k)' => Current(i, k)' /\ Fits(run[i][k].pc, row'[i].status, i \in lost')
  BY <1>1, <1>3 DEF Orderly, Aside, Current, Fits, Success
<1>5. \A k \in Attempt : Busy(i, k)' => Current(i, k)' /\ Fits(run'[i][k].pc, row'[i].status, i \in lost')
  BY <1>4 DEF Aside
<1>6. i \notin lost' => Waits(wf'[i], row'[i].status)
  BY <1>1 DEF Orderly, Aside, Waits
<1>7. i \notin lost' /\ wf'[i] = "started" => \E k \in Attempt : Busy(i, k)'
  BY <1>1, <1>3 DEF Orderly, Aside
<1> QED
  BY <1>1, <1>5, <1>6, <1>7 DEF Orderly, Aside, Success

(* The attempt at work of an orderly job is the only one, and the API has  *)
(* nothing to do with it.                                                  *)
LEMMA OneAtWork ==
  ASSUME TypeOK, InStep, NEW j \in Job, NEW k \in Attempt, Orderly(j), Busy(j, k)
  PROVE  /\ wf[j] = "started" /\ attempts[j] = k /\ api[j] = "idle"
         /\ Fits(run[j][k].pc, row[j].status, j \in lost)
         /\ \A l \in Attempt : l # k => ~Busy(j, l)
BY DEF Orderly, Current

(* A step of one attempt concerns its job only. *)
StepOf(j, k, r) ==
  /\ Becomes(j, k, r)
  /\ UNCHANGED <<api, attempts>>
  /\ \A i \in Job \ {j} :
       /\ wf'[i] = wf[i]
       /\ \/ row'[i].status = row[i].status
          \/ row[i].status = "succeeded" /\ row'[i].status = "pruned"
  /\ lost \subseteq lost' /\ raced' = raced

(* The other jobs stay orderly. *)
LEMMA OthersStay ==
  ASSUME TypeOK, InStep, InOrder, NEW j \in Job, NEW k \in Attempt, NEW r \in Run,
         StepOf(j, k, r)
  PROVE  \A i \in Job \ {j} : i \notin raced' => Orderly(i)'
<1> SUFFICES ASSUME NEW i \in Job, i # j, i \notin raced' PROVE Orderly(i)'
  OBVIOUS
<1>1. \A l \in Attempt : run'[i][l] = run[i][l]
  BY BecomesAt DEF StepOf
<1>2. Aside(i)
  BY <1>1 DEF Aside, StepOf
<1> QED
  BY <1>2, AsideStays DEF InOrder

(* An attempt that goes on, with a row that fits where it is, leaves its   *)
(* job orderly.                                                            *)
LEMMA GoesOn ==
  ASSUME TypeOK, InStep, InOrder, NEW j \in Job, NEW k \in Attempt, NEW r \in Run,
         Busy(j, k), StepOf(j, k, r), wf' = wf, r.pc \notin {"idle", "over"},
         Orderly(j) => Fits(r.pc, row'[j].status, j \in lost')
  PROVE  InOrder'
<1>1. ASSUME j \notin raced' PROVE Orderly(j)'
  <2>1. Orderly(j)
    BY <1>1 DEF InOrder, StepOf
  <2>2. run'[j][k] = r /\ \A l \in Attempt : l # k => run'[j][l] = run[j][l]
    BY BecomesAt DEF StepOf
  <2>3. wf[j] = "started" /\ attempts[j] = k /\ api[j] = "idle"
        /\ \A l \in Attempt : l # k => ~Busy(j, l)
    BY <2>1, OneAtWork
  <2>4. \A l \in Attempt : Busy(j, l)' <=> l = k
    BY <2>2, <2>3 DEF Busy, At
  <2>5. Current(j, k)' /\ Fits(run'[j][k].pc, row'[j].status, j \in lost')
    BY <2>1, <2>2, <2>3 DEF Current, StepOf
  <2> QED
    BY <2>3, <2>4, <2>5 DEF Orderly, StepOf, Waits
<1> QED
  BY <1>1, OthersStay DEF InOrder

(* An attempt that ends tells Temporal how. *)
LEMMA EndsWell ==
  ASSUME TypeOK, InStep, InOrder, NEW j \in Job, NEW k \in Attempt, Busy(j, k),
         StepOf(j, k, Blank("over")),
         NEW outcome \in {"completed", "scheduled", "failed"},
         wf' = IF Current(j, k) THEN [wf EXCEPT ![j] = outcome] ELSE wf,
         row' = row, lost' = lost,
         Orderly(j) =>
           IF outcome = "completed" THEN row[j].status \in Success
           ELSE j \notin lost => row[j].status = "failed"
  PROVE  InOrder'
<1>1. ASSUME j \notin raced' PROVE Orderly(j)'
  <2>1. Orderly(j)
    BY <1>1 DEF InOrder, StepOf
  <2>2. Blank("over") \in Run /\ Blank("over").pc = "over"
    BY BlankType DEF Blank
  <2>3. run'[j][k] = Blank("over") /\ \A l \in Attempt : l # k => run'[j][l] = run[j][l]
    BY <2>2, BecomesAt DEF StepOf
  <2>4. wf[j] = "started" /\ attempts[j] = k /\ api[j] = "idle"
        /\ \A l \in Attempt : l # k => ~Busy(j, l)
    BY <2>1, OneAtWork
  <2>5. \A l \in Attempt : ~Busy(j, l)'
    BY <2>2, <2>3, <2>4 DEF Busy, At
  <2>6. wf'[j] = outcome
    BY <2>4 DEF Current, TypeOK
  <2> QED
    BY <2>1, <2>4, <2>5, <2>6 DEF Orderly, StepOf, Waits
<1> QED
  BY <1>1, OthersStay, BlankType DEF InOrder


(* A row that a step does not touch, or that retention prunes. *)
LEMMA SetStatusAt ==
  ASSUME TypeOK, NEW j \in Job, NEW status \in {"running", "failed"}, SetStatus(j, status),
         row[j].status # "absent"
  PROVE  /\ row'[j].status = IF row[j].status = "pruned" THEN "pruned" ELSE status
         /\ \A i \in Job \ {j} : row'[i] = row[i]
BY DEF TypeOK, SetStatus, JobRow, Present

(* Moving an attempt on is a step of its own. *)
LEMMA GotoStepOf ==
  ASSUME TypeOK, NEW j \in Job, NEW k \in Attempt,
         NEW pc \in {"begin", "load", "backup", "succeed", "select", "delete",
                     "report", "fail", "rethrow"},
         Goto(j, k, pc), UNCHANGED <<api, attempts, wf, raced>>, lost \subseteq lost',
         \A i \in Job \ {j} :
           \/ row'[i].status = row[i].status
           \/ row[i].status = "succeeded" /\ row'[i].status = "pruned"
  PROVE  \E r \in Run : r.pc = pc /\ StepOf(j, k, r)
<1> DEFINE r == [run[j][k] EXCEPT !.pc = pc]
<1>1. r \in Run /\ r.pc = pc
  BY RunAt DEF Run
<1>2. StepOf(j, k, r)
  BY DEF Goto, StepOf
<1> QED
  BY <1>1, <1>2

(* What the attempts of createBackupActivity do keeps jobs orderly. *)
LEMMA WorkKeepsOrder ==
  ASSUME TypeOK, InStep, InOrder, NEW j \in Job, NEW k \in Attempt,
         Work(j, k) \/ StatementFails(j, k)
  PROVE  InOrder'
<1> USE DEF configVars, faultVars
<1>0. ASSUME NEW pc \in {"begin", "load", "backup", "succeed", "select", "delete",
                         "report", "fail", "rethrow"},
             Goto(j, k, pc), UNCHANGED <<api, attempts, wf, raced>>, lost \subseteq lost',
             \A i \in Job \ {j} :
               \/ row'[i].status = row[i].status
               \/ row[i].status = "succeeded" /\ row'[i].status = "pruned",
             Busy(j, k),
             Orderly(j) => Fits(pc, row'[j].status, j \in lost')
      PROVE  InOrder'
  <2>1. PICK r \in Run : r.pc = pc /\ StepOf(j, k, r)
    BY <1>0, GotoStepOf
  <2>2. r.pc \notin {"idle", "over"}
    BY <2>1
  <2>3. Orderly(j) => Fits(r.pc, row'[j].status, j \in lost')
    BY <1>0, <2>1
  <2> QED
    BY <1>0, <2>1, <2>2, <2>3, GoesOn
<1>1. Busy(j, k) => row[j].status # "absent"
  BY StartedIsRecorded DEF Busy
<1>2. Orderly(j) /\ Busy(j, k) => Fits(run[j][k].pc, row[j].status, j \in lost)
  BY DEF Orderly
<1>3. CASE MarkRunning(j, k)
  <2>1. Busy(j, k) /\ run[j][k].pc = "begin"
    BY <1>3 DEF MarkRunning, Busy, At
  <2>2. /\ row'[j].status = IF row[j].status = "pruned" THEN "pruned" ELSE "running"
        /\ \A i \in Job \ {j} : row'[i] = row[i]
    BY <1>1, <1>3, <2>1, SetStatusAt DEF MarkRunning
  <2>3. Orderly(j) => Fits("load", row'[j].status, j \in lost')
    BY <1>2, <1>3, <2>1, <2>2 DEF MarkRunning, Fits
  <2> QED
    BY <1>0, <1>3, <2>1, <2>2, <2>3 DEF MarkRunning
<1>4. CASE LoadContext(j, k)
  <2> DEFINE dest == Present(j) /\ j \in Uploading /\ destination
             sched == Present(j) /\ j \in Scheduled
             r == [run[j][k] EXCEPT !.pc = "backup", !.dest = dest, !.sched = sched]
  <2>1. Becomes(j, k, r) /\ Busy(j, k) /\ run[j][k].pc = "load"
    BY <1>4 DEF LoadContext, Busy, At
  <2>2. dest \in BOOLEAN /\ sched \in BOOLEAN
    OBVIOUS
  <2> HIDE DEF dest, sched
  <2>3. r \in Run /\ r.pc = "backup"
    <3>1. run[j][k] \in Run
      BY RunAt
    <3> QED
      BY <3>1, <2>2 DEF Run
  <2> HIDE DEF r
  <2>4. StepOf(j, k, r)
    BY <1>4, <2>1 DEF LoadContext, StepOf
  <2>5. Orderly(j) => Fits(r.pc, row'[j].status, j \in lost')
    BY <1>2, <1>4, <2>1, <2>3 DEF LoadContext, Fits
  <2>6. wf' = wf
    BY <1>4 DEF LoadContext
  <2> QED
    BY <2>1, <2>3, <2>4, <2>5, <2>6, GoesOn
<1>5. CASE Upload(j, k) \/ UsePlaceholder(j, k)
  <2>1. PICK made \in {k, Placeholder} :
          Becomes(j, k, [run[j][k] EXCEPT !.pc = "succeed", !.made = made])
    BY <1>5 DEF Upload, UsePlaceholder
  <2> DEFINE r == [run[j][k] EXCEPT !.pc = "succeed", !.made = made]
  <2>2. Becomes(j, k, r)
    BY <2>1
  <2>3. r \in Run /\ r.pc = "succeed"
    <3>1. run[j][k] \in Run /\ made \in Artifact
      BY RunAt DEF Artifact
    <3> QED
      BY <3>1, AmendMade
  <2> HIDE DEF r
  <2>4. StepOf(j, k, r) /\ Busy(j, k) /\ run[j][k].pc = "backup" /\ wf' = wf
    BY <1>5, <2>2 DEF Upload, UsePlaceholder, StepOf, Busy, At
  <2>5. Orderly(j) => Fits(r.pc, row'[j].status, j \in lost')
    BY <1>2, <1>5, <2>3, <2>4 DEF Upload, UsePlaceholder, Fits
  <2> QED
    BY <2>3, <2>4, <2>5, GoesOn
<1>6. CASE BackupThrows(j, k)
  <2>1. Busy(j, k) /\ run[j][k].pc = "backup"
    BY <1>6 DEF BackupThrows, Busy, At
  <2>2. Orderly(j) => Fits("fail", row'[j].status, j \in lost')
    BY <1>2, <1>6, <2>1 DEF BackupThrows, Fits
  <2> QED
    BY <1>0, <1>6, <2>1, <2>2 DEF BackupThrows
<1>7. CASE MarkSucceeded(j, k)
  <2>1. Busy(j, k) /\ run[j][k].pc = "succeed"
    BY <1>7 DEF MarkSucceeded, Busy, At
  <2>2. row'[j].status \in Success /\ \A i \in Job \ {j} : row'[i] = row[i]
    BY <1>1, <1>7, <2>1 DEF MarkSucceeded, Present, Success, TypeOK, JobRow
  <2>3. PICK pc \in {"select", "report"} : Goto(j, k, pc)
    BY <1>7 DEF MarkSucceeded
  <2>4. Orderly(j) => Fits(pc, row'[j].status, j \in lost')
    BY <2>2 DEF Fits
  <2> QED
    BY <1>0, <1>7, <2>1, <2>2, <2>3, <2>4 DEF MarkSucceeded
<1>8. CASE SelectSurvivors(j, k)
  <2> DEFINE survivors == Newest(Keep, SucceededOfSchedule)
             next == IF schedule # "gone" /\ survivors # {} THEN "delete" ELSE "report"
             r == [run[j][k] EXCEPT !.pc = next, !.keep = survivors]
  <2>1. Becomes(j, k, r) /\ Busy(j, k) /\ run[j][k].pc = "select"
    BY <1>8 DEF SelectSurvivors, Busy, At
  <2>2. survivors \in SUBSET Job
    BY ScheduledAssumption DEF Newest, SucceededOfSchedule
  <2>3. next \in {"delete", "report"}
    OBVIOUS
  <2> HIDE DEF survivors, next
  <2>4. r \in Run /\ r.pc = next
    <3>1. run[j][k] \in Run
      BY RunAt
    <3> QED
      BY <3>1, <2>2, <2>3 DEF Run
  <2> HIDE DEF r
  <2>5. StepOf(j, k, r) /\ wf' = wf
    BY <1>8, <2>1 DEF SelectSurvivors, StepOf
  <2>6. Orderly(j) => Fits(r.pc, row'[j].status, j \in lost')
    BY <1>2, <1>8, <2>1, <2>3, <2>4 DEF SelectSurvivors, Fits
  <2> QED
    BY <2>1, <2>3, <2>4, <2>5, <2>6, GoesOn
<1>9. CASE DeleteOld(j, k)
  <2>1. Busy(j, k) /\ run[j][k].pc = "delete"
    BY <1>9 DEF DeleteOld, Busy, At
  <2>2. \A i \in Job :
          \/ row'[i].status = row[i].status
          \/ row[i].status = "succeeded" /\ row'[i].status = "pruned"
    BY <1>9 DEF DeleteOld, SucceededOfSchedule, TypeOK, JobRow
  <2>3. Orderly(j) => Fits("report", row'[j].status, j \in lost')
    BY <1>2, <2>1, <2>2 DEF Fits, Success
  <2> QED
    BY <1>0, <1>9, <2>1, <2>2, <2>3 DEF DeleteOld
<1>10. CASE ReportResult(j, k)
  <2>1. Busy(j, k) /\ run[j][k].pc = "report"
    BY <1>10 DEF ReportResult, Busy, At
  <2>2. Orderly(j) => row[j].status \in Success
    BY <1>2, <2>1 DEF Fits
  <2>3. StepOf(j, k, Blank("over"))
    BY <1>10 DEF ReportResult, StepOf, TypeOK
  <2> QED
    BY <1>10, <2>1, <2>2, <2>3, EndsWell DEF ReportResult
<1>11. CASE MarkFailed(j, k)
  <2>1. Busy(j, k) /\ run[j][k].pc = "fail"
    BY <1>11 DEF MarkFailed, Busy, At
  <2>2. /\ row'[j].status = IF row[j].status = "pruned" THEN "pruned" ELSE "failed"
        /\ \A i \in Job \ {j} : row'[i] = row[i]
    BY <1>1, <1>11, <2>1, SetStatusAt DEF MarkFailed
  <2>3. Orderly(j) => Fits("rethrow", row'[j].status, j \in lost')
    BY <1>2, <1>11, <2>1, <2>2 DEF MarkFailed, Fits
  <2> QED
    BY <1>0, <1>11, <2>1, <2>2, <2>3 DEF MarkFailed
<1>12. CASE Rethrow(j, k)
  <2>1. Busy(j, k) /\ run[j][k].pc = "rethrow"
    BY <1>12 DEF Rethrow, Busy, At
  <2>2. Orderly(j) => (j \notin lost => row[j].status = "failed")
    BY <1>2, <2>1 DEF Fits
  <2>3. StepOf(j, k, Blank("over"))
    BY <1>12 DEF Rethrow, StepOf, TypeOK
  <2>4. RetryOrGiveUp(j) \in {"scheduled", "failed"}
    BY DEF RetryOrGiveUp
  <2> QED
    BY <1>12, <2>1, <2>2, <2>3, <2>4, EndsWell DEF Rethrow
<1>13. CASE StatementFails(j, k)
  <2>1. PICK step \in {<<"begin", "rethrow">>, <<"load", "fail">>, <<"succeed", "fail">>,
                       <<"select", "report">>, <<"delete", "report">>,
                       <<"fail", "rethrow">>} : At(j, k, step[1]) /\ Goto(j, k, step[2])
    BY <1>13 DEF StatementFails
  <2>2. Busy(j, k) /\ run[j][k].pc = step[1]
    BY <2>1 DEF Busy, At
  <2>3. j \in lost' /\ lost \subseteq lost' /\ row' = row
        /\ UNCHANGED <<api, attempts, wf, raced>>
    BY <1>13 DEF StatementFails
  <2>4. Orderly(j) => Fits(step[2], row'[j].status, j \in lost')
    BY <1>2, <2>2, <2>3 DEF Fits
  <2>5. step[2] \in {"rethrow", "fail", "report"}
    OBVIOUS
  <2> QED
    BY <1>0, <2>1, <2>2, <2>3, <2>4, <2>5
<1> QED
  BY <1>3, <1>4, <1>5, <1>6, <1>7, <1>8, <1>9, <1>10, <1>11, <1>12, <1>13 DEF Work

(* Every step keeps the jobs orderly that it does not lead astray. *)
LEMMA OrderStep == ASSUME TypeOK, InStep, InOrder, Next PROVE InOrder'
<1> USE DEF configVars, faultVars
<1>0. ASSUME NEW j \in Job,
             \A i \in Job \ {j} : Aside(i), j \notin raced' => Orderly(j)'
      PROVE  InOrder'
  BY <1>0, AsideStays DEF InOrder
<1>1. ASSUME NEW j \in Job, RecordJob(j) PROVE InOrder'
  <2>1. \A i \in Job \ {j} : Aside(i)
    BY <1>1 DEF RecordJob, Aside, TypeOK
  <2>2. wf[j] = "none" /\ attempts[j] = 0
    BY <1>1 DEF RecordJob, InStep
  <2>3. \A k \in Attempt : ~Busy(j, k)
    BY <1>1, StartedIsRecorded DEF RecordJob, Busy
  <2>4. row'[j].status = "queued" /\ wf'[j] = "none"
    BY <1>1, <2>2 DEF RecordJob, TypeOK, JobRow
  <2>5. \A k \in Attempt : ~Busy(j, k)'
    BY <1>1, <2>3 DEF RecordJob, Busy, At
  <2>6. Orderly(j)'
    BY <2>4, <2>5 DEF Orderly, Waits
  <2> QED
    BY <1>0, <2>1, <2>6
<1>2. ASSUME NEW j \in Job, DispatchAccepted(j) PROVE InOrder'
  <2>1. \A i \in Job \ {j} : Aside(i)
    BY <1>2 DEF DispatchAccepted, Aside, TypeOK
  <2>2. wf'[j] = "scheduled" /\ api'[j] = "idle" /\ wf[j] = "none" /\ api[j] # "idle"
    BY <1>2 DEF DispatchAccepted, TypeOK, InStep
  <2>3. \A k \in Attempt : Busy(j, k)' <=> Busy(j, k)
    BY <1>2 DEF DispatchAccepted, Busy, At
  <2>4. j \notin raced' => Orderly(j)'
    BY <1>2, <2>2, <2>3 DEF DispatchAccepted, InOrder, Orderly, Waits, Current
  <2> QED
    BY <1>0, <2>1, <2>4
<1>3. ASSUME NEW j \in Job, DispatchThrows(j) PROVE InOrder'
  <2>1. \A i \in Job \ {j} : Aside(i)
    BY <1>3 DEF DispatchThrows, Aside, TypeOK
  <2>2. j \notin raced' => wf' = wf /\ UNCHANGED faultVars
    BY <1>3 DEF DispatchThrows, TypeOK
  <2>3. wf[j] = "none" /\ api[j] # "idle"
    BY <1>3 DEF DispatchThrows, InStep
  <2>4. \A k \in Attempt : Busy(j, k)' <=> Busy(j, k)
    BY <1>3 DEF DispatchThrows, Busy, At
  <2>5. j \notin raced' => Orderly(j)'
    BY <1>3, <2>2, <2>3, <2>4 DEF DispatchThrows, InOrder, Orderly, Waits, Current
  <2> QED
    BY <1>0, <2>1, <2>5
<1>4. ASSUME NEW j \in Job, MarkNotDispatched(j) PROVE InOrder'
  <2>1. \A i \in Job \ {j} : Aside(i)
    BY <1>4 DEF MarkNotDispatched, Aside, TypeOK
  <2>2. ASSUME j \notin raced' PROVE Orderly(j)'
    <3>1. Orderly(j) /\ wf[j] = "none" /\ row[j].status = "queued"
      BY <1>4, <2>2 DEF MarkNotDispatched, InOrder, Orderly
    <3>2. row'[j].status = "failed" /\ api'[j] = "idle" /\ wf' = wf
      BY <1>4, <3>1 DEF MarkNotDispatched, Present, TypeOK, JobRow
    <3>3. \A k \in Attempt : ~Busy(j, k)'
      BY <1>4, <3>1 DEF MarkNotDispatched, Busy, At, Orderly, Current
    <3> QED
      BY <3>1, <3>2, <3>3 DEF Orderly, Waits
  <2> QED
    BY <1>0, <2>1, <2>2
<1>5. ASSUME \/ ApiCrash \/ MoveSchedule \/ DeleteSchedule \/ DeleteDestination \/ DeleteTarget
             \/ \E j \in Job : RequestRestore(j)
      PROVE  InOrder'
  <2>1. \A i \in Job : Aside(i)
    BY <1>5 DEF ApiCrash, MoveSchedule, DeleteSchedule, DeleteDestination, DeleteTarget, RequestRestore,
                Aside, TypeOK
  <2> QED
    BY <2>1, AsideStays DEF InOrder
<1>6. ASSUME NEW j \in Job, PickUp(j) PROVE InOrder'
  <2>1. PICK k \in Attempt : k = attempts[j] + 1
    BY <1>6, AttemptsAssumption DEF PickUp, TypeOK, InStep, Attempt
  <2>2. Blank("begin") \in Run /\ Blank("begin").pc = "begin"
    BY BlankType DEF Blank
  <2>3. run'[j][k] = Blank("begin")
        /\ \A i \in Job, l \in Attempt : i # j \/ l # k => run'[i][l] = run[i][l]
    BY <1>6, <2>1, <2>2, BecomesAt DEF PickUp
  <2>4. \A i \in Job \ {j} : Aside(i)
    BY <1>6, <2>3 DEF PickUp, Aside, TypeOK
  <2>5. ASSUME j \notin raced' PROVE Orderly(j)'
    <3>1. Orderly(j) /\ wf[j] = "scheduled"
      BY <1>6, <2>5 DEF PickUp, InOrder
    <3>2. api[j] = "idle" /\ \A l \in Attempt : ~Busy(j, l)
      BY <3>1 DEF Orderly, Current
    <3>3. \A l \in Attempt : Busy(j, l)' <=> l = k
      BY <2>2, <2>3, <3>2 DEF Busy, At
    <3>4. wf'[j] = "started" /\ attempts'[j] = k /\ UNCHANGED <<row, api, lost>>
      BY <1>6, <2>1 DEF PickUp, TypeOK
    <3>5. Fits("begin", row[j].status, j \in lost)
      BY <3>1 DEF Orderly, Waits, Fits
    <3> QED
      BY <2>2, <2>3, <3>1, <3>2, <3>3, <3>4, <3>5 DEF Orderly, Current, Waits
  <2> QED
    BY <1>0, <2>4, <2>5
<1>7. ASSUME NEW j \in Job, TimeOut(j) PROVE InOrder'
  <2>1. \A i \in Job \ {j} : Aside(i)
    BY <1>7 DEF TimeOut, Aside, TypeOK
  <2>2. ASSUME j \notin raced' PROVE Orderly(j)'
    <3>1. run[j][attempts[j]].pc = "over" /\ UNCHANGED faultVars /\ wf[j] = "started"
      BY <1>7, <2>2 DEF TimeOut
    <3>2. Orderly(j)
      BY <2>2, <3>1 DEF InOrder
    <3>3. \A l \in Attempt : ~Busy(j, l)
      BY <3>1, <3>2 DEF Orderly, Busy, Current, At
    <3>4. j \in lost
      BY <3>1, <3>2, <3>3 DEF Orderly
    <3>5. \A l \in Attempt : ~Busy(j, l)'
      BY <1>7, <3>3 DEF TimeOut, Busy, At
    <3>6. wf'[j] \in {"scheduled", "failed"} /\ UNCHANGED <<row, api, lost>>
      BY <1>7, <3>1 DEF TimeOut, RetryOrGiveUp, TypeOK
    <3> QED
      BY <3>1, <3>2, <3>4, <3>5, <3>6 DEF Orderly
  <2> QED
    BY <1>0, <2>1, <2>2
<1>8. ASSUME NEW j \in Job, NEW k \in Attempt, Work(j, k) \/ StatementFails(j, k)
      PROVE  InOrder'
  BY <1>8, WorkKeepsOrder
<1>9. ASSUME WorkerCrash PROVE InOrder'
  <2>1. ASSUME NEW i \in Job, i \notin raced' PROVE Orderly(i)'
    <3>0. Orderly(i) /\ UNCHANGED <<row, api, wf, attempts, raced>>
      BY <1>9, <2>1 DEF WorkerCrash, InOrder
    <3>1. \A k \in Attempt : run'[i][k] = IF At(i, k, "idle") THEN run[i][k] ELSE Blank("over")
      BY <1>9 DEF WorkerCrash
    <3>2. CASE Working(i)
      <4>1. \A k \in Attempt : ~Busy(i, k)'
        BY <3>1 DEF Busy, At, Blank
      <4>2. i \in lost'
        BY <1>9, <3>2 DEF WorkerCrash
      <4> QED
        BY <3>0, <4>1, <4>2 DEF Orderly
    <3>3. CASE ~Working(i)
      <4>1. \A k \in Attempt : run'[i][k].pc = run[i][k].pc
        BY <3>1, <3>3 DEF Working, At, Blank
      <4>2. Aside(i)
        BY <1>9, <3>0, <4>1 DEF Aside, WorkerCrash
      <4> QED
        BY <2>1, <3>0, <4>2, AsideStays
    <3> QED
      BY <3>2, <3>3
  <2> QED
    BY <2>1 DEF InOrder
<1> QED
  BY <1>1, <1>2, <1>3, <1>4, <1>5, <1>6, <1>7, <1>8, <1>9 DEF Next, Dispatch

-----------------------------------------------------------------------------
(***************************************************************************)
(* What the selects of retention pick.                                     *)
(***************************************************************************)
(* A set of numbers has a least element. *)
LEMMA LeastNumber ==
  ASSUME NEW S, S \subseteq Nat, S # {}
  PROVE  \E m \in S : \A k \in S : m <= k
<1> DEFINE less == {p \in Nat \X Nat : p[1] < p[2]}
<1>1. less = OpToRel(<, Nat)
  BY Zenon DEF OpToRel
<1>2. IsWellFoundedOn(less, Nat)
  BY <1>1, NatLessThanWellFounded, Zenon
<1> HIDE DEF less
<1>3. PICK m \in S : \A k \in S : <<k, m>> \notin less
  BY <1>2, WFMin, Zenon
<1>4. ASSUME NEW k \in S, ~(m <= k) PROVE FALSE
  <2>1. <<k, m>> \in Nat \X Nat /\ <<k, m>>[1] < <<k, m>>[2]
    BY <1>4
  <2> QED
    BY <1>3, <2>1, Zenon DEF less
<1> QED
  BY <1>4

(* The jobs of a set that were recorded after j. *)
After(j, J) == {i \in J : i > j}

(* There are finitely many, and fewer after a later job. *)
LEMMA AfterCount ==
  ASSUME NEW J \in SUBSET Nat, IsFiniteSet(J), NEW j \in J
  PROVE  /\ IsFiniteSet(After(j, J)) /\ Cardinality(After(j, J)) \in Nat
         /\ \A i \in J : i < j => Cardinality(After(j, J)) < Cardinality(After(i, J))
<1>1. \A i \in J : IsFiniteSet(After(i, J)) /\ Cardinality(After(i, J)) \in Nat
  BY FS_Subset, FS_CardinalityType DEF After
<1>2. ASSUME NEW i \in J, i < j
      PROVE  Cardinality(After(j, J)) < Cardinality(After(i, J))
  <2>1. After(j, J) \subseteq After(i, J) /\ j \in After(i, J) /\ j \notin After(j, J)
    <3>1. i \in Nat /\ j \in Nat /\ \A k \in J : k \in Nat
      OBVIOUS
    <3>2. \A k \in J : k > j => k > i
      BY <1>2, <3>1
    <3>3. j > i /\ ~(j > j)
      BY <1>2, <3>1
    <3> QED
      BY <3>2, <3>3 DEF After
  <2>2. Cardinality(After(j, J)) <= Cardinality(After(i, J))
        /\ Cardinality(After(j, J)) # Cardinality(After(i, J))
    BY <1>1, <2>1, FS_Subset
  <2> QED
    BY <1>1, <2>2
<1> QED
  BY <1>1, <1>2

(* Newest in terms of After. *)
LEMMA NewestAfter ==
  ASSUME NEW n, NEW J
  PROVE  Newest(n, J) = {j \in J : Cardinality(After(j, J)) < n}
BY DEF Newest, After

(* A limit of n selects at most n jobs. *)
LEMMA NewestAtMost ==
  ASSUME NEW n \in Nat, NEW J \in SUBSET Nat, IsFiniteSet(J)
  PROVE  IsFiniteSet(Newest(n, J)) /\ Cardinality(Newest(n, J)) <= n
<1> DEFINE N == Newest(n, J)
<1>1. N \subseteq J /\ \A j \in N : Cardinality(After(j, J)) < n
  BY NewestAfter
<1> HIDE DEF N
<1>2. IsFiniteSet(N)
  BY <1>1, FS_Subset
<1>3. CASE N = {}
  BY <1>2, <1>3, FS_EmptySet DEF N
<1>4. CASE N # {}
  <2>1. PICK m \in N : \A k \in N : m <= k
    BY <1>1, <1>4, LeastNumber
  <2>2. N \ {m} \subseteq After(m, J)
    BY <1>1, <2>1 DEF After
  <2>3. IsFiniteSet(After(m, J)) /\ Cardinality(After(m, J)) \in Nat
    BY <1>1, AfterCount
  <2>4. Cardinality(N \ {m}) <= Cardinality(After(m, J)) /\ Cardinality(After(m, J)) < n
    BY <1>1, <2>2, <2>3, FS_Subset
  <2>5. Cardinality(N \ {m}) = Cardinality(N) - 1 /\ Cardinality(N) \in Nat
    BY <1>2, FS_RemoveElement, FS_CardinalityType
  <2>6. Cardinality(N) <= n
    BY <2>3, <2>4, <2>5
  <2> QED
    BY <1>2, <2>6 DEF N
<1> QED
  BY <1>3, <1>4

(* It leaves a job out only if it selects n newer ones. *)
LEMMA NewestAtLeast ==
  ASSUME NEW n \in Nat, NEW J \in SUBSET Nat, IsFiniteSet(J),
         NEW j \in J, j \notin Newest(n, J)
  PROVE  /\ \A i \in Newest(n, J) : i > j
         /\ Cardinality(Newest(n, J)) >= n
<1> DEFINE N == Newest(n, J)
           c(i) == Cardinality(After(i, J))
<1>1. /\ N \subseteq J /\ j \notin N
      /\ \A i \in J : c(i) \in Nat /\ (i \in N <=> c(i) < n)
      /\ \A i, k \in J : i < k => c(k) < c(i)
  BY NewestAfter, AfterCount
<1> HIDE DEF N
<1>2. \A i \in N : i > j
  <2> SUFFICES ASSUME NEW i \in N, ~(i > j) PROVE FALSE
    OBVIOUS
  <2>1. i \in J /\ i # j /\ i \in Nat /\ j \in Nat
    BY <1>1
  <2>2. i < j
    BY <2>1
  <2> QED
    BY <1>1, <2>1, <2>2
<1>3. ~(Cardinality(N) < n)
  <2> SUFFICES ASSUME Cardinality(N) < n PROVE FALSE
    OBVIOUS
  <2> DEFINE counts == {c(i) : i \in J \ N}
  <2>1. counts \subseteq Nat /\ counts # {}
    BY <1>1
  <2>2. PICK least \in counts : \A k \in counts : least <= k
    BY <2>1, LeastNumber
  <2>3. PICK m \in J \ N : c(m) = least
    BY <2>2
  <2>4. \A i \in J \ N : c(m) <= c(i)
    BY <2>2, <2>3
  <2>5. After(m, J) \subseteq N
    <3> SUFFICES ASSUME NEW i \in J, i > m, i \notin N PROVE FALSE
      BY DEF After
    <3>1. m < i /\ c(i) \in Nat /\ c(m) \in Nat
      BY <1>1
    <3> QED
      BY <1>1, <2>4, <3>1
  <2>6. IsFiniteSet(N) /\ Cardinality(N) \in Nat
    BY <1>1, FS_Subset, FS_CardinalityType
  <2>7. c(m) <= Cardinality(N)
    BY <2>5, <2>6, FS_Subset
  <2>8. c(m) < n
    BY <1>1, <2>6, <2>7
  <2> QED
    BY <1>1, <2>8
<1>4. Cardinality(N) \in Nat
  BY <1>1, FS_Subset, FS_CardinalityType
<1> QED
  BY <1>2, <1>3, <1>4 DEF N

-----------------------------------------------------------------------------
(***************************************************************************)
(* Retention.                                                              *)
(***************************************************************************)
(* An attempt knows that its job belongs to a schedule as long as it does, *)
(* and the survivors it holds are no more than Keep.                       *)
Informed(j, k) ==
  /\ run[j][k].pc \in {"backup", "succeed"} /\ j \in Scheduled /\ Present(j) => run[j][k].sched
  /\ At(j, k, "delete") => Cardinality(run[j][k].keep) <= Keep

Excused == schedule = "gone" \/ lost # {}

(* No more than Keep successes remain, or a retention is still to come     *)
(* that will see to it, unless the last one was refused: a delete that     *)
(* gets through makes good what earlier ones were refused.                 *)
Retained ==
  /\ \A j \in Job, k \in Attempt : Informed(j, k)
  /\ ~Excused /\ ~refused =>
       \/ Cardinality(SucceededOfSchedule) <= Keep
       \/ \E j \in Job, k \in Attempt : run[j][k].pc \in {"select", "delete"}

(* Successes are finitely many numbers. *)
LEMMA SuccessesFinite ==
  /\ IsFiniteSet(SucceededOfSchedule) /\ SucceededOfSchedule \in SUBSET Nat
  /\ Cardinality(SucceededOfSchedule) \in Nat
<1>1. SucceededOfSchedule \subseteq Job
  BY ScheduledAssumption DEF SucceededOfSchedule
<1> QED
  BY <1>1, JobAssumption, FS_Subset, FS_CardinalityType

(* An attempt that does not move stays informed. *)
LEMMA StaysInformed ==
  ASSUME TypeOK, TypeOK', InStep, Monotone, NEW j \in Job, NEW k \in Attempt,
         Informed(j, k), run'[j][k] = run[j][k]
  PROVE  Informed(j, k)'
<1>1. CASE At(j, k, "idle")
  BY <1>1 DEF Informed, At
<1>2. CASE ~At(j, k, "idle")
  <2>1. Present(j)' => Present(j)
    BY <1>2, StartedIsRecorded DEF Monotone, Present
  <2> QED
    BY <2>1 DEF Informed, At
<1> QED
  BY <1>1, <1>2

(* An attempt that moves keeps the others informed. *)
LEMMA OthersInformed ==
  ASSUME TypeOK, TypeOK', InStep, Monotone, \A i \in Job, l \in Attempt : Informed(i, l),
         NEW j \in Job, NEW k \in Attempt, NEW r \in Run, Becomes(j, k, r),
         run'[j][k] = r => Informed(j, k)'
  PROVE  \A i \in Job, l \in Attempt : Informed(i, l)'
<1>1. run'[j][k] = r /\ \A i \in Job, l \in Attempt : i # j \/ l # k => run'[i][l] = run[i][l]
  BY BecomesAt
<1> SUFFICES ASSUME NEW i \in Job, NEW l \in Attempt PROVE Informed(i, l)'
  OBVIOUS
<1> QED
  BY <1>1, StaysInformed

(* Every step keeps the attempts informed. *)
LEMMA InformedStep ==
  ASSUME TypeOK, TypeOK', InStep, Monotone, Next, \A i \in Job, l \in Attempt : Informed(i, l)
  PROVE  \A i \in Job, l \in Attempt : Informed(i, l)'
<1> DEFINE Goal == \A i \in Job, l \in Attempt : Informed(i, l)'
<1> USE DEF configVars
<1>1. ASSUME run' = run PROVE Goal
  BY <1>1, StaysInformed
<1>2. ASSUME NEW j \in Job, NEW k \in Attempt, NEW r \in Run, Becomes(j, k, r),
             r.pc \notin {"backup", "succeed", "delete"}
      PROVE  Goal
  <2>1. run'[j][k] = r => Informed(j, k)'
    BY <1>2 DEF Informed, At
  <2> QED
    BY <1>2, <2>1, OthersInformed
<1>3. ASSUME NEW j \in Job, NEW k \in Attempt,
             NEW pc \in {"load", "select", "report", "fail", "rethrow"}, Goto(j, k, pc)
      PROVE  Goal
  <2> DEFINE r == [run[j][k] EXCEPT !.pc = pc]
  <2>1. r \in Run /\ r.pc = pc
    BY RunAt DEF Run
  <2>2. Becomes(j, k, r)
    BY <1>3 DEF Goto
  <2> HIDE DEF r, Goal
  <2> QED
    BY <1>2, <2>1, <2>2
<1>4. ASSUME \/ \E j \in Job : RecordJob(j) \/ Dispatch(j) \/ RequestRestore(j) \/ TimeOut(j)
             \/ MoveSchedule \/ DeleteSchedule \/ DeleteDestination \/ DeleteTarget \/ ApiCrash
      PROVE  Goal
  <2>1. run' = run
    BY <1>4 DEF RecordJob, Dispatch, DispatchAccepted, DispatchThrows, MarkNotDispatched,
                RequestRestore, TimeOut, MoveSchedule, DeleteSchedule, DeleteDestination, DeleteTarget,
                ApiCrash
  <2> QED
    BY <1>1, <2>1
<1>5. ASSUME NEW j \in Job, PickUp(j) PROVE Goal
  <2>1. attempts[j] + 1 \in Attempt
    BY <1>5, AttemptsAssumption DEF PickUp, TypeOK, InStep, Attempt
  <2>2. Blank("begin") \in Run /\ Blank("begin").pc = "begin"
    BY BlankType DEF Blank
  <2>3. Becomes(j, attempts[j] + 1, Blank("begin"))
    BY <1>5 DEF PickUp
  <2> HIDE DEF Goal
  <2> QED
    BY <1>2, <2>1, <2>2, <2>3
<1>6. ASSUME NEW j \in Job, NEW k \in Attempt, LoadContext(j, k) PROVE Goal
  <2> DEFINE dest == Present(j) /\ j \in Uploading /\ destination
             sched == Present(j) /\ j \in Scheduled
             r == [run[j][k] EXCEPT !.pc = "backup", !.dest = dest, !.sched = sched]
  <2>1. Becomes(j, k, r) /\ (Present(j)' <=> Present(j))
    BY <1>6 DEF LoadContext, Present
  <2>2. dest \in BOOLEAN /\ sched \in BOOLEAN /\ (Present(j) /\ j \in Scheduled => sched)
    OBVIOUS
  <2> HIDE DEF dest, sched
  <2>3. r \in Run /\ r.pc = "backup" /\ (r.sched <=> sched)
    <3>1. run[j][k] \in Run
      BY RunAt
    <3> QED
      BY <3>1, <2>2 DEF Run
  <2> HIDE DEF r
  <2>4. run'[j][k] = r => Informed(j, k)'
    BY <2>1, <2>2, <2>3 DEF Informed, At
  <2> QED
    BY <2>1, <2>3, <2>4, OthersInformed
<1>7. ASSUME NEW j \in Job, NEW k \in Attempt, Upload(j, k) \/ UsePlaceholder(j, k)
      PROVE  Goal
  <2>1. PICK made \in {k, Placeholder} :
          Becomes(j, k, [run[j][k] EXCEPT !.pc = "succeed", !.made = made])
    BY <1>7 DEF Upload, UsePlaceholder
  <2> DEFINE r == [run[j][k] EXCEPT !.pc = "succeed", !.made = made]
  <2>2. Becomes(j, k, r) /\ run[j][k].pc = "backup" /\ (Present(j)' <=> Present(j))
    BY <1>7, <2>1 DEF Upload, UsePlaceholder, At, Present
  <2>3. r \in Run /\ r.pc = "succeed" /\ r.sched = run[j][k].sched
    <3>1. run[j][k] \in Run /\ made \in Artifact
      BY RunAt DEF Artifact
    <3> QED
      BY <3>1 DEF Run
  <2> HIDE DEF r
  <2>4. run'[j][k] = r => Informed(j, k)'
    BY <2>2, <2>3 DEF Informed, At
  <2> QED
    BY <2>2, <2>3, <2>4, OthersInformed
<1>8. ASSUME NEW j \in Job, NEW k \in Attempt, SelectSurvivors(j, k) PROVE Goal
  <2> DEFINE survivors == Newest(Keep, SucceededOfSchedule)
             next == IF schedule # "gone" /\ survivors # {} THEN "delete" ELSE "report"
             r == [run[j][k] EXCEPT !.pc = next, !.keep = survivors]
  <2>1. Becomes(j, k, r)
    BY <1>8 DEF SelectSurvivors
  <2>2. survivors \in SUBSET Job /\ Cardinality(survivors) <= Keep
    BY ScheduledAssumption, KeepAssumption, SuccessesFinite, NewestAtMost
       DEF Newest, SucceededOfSchedule
  <2>3. next \in {"delete", "report"}
    OBVIOUS
  <2> HIDE DEF survivors, next
  <2>4. r \in Run /\ r.pc = next /\ r.keep = survivors
    <3>1. run[j][k] \in Run
      BY RunAt
    <3> QED
      BY <3>1, <2>2, <2>3 DEF Run
  <2> HIDE DEF r
  <2>5. run'[j][k] = r => Informed(j, k)'
    BY <2>2, <2>3, <2>4 DEF Informed, At
  <2> QED
    BY <2>1, <2>4, <2>5, OthersInformed
<1>9. ASSUME NEW j \in Job, NEW k \in Attempt, StatementFails(j, k) PROVE Goal
  <2>1. PICK step \in {<<"begin", "rethrow">>, <<"load", "fail">>, <<"succeed", "fail">>,
                       <<"select", "report">>, <<"delete", "report">>,
                       <<"fail", "rethrow">>} : At(j, k, step[1]) /\ Goto(j, k, step[2])
    BY <1>9 DEF StatementFails
  <2>2. step[2] \in {"rethrow", "fail", "report"}
    OBVIOUS
  <2> HIDE DEF Goal
  <2> QED
    BY <1>3, <2>1, <2>2
<1>10. ASSUME NEW j \in Job, NEW k \in Attempt,
              \/ MarkRunning(j, k) \/ BackupThrows(j, k) \/ MarkSucceeded(j, k)
              \/ DeleteOld(j, k) \/ MarkFailed(j, k)
       PROVE  Goal
  <2>1. \E pc \in {"load", "select", "report", "fail", "rethrow"} : Goto(j, k, pc)
    BY <1>10 DEF MarkRunning, BackupThrows, MarkSucceeded, DeleteOld, MarkFailed
  <2> HIDE DEF Goal
  <2> QED
    BY <1>3, <2>1
<1>11. ASSUME NEW j \in Job, NEW k \in Attempt, ReportResult(j, k) \/ Rethrow(j, k)
       PROVE  Goal
  <2>1. Becomes(j, k, Blank("over"))
    BY <1>11 DEF ReportResult, Rethrow
  <2>2. Blank("over") \in Run /\ Blank("over").pc = "over"
    BY BlankType DEF Blank
  <2> HIDE DEF Goal
  <2> QED
    BY <1>2, <2>1, <2>2
<1>12. ASSUME WorkerCrash PROVE Goal
  <2> SUFFICES ASSUME NEW i \in Job, NEW l \in Attempt PROVE Informed(i, l)'
    OBVIOUS
  <2>1. run'[i][l] = run[i][l] \/ run'[i][l].pc = "over"
    BY <1>12 DEF WorkerCrash, Blank
  <2>2. CASE run'[i][l].pc = "over"
    BY <2>2 DEF Informed, At
  <2> QED
    BY <2>1, <2>2, StaysInformed
<1> HIDE DEF Goal
<1>13. Goal
  BY <1>4, <1>5, <1>6, <1>7, <1>8, <1>9, <1>10, <1>11, <1>12 DEF Next, Work
<1> QED
  BY <1>13 DEF Goal

(* Where an attempt is after it moved on. *)
LEMMA GotoPc ==
  ASSUME TypeOK, NEW j \in Job, NEW k \in Attempt,
         NEW pc \in {"load", "backup", "succeed", "select", "delete", "report", "fail",
                     "rethrow"},
         Goto(j, k, pc)
  PROVE  /\ run'[j][k].pc = pc
         /\ \A i \in Job, l \in Attempt : i # j \/ l # k => run'[i][l] = run[i][l]
<1> DEFINE r == [run[j][k] EXCEPT !.pc = pc]
<1>1. r \in Run /\ r.pc = pc
  BY RunAt DEF Run
<1>2. Becomes(j, k, r)
  BY DEF Goto
<1> HIDE DEF r
<1> QED
  BY <1>1, <1>2, BecomesAt

(* Retaining: no more than Keep successes, or a retention at work. *)
Retaining ==
  \/ Cardinality(SucceededOfSchedule) <= Keep
  \/ \E j \in Job, k \in Attempt : run[j][k].pc \in {"select", "delete"}

(* Nothing that excuses a missing retention is ever undone. *)
LEMMA ExcusedStays == ASSUME TypeOK, Next, Excused PROVE Excused'
<1> USE DEF Excused, configVars, faultVars
<1>1. ASSUME NEW j \in Job, RecordJob(j) \/ Dispatch(j) \/ RequestRestore(j) \/ PickUp(j) \/ TimeOut(j)
      PROVE  Excused'
  BY <1>1 DEF RecordJob, Dispatch, DispatchAccepted, DispatchThrows, MarkNotDispatched,
              RequestRestore, PickUp, TimeOut
<1>2. ASSUME NEW j \in Job, NEW k \in Attempt, Work(j, k) \/ StatementFails(j, k)
      PROVE  Excused'
  BY <1>2 DEF Work, MarkRunning, LoadContext, Upload, UsePlaceholder, BackupThrows,
              MarkSucceeded, SelectSurvivors, DeleteOld, ReportResult, MarkFailed, Rethrow,
              StatementFails
<1>3. ASSUME MoveSchedule \/ DeleteSchedule \/ DeleteDestination \/ DeleteTarget \/ ApiCrash \/ WorkerCrash
      PROVE  Excused'
  BY <1>3 DEF MoveSchedule, DeleteSchedule, DeleteDestination, DeleteTarget, ApiCrash, WorkerCrash
<1> QED
  BY <1>1, <1>2, <1>3 DEF Next

(* Only the delete of a retention tells whether it was refused. *)
LEMMA RefusedStays ==
  ASSUME Next
  PROVE  refused' = refused \/ \E j \in Job, k \in Attempt : DeleteOld(j, k)
<1> USE DEF configVars
<1>1. ASSUME NEW j \in Job, RecordJob(j) \/ Dispatch(j) \/ RequestRestore(j) \/ PickUp(j) \/ TimeOut(j)
      PROVE  refused' = refused
  BY <1>1 DEF RecordJob, Dispatch, DispatchAccepted, DispatchThrows, MarkNotDispatched,
              RequestRestore, PickUp, TimeOut
<1>2. ASSUME NEW j \in Job, NEW k \in Attempt, ~DeleteOld(j, k), Work(j, k) \/ StatementFails(j, k)
      PROVE  refused' = refused
  BY <1>2 DEF Work, MarkRunning, LoadContext, Upload, UsePlaceholder, BackupThrows,
              MarkSucceeded, SelectSurvivors, ReportResult, MarkFailed, Rethrow, StatementFails
<1>3. ASSUME MoveSchedule \/ DeleteSchedule \/ DeleteDestination \/ DeleteTarget \/ ApiCrash \/ WorkerCrash
      PROVE  refused' = refused
  BY <1>3 DEF MoveSchedule, DeleteSchedule, DeleteDestination, DeleteTarget, ApiCrash, WorkerCrash
<1> QED
  BY <1>1, <1>2, <1>3 DEF Next

(* Where successes only go and the retentions at work stay, nothing is     *)
(* lost.                                                                   *)
LEMMA RetainingStays ==
  ASSUME Retaining, KeepsSuccess,
         \A j \in Job, k \in Attempt :
           run[j][k].pc \in {"select", "delete"} => run'[j][k].pc \in {"select", "delete"}
  PROVE  Retaining'
<1>1. SucceededOfSchedule' \subseteq SucceededOfSchedule
  BY ScheduledAssumption DEF SucceededOfSchedule, KeepsSuccess
<1>2. Cardinality(SucceededOfSchedule') <= Cardinality(SucceededOfSchedule)
      /\ Cardinality(SucceededOfSchedule') \in Nat
  <2>1. IsFiniteSet(SucceededOfSchedule)
    BY SuccessesFinite
  <2> QED
    BY <1>1, <2>1, FS_Subset, FS_CardinalityType
<1>3. CASE Cardinality(SucceededOfSchedule) <= Keep
  <2>1. Cardinality(SucceededOfSchedule') <= Keep
    BY <1>2, <1>3, SuccessesFinite, KeepAssumption
  <2> QED
    BY <2>1 DEF Retaining
<1>4. CASE \E j \in Job, k \in Attempt : run[j][k].pc \in {"select", "delete"}
  BY <1>4 DEF Retaining
<1> QED
  BY <1>3, <1>4 DEF Retaining

(* Every step keeps the promise of retention. *)
LEMMA RetainedStep ==
  ASSUME TypeOK, TypeOK', InStep, Monotone, Retained, Next,
         KeepsSuccess \/ \E j \in Job, k \in Attempt : MarkSucceeded(j, k)
  PROVE  Retained'
<1> USE DEF configVars, faultVars
<1>0. \A i \in Job, l \in Attempt : Informed(i, l)'
  BY InformedStep DEF Retained
<1> SUFFICES ASSUME ~Excused', ~refused' PROVE Retaining'
  BY <1>0 DEF Retained, Retaining
<1>1. ~Excused
  BY ExcusedStays
<1>1a. Retaining \/ \E j \in Job, k \in Attempt : DeleteOld(j, k)
  BY <1>1, RefusedStays DEF Retained, Retaining
<1> DEFINE Stay == \A j \in Job, k \in Attempt :
             run[j][k].pc \in {"select", "delete"} => run'[j][k].pc \in {"select", "delete"}
<1>2. ASSUME NEW j \in Job, NEW k \in Attempt, NEW r \in Run, Becomes(j, k, r),
             run[j][k].pc \notin {"select", "delete"}
      PROVE  Stay
  BY <1>2, BecomesAt
<1>3. ASSUME NEW j \in Job, NEW k \in Attempt,
             NEW pc \in {"load", "select", "report", "fail", "rethrow"},
             Goto(j, k, pc), run[j][k].pc \notin {"select", "delete"}
      PROVE  Stay
  <2>1. \A i \in Job, l \in Attempt : i # j \/ l # k => run'[i][l] = run[i][l]
    BY <1>3, GotoPc
  <2> QED
    BY <1>3, <2>1
<1>4. CASE Retaining /\ \E j \in Job, k \in Attempt : MarkSucceeded(j, k)
  <2>1. PICK j \in Job, k \in Attempt : MarkSucceeded(j, k)
    BY <1>4
  <2>2. PICK pc \in {"select", "report"} :
          Goto(j, k, pc) /\ pc = IF run[j][k].sched THEN "select" ELSE "report"
    BY <2>1 DEF MarkSucceeded
  <2>3. CASE j \in Scheduled /\ Present(j)
    <3>1. run[j][k].sched
      BY <2>1, <2>3 DEF MarkSucceeded, Retained, Informed, At
    <3>2. run'[j][k].pc = "select"
      BY <2>2, <3>1, GotoPc
    <3> QED
      BY <3>2 DEF Retaining
  <2>4. CASE ~(j \in Scheduled /\ Present(j))
    <3>1. SucceededOfSchedule' = SucceededOfSchedule
      BY <2>1, <2>4, ScheduledAssumption DEF MarkSucceeded, SucceededOfSchedule, TypeOK
    <3>2. Stay
      BY <2>1, <2>2, <1>3 DEF MarkSucceeded, At
    <3>3. Cardinality(SucceededOfSchedule') = Cardinality(SucceededOfSchedule)
      BY <3>1
    <3> QED
      BY <1>4, <3>2, <3>3 DEF Retaining
  <2> QED
    BY <2>3, <2>4
<1>5. ASSUME Retaining, KeepsSuccess, Stay PROVE Retaining'
  BY <1>5, RetainingStays
<1>6. ASSUME \/ \E j \in Job : RecordJob(j) \/ Dispatch(j) \/ RequestRestore(j) \/ TimeOut(j)
             \/ MoveSchedule \/ DeleteSchedule \/ DeleteDestination \/ DeleteTarget \/ ApiCrash
      PROVE  Stay
  BY <1>6 DEF RecordJob, Dispatch, DispatchAccepted, DispatchThrows, MarkNotDispatched,
              RequestRestore, TimeOut, MoveSchedule, DeleteSchedule, DeleteDestination, DeleteTarget, ApiCrash
<1>7. ASSUME NEW j \in Job, PickUp(j) PROVE Stay
  <2>1. PICK k \in Attempt : k = attempts[j] + 1
    BY <1>7, AttemptsAssumption DEF PickUp, TypeOK, InStep, Attempt
  <2>2. Becomes(j, k, Blank("begin")) /\ Blank("begin") \in Run
    BY <1>7, <2>1, BlankType DEF PickUp
  <2>3. At(j, k, "idle")
    BY <2>1 DEF InStep, Attempt, TypeOK
  <2> QED
    BY <1>2, <2>2, <2>3 DEF At
<1>8. ASSUME NEW j \in Job, NEW k \in Attempt, LoadContext(j, k) PROVE Stay
  <2> DEFINE dest == Present(j) /\ j \in Uploading /\ destination
             sched == Present(j) /\ j \in Scheduled
             r == [run[j][k] EXCEPT !.pc = "backup", !.dest = dest, !.sched = sched]
  <2>1. Becomes(j, k, r) /\ run[j][k].pc = "load"
    BY <1>8 DEF LoadContext, At
  <2>2. dest \in BOOLEAN /\ sched \in BOOLEAN
    OBVIOUS
  <2> HIDE DEF dest, sched
  <2>3. r \in Run
    <3>1. run[j][k] \in Run
      BY RunAt
    <3> QED
      BY <3>1, <2>2 DEF Run
  <2> HIDE DEF r
  <2> QED
    BY <1>2, <2>1, <2>3
<1>9. ASSUME NEW j \in Job, NEW k \in Attempt, Upload(j, k) \/ UsePlaceholder(j, k)
      PROVE  Stay
  <2>1. PICK made \in {k, Placeholder} :
          Becomes(j, k, [run[j][k] EXCEPT !.pc = "succeed", !.made = made])
    BY <1>9 DEF Upload, UsePlaceholder
  <2> DEFINE r == [run[j][k] EXCEPT !.pc = "succeed", !.made = made]
  <2>2. Becomes(j, k, r) /\ run[j][k].pc = "backup"
    BY <1>9, <2>1 DEF Upload, UsePlaceholder, At
  <2>3. r \in Run
    <3>1. run[j][k] \in Run /\ made \in Artifact
      BY RunAt DEF Artifact
    <3> QED
      BY <3>1 DEF Run
  <2> HIDE DEF r
  <2> QED
    BY <1>2, <2>2, <2>3
<1>10. ASSUME NEW j \in Job, NEW k \in Attempt,
              MarkRunning(j, k) \/ BackupThrows(j, k) \/ MarkFailed(j, k)
       PROVE  Stay
  <2>1. \E pc \in {"load", "fail", "rethrow"} :
          Goto(j, k, pc) /\ run[j][k].pc \notin {"select", "delete"}
    BY <1>10 DEF MarkRunning, BackupThrows, MarkFailed, At
  <2> HIDE DEF Stay
  <2> QED
    BY <1>3, <2>1
<1>11. ASSUME NEW j \in Job, NEW k \in Attempt, ReportResult(j, k) \/ Rethrow(j, k)
       PROVE  Stay
  <2>1. Becomes(j, k, Blank("over")) /\ run[j][k].pc \notin {"select", "delete"}
    BY <1>11 DEF ReportResult, Rethrow, At
  <2>2. Blank("over") \in Run
    BY BlankType
  <2> HIDE DEF Stay
  <2> QED
    BY <1>2, <2>1, <2>2
<1>12. ASSUME WorkerCrash \/ \E j \in Job, k \in Attempt : StatementFails(j, k) PROVE FALSE
  BY <1>12 DEF WorkerCrash, StatementFails, Excused
<1>13. ASSUME NEW j \in Job, NEW k \in Attempt, SelectSurvivors(j, k), KeepsSuccess
       PROVE  Retaining'
  <2> DEFINE survivors == Newest(Keep, SucceededOfSchedule)
             next == IF schedule # "gone" /\ survivors # {} THEN "delete" ELSE "report"
             r == [run[j][k] EXCEPT !.pc = next, !.keep = survivors]
  <2>1. Becomes(j, k, r) /\ UNCHANGED <<row, schedule>>
    BY <1>13 DEF SelectSurvivors
  <2>2. survivors \in SUBSET Job
    BY ScheduledAssumption DEF Newest, SucceededOfSchedule
  <2>3. next \in {"delete", "report"} /\ (survivors # {} => next = "delete")
    BY <1>1 DEF Excused
  <2>4. survivors = {} => Cardinality(SucceededOfSchedule) <= Keep
    <3>1. ASSUME survivors = {}, NEW i \in SucceededOfSchedule PROVE FALSE
      <4>1. Cardinality(survivors) >= Keep
        BY <3>1, SuccessesFinite, KeepAssumption, NewestAtLeast
      <4>2. Cardinality({}) = 0
        BY FS_EmptySet
      <4> QED
        BY <3>1, <4>1, <4>2, KeepAssumption
    <3>2. survivors = {} => SucceededOfSchedule = {}
      BY <3>1
    <3> QED
      BY <3>2, FS_EmptySet, KeepAssumption
  <2>5. Cardinality(SucceededOfSchedule') = Cardinality(SucceededOfSchedule)
    BY <2>1 DEF SucceededOfSchedule
  <2> HIDE DEF survivors, next
  <2>6. r \in Run /\ r.pc = next
    <3>1. run[j][k] \in Run
      BY RunAt
    <3> QED
      BY <3>1, <2>2, <2>3 DEF Run
  <2> HIDE DEF r
  <2>7. run'[j][k] = r
    BY <2>1, <2>6, BecomesAt
  <2> QED
    BY <2>3, <2>4, <2>5, <2>6, <2>7 DEF Retaining
<1>14. ASSUME NEW j \in Job, NEW k \in Attempt, DeleteOld(j, k) PROVE Retaining'
  <2>1. run[j][k].keep \in SUBSET Job /\ Cardinality(run[j][k].keep) <= Keep
    BY <1>14, RunAt DEF DeleteOld, Retained, Informed, Run
  <2>2. SucceededOfSchedule' \subseteq run[j][k].keep
    BY <1>14, ScheduledAssumption DEF DeleteOld, SucceededOfSchedule, TypeOK, JobRow
  <2>3. IsFiniteSet(run[j][k].keep) /\ Cardinality(run[j][k].keep) \in Nat
    BY <2>1, JobAssumption, FS_Subset, FS_CardinalityType
  <2>4. Cardinality(SucceededOfSchedule') <= Cardinality(run[j][k].keep)
        /\ Cardinality(SucceededOfSchedule') \in Nat
    BY <2>2, <2>3, FS_Subset, FS_CardinalityType
  <2>5. Cardinality(SucceededOfSchedule') <= Keep
    BY <2>1, <2>3, <2>4, KeepAssumption
  <2> QED
    BY <2>5 DEF Retaining
<1> HIDE DEF Stay
<1> QED
  BY <1>1a, <1>4, <1>5, <1>6, <1>7, <1>8, <1>9, <1>10, <1>11, <1>12, <1>13, <1>14
     DEF Next, Work

-----------------------------------------------------------------------------
IInv == TypeOK /\ InStep /\ ArtifactInHand /\ ArtifactIsReal /\ InOrder /\ Retained

(* The inductive invariant holds initially. *)
LEMMA IInvInit == Init => IInv
<1> SUFFICES ASSUME Init PROVE IInv
  OBVIOUS
<1>1. InStep
  BY DEF Init, InStep, At, Blank
<1>2. ArtifactInHand /\ ArtifactIsReal
  BY DEF Init, ArtifactInHand, InHand, ArtifactIsReal, At, Blank
<1>3. InOrder
  BY DEF Init, InOrder, Orderly, Busy, At, Blank, Waits
<1>4. Retained
  <2>1. \A j \in Job, k \in Attempt : Informed(j, k)
    BY DEF Init, Informed, At, Blank
  <2>2. SucceededOfSchedule = {}
    BY ScheduledAssumption DEF Init, SucceededOfSchedule
  <2>3. Cardinality(SucceededOfSchedule) <= Keep
    BY <2>2, FS_EmptySet, KeepAssumption
  <2> QED
    BY <2>1, <2>3 DEF Retained
<1> QED
  BY <1>1, <1>2, <1>3, <1>4, TypeInit DEF IInv

(* Every step keeps the inductive invariant. *)
LEMMA IInvStep == IInv /\ [Next]_vars => IInv'
<1>1. ASSUME IInv, Next PROVE IInv'
  <2>1. Monotone /\ (KeepsSuccess \/ \E j \in Job, k \in Attempt : MarkSucceeded(j, k))
    BY <1>1, MonotoneStep DEF IInv
  <2>2. TypeOK'
    BY <1>1, TypeStep DEF IInv
  <2>3. Retained'
    BY <1>1, <2>1, <2>2, RetainedStep DEF IInv
  <2> QED
    BY <1>1, <2>1, <2>2, <2>3, InStepStep, InHandStep, RealStep, OrderStep DEF IInv
<1>2. ASSUME IInv, UNCHANGED vars PROVE IInv'
  <2>1. (TypeOK /\ InStep /\ ArtifactInHand /\ ArtifactIsReal)'
    BY <1>2 DEF IInv, vars, TypeOK, InStep, ArtifactInHand, InHand, MayHold, ArtifactIsReal,
                At, Present
  <2>2. InOrder'
    BY <1>2 DEF IInv, vars, InOrder, Orderly, Busy, Current, At
  <2>3. \A j \in Job, k \in Attempt : Informed(j, k)'
    BY <1>2 DEF IInv, vars, Retained, Informed, At, Present
  <2>4. SucceededOfSchedule' = SucceededOfSchedule /\ run' = run /\ refused' = refused
        /\ (Excused' <=> Excused)
    BY <1>2 DEF vars, SucceededOfSchedule, Excused
  <2>5. Cardinality(SucceededOfSchedule') = Cardinality(SucceededOfSchedule)
    BY <2>4
  <2>6. Retained'
    BY <1>2, <2>3, <2>4, <2>5 DEF IInv, Retained
  <2> QED
    BY <2>1, <2>2, <2>6 DEF IInv
<1> QED
  BY <1>1, <1>2

(* The inductive invariant holds in every reachable state. *)
THEOREM IInvHolds == Spec => []IInv
BY IInvInit, IInvStep, PTL DEF Spec

(* Jobs, attempts, rows and what the worker holds keep their types; in     *)
(* particular no job gets more than MaxAttempts attempts.                  *)
THEOREM TypeCorrect == Spec => []TypeOK
<1>1. IInv => TypeOK
  BY DEF IInv
<1> QED
  BY IInvHolds, <1>1, PTL

(* Whatever attempts overlap, crash, time out or lose their statements, a  *)
(* row that says "succeeded" has its dump in S3, or is a placeholder       *)
(* because the job has no destination left (createBackupActivity).         *)
THEOREM SucceededHasDump == Spec => []ArtifactIsReal
<1>1. IInv => ArtifactIsReal
  BY DEF IInv
<1> QED
  BY IInvHolds, <1>1, PTL

(* Where no attempts of a job overlap, its row and its closed workflow     *)
(* tell the same story: what Temporal completed succeeded, and, unless a   *)
(* crash or a failed statement got in the way, what it gave up failed.     *)
THEOREM RowsAgreeWithWorkflows == Spec => []OutcomeAgrees
<1>1. IInv => OutcomeAgrees
  BY DEF IInv, OutcomeAgrees, InOrder, Orderly, Waits, Success
<1> QED
  BY IInvHolds, <1>1, PTL

(* However jobs of a schedule overlap and restores of their backups come   *)
(* and go, once all have come to rest no more than Keep of their backups   *)
(* remain unless the last delete of the retention was refused              *)
(* (applyScheduleRetention; restore_jobs on delete restrict, and cascading *)
(* with its target branch), for any number of jobs and any limit.          *)
THEOREM RetentionConvergesAlways == Spec => []RetentionConverges
<1>1. IInv => RetentionConverges
  <2> SUFFICES ASSUME IInv, \A j \in Job : Quiescent(j), ~Excused, ~refused
               PROVE  Cardinality(SucceededOfSchedule) <= Keep
    BY DEF RetentionConverges, Excused
  <2>1. \A j \in Job, k \in Attempt : run[j][k].pc \notin {"select", "delete"}
    BY DEF Quiescent, Working
  <2> QED
    BY <2>1 DEF IInv, Retained
<1> QED
  BY IInvHolds, <1>1, PTL

-----------------------------------------------------------------------------
(***************************************************************************)
(* Retention of jobs that run one after the other.                         *)
(***************************************************************************)
(* The survivors in hand are still the newest.                             *)
Fresh ==
  \A j \in Job, k \in Attempt :
    At(j, k, "delete") => run[j][k].keep = Newest(Keep, SucceededOfSchedule)

(* Who moves in a step. *)
LEMMA WhoMoves ==
  ASSUME TypeOK, InStep, Next
  PROVE  \/ run' = run
         \/ WorkerCrash
         \/ \E j \in Job : PickUp(j)
         \/ \E j \in Job, k \in Attempt :
              /\ Work(j, k) \/ StatementFails(j, k)
              /\ \A i \in Job, l \in Attempt : i # j \/ l # k => run'[i][l] = run[i][l]
<1>1. ASSUME \/ \E j \in Job : RecordJob(j) \/ Dispatch(j) \/ RequestRestore(j) \/ TimeOut(j)
             \/ MoveSchedule \/ DeleteSchedule \/ DeleteDestination \/ DeleteTarget \/ ApiCrash
      PROVE  run' = run
  BY <1>1 DEF RecordJob, Dispatch, DispatchAccepted, DispatchThrows, MarkNotDispatched,
              RequestRestore, TimeOut, MoveSchedule, DeleteSchedule, DeleteDestination, DeleteTarget, ApiCrash
<1>2. ASSUME NEW j \in Job, NEW k \in Attempt, Work(j, k) \/ StatementFails(j, k)
      PROVE  \A i \in Job, l \in Attempt : i # j \/ l # k => run'[i][l] = run[i][l]
  <2>1. PICK r \in Run : Becomes(j, k, r)
    BY <1>2, WorkIsWork DEF WorkStep
  <2> QED
    BY <2>1, BecomesAt
<1> QED
  BY <1>1, <1>2 DEF Next

Writes(j, k) == MarkRunning(j, k) \/ MarkSucceeded(j, k) \/ MarkFailed(j, k)

(* Who writes what retention reads. *)
LEMMA WhoWrites ==
  ASSUME TypeOK, InOrder, raced = {}, Next
  PROVE  \/ \E j \in Job, k \in Attempt : DeleteOld(j, k)
         \/ /\ \A i \in Job : row'[i].status = "pruned" => row[i].status = "pruned"
            /\ \/ SucceededOfSchedule' = SucceededOfSchedule
               \/ \E j \in Job, k \in Attempt : Writes(j, k)
<1> DEFINE NoPrune == \A i \in Job : row'[i].status = "pruned" => row[i].status = "pruned"
           Same == SucceededOfSchedule' = SucceededOfSchedule
<1> USE DEF SucceededOfSchedule
<1>1. ASSUME row' = row PROVE NoPrune /\ Same
  BY <1>1
<1>2. ASSUME NEW j \in Job, RecordJob(j) PROVE NoPrune /\ Same
  BY <1>2, ScheduledAssumption DEF RecordJob, TypeOK, JobRow
<1>3. ASSUME NEW j \in Job, MarkNotDispatched(j) PROVE NoPrune /\ Same
  <2>1. row[j].status = "queued"
    BY <1>3 DEF MarkNotDispatched, InOrder, Orderly
  <2> QED
    BY <1>3, <2>1, ScheduledAssumption DEF MarkNotDispatched, TypeOK, JobRow
<1>4. ASSUME \/ \E j \in Job : \/ DispatchAccepted(j) \/ DispatchThrows(j)
                               \/ RequestRestore(j) \/ PickUp(j) \/ TimeOut(j)
             \/ MoveSchedule \/ DeleteSchedule \/ DeleteDestination \/ DeleteTarget \/ ApiCrash \/ WorkerCrash
             \/ \E j \in Job, k \in Attempt :
                  \/ LoadContext(j, k) \/ Upload(j, k) \/ UsePlaceholder(j, k)
                  \/ BackupThrows(j, k) \/ SelectSurvivors(j, k) \/ ReportResult(j, k)
                  \/ Rethrow(j, k) \/ StatementFails(j, k)
      PROVE  row' = row
  BY <1>4 DEF DispatchAccepted, DispatchThrows, RequestRestore, PickUp, TimeOut, MoveSchedule,
              DeleteSchedule, DeleteDestination, DeleteTarget, ApiCrash, WorkerCrash, LoadContext, Upload,
              UsePlaceholder, BackupThrows, SelectSurvivors, ReportResult, Rethrow,
              StatementFails
<1>5. ASSUME NEW j \in Job, NEW k \in Attempt, Writes(j, k) PROVE NoPrune
  BY <1>5 DEF Writes, MarkRunning, MarkSucceeded, MarkFailed, SetStatus, TypeOK, JobRow
<1> HIDE DEF NoPrune, Same
<1>6. \/ \E j \in Job, k \in Attempt : DeleteOld(j, k)
      \/ NoPrune /\ (Same \/ \E j \in Job, k \in Attempt : Writes(j, k))
  BY <1>1, <1>2, <1>3, <1>4, <1>5 DEF Next, Dispatch, Work, Writes
<1> QED
  BY <1>6 DEF NoPrune, Same

(* Of jobs in turn and without overlapping attempts, one attempt is at     *)
(* work.                                                                   *)
LEMMA OneOfAll ==
  ASSUME TypeOK, InStep, InOrder, raced = {}, InTurn,
         NEW i \in Job, NEW l \in Attempt, Busy(i, l),
         NEW j \in Job, NEW k \in Attempt, Busy(j, k)
  PROVE  i = j /\ l = k
<1>1. ~Quiescent(i) /\ ~Quiescent(j)
  BY DEF Quiescent, Working, Busy, At
<1>2. i = j
  BY <1>1 DEF InTurn
<1> QED
  BY <1>2 DEF InOrder, Orderly, Current

(* Who works is busy. *)
LEMMA WorkersAreBusy ==
  ASSUME NEW j \in Job, NEW k \in Attempt, Work(j, k) \/ StatementFails(j, k)
  PROVE  Busy(j, k)
<1>1. CASE Work(j, k)
  BY <1>1 DEF Work, Busy, At, MarkRunning, LoadContext, Upload, UsePlaceholder, BackupThrows,
              MarkSucceeded, SelectSurvivors, DeleteOld, ReportResult, MarkFailed, Rethrow
<1>2. CASE StatementFails(j, k)
  <2>1. PICK step \in {<<"begin", "rethrow">>, <<"load", "fail">>, <<"succeed", "fail">>,
                       <<"select", "report">>, <<"delete", "report">>,
                       <<"fail", "rethrow">>} : At(j, k, step[1])
    BY <1>2 DEF StatementFails
  <2> QED
    BY <2>1 DEF At, Busy
<1> QED
  BY <1>1, <1>2

(* An attempt that comes to the delete has just selected. *)
LEMMA ComesToDelete ==
  ASSUME TypeOK, NEW j \in Job, NEW k \in Attempt, Work(j, k) \/ StatementFails(j, k),
         At(j, k, "delete")'
  PROVE  SelectSurvivors(j, k)
<1>1. ASSUME NEW pc \in {"load", "select", "report", "fail", "rethrow"}, Goto(j, k, pc)
      PROVE  FALSE
  BY <1>1, GotoPc DEF At
<1>2. ASSUME NEW r \in Run, Becomes(j, k, r), r.pc # "delete" PROVE FALSE
  BY <1>2, BecomesAt DEF At
<1>3. ASSUME \/ MarkRunning(j, k) \/ BackupThrows(j, k) \/ MarkSucceeded(j, k)
             \/ DeleteOld(j, k) \/ MarkFailed(j, k)
      PROVE  FALSE
  <2>1. \E pc \in {"load", "select", "report", "fail", "rethrow"} : Goto(j, k, pc)
    BY <1>3 DEF MarkRunning, BackupThrows, MarkSucceeded, DeleteOld, MarkFailed
  <2> QED
    BY <1>1, <2>1
<1>4. ASSUME ReportResult(j, k) \/ Rethrow(j, k) PROVE FALSE
  <2>1. Becomes(j, k, Blank("over")) /\ Blank("over") \in Run /\ Blank("over").pc # "delete"
    BY <1>4, BlankType DEF ReportResult, Rethrow, Blank
  <2> QED
    BY <1>2, <2>1
<1>5. ASSUME StatementFails(j, k) PROVE FALSE
  <2>1. PICK step \in {<<"begin", "rethrow">>, <<"load", "fail">>, <<"succeed", "fail">>,
                       <<"select", "report">>, <<"delete", "report">>,
                       <<"fail", "rethrow">>} : Goto(j, k, step[2])
    BY <1>5 DEF StatementFails
  <2>2. step[2] \in {"rethrow", "fail", "report"}
    OBVIOUS
  <2> QED
    BY <1>1, <2>1, <2>2
<1>6. ASSUME LoadContext(j, k) PROVE FALSE
  <2> DEFINE dest == Present(j) /\ j \in Uploading /\ destination
             sched == Present(j) /\ j \in Scheduled
             r == [run[j][k] EXCEPT !.pc = "backup", !.dest = dest, !.sched = sched]
  <2>1. Becomes(j, k, r)
    BY <1>6 DEF LoadContext
  <2>2. dest \in BOOLEAN /\ sched \in BOOLEAN
    OBVIOUS
  <2> HIDE DEF dest, sched
  <2>3. r \in Run /\ r.pc # "delete"
    <3>1. run[j][k] \in Run
      BY RunAt
    <3> QED
      BY <3>1, <2>2 DEF Run
  <2> HIDE DEF r
  <2> QED
    BY <1>2, <2>1, <2>3
<1>7. ASSUME Upload(j, k) \/ UsePlaceholder(j, k) PROVE FALSE
  <2>1. PICK made \in {k, Placeholder} :
          Becomes(j, k, [run[j][k] EXCEPT !.pc = "succeed", !.made = made])
    BY <1>7 DEF Upload, UsePlaceholder
  <2> DEFINE r == [run[j][k] EXCEPT !.pc = "succeed", !.made = made]
  <2>2. Becomes(j, k, r)
    BY <2>1
  <2>3. r \in Run /\ r.pc # "delete"
    <3>1. run[j][k] \in Run /\ made \in Artifact
      BY RunAt DEF Artifact
    <3> QED
      BY <3>1 DEF Run
  <2> HIDE DEF r
  <2> QED
    BY <1>2, <2>2, <2>3
<1> QED
  BY <1>3, <1>4, <1>5, <1>6, <1>7 DEF Work

(* Where jobs come in turn, a step keeps the survivors fresh, and what     *)
(* retention prunes has Keep newer successes.                              *)
LEMMA FreshStep ==
  ASSUME IInv, raced = {}, InTurn, Fresh, Next
  PROVE  Fresh' /\ PrunesOldOnly
<1>0. TypeOK /\ InStep /\ InOrder
  BY DEF IInv
<1>1. ASSUME NEW j \in Job, NEW k \in Attempt, Work(j, k) \/ StatementFails(j, k),
             \A i \in Job, l \in Attempt : i # j \/ l # k => run'[i][l] = run[i][l]
      PROVE  Fresh'
  <2> SUFFICES ASSUME NEW i \in Job, NEW l \in Attempt, At(i, l, "delete")'
               PROVE  run'[i][l].keep = Newest(Keep, SucceededOfSchedule')
    BY DEF Fresh, Newest
  <2>1. Busy(j, k)
    BY <1>1, WorkersAreBusy
  <2>2. CASE i # j \/ l # k
    <3>1. Busy(i, l)
      BY <1>1, <2>2 DEF At, Busy
    <3> QED
      BY <1>0, <2>1, <2>2, <3>1, OneOfAll
  <2>3. CASE i = j /\ l = k
    <3>1. SelectSurvivors(j, k)
      BY <1>0, <1>1, <2>3, ComesToDelete
    <3> DEFINE survivors == Newest(Keep, SucceededOfSchedule)
               next == IF schedule # "gone" /\ survivors # {} THEN "delete" ELSE "report"
               r == [run[j][k] EXCEPT !.pc = next, !.keep = survivors]
    <3>2. Becomes(j, k, r) /\ row' = row
      BY <3>1 DEF SelectSurvivors
    <3>3. survivors \in SUBSET Job
      BY ScheduledAssumption DEF Newest, SucceededOfSchedule
    <3>4. next \in {"delete", "report"}
      OBVIOUS
    <3>5. SucceededOfSchedule' = SucceededOfSchedule
      BY <3>2 DEF SucceededOfSchedule
    <3> HIDE DEF survivors, next
    <3>6. r \in Run /\ r.keep = survivors
      <4>1. run[j][k] \in Run
        BY <1>0, RunAt
      <4> QED
        BY <4>1, <3>3, <3>4 DEF Run
    <3> HIDE DEF r
    <3>7. run'[j][k].keep = survivors
      BY <1>0, <3>2, <3>6, BecomesAt
    <3>8. Newest(Keep, SucceededOfSchedule') = survivors
      BY <3>5 DEF survivors
    <3> QED
      BY <2>3, <3>7, <3>8
  <2> QED
    BY <2>2, <2>3
<1>2. ASSUME SucceededOfSchedule' = SucceededOfSchedule,
             \A i \in Job, l \in Attempt :
               run'[i][l] = run[i][l] \/ run'[i][l].pc # "delete"
      PROVE  Fresh'
  <2>1. Newest(Keep, SucceededOfSchedule') = Newest(Keep, SucceededOfSchedule)
    BY <1>2
  <2>2. ASSUME NEW i \in Job, NEW l \in Attempt, run'[i][l].pc = "delete"
        PROVE  run'[i][l].keep = Newest(Keep, SucceededOfSchedule')
    BY <1>2, <2>1, <2>2 DEF Fresh, At
  <2> QED
    BY <2>2 DEF Fresh, At, Newest
<1>3. Fresh'
  <2>1. CASE \E j \in Job, k \in Attempt : Work(j, k) \/ StatementFails(j, k)
    <3>1. PICK j \in Job, k \in Attempt : Work(j, k) \/ StatementFails(j, k)
      BY <2>1
    <3>2. \E r \in Run : Becomes(j, k, r)
      BY <1>0, <3>1, WorkIsWork DEF WorkStep
    <3>3. \A i \in Job, l \in Attempt : i # j \/ l # k => run'[i][l] = run[i][l]
      BY <1>0, <3>2, BecomesAt
    <3> QED
      BY <1>1, <3>1, <3>3
  <2>2. CASE ~\E j \in Job, k \in Attempt : Work(j, k) \/ StatementFails(j, k)
    <3>1. SucceededOfSchedule' = SucceededOfSchedule
      BY <1>0, <2>2, WhoWrites DEF Work, Writes
    <3>2. ASSUME WorkerCrash \/ run' = run
          PROVE  \A i \in Job, l \in Attempt :
                   run'[i][l] = run[i][l] \/ run'[i][l].pc # "delete"
      BY <3>2 DEF WorkerCrash, Blank
    <3>3. ASSUME NEW j \in Job, PickUp(j)
          PROVE  \A i \in Job, l \in Attempt :
                   run'[i][l] = run[i][l] \/ run'[i][l].pc # "delete"
      <4>1. PICK k \in Attempt : k = attempts[j] + 1
        BY <1>0, <3>3, AttemptsAssumption DEF PickUp, TypeOK, InStep, Attempt
      <4>2. Becomes(j, k, Blank("begin")) /\ Blank("begin") \in Run /\ Blank("begin").pc # "delete"
        BY <3>3, <4>1, BlankType DEF PickUp, Blank
      <4> QED
        BY <1>0, <4>2, BecomesAt
    <3> QED
      BY <1>0, <1>2, <2>2, <3>1, <3>2, <3>3, WhoMoves
  <2> QED
    BY <2>1, <2>2
<1>4. ASSUME NEW j \in Job, NEW k \in Attempt, DeleteOld(j, k) PROVE PrunesOldOnly
  <2> SUFFICES ASSUME NEW i \in Job, row[i].status # "pruned", row'[i].status = "pruned"
               PROVE  /\ i \in Scheduled \ restored
                      /\ row[i].status = "succeeded"
                      /\ Cardinality({l \in Scheduled : l > i /\ row'[l].status = "succeeded"})
                           >= Keep
    BY DEF PrunesOldOnly
  <2> DEFINE keep == Newest(Keep, SucceededOfSchedule)
             old == SucceededOfSchedule \ keep
             newer == {l \in Scheduled : l > i /\ row'[l].status = "succeeded"}
  <2>1. run[j][k].keep = keep
    BY <1>4 DEF DeleteOld, Fresh
  <2>2. /\ i \in old /\ old \cap restored = {}
        /\ row' = [l \in Job |-> IF l \in old THEN [row[l] EXCEPT !.status = "pruned"]
                                              ELSE row[l]]
    BY <1>4, <2>1 DEF DeleteOld
  <2>3. i \in Scheduled \ restored /\ row[i].status = "succeeded"
    BY <2>2 DEF SucceededOfSchedule
  <2>4. (\A l \in keep : l > i) /\ Cardinality(keep) >= Keep
    BY <2>2, SuccessesFinite, KeepAssumption, NewestAtLeast
  <2>5. keep \subseteq newer
    BY <2>2, <2>4, ScheduledAssumption DEF SucceededOfSchedule, Newest
  <2>6. IsFiniteSet(newer)
    BY ScheduledAssumption, JobAssumption, FS_Subset
  <2>7. Cardinality(keep) <= Cardinality(newer) /\ Cardinality(newer) \in Nat
        /\ Cardinality(keep) \in Nat
    BY <2>5, <2>6, FS_Subset, FS_CardinalityType
  <2>8. Cardinality(newer) >= Keep
    BY <2>4, <2>7, KeepAssumption
  <2> QED
    BY <2>3, <2>8
<1>5. PrunesOldOnly
  BY <1>0, <1>4, WhoWrites DEF PrunesOldOnly
<1> QED
  BY <1>3, <1>5

(* In the sequential turn of the model checker's instance. *)
SeqInv == IInv /\ (active = "sequential" => raced = {} /\ InTurn /\ Fresh)

(* It holds at the start, where nothing has overlapped. *)
LEMMA SeqInit == MCInit => SeqInv
<1> SUFFICES ASSUME MCInit PROVE SeqInv
  OBVIOUS
<1>1. IInv
  BY IInvInit DEF MCInit
<1>2. raced = {} /\ InTurn /\ Fresh
  BY DEF MCInit, Init, InTurn, Quiescent, WorkflowOpen, Working, At, Blank, Fresh
<1> QED
  BY <1>1, <1>2 DEF SeqInv

(* It is kept, and no step of the turn prunes one of the newest. *)
LEMMA SeqStep ==
  SeqInv /\ [MCNext]_<<vars, active>> => SeqInv' /\ [active = "sequential" => PrunesOldOnly]_vars
<1>1. ASSUME SeqInv, MCNext PROVE SeqInv' /\ (active = "sequential" => PrunesOldOnly)
  <2>1. IInv'
    BY <1>1, IInvStep DEF SeqInv, MCNext
  <2>2. active' = active
    BY <1>1 DEF MCNext
  <2>3. ASSUME active = "sequential" PROVE (raced = {} /\ InTurn /\ Fresh)' /\ PrunesOldOnly
    <3>1. Fresh' /\ PrunesOldOnly
      BY <1>1, <2>3, FreshStep DEF SeqInv, MCNext
    <3>2. (raced = {} /\ InTurn)'
      BY <1>1, <2>2, <2>3 DEF MCNext, Within
    <3> QED
      BY <3>1, <3>2
  <2> QED
    BY <2>1, <2>2, <2>3 DEF SeqInv
<1>2. ASSUME SeqInv, UNCHANGED <<vars, active>> PROVE SeqInv'
  <2>1. IInv'
    BY <1>2, IInvStep DEF SeqInv
  <2>2. raced' = raced /\ active' = active /\ (InTurn' <=> InTurn)
    BY <1>2 DEF vars, InTurn, Quiescent, WorkflowOpen, Working, At
  <2>3. SucceededOfSchedule' = SucceededOfSchedule /\ run' = run
    BY <1>2 DEF vars, SucceededOfSchedule
  <2>4. Newest(Keep, SucceededOfSchedule') = Newest(Keep, SucceededOfSchedule)
    BY <2>3
  <2>5. Fresh => Fresh'
    BY <2>3, <2>4 DEF Fresh, At, Newest
  <2> QED
    BY <1>2, <2>1, <2>2, <2>5 DEF SeqInv
<1> QED
  BY <1>1, <1>2 DEF vars

(* Jobs that run one after the other lose a backup to retention only when  *)
(* Keep newer ones are there, for any number of jobs and any limit.        *)
THEOREM RetentionKeepsTheNewest == MCSpec => SequentialKeepsNewest
BY SeqInit, SeqStep, PTL DEF MCSpec, SequentialKeepsNewest

(* A job at rest stays so unless it is recorded. *)
LEMMA RestStays ==
  ASSUME TypeOK, InStep, Next, NEW i \in Job, Quiescent(i), ~RecordJob(i)
  PROVE  Quiescent(i)'
<1> USE DEF Quiescent, WorkflowOpen, Working, At
<1>1. ASSUME NEW j \in Job, j # i, RecordJob(j) \/ Dispatch(j) \/ RequestRestore(j) \/ TimeOut(j)
      PROVE  Quiescent(i)'
  BY <1>1 DEF RecordJob, Dispatch, DispatchAccepted, DispatchThrows, MarkNotDispatched,
              RequestRestore, TimeOut, TypeOK
<1>2. ASSUME Dispatch(i) \/ RequestRestore(i) \/ TimeOut(i) PROVE Quiescent(i)'
  BY <1>2 DEF Dispatch, DispatchAccepted, DispatchThrows, MarkNotDispatched, RequestRestore,
              TimeOut
<1>3. ASSUME NEW j \in Job, PickUp(j) PROVE Quiescent(i)'
  <2>1. j # i
    BY <1>3 DEF PickUp
  <2>2. PICK k \in Attempt : k = attempts[j] + 1
    BY <1>3, AttemptsAssumption DEF PickUp, TypeOK, InStep, Attempt
  <2>3. \A l \in Attempt : run'[i][l] = run[i][l]
    BY <1>3, <2>1, <2>2, BlankType, BecomesAt DEF PickUp
  <2>4. wf'[i] = wf[i] /\ api' = api
    BY <1>3, <2>1 DEF PickUp, TypeOK, configVars, faultVars
  <2> QED
    BY <2>3, <2>4
<1>4. ASSUME NEW j \in Job, NEW k \in Attempt, Work(j, k) \/ StatementFails(j, k)
      PROVE  Quiescent(i)'
  <2>1. j # i
    BY <1>4, WorkersAreBusy DEF Busy
  <2>2. WorkStep(j, k)
    BY <1>4, WorkIsWork
  <2>3. \A l \in Attempt : run'[i][l] = run[i][l]
    BY <2>1, <2>2, BecomesAt DEF WorkStep
  <2>4. wf'[i] = wf[i] /\ api' = api
    BY <2>2 DEF WorkStep
  <2> QED
    BY <2>3, <2>4
<1>5. ASSUME MoveSchedule \/ DeleteSchedule \/ DeleteDestination \/ DeleteTarget \/ ApiCrash \/ WorkerCrash
      PROVE  Quiescent(i)'
  BY <1>5 DEF MoveSchedule, DeleteSchedule, DeleteDestination, DeleteTarget, ApiCrash, WorkerCrash, Blank
<1> QED
  BY <1>1, <1>2, <1>3, <1>4, <1>5 DEF Next

(* So jobs that are recorded one at a time come in turn. *)
LEMMA TurnStep == ASSUME TypeOK, InStep, InTurn, ~Overlapping, Next PROVE InTurn'
<1>1. CASE \E j \in Job : RecordJob(j)
  <2>1. PICK j \in Job : RecordJob(j) /\ \A i \in Job : Quiescent(i)
    BY <1>1 DEF RecordJob
  <2>2. \A i \in Job \ {j} : ~RecordJob(i)
    BY <2>1 DEF RecordJob, TypeOK, JobRow
  <2>3. \A i \in Job \ {j} : Quiescent(i)'
    BY <2>1, <2>2, RestStays
  <2> QED
    BY <2>3 DEF InTurn
<1>2. CASE ~\E j \in Job : RecordJob(j)
  <2>1. \A i \in Job : Quiescent(i) => Quiescent(i)'
    BY <1>2, RestStays
  <2> QED
    BY <2>1 DEF InTurn
<1> QED
  BY <1>1, <1>2

(* The same of the system itself: where neither jobs nor the attempts of   *)
(* one overlap, retention keeps the newest.  (With jobs that overlap it    *)
(* does not: MCRetentionOverlap.)                                          *)
THEOREM RetentionOfOneAtATime ==
  ASSUME ~Overlapping, MaxRaces = 0
  PROVE  Spec => RetentionKeepsNewest
<1> DEFINE TurnInv == IInv /\ raced = {} /\ InTurn /\ Fresh
<1>1. Init => TurnInv
  <2> SUFFICES ASSUME Init PROVE TurnInv
    OBVIOUS
  <2>1. raced = {} /\ InTurn /\ Fresh
    BY DEF Init, InTurn, Quiescent, WorkflowOpen, Working, At, Blank, Fresh
  <2> QED
    BY <2>1, IInvInit
<1>2. TurnInv /\ [Next]_vars => TurnInv' /\ [PrunesOldOnly]_vars
  <2>1. ASSUME TurnInv, Next PROVE TurnInv' /\ PrunesOldOnly
    <3>1. IInv'
      BY <2>1, IInvStep
    <3>2. raced' = {}
      <4>2. ~(races < MaxRaces)
        BY <2>1 DEF IInv, TypeOK
      <4>3. ASSUME \E j \in Job : \/ RecordJob(j) \/ Dispatch(j) \/ RequestRestore(j)
                                  \/ PickUp(j) \/ TimeOut(j)
            PROVE  raced' = raced
        BY <4>2, <4>3 DEF RecordJob, Dispatch, DispatchAccepted, DispatchThrows,
                          MarkNotDispatched, RequestRestore, PickUp, TimeOut, faultVars
      <4>4. ASSUME \/ MoveSchedule \/ DeleteSchedule \/ DeleteDestination \/ DeleteTarget \/ ApiCrash
                   \/ WorkerCrash
            PROVE  raced' = raced
        BY <4>4 DEF MoveSchedule, DeleteSchedule, DeleteDestination, DeleteTarget, ApiCrash, WorkerCrash,
                    faultVars
      <4>5. ASSUME NEW j \in Job, NEW k \in Attempt, Work(j, k) \/ StatementFails(j, k)
            PROVE  raced' = raced
        BY <4>5 DEF Work, MarkRunning, LoadContext, Upload, UsePlaceholder, BackupThrows,
                    MarkSucceeded, SelectSurvivors, DeleteOld, ReportResult, MarkFailed,
                    Rethrow, StatementFails, faultVars
      <4> QED
        BY <2>1, <4>3, <4>4, <4>5 DEF Next
    <3>3. InTurn'
      BY <2>1, TurnStep DEF IInv
    <3> QED
      BY <2>1, <3>1, <3>2, <3>3, FreshStep
  <2>2. ASSUME TurnInv, UNCHANGED vars PROVE TurnInv'
    <3>1. IInv'
      BY <2>2, IInvStep
    <3>2. raced' = raced /\ (InTurn' <=> InTurn)
      BY <2>2 DEF vars, InTurn, Quiescent, WorkflowOpen, Working, At
    <3>3. SucceededOfSchedule' = SucceededOfSchedule /\ run' = run
      BY <2>2 DEF vars, SucceededOfSchedule
    <3>4. Newest(Keep, SucceededOfSchedule') = Newest(Keep, SucceededOfSchedule)
      BY <3>3
    <3>5. Fresh'
      BY <2>2, <3>3, <3>4 DEF Fresh, At, Newest
    <3> QED
      BY <2>2, <3>1, <3>2, <3>5
  <2> QED
    BY <2>1, <2>2
<1> QED
  BY <1>1, <1>2, PTL DEF Spec, RetentionKeepsNewest

-----------------------------------------------------------------------------
(***************************************************************************)
(* The refinement: a step of a job maps to a step of JobLifecycle or to a  *)
(* stutter.                                                                *)
(***************************************************************************)
Open(j) == api[j] # "idle" \/ WorkflowOpen(j)

LifeStep == [Lifecycle!LifeNext]_(Lifecycle!lifeVars)

(* The status column after a step that writes one row. *)
LEMMA StatusOf ==
  ASSUME NEW j \in Job, NEW to, row'[j].status = to,
         \A i \in Job \ {j} : row'[i].status = row[i].status
  PROVE  statusOf' = [statusOf EXCEPT ![j] = to]
BY DEF statusOf

(* The status column after a step that writes none. *)
LEMMA StatusSame ==
  ASSUME \A i \in Job : row'[i].status = row[i].status
  PROVE  statusOf' = statusOf
BY DEF statusOf

(* What is open, as a Boolean function. *)
LEMMA OpenOf ==
  /\ openOf = [j \in Job |-> Open(j)]
  /\ openOf' = [j \in Job |-> Open(j)']
  /\ \A j \in Job : Open(j) \in BOOLEAN /\ Open(j)' \in BOOLEAN
BY DEF openOf, Open, WorkflowOpen

(* Work on one job begins, goes on or ends. *)
LEMMA OpenOne ==
  ASSUME NEW j \in Job, NEW still \in BOOLEAN, Open(j)' <=> still,
         \A i \in Job \ {j} : Open(i)' <=> Open(i)
  PROVE  openOf' = [openOf EXCEPT ![j] = still]
<1>1. Open(j)' = still /\ \A i \in Job \ {j} : Open(i)' = Open(i)
  BY OpenOf
<1> QED
  BY <1>1, OpenOf

(* Nothing about who works changes. *)
LEMMA OpenSame ==
  ASSUME \A i \in Job : Open(i)' <=> Open(i)
  PROVE  openOf' = openOf
<1>1. \A i \in Job : Open(i)' = Open(i)
  BY OpenOf
<1> QED
  BY <1>1, OpenOf

(* A step that writes no status and opens no work closes some, or none. *)
LEMMA OnlyCloses ==
  ASSUME \A i \in Job : row'[i].status = row[i].status,
         \A i \in Job : Open(i)' => Open(i), raced' = raced
  PROVE  LifeStep
<1> DEFINE J == {i \in Job : Open(i) /\ ~Open(i)'}
<1>1. statusOf' = statusOf
  BY StatusSame
<1>2. \A i \in Job : Open(i)' = (Open(i) /\ i \notin J)
  BY OpenOf
<1>3. openOf' = [i \in Job |-> openOf[i] /\ i \notin J]
  <2>1. \A i \in Job : openOf[i] = Open(i)
    BY OpenOf
  <2>2. \A i \in Job : (openOf[i] /\ i \notin J) = Open(i)'
    BY <1>2, <2>1
  <2> HIDE DEF J
  <2> QED
    BY <2>2, OpenOf
<1>4. J \in SUBSET Job /\ \A i \in J : openOf[i]
  BY OpenOf
<1> HIDE DEF J
<1>5. Lifecycle!Close(J)
  BY <1>1, <1>3, <1>4 DEF Lifecycle!Close
<1> QED
  BY <1>4, <1>5 DEF LifeStep, Lifecycle!LifeNext

(* A stray's row is written as it comes. *)
LEMMA StrayStep ==
  ASSUME NEW j \in Job, row[j].status # "absent", raced' = raced \cup {j},
         \A i \in Job \ {j} : row'[i].status = row[i].status /\ (Open(i)' <=> Open(i)),
         \/ row'[j].status = row[j].status
         \/ row[j].status # "pruned" /\ row'[j].status \in {"running", "succeeded", "failed"}
  PROVE  LifeStep
<1>1. openOf' = [openOf EXCEPT ![j] = Open(j)'] /\ Open(j)' \in BOOLEAN
  BY OpenOne, OpenOf
<1>2. statusOf[j] = row[j].status
  BY DEF statusOf
<1>3. \E to \in {"running", "succeeded", "failed"} :
        statusOf' \in {statusOf, [statusOf EXCEPT ![j] = IF @ = "pruned" THEN @ ELSE to]}
  <2>1. CASE row'[j].status = row[j].status
    BY <2>1, StatusSame
  <2>2. CASE row[j].status # "pruned" /\ row'[j].status \in {"running", "succeeded", "failed"}
    <3>1. PICK to \in {"running", "succeeded", "failed"} : row'[j].status = to
      BY <2>2
    <3>2. statusOf' = [statusOf EXCEPT ![j] = to]
      BY <3>1, StatusOf
    <3> QED
      BY <1>2, <2>2, <3>2
  <2> QED
    BY <2>1, <2>2
<1>4. Lifecycle!Stray(j)
  BY <1>1, <1>2, <1>3 DEF Lifecycle!Stray
<1> QED
  BY <1>4 DEF LifeStep, Lifecycle!LifeNext

(* One row moves while who works on what stays as it is. *)
LEMMA MoveStep ==
  ASSUME NEW j \in Job, NEW to, row'[j].status = to,
         \A i \in Job \ {j} : row'[i].status = row[i].status,
         UNCHANGED <<api, wf, raced>>, Open(j),
         \/ to = "running" /\ row[j].status \in {"queued", "failed", "succeeded"}
         \/ to \in {"succeeded", "failed"} /\ row[j].status = "running"
  PROVE  LifeStep
<1>1. statusOf' = [statusOf EXCEPT ![j] = to] /\ statusOf[j] = row[j].status
  BY StatusOf DEF statusOf
<1>2. openOf' = openOf /\ openOf[j]
  BY OpenSame, OpenOf DEF Open, WorkflowOpen
<1>3. Lifecycle!Begin(j) \/ Lifecycle!Succeed(j) \/ Lifecycle!Fail(j)
  BY <1>1, <1>2 DEF Lifecycle!Begin, Lifecycle!Succeed, Lifecycle!Fail, Lifecycle!Move
<1> QED
  BY <1>3 DEF LifeStep, Lifecycle!LifeNext

(* The steps of an attempt that write its row. *)
LEMMA WritesMap ==
  ASSUME TypeOK, InStep, InOrder, NEW j \in Job, NEW k \in Attempt, Writes(j, k)
  PROVE  LifeStep
<1> USE DEF configVars, faultVars
<1>1. Busy(j, k) /\ row[j].status # "absent" /\ UNCHANGED <<api, wf, raced>>
  <2>1. Busy(j, k) /\ UNCHANGED <<api, wf, raced>>
    BY DEF Writes, MarkRunning, MarkSucceeded, MarkFailed, Busy, At
  <2> QED
    BY <2>1, StartedIsRecorded DEF Busy
<1>2. /\ \A i \in Job \ {j} : row'[i] = row[i]
      /\ \/ row'[j].status = row[j].status
         \/ row[j].status # "pruned" /\ row'[j].status \in {"running", "succeeded", "failed"}
  BY <1>1 DEF Writes, MarkRunning, MarkSucceeded, MarkFailed, SetStatus, Present, TypeOK, JobRow
<1>3. \A i \in Job : Open(i)' <=> Open(i)
  BY <1>1 DEF Open, WorkflowOpen
<1>4. CASE j \in raced
  <2>1. raced' = raced \cup {j}
    BY <1>1, <1>4
  <2> QED
    BY <1>1, <1>2, <1>3, <2>1, StrayStep
<1>5. CASE row'[j].status = row[j].status
  BY <1>1, <1>2, <1>3, <1>5, OnlyCloses
<1>6. CASE j \notin raced /\ row'[j].status # row[j].status
  <2>1. wf[j] = "started" /\ Fits(run[j][k].pc, row[j].status, j \in lost)
    BY <1>1, <1>6, OneAtWork DEF InOrder
  <2>2. Open(j)
    BY <2>1 DEF Open, WorkflowOpen
  <2>3. CASE MarkRunning(j, k)
    <3>1. row'[j].status = "running" /\ row[j].status \in {"queued", "failed", "succeeded"}
      BY <1>1, <1>6, <2>3 DEF MarkRunning, SetStatus, Present, TypeOK, JobRow
    <3> QED
      BY <1>1, <1>2, <2>2, <3>1, MoveStep
  <2>4. CASE MarkSucceeded(j, k)
    <3>1. row'[j].status = "succeeded" /\ row[j].status = "running"
      BY <1>1, <1>6, <2>1, <2>4 DEF MarkSucceeded, Present, TypeOK, JobRow, Fits, At
    <3> QED
      BY <1>1, <1>2, <2>2, <3>1, MoveStep
  <2>5. CASE MarkFailed(j, k)
    <3>1. row'[j].status = "failed" /\ row[j].status = "running"
      BY <1>1, <1>6, <2>1, <2>5 DEF MarkFailed, SetStatus, Present, TypeOK, JobRow, Fits, At
    <3> QED
      BY <1>1, <1>2, <2>2, <3>1, MoveStep
  <2> QED
    BY <2>3, <2>4, <2>5 DEF Writes
<1> QED
  BY <1>4, <1>5, <1>6

(* The other steps of an attempt. *)
LEMMA WorkMaps ==
  ASSUME TypeOK, InStep, InOrder, NEW j \in Job, NEW k \in Attempt,
         Work(j, k) \/ StatementFails(j, k)
  PROVE  LifeStep
<1> USE DEF configVars, faultVars
<1>1. CASE Writes(j, k)
  BY <1>1, WritesMap
<1>2. CASE DeleteOld(j, k)
  <2> DEFINE old == SucceededOfSchedule \ run[j][k].keep
  <2>1. CASE old \cap restored = {}
    <3>1. row' = [i \in Job |-> IF i \in old THEN [row[i] EXCEPT !.status = "pruned"] ELSE row[i]]
      BY <1>2, <2>1 DEF DeleteOld
    <3>2. old \in SUBSET Job /\ \A i \in old : row[i].status = "succeeded"
      BY ScheduledAssumption DEF SucceededOfSchedule
    <3> HIDE DEF old
    <3>3. \A i \in Job : row'[i].status = IF i \in old THEN "pruned" ELSE row[i].status
      BY <3>1 DEF TypeOK, JobRow
    <3>4. statusOf' = [i \in Job |-> IF i \in old THEN "pruned" ELSE statusOf[i]]
      BY <3>3 DEF statusOf
    <3>5. openOf' = openOf /\ raced' = raced
      BY <1>2, OpenSame DEF DeleteOld, Open, WorkflowOpen
    <3>6. \A i \in old : statusOf[i] = "succeeded"
      BY <3>2 DEF statusOf
    <3>7. Lifecycle!Prune(old)
      BY <3>4, <3>5, <3>6 DEF Lifecycle!Prune
    <3> QED
      BY <3>2, <3>7 DEF LifeStep, Lifecycle!LifeNext
  <2>2. CASE old \cap restored # {}
    <3>1. row' = row /\ UNCHANGED <<api, wf, raced>>
      BY <1>2, <2>2 DEF DeleteOld
    <3> QED
      BY <3>1, OnlyCloses DEF Open, WorkflowOpen
  <2> QED
    BY <2>1, <2>2
<1>3. CASE \/ LoadContext(j, k) \/ Upload(j, k) \/ UsePlaceholder(j, k)
           \/ BackupThrows(j, k) \/ SelectSurvivors(j, k) \/ StatementFails(j, k)
  <2>1. row' = row /\ UNCHANGED <<api, wf, raced>>
    BY <1>3 DEF LoadContext, Upload, UsePlaceholder, BackupThrows, SelectSurvivors, StatementFails
  <2> QED
    BY <2>1, OnlyCloses DEF Open, WorkflowOpen
<1>4. CASE ReportResult(j, k) \/ Rethrow(j, k)
  <2>1. row' = row /\ UNCHANGED <<api, raced>>
    BY <1>4 DEF ReportResult, Rethrow
  <2>2. \A i \in Job : wf'[i] = wf[i] \/ wf[i] = "started"
    BY <1>4, WorkIsWork DEF Work, WorkStep
  <2> QED
    BY <2>1, <2>2, OnlyCloses DEF Open, WorkflowOpen
<1> QED
  BY <1>1, <1>2, <1>3, <1>4 DEF Work, Writes

(* The steps of the API and of Temporal. *)
LEMMA DispatchMaps ==
  ASSUME TypeOK, InStep, InOrder, NEW j \in Job,
         RecordJob(j) \/ Dispatch(j) \/ RequestRestore(j) \/ PickUp(j) \/ TimeOut(j)
  PROVE  LifeStep
<1> USE DEF configVars, faultVars
<1>1. CASE RecordJob(j)
  <2>1. row[j].status = "absent" /\ row'[j].status = "queued" /\ raced' = raced
        /\ \A i \in Job \ {j} : row'[i].status = row[i].status
    BY <1>1 DEF RecordJob, TypeOK, JobRow
  <2>2. Open(j)' /\ \A i \in Job \ {j} : Open(i)' <=> Open(i)
    BY <1>1 DEF RecordJob, TypeOK, Open, WorkflowOpen
  <2>3. statusOf' = [statusOf EXCEPT ![j] = "queued"] /\ statusOf[j] = "absent"
    BY <2>1, StatusOf DEF statusOf
  <2>4. openOf' = [openOf EXCEPT ![j] = TRUE]
    BY <2>2, OpenOne
  <2>5. Lifecycle!Submit(j)
    BY <2>1, <2>3, <2>4 DEF Lifecycle!Submit, Lifecycle!Move
  <2> QED
    BY <2>5 DEF LifeStep, Lifecycle!LifeNext
<1>2. CASE DispatchAccepted(j)
  <2>1. row' = row /\ raced' = raced /\ \A i \in Job : Open(i)' => Open(i)
    BY <1>2 DEF DispatchAccepted, TypeOK, Open, WorkflowOpen
  <2> QED
    BY <2>1, OnlyCloses
<1>3. CASE DispatchThrows(j)
  <2>1. CASE raced' = raced /\ wf' = wf
    <3>1. row' = row /\ \A i \in Job : Open(i)' => Open(i)
      BY <1>3, <2>1 DEF DispatchThrows, TypeOK, Open, WorkflowOpen
    <3> QED
      BY <2>1, <3>1, OnlyCloses
  <2>2. CASE raced' = raced \cup {j}
    <3>1. row' = row /\ row[j].status # "absent"
          /\ \A i \in Job \ {j} : Open(i)' <=> Open(i)
      BY <1>3 DEF DispatchThrows, TypeOK, Open, WorkflowOpen, InStep
    <3> QED
      BY <2>2, <3>1, StrayStep
  <2> QED
    BY <1>3, <2>1, <2>2 DEF DispatchThrows
<1>4. CASE MarkNotDispatched(j)
  <2>1. /\ \A i \in Job \ {j} : row'[i].status = row[i].status /\ (Open(i)' <=> Open(i))
        /\ raced' = raced /\ row[j].status # "absent"
        /\ \/ row'[j].status = row[j].status
           \/ row[j].status # "pruned" /\ row'[j].status = "failed"
    BY <1>4 DEF MarkNotDispatched, Present, TypeOK, JobRow, Open, WorkflowOpen, InStep
  <2>2. CASE j \in raced
    <3>1. raced' = raced \cup {j}
      BY <2>1, <2>2
    <3> QED
      BY <2>1, <3>1, StrayStep
  <2>3. CASE j \notin raced
    <3>1. wf[j] = "none" /\ row[j].status = "queued" /\ api[j] = "mark"
      BY <1>4, <2>3 DEF MarkNotDispatched, InOrder, Orderly
    <3>2. row'[j].status = "failed" /\ ~Open(j)' /\ Open(j)
      BY <1>4, <3>1 DEF MarkNotDispatched, Present, TypeOK, JobRow, Open, WorkflowOpen
    <3>3. statusOf' = [statusOf EXCEPT ![j] = "failed"] /\ statusOf[j] = "queued"
      BY <2>1, <3>1, <3>2, StatusOf DEF statusOf
    <3>4. openOf' = [openOf EXCEPT ![j] = FALSE] /\ openOf[j]
      BY <2>1, <3>2, OpenOne, OpenOf
    <3>5. Lifecycle!Refuse(j)
      BY <2>1, <3>3, <3>4 DEF Lifecycle!Refuse, Lifecycle!Move
    <3> QED
      BY <3>5 DEF LifeStep, Lifecycle!LifeNext
  <2> QED
    BY <2>2, <2>3
<1>5. CASE RequestRestore(j) \/ PickUp(j)
  <2>1. row' = row /\ raced' = raced /\ \A i \in Job : Open(i)' => Open(i)
    BY <1>5 DEF RequestRestore, PickUp, TypeOK, Open, WorkflowOpen
  <2> QED
    BY <2>1, OnlyCloses
<1>6. CASE TimeOut(j)
  <2>1. row' = row /\ row[j].status # "absent" /\ (\A i \in Job : Open(i)' => Open(i))
        /\ \A i \in Job \ {j} : Open(i)' <=> Open(i)
    BY <1>6 DEF TimeOut, TypeOK, Open, WorkflowOpen, InStep
  <2>2. raced' = raced \/ raced' = raced \cup {j}
    BY <1>6 DEF TimeOut
  <2> QED
    BY <2>1, <2>2, OnlyCloses, StrayStep
<1> QED
  BY <1>1, <1>2, <1>3, <1>4, <1>5, <1>6 DEF Dispatch

(* Every step maps to a step of JobLifecycle or to a stutter. *)
LEMMA StepMaps == IInv /\ [Next]_vars => LifeStep
<1> USE DEF configVars, faultVars
<1>1. ASSUME IInv, Next PROVE LifeStep
  <2>1. TypeOK /\ InStep /\ InOrder
    BY <1>1 DEF IInv
  <2>2. ASSUME ApiCrash \/ WorkerCrash \/ MoveSchedule \/ DeleteSchedule \/ DeleteDestination \/ DeleteTarget
        PROVE  LifeStep
    <3>1. row' = row /\ raced' = raced /\ \A i \in Job : Open(i)' => Open(i)
      BY <2>1, <2>2 DEF ApiCrash, WorkerCrash, MoveSchedule, DeleteSchedule, DeleteDestination, DeleteTarget,
                        TypeOK, Open, WorkflowOpen
    <3> QED
      BY <3>1, OnlyCloses
  <2> QED
    BY <1>1, <2>1, <2>2, DispatchMaps, WorkMaps DEF Next
<1>2. ASSUME UNCHANGED vars PROVE LifeStep
  <2>1. row' = row /\ raced' = raced /\ \A i \in Job : Open(i)' => Open(i)
    BY <1>2 DEF vars, Open, WorkflowOpen
  <2> QED
    BY <2>1, OnlyCloses
<1> QED
  BY <1>1, <1>2

(* The first state maps to the first state of JobLifecycle. *)
LEMMA InitMaps == Init => Lifecycle!LifeInit
<1> SUFFICES ASSUME Init PROVE Lifecycle!LifeInit
  OBVIOUS
<1>1. statusOf = [j \in Job |-> "absent"] /\ raced = {}
  BY DEF Init, statusOf
<1>2. \A j \in Job : Open(j) = FALSE
  BY OpenOf DEF Init, Open, WorkflowOpen
<1>3. openOf = [j \in Job |-> FALSE]
  BY <1>2, OpenOf
<1> QED
  BY <1>1, <1>3 DEF Lifecycle!LifeInit

(* backup_jobs rows live as JobLifecycle promises, whatever the schedules, *)
(* retries, crashes, timeouts and lost replies.                            *)
THEOREM BackupsFollowLifecycle == Spec => RowsFollowLifecycle
BY InitMaps, StepMaps, IInvHolds, PTL
   DEF Spec, LifeStep, RowsFollowLifecycle, Lifecycle!Lifecycle
=============================================================================
