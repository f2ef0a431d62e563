----------------------------- MODULE MCBackups ------------------------------
(***************************************************************************)
(* BackupExecution in four turns, which differ in what may happen:         *)
(*   - faults: a job recorded by POST and one by the scheduler, with       *)
(*     attempts that outlive their timeout and lost replies, and edits of  *)
(*     the schedule and its destination;                                   *)
(*   - losses: two jobs of the schedule side by side, with retries and     *)
(*     restores;                                                           *)
(*   - sequential: jobs of the schedule one after the other, with restores *)
(*     of the first two;                                                   *)
(*   - converging: jobs of the schedule side by side, while a restore of   *)
(*     the first one comes and goes.                                       *)
(***************************************************************************)
EXTENDS MCBackupExecution

VARIABLE active

(* One job at a time is in anybody's hands. *)
InTurn == \A i, j \in Job : ~Quiescent(i) /\ ~Quiescent(j) => i = j

Unrecorded(j) == row[j].status = "absent"

(* Only the scheduler's jobs reach Temporal. *)
ScheduledOnly == \A j \in Job \ Scheduled : wf[j] = "none"

(* How far each turn goes. *)
Within ==
  CASE active = "faults" ->
         restored = {} /\ \A j \in Job : j > 1 => Unrecorded(j)
    [] active = "losses" ->
         ScheduledOnly /\ raced = {} /\ schedule = "here" /\ \A j \in Job : j > 2 => Unrecorded(j)
    [] active = "sequential" ->
         ScheduledOnly /\ raced = {} /\ destination /\ InTurn /\ restored \subseteq {1, 2}
    [] OTHER ->
         /\ ScheduledOnly /\ raced = {} /\ lost = {} /\ restored \subseteq {1}
         /\ \A j \in Job : attempts[j] <= 1

MCInit == Init /\ active \in {"faults", "losses", "sequential", "converging"}

MCNext == Next /\ UNCHANGED active /\ Within'

MCSpec == MCInit /\ [][MCNext]_<<vars, active>>

(* RetentionKeepsNewest, for jobs that run one after the other. *)
SequentialKeepsNewest == [][active = "sequential" => PrunesOldOnly]_vars
=============================================================================
