----------------------- MODULE BackupSchedulerProofs -----------------------
(***************************************************************************)
(* What BackupScheduler guarantees for every set of processes, schedules,  *)
(* jobs and cron expressions, every clock bound and every number of        *)
(* faults.                                                                 *)
(***************************************************************************)
EXTENDS BackupScheduler, FiniteSetTheorems, WellFoundedInduction, TLAPS

USE DEF serverVars, faultVars

(***************************************************************************)
(* computeNextRun is null or strictly later than the instant it starts     *)
(* from: what keeps nextRunAt moving.                                      *)
(***************************************************************************)
LEMMA NextFireLater ==
  ASSUME NEW c \in Cron, NEW t \in Nat
  PROVE  \/ NextFire(c, t) = None
         \/ NextFire(c, t) \in Nat /\ NextFire(c, t) > t
<1> DEFINE later == {u \in Fires[c] : u > t}
<1>1. CASE later = {}
  BY <1>1 DEF NextFire
<1>2. CASE later # {}
  <2> DEFINE less == {p \in Nat \X Nat : p[1] < p[2]}
  <2>1. later \subseteq Nat
    BY FiresAssumption
  <2>2. less = OpToRel(<, Nat)
    BY Zenon DEF OpToRel
  <2>3. IsWellFoundedOn(less, Nat)
    BY <2>2, NatLessThanWellFounded, Zenon
  <2> HIDE DEF less
  <2>4. PICK x \in later : \A y \in later : <<y, x>> \notin less
    BY <1>2, <2>1, <2>3, WFMin, Zenon
  <2>5. \A y \in later : x <= y
    <3>1. SUFFICES ASSUME NEW y \in later, ~(x <= y)
                   PROVE  FALSE
      OBVIOUS
    <3>2. x \in Nat /\ y \in Nat
      BY <2>1
    <3>3. <<y, x>> \in Nat \X Nat /\ <<y, x>>[1] < <<y, x>>[2]
      BY <3>1, <3>2
    <3>4. QED
      BY <2>4, <3>3, Zenon DEF less
  <2>6. NextFire(c, t) \in later
    BY <1>2, <2>5 DEF NextFire
  <2>7. QED
    BY <2>1, <2>6
<1>3. QED
  BY <1>1, <1>2

(* What computeNextRun and the seeding of nextRunAt write is a time or null. *)
LEMMA NextFireType ==
  ASSUME NEW c \in Cron, NEW t \in Nat
  PROVE  NextFire(c, t) \in Time /\ OrElse(NextFire(c, t), t) \in Time
BY NextFireLater DEF Time, OrElse

-----------------------------------------------------------------------------
(* A process between rows holds nothing; one inside runSchedule holds the  *)
(* row it selected and the job it inserted.                                *)
Hands ==
  \A a \in Server :
    IF pc[a] = "loop"
    THEN cur[a] = None /\ jobOf[a] = None
    ELSE cur[a] \in DueRow /\ jobOf[a] \in Job

TypeInv == TypeOK /\ Hands

(* An update of nextRunAt, of a live row or of none, keeps the rows typed. *)
LEMMA UpdateNextRunType ==
  ASSUME NEW s \in Schedule, NEW t \in Time, TypeOK, UpdateNextRun(s, t)
  PROVE  sched' \in [Schedule -> ScheduleRow]
BY DEF TypeOK, UpdateNextRun, ScheduleRow

(* Recording where a fault cut a job keeps the jobs typed. *)
LEMMA CutJobType ==
  ASSUME NEW a \in Server, TypeInv, CutJob(a)
  PROVE  job' \in [Job -> JobRow]
<1>1. CASE jobOf[a] = None
  BY <1>1 DEF TypeInv, TypeOK, CutJob
<1>2. CASE jobOf[a] # None
  <2> DEFINE stage == CASE pc[a] = "advance"  -> "insert"
                        [] pc[a] = "dispatch" -> "advance"
                        [] OTHER              -> "dispatch"
  <2>1. stage \in {"insert", "advance", "dispatch"}
    OBVIOUS
  <2>2. jobOf[a] \in Job /\ job' = [job EXCEPT ![jobOf[a]].cut = stage]
    BY <1>2 DEF TypeInv, TypeOK, CutJob
  <2>3. QED
    BY <2>1, <2>2 DEF TypeInv, TypeOK, JobRow
<1>3. QED
  BY <1>1, <1>2

(* The initial state is typed and no process holds anything. *)
LEMMA TypeInit == Init => TypeInv
<1>1. UnbornSchedule \in ScheduleRow
  BY CronAssumption DEF UnbornSchedule, ScheduleRow, RowState, Time
<1>2. AbsentJob \in JobRow
  BY DEF AbsentJob, JobRow, Time
<1>3. QED
  BY <1>1, <1>2 DEF Init, TypeInv, TypeOK, Hands

(* Every step keeps the types and what the processes hold. *)
LEMMA TypeStep == TypeInv /\ [Next]_vars => TypeInv'
<1> SUFFICES ASSUME TypeInv, [Next]_vars
             PROVE  TypeInv'
  OBVIOUS
<1> USE DEF TypeInv, TypeOK, Hands
<1>1. ASSUME NEW s \in Schedule, NEW c \in Cron, NEW on \in BOOLEAN,
             CreateSchedule(s, c, on)
      PROVE  TypeInv'
  BY <1>1 DEF CreateSchedule, ScheduleRow, RowState, Time
<1>2. ASSUME NEW s \in Schedule, NEW c \in Cron, NEW on \in BOOLEAN,
             PatchSchedule(s, c, on)
      PROVE  TypeInv'
  BY <1>2 DEF PatchSchedule, ScheduleRow
<1>3. ASSUME NEW s \in Schedule,
             DeleteSchedule(s)
      PROVE  TypeInv'
  BY <1>3 DEF DeleteSchedule, ScheduleRow, RowState, Live
<1>4. ASSUME NEW s \in Schedule,
             ExpireBranch(s)
      PROVE  TypeInv'
  BY <1>4 DEF ExpireBranch, ScheduleRow, RowState
<1>5. ASSUME NEW a \in Server,
             TickStart(a)
      PROVE  TypeInv'
  BY <1>5 DEF TickStart, Idle, DueRows, DueRow, ScheduleRow
<1>6. ASSUME NEW a \in Server, NEW row \in due[a],
             SeedNextRun(a, row)
      PROVE  TypeInv'
  BY <1>6, NextFireType, UpdateNextRunType DEF SeedNextRun, DueRow
<1>7. ASSUME NEW a \in Server, NEW row \in due[a],
             InsertRejected(a, row)
      PROVE  TypeInv'
  BY <1>7 DEF InsertRejected
<1>8. ASSUME NEW a \in Server, NEW row \in due[a], NEW j \in Job,
             InsertJob(a, row, j)
      PROVE  TypeInv'
  BY <1>8 DEF InsertJob, JobRow, DueRow
<1>9. ASSUME NEW a \in Server,
             AdvanceSchedule(a)
      PROVE  TypeInv'
  BY <1>9, NextFireType, UpdateNextRunType DEF AdvanceSchedule, DueRow
<1>10. ASSUME NEW a \in Server,
             DispatchAccepted(a)
      PROVE  TypeInv'
  BY <1>10 DEF DispatchAccepted, LeaveRow
<1>11. ASSUME NEW a \in Server,
             DispatchThrows(a)
      PROVE  TypeInv'
  BY <1>11 DEF DispatchThrows
<1>12. ASSUME NEW a \in Server,
             MarkFailed(a)
      PROVE  TypeInv'
  BY <1>12 DEF MarkFailed, LeaveRow, JobRow
<1>13. ASSUME NEW a \in Server,
             StatementFails(a)
      PROVE  TypeInv'
  BY <1>13, CutJobType DEF StatementFails, LeaveRow
<1>14. ASSUME NEW a \in Server,
             Crash(a)
      PROVE  TypeInv'
  BY <1>14, CutJobType DEF Crash, LeaveRow
<1>15. CASE Tock
  BY <1>15 DEF Tock
<1>16. CASE UNCHANGED vars
  BY <1>16 DEF vars
<1>17. QED
  BY <1>1, <1>2, <1>3, <1>4, <1>5, <1>6, <1>7, <1>8, <1>9, <1>10, <1>11, <1>12, <1>13, <1>14, <1>15, <1>16 DEF Next, Edits, RunRow

(* The state of the scheduler is always well formed: in particular a       *)
(* process that moves nextRunAt on or dispatches a job still holds the row *)
(* and the job it works on, whatever faults and edits came in between.     *)
THEOREM TypeCorrect == Spec => []TypeOK
<1>1. Spec => []TypeInv
  BY TypeInit, TypeStep, PTL DEF Spec
<1>2. TypeInv => TypeOK
  BY DEF TypeInv
<1>3. QED
  BY <1>1, <1>2, PTL

-----------------------------------------------------------------------------
(* Initially there is no job to lose. *)
LEMMA LostInit == Init => NoLostJob
BY DEF Init, NoLostJob, AbsentJob

(* A fault that ends a firing leaves its mark on the job, if there is one. *)
LEMMA CutJobMarks ==
  ASSUME NEW a \in Server, TypeInv, CutJob(a)
  PROVE  \A j \in Job : /\ job'[j].status = job[j].status
                        /\ job[j].cut # "no" => job'[j].cut # "no"
                        /\ jobOf[a] = j => job'[j].cut # "no"
                        /\ jobOf[a] # j => job'[j] = job[j]
                        /\ job'[j].schedule = job[j].schedule
                        /\ job'[j].occurrence = job[j].occurrence
<1> USE NoneAssumption DEF TypeInv, TypeOK, JobRow
<1>1. CASE jobOf[a] = None
  BY <1>1 DEF CutJob
<1>2. CASE jobOf[a] # None
  <2> DEFINE stage == CASE pc[a] = "advance"  -> "insert"
                        [] pc[a] = "dispatch" -> "advance"
                        [] OTHER              -> "dispatch"
  <2>1. stage # "no"
    OBVIOUS
  <2>2. jobOf[a] \in Job /\ job' = [job EXCEPT ![jobOf[a]].cut = stage]
    BY <1>2 DEF CutJob
  <2> HIDE DEF stage
  <2>3. QED
    BY <2>1, <2>2
<1>3. QED
  BY <1>1, <1>2

(* No step loses a job: each passes it on, marks it, or is a fault. *)
LEMMA LostStep == TypeInv /\ NoLostJob /\ [Next]_vars => NoLostJob'
<1> SUFFICES ASSUME TypeInv, NoLostJob, [Next]_vars,
                    NEW j \in Job, job'[j].status = "queued", j \notin wf',
                    job'[j].cut = "no"
             PROVE  \E a \in Server : jobOf'[a] = j
  BY DEF NoLostJob
<1> USE DEF TypeInv, TypeOK, Hands
<1>1. ASSUME UNCHANGED <<job, wf, jobOf>>
      PROVE  \E a \in Server : jobOf'[a] = j
  BY <1>1 DEF NoLostJob
<1>2. CASE Edits \/ Tock \/ UNCHANGED vars
  BY <1>1, <1>2 DEF Edits, CreateSchedule, PatchSchedule, DeleteSchedule,
                    ExpireBranch, Tock, vars
<1>3. ASSUME NEW a \in Server, TickStart(a) \/ AdvanceSchedule(a)
      PROVE  \E b \in Server : jobOf'[b] = j
  BY <1>1, <1>3 DEF TickStart, AdvanceSchedule
<1>4. ASSUME NEW a \in Server, NEW row \in due[a],
             SeedNextRun(a, row) \/ InsertRejected(a, row)
      PROVE  \E b \in Server : jobOf'[b] = j
  BY <1>1, <1>4 DEF SeedNextRun, InsertRejected
<1>5. ASSUME NEW a \in Server, NEW row \in due[a], NEW new \in Job,
             InsertJob(a, row, new)
      PROVE  \E b \in Server : jobOf'[b] = j
  <2>1. CASE j = new
    BY <1>5, <2>1 DEF InsertJob
  <2>2. CASE j # new
    <3>1. PICK b \in Server : jobOf[b] = j
      BY <1>5, <2>2 DEF InsertJob, NoLostJob
    <3>2. b # a
      BY <1>5, <3>1, NoneAssumption DEF InsertJob
    <3>3. QED
      BY <1>5, <3>1, <3>2 DEF InsertJob
  <2>3. QED
    BY <2>1, <2>2
<1>6. ASSUME NEW a \in Server, DispatchAccepted(a) \/ MarkFailed(a)
      PROVE  \E b \in Server : jobOf'[b] = j
  <2>1. j # jobOf[a]
    <3>1. CASE DispatchAccepted(a)
      BY <3>1 DEF DispatchAccepted
    <3>2. CASE MarkFailed(a)
      <4>1. jobOf[a] = j => job'[j].status = "failed"
        BY <3>2 DEF MarkFailed, JobRow
      <4>2. QED
        BY <4>1
    <3>3. QED
      BY <1>6, <3>1, <3>2
  <2>2. PICK b \in Server : jobOf[b] = j
    BY <1>6, <2>1 DEF DispatchAccepted, MarkFailed, NoLostJob
  <2>3. QED
    BY <1>6, <2>1, <2>2 DEF DispatchAccepted, MarkFailed, LeaveRow
<1>7. ASSUME NEW a \in Server, DispatchThrows(a)
      PROVE  \E b \in Server : jobOf'[b] = j
  BY <1>7 DEF DispatchThrows, NoLostJob
<1>8. ASSUME NEW a \in Server, StatementFails(a) \/ Crash(a)
      PROVE  \E b \in Server : jobOf'[b] = j
  <2>1. CutJob(a) /\ LeaveRow(a) /\ wf' = wf
    BY <1>8 DEF StatementFails, Crash
  <2>2. jobOf[a] # j /\ job'[j] = job[j]
    BY <2>1, CutJobMarks
  <2>3. PICK b \in Server : jobOf[b] = j
    BY <2>1, <2>2 DEF NoLostJob
  <2>4. QED
    BY <2>1, <2>2, <2>3 DEF LeaveRow
<1>9. QED
  BY <1>2, <1>3, <1>4, <1>5, <1>6, <1>7, <1>8 DEF Next, RunRow

(* No interleaving of any number of schedulers with edits of the schedules *)
(* and with dispatch errors loses a job: one that is still queued and      *)
(* unknown to Temporal is being worked on, or a fault ended its firing.    *)
THEOREM NoJobIsLost == Spec => []NoLostJob
<1>1. Init => TypeInv /\ NoLostJob
  BY TypeInit, LostInit
<1>2. TypeInv /\ NoLostJob /\ [Next]_vars => (TypeInv /\ NoLostJob)'
  BY TypeStep, LostStep
<1>3. QED
  BY <1>1, <1>2, PTL DEF Spec

-----------------------------------------------------------------------------
(***************************************************************************)
(* While process a alone has ticked an occurrence is fired once.  The      *)
(* invariant behind it: the others hold nothing, the rows a tick selected still carry the nextRunAt they were        *)
(* selected with, no job is younger than the tick, and nextRunAt lies past *)
(* every occurrence that was fired and not cut off before the update.      *)
(***************************************************************************)
Selected(a, s) == \E row \in due[a] : row.id = s

TickBehindClock(a) ==
  /\ tickAt[a] <= clock
  /\ \A j \in Job : Present(j) => /\ job[j].schedule \in Schedule
                                  /\ job[j].occurrence \in Nat
                                  /\ job[j].occurrence <= tickAt[a]

SelectionFresh(a) ==
  /\ \A row \in due[a] :
       /\ sched[row.id].state # "unborn"
       /\ sched[row.id].nextRunAt = row.nextRunAt
       /\ row.nextRunAt # None => row.nextRunAt <= tickAt[a]
       /\ row.nextRunAt = None =>
            \A j \in Job : Present(j) /\ job[j].schedule = row.id
                             => job[j].occurrence < tickAt[a]
  /\ \A r1, r2 \in due[a] : r1.id = r2.id => r1 = r2

RunningRow(a) ==
  pc[a] # "loop" =>
    /\ Present(jobOf[a]) /\ job[jobOf[a]].cut = "no"
    /\ job[jobOf[a]].schedule = cur[a].id
    /\ sched[cur[a].id].state # "unborn"
    /\ ~Selected(a, cur[a].id)

(* The job a is about to move nextRunAt past. *)
Unadvanced(a, j) == pc[a] = "advance" /\ jobOf[a] = j

NextRunIsAhead(a) ==
  \A j \in Job :
    Present(j) /\ job[j].cut # "insert" /\ ~Unadvanced(a, j)
      => LET s == job[j].schedule
         IN  (Live(s) \/ Selected(a, s)) /\ sched[s].nextRunAt # None
               => job[j].occurrence < sched[s].nextRunAt

SoleInv(a) ==
  /\ TickBehindClock(a)
  /\ SelectionFresh(a)
  /\ RunningRow(a)
  /\ NextRunIsAhead(a)
  /\ OneRunPerOccurrence

(* Initially nothing has fired. *)
LEMMA SoleInit ==
  ASSUME NEW a \in Server
  PROVE  Init => SoleInv(a)
BY DEF Init, SoleInv, TickBehindClock, SelectionFresh, RunningRow, NextRunIsAhead,
       OneRunPerOccurrence, Present, AbsentJob, Selected

(* Edits of the schedules never set nextRunAt back. *)
LEMMA SoleEdits ==
  ASSUME NEW a \in Server, TypeInv, SoleInv(a), Edits
  PROVE  SoleInv(a)'
<1>1. UNCHANGED <<clock, job, serverVars>>
  BY DEF Edits, CreateSchedule, PatchSchedule, DeleteSchedule, ExpireBranch
<1>2. \A s \in Schedule :
        /\ sched[s].state # "unborn" =>
             /\ sched'[s].nextRunAt = sched[s].nextRunAt
             /\ sched'[s].state # "unborn"
             /\ sched'[s].state = "live" => Live(s)
        /\ sched[s].state = "unborn" =>
             sched'[s] = sched[s] \/ sched'[s].nextRunAt = None
  <2> SUFFICES ASSUME NEW s \in Schedule
               PROVE  /\ sched[s].state # "unborn" =>
                           /\ sched'[s].nextRunAt = sched[s].nextRunAt
                           /\ sched'[s].state # "unborn"
                           /\ sched'[s].state = "live" => Live(s)
                      /\ sched[s].state = "unborn" =>
                           sched'[s] = sched[s] \/ sched'[s].nextRunAt = None
    OBVIOUS
  <2> USE DEF TypeInv, TypeOK, ScheduleRow, Live
  <2>1. ASSUME NEW r \in Schedule, NEW c \in Cron, NEW on \in BOOLEAN,
               CreateSchedule(r, c, on)
        PROVE  \/ sched'[s] = sched[s]
               \/ sched[s].state = "unborn" /\ sched'[s].nextRunAt = None
    BY <2>1 DEF CreateSchedule
  <2>2. ASSUME NEW r \in Schedule, NEW c \in Cron, NEW on \in BOOLEAN,
               PatchSchedule(r, c, on)
        PROVE  /\ sched'[s].nextRunAt = sched[s].nextRunAt
               /\ sched'[s].state = sched[s].state
               /\ sched[s].state = "unborn" => sched'[s] = sched[s]
    BY <2>2 DEF PatchSchedule
  <2>3. ASSUME NEW r \in Schedule, DeleteSchedule(r) \/ ExpireBranch(r)
        PROVE  /\ sched'[s].nextRunAt = sched[s].nextRunAt
               /\ sched'[s].state \in {sched[s].state, "deleted", "cascaded"}
               /\ sched[s].state = "unborn" => sched'[s] = sched[s]
    BY <2>3 DEF DeleteSchedule, ExpireBranch
  <2>4. QED
    BY <2>1, <2>2, <2>3 DEF Edits
<1> USE DEF TypeInv, TypeOK, Hands
<1>3. TickBehindClock(a)'
  BY <1>1 DEF SoleInv, TickBehindClock, Present
<1>4. SelectionFresh(a)'
  BY <1>1, <1>2 DEF SoleInv, SelectionFresh, Present, DueRow
<1>5. RunningRow(a)'
  BY <1>1, <1>2 DEF SoleInv, RunningRow, Present, DueRow, Selected
<1>6. NextRunIsAhead(a)'
  <2> SUFFICES ASSUME NEW j \in Job, Present(j), job[j].cut # "insert",
                      ~Unadvanced(a, j), NEW s, s = job[j].schedule,
                      Live(s)' \/ Selected(a, s), sched'[s].nextRunAt # None
               PROVE  job[j].occurrence < sched'[s].nextRunAt
    BY <1>1 DEF NextRunIsAhead, Present, Unadvanced, Selected
  <2>1. s \in Schedule
    BY DEF SoleInv, TickBehindClock
  <2>2. Live(s) \/ Selected(a, s)
    BY <1>2, <2>1 DEF Live
  <2>3. sched[s].state # "unborn"
    BY <1>2, <2>1, <2>2 DEF SoleInv, SelectionFresh, Selected, Live
  <2>4. QED
    BY <1>2, <2>1, <2>2, <2>3 DEF SoleInv, NextRunIsAhead
<1>7. OneRunPerOccurrence'
  BY <1>1 DEF SoleInv, OneRunPerOccurrence, Present
<1>8. QED
  BY <1>3, <1>4, <1>5, <1>6, <1>7 DEF SoleInv

(* A tick selects the rows as they are. *)
LEMMA SoleTick ==
  ASSUME NEW a \in Server, TypeInv, SoleInv(a), TickStart(a)
  PROVE  SoleInv(a)'
<1> USE DEF TypeInv, TypeOK
<1>1. /\ UNCHANGED <<clock, sched, job, wf, pc, cur, jobOf>>
      /\ due'[a] = DueRows
      /\ tickAt'[a] = clock
      /\ tickAt[a] < clock
      /\ pc[a] = "loop"
  BY DEF TickStart, Idle
<1>2. TickBehindClock(a)'
  BY <1>1 DEF SoleInv, TickBehindClock, Present, JobRow
<1>3. SelectionFresh(a)'
  <2>1. ASSUME NEW row \in DueRows
        PROVE  /\ row.id \in Schedule
               /\ sched[row.id].state = "live"
               /\ sched[row.id].nextRunAt = row.nextRunAt
               /\ sched[row.id].cron = row.cron
               /\ row = [id |-> row.id, cron |-> row.cron, nextRunAt |-> row.nextRunAt]
               /\ row.nextRunAt # None => row.nextRunAt <= clock
    BY <2>1 DEF DueRows, Live
  <2>2. \A row \in DueRows :
          row.nextRunAt = None =>
            \A j \in Job : Present(j) /\ job[j].schedule = row.id
                             => job[j].occurrence < clock
    BY <1>1 DEF SoleInv, TickBehindClock, JobRow
  <2>3. \A r1, r2 \in DueRows : r1.id = r2.id => r1 = r2
    BY <2>1
  <2>4. QED
    BY <1>1, <2>1, <2>2, <2>3 DEF SelectionFresh, Present
<1>4. RunningRow(a)'
  BY <1>1 DEF RunningRow
<1>5. NextRunIsAhead(a)'
  <2>1. \A s \in Schedule : Selected(a, s)' => Live(s)
    BY <1>1 DEF Selected, DueRows, Live
  <2>2. QED
    BY <1>1, <2>1 DEF SoleInv, NextRunIsAhead, TickBehindClock, Present, Unadvanced, Live
<1>6. OneRunPerOccurrence'
  BY <1>1 DEF SoleInv, OneRunPerOccurrence, Present
<1>7. QED
  BY <1>2, <1>3, <1>4, <1>5, <1>6 DEF SoleInv

(* Dropping rows from the selection disturbs nothing. *)
LEMMA SoleDrop ==
  ASSUME NEW a \in Server, TypeInv, SoleInv(a),
         UNCHANGED <<clock, sched, job, pc, cur, jobOf, tickAt>>,
         due'[a] \subseteq due[a]
  PROVE  SoleInv(a)'
<1> USE DEF TypeInv, TypeOK
<1>1. \A s : Selected(a, s)' => Selected(a, s)
  BY DEF Selected
<1>2. TickBehindClock(a)'
  BY DEF SoleInv, TickBehindClock, Present
<1>3. SelectionFresh(a)'
  BY DEF SoleInv, SelectionFresh, Present
<1>4. RunningRow(a)'
  BY <1>1 DEF SoleInv, RunningRow, Present
<1>5. NextRunIsAhead(a)'
  BY <1>1 DEF SoleInv, NextRunIsAhead, Present, Unadvanced, Live
<1>6. OneRunPerOccurrence'
  BY DEF SoleInv, OneRunPerOccurrence, Present
<1>7. QED
  BY <1>2, <1>3, <1>4, <1>5, <1>6 DEF SoleInv

(* The one step that can fire an occurrence: the row it fires was selected *)
(* with the nextRunAt that is still stored, past every uncut occurrence.   *)
LEMMA SoleInsert ==
  ASSUME NEW a \in Server, NEW row \in due[a], NEW new \in Job,
         TypeInv, SoleInv(a), InsertJob(a, row, new)
  PROVE  SoleInv(a)'
<1> USE DEF TypeInv, TypeOK
<1>1. /\ UNCHANGED <<clock, sched, wf, tickAt>>
      /\ pc[a] = "loop" /\ pc'[a] = "advance"
      /\ due'[a] = due[a] \ {row}
      /\ cur'[a] = row /\ jobOf'[a] = new
      /\ row \in DueRow /\ row.nextRunAt \in Nat
      /\ job[new].status = "absent"
      /\ job'[new] = [status |-> "queued", schedule |-> row.id,
                      occurrence |-> row.nextRunAt, cut |-> "no"]
      /\ \A j \in Job \ {new} : job'[j] = job[j]
  BY DEF InsertJob, DueRow, Time
<1>2. TickBehindClock(a)'
  <2>1. row.id \in Schedule /\ row.nextRunAt <= tickAt[a]
    BY <1>1, NoneAssumption DEF SoleInv, SelectionFresh, DueRow
  <2>2. \A j \in Job \ {new} : Present(j)' => Present(j)
    BY <1>1 DEF Present
  <2>3. QED
    BY <1>1, <2>1, <2>2 DEF SoleInv, TickBehindClock
<1>3. SelectionFresh(a)'
  BY <1>1 DEF SoleInv, SelectionFresh, Present
<1>4. RunningRow(a)'
  BY <1>1 DEF SoleInv, SelectionFresh, RunningRow, Present, Selected
<1>5. NextRunIsAhead(a)'
  BY <1>1 DEF SoleInv, NextRunIsAhead, Present, Unadvanced, Selected, Live
<1>6. OneRunPerOccurrence'
  <2>1. ASSUME NEW i \in Job, i # new, Present(i),
               job[i].schedule = row.id, job[i].occurrence = row.nextRunAt
        PROVE  job[i].cut = "insert"
    <3>1. Selected(a, row.id) /\ ~Unadvanced(a, i)
      BY <1>1 DEF Selected, Unadvanced
    <3>2. sched[row.id].nextRunAt = row.nextRunAt /\ row.nextRunAt # None
      BY <1>1, NoneAssumption DEF SoleInv, SelectionFresh
    <3>3. ~(job[i].occurrence < row.nextRunAt)
      BY <1>1, <2>1
    <3>4. QED
      BY <2>1, <3>1, <3>2, <3>3 DEF SoleInv, NextRunIsAhead
  <2>2. QED
    BY <1>1, <2>1 DEF SoleInv, OneRunPerOccurrence, Present
<1>7. QED
  BY <1>2, <1>3, <1>4, <1>5, <1>6 DEF SoleInv

(* Seeding touches a row that has no next run. *)
LEMMA SoleSeed ==
  ASSUME NEW a \in Server, NEW row \in due[a],
         TypeInv, SoleInv(a), SeedNextRun(a, row)
  PROVE  SoleInv(a)'
<1> USE DEF TypeInv, TypeOK
<1> DEFINE next == OrElse(NextFire(row.cron, tickAt[a]), tickAt[a])
<1>1. /\ UNCHANGED <<clock, job, wf, pc, cur, jobOf, tickAt>>
      /\ pc[a] = "loop"
      /\ due'[a] = due[a] \ {row}
      /\ row \in DueRow /\ row.id \in Schedule /\ row.nextRunAt = None
      /\ UpdateNextRun(row.id, next)
  BY DEF SeedNextRun, DueRow
<1>2. next \in Nat /\ next >= tickAt[a]
  <2>1. row.cron \in Cron /\ tickAt[a] \in Nat
    BY DEF DueRow
  <2>2. QED
    BY <2>1, NextFireLater, NoneAssumption DEF OrElse
<1> HIDE DEF next
<1>3. /\ \A s \in Schedule : s # row.id => sched'[s] = sched[s]
      /\ \A s \in Schedule : sched'[s].state = sched[s].state
      /\ Live(row.id) => sched'[row.id].nextRunAt = next
  BY <1>1 DEF UpdateNextRun, ScheduleRow, Live
<1>4. ~Selected(a, row.id)' /\ \A r \in due'[a] : r \in due[a] /\ r.id # row.id
  BY <1>1 DEF SoleInv, SelectionFresh, Selected
<1>5. TickBehindClock(a)'
  BY <1>1 DEF SoleInv, TickBehindClock, Present
<1>6. SelectionFresh(a)'
  BY <1>1, <1>3, <1>4 DEF SoleInv, SelectionFresh, Present, DueRow
<1>7. RunningRow(a)'
  BY <1>1 DEF RunningRow
<1>8. NextRunIsAhead(a)'
  <2> SUFFICES ASSUME NEW j \in Job, Present(j), job[j].cut # "insert",
                      ~Unadvanced(a, j), NEW s \in Schedule, s = job[j].schedule,
                      Live(s)' \/ Selected(a, s)', sched'[s].nextRunAt # None
               PROVE  job[j].occurrence < sched'[s].nextRunAt
    BY <1>1, <1>5 DEF NextRunIsAhead, Present, Unadvanced, TickBehindClock
  <2>1. CASE s = row.id
    <3>1. Live(row.id)
      BY <1>3, <1>4, <2>1 DEF Live
    <3>2. job[j].occurrence < tickAt[a]
      BY <1>1, <2>1 DEF SoleInv, SelectionFresh
    <3>3. job[j].occurrence \in Nat
      BY DEF SoleInv, TickBehindClock
    <3>4. QED
      BY <1>2, <1>3, <2>1, <3>1, <3>2, <3>3
  <2>2. CASE s # row.id
    <3>1. Live(s) \/ Selected(a, s)
      BY <1>1, <1>3 DEF Live, Selected
    <3>2. QED
      BY <1>3, <2>2, <3>1 DEF SoleInv, NextRunIsAhead
  <2>3. QED
    BY <2>1, <2>2
<1>9. OneRunPerOccurrence'
  BY <1>1 DEF SoleInv, OneRunPerOccurrence, Present
<1>10. QED
  BY <1>5, <1>6, <1>7, <1>8, <1>9 DEF SoleInv

(* Moving nextRunAt on leaves the occurrence just fired behind. *)
LEMMA SoleAdvance ==
  ASSUME NEW a \in Server, TypeInv, SoleInv(a), AdvanceSchedule(a)
  PROVE  SoleInv(a)'
<1> USE DEF TypeInv, TypeOK
<1> DEFINE c == cur[a].id
           next == NextFire(cur[a].cron, tickAt[a])
<1>1. /\ UNCHANGED <<clock, job, wf, due, cur, jobOf, tickAt>>
      /\ pc[a] = "advance" /\ pc'[a] = "dispatch"
      /\ UpdateNextRun(c, next)
  BY DEF AdvanceSchedule
<1>2. cur[a] \in DueRow /\ jobOf[a] \in Job
  BY <1>1 DEF Hands
<1>3. next = None \/ (next \in Nat /\ next > tickAt[a])
  BY <1>2, NextFireLater DEF DueRow
<1>4. c \in Schedule /\ ~Selected(a, c)
  BY <1>1, <1>2 DEF DueRow, SoleInv, RunningRow
<1> HIDE DEF next
<1>5. /\ \A s \in Schedule : s # c => sched'[s] = sched[s]
      /\ \A s \in Schedule : sched'[s].state = sched[s].state
      /\ Live(c) => sched'[c].nextRunAt = next
  BY <1>1, <1>4 DEF UpdateNextRun, ScheduleRow, Live
<1>6. TickBehindClock(a)'
  BY <1>1 DEF SoleInv, TickBehindClock, Present
<1>7. SelectionFresh(a)'
  <2>1. \A r \in due[a] : r.id # c /\ r.id \in Schedule
    BY <1>4 DEF Selected, DueRow
  <2>2. QED
    BY <1>1, <1>5, <2>1 DEF SoleInv, SelectionFresh, Present
<1>8. RunningRow(a)'
  BY <1>1, <1>4, <1>5 DEF SoleInv, RunningRow, Present, Selected
<1>9. NextRunIsAhead(a)'
  <2> SUFFICES ASSUME NEW j \in Job, Present(j), job[j].cut # "insert",
                      NEW s \in Schedule, s = job[j].schedule,
                      Live(s)' \/ Selected(a, s), sched'[s].nextRunAt # None
               PROVE  job[j].occurrence < sched'[s].nextRunAt
    BY <1>1, <1>6 DEF NextRunIsAhead, Present, TickBehindClock, Selected
  <2>1. CASE s = c
    <3>1. Live(c)
      BY <1>4, <1>5, <2>1 DEF Live
    <3>2. job[j].occurrence \in Nat /\ job[j].occurrence <= tickAt[a]
      BY DEF SoleInv, TickBehindClock
    <3>3. QED
      BY <1>3, <1>5, <2>1, <3>1, <3>2
  <2>2. CASE s # c
    <3>1. Live(s) \/ Selected(a, s)
      BY <1>5 DEF Live
    <3>2. jobOf[a] # j
      BY <1>1, <2>2 DEF SoleInv, RunningRow
    <3>3. QED
      BY <1>5, <2>2, <3>1, <3>2 DEF SoleInv, NextRunIsAhead, Unadvanced
  <2>3. QED
    BY <2>1, <2>2
<1>10. OneRunPerOccurrence'
  BY <1>1 DEF SoleInv, OneRunPerOccurrence, Present
<1>11. QED
  BY <1>6, <1>7, <1>8, <1>9, <1>10 DEF SoleInv

(* Dispatching and marking do not touch occurrences. *)
LEMMA SoleDispatch ==
  ASSUME NEW a \in Server, TypeInv, SoleInv(a),
         DispatchAccepted(a) \/ DispatchThrows(a) \/ MarkFailed(a)
  PROVE  SoleInv(a)'
<1> USE DEF TypeInv, TypeOK, JobRow
<1>1. /\ UNCHANGED <<clock, sched, due, tickAt>>
      /\ pc[a] # "loop" /\ pc[a] # "advance" /\ pc'[a] # "advance"
      /\ pc'[a] # "loop" => UNCHANGED <<cur, jobOf>>
  BY DEF DispatchAccepted, DispatchThrows, MarkFailed, LeaveRow
<1>2. \A j \in Job : /\ Present(j)' <=> Present(j)
                     /\ job'[j].schedule = job[j].schedule
                     /\ job'[j].occurrence = job[j].occurrence
                     /\ job'[j].cut = job[j].cut
  <2>1. CASE DispatchAccepted(a) \/ DispatchThrows(a)
    BY <2>1 DEF DispatchAccepted, DispatchThrows, Present
  <2>2. CASE MarkFailed(a)
    <3>1. jobOf[a] \in Job /\ Present(jobOf[a])
      BY <1>1 DEF SoleInv, RunningRow, Hands
    <3>2. QED
      BY <2>2, <3>1 DEF MarkFailed, Present
  <2>3. QED
    BY <2>1, <2>2
<1>3. TickBehindClock(a)'
  BY <1>1, <1>2 DEF SoleInv, TickBehindClock
<1>4. SelectionFresh(a)'
  BY <1>1, <1>2 DEF SoleInv, SelectionFresh
<1>5. RunningRow(a)'
  <2>1. pc[a] # "loop" => jobOf[a] \in Job
    BY DEF Hands
  <2>2. QED
    BY <1>1, <1>2, <2>1 DEF SoleInv, RunningRow, Selected
<1>6. NextRunIsAhead(a)'
  BY <1>1, <1>2 DEF SoleInv, NextRunIsAhead, Unadvanced, Live, Selected
<1>7. OneRunPerOccurrence'
  BY <1>2 DEF SoleInv, OneRunPerOccurrence
<1>8. QED
  BY <1>3, <1>4, <1>5, <1>6, <1>7 DEF SoleInv

(* A fault between insert and update is recorded on the job. *)
LEMMA SoleFault ==
  ASSUME NEW a \in Server, TypeInv, SoleInv(a), StatementFails(a) \/ Crash(a)
  PROVE  SoleInv(a)'
<1> USE DEF TypeInv, TypeOK
<1>1. /\ UNCHANGED <<clock, sched>>
      /\ due'[a] \subseteq due[a]
      /\ tickAt'[a] \in {tickAt[a], clock}
      /\ tickAt'[a] # tickAt[a] => due'[a] = {}
      /\ pc'[a] = "loop"
      /\ CutJob(a)
  BY DEF StatementFails, Crash, LeaveRow
<1>2. \A j \in Job : /\ Present(j)' <=> Present(j)
                     /\ job'[j].schedule = job[j].schedule
                     /\ job'[j].occurrence = job[j].occurrence
  BY <1>1, CutJobMarks DEF Present
<1>3. \A j \in Job : /\ job[j].cut = "insert" => job'[j].cut = "insert"
                     /\ job'[j].cut # "insert" => /\ job[j].cut # "insert"
                                                  /\ ~Unadvanced(a, j)
  <2> SUFFICES ASSUME NEW j \in Job
               PROVE  /\ job[j].cut = "insert" => job'[j].cut = "insert"
                      /\ job'[j].cut # "insert" => /\ job[j].cut # "insert"
                                                   /\ ~Unadvanced(a, j)
    OBVIOUS
  <2>1. CASE jobOf[a] # j
    BY <1>1, <2>1, CutJobMarks DEF Unadvanced
  <2>2. CASE jobOf[a] = j
    <3>1. jobOf[a] # None
      BY <2>2, NoneAssumption
    <3>2. job[j].cut = "no"
      BY <2>2, <3>1 DEF SoleInv, RunningRow, Hands
    <3>3. pc[a] = "advance" => job'[j].cut = "insert"
      BY <1>1, <2>2, <3>1 DEF CutJob, JobRow
    <3>4. QED
      BY <3>2, <3>3 DEF Unadvanced
  <2>3. QED
    BY <2>1, <2>2
<1>4. \A s : Selected(a, s)' => Selected(a, s)
  BY <1>1 DEF Selected
<1>5. TickBehindClock(a)'
  BY <1>1, <1>2 DEF SoleInv, TickBehindClock, JobRow
<1>6. SelectionFresh(a)'
  BY <1>1, <1>2 DEF SoleInv, SelectionFresh
<1>7. RunningRow(a)'
  BY <1>1 DEF RunningRow
<1>8. NextRunIsAhead(a)'
  BY <1>1, <1>2, <1>3, <1>4 DEF SoleInv, NextRunIsAhead, Live
<1>9. OneRunPerOccurrence'
  BY <1>2, <1>3 DEF SoleInv, OneRunPerOccurrence
<1>10. QED
  BY <1>5, <1>6, <1>7, <1>8, <1>9 DEF SoleInv

(* Time passing fires nothing. *)
LEMMA SoleTock ==
  ASSUME NEW a \in Server, TypeInv, SoleInv(a), Tock
  PROVE  SoleInv(a)'
<1> USE DEF TypeInv, TypeOK
<1>1. clock' = clock + 1 /\ UNCHANGED <<sched, job, serverVars>>
  BY DEF Tock
<1>2. TickBehindClock(a)'
  BY <1>1 DEF SoleInv, TickBehindClock, Present
<1>3. SelectionFresh(a)'
  BY <1>1 DEF SoleInv, SelectionFresh, Present
<1>4. RunningRow(a)' /\ NextRunIsAhead(a)'
  BY <1>1 DEF SoleInv, RunningRow, NextRunIsAhead, Present, Unadvanced, Live, Selected
<1>5. OneRunPerOccurrence'
  BY <1>1 DEF SoleInv, OneRunPerOccurrence, Present
<1>6. QED
  BY <1>2, <1>3, <1>4, <1>5 DEF SoleInv

(* A process that has not ticked is between ticks and holds nothing; a tick *)
(* or a restart after the first minute is not forgotten.                   *)
Rests(b) == pc[b] = "loop" /\ due[b] = {} /\ jobOf[b] = None

AloneInv ==
  /\ \A a \in Server : tickAt[a] <= clock
  /\ \A b \in Server : tickAt[b] = 0 => Rests(b)
  /\ \A a \in Server : Alone(a) => SoleInv(a)

(* Initially nobody has ticked. *)
LEMMA AloneInit == Init => AloneInv
BY SoleInit DEF Init, AloneInv, Rests

(* No tick or restart is forgotten: who is alone was alone before.         *)
LEMMA AloneBefore ==
  ASSUME TypeInv, AloneInv, [Next]_vars
  PROVE  /\ \A b \in Server : tickAt'[b] = 0 => tickAt[b] = 0
         /\ \A b \in Server : tickAt'[b] <= clock'
         /\ \A a \in Server : Alone(a)' => Alone(a)
<1> USE DEF TypeInv, TypeOK
<1>1. \/ UNCHANGED <<clock, tickAt>>
      \/ clock' = clock + 1 /\ UNCHANGED tickAt
      \/ \E a \in Server : /\ tickAt' = [tickAt EXCEPT ![a] = clock]
                          /\ UNCHANGED clock
  <2>1. CASE Edits \/ Tock \/ UNCHANGED vars
    BY <2>1 DEF Edits, CreateSchedule, PatchSchedule, DeleteSchedule, ExpireBranch, Tock, vars
  <2>2. ASSUME NEW a \in Server, TickStart(a) \/ Crash(a)
        PROVE  tickAt' = [tickAt EXCEPT ![a] = clock] /\ UNCHANGED clock
    BY <2>2 DEF TickStart, Crash
  <2>3. ASSUME NEW a \in Server, RunRow(a) \/ StatementFails(a)
        PROVE  UNCHANGED <<clock, tickAt>>
    BY <2>3 DEF RunRow, SeedNextRun, InsertRejected, InsertJob, AdvanceSchedule,
                DispatchAccepted, DispatchThrows, MarkFailed, StatementFails
  <2>4. QED
    BY <2>1, <2>2, <2>3 DEF Next
<1>2. /\ \A b \in Server : tickAt'[b] = 0 => tickAt[b] = 0
      /\ \A b \in Server : tickAt'[b] <= clock'
  BY <1>1 DEF AloneInv
<1>3. QED
  BY <1>2 DEF Alone

(* A process that rests has nothing to run: it ticks, or it restarts. *)
LEMMA RestingStep ==
  ASSUME TypeInv, NEW b \in Server, Rests(b),
         TickStart(b) \/ RunRow(b) \/ StatementFails(b) \/ Crash(b)
  PROVE  \/ TickStart(b)
         \/ /\ Crash(b) /\ Rests(b)'
            /\ UNCHANGED <<clock, sched, job>>
            /\ \A a \in Server \ {b} : /\ pc'[a] = pc[a] /\ due'[a] = due[a] /\ cur'[a] = cur[a]
                                       /\ jobOf'[a] = jobOf[a] /\ tickAt'[a] = tickAt[a]
<1> USE DEF TypeInv, TypeOK
<1>1. ~RunRow(b) /\ ~StatementFails(b)
  BY DEF Rests, RunRow, AdvanceSchedule, DispatchAccepted, DispatchThrows, MarkFailed, StatementFails
<1>2. CASE Crash(b)
  BY <1>2 DEF Crash, CutJob, LeaveRow, Rests
<1>3. QED
  BY <1>1, <1>2

(* Process a lets the others be. *)
LEMMA OthersRest ==
  ASSUME TypeInv, NEW a \in Server, NEW b \in Server, b # a, Rests(b),
         TickStart(a) \/ RunRow(a) \/ StatementFails(a) \/ Crash(a)
  PROVE  Rests(b)'
<1> USE DEF TypeInv, TypeOK
<1>1. pc'[b] = pc[b] /\ due'[b] = due[b] /\ jobOf'[b] = jobOf[b]
  BY DEF TickStart, RunRow, SeedNextRun, InsertRejected, InsertJob, AdvanceSchedule,
         DispatchAccepted, DispatchThrows, MarkFailed, StatementFails, Crash, LeaveRow
<1>2. QED
  BY <1>1 DEF Rests

(* A step of process a itself keeps its occurrences apart. *)
LEMMA SoleStep ==
  ASSUME NEW a \in Server, TypeInv, SoleInv(a),
         TickStart(a) \/ RunRow(a) \/ StatementFails(a) \/ Crash(a)
  PROVE  SoleInv(a)'
<1>1. CASE TickStart(a)
  BY <1>1, SoleTick
<1>2. CASE RunRow(a)
  <2>1. ASSUME NEW row \in due[a], SeedNextRun(a, row)
        PROVE  SoleInv(a)'
    BY <2>1, SoleSeed
  <2>2. ASSUME NEW row \in due[a], InsertRejected(a, row)
        PROVE  SoleInv(a)'
    BY <2>2, SoleDrop DEF InsertRejected, TypeInv, TypeOK
  <2>3. ASSUME NEW row \in due[a], NEW j \in Job, InsertJob(a, row, j)
        PROVE  SoleInv(a)'
    BY <2>3, SoleInsert
  <2>4. QED
    BY <1>2, <2>1, <2>2, <2>3, SoleAdvance, SoleDispatch DEF RunRow
<1>3. CASE StatementFails(a) \/ Crash(a)
  BY <1>3, SoleFault
<1>4. QED
  BY <1>1, <1>2, <1>3

(* Nor does a restart of one that has not ticked, in the first minute. *)
LEMMA SoleAside ==
  ASSUME NEW a \in Server, TypeInv, SoleInv(a), UNCHANGED <<clock, sched, job>>,
         pc'[a] = pc[a], due'[a] = due[a], cur'[a] = cur[a],
         jobOf'[a] = jobOf[a], tickAt'[a] = tickAt[a]
  PROVE  SoleInv(a)'
<1>1. TickBehindClock(a)' /\ SelectionFresh(a)'
  BY DEF SoleInv, TickBehindClock, SelectionFresh, Present
<1>2. RunningRow(a)'
  BY DEF SoleInv, RunningRow, Present, Selected
<1>3. NextRunIsAhead(a)'
  BY DEF SoleInv, NextRunIsAhead, Present, Unadvanced, Live, Selected
<1>4. OneRunPerOccurrence'
  BY DEF SoleInv, OneRunPerOccurrence, Present
<1>5. QED
  BY <1>1, <1>2, <1>3, <1>4 DEF SoleInv

(* Every step of any number of processes. *)
LEMMA AloneStep == TypeInv /\ AloneInv /\ [Next]_vars => AloneInv'
<1> SUFFICES ASSUME TypeInv, AloneInv, [Next]_vars
             PROVE  AloneInv'
  OBVIOUS
<1> DEFINE Acts(a) == TickStart(a) \/ RunRow(a) \/ StatementFails(a) \/ Crash(a)
<1>1. CASE \E a \in Server : Acts(a)
  <2>1. PICK a \in Server : Acts(a)
    BY <1>1
  <2>2. ASSUME NEW b \in Server, tickAt'[b] = 0
        PROVE  Rests(b)'
    <3>1. Rests(b) /\ tickAt[b] = 0
      BY <2>2, AloneBefore DEF AloneInv
    <3>2. CASE b # a
      BY <2>1, <3>1, <3>2, OthersRest
    <3>3. CASE b = a
      <4>1. ~TickStart(b)
        BY <2>2 DEF TickStart, TypeInv, TypeOK
      <4>2. QED
        BY <2>1, <3>1, <3>3, <4>1, RestingStep
    <3>4. QED
      BY <3>2, <3>3
  <2>3. ASSUME NEW c \in Server, Alone(c)'
        PROVE  SoleInv(c)'
    <3>1. Alone(c) /\ SoleInv(c)
      BY <2>3, AloneBefore DEF AloneInv
    <3>2. CASE c = a
      BY <2>1, <3>1, <3>2, SoleStep
    <3>3. CASE c # a
      <4>1. tickAt'[a] = 0 /\ tickAt[a] = 0 /\ Rests(a)
        BY <2>3, <3>1, <3>3 DEF Alone, AloneInv
      <4>2. ~TickStart(a)
        BY <4>1 DEF TickStart, TypeInv, TypeOK
      <4>3. /\ UNCHANGED <<clock, sched, job>>
            /\ pc'[c] = pc[c] /\ due'[c] = due[c] /\ cur'[c] = cur[c]
            /\ jobOf'[c] = jobOf[c] /\ tickAt'[c] = tickAt[c]
        BY <2>1, <3>3, <4>1, <4>2, RestingStep
      <4>4. QED
        BY <3>1, <4>3, SoleAside
    <3>4. QED
      BY <3>2, <3>3
  <2>4. QED
    BY <2>2, <2>3, AloneBefore DEF AloneInv
<1>2. CASE Edits \/ Tock \/ UNCHANGED vars
  <2>1. UNCHANGED serverVars
    BY <1>2 DEF Edits, CreateSchedule, PatchSchedule, DeleteSchedule, ExpireBranch, Tock, vars
  <2>2. \A b \in Server : tickAt'[b] = 0 => Rests(b)'
    BY <2>1 DEF AloneInv, Rests
  <2>3. ASSUME NEW c \in Server, Alone(c)'
        PROVE  SoleInv(c)'
    <3>1. SoleInv(c)
      BY <2>3, AloneBefore DEF AloneInv
    <3>2. CASE Edits \/ Tock
      BY <3>1, <3>2, SoleEdits, SoleTock
    <3>3. CASE UNCHANGED vars
      BY <3>1, <3>3, SoleAside DEF vars
    <3>4. QED
      BY <1>2, <3>2, <3>3
  <2>4. QED
    BY <2>2, <2>3, AloneBefore DEF AloneInv
<1>3. QED
  BY <1>1, <1>2 DEF Next

(* While one API process alone has ticked, the scheduler fires an          *)
(* occurrence of a schedule once: a second job for it means that a crash   *)
(* or a failed statement fell between the insert of the first and the      *)
(* update of nextRunAt.  Slow ticks, edits, deletions, expired branches,   *)
(* dispatch errors and unparsable cron expressions never cause one.        *)
THEOREM AloneFiresOnceAlways == Spec => []AloneFiresOnce
<1>1. Init => TypeInv /\ AloneInv
  BY TypeInit, AloneInit
<1>2. TypeInv /\ AloneInv /\ [Next]_vars => (TypeInv /\ AloneInv)'
  BY TypeStep, AloneStep
<1>3. AloneInv => AloneFiresOnce
  BY DEF AloneInv, AloneFiresOnce, SoleInv
<1>4. QED
  BY <1>1, <1>2, <1>3, PTL DEF Spec

-----------------------------------------------------------------------------
(***************************************************************************)
(* A job that is marked as not dispatched is unknown to Temporal, unless   *)
(* its start was accepted unheard.  The invariant behind it: no two        *)
(* processes have the same job in hand, and a job in hand is queued and    *)
(* unknown to Temporal, unless the start was accepted unheard.             *)
(***************************************************************************)
SoleHolder == \A a, b \in Server : a # b /\ jobOf[a] = jobOf[b] => jobOf[a] = None

Undecided ==
  \A a \in Server : jobOf[a] # None =>
    job[jobOf[a]].status = "queued" /\ jobOf[a] \notin wf \ unheard

MarkIsTrue == \A j \in Job : job[j].status \in {"absent", "failed"} => j \notin wf \ unheard

MarkInv == SoleHolder /\ Undecided /\ MarkIsTrue

(* The first state. *)
LEMMA MarkInit == Init => MarkInv
BY DEF Init, MarkInv, SoleHolder, Undecided, MarkIsTrue

(* A step that leaves the jobs alone, or where one process lets go of its  *)
(* own without a change of any status.                                     *)
LEMMA MarkKept ==
  ASSUME TypeInv, MarkInv, wf' \ unheard' \subseteq wf \ unheard,
         \A j \in Job : job'[j].status = job[j].status,
         \A a \in Server : jobOf'[a] \in {jobOf[a], None}
  PROVE  MarkInv'
<1>1. SoleHolder'
  BY DEF MarkInv, SoleHolder
<1>2. Undecided'
  BY NoneAssumption DEF MarkInv, Undecided, TypeInv, TypeOK
<1>3. MarkIsTrue'
  BY DEF MarkInv, MarkIsTrue
<1>4. QED
  BY <1>1, <1>2, <1>3 DEF MarkInv

(* Every step of any number of schedulers. *)
LEMMA MarkStep ==
  ASSUME TypeInv, MarkInv, [Next]_vars
  PROVE  MarkInv'
<1>1. CASE Edits \/ Tock \/ UNCHANGED vars
  BY <1>1, MarkKept DEF Edits, CreateSchedule, PatchSchedule, DeleteSchedule, ExpireBranch, Tock, vars
<1>2. ASSUME NEW a \in Server, TickStart(a) PROVE MarkInv'
  BY <1>2, MarkKept DEF TickStart
<1>3. ASSUME NEW a \in Server, AdvanceSchedule(a) PROVE MarkInv'
  BY <1>3, MarkKept DEF AdvanceSchedule, TypeInv, TypeOK
<1>4. ASSUME NEW a \in Server, NEW row \in due[a],
             SeedNextRun(a, row) \/ InsertRejected(a, row)
      PROVE  MarkInv'
  BY <1>4, MarkKept DEF SeedNextRun, InsertRejected
<1>5. ASSUME NEW a \in Server, NEW row \in due[a], NEW new \in Job, InsertJob(a, row, new)
      PROVE  MarkInv'
  <2>1. /\ job[new].status = "absent" /\ job'[new].status = "queued"
        /\ \A j \in Job \ {new} : job'[j] = job[j]
        /\ jobOf'[a] = new /\ UNCHANGED <<wf, unheard>>
        /\ \A b \in Server \ {a} : jobOf'[b] = jobOf[b]
    BY <1>5 DEF InsertJob, TypeInv, TypeOK
  <2>2. \A b \in Server : jobOf[b] # new
    BY <2>1, NoneAssumption DEF MarkInv, Undecided, TypeInv, TypeOK
  <2>3. SoleHolder'
    BY <2>1, <2>2 DEF MarkInv, SoleHolder
  <2>4. Undecided'
    <3>1. new \notin wf \ unheard /\ job'[new].status = "queued"
      BY <2>1 DEF MarkInv, MarkIsTrue
    <3>2. ASSUME NEW b \in Server \ {a}, jobOf[b] # None
          PROVE  job'[jobOf'[b]].status = "queued" /\ jobOf'[b] \notin wf' \ unheard'
      <4>1. jobOf[b] \in Job \ {new} /\ jobOf'[b] = jobOf[b]
        BY <2>1, <2>2, <3>2 DEF TypeInv, TypeOK
      <4>2. QED
        BY <2>1, <3>2, <4>1 DEF MarkInv, Undecided
    <3>3. QED
      BY <2>1, <3>1, <3>2 DEF Undecided
  <2>5. MarkIsTrue'
    BY <2>1 DEF MarkInv, MarkIsTrue
  <2>6. QED
    BY <2>3, <2>4, <2>5 DEF MarkInv
<1>6. ASSUME NEW a \in Server, DispatchAccepted(a) PROVE MarkInv'
  <2>1. /\ jobOf[a] \in Job /\ wf' = wf \cup {jobOf[a]} /\ UNCHANGED <<job, unheard>>
        /\ jobOf'[a] = None
        /\ \A b \in Server \ {a} : jobOf'[b] = jobOf[b]
    BY <1>6 DEF DispatchAccepted, LeaveRow, TypeInv, TypeOK, Hands
  <2>2. job[jobOf[a]].status = "queued"
    BY <2>1, NoneAssumption DEF MarkInv, Undecided
  <2>3. \A b \in Server \ {a} : jobOf[b] # jobOf[a]
    BY <2>1, NoneAssumption DEF MarkInv, SoleHolder
  <2>4. SoleHolder' /\ Undecided'
    BY <2>1, <2>3 DEF MarkInv, SoleHolder, Undecided
  <2>5. MarkIsTrue'
    BY <2>1, <2>2, <2>3 DEF MarkInv, MarkIsTrue
  <2>6. QED
    BY <2>4, <2>5 DEF MarkInv
<1>7. ASSUME NEW a \in Server, DispatchThrows(a) PROVE MarkInv'
  BY <1>7, MarkKept DEF DispatchThrows
<1>8. ASSUME NEW a \in Server, MarkFailed(a) PROVE MarkInv'
  <2>1. /\ jobOf[a] \in Job /\ UNCHANGED <<wf, unheard>>
        /\ job'[jobOf[a]].status = "failed" /\ \A j \in Job \ {jobOf[a]} : job'[j] = job[j]
        /\ jobOf'[a] = None /\ \A b \in Server \ {a} : jobOf'[b] = jobOf[b]
    BY <1>8 DEF MarkFailed, LeaveRow, TypeInv, TypeOK, Hands, JobRow
  <2>2. jobOf[a] \notin wf \ unheard
    BY <2>1, NoneAssumption DEF MarkInv, Undecided
  <2>3. \A b \in Server \ {a} : jobOf[b] # jobOf[a]
    BY <2>1, NoneAssumption DEF MarkInv, SoleHolder
  <2>4. SoleHolder' /\ Undecided'
    BY <2>1, <2>3 DEF MarkInv, SoleHolder, Undecided, TypeInv, TypeOK
  <2>5. MarkIsTrue'
    BY <2>1, <2>2 DEF MarkInv, MarkIsTrue
  <2>6. QED
    BY <2>4, <2>5 DEF MarkInv
<1>9. ASSUME NEW a \in Server, StatementFails(a) \/ Crash(a) PROVE MarkInv'
  <2>1. CutJob(a) /\ LeaveRow(a) /\ UNCHANGED <<wf, unheard>>
    BY <1>9 DEF StatementFails, Crash
  <2>2. \A b \in Server : jobOf'[b] \in {jobOf[b], None}
    BY <2>1 DEF LeaveRow, TypeInv, TypeOK
  <2>3. QED
    BY <2>1, <2>2, CutJobMarks, MarkKept
<1>10. QED
  BY <1>1, <1>2, <1>3, <1>4, <1>5, <1>6, <1>7, <1>8, <1>9 DEF Next, RunRow

(* However many schedulers run, and whichever of them crash, a job they    *)
(* mark as recorded but not dispatched has no workflow, unless its start   *)
(* was accepted and threw.                                                 *)
THEOREM MarkedJobsAreNotDispatched == Spec => []NotDispatchedIsTrue
<1>1. Init => TypeInv /\ MarkInv
  BY TypeInit, MarkInit
<1>2. TypeInv /\ MarkInv /\ [Next]_vars => (TypeInv /\ MarkInv)'
  BY TypeStep, MarkStep
<1>3. MarkInv => NotDispatchedIsTrue
  BY DEF MarkInv, MarkIsTrue, NotDispatchedIsTrue
<1>4. QED
  BY <1>1, <1>2, <1>3, PTL DEF Spec

-----------------------------------------------------------------------------
(***************************************************************************)
(* A paused schedule fires at most once more per process.  The invariant   *)
(* behind it: every process that still holds the row uses up one of these  *)
(* firings, and no tick selects it anew.                                   *)
(***************************************************************************)
Paused(s) == Live(s) /\ ~sched[s].enabled

Holding(s) == {a \in Server : Selected(a, s)}

SelectedOnce ==
  \A a \in Server :
    /\ \A row \in due[a] : sched[row.id].state # "unborn"
    /\ \A r1, r2 \in due[a] : r1.id = r2.id => r1 = r2

PauseInv ==
  /\ SelectedOnce
  /\ \A s \in Schedule :
       /\ sched[s].state = "unborn" => firedPaused[s] = 0
       /\ Paused(s) => firedPaused[s] + Cardinality(Holding(s)) <= Cardinality(Server)

(* The processes that hold a row, counted: a part of them, all of them, and *)
(* all of them but one.                                                    *)
LEMMA HoldingCounts ==
  ASSUME NEW S \in SUBSET Server
  PROVE  /\ IsFiniteSet(S) /\ Cardinality(S) \in Nat /\ Cardinality(Server) \in Nat
         /\ Cardinality(S) <= Cardinality(Server)
         /\ \A T \in SUBSET S : Cardinality(T) \in Nat /\ Cardinality(T) <= Cardinality(S)
         /\ \A a \in S : Cardinality(S \ {a}) = Cardinality(S) - 1
<1>1. IsFiniteSet(S) /\ Cardinality(S) <= Cardinality(Server)
  BY ServerAssumption, FS_Subset
<1>2. Cardinality(S) \in Nat /\ Cardinality(Server) \in Nat
  BY <1>1, ServerAssumption, FS_CardinalityType
<1>3. \A T \in SUBSET S : Cardinality(T) \in Nat /\ Cardinality(T) <= Cardinality(S)
  BY <1>1, FS_Subset, FS_CardinalityType
<1>4. \A a \in S : Cardinality(S \ {a}) = Cardinality(S) - 1
  BY <1>1, FS_RemoveElement
<1>5. QED
  BY <1>1, <1>2, <1>3, <1>4

(* At the start there is no schedule. *)
LEMMA PauseInit == Init => PauseInv
BY DEF Init, PauseInv, SelectedOnce, Paused, Live, UnbornSchedule

(* Where nothing is selected anew and no row is paused, the bound stays.   *)
LEMMA PauseKept ==
  ASSUME TypeInv, PauseInv, UNCHANGED firedPaused,
         \A a \in Server : due'[a] \subseteq due[a],
         \A s \in Schedule : /\ sched'[s].state = "unborn" <=> sched[s].state = "unborn"
                             /\ Paused(s)' => Paused(s)
  PROVE  PauseInv'
<1> USE DEF TypeInv, TypeOK
<1>1. SelectedOnce'
  BY DEF PauseInv, SelectedOnce, DueRow
<1>2. ASSUME NEW s \in Schedule, Paused(s)'
      PROVE  firedPaused'[s] + Cardinality(Holding(s)') <= Cardinality(Server)
  <2>1. Holding(s)' \in SUBSET Holding(s) /\ Holding(s) \in SUBSET Server
    BY DEF Holding, Selected
  <2>2. firedPaused[s] + Cardinality(Holding(s)) <= Cardinality(Server)
    BY <1>2 DEF PauseInv
  <2>3. QED
    BY <2>1, <2>2, HoldingCounts
<1>3. QED
  BY <1>1, <1>2 DEF PauseInv

(* A PATCH that pauses the schedule counts from zero. *)
LEMMA PauseEdits ==
  ASSUME TypeInv, PauseInv, Edits
  PROVE  PauseInv'
<1> USE DEF TypeInv, TypeOK
<1>1. ASSUME NEW r \in Schedule, NEW c \in Cron, NEW on \in BOOLEAN, CreateSchedule(r, c, on)
      PROVE  PauseInv'
  <2>1. /\ sched[r].state = "unborn" /\ sched'[r].state = "live"
        /\ \A s \in Schedule \ {r} : sched'[s] = sched[s]
        /\ UNCHANGED <<due, firedPaused>>
    BY <1>1 DEF CreateSchedule
  <2>2. SelectedOnce'
    BY <2>1 DEF PauseInv, SelectedOnce, DueRow
  <2>3. firedPaused'[r] = 0 /\ \A a \in Server : ~Selected(a, r)'
    BY <2>1 DEF PauseInv, SelectedOnce, Selected
  <2>4. \A s \in Schedule \ {r} : Holding(s)' = Holding(s) /\ (Paused(s)' <=> Paused(s))
    BY <2>1 DEF Holding, Selected, Paused, Live
  <2>5. Cardinality({}) = 0 /\ Cardinality(Server) \in Nat
    BY FS_EmptySet, HoldingCounts
  <2>6. ASSUME NEW s \in Schedule
        PROVE  /\ sched'[s].state = "unborn" => firedPaused'[s] = 0
               /\ Paused(s)' => firedPaused'[s] + Cardinality(Holding(s)') <= Cardinality(Server)
    <3>1. CASE s = r
      <4>1. Holding(s)' = {}
        BY <2>3, <3>1 DEF Holding, Selected
      <4>2. QED
        BY <2>1, <2>3, <2>5, <3>1, <4>1
    <3>2. CASE s # r
      BY <2>1, <2>4, <3>2 DEF PauseInv
    <3>3. QED
      BY <3>1, <3>2
  <2>7. QED
    BY <2>2, <2>6 DEF PauseInv
<1>2. ASSUME NEW r \in Schedule, NEW c \in Cron, NEW on \in BOOLEAN, PatchSchedule(r, c, on)
      PROVE  PauseInv'
  <2>1. /\ sched[r].state = "live" /\ sched'[r].state = "live" /\ sched'[r].enabled = on
        /\ \A s \in Schedule \ {r} : sched'[s] = sched[s] /\ firedPaused'[s] = firedPaused[s]
        /\ sched[r].enabled /\ ~on => firedPaused'[r] = 0
        /\ ~(sched[r].enabled /\ ~on) => firedPaused'[r] = firedPaused[r]
        /\ UNCHANGED due
    BY <1>2 DEF PatchSchedule, Live, ScheduleRow
  <2>2. SelectedOnce'
    BY <2>1 DEF PauseInv, SelectedOnce, DueRow
  <2>3. \A s \in Schedule : Holding(s)' = Holding(s) /\ Holding(s) \in SUBSET Server
    BY <2>1 DEF Holding, Selected
  <2>4. ASSUME NEW s \in Schedule
        PROVE  /\ sched'[s].state = "unborn" => firedPaused'[s] = 0
               /\ Paused(s)' => firedPaused'[s] + Cardinality(Holding(s)') <= Cardinality(Server)
    <3>1. CASE s # r
      BY <2>1, <2>3, <3>1 DEF PauseInv, Paused, Live
    <3>2. CASE s = r
      <4>1. CASE sched[r].enabled /\ ~on
        BY <2>1, <2>3, <3>2, <4>1, HoldingCounts
      <4>2. CASE ~(sched[r].enabled /\ ~on)
        BY <2>1, <2>3, <3>2, <4>2 DEF PauseInv, Paused, Live, ScheduleRow
      <4>3. QED
        BY <4>1, <4>2
    <3>3. QED
      BY <3>1, <3>2
  <2>5. QED
    BY <2>2, <2>4 DEF PauseInv
<1>3. ASSUME NEW r \in Schedule, DeleteSchedule(r) \/ ExpireBranch(r)
      PROVE  PauseInv'
  <2>1. /\ sched[r].state # "unborn" /\ sched'[r].state \in {"deleted", "cascaded"}
        /\ \A s \in Schedule \ {r} : sched'[s] = sched[s]
        /\ UNCHANGED <<due, firedPaused>>
    BY <1>3 DEF DeleteSchedule, ExpireBranch, Live, ScheduleRow
  <2>2. \A s \in Schedule : /\ sched'[s].state = "unborn" <=> sched[s].state = "unborn"
                            /\ Paused(s)' => Paused(s)
    BY <2>1 DEF Paused, Live
  <2>3. QED
    BY <2>1, <2>2, PauseKept
<1>4. QED
  BY <1>1, <1>2, <1>3 DEF Edits

(* A tick selects only rows that are enabled, each once. *)
LEMMA PauseTick ==
  ASSUME TypeInv, PauseInv, NEW a \in Server, TickStart(a)
  PROVE  PauseInv'
<1> USE DEF TypeInv, TypeOK
<1>1. /\ UNCHANGED <<sched, firedPaused>> /\ due'[a] = DueRows
      /\ \A b \in Server \ {a} : due'[b] = due[b]
  BY DEF TickStart
<1>2. \A row \in DueRows : /\ row.id \in Schedule /\ Live(row.id) /\ sched[row.id].enabled
                           /\ row = [id |-> row.id, cron |-> sched[row.id].cron,
                                     nextRunAt |-> sched[row.id].nextRunAt]
  BY DEF DueRows
<1>3. SelectedOnce'
  <2>1. ASSUME NEW b \in Server
        PROVE  /\ \A row \in due'[b] : sched'[row.id].state # "unborn"
               /\ \A r1, r2 \in due'[b] : r1.id = r2.id => r1 = r2
    <3>1. CASE b = a
      BY <1>1, <1>2, <3>1 DEF Live
    <3>2. CASE b # a
      BY <1>1, <3>2 DEF PauseInv, SelectedOnce
    <3>3. QED
      BY <3>1, <3>2
  <2>2. QED
    BY <2>1 DEF SelectedOnce
<1>4. ASSUME NEW s \in Schedule, Paused(s)'
      PROVE  firedPaused'[s] + Cardinality(Holding(s)') <= Cardinality(Server)
  <2>1. Paused(s)
    BY <1>1, <1>4 DEF Paused, Live
  <2>2. \A b \in Server : Selected(b, s)' => Selected(b, s)
    BY <1>1, <1>2, <2>1 DEF Selected, Paused
  <2>3. Holding(s)' \in SUBSET Holding(s) /\ Holding(s) \in SUBSET Server
    BY <2>2 DEF Holding
  <2>4. firedPaused[s] + Cardinality(Holding(s)) <= Cardinality(Server)
    BY <2>1 DEF PauseInv
  <2>5. QED
    BY <1>1, <2>3, <2>4, HoldingCounts
<1>5. QED
  BY <1>1, <1>3, <1>4 DEF PauseInv

(* A firing of a paused row uses up the selection of its process.          *)
LEMMA PauseInsert ==
  ASSUME TypeInv, PauseInv, NEW a \in Server, NEW row \in due[a], NEW new \in Job,
         InsertJob(a, row, new)
  PROVE  PauseInv'
<1> USE DEF TypeInv, TypeOK
<1> DEFINE s == row.id
<1>1. s \in Schedule
  BY DEF DueRow
<1>2. /\ UNCHANGED sched /\ due'[a] = due[a] \ {row}
      /\ \A b \in Server \ {a} : due'[b] = due[b]
      /\ \A r \in Schedule \ {s} : firedPaused'[r] = firedPaused[r]
      /\ firedPaused'[s] = IF Paused(s) THEN firedPaused[s] + 1 ELSE firedPaused[s]
  BY <1>1 DEF InsertJob, Paused
<1> HIDE DEF s
<1>3. s = row.id
  BY DEF s
<1>4. SelectedOnce'
  BY <1>2 DEF PauseInv, SelectedOnce
<1>5. ~Selected(a, s)' /\ Selected(a, s)
  BY <1>2, <1>3 DEF PauseInv, SelectedOnce, Selected
<1>6. /\ Holding(s)' = Holding(s) \ {a} /\ a \in Holding(s)
      /\ \A r \in Schedule : Holding(r)' \in SUBSET Holding(r) /\ Holding(r) \in SUBSET Server
  BY <1>2, <1>5 DEF Holding, Selected
<1>7. ASSUME NEW r \in Schedule, Paused(r)'
      PROVE  firedPaused'[r] + Cardinality(Holding(r)') <= Cardinality(Server)
  <2>1. /\ Paused(r) /\ firedPaused[r] \in Nat
        /\ firedPaused[r] + Cardinality(Holding(r)) <= Cardinality(Server)
    BY <1>2, <1>7 DEF PauseInv, Paused, Live
  <2>2. CASE r = s
    <3>1. Cardinality(Holding(r)') = Cardinality(Holding(r)) - 1 /\ Cardinality(Holding(r)) \in Nat
      BY <1>6, <2>2, HoldingCounts
    <3>2. firedPaused'[r] = firedPaused[r] + 1
      BY <1>2, <2>1, <2>2
    <3>3. Cardinality(Server) \in Nat
      BY <1>6, HoldingCounts
    <3>4. QED
      BY <2>1, <3>1, <3>2, <3>3
  <2>3. CASE r # s
    BY <1>2, <1>6, <2>1, <2>3, HoldingCounts
  <2>4. QED
    BY <2>2, <2>3
<1>8. \A r \in Schedule : sched'[r].state = "unborn" => firedPaused'[r] = 0
  BY <1>2, <1>3 DEF PauseInv, Paused, Live
<1>9. QED
  BY <1>4, <1>7, <1>8 DEF PauseInv

(* A statement that moves nextRunAt on neither pauses nor selects.         *)
LEMMA PauseUpdate ==
  ASSUME TypeInv, PauseInv, NEW c \in Schedule, NEW t, UpdateNextRun(c, t),
         UNCHANGED firedPaused, \A a \in Server : due'[a] \subseteq due[a]
  PROVE  PauseInv'
<1>1. \A s \in Schedule : sched'[s].state = sched[s].state /\ sched'[s].enabled = sched[s].enabled
  BY DEF UpdateNextRun, TypeInv, TypeOK, ScheduleRow
<1>2. QED
  BY <1>1, PauseKept DEF Paused, Live

(* Every step. *)
LEMMA PauseStep == TypeInv /\ PauseInv /\ [Next]_vars => PauseInv'
<1> SUFFICES ASSUME TypeInv, PauseInv, [Next]_vars
             PROVE  PauseInv'
  OBVIOUS
<1> USE DEF TypeInv, TypeOK
<1>1. ASSUME UNCHANGED <<sched, firedPaused>>, \A a \in Server : due'[a] \subseteq due[a]
      PROVE  PauseInv'
  BY <1>1, PauseKept DEF Paused, Live
<1>2. ASSUME NEW a \in Server, NEW row \in due[a], SeedNextRun(a, row)
      PROVE  PauseInv'
  <2>1. row.id \in Schedule
    BY DEF DueRow
  <2>2. QED
    BY <1>2, <2>1, PauseUpdate DEF SeedNextRun
<1>3. ASSUME NEW a \in Server, AdvanceSchedule(a)
      PROVE  PauseInv'
  <2>1. cur[a].id \in Schedule
    BY <1>3 DEF AdvanceSchedule, Hands, DueRow
  <2>2. QED
    BY <1>3, <2>1, PauseUpdate DEF AdvanceSchedule
<1>4. ASSUME NEW a \in Server, NEW row \in due[a], InsertRejected(a, row)
      PROVE  PauseInv'
  BY <1>1, <1>4 DEF InsertRejected
<1>5. ASSUME NEW a \in Server,
             DispatchAccepted(a) \/ DispatchThrows(a) \/ MarkFailed(a) \/ StatementFails(a) \/ Crash(a)
      PROVE  PauseInv'
  BY <1>1, <1>5 DEF DispatchAccepted, DispatchThrows, MarkFailed, StatementFails, Crash
<1>6. CASE Tock \/ UNCHANGED vars
  BY <1>1, <1>6 DEF Tock, vars
<1>7. QED
  BY <1>2, <1>3, <1>4, <1>5, <1>6, PauseEdits, PauseTick, PauseInsert DEF Next, RunRow

(* However many processes poll, a schedule that PATCH has disabled fires   *)
(* at most once more for each of them, until it is enabled again.          *)
THEOREM PausedSchedulesStop == Spec => []PausedFiresOncePerServer
<1>1. Init => TypeInv /\ PauseInv
  BY TypeInit, PauseInit
<1>2. TypeInv /\ PauseInv /\ [Next]_vars => (TypeInv /\ PauseInv)'
  BY TypeStep, PauseStep
<1>3. TypeInv /\ PauseInv => PausedFiresOncePerServer
  <2> SUFFICES ASSUME TypeInv, PauseInv, NEW s \in Schedule, Paused(s)
               PROVE  firedPaused[s] <= Cardinality(Server)
    BY DEF PausedFiresOncePerServer, Paused
  <2>1. Holding(s) \in SUBSET Server
    BY DEF Holding
  <2>2. firedPaused[s] + Cardinality(Holding(s)) <= Cardinality(Server) /\ firedPaused[s] \in Nat
    BY DEF PauseInv, TypeInv, TypeOK
  <2>3. QED
    BY <2>1, <2>2, HoldingCounts
<1>4. QED
  BY <1>1, <1>2, <1>3, PTL DEF Spec
=============================================================================
