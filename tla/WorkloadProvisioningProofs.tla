---------------------- MODULE WorkloadProvisioningProofs ----------------------
(***************************************************************************)
(* Proofs about WorkloadProvisioning and, behind them, about the pages of  *)
(* a workload that MCWorkloads puts beside it: its form and its routes.    *)
(*                                                                         *)
(* Of WorkloadProvisioning, the inductive invariant has five parts:        *)
(*   - TypeOK;                                                             *)
(*   - Asked: how far a request has come;                                  *)
(*   - Ordered: a workflow, its attempts and their steps fit together, and *)
(*     nothing of a workflow exists before its request dispatches it;      *)
(*   - Watched: what is left for a mark of provisioning to be taken away;  *)
(*   - Calm: of a workload that nothing disturbed, what a request, an      *)
(*     attempt and Docker each know of its desired state.                  *)
(***************************************************************************)
EXTENDS MCWorkloads, SequenceTheorems, TLAPS

(* Where a request is, and what it is for. *)
Asks(q) ==
  /\ req[q].pc \in {"idle", "update", "done"} => req[q].todo = {}
  /\ req[q].pc \in {"update", "dispatch", "mark"} => req[q].at \in Workload
  /\ req[q].pc = "next" => req[q].todo # {}
  /\ req[q].todo # {} => req[q].op = "push"
  /\ req[q].at \notin req[q].todo

Asked == \A q \in Request : Asks(q)

(* Request q has still to dispatch its workflow for w. *)
Undispatched(q, w) ==
  \/ req[q].pc = "idle"
  \/ w \in req[q].todo
  \/ req[q].at = w /\ req[q].pc \in {"update", "dispatch"}

(* A workflow and its attempts. *)
InOrder(o) ==
  /\ wf[o] = "none" => attempts[o] = 0
  /\ wf[o] = "scheduled" => attempts[o] < MaxAttempts
  /\ wf[o] = "started" => attempts[o] >= 1 /\ run[o][attempts[o]].pc # "idle"
  /\ \A k \in Attempt : k > attempts[o] => run[o][k].pc = "idle"

Ordered ==
  /\ \A o \in Op : InOrder(o)
  /\ \A q \in Request, w \in Workload : Undispatched(q, w) => wf[<<q, w>>] = "none"

(* Steps after which an attempt marks the workload, or leaves that to the  *)
(* next attempt.                                                           *)
Marking == Working \ {"report", "rethrow"}

(* Temporal will start another attempt of o. *)
Retrying(o) ==
  /\ wf[o] = "started" /\ attempts[o] < MaxAttempts
  /\ run[o][attempts[o]].pc \in {"rethrow", "over"}

(* Somebody will take the mark of w away. *)
Watches(q, w) ==
  \/ req[q].at = w /\ req[q].pc \in {"dispatch", "mark"}
  \/ wf[<<q, w>>] = "scheduled"
  \/ \E k \in Attempt : run[<<q, w>>][k].pc \in Marking
  \/ Retrying(<<q, w>>)

Watched ==
  \A w \in Workload \ stranded :
    row[w].status \in {"requested", "provisioning"} => \E q \in Request : Watches(q, w)

(* One request at a time has to do with w, and of its attempts the one     *)
(* that Temporal listens to.                                               *)
Alone(w) ==
  \A q \in Request : Engaged(q, w) => \A p \in Request : Engaged(p, w) => p = q

Sole(w) ==
  \A q \in Request, k \in Attempt :
    run[<<q, w>>][k].pc \in Working => Temporal!Current(<<q, w>>, k)

(* No reply was lost. *)
Refused(w) ==
  \A q \in Request : req[q].at = w /\ req[q].pc = "mark" => wf[<<q, w>>] = "none"

(* What a request read and what it passes on is the desired state.         *)
Informed(w) ==
  \A q \in Request :
    /\ w \in req[q].todo \/ (req[q].at = w /\ req[q].pc = "update") =>
         seen[q][w].desired = row[w].desired
    /\ req[q].at = w /\ req[q].pc = "dispatch" => Wanted(q, w) = row[w].desired
    /\ Temporal!WorkflowOpen(<<q, w>>) => payload[<<q, w>>] = row[w].desired

(* What attempt k has made so far. *)
Made(o, k) ==
  LET w == Of(o)  pc == run[o][k].pc
  IN  /\ pc \in {"prepare", "unpack", "remove", "run", "port", "record", "fail", "failed"} =>
           row[w].status # "available"
      /\ pc = "unpack" => Config(o) \in Bundled
      /\ pc \in {"remove", "run"} /\ Config(o) \in Built => image[w] = Config(o)
      /\ pc \in {"remove", "run", "port", "record"} /\ Config(o) \in Bundled =>
           staging[w] = Config(o)
      /\ pc \in {"port", "record"} =>
           docker[w].id = <<o[1], k>> /\ docker[w].runs = payload[o]

(* What an available workload has. *)
Served(w) ==
  row[w].status = "available" => docker[w].id = row[w].container /\ Runs(w) = row[w].desired

Undisturbed(w) ==
  /\ Alone(w) /\ Sole(w) /\ Refused(w) /\ Informed(w) /\ Served(w)
  /\ \A q \in Request, k \in Attempt : Made(<<q, w>>, k)

Calm == \A w \in Workload \ disturbed : Undisturbed(w)

IInv == TypeOK /\ Asked /\ Ordered /\ Watched /\ Calm

-----------------------------------------------------------------------------
(***************************************************************************)
(* Rows, requests and attempts.                                            *)
(***************************************************************************)
Step == [pc: Working \cup {"idle", "over"}, saw: Container, err: BOOLEAN]

(* What stands for nothing is no version, no workload and no config kind.  *)
LEMMA Ids ==
  /\ None \notin Version /\ None \notin Workload
  /\ Request \subseteq Version /\ Request \subseteq Maybe /\ None \in Maybe
  /\ None \notin Built /\ None \notin Bundled /\ Built \cap Bundled = {}
  /\ First \in Maybe /\ First \in Version
  /\ MaxAttempts \in Nat \ {0} /\ 1 \in Attempt
  /\ Version \X Attempt \subseteq Container /\ None \in Container
BY VersionAssumption, WorkloadAssumption, ConfigAssumption, AttemptAssumption
   DEF Version, Maybe, Attempt, Container

(* A row is written. *)
LEMMA RowWritten ==
  ASSUME TypeOK, NEW w \in Workload, NEW r \in Row, row' = [row EXCEPT ![w] = r]
  PROVE  /\ row' \in [Workload -> Row] /\ row'[w] = r
         /\ \A v \in Workload \ {w} : row'[v] = row[v]
BY DEF TypeOK

(* The observed state of a row is written, and its status. *)
LEMMA Observed ==
  ASSUME TypeOK, NEW w \in Workload, NEW s \in {"provisioning", "available", "failed"},
         NEW c \in Container, NEW e \in BOOLEAN, Observe(w, s, c, e)
  PROVE  /\ row' \in [Workload -> Row]
         /\ row'[w].status = s /\ row'[w].container = c /\ row'[w].desired = row[w].desired
         /\ \A v \in Workload \ {w} : row'[v] = row[v]
<1>1. row[w] \in Row /\ row \in [Workload -> Row]
  BY DEF TypeOK
<1>2. row' = [row EXCEPT ![w] = [@ EXCEPT !.status = s, !.container = c, !.error = e]]
  BY <1>1 DEF Observe, Row
<1>3. [row[w] EXCEPT !.status = s, !.container = c, !.error = e] \in Row
  BY <1>1 DEF Row
<1>. QED
  BY <1>1, <1>2, <1>3 DEF Row

(* What a request asks for is a desired state. *)
LEMMA WantedIsDesired ==
  ASSUME TypeOK, NEW q \in Request, NEW w \in Workload
  PROVE  Wanted(q, w) \in Desired
<1>1. seen[q][w].desired \in Desired /\ q \in Maybe
  BY Ids DEF TypeOK, Row
<1>. QED
  BY <1>1 DEF Wanted, Desired

(* A request goes on alone. *)
LEMMA Proceeds ==
  ASSUME TypeOK, NEW q \in Request, NEW r \in Progress, req' = [req EXCEPT ![q] = r]
  PROVE  /\ req' \in [Request -> Progress] /\ req'[q] = r
         /\ \A p \in Request \ {q} : req'[p] = req[p]
BY DEF TypeOK

(* A request goes on with its step only. *)
LEMMA GoesTo ==
  ASSUME TypeOK, NEW q \in Request, NEW pc \in {"next", "dispatch", "mark", "done"}, ReqGoto(q, pc)
  PROVE  /\ req' \in [Request -> Progress]
         /\ req'[q].pc = pc /\ req'[q].at = req[q].at
         /\ req'[q].todo = req[q].todo /\ req'[q].op = req[q].op
         /\ \A p \in Request \ {q} : req'[p] = req[p]
<1>1. req[q] \in Progress /\ req \in [Request -> Progress]
  BY DEF TypeOK
<1>2. req' = [req EXCEPT ![q] = [@ EXCEPT !.pc = pc]]
  BY <1>1 DEF ReqGoto, Progress
<1>. QED
  BY <1>1, <1>2 DEF Progress

(* A request is over, and asks for nothing any more. *)
LEMMA GivesUp ==
  ASSUME TypeOK, NEW q \in Request,
         req' = [req EXCEPT ![q].pc = "done", ![q].todo = {}]
  PROVE  /\ req' \in [Request -> Progress]
         /\ req'[q].pc = "done" /\ req'[q].todo = {} /\ req'[q].at = req[q].at
         /\ \A p \in Request \ {q} : req'[p] = req[p]
<1>1. req[q] \in Progress /\ req \in [Request -> Progress]
  BY DEF TypeOK
<1>2. req' = [req EXCEPT ![q] = [@ EXCEPT !.pc = "done", !.todo = {}]]
  BY <1>1 DEF Progress
<1>. QED
  BY <1>1, <1>2 DEF Progress

(* Nothing read is of its type. *)
LEMMA NoReadIsRead == NoRead \in [Workload -> Row] /\ NewRow("absent", None) \in Row
BY Ids DEF NoRead, NewRow, Row, Desired

(* What is forgotten is read no more; the others know what they knew.      *)
LEMMA Forgotten ==
  ASSUME TypeOK, Forget
  PROVE  /\ seen' \in [Request -> [Workload -> Row]]
         /\ \A q \in Request : req'[q].pc # "done" => seen'[q] = seen[q]
BY NoReadIsRead DEF TypeOK, Forget

(* An attempt goes on alone. *)
LEMMA Moved ==
  ASSUME TypeOK, NEW o \in Op, NEW k \in Attempt, NEW s \in Step, run' = [run EXCEPT ![o][k] = s]
  PROVE  /\ run' \in [Op -> [Attempt -> Step]] /\ run'[o][k] = s
         /\ \A p \in Op, i \in Attempt : p # o \/ i # k => run'[p][i] = run[p][i]
BY DEF TypeOK, Step

LEMMA Went ==
  ASSUME TypeOK, NEW o \in Op, NEW k \in Attempt, NEW pc \in Working \cup {"over"}, Goto(o, k, pc)
  PROVE  /\ run' \in [Op -> [Attempt -> Step]] /\ run'[o][k].pc = pc
         /\ \A p \in Op, i \in Attempt : p # o \/ i # k => run'[p][i] = run[p][i]
<1>. DEFINE s == [pc |-> pc, saw |-> None, err |-> FALSE]
<1>1. s \in Step
  BY Ids DEF Step
<1>2. run' = [run EXCEPT ![o][k] = s]
  BY DEF Goto
<1>3. s.pc = pc
  OBVIOUS
<1>. HIDE DEF s
<1>4. /\ run' \in [Op -> [Attempt -> Step]] /\ run'[o][k] = s
      /\ \A p \in Op, i \in Attempt : p # o \/ i # k => run'[p][i] = run[p][i]
  BY <1>1, <1>2, Moved
<1>. QED
  BY <1>3, <1>4

-----------------------------------------------------------------------------
(***************************************************************************)
(* The actions, by what they change.                                       *)
(***************************************************************************)
(* A request arrives, or goes on without a word to Temporal. *)
Asking(q) ==
  \/ \E w \in Workload, configured \in BOOLEAN : CreateWorkload(q, w, configured)
  \/ \E w \in Workload, op \in {"config", "env", "domains", "deploy"} : ReadWorkload(q, w, op)
  \/ ReceivePush(q)
  \/ \E withEnv \in BOOLEAN : PatchConfig(q, withEnv)
  \/ PatchDesired(q) \/ Redeploy(q)
  \/ \E w \in Workload : DeployNext(q, w)
  \/ DispatchThrows(q) \/ MarkNotStarted(q) \/ RequestFails(q)

Starting(q) == DispatchAccepted(q) \/ LoseReply(q)

(* An attempt goes on without a word to Temporal. *)
Statement(o, k) ==
  \/ ReadObserved(o, k, "start", "mark") \/ MarkProvisioning(o, k)
  \/ Prepare(o, k) \/ Unpack(o, k) \/ RemoveContainer(o, k) \/ RunContainer(o, k)
  \/ ProviderThrows(o, k) \/ AskPort(o, k) \/ MarkAvailable(o, k)
  \/ ReadObserved(o, k, "fail", "failed") \/ MarkFailed(o, k) \/ StatementFails(o, k)

Ending(o, k) == ReportResult(o, k) \/ Rethrow(o, k)

(* Every step is one of these. *)
LEMMA Steps ==
  ASSUME [Next]_vars
  PROVE  \/ \E q \in Request : Asking(q) \/ Starting(q)
         \/ \E o \in Op : PickUp(o) \/ TimeOut(o)
         \/ \E o \in Op, k \in Attempt : Statement(o, k) \/ Ending(o, k)
         \/ ApiCrash \/ WorkerCrash \/ UNCHANGED vars
BY DEF Next, Enter, Serve, Work, Asking, Starting, Statement, Ending

-----------------------------------------------------------------------------
(***************************************************************************)
(* TypeOK.                                                                 *)
(***************************************************************************)
(* A request that asks: rows, requests and what they read keep their type. *)
LEMMA TypeAsking ==
  ASSUME TypeOK, Asked, NEW q \in Request, Asking(q)
  PROVE  TypeOK'
<1>. DEFINE Typed ==
       /\ row' \in [Workload -> Row] /\ req' \in [Request -> Progress]
       /\ seen' \in [Request -> [Workload -> Row]]
       /\ stranded' \subseteq Workload /\ disturbed' \subseteq Workload
       /\ losses' \in 0 .. MaxLosses
       /\ UNCHANGED <<temporalVars, run, dockerVars, races>>
<1>0. /\ row \in [Workload -> Row] /\ req \in [Request -> Progress]
      /\ seen \in [Request -> [Workload -> Row]]
      /\ stranded \subseteq Workload /\ disturbed \subseteq Workload
      /\ losses \in 0 .. MaxLosses
  BY DEF TypeOK
<1>a. ASSUME NEW W \in SUBSET Workload, Arrive(q, W) PROVE disturbed' \subseteq Workload
  BY <1>0, <1>a DEF Arrive
<1>1. ASSUME NEW w \in Workload, NEW configured \in BOOLEAN, CreateWorkload(q, w, configured)
      PROVE  Typed
  <2>. DEFINE r == IF configured THEN NewRow("requested", q) ELSE NewRow("draft", None)
              p == [op |-> "create", at |-> w, todo |-> {},
                    pc |-> IF configured THEN "dispatch" ELSE "done"]
  <2>1. r \in Row
    BY Ids DEF NewRow, Row, Desired
  <2>2. p \in Progress
    BY DEF Progress
  <2>3. row' = [row EXCEPT ![w] = r] /\ req' = [req EXCEPT ![q] = p]
    BY <1>1 DEF CreateWorkload
  <2>. HIDE DEF r, p
  <2>4. row' \in [Workload -> Row] /\ row'[w] \in Row /\ req' \in [Request -> Progress]
    BY <1>0, <2>1, <2>2, <2>3
  <2>5. [NoRead EXCEPT ![w] = row'[w]] \in [Workload -> Row]
    BY <2>4, NoReadIsRead
  <2>6. seen' \in [Request -> [Workload -> Row]]
    BY <1>0, <1>1, <2>5 DEF CreateWorkload
  <2>. QED
    BY <1>0, <1>1, <1>a, <2>4, <2>6 DEF CreateWorkload, faultVars
<1>2. ASSUME NEW w \in Workload, NEW op \in {"config", "env", "domains", "deploy"},
             ReadWorkload(q, w, op)
      PROVE  Typed
  <2>1. [op |-> op, at |-> w, todo |-> {}, pc |-> "update"] \in Progress
    BY DEF Progress
  <2>2. req' \in [Request -> Progress] /\ seen' \in [Request -> [Workload -> Row]]
    BY <1>0, <1>2, <2>1 DEF ReadWorkload
  <2>. QED
    BY <1>0, <1>2, <1>a, <2>2 DEF ReadWorkload, faultVars
<1>3. ASSUME ReceivePush(q) PROVE Typed
  <2>1. PICK M \in SUBSET Workload :
          /\ Arrive(q, M)
          /\ seen' = [seen EXCEPT ![q] = row]
          /\ req' = [req EXCEPT ![q] = [op |-> "push", at |-> None, todo |-> M, pc |-> "next"]]
          /\ UNCHANGED <<row, temporalVars, run, dockerVars, faultVars>>
    BY <1>3 DEF ReceivePush
  <2>2. [op |-> "push", at |-> None, todo |-> M, pc |-> "next"] \in Progress
    BY DEF Progress
  <2>. QED
    BY <1>0, <1>a, <2>1, <2>2 DEF faultVars
<1>4. ASSUME NEW withEnv \in BOOLEAN, PatchConfig(q, withEnv) PROVE Typed
  <2>1. req[q].at \in Workload \cup {None} /\ seen[q] \in [Workload -> Row]
    BY <1>0 DEF Progress
  <2>2. PICK r : /\ r = [status |-> "draft", container |-> seen[q][req[q].at].container,
                         error |-> FALSE,
                         desired |-> [config |-> q, env |-> IF withEnv THEN q ELSE None,
                                      domains |-> seen[q][req[q].at].desired.domains]]
                 /\ row' = [row EXCEPT ![req[q].at] = r]
    BY <1>4 DEF PatchConfig
  <2>3. req[q].at \in Workload => r \in Row
    <3>. HAVE req[q].at \in Workload
    <3>1. seen[q][req[q].at] \in Row
      BY <2>1
    <3>. QED
      BY <2>2, <3>1, Ids DEF Row, Desired
  <2>4. row' \in [Workload -> Row]
    BY <1>0, <2>1, <2>2, <2>3
  <2>. QED
    BY <1>0, <1>4, <2>4, GoesTo, Forgotten DEF PatchConfig, faultVars
<1>5. ASSUME PatchDesired(q) PROVE Typed
  <2>1. PICK w \in Workload, d \in Desired :
          row' = [row EXCEPT ![w].desired = d, ![w].status = "provisioning"]
    BY <1>5, WantedIsDesired DEF PatchDesired, Asked, Asks, ReqAt
  <2>2. [row[w] EXCEPT !.desired = d, !.status = "provisioning"] \in Row
    BY <1>0 DEF Row
  <2>3. row' \in [Workload -> Row]
    BY <1>0, <2>1, <2>2
  <2>. QED
    BY <1>0, <1>5, <2>3, GoesTo DEF PatchDesired, faultVars
<1>6. ASSUME Redeploy(q) PROVE Typed
  <2>1. row' \in [Workload -> Row]
    BY <1>0, <1>6 DEF Redeploy, Row
  <2>. QED
    BY <1>0, <1>6, <2>1, GoesTo DEF Redeploy, faultVars
<1>7. ASSUME NEW w \in Workload, DeployNext(q, w) PROVE Typed
  <2>1. row' \in [Workload -> Row]
    BY <1>0, <1>7 DEF DeployNext, Row
  <2>2. req' \in [Request -> Progress]
    BY <1>0, <1>7 DEF DeployNext, Progress
  <2>. QED
    BY <1>0, <1>7, <2>1, <2>2 DEF DeployNext, faultVars
<1>8. ASSUME DispatchThrows(q) PROVE Typed
  BY <1>0, <1>8, GoesTo DEF DispatchThrows, faultVars
<1>9. ASSUME MarkNotStarted(q) PROVE Typed
  <2>1. req[q].at \in Workload \cup {None} /\ seen[q] \in [Workload -> Row]
    BY <1>0 DEF Progress
  <2>2. PICK w \in Workload, c \in {seen[q][x].container : x \in Workload} :
          /\ c = seen[q][w].container
          /\ row' = [row EXCEPT ![w].status = "failed", ![w].error = TRUE, ![w].container = c]
    BY <1>9 DEF MarkNotStarted, Asked, Asks, ReqAt
  <2>3. [row[w] EXCEPT !.status = "failed", !.error = TRUE, !.container = c] \in Row
    <3>1. row[w] \in Row /\ seen[q][w] \in Row
      BY <1>0, <2>1
    <3>2. c = seen[q][w].container
      BY <2>2
    <3>. QED
      BY <3>1, <3>2 DEF Row
  <2>4. row' \in [Workload -> Row]
    BY <1>0, <2>2, <2>3
  <2>. QED
    BY <1>0, <1>9, <2>4, GivesUp, Forgotten DEF MarkNotStarted, faultVars
<1>10. ASSUME RequestFails(q) PROVE Typed
  <2>1. ReqAt(q, "mark") => req[q].at \in Workload
    BY DEF Asked, Asks, ReqAt
  <2>2. stranded' \subseteq Workload
    BY <1>0, <1>10, <2>1 DEF RequestFails
  <2>3. losses' \in 0 .. MaxLosses
    BY <1>0, <1>10, BoundAssumption DEF RequestFails
  <2>. QED
    BY <1>0, <1>10, <2>2, <2>3, GivesUp, Forgotten DEF RequestFails
<1>11. Typed
  BY <1>1, <1>2, <1>3, <1>4, <1>5, <1>6, <1>7, <1>8, <1>9, <1>10 DEF Asking
<1>. QED
  BY <1>11 DEF TypeOK, temporalVars, dockerVars, Temporal!RetryTypeOK

(* A request that starts a workflow, for the first time. *)
LEMMA TypeStarting ==
  ASSUME TypeOK, Asked, Ordered, NEW q \in Request, Starting(q)
  PROVE  TypeOK'
<1>1. PICK w \in Workload : w = req[q].at
  BY DEF Asked, Asks, ReqAt, Starting, DispatchAccepted, LoseReply
<1>2. <<q, w>> \in Op /\ Wanted(q, w) \in Desired
  BY WantedIsDesired DEF Op
<1>3. CASE DispatchAccepted(q)
  <2>1. /\ wf' = [wf EXCEPT ![<<q, w>>] = "scheduled"] /\ attempts' = attempts
        /\ payload' = [payload EXCEPT ![<<q, w>>] = Wanted(q, w)]
    BY <1>1, <1>3 DEF DispatchAccepted, Temporal!Start
  <2>2. req' \in [Request -> Progress] /\ seen' \in [Request -> [Workload -> Row]]
    BY <1>3, GoesTo, Forgotten DEF DispatchAccepted, AfterDispatch
  <2>. QED
    BY <1>2, <1>3, <2>1, <2>2
    DEF TypeOK, DispatchAccepted, dockerVars, faultVars, Temporal!RetryTypeOK
<1>4. CASE LoseReply(q)
  <2>1. /\ wf' = [wf EXCEPT ![<<q, w>>] = "scheduled"] /\ attempts' = attempts
        /\ payload' = [payload EXCEPT ![<<q, w>>] = Wanted(q, w)]
        /\ disturbed' = disturbed \cup {w}
    BY <1>1, <1>4 DEF LoseReply, Temporal!Start
  <2>2. req' \in [Request -> Progress]
    BY <1>4, GoesTo DEF LoseReply
  <2>3. races' \in 0 .. MaxRaces
    BY <1>4, BoundAssumption DEF LoseReply, TypeOK
  <2>. QED
    BY <1>2, <1>4, <2>1, <2>2, <2>3
    DEF TypeOK, LoseReply, dockerVars, Temporal!RetryTypeOK
<1>. QED
  BY <1>3, <1>4 DEF Starting

(* A worker picks an attempt up, and Temporal times one out. *)
LEMMA TypePolling ==
  ASSUME TypeOK, Ordered, NEW o \in Op, PickUp(o) \/ TimeOut(o)
  PROVE  TypeOK'
<1>0. attempts[o] \in 0 .. MaxAttempts /\ wf \in [Op -> {"none", "scheduled", "started", "completed", "failed"}]
  BY DEF TypeOK, Temporal!RetryTypeOK
<1>1. CASE PickUp(o)
  <2>1. attempts[o] + 1 \in Attempt
    BY <1>0, <1>1, AttemptAssumption DEF Attempt, PickUp, Temporal!Poll, Ordered, InOrder
  <2>2. run' \in [Op -> [Attempt -> Step]]
    BY <1>1, <2>1, Went DEF PickUp, Working
  <2>3. attempts' \in [Op -> 0 .. MaxAttempts]
    BY <1>1, <2>1 DEF PickUp, Temporal!Poll, Attempt, TypeOK, Temporal!RetryTypeOK
  <2>. QED
    BY <1>1, <2>2, <2>3
    DEF TypeOK, PickUp, dockerVars, faultVars, Temporal!Poll, Temporal!RetryTypeOK, Step
<1>2. CASE TimeOut(o)
  <2>1. wf' \in [Op -> {"none", "scheduled", "started", "completed", "failed"}]
    BY <1>0, <1>2 DEF TimeOut, Temporal!Expire, Temporal!RetryOrGiveUp
  <2>2. disturbed' \subseteq Workload /\ races' \in 0 .. MaxRaces
    BY <1>2, BoundAssumption DEF TypeOK, TimeOut, Of, Op
  <2>. QED
    BY <1>2, <2>1, <2>2
    DEF TypeOK, TimeOut, dockerVars, Temporal!Expire, Temporal!RetryTypeOK
<1>. QED
  BY <1>1, <1>2

(* Only workload w has other rows, containers, images and files. *)
OnlyAt(w) ==
  /\ row' \in [Workload -> Row] /\ row'[w].desired = row[w].desired
  /\ docker' \in [Workload -> [id: Container, runs: Desired]]
  /\ image' \in [Workload -> Maybe] /\ staging' \in [Workload -> Maybe]
  /\ \A v \in Workload \ {w} : /\ row'[v] = row[v] /\ docker'[v] = docker[v]
                               /\ image'[v] = image[v] /\ staging'[v] = staging[v]

(* Only attempt k of o goes on. *)
OnlyBy(o, k) ==
  /\ run' \in [Op -> [Attempt -> Step]]
  /\ \A p \in Op, i \in Attempt : p # o \/ i # k => run'[p][i] = run[p][i]

(* A statement of an attempt is about its workload. *)
LEMMA StatementMoves ==
  ASSUME TypeOK, NEW o \in Op, NEW k \in Attempt, Statement(o, k)
  PROVE  /\ OnlyAt(Of(o)) /\ OnlyBy(o, k)
         /\ run[o][k].pc \in Working /\ run'[o][k].pc \in Working
         /\ UNCHANGED <<req, seen, temporalVars, disturbed, races>>
         /\ stranded \subseteq stranded' /\ stranded' \subseteq Workload
         /\ losses' \in 0 .. MaxLosses
<1>. DEFINE w == Of(o)
            Moves == OnlyBy(o, k) /\ run'[o][k].pc \in Working /\ run[o][k].pc \in Working
            Stays == UNCHANGED <<req, seen, temporalVars, disturbed, races>>
            Faults == UNCHANGED <<stranded, losses>>
            Goal == /\ OnlyAt(w) /\ Moves /\ Stays
                    /\ stranded \subseteq stranded' /\ stranded' \subseteq Workload
                    /\ losses' \in 0 .. MaxLosses
<1>0. /\ w \in Workload /\ row \in [Workload -> Row]
      /\ docker \in [Workload -> [id: Container, runs: Desired]]
      /\ image \in [Workload -> Maybe] /\ staging \in [Workload -> Maybe]
      /\ stranded \subseteq Workload /\ losses \in 0 .. MaxLosses
      /\ payload[o] \in Desired /\ Config(o) \in Maybe
      /\ o[1] \in Request /\ <<o[1], k>> \in Container
      /\ run[o][k] \in Step
  BY Ids DEF TypeOK, Op, Of, Config, Desired, Step
<1>g. ASSUME NEW pc \in Working, Goto(o, k, pc) PROVE OnlyBy(o, k) /\ run'[o][k].pc = pc
  BY <1>g, Went DEF OnlyBy
<1>s. ASSUME UNCHANGED <<row, dockerVars>> PROVE OnlyAt(w)
  BY <1>0, <1>s DEF OnlyAt, dockerVars
<1>o. ASSUME NEW s \in {"provisioning", "available", "failed"}, NEW c \in Container,
             NEW e \in BOOLEAN, Observe(w, s, c, e), UNCHANGED dockerVars
      PROVE  OnlyAt(w)
  BY <1>0, <1>o, Observed DEF OnlyAt, dockerVars
<1>1. ASSUME NEW from \in {"start", "fail"}, NEW to \in {"mark", "failed"}, ReadObserved(o, k, from, to)
      PROVE  Goal
  <2>1. PICK s : s = [pc |-> to, saw |-> row[w].container, err |-> row[w].error]
    OBVIOUS
  <2>2. s \in Step /\ s.pc = to
    BY <1>0, <2>1 DEF Step, Row, Working
  <2>3. run' = [run EXCEPT ![o][k] = s]
    BY <1>1, <2>1 DEF ReadObserved
  <2>4. OnlyBy(o, k) /\ run'[o][k].pc = to
    BY <2>2, <2>3, Moved DEF OnlyBy
  <2>. QED
    BY <1>0, <1>1, <1>s, <2>4 DEF ReadObserved, At, Working, faultVars
<1>2. ASSUME MarkProvisioning(o, k) PROVE Goal
  BY <1>0, <1>2, <1>g, <1>o DEF MarkProvisioning, At, Working, Step, faultVars
<1>3. ASSUME Prepare(o, k) PROVE Goal
  <2>1. Moves
    BY <1>3, <1>g DEF Prepare, At, Working
  <2>2. OnlyAt(w)
    BY <1>0, <1>3, Ids DEF Prepare, OnlyAt
  <2>. QED
    BY <1>0, <1>3, <2>1, <2>2 DEF Prepare, faultVars
<1>4. ASSUME Unpack(o, k) PROVE Goal
  <2>1. Moves
    BY <1>4, <1>g DEF Unpack, At, Working
  <2>2. OnlyAt(w)
    BY <1>0, <1>4 DEF Unpack, OnlyAt
  <2>. QED
    BY <1>0, <1>4, <2>1, <2>2 DEF Unpack, faultVars
<1>5. ASSUME RemoveContainer(o, k) PROVE Goal
  <2>1. Moves
    BY <1>5, <1>g DEF RemoveContainer, At, Working
  <2>2. [id |-> None, runs |-> NoDesired] \in [id: Container, runs: Desired]
    BY Ids DEF NoDesired, Desired
  <2>3. OnlyAt(w)
    BY <1>0, <1>5, <2>2 DEF RemoveContainer, OnlyAt
  <2>. QED
    BY <1>0, <1>5, <2>1, <2>3 DEF RemoveContainer, faultVars
<1>6. ASSUME RunContainer(o, k) PROVE Goal
  <2>1. Moves
    BY <1>6, <1>g DEF RunContainer, At, Working
  <2>2. PICK d : /\ d = IF Config(o) \in Built THEN [payload[o] EXCEPT !.config = image[w]]
                        ELSE payload[o]
                 /\ docker' = [docker EXCEPT ![w] = [id |-> <<o[1], k>>, runs |-> d]]
    BY <1>6 DEF RunContainer
  <2>3. image[w] \in Maybe
    BY <1>0
  <2>4. d \in Desired
    BY <1>0, <2>2, <2>3 DEF Desired
  <2>5. OnlyAt(w)
    BY <1>0, <1>6, <2>2, <2>4 DEF RunContainer, OnlyAt
  <2>. QED
    BY <1>0, <1>6, <2>1, <2>5 DEF RunContainer, faultVars
<1>7. ASSUME ProviderThrows(o, k) PROVE Goal
  BY <1>0, <1>7, <1>g, <1>s DEF ProviderThrows, At, Working, faultVars
<1>8. ASSUME AskPort(o, k) PROVE Goal
  BY <1>0, <1>8, <1>g, <1>s DEF AskPort, At, Working, faultVars
<1>9. ASSUME MarkAvailable(o, k) PROVE Goal
  BY <1>0, <1>9, <1>g, <1>o DEF MarkAvailable, At, Working, faultVars
<1>10. ASSUME MarkFailed(o, k) PROVE Goal
  BY <1>0, <1>10, <1>g, <1>o DEF MarkFailed, At, Working, Step, faultVars
<1>11. ASSUME StatementFails(o, k) PROVE Goal
  <2>1. Moves
    BY <1>11, <1>g DEF StatementFails, At, Working
  <2>2. OnlyAt(w)
    BY <1>11, <1>s DEF StatementFails
  <2>3. losses' \in 0 .. MaxLosses
    BY <1>0, <1>11, BoundAssumption DEF StatementFails
  <2>4. stranded \subseteq stranded' /\ stranded' \subseteq Workload
    BY <1>0, <1>11 DEF StatementFails
  <2>. QED
    BY <1>11, <2>1, <2>2, <2>3, <2>4 DEF StatementFails
<1>. QED
  BY <1>1, <1>2, <1>3, <1>4, <1>5, <1>6, <1>7, <1>8, <1>9, <1>10, <1>11 DEF Statement

LEMMA TypeStatement ==
  ASSUME TypeOK, NEW o \in Op, NEW k \in Attempt, Statement(o, k)
  PROVE  TypeOK'
<1>1. /\ UNCHANGED <<req, seen, wf, attempts, payload, disturbed, races>>
      /\ OnlyAt(Of(o)) /\ OnlyBy(o, k) /\ stranded' \subseteq Workload /\ losses' \in 0 .. MaxLosses
  BY StatementMoves DEF temporalVars
<1>. QED
  BY <1>1 DEF TypeOK, Temporal!RetryTypeOK, OnlyAt, OnlyBy, Step

(* An attempt reports its end, which Temporal may or may not listen to.    *)
LEMMA TypeEnding ==
  ASSUME TypeOK, NEW o \in Op, NEW k \in Attempt, Ending(o, k)
  PROVE  TypeOK'
<1>1. run' \in [Op -> [Attempt -> Step]]
  BY Went DEF Ending, ReportResult, Rethrow
<1>2. wf' \in [Op -> {"none", "scheduled", "started", "completed", "failed"}] /\ attempts' = attempts
  BY DEF TypeOK, Temporal!RetryTypeOK, Ending, ReportResult, Rethrow, Temporal!Returns,
         Temporal!Throws, Temporal!RetryOrGiveUp
<1>. QED
  BY <1>1, <1>2
  DEF TypeOK, Temporal!RetryTypeOK, Ending, ReportResult, Rethrow, dockerVars, faultVars, Step

(* A crash of the API ends the requests that are under way. *)
LEMMA ApiCrashed ==
  ASSUME TypeOK, ApiCrash
  PROVE  /\ req' \in [Request -> Progress]
         /\ \A q \in Request :
              IF req[q].pc \in {"idle", "done"} THEN req'[q] = req[q]
              ELSE req'[q].pc = "done" /\ req'[q].todo = {} /\ req'[q].at = req[q].at
<1>1. ASSUME NEW q \in Request
      PROVE  /\ [req[q] EXCEPT !.pc = "done", !.todo = {}] \in Progress
             /\ [req[q] EXCEPT !.pc = "done", !.todo = {}].pc = "done"
             /\ [req[q] EXCEPT !.pc = "done", !.todo = {}].todo = {}
             /\ [req[q] EXCEPT !.pc = "done", !.todo = {}].at = req[q].at
             /\ req[q] \in Progress
  BY DEF TypeOK, Progress
<1>2. req' = [q \in Request |-> IF req[q].pc \in {"idle", "done"} THEN req[q]
                                ELSE [req[q] EXCEPT !.pc = "done", !.todo = {}]]
  BY DEF ApiCrash
<1>. QED
  BY <1>1, <1>2

LEMMA TypeCrash ==
  ASSUME TypeOK, Asked, ApiCrash \/ WorkerCrash
  PROVE  TypeOK'
<1>0. losses' \in 0 .. MaxLosses
  <2>1. losses < MaxLosses /\ losses' = losses + 1
    BY DEF ApiCrash, WorkerCrash
  <2>. QED
    BY <2>1, BoundAssumption DEF TypeOK
<1>1. CASE ApiCrash
  <2>1. req' \in [Request -> Progress] /\ seen' \in [Request -> [Workload -> Row]]
    BY <1>1, ApiCrashed, Forgotten DEF ApiCrash
  <2>2. stranded' \subseteq Workload
    BY <1>1 DEF ApiCrash, TypeOK, Asked, Asks
  <2>. QED
    BY <1>0, <1>1, <2>1, <2>2
    DEF TypeOK, ApiCrash, temporalVars, dockerVars, Temporal!RetryTypeOK
<1>2. CASE WorkerCrash
  <2>1. [pc |-> "over", saw |-> None, err |-> FALSE] \in Step
    BY Ids DEF Step
  <2>2. run' \in [Op -> [Attempt -> Step]]
    BY <1>2, <2>1 DEF WorkerCrash, TypeOK, Step
  <2>3. stranded' \subseteq Workload
    BY <1>2 DEF WorkerCrash, TypeOK, Of, Op
  <2>. QED
    BY <1>0, <1>2, <2>2, <2>3
    DEF TypeOK, WorkerCrash, temporalVars, dockerVars, Temporal!RetryTypeOK, Step
<1>. QED
  BY <1>1, <1>2

(* Types are kept by every step. *)
LEMMA TypeStep ==
  ASSUME TypeOK, Asked, Ordered, [Next]_vars
  PROVE  TypeOK'
<1>1. CASE \E q \in Request : Asking(q) \/ Starting(q)
  BY <1>1, TypeAsking, TypeStarting
<1>2. CASE \E o \in Op : PickUp(o) \/ TimeOut(o)
  BY <1>2, TypePolling
<1>3. CASE \E o \in Op, k \in Attempt : Statement(o, k) \/ Ending(o, k)
  BY <1>3, TypeStatement, TypeEnding
<1>4. CASE ApiCrash \/ WorkerCrash
  BY <1>4, TypeCrash
<1>5. CASE UNCHANGED vars
  BY <1>5 DEF TypeOK, vars, Temporal!RetryTypeOK
<1>. QED
  BY <1>1, <1>2, <1>3, <1>4, <1>5, Steps

(* At the start. *)
LEMMA TypeInit == Init => TypeOK
<1>. SUFFICES ASSUME Init PROVE TypeOK
  OBVIOUS
<1>1. NewRow("absent", None) \in Row /\ NoDesired \in Desired /\ Idle \in Progress
  BY NoReadIsRead, Ids DEF NoDesired, Desired, Idle, Progress
<1>2. NewRow("available", First) \in Row /\ <<First, 1>> \in Container
  BY Ids DEF NewRow, Row, Desired
<1>3. FirstRow \in Row
  BY <1>2 DEF FirstRow, Row
<1>4. FirstRow.desired \in Desired
  BY <1>3 DEF Row
<1>5. docker \in [Workload -> [id: Container, runs: Desired]]
  BY <1>1, <1>2, <1>4, Ids DEF Init
<1>6. run \in [Op -> [Attempt -> Step]]
  BY Ids DEF Init, Step
<1>7. row \in [Workload -> Row] /\ req \in [Request -> Progress]
      /\ seen \in [Request -> [Workload -> Row]] /\ payload \in [Op -> Desired]
  BY <1>1, <1>3, NoReadIsRead DEF Init
<1>8. image \in [Workload -> Maybe] /\ staging \in [Workload -> Maybe]
  BY Ids DEF Init
<1>. QED
  BY <1>5, <1>6, <1>7, <1>8, BoundAssumption, AttemptAssumption
  DEF Init, TypeOK, Temporal!RetryInit, Temporal!RetryTypeOK, Step

-----------------------------------------------------------------------------
(***************************************************************************)
(* Asked, and what is left to dispatch.                                    *)
(***************************************************************************)
(* What is still to be dispatched was so before. *)
NoneCalledBack(q) == \A w \in Workload : Undispatched(q, w)' => Undispatched(q, w)

(* The other requests stay where they are and know what they knew. *)
OthersStay(q) ==
  \A p \in Request \ {q} :
    req'[p] = req[p] /\ (req[p].pc # "done" => seen'[p] = seen[p])

(* A request that arrives or goes on is where its parts say, and recalls   *)
(* no workflow.                                                            *)
LEMMA AskingAsks ==
  ASSUME TypeOK, Asked, NEW q \in Request, Asking(q)
  PROVE  Asks(q)' /\ NoneCalledBack(q) /\ OthersStay(q)
<1>. DEFINE Goal == Asks(q)' /\ NoneCalledBack(q) /\ OthersStay(q)
<1>0. /\ Asks(q) /\ req[q] \in Progress /\ req \in [Request -> Progress]
      /\ seen \in [Request -> [Workload -> Row]]
  BY DEF TypeOK, Asked
<1>1. ASSUME NEW w \in Workload, NEW configured \in BOOLEAN, CreateWorkload(q, w, configured)
      PROVE  Goal
  <2>1. /\ req'[q].todo = {} /\ req'[q].at = w /\ req'[q].pc \in {"dispatch", "done"}
        /\ req[q].pc = "idle"
    BY <1>0, <1>1 DEF CreateWorkload, Arrive, ReqAt
  <2>2. OthersStay(q)
    BY <1>0, <1>1 DEF CreateWorkload, OthersStay
  <2>. QED
    BY <2>1, <2>2 DEF Asks, NoneCalledBack, Undispatched
<1>2. ASSUME NEW w \in Workload, NEW op \in {"config", "env", "domains", "deploy"},
             ReadWorkload(q, w, op)
      PROVE  Goal
  <2>1. /\ req'[q].todo = {} /\ req'[q].at = w /\ req'[q].pc = "update"
        /\ req[q].pc = "idle"
    BY <1>0, <1>2 DEF ReadWorkload, Arrive, ReqAt
  <2>2. OthersStay(q)
    BY <1>0, <1>2 DEF ReadWorkload, OthersStay
  <2>. QED
    BY <2>1, <2>2 DEF Asks, NoneCalledBack, Undispatched
<1>3. ASSUME ReceivePush(q) PROVE Goal
  <2>1. /\ req'[q].todo # {} /\ req'[q].todo \subseteq Workload /\ req'[q].at = None
        /\ req'[q].pc = "next" /\ req'[q].op = "push" /\ req[q].pc = "idle"
    BY <1>0, <1>3 DEF ReceivePush, Arrive, ReqAt
  <2>2. OthersStay(q)
    BY <1>0, <1>3 DEF ReceivePush, OthersStay
  <2>. QED
    BY <2>1, <2>2, Ids DEF Asks, NoneCalledBack, Undispatched
<1>4. ASSUME NEW withEnv \in BOOLEAN, PatchConfig(q, withEnv) PROVE Goal
  BY <1>0, <1>4, GoesTo, Forgotten
  DEF PatchConfig, ReqAt, OthersStay, Asks, NoneCalledBack, Undispatched
<1>5. ASSUME PatchDesired(q) \/ Redeploy(q) PROVE Goal
  BY <1>0, <1>5, GoesTo
  DEF PatchDesired, Redeploy, ReqAt, OthersStay, Asks, NoneCalledBack, Undispatched
<1>6. ASSUME NEW w \in Workload, DeployNext(q, w) PROVE Goal
  <2>1. /\ req'[q].todo = req[q].todo \ {w} /\ req'[q].at = w /\ req'[q].pc = "dispatch"
        /\ req'[q].op = req[q].op /\ w \in req[q].todo /\ req[q].op = "push"
    BY <1>0, <1>6 DEF DeployNext, Asks, Progress
  <2>2. OthersStay(q)
    BY <1>0, <1>6 DEF DeployNext, OthersStay
  <2>. QED
    BY <2>1, <2>2 DEF Asks, NoneCalledBack, Undispatched
<1>7. ASSUME DispatchThrows(q) PROVE Goal
  BY <1>0, <1>7, GoesTo
  DEF DispatchThrows, ReqAt, OthersStay, Asks, NoneCalledBack, Undispatched
<1>8. ASSUME MarkNotStarted(q) \/ RequestFails(q) PROVE Goal
  BY <1>0, <1>8, GivesUp, Forgotten
  DEF MarkNotStarted, RequestFails, ReqAt, OthersStay, Asks, NoneCalledBack, Undispatched
<1>. QED
  BY <1>1, <1>2, <1>3, <1>4, <1>5, <1>6, <1>7, <1>8 DEF Asking

(* A request starts its workflow for the first time. *)
LEMMA StartingAsks ==
  ASSUME TypeOK, Asked, Ordered, NEW q \in Request, Starting(q)
  PROVE  /\ Asks(q)' /\ NoneCalledBack(q) /\ OthersStay(q)
         /\ ~Undispatched(q, req[q].at)'
         /\ req[q].pc = "dispatch" /\ req'[q].at = req[q].at /\ req[q].at \in Workload
         /\ wf[<<q, req[q].at>>] = "none"
         /\ wf' = [wf EXCEPT ![<<q, req[q].at>>] = "scheduled"]
         /\ UNCHANGED <<attempts, run>>
<1>0. /\ Asks(q) /\ req[q] \in Progress /\ req \in [Request -> Progress]
  BY DEF TypeOK, Asked
<1>1. req[q].pc = "dispatch" /\ req[q].at \in Workload /\ req[q].at \notin req[q].todo
  BY <1>0 DEF Starting, DispatchAccepted, LoseReply, ReqAt, Asks
<1>2. wf[<<q, req[q].at>>] = "none"
  BY <1>1 DEF Ordered, Undispatched
<1>3. /\ wf' = [wf EXCEPT ![<<q, req[q].at>>] = "scheduled"]
      /\ UNCHANGED <<attempts, run>>
  BY DEF Starting, DispatchAccepted, LoseReply, Temporal!Start
<1>4. CASE DispatchAccepted(q)
  <2>1. /\ req'[q].pc = AfterDispatch(q) /\ req'[q].at = req[q].at
        /\ req'[q].todo = req[q].todo /\ req'[q].op = req[q].op /\ OthersStay(q)
    BY <1>4, GoesTo, Forgotten DEF DispatchAccepted, AfterDispatch, OthersStay
  <2>. QED
    BY <1>0, <1>1, <1>2, <1>3, <2>1 DEF Asks, NoneCalledBack, Undispatched, AfterDispatch
<1>5. CASE LoseReply(q)
  <2>1. /\ req'[q].pc = "mark" /\ req'[q].at = req[q].at
        /\ req'[q].todo = req[q].todo /\ req'[q].op = req[q].op /\ OthersStay(q)
    BY <1>5, GoesTo DEF LoseReply, OthersStay
  <2>. QED
    BY <1>0, <1>1, <1>2, <1>3, <2>1 DEF Asks, NoneCalledBack, Undispatched
<1>. QED
  BY <1>4, <1>5 DEF Starting

(* Requests stay where their steps allow. *)
LEMMA AskedStep ==
  ASSUME TypeOK, Asked, Ordered, [Next]_vars
  PROVE  Asked' /\ \A q \in Request : NoneCalledBack(q)
<1>1. CASE \E q \in Request : Asking(q) \/ Starting(q)
  <2>1. PICK q \in Request : Asks(q)' /\ NoneCalledBack(q) /\ OthersStay(q)
    BY <1>1, AskingAsks, StartingAsks
  <2>. QED
    BY <2>1 DEF Asked, Asks, NoneCalledBack, OthersStay, Undispatched
<1>2. CASE req' = req
  BY <1>2 DEF Asked, Asks, NoneCalledBack, Undispatched
<1>3. CASE \E o \in Op : PickUp(o) \/ TimeOut(o)
  BY <1>2, <1>3 DEF PickUp, TimeOut
<1>4. CASE \E o \in Op, k \in Attempt : Statement(o, k) \/ Ending(o, k)
  BY <1>2, <1>4, StatementMoves DEF Ending, ReportResult, Rethrow
<1>5. CASE WorkerCrash \/ UNCHANGED vars
  BY <1>2, <1>5 DEF WorkerCrash, vars
<1>6. CASE ApiCrash
  BY <1>6, ApiCrashed DEF Asked, Asks, NoneCalledBack, Undispatched
<1>. QED
  BY <1>1, <1>3, <1>4, <1>5, <1>6, Steps

-----------------------------------------------------------------------------
(***************************************************************************)
(* Ordered.                                                                *)
(***************************************************************************)
(* A worker picks up the next attempt of o. *)
LEMMA PickedUp ==
  ASSUME TypeOK, Ordered, NEW o \in Op, PickUp(o)
  PROVE  \E k \in Attempt :
           /\ k = attempts[o] + 1 /\ attempts' = [attempts EXCEPT ![o] = k]
           /\ wf[o] = "scheduled" /\ wf' = [wf EXCEPT ![o] = "started"]
           /\ OnlyBy(o, k) /\ run'[o][k].pc = "start"
<1>0. attempts \in [Op -> 0 .. MaxAttempts]
  BY DEF TypeOK, Temporal!RetryTypeOK
<1>1. attempts[o] + 1 \in Attempt
  BY <1>0, AttemptAssumption DEF Attempt, PickUp, Temporal!Poll, Ordered, InOrder
<1>2. PICK k \in Attempt : k = attempts[o] + 1
  BY <1>1
<1>3. Goto(o, k, "start") /\ wf[o] = "scheduled" /\ wf' = [wf EXCEPT ![o] = "started"]
  BY <1>2 DEF PickUp, Temporal!Poll
<1>4. attempts' = [attempts EXCEPT ![o] = k]
  BY <1>0, <1>2 DEF PickUp, Temporal!Poll
<1>5. OnlyBy(o, k) /\ run'[o][k].pc = "start"
  BY <1>3, Went DEF OnlyBy, Working
<1>. QED
  BY <1>2, <1>3, <1>4, <1>5

(* An attempt is over. *)
LEMMA Ended ==
  ASSUME TypeOK, NEW o \in Op, NEW k \in Attempt, Ending(o, k)
  PROVE  /\ run[o][k].pc \in {"report", "rethrow"}
         /\ OnlyBy(o, k) /\ run'[o][k].pc = "over" /\ attempts' = attempts
         /\ IF ~Temporal!Current(o, k) THEN wf' = wf
            ELSE wf' = [wf EXCEPT ![o] = IF run[o][k].pc = "report" THEN "completed"
                                         ELSE Temporal!RetryOrGiveUp(o)]
BY Went DEF Ending, ReportResult, Rethrow, OnlyBy, At, Temporal!Returns, Temporal!Throws

(* What is not started stays so, unless its request starts it. *)
LEMMA OrderedStep ==
  ASSUME TypeOK, Asked, Ordered, [Next]_vars
  PROVE  Ordered'
<1>0. /\ wf \in [Op -> {"none", "scheduled", "started", "completed", "failed"}]
      /\ attempts \in [Op -> 0 .. MaxAttempts]
      /\ \A o \in Op : InOrder(o) /\ attempts[o] \in Nat
      /\ MaxAttempts \in Nat \ {0} /\ Attempt = 1 .. MaxAttempts
      /\ \A q \in Request, w \in Workload : <<q, w>> \in Op
  BY AttemptAssumption DEF TypeOK, Ordered, Temporal!RetryTypeOK, Op, Attempt
<1>. DEFINE Goal == \A o \in Op : InOrder(o)'
            Kept == \A o \in Op : wf[o] = "none" => wf'[o] = "none"
<1>q. ASSUME NEW p \in Op, wf'[p] = wf[p], attempts'[p] = attempts[p],
             \A i \in Attempt : run'[p][i].pc = "idle" <=> run[p][i].pc = "idle"
      PROVE  InOrder(p)'
  <2>1. attempts[p] \in Nat /\ attempts[p] <= MaxAttempts /\ InOrder(p)
    BY <1>0
  <2>2. wf[p] = "started" => attempts[p] \in Attempt
    BY <1>0, <2>1 DEF InOrder
  <2>. QED
    BY <1>q, <2>1, <2>2 DEF InOrder
<1>k. ASSUME Goal, Kept PROVE Ordered'
  BY <1>0, <1>k, AskedStep DEF Ordered, NoneCalledBack
<1>1. ASSUME UNCHANGED <<wf, attempts, run>> PROVE Ordered'
  BY <1>0, <1>1, <1>k DEF InOrder
<1>2. CASE \E q \in Request : Asking(q)
  BY <1>1, <1>2
  DEF Asking, CreateWorkload, ReadWorkload, ReceivePush, PatchConfig, PatchDesired, Redeploy,
      DeployNext, DispatchThrows, MarkNotStarted, RequestFails, temporalVars
<1>3. CASE \E q \in Request : Starting(q)
  <2>1. PICK q \in Request :
          /\ ~Undispatched(q, req[q].at)' /\ req[q].at \in Workload
          /\ req'[q].at = req[q].at
          /\ wf[<<q, req[q].at>>] = "none"
          /\ wf' = [wf EXCEPT ![<<q, req[q].at>>] = "scheduled"]
          /\ UNCHANGED <<attempts, run>>
    BY <1>3, StartingAsks
  <2>2. PICK v \in Workload : v = req[q].at
    BY <2>1
  <2>3. /\ ~Undispatched(q, v)' /\ wf[<<q, v>>] = "none"
        /\ wf' = [wf EXCEPT ![<<q, v>>] = "scheduled"] /\ UNCHANGED <<attempts, run>>
    BY <2>1, <2>2 DEF Undispatched
  <2>4. Goal
    BY <1>0, <2>3 DEF InOrder
  <2>5. ASSUME NEW p \in Request, NEW w \in Workload, Undispatched(p, w)'
        PROVE  wf'[<<p, w>>] = "none"
    <3>1. wf[<<p, w>>] = "none"
      BY <2>5, AskedStep DEF Ordered, NoneCalledBack
    <3>2. <<p, w>> # <<q, v>>
      BY <2>3, <2>5
    <3>. QED
      BY <1>0, <2>3, <3>1, <3>2
  <2>. QED
    BY <2>4, <2>5 DEF Ordered
<1>4. ASSUME NEW o \in Op, PickUp(o) PROVE Ordered'
  <2>1. PICK k \in Attempt :
           /\ k = attempts[o] + 1 /\ attempts' = [attempts EXCEPT ![o] = k]
           /\ wf[o] = "scheduled" /\ wf' = [wf EXCEPT ![o] = "started"]
           /\ OnlyBy(o, k) /\ run'[o][k].pc = "start"
    BY <1>4, PickedUp
  <2>2. InOrder(o)'
    <3>1. attempts'[o] = k /\ wf'[o] = "started" /\ k >= 1 /\ run'[o][k].pc # "idle"
      BY <1>0, <2>1
    <3>2. ASSUME NEW i \in Attempt, i > k PROVE run'[o][i].pc = "idle"
      <4>1. i > attempts[o] /\ i # k
        BY <1>0, <2>1, <3>2
      <4>2. run[o][i].pc = "idle" /\ run'[o][i] = run[o][i]
        BY <1>0, <2>1, <4>1 DEF InOrder, OnlyBy
      <4>. QED
        BY <4>2
    <3>. QED
      BY <3>1, <3>2 DEF InOrder
  <2>3. \A p \in Op \ {o} : InOrder(p)'
    BY <1>0, <1>q, <2>1 DEF OnlyBy
  <2>. QED
    BY <1>k, <1>0, <2>1, <2>2, <2>3
<1>5. ASSUME NEW o \in Op, TimeOut(o) PROVE Ordered'
  <2>1. /\ wf[o] = "started" /\ wf' = [wf EXCEPT ![o] = Temporal!RetryOrGiveUp(o)]
        /\ UNCHANGED <<attempts, run>>
    BY <1>5 DEF TimeOut, Temporal!Expire
  <2>2. Goal
    BY <1>0, <2>1 DEF InOrder, Temporal!RetryOrGiveUp
  <2>. QED
    BY <1>0, <1>k, <2>1, <2>2
<1>6. ASSUME NEW o \in Op, NEW k \in Attempt, Statement(o, k) PROVE Ordered'
  <2>1. /\ OnlyBy(o, k) /\ run[o][k].pc \in Working /\ run'[o][k].pc \in Working
        /\ UNCHANGED <<wf, attempts>>
    BY <1>6, StatementMoves DEF temporalVars
  <2>2. Goal
    BY <1>q, <2>1 DEF OnlyBy, Working
  <2>. QED
    BY <1>k, <2>1, <2>2
<1>7. ASSUME NEW o \in Op, NEW k \in Attempt, Ending(o, k) PROVE Ordered'
  <2>1. /\ run[o][k].pc \in {"report", "rethrow"}
        /\ OnlyBy(o, k) /\ run'[o][k].pc = "over" /\ attempts' = attempts
        /\ \/ wf' = wf
           \/ /\ wf[o] = "started" /\ wf' = [wf EXCEPT ![o] = "completed"]
           \/ /\ wf[o] = "started" /\ wf' = [wf EXCEPT ![o] = Temporal!RetryOrGiveUp(o)]
    BY <1>7, Ended DEF Temporal!Current
  <2>2. InOrder(o)'
    <3>1. attempts'[o] = attempts[o] /\ InOrder(o) /\ attempts[o] \in Nat
      BY <1>0, <2>1
    <3>2. ASSUME NEW i \in Attempt
          PROVE  run'[o][i].pc = "idle" <=> run[o][i].pc = "idle"
      BY <2>1 DEF OnlyBy
    <3>3. CASE wf' = wf
      BY <1>0, <1>q, <3>1, <3>2, <3>3
    <3>4. CASE wf' # wf
      <4>1. wf'[o] \in {"completed", "scheduled", "failed"}
        BY <1>0, <2>1, <3>4 DEF Temporal!RetryOrGiveUp
      <4>2. wf'[o] = "scheduled" => attempts[o] < MaxAttempts
        BY <1>0, <2>1, <3>4 DEF Temporal!RetryOrGiveUp
      <4>. QED
        BY <3>1, <3>2, <4>1, <4>2 DEF InOrder
    <3>. QED
      BY <3>3, <3>4
  <2>3. \A p \in Op \ {o} : InOrder(p)'
    BY <1>0, <1>q, <2>1 DEF OnlyBy
  <2>. QED
    BY <1>0, <1>k, <2>1, <2>2, <2>3
<1>8. CASE WorkerCrash
  <2>1. /\ UNCHANGED <<wf, attempts>>
        /\ \A o \in Op, k \in Attempt : run'[o][k].pc = IF run[o][k].pc = "idle" THEN "idle" ELSE "over"
    BY <1>8 DEF WorkerCrash, At, temporalVars
  <2>2. Goal
    BY <1>0, <2>1 DEF InOrder
  <2>. QED
    BY <1>k, <2>1, <2>2
<1>9. CASE ApiCrash \/ UNCHANGED vars
  BY <1>1, <1>9 DEF ApiCrash, vars, temporalVars
<1>. QED
  BY <1>2, <1>3, <1>4, <1>5, <1>6, <1>7, <1>8, <1>9, Steps

-----------------------------------------------------------------------------
(***************************************************************************)
(* Watched.                                                                *)
(***************************************************************************)
WatchedAt(w) ==
  row[w].status \in {"requested", "provisioning"} => \E q \in Request : Watches(q, w)

Dispatches(q, w) == req[q].at = w /\ req[q].pc \in {"dispatch", "mark"}

(* Request q leaves w as it is, takes its mark away or will do so. *)
AttendsTo(q, w) ==
  \/ w \in stranded'
  \/ row'[w].status \notin {"requested", "provisioning"}
  \/ Dispatches(q, w)'
  \/ row'[w].status = row[w].status /\ w \notin stranded /\ ~Dispatches(q, w)

LEMMA WatchedAsking ==
  ASSUME TypeOK, Asked, Watched, NEW q \in Request, Asking(q)
  PROVE  Watched'
<1>0. /\ Asks(q) /\ row \in [Workload -> Row] /\ OthersStay(q) /\ req \in [Request -> Progress]
      /\ seen \in [Request -> [Workload -> Row]]
  BY AskingAsks DEF TypeOK, Asked
<1>. DEFINE Attends == \A w \in Workload : AttendsTo(q, w)
<1>1. ASSUME NEW w \in Workload, NEW configured \in BOOLEAN, CreateWorkload(q, w, configured)
      PROVE  Attends
  <2>1. /\ row' = [row EXCEPT ![w] = IF configured THEN NewRow("requested", q)
                                     ELSE NewRow("draft", None)]
        /\ req' = [req EXCEPT ![q] = [op |-> "create", at |-> w, todo |-> {},
                                      pc |-> IF configured THEN "dispatch" ELSE "done"]]
        /\ req[q].pc = "idle" /\ stranded' = stranded
    BY <1>1 DEF CreateWorkload, Arrive, ReqAt, faultVars
  <2>2. AttendsTo(q, w)
    BY <1>0, <2>1 DEF AttendsTo, Dispatches, NewRow
  <2>3. \A v \in Workload \ {w} : AttendsTo(q, v)
    BY <1>0, <2>1 DEF AttendsTo, Dispatches
  <2>. QED
    BY <2>2, <2>3
<1>2. ASSUME NEW w \in Workload, NEW op \in {"config", "env", "domains", "deploy"},
             ReadWorkload(q, w, op)
      PROVE  Attends
  BY <1>2 DEF ReadWorkload, Arrive, ReqAt, AttendsTo, Dispatches, faultVars
<1>3. ASSUME ReceivePush(q) PROVE Attends
  BY <1>3 DEF ReceivePush, Arrive, ReqAt, AttendsTo, Dispatches, faultVars
<1>4. ASSUME NEW withEnv \in BOOLEAN, PatchConfig(q, withEnv) PROVE Attends
  <2>1. PICK v \in Workload : v = req[q].at
    BY <1>0, <1>4 DEF PatchConfig, ReqAt, Asks
  <2>2. row'[v].status = "draft" /\ \A w \in Workload \ {v} : row'[w] = row[w]
    BY <1>0, <1>4, <2>1 DEF PatchConfig
  <2>3. req[q].pc = "update" /\ stranded' = stranded
    BY <1>4 DEF PatchConfig, ReqAt, faultVars
  <2>. QED
    BY <1>0, <2>1, <2>2, <2>3 DEF AttendsTo, Dispatches
<1>5. ASSUME PatchDesired(q) \/ Redeploy(q) PROVE Attends
  <2>1. PICK v \in Workload : v = req[q].at
    BY <1>0, <1>5 DEF PatchDesired, Redeploy, ReqAt, Asks
  <2>2. /\ \A w \in Workload \ {v} : row'[w] = row[w]
        /\ req'[q].at = v /\ req'[q].pc = "dispatch" /\ req[q].pc = "update"
        /\ stranded' = stranded
    BY <1>0, <1>5, <2>1, GoesTo DEF PatchDesired, Redeploy, ReqAt, faultVars
  <2>. QED
    BY <2>1, <2>2 DEF AttendsTo, Dispatches
<1>6. ASSUME NEW w \in Workload, DeployNext(q, w) PROVE Attends
  <2>1. /\ \A v \in Workload \ {w} : row'[v] = row[v]
        /\ req'[q].at = w /\ req'[q].pc = "dispatch" /\ req[q].pc = "next"
        /\ stranded' = stranded
    BY <1>0, <1>6 DEF DeployNext, Progress, ReqAt, faultVars
  <2>. QED
    BY <2>1 DEF AttendsTo, Dispatches
<1>7. ASSUME DispatchThrows(q) PROVE Attends
  <2>1. /\ row' = row /\ stranded' = stranded
        /\ req[q].pc = "dispatch" /\ req'[q].pc = "mark" /\ req'[q].at = req[q].at
    BY <1>7, GoesTo DEF DispatchThrows, ReqAt, faultVars
  <2>. QED
    BY <2>1 DEF AttendsTo, Dispatches
<1>8. ASSUME MarkNotStarted(q) PROVE Attends
  <2>1. PICK v \in Workload : v = req[q].at
    BY <1>0, <1>8 DEF MarkNotStarted, ReqAt, Asks
  <2>2. PICK c : row' = [row EXCEPT ![v].status = "failed", ![v].error = TRUE, ![v].container = c]
    BY <1>8, <2>1 DEF MarkNotStarted
  <2>3. row'[v].status = "failed" /\ \A w \in Workload \ {v} : row'[w] = row[w]
    BY <1>0, <2>2 DEF Row
  <2>4. stranded' = stranded
    BY <1>8 DEF MarkNotStarted, faultVars
  <2>. QED
    BY <2>1, <2>3, <2>4 DEF AttendsTo, Dispatches
<1>9. ASSUME RequestFails(q) PROVE Attends
  BY <1>9 DEF RequestFails, ReqAt, AttendsTo, Dispatches
<1>10. Attends
  BY <1>1, <1>2, <1>3, <1>4, <1>5, <1>6, <1>7, <1>8, <1>9 DEF Asking
<1>11. UNCHANGED <<wf, attempts, run>>
  BY DEF Asking, CreateWorkload, ReadWorkload, ReceivePush, PatchConfig, PatchDesired, Redeploy,
         DeployNext, DispatchThrows, MarkNotStarted, RequestFails, temporalVars
<1>12. ASSUME NEW w \in Workload, NEW p \in Request, Watches(p, w), p # q \/ ~Dispatches(q, w)
       PROVE  Watches(p, w)'
  BY <1>0, <1>11, <1>12 DEF Watches, Retrying, OthersStay, Dispatches
<1>13. ASSUME NEW w \in Workload, Dispatches(q, w)' PROVE Watches(q, w)'
  BY <1>13 DEF Watches, Dispatches
<1>. QED
  BY <1>10, <1>12, <1>13 DEF Watched, AttendsTo

(* Where rows, requests and stranded workloads stay, those who watch do.   *)
LEMMA WatchersStay ==
  ASSUME Watched, UNCHANGED <<row, stranded>>,
         \A p \in Request, w \in Workload : Watches(p, w) => Watches(p, w)'
  PROVE  Watched'
BY DEF Watched

LEMMA WatchedStarting ==
  ASSUME TypeOK, Asked, Ordered, Watched, NEW q \in Request, Starting(q)
  PROVE  Watched'
<1>0. /\ req'[q].at = req[q].at
      /\ wf' = [wf EXCEPT ![<<q, req[q].at>>] = "scheduled"] /\ wf[<<q, req[q].at>>] = "none"
      /\ UNCHANGED <<attempts, run>> /\ OthersStay(q) /\ req[q].pc = "dispatch"
      /\ \A p \in Request, w \in Workload : <<p, w>> \in DOMAIN wf
  BY StartingAsks DEF TypeOK, Temporal!RetryTypeOK, Op
<1>1. UNCHANGED <<row, stranded>>
  BY DEF Starting, DispatchAccepted, LoseReply, faultVars
<1>2. ASSUME NEW p \in Request, NEW w \in Workload, Watches(p, w) PROVE Watches(p, w)'
  <2>1. CASE p = q /\ w = req[q].at
    BY <1>0, <2>1 DEF Watches
  <2>2. CASE ~(p = q /\ w = req[q].at)
    <3>1. wf'[<<p, w>>] = wf[<<p, w>>]
      BY <1>0, <2>2
    <3>2. Dispatches(p, w) => Dispatches(p, w)'
      BY <1>0, <2>2 DEF Dispatches, OthersStay
    <3>. QED
      BY <1>0, <1>2, <3>1, <3>2 DEF Watches, Retrying, Dispatches
  <2>. QED
    BY <2>1, <2>2
<1>. QED
  BY <1>1, <1>2, WatchersStay

LEMMA WatchedPolling ==
  ASSUME TypeOK, Ordered, Watched, NEW o \in Op, PickUp(o) \/ TimeOut(o)
  PROVE  Watched'
<1>0. UNCHANGED <<row, req, stranded>>
  BY DEF PickUp, TimeOut, faultVars
<1>t. wf \in [Op -> {"none", "scheduled", "started", "completed", "failed"}]
      /\ attempts \in [Op -> 0 .. MaxAttempts] /\ \A p \in Op : InOrder(p)
  BY DEF TypeOK, Temporal!RetryTypeOK, Ordered
<1>1. ASSUME NEW p \in Request, NEW w \in Workload, Watches(p, w) PROVE Watches(p, w)'
  <2>0. <<p, w>> \in Op
    BY DEF Op
  <2>1. CASE PickUp(o)
    <3>1. PICK k \in Attempt :
            /\ k = attempts[o] + 1 /\ attempts' = [attempts EXCEPT ![o] = k]
            /\ wf[o] = "scheduled" /\ wf' = [wf EXCEPT ![o] = "started"]
            /\ OnlyBy(o, k) /\ run'[o][k].pc = "start"
      BY <2>1, PickedUp
    <3>2. CASE o = <<p, w>>
      BY <3>1, <3>2 DEF Watches, Marking, Working
    <3>3. CASE o # <<p, w>>
      <4>1. /\ wf'[<<p, w>>] = wf[<<p, w>>] /\ attempts'[<<p, w>>] = attempts[<<p, w>>]
            /\ \A i \in Attempt : run'[<<p, w>>][i] = run[<<p, w>>][i]
        BY <1>t, <2>0, <3>1, <3>3 DEF OnlyBy
      <4>2. Retrying(<<p, w>>) => attempts[<<p, w>>] \in Attempt
        BY <1>t, <2>0, AttemptAssumption DEF Retrying, InOrder, Attempt
      <4>. QED
        BY <1>0, <1>1, <4>1, <4>2 DEF Watches, Retrying
    <3>. QED
      BY <3>2, <3>3
  <2>2. CASE TimeOut(o)
    <3>1. wf' = [wf EXCEPT ![o] = Temporal!RetryOrGiveUp(o)] /\ UNCHANGED <<attempts, run>>
          /\ wf[o] = "started"
      BY <2>2 DEF TimeOut, Temporal!Expire
    <3>2. Retrying(o) => wf'[o] = "scheduled"
      BY <1>t, <3>1 DEF Retrying, Temporal!RetryOrGiveUp
    <3>. QED
      BY <1>0, <1>1, <1>t, <2>0, <3>1, <3>2 DEF Watches, Retrying
  <2>. QED
    BY <2>1, <2>2
<1>. QED
  BY <1>0, <1>1, WatchersStay

(* The step of an attempt leaves its workload to a later step, to another  *)
(* attempt, or with a mark that says how it ended.                         *)
LEMMA StatementWatches ==
  ASSUME TypeOK, NEW o \in Op, NEW k \in Attempt, Statement(o, k)
  PROVE  \/ run'[o][k].pc \in Marking
         \/ row'[Of(o)].status \in {"available", "failed"}
         \/ Of(o) \in stranded'
         \/ Retried(o, {k}) /\ run'[o][k].pc = "rethrow"
<1>0. Of(o) \in Workload /\ run[o][k] \in Step
  BY DEF TypeOK, Of, Op, Step
<1>g. ASSUME NEW pc \in Working, Goto(o, k, pc) PROVE run'[o][k].pc = pc
  BY <1>g, Went
<1>1. CASE MarkAvailable(o, k) \/ MarkFailed(o, k)
  <2>1. \E s \in {"available", "failed"}, c \in Container, e \in BOOLEAN : Observe(Of(o), s, c, e)
    BY <1>0, <1>1, Ids DEF MarkAvailable, MarkFailed, Step, Op
  <2>. QED
    BY <1>0, <2>1, Observed
<1>2. CASE StatementFails(o, k)
  <2>1. CASE At(o, k, "record") /\ Goto(o, k, "fail")
    BY <2>1, <1>g DEF Marking, Working
  <2>2. CASE ~At(o, k, "record") /\ Goto(o, k, "rethrow")
    <3>1. run'[o][k].pc = "rethrow"
      BY <2>2, <1>g DEF Working
    <3>2. Retried(o, {k}) \/ Of(o) \in stranded'
      BY <1>2, <2>2 DEF StatementFails
    <3>. QED
      BY <3>1, <3>2
  <2>. QED
    BY <1>2, <2>1, <2>2 DEF StatementFails, At
<1>3. CASE ReadObserved(o, k, "start", "mark") \/ ReadObserved(o, k, "fail", "failed")
  <2>1. PICK to \in {"mark", "failed"} :
          run' = [run EXCEPT ![o][k] = [pc |-> to, saw |-> row[Of(o)].container,
                                        err |-> row[Of(o)].error]]
    BY <1>3 DEF ReadObserved
  <2>2. run'[o][k].pc = to
    BY <2>1 DEF TypeOK
  <2>. QED
    BY <2>2 DEF Marking, Working
<1>4. CASE \/ MarkProvisioning(o, k) \/ Prepare(o, k) \/ Unpack(o, k) \/ RemoveContainer(o, k)
           \/ RunContainer(o, k) \/ ProviderThrows(o, k) \/ AskPort(o, k)
  <2>1. \E pc \in Marking : Goto(o, k, pc)
    BY <1>4 DEF MarkProvisioning, Prepare, Unpack, RemoveContainer, RunContainer, ProviderThrows,
                AskPort, Marking, Working
  <2>. QED
    BY <1>g, <2>1 DEF Marking
<1>. QED
  BY <1>1, <1>2, <1>3, <1>4 DEF Statement

LEMMA WatchedStatement ==
  ASSUME TypeOK, Ordered, Watched, NEW o \in Op, NEW k \in Attempt, Statement(o, k)
  PROVE  Watched'
<1>0. /\ OnlyAt(Of(o)) /\ OnlyBy(o, k) /\ UNCHANGED <<req, wf, attempts>>
      /\ stranded \subseteq stranded'
  BY StatementMoves DEF temporalVars
<1>1. PICK q \in Request, v \in Workload : o = <<q, v>> /\ Of(o) = v
  BY DEF Op, Of
<1>2. ASSUME NEW w \in Workload \ {v}, w \notin stranded', WatchedAt(w) PROVE WatchedAt(w)'
  <2>1. row'[w] = row[w]
    BY <1>0, <1>1 DEF OnlyAt
  <2>2. ASSUME NEW p \in Request, Watches(p, w) PROVE Watches(p, w)'
    <3>1. <<p, w>> \in Op /\ <<p, w>> # o
      BY <1>1 DEF Op
    <3>2. \A i \in Attempt : run'[<<p, w>>][i] = run[<<p, w>>][i]
      BY <1>0, <3>1 DEF OnlyBy
    <3>3. Retrying(<<p, w>>) => attempts[<<p, w>>] \in Attempt
      BY <3>1, AttemptAssumption
      DEF Retrying, Ordered, InOrder, Attempt, TypeOK, Temporal!RetryTypeOK
    <3>. QED
      BY <1>0, <2>2, <3>2, <3>3 DEF Watches, Retrying
  <2>. QED
    BY <1>2, <2>1, <2>2 DEF WatchedAt
<1>3. v \in stranded' \/ WatchedAt(v)'
  <2>1. CASE run'[o][k].pc \in Marking
    BY <1>1, <2>1 DEF WatchedAt, Watches
  <2>2. CASE row'[v].status \in {"available", "failed"}
    BY <2>2 DEF WatchedAt
  <2>3. CASE Retried(o, {k}) /\ run'[o][k].pc = "rethrow"
    <3>1. Retrying(o)'
      BY <1>0, <2>3 DEF Retried, Retrying
    <3>. QED
      BY <1>1, <3>1 DEF WatchedAt, Watches, Retrying
  <2>. QED
    BY <1>1, <2>1, <2>2, <2>3, StatementWatches
<1>. QED
  BY <1>0, <1>2, <1>3 DEF Watched, WatchedAt

LEMMA WatchedEnding ==
  ASSUME TypeOK, Ordered, Watched, NEW o \in Op, NEW k \in Attempt, Ending(o, k)
  PROVE  Watched'
<1>0. UNCHANGED <<row, req, stranded>>
  BY DEF Ending, ReportResult, Rethrow, faultVars
<1>t. wf \in [Op -> {"none", "scheduled", "started", "completed", "failed"}]
      /\ attempts \in [Op -> 0 .. MaxAttempts] /\ \A p \in Op : InOrder(p)
  BY DEF TypeOK, Temporal!RetryTypeOK, Ordered
<1>1. /\ run[o][k].pc \in {"report", "rethrow"}
      /\ OnlyBy(o, k) /\ run'[o][k].pc = "over" /\ attempts' = attempts
      /\ IF ~Temporal!Current(o, k) THEN wf' = wf
         ELSE wf' = [wf EXCEPT ![o] = IF run[o][k].pc = "report" THEN "completed"
                                      ELSE Temporal!RetryOrGiveUp(o)]
  BY Ended
<1>2. ASSUME NEW p \in Request, NEW w \in Workload, Watches(p, w) PROVE Watches(p, w)'
  <2>0. <<p, w>> \in Op
    BY DEF Op
  <2>1. Retrying(<<p, w>>) => attempts[<<p, w>>] \in Attempt
    BY <1>t, <2>0, AttemptAssumption DEF Retrying, InOrder, Attempt
  <2>2. ASSUME NEW i \in Attempt, run[<<p, w>>][i].pc \in Marking
        PROVE  run'[<<p, w>>][i].pc \in Marking
    <3>1. ~(<<p, w>> = o /\ i = k)
      BY <1>1, <2>2 DEF Marking
    <3>. QED
      BY <1>1, <2>0, <2>2, <3>1 DEF OnlyBy
  <2>3. wf[<<p, w>>] = "scheduled" => wf'[<<p, w>>] = "scheduled"
    BY <1>1, <1>t, <2>0 DEF Temporal!Current
  <2>4. ASSUME Retrying(<<p, w>>)
        PROVE  Retrying(<<p, w>>)' \/ wf'[<<p, w>>] = "scheduled"
    <3>1. CASE <<p, w>> = o /\ attempts[o] = k
      BY <1>1, <1>t, <2>0, <2>4, <3>1 DEF Retrying, Temporal!Current, Temporal!RetryOrGiveUp
    <3>2. CASE ~(<<p, w>> = o /\ attempts[o] = k)
      <4>1. run'[<<p, w>>][attempts[<<p, w>>]] = run[<<p, w>>][attempts[<<p, w>>]]
        BY <1>1, <2>0, <2>1, <2>4, <3>2 DEF OnlyBy
      <4>2. wf'[<<p, w>>] = wf[<<p, w>>]
        BY <1>1, <1>t, <2>0, <3>2 DEF Temporal!Current
      <4>. QED
        BY <1>1, <2>4, <4>1, <4>2 DEF Retrying
    <3>. QED
      BY <3>1, <3>2
  <2>. QED
    BY <1>0, <1>2, <2>2, <2>3, <2>4 DEF Watches
<1>. QED
  BY <1>0, <1>2, WatchersStay

LEMMA WatchedCrash ==
  ASSUME TypeOK, Asked, Ordered, Watched, ApiCrash \/ WorkerCrash
  PROVE  Watched'
<1>1. CASE ApiCrash
  <2>1. /\ UNCHANGED <<row, wf, attempts, run>> /\ stranded \subseteq stranded'
        /\ \A q \in Request : req[q].pc \in {"dispatch", "mark"} => req[q].at \in stranded'
    BY <1>1 DEF ApiCrash, temporalVars
  <2>2. ASSUME NEW p \in Request, NEW w \in Workload \ stranded', Watches(p, w)
        PROVE  Watches(p, w)'
    BY <2>1, <2>2 DEF Watches, Retrying
  <2>. QED
    BY <2>1, <2>2 DEF Watched
<1>2. CASE WorkerCrash
  <2>1. /\ UNCHANGED <<row, req, wf, attempts>> /\ stranded \subseteq stranded'
        /\ \A o \in Op, k \in Attempt : run'[o][k].pc = IF run[o][k].pc = "idle" THEN "idle" ELSE "over"
        /\ \A o \in Op : AtWork(o) /\ ~Retried(o, Attempt) => Of(o) \in stranded'
    BY <1>2 DEF WorkerCrash, At, temporalVars
  <2>2. ASSUME NEW p \in Request, NEW w \in Workload \ stranded', Watches(p, w)
        PROVE  Watches(p, w)'
    <3>0. <<p, w>> \in Op /\ Of(<<p, w>>) = w /\ InOrder(<<p, w>>)
      BY DEF Op, Of, Ordered
    <3>1. ASSUME NEW k \in Attempt, run[<<p, w>>][k].pc \in Marking
          PROVE  Retried(<<p, w>>, Attempt)
      <4>1. AtWork(<<p, w>>)
        BY <3>1 DEF AtWork, Marking
      <4>. QED
        BY <2>1, <3>0, <4>1
    <3>2. Retrying(<<p, w>>) => Retried(<<p, w>>, Attempt)
      BY <3>0, AttemptAssumption
      DEF Retrying, Retried, InOrder, Attempt, TypeOK, Temporal!RetryTypeOK
    <3>3. Retried(<<p, w>>, Attempt) => Retrying(<<p, w>>)'
      BY <2>1, <3>0 DEF Retrying, Retried, InOrder
    <3>. QED
      BY <2>1, <2>2, <3>1, <3>2, <3>3 DEF Watches
  <2>. QED
    BY <2>1, <2>2 DEF Watched
<1>. QED
  BY <1>1, <1>2

(* A mark of provisioning stays watched over every step. *)
LEMMA WatchedStep ==
  ASSUME TypeOK, Asked, Ordered, Watched, [Next]_vars
  PROVE  Watched'
<1>1. CASE UNCHANGED vars
  BY <1>1 DEF vars, Watched, Watches, Retrying
<1>. QED
  BY <1>1, Steps, WatchedAsking, WatchedStarting, WatchedPolling, WatchedStatement, WatchedEnding,
     WatchedCrash

-----------------------------------------------------------------------------
(***************************************************************************)
(* Calm.                                                                   *)
(***************************************************************************)
(* A step leaves what request q knows of w. *)
Keeps(q, w) ==
  \/ ~Serves(q, w)'
  \/ req'[q] = req[q] /\ seen'[q] = seen[q]
  \/ w \in req[q].todo /\ req'[q].at # w /\ seen'[q] = seen[q] /\ Serves(q, w)

(* A step is about other workloads than w. *)
Quiet(w) ==
  /\ row'[w] = row[w] /\ docker'[w] = docker[w] /\ image'[w] = image[w]
  /\ staging'[w] = staging[w]
  /\ \A q \in Request :
       /\ Keeps(q, w)
       /\ wf'[<<q, w>>] = wf[<<q, w>>] /\ attempts'[<<q, w>>] = attempts[<<q, w>>]
       /\ run'[<<q, w>>] = run[<<q, w>>] /\ payload'[<<q, w>>] = payload[<<q, w>>]

(* What a step that is quiet for a workload leaves undisturbed. *)
LEMMA QuietIsCalm ==
  ASSUME Asked, Asked', NEW w \in Workload, Undisturbed(w), Quiet(w)
  PROVE  Undisturbed(w)'
<1>1. ASSUME NEW q \in Request PROVE Engaged(q, w)' => Engaged(q, w)
  BY DEF Quiet, Keeps, Engaged, Serves, AtWork, Temporal!WorkflowOpen
<1>2. Alone(w)'
  BY <1>1 DEF Undisturbed, Alone
<1>3. Sole(w)'
  BY DEF Undisturbed, Sole, Quiet, Temporal!Current
<1>4. Refused(w)'
  BY DEF Undisturbed, Refused, Quiet, Keeps, Serves
<1>5. Informed(w)'
  <2>1. ASSUME NEW q \in Request,
               w \in req'[q].todo \/ (req'[q].at = w /\ req'[q].pc = "update")
        PROVE  seen'[q][w].desired = row'[w].desired
    <3>1. Serves(q, w)'
      BY <2>1 DEF Serves, Asked, Asks
    <3>. QED
      BY <2>1, <3>1 DEF Undisturbed, Informed, Quiet, Keeps
  <2>2. ASSUME NEW q \in Request, req'[q].at = w, req'[q].pc = "dispatch"
        PROVE  Wanted(q, w)' = row'[w].desired
    <3>1. req'[q] = req[q] /\ seen'[q] = seen[q]
      BY <2>2 DEF Quiet, Keeps, Serves
    <3>2. Wanted(q, w)' = Wanted(q, w)
      BY <3>1 DEF Wanted
    <3>. QED
      BY <2>2, <3>1, <3>2 DEF Undisturbed, Informed, Quiet
  <2>. QED
    BY <2>1, <2>2 DEF Undisturbed, Informed, Quiet, Temporal!WorkflowOpen
<1>6. Served(w)'
  BY DEF Undisturbed, Served, Quiet, Runs
<1>7. ASSUME NEW q \in Request, NEW k \in Attempt PROVE Made(<<q, w>>, k)'
  BY DEF Undisturbed, Made, Quiet, Of, Config
<1>. QED
  BY <1>2, <1>3, <1>4, <1>5, <1>6, <1>7 DEF Undisturbed

(* Nothing of w runs in Temporal or on a worker. *)
Bare(w) ==
  \A p \in Request : /\ ~Temporal!WorkflowOpen(<<p, w>>)
                     /\ \A k \in Attempt : run[<<p, w>>][k].pc \notin Working

(* While a request is there for w that has not dispatched, it is there     *)
(* alone and nothing runs.                                                 *)
LEMMA BareBefore ==
  ASSUME TypeOK, Asked, Ordered, NEW w \in Workload, Undisturbed(w), NEW q \in Request,
         \/ w \in req[q].todo
         \/ req[q].at = w /\ req[q].pc \in {"update", "dispatch", "mark"}
  PROVE  /\ Bare(w) /\ Serves(q, w) /\ wf[<<q, w>>] = "none"
         /\ \A p \in Request \ {q} : ~Serves(p, w)
<1>1. Serves(q, w)
  BY DEF Serves, Asked, Asks
<1>2. wf[<<q, w>>] = "none"
  BY DEF Undisturbed, Refused, Ordered, Undispatched
<1>3. \A k \in Attempt : run[<<q, w>>][k].pc \notin Working
  BY <1>2 DEF Undisturbed, Sole, Temporal!Current
<1>4. ASSUME NEW p \in Request \ {q} PROVE ~Engaged(p, w)
  BY <1>1 DEF Undisturbed, Alone, Engaged
<1>. QED
  BY <1>1, <1>2, <1>3, <1>4 DEF Engaged, Bare, AtWork, Temporal!WorkflowOpen

(* Request q alone goes on with w, of which nothing runs. *)
LEMMA RequestIsCalm ==
  ASSUME NEW w \in Workload, NEW q \in Request, Bare(w), wf[<<q, w>>] = "none",
         UNCHANGED <<wf, attempts, run>>,
         \A p \in Request \ {q} : ~Serves(p, w)', \A p \in Request \ {q} : Asks(p)', Asks(q)',
         w \in req'[q].todo \/ (req'[q].at = w /\ req'[q].pc = "update") =>
           seen'[q][w].desired = row'[w].desired,
         req'[q].at = w /\ req'[q].pc = "dispatch" => Wanted(q, w)' = row'[w].desired,
         Served(w)'
  PROVE  Undisturbed(w)'
<1>1. ASSUME NEW p \in Request
      PROVE  /\ ~Temporal!WorkflowOpen(<<p, w>>)' /\ ~AtWork(<<p, w>>)'
             /\ \A k \in Attempt : run'[<<p, w>>][k].pc \notin Working
  BY DEF Bare, AtWork, Temporal!WorkflowOpen
<1>2. Alone(w)'
  BY <1>1 DEF Alone, Engaged
<1>3. Sole(w)'
  BY <1>1 DEF Sole
<1>4. Refused(w)'
  BY DEF Refused, Serves
<1>5. Informed(w)'
  BY <1>1 DEF Informed, Serves, Asks
<1>6. ASSUME NEW p \in Request, NEW k \in Attempt PROVE Made(<<p, w>>, k)'
  BY <1>1 DEF Made, Working
<1>. QED
  BY <1>2, <1>3, <1>4, <1>5, <1>6 DEF Undisturbed

(* Only the workflow of q for w goes on, in its current attempt. *)
LEMMA WorkIsCalm ==
  ASSUME NEW w \in Workload, NEW q \in Request, Undisturbed(w),
         UNCHANGED <<req, seen, payload>>,
         \A p \in Request \ {q} : /\ wf'[<<p, w>>] = wf[<<p, w>>]
                                  /\ \A i \in Attempt : run'[<<p, w>>][i] = run[<<p, w>>][i],
         Engaged(q, w), Temporal!WorkflowOpen(<<q, w>>),
         row'[w].desired = row[w].desired, Served(w)',
         \A k \in Attempt :
           run'[<<q, w>>][k].pc \in Working => Temporal!Current(<<q, w>>, k)' /\ Made(<<q, w>>, k)'
  PROVE  Undisturbed(w)'
<1>1. ASSUME NEW p \in Request \ {q} PROVE ~Engaged(p, w) /\ ~Engaged(p, w)'
  BY DEF Undisturbed, Alone, Engaged, Serves, AtWork, Temporal!WorkflowOpen
<1>2. Alone(w)'
  BY <1>1 DEF Alone
<1>3. Sole(w)'
  BY <1>1 DEF Sole, Engaged, AtWork
<1>4. Refused(w)'
  BY <1>1 DEF Undisturbed, Refused, Engaged, Serves, Temporal!WorkflowOpen
<1>5. Informed(w)'
  BY <1>1 DEF Undisturbed, Informed, Wanted, Engaged, Temporal!WorkflowOpen
<1>6. ASSUME NEW p \in Request, NEW k \in Attempt PROVE Made(<<p, w>>, k)'
  <2>1. CASE run'[<<p, w>>][k].pc \in Working
    BY <1>1, <2>1 DEF Engaged, AtWork
  <2>2. CASE run'[<<p, w>>][k].pc \notin Working
    BY <2>2 DEF Made, Working
  <2>. QED
    BY <2>1, <2>2
<1>. QED
  BY <1>2, <1>3, <1>4, <1>5, <1>6 DEF Undisturbed

-----------------------------------------------------------------------------
(***************************************************************************)
(* Calm, request by request.                                               *)
(***************************************************************************)
(* What a request that asks leaves alone. *)
LEMMA AskingLeaves ==
  ASSUME NEW q \in Request, Asking(q)
  PROVE  /\ UNCHANGED <<wf, attempts, payload, run, docker, image, staging>>
         /\ disturbed \subseteq disturbed'
BY DEF Asking, CreateWorkload, ReadWorkload, ReceivePush, PatchConfig, PatchDesired, Redeploy,
       DeployNext, DispatchThrows, MarkNotStarted, RequestFails, Arrive, temporalVars, dockerVars

(* Other workloads do not notice: those whose row stays and for which q    *)
(* does nothing, or something that it did before.                          *)
LEMMA AskingIsQuiet ==
  ASSUME TypeOK, Asked, NEW q \in Request, Asking(q), NEW w \in Workload,
         row'[w] = row[w], Keeps(q, w)
  PROVE  Quiet(w)
<1>1. /\ UNCHANGED <<wf, attempts, payload, run, docker, image, staging>> /\ OthersStay(q)
  BY AskingLeaves, AskingAsks
<1>2. ASSUME NEW p \in Request \ {q} PROVE Keeps(p, w)
  BY <1>1 DEF OthersStay, Keeps, Serves
<1>. QED
  BY <1>1, <1>2 DEF Quiet

(* A request that is under way does not serve another workload any more,   *)
(* or has it still to do.                                                  *)
LEMMA ArrivedIsBare ==
  ASSUME TypeOK, Asked, Ordered, NEW q \in Request, NEW W \in SUBSET Workload, Arrive(q, W),
         NEW w \in W, w \notin disturbed', Undisturbed(w)
  PROVE  /\ Bare(w) /\ wf[<<q, w>>] = "none" /\ \A p \in Request : ~Serves(p, w)
<1>1. ~UnderWay(w)
  BY DEF Arrive
<1>2. wf[<<q, w>>] = "none"
  BY DEF Arrive, ReqAt, Ordered, Undispatched
<1>. QED
  BY <1>1, <1>2 DEF UnderWay, Engaged, AtWork, Bare

(* What RequestIsCalm asks of request q and w. *)
Settles(q, w) ==
  /\ Bare(w) /\ wf[<<q, w>>] = "none" /\ \A p \in Request \ {q} : ~Serves(p, w)
  /\ w \in req'[q].todo \/ (req'[q].at = w /\ req'[q].pc = "update") =>
       seen'[q][w].desired = row'[w].desired
  /\ req'[q].at = w /\ req'[q].pc = "dispatch" => Wanted(q, w)' = row'[w].desired
  /\ row'[w].status = "available" => row'[w] = row[w]

LEMMA CalmAsking ==
  ASSUME TypeOK, Asked, Asked', Ordered, Calm, NEW q \in Request, Asking(q)
  PROVE  Calm'
<1>. DEFINE Left(w) == (row'[w] = row[w] /\ Keeps(q, w)) \/ Settles(q, w)
            Goal == \A w \in Workload \ disturbed' : Left(w)
<1>0. /\ row \in [Workload -> Row] /\ req \in [Request -> Progress]
      /\ seen \in [Request -> [Workload -> Row]]
      /\ Asks(q) /\ Asks(q)' /\ disturbed \subseteq disturbed'
  BY AskingLeaves DEF TypeOK, Asked
<1>b. ASSUME NEW w \in Workload \ disturbed',
             \/ w \in req[q].todo
             \/ req[q].at = w /\ req[q].pc \in {"update", "dispatch", "mark"}
      PROVE  /\ Bare(w) /\ wf[<<q, w>>] = "none" /\ \A p \in Request \ {q} : ~Serves(p, w)
  BY <1>0, <1>b, BareBefore DEF Calm
<1>i. ASSUME NEW w \in Workload \ disturbed' PROVE Informed(w)
  BY <1>0, <1>i DEF Calm, Undisturbed
<1>a. ASSUME NEW W \in SUBSET Workload, Arrive(q, W), NEW w \in W, w \notin disturbed'
      PROVE  /\ Bare(w) /\ wf[<<q, w>>] = "none" /\ \A p \in Request \ {q} : ~Serves(p, w)
  BY <1>0, <1>a, ArrivedIsBare DEF Calm
<1>1. ASSUME NEW v \in Workload, NEW configured \in BOOLEAN, CreateWorkload(q, v, configured)
      PROVE  Goal
  <2>1. /\ row' = [row EXCEPT ![v] = IF configured THEN NewRow("requested", q)
                                     ELSE NewRow("draft", None)]
        /\ req'[q].op = "create" /\ req'[q].at = v /\ req'[q].todo = {}
        /\ req'[q].pc = IF configured THEN "dispatch" ELSE "done"
        /\ Arrive(q, {v})
        /\ seen' = [seen EXCEPT ![q] = IF configured THEN [NoRead EXCEPT ![v] = row'[v]] ELSE @]
    BY <1>0, <1>1 DEF CreateWorkload
  <2>2. row'[v].status # "available" /\ \A w \in Workload \ {v} : row'[w] = row[w]
    BY <1>0, <2>1 DEF NewRow
  <2>3. configured => seen'[q][v] = row'[v]
    BY <1>0, <2>1, NoReadIsRead
  <2>4. req'[q].pc = "dispatch" => Wanted(q, v)' = row'[v].desired
    BY <2>1, <2>3 DEF Wanted
  <2>5. v \notin disturbed' => Settles(q, v)
    BY <1>a, <2>1, <2>2, <2>4 DEF Settles
  <2>6. \A w \in Workload \ {v} : ~Serves(q, w)'
    BY <2>1 DEF Serves
  <2>. QED
    BY <2>2, <2>5, <2>6 DEF Keeps
<1>2. ASSUME NEW v \in Workload, NEW op \in {"config", "env", "domains", "deploy"},
             ReadWorkload(q, v, op)
      PROVE  Goal
  <2>1. /\ row' = row /\ req'[q].at = v /\ req'[q].todo = {} /\ req'[q].pc = "update"
        /\ Arrive(q, {v}) /\ seen'[q][v] = row[v]
    BY <1>0, <1>2 DEF ReadWorkload
  <2>2. v \notin disturbed' => Settles(q, v)
    BY <1>a, <2>1 DEF Settles
  <2>3. \A w \in Workload \ {v} : ~Serves(q, w)'
    BY <2>1 DEF Serves
  <2>. QED
    BY <2>1, <2>2, <2>3 DEF Keeps
<1>3. ASSUME ReceivePush(q) PROVE Goal
  <2>1. PICK M \in SUBSET Workload :
          /\ Arrive(q, M) /\ row' = row /\ seen'[q] = row
          /\ req'[q].at = None /\ req'[q].todo = M /\ req'[q].pc = "next"
    BY <1>0, <1>3 DEF ReceivePush
  <2>2. \A w \in M \ disturbed' : Settles(q, w)
    BY <1>a, <2>1, Ids DEF Settles
  <2>3. \A w \in Workload \ M : ~Serves(q, w)'
    BY <2>1, Ids DEF Serves
  <2>. QED
    BY <2>1, <2>2, <2>3 DEF Keeps
<1>4. ASSUME NEW withEnv \in BOOLEAN, PatchConfig(q, withEnv) PROVE Goal
  <2>1. PICK v \in Workload : v = req[q].at /\ req[q].pc = "update"
    BY <1>0, <1>4 DEF PatchConfig, ReqAt, Asks
  <2>2. /\ row'[v].status = "draft" /\ \A w \in Workload \ {v} : row'[w] = row[w]
        /\ req'[q].pc = "done"
    BY <1>0, <1>4, <2>1, GoesTo DEF PatchConfig
  <2>3. v \notin disturbed' => Settles(q, v)
    BY <1>0, <1>b, <2>1, <2>2 DEF Settles, Asks
  <2>. QED
    BY <2>2, <2>3 DEF Keeps, Serves
<1>5. ASSUME PatchDesired(q) \/ Redeploy(q) PROVE Goal
  <2>1. PICK v \in Workload : v = req[q].at /\ req[q].pc = "update"
    BY <1>0, <1>5 DEF PatchDesired, Redeploy, ReqAt, Asks
  <2>2. /\ req'[q].pc = "dispatch" /\ req'[q].at = v /\ req'[q].todo = {}
        /\ req'[q].op = req[q].op /\ seen' = seen
    BY <1>0, <1>5, <2>1, GoesTo DEF PatchDesired, Redeploy, Asks
  <2>3. /\ row'[v].status = "provisioning" /\ \A w \in Workload \ {v} : row'[w] = row[w]
        /\ row'[v].desired = IF req[q].op = "deploy" THEN row[v].desired ELSE Wanted(q, v)
    BY <1>0, <1>5, <2>1 DEF PatchDesired, Redeploy, Row
  <2>4. Wanted(q, v)' = Wanted(q, v)
    BY <2>2 DEF Wanted
  <2>5. req[q].op = "deploy" => Wanted(q, v) = seen[q][v].desired
    BY DEF Wanted
  <2>6. v \notin disturbed' => Settles(q, v)
    BY <1>b, <1>i, <2>1, <2>2, <2>3, <2>4, <2>5 DEF Settles, Informed
  <2>. QED
    BY <2>2, <2>3, <2>6 DEF Keeps, Serves
<1>6. ASSUME NEW v \in Workload, DeployNext(q, v) PROVE Goal
  <2>1. /\ req[q].pc = "next" /\ v \in req[q].todo /\ req[q].op = "push"
        /\ req'[q].todo = req[q].todo \ {v} /\ req'[q].at = v /\ req'[q].op = "push" /\ seen' = seen
    BY <1>0, <1>6 DEF DeployNext, Asks, Progress, ReqAt
  <2>2. /\ row'[v].status = "provisioning" /\ row'[v].desired = row[v].desired
        /\ \A w \in Workload \ {v} : row'[w] = row[w]
    BY <1>0, <1>6 DEF DeployNext, Row
  <2>3. Wanted(q, v)' = seen[q][v].desired
    BY <2>1 DEF Wanted
  <2>4. v \notin disturbed' => Settles(q, v)
    BY <1>b, <1>i, <2>1, <2>2, <2>3, <1>6 DEF Settles, Informed, DeployNext
  <2>5. \A w \in Workload \ {v} : Keeps(q, w)
    BY <2>1 DEF Keeps, Serves
  <2>. QED
    BY <2>2, <2>4, <2>5
<1>7. ASSUME DispatchThrows(q) PROVE Goal
  <2>1. PICK v \in Workload : v = req[q].at /\ req[q].pc = "dispatch"
    BY <1>0, <1>7 DEF DispatchThrows, ReqAt, Asks
  <2>2. /\ row' = row /\ seen' = seen /\ req'[q].pc = "mark" /\ req'[q].at = v
        /\ req'[q].todo = req[q].todo
    BY <1>7, <2>1, GoesTo DEF DispatchThrows
  <2>3. v \notin disturbed' => Settles(q, v)
    BY <1>0, <1>b, <2>1, <2>2 DEF Settles, Asks
  <2>4. \A w \in Workload \ {v} : Keeps(q, w)
    BY <2>1, <2>2 DEF Keeps, Serves
  <2>. QED
    BY <2>2, <2>3, <2>4
<1>8. ASSUME MarkNotStarted(q) PROVE Goal
  <2>1. PICK v \in Workload : v = req[q].at /\ req[q].pc = "mark"
    BY <1>0, <1>8 DEF MarkNotStarted, ReqAt, Asks
  <2>2. PICK c : row' = [row EXCEPT ![v].status = "failed", ![v].error = TRUE, ![v].container = c]
    BY <1>8, <2>1 DEF MarkNotStarted
  <2>3. /\ row'[v].status = "failed" /\ \A w \in Workload \ {v} : row'[w] = row[w]
        /\ req'[q].pc = "done" /\ req'[q].todo = {}
    <3>1. row'[v].status = "failed" /\ \A w \in Workload \ {v} : row'[w] = row[w]
      BY <1>0, <2>2 DEF Row
    <3>. QED
      BY <1>8, <3>1, GivesUp DEF MarkNotStarted
  <2>4. v \notin disturbed' => Settles(q, v)
    BY <1>b, <2>1, <2>3 DEF Settles
  <2>. QED
    BY <2>3, <2>4 DEF Keeps, Serves
<1>9. ASSUME RequestFails(q) PROVE Goal
  BY <1>9, GivesUp DEF RequestFails, Keeps, Serves
<1>10. Goal
  BY <1>1, <1>2, <1>3, <1>4, <1>5, <1>6, <1>7, <1>8, <1>9 DEF Asking
<1>11. ASSUME NEW w \in Workload \ disturbed' PROVE Undisturbed(w)'
  <2>0. Undisturbed(w)
    BY <1>0, <1>11 DEF Calm
  <2>1. CASE row'[w] = row[w] /\ Keeps(q, w)
    BY <2>0, <2>1, AskingIsQuiet, QuietIsCalm
  <2>2. CASE Settles(q, w)
    <3>1. UNCHANGED <<wf, attempts, run, docker, staging>> /\ OthersStay(q)
      BY AskingLeaves, AskingAsks
    <3>2. \A p \in Request \ {q} : ~Serves(p, w)' /\ Asks(p)'
      BY <2>2, <3>1 DEF Settles, OthersStay, Serves, Asked
    <3>3. Served(w)'
      BY <2>0, <2>2, <3>1 DEF Settles, Undisturbed, Served, Runs
    <3>. QED
      BY <1>0, <2>2, <3>1, <3>2, <3>3, RequestIsCalm DEF Settles
  <2>. QED
    BY <1>10, <2>1, <2>2
<1>. QED
  BY <1>11 DEF Calm

(* A workflow starts with what its request wants, which is the desired     *)
(* state; where the reply is lost, the workload is disturbed.              *)
LEMMA CalmStarting ==
  ASSUME TypeOK, Asked, Asked', Ordered, Calm, NEW q \in Request, Starting(q)
  PROVE  Calm'
<1>0. /\ req[q].pc = "dispatch" /\ req'[q].at = req[q].at /\ req[q].at \in Workload
      /\ wf' = [wf EXCEPT ![<<q, req[q].at>>] = "scheduled"]
      /\ UNCHANGED <<attempts, run>> /\ OthersStay(q) /\ Asks(q) /\ Asks(q)'
      /\ wf \in [Op -> {"none", "scheduled", "started", "completed", "failed"}]
      /\ payload \in [Op -> Desired]
      /\ \A p \in Request, w \in Workload : <<p, w>> \in Op
  BY StartingAsks DEF TypeOK, Temporal!RetryTypeOK, Op, Asked
<1>1. PICK v \in Workload : v = req[q].at
  BY <1>0
<1>2. /\ payload' = [payload EXCEPT ![<<q, v>>] = Wanted(q, v)]
      /\ UNCHANGED <<row, docker, image, staging>> /\ disturbed \subseteq disturbed'
  BY <1>1 DEF Starting, DispatchAccepted, LoseReply, dockerVars
<1>3. /\ req'[q].todo = req[q].todo /\ v \notin req[q].todo
      /\ req'[q].pc # "done" => seen'[q] = seen[q]
      /\ DispatchAccepted(q) => req'[q].pc \in {"next", "done"}
      /\ LoseReply(q) => v \in disturbed'
  <2>1. CASE DispatchAccepted(q)
    <3>1. ~LoseReply(q) \/ v \in disturbed'
      BY <1>1 DEF LoseReply
    <3>. QED
      BY <1>0, <1>1, <2>1, <3>1, GoesTo, Forgotten DEF DispatchAccepted, AfterDispatch, Asks
  <2>2. CASE LoseReply(q)
    <3>1. DispatchAccepted(q) => req'[q].pc \in {"next", "done"}
      BY GoesTo DEF DispatchAccepted, AfterDispatch
    <3>. QED
      BY <1>0, <1>1, <2>2, <3>1, GoesTo DEF LoseReply, Asks
  <2>. QED
    BY <2>1, <2>2 DEF Starting
<1>4. ASSUME NEW w \in Workload \ {v} PROVE Quiet(w)
  <2>1. Keeps(q, w)
    BY <1>0, <1>1, <1>3 DEF Keeps, Serves
  <2>2. \A p \in Request \ {q} : Keeps(p, w)
    BY <1>0 DEF Keeps, OthersStay, Serves
  <2>3. \A p \in Request : /\ wf'[<<p, w>>] = wf[<<p, w>>]
                           /\ payload'[<<p, w>>] = payload[<<p, w>>]
    BY <1>0, <1>1, <1>2
  <2>. QED
    BY <1>0, <1>2, <2>1, <2>2, <2>3 DEF Quiet
<1>5. ASSUME v \notin disturbed' PROVE Undisturbed(v)'
  <2>0. Undisturbed(v) /\ DispatchAccepted(q)
    BY <1>2, <1>3, <1>5 DEF Calm, Starting
  <2>1. /\ Bare(v) /\ Serves(q, v) /\ \A p \in Request \ {q} : ~Serves(p, v)
    BY <1>0, <1>1, <2>0, BareBefore
  <2>2. ASSUME NEW p \in Request \ {q} PROVE ~Engaged(p, v)' /\ wf'[<<p, v>>] = wf[<<p, v>>]
    <3>1. ~Serves(p, v)'
      BY <1>0, <2>1 DEF OthersStay, Serves
    <3>2. wf'[<<p, v>>] = wf[<<p, v>>]
      BY <1>0, <1>1
    <3>. QED
      BY <1>0, <2>1, <3>1, <3>2 DEF Engaged, Bare, AtWork, Temporal!WorkflowOpen
  <2>3. Alone(v)'
    BY <2>2 DEF Alone
  <2>4. ASSUME NEW p \in Request, NEW k \in Attempt PROVE run'[<<p, v>>][k].pc \notin Working
    BY <1>0, <2>1 DEF Bare
  <2>5. Sole(v)' /\ \A p \in Request, k \in Attempt : Made(<<p, v>>, k)'
    BY <2>4 DEF Sole, Made, Working
  <2>6. Refused(v)'
    BY <1>3, <2>0, <2>2 DEF Refused, Engaged, Serves
  <2>7. Wanted(q, v) = row[v].desired
    BY <1>0, <1>1, <2>0 DEF Undisturbed, Informed
  <2>8. payload'[<<q, v>>] = row'[v].desired
    BY <1>0, <1>2, <2>7
  <2>9. Informed(v)'
    BY <1>0, <1>1, <1>3, <2>0, <2>2, <2>8 DEF Informed, Engaged, Serves, Asked, Asks
  <2>10. Served(v)'
    BY <1>2, <2>0 DEF Undisturbed, Served, Runs
  <2>. QED
    BY <2>3, <2>5, <2>6, <2>9, <2>10 DEF Undisturbed
<1>. QED
  BY <1>2, <1>4, <1>5, QuietIsCalm DEF Calm

-----------------------------------------------------------------------------
(***************************************************************************)
(* Calm, attempt by attempt.                                               *)
(***************************************************************************)
(* Where the attempt of a workflow goes on, other workloads are left alone. *)
LEMMA WorkIsQuiet ==
  ASSUME TypeOK, NEW o \in Op, NEW k \in Attempt, OnlyBy(o, k), UNCHANGED <<req, seen, payload>>,
         \A p \in Op \ {o} : wf'[p] = wf[p] /\ attempts'[p] = attempts[p],
         NEW w \in Workload \ {Of(o)},
         row'[w] = row[w], docker'[w] = docker[w], image'[w] = image[w], staging'[w] = staging[w]
  PROVE  Quiet(w)
<1>1. ASSUME NEW p \in Request
      PROVE  <<p, w>> \in Op \ {o} /\ run'[<<p, w>>] = run[<<p, w>>]
  <2>1. <<p, w>> \in Op \ {o}
    BY DEF Op, Of
  <2>2. run[<<p, w>>] \in [Attempt -> Step] /\ run'[<<p, w>>] \in [Attempt -> Step]
    BY <2>1 DEF TypeOK, OnlyBy, Step
  <2>3. \A i \in Attempt : run'[<<p, w>>][i] = run[<<p, w>>][i]
    BY <2>1 DEF OnlyBy
  <2>. QED
    BY <2>1, <2>2, <2>3
<1>. QED
  BY <1>1 DEF Quiet, Keeps

(* In a calm workload only the attempt that Temporal listens to works, and *)
(* it works on the desired state.                                          *)
LEMMA WorksCurrently ==
  ASSUME Calm, NEW q \in Request, NEW w \in Workload \ disturbed, NEW k \in Attempt,
         run[<<q, w>>][k].pc \in Working
  PROVE  /\ Undisturbed(w) /\ Temporal!Current(<<q, w>>, k) /\ Temporal!WorkflowOpen(<<q, w>>)
         /\ Engaged(q, w) /\ payload[<<q, w>>] = row[w].desired /\ Made(<<q, w>>, k)
BY DEF Calm, Undisturbed, Sole, Informed, Engaged, AtWork, Temporal!Current, Temporal!WorkflowOpen

LEMMA CalmPolling ==
  ASSUME TypeOK, Asked, Asked', Ordered, Calm, NEW o \in Op, PickUp(o) \/ TimeOut(o)
  PROVE  Calm'
<1>0. /\ UNCHANGED <<row, req, seen, payload, docker, image, staging>>
      /\ disturbed \subseteq disturbed'
  BY DEF PickUp, TimeOut, dockerVars
<1>t. /\ wf \in [Op -> {"none", "scheduled", "started", "completed", "failed"}]
      /\ attempts \in [Op -> 0 .. MaxAttempts]
  BY DEF TypeOK, Temporal!RetryTypeOK
<1>1. PICK q \in Request, v \in Workload : o = <<q, v>> /\ Of(o) = v
  BY DEF Op, Of
<1>2. CASE PickUp(o)
  <2>1. PICK k \in Attempt :
          /\ k = attempts[o] + 1 /\ attempts' = [attempts EXCEPT ![o] = k]
          /\ wf[o] = "scheduled" /\ wf' = [wf EXCEPT ![o] = "started"]
          /\ OnlyBy(o, k) /\ run'[o][k].pc = "start"
    BY <1>2, PickedUp
  <2>2. ASSUME NEW w \in Workload \ {v} PROVE Quiet(w)
    BY <1>0, <1>1, <1>t, <2>1, WorkIsQuiet
  <2>3. ASSUME v \notin disturbed PROVE Undisturbed(v)'
    <3>1. Undisturbed(v) /\ Temporal!WorkflowOpen(<<q, v>>) /\ Engaged(q, v)
      BY <1>1, <2>1, <2>3 DEF Calm, Engaged, Temporal!WorkflowOpen
    <3>2. \A i \in Attempt : run[<<q, v>>][i].pc \notin Working
      BY <1>1, <2>1, <3>1 DEF Undisturbed, Sole, Temporal!Current
    <3>3. \A i \in Attempt \ {k} : run'[<<q, v>>][i].pc \notin Working
      BY <1>1, <2>1, <3>2 DEF OnlyBy
    <3>4. Temporal!Current(<<q, v>>, k)' /\ Made(<<q, v>>, k)'
      BY <1>1, <1>t, <2>1 DEF Temporal!Current, Made
    <3>5. Served(v)'
      BY <1>0, <3>1 DEF Undisturbed, Served, Runs
    <3>6. \A p \in Request \ {q} : /\ wf'[<<p, v>>] = wf[<<p, v>>]
                                   /\ \A i \in Attempt : run'[<<p, v>>][i] = run[<<p, v>>][i]
      BY <1>1, <1>t, <2>1 DEF OnlyBy, Op
    <3>. QED
      BY <1>0, <3>1, <3>3, <3>4, <3>5, <3>6, WorkIsCalm
  <2>. QED
    BY <1>0, <2>2, <2>3, QuietIsCalm, <1>2 DEF Calm, PickUp
<1>3. CASE TimeOut(o)
  <2>1. /\ wf[o] = "started" /\ wf' = [wf EXCEPT ![o] = Temporal!RetryOrGiveUp(o)]
        /\ UNCHANGED <<attempts, run>>
        /\ v \in disturbed' \/ run[o][attempts[o]].pc = "over"
    BY <1>1, <1>3 DEF TimeOut, Temporal!Expire, At
  <2>2. ASSUME NEW w \in Workload \ {v} PROVE Quiet(w)
    <3>1. \A p \in Request : wf'[<<p, w>>] = wf[<<p, w>>]
      BY <1>1, <1>t, <2>1 DEF Op
    <3>. QED
      BY <1>0, <2>1, <3>1 DEF Quiet, Keeps
  <2>3. ASSUME v \notin disturbed' PROVE Undisturbed(v)'
    <3>1. Undisturbed(v) /\ Temporal!WorkflowOpen(<<q, v>>) /\ Engaged(q, v)
      BY <1>0, <1>1, <2>1, <2>3 DEF Calm, Engaged, Temporal!WorkflowOpen
    <3>2. \A i \in Attempt : run'[<<q, v>>][i].pc \notin Working
      BY <1>1, <2>1, <2>3, <3>1 DEF Undisturbed, Sole, Temporal!Current, Working
    <3>5. Served(v)'
      BY <1>0, <3>1 DEF Undisturbed, Served, Runs
    <3>6. \A p \in Request \ {q} : /\ wf'[<<p, v>>] = wf[<<p, v>>]
                                   /\ \A i \in Attempt : run'[<<p, v>>][i] = run[<<p, v>>][i]
      BY <1>1, <1>t, <2>1 DEF Op
    <3>. QED
      BY <1>0, <3>1, <3>2, <3>5, <3>6, WorkIsCalm
  <2>. QED
    BY <1>0, <2>2, <2>3, QuietIsCalm DEF Calm
<1>. QED
  BY <1>2, <1>3

(* A row that is marked without becoming available needs no container. *)
LEMMA MarkIsServed ==
  ASSUME TypeOK, NEW v \in Workload, NEW s \in {"provisioning", "failed"}, NEW c \in Container,
         NEW e \in BOOLEAN, Observe(v, s, c, e)
  PROVE  Served(v)' /\ row'[v].status # "available"
<1>1. row'[v].status = s
  BY Observed
<1>. QED
  BY <1>1 DEF Served

(* What the current attempt of a calm workload does: what it makes is for  *)
(* the desired state, and only at the end it calls the workload available. *)
LEMMA StatementMakes ==
  ASSUME TypeOK, NEW o \in Op, NEW k \in Attempt, Statement(o, k), Made(o, k), Served(Of(o)),
         payload[o] = row[Of(o)].desired
  PROVE  Served(Of(o))' /\ Made(o, k)'
<1>. DEFINE v == Of(o)
            Goal == Served(v)' /\ Made(o, k)'
<1>0. /\ v \in Workload /\ row \in [Workload -> Row]
      /\ docker \in [Workload -> [id: Container, runs: Desired]]
      /\ image \in [Workload -> Maybe] /\ staging \in [Workload -> Maybe]
      /\ payload[o] \in Desired /\ run[o][k] \in Step /\ <<o[1], k>> \in Container
      /\ payload' = payload
  BY StatementMoves, Ids DEF TypeOK, Op, Of, Step, temporalVars
<1>c. Config(o)' = Config(o)
  BY <1>0 DEF Config
<1>g. ASSUME NEW pc \in Working, Goto(o, k, pc) PROVE run'[o][k].pc = pc
  BY <1>g, Went
<1>s. ASSUME UNCHANGED <<row, docker, staging>> PROVE Served(v)'
  BY <1>s DEF Served, Runs
<1>u. ASSUME row[v].status # "available", row' = row PROVE Served(v)'
  BY <1>u DEF Served
<1>1. ASSUME ReadObserved(o, k, "start", "mark") \/ ReadObserved(o, k, "fail", "failed") PROVE Goal
  <2>1. PICK s : s \in {"mark", "failed"} /\ run'[o][k].pc = s /\ (s = "failed" => At(o, k, "fail"))
    BY <1>0, <1>1 DEF ReadObserved, TypeOK
  <2>2. UNCHANGED <<row, docker, image, staging>>
    BY <1>1 DEF ReadObserved, dockerVars
  <2>. QED
    BY <1>s, <2>1, <2>2 DEF Made, At
<1>2. ASSUME MarkProvisioning(o, k) PROVE Goal
  <2>1. run'[o][k].pc = "prepare"
    BY <1>2, <1>g DEF MarkProvisioning, Working
  <2>2. Served(v)' /\ row'[v].status # "available"
    BY <1>0, <1>2, MarkIsServed DEF MarkProvisioning, Step
  <2>. QED
    BY <2>1, <2>2 DEF Made
<1>3. ASSUME Prepare(o, k) PROVE Goal
  <2>1. row[v].status # "available" /\ row' = row
    BY <1>3 DEF Prepare, Made, At
  <2>2. /\ run'[o][k].pc \in {"remove", "unpack"}
        /\ run'[o][k].pc = "unpack" => Config(o) \in Bundled
        /\ run'[o][k].pc = "remove" =>
             /\ Config(o) \notin Bundled
             /\ Config(o) \in Built => image'[v] = Config(o)
    <3>1. CASE Config(o) \notin Built \cup Bundled /\ Goto(o, k, "remove")
      BY <1>g, <3>1 DEF Working
    <3>2. CASE /\ Config(o) \in Built /\ Goto(o, k, "remove")
               /\ image' = [image EXCEPT ![v] = Config(o)]
      BY <1>0, <1>g, <3>2, Ids DEF Working
    <3>3. CASE Config(o) \in Bundled /\ Goto(o, k, "unpack")
      BY <1>g, <3>3 DEF Working
    <3>. QED
      BY <1>3, <3>1, <3>2, <3>3 DEF Prepare
  <2>. QED
    BY <1>c, <1>u, <2>1, <2>2 DEF Made
<1>4. ASSUME Unpack(o, k) PROVE Goal
  <2>1. row[v].status # "available" /\ row' = row /\ Config(o) \in Bundled
    BY <1>4 DEF Unpack, Made, At
  <2>2. run'[o][k].pc = "remove" /\ staging'[v] = Config(o)
    BY <1>0, <1>4, <1>g DEF Unpack, Working
  <2>. QED
    BY <1>c, <1>u, <2>1, <2>2, Ids DEF Made
<1>5. ASSUME RemoveContainer(o, k) PROVE Goal
  <2>1. /\ row[v].status # "available" /\ row' = row /\ UNCHANGED <<image, staging>>
        /\ run[o][k].pc = "remove"
    BY <1>5 DEF RemoveContainer, Made, At
  <2>2. run'[o][k].pc = "run"
    BY <1>5, <1>g DEF RemoveContainer, Working
  <2>. QED
    BY <1>c, <1>u, <2>1, <2>2 DEF Made
<1>6. ASSUME RunContainer(o, k) PROVE Goal
  <2>1. /\ row[v].status # "available" /\ row' = row /\ UNCHANGED <<image, staging>>
        /\ run[o][k].pc = "run"
        /\ Config(o) \in Built => image[v] = Config(o)
        /\ Config(o) \in Bundled => staging[v] = Config(o)
    BY <1>6 DEF RunContainer, Made, At
  <2>2. run'[o][k].pc = "port"
    BY <1>6, <1>g DEF RunContainer, Working
  <2>3. [payload[o] EXCEPT !.config = Config(o)] = payload[o]
    BY <1>0 DEF Config, Desired
  <2>4. docker'[v].id = <<o[1], k>> /\ docker'[v].runs = payload[o]
    BY <1>0, <1>6, <2>1, <2>3 DEF RunContainer
  <2>. QED
    BY <1>0, <1>c, <1>u, <2>1, <2>2, <2>4 DEF Made
<1>7. ASSUME ProviderThrows(o, k) PROVE Goal
  <2>1. row[v].status # "available" /\ row' = row
    BY <1>7 DEF ProviderThrows, Made
  <2>2. run'[o][k].pc = "fail"
    BY <1>7, <1>g DEF ProviderThrows, Working
  <2>. QED
    BY <1>u, <2>1, <2>2 DEF Made
<1>8. ASSUME AskPort(o, k) PROVE Goal
  <2>1. /\ row[v].status # "available" /\ UNCHANGED <<row, docker, image, staging>>
        /\ run[o][k].pc = "port"
    BY <1>8 DEF AskPort, Made, At, dockerVars
  <2>2. run'[o][k].pc = "record"
    BY <1>8, <1>g DEF AskPort, Working
  <2>. QED
    BY <1>0, <1>c, <1>u, <2>1, <2>2 DEF Made
<1>9. ASSUME MarkAvailable(o, k) PROVE Goal
  <2>1. /\ docker[v].id = <<o[1], k>> /\ docker[v].runs = payload[o]
        /\ Config(o) \in Bundled => staging[v] = Config(o)
        /\ UNCHANGED <<docker, staging>>
    BY <1>9 DEF MarkAvailable, Made, At, dockerVars
  <2>2. row'[v].container = <<o[1], k>> /\ row'[v].desired = row[v].desired
    BY <1>0, <1>9, Observed DEF MarkAvailable
  <2>3. run'[o][k].pc = "report"
    BY <1>9, <1>g DEF MarkAvailable, Working
  <2>4. [payload[o] EXCEPT !.config = Config(o)] = payload[o]
    BY <1>0 DEF Config, Desired
  <2>5. Runs(v)' = payload[o]
    BY <2>1, <2>4 DEF Runs, Config
  <2>. QED
    BY <2>1, <2>2, <2>3, <2>5 DEF Served, Made
<1>10. ASSUME MarkFailed(o, k) PROVE Goal
  <2>1. run'[o][k].pc = "rethrow"
    BY <1>10, <1>g DEF MarkFailed, Working
  <2>2. Served(v)'
    BY <1>0, <1>10, MarkIsServed DEF MarkFailed, Step
  <2>. QED
    BY <2>1, <2>2 DEF Made
<1>11. ASSUME StatementFails(o, k) PROVE Goal
  <2>1. /\ UNCHANGED <<row, docker, image, staging>>
        /\ \/ run'[o][k].pc = "rethrow"
           \/ run'[o][k].pc = "fail" /\ run[o][k].pc = "record"
    BY <1>11, <1>g DEF StatementFails, At, Working, dockerVars
  <2>. QED
    BY <1>s, <2>1 DEF Made
<1>. QED
  BY <1>1, <1>2, <1>3, <1>4, <1>5, <1>6, <1>7, <1>8, <1>9, <1>10, <1>11 DEF Statement

LEMMA CalmStatement ==
  ASSUME TypeOK, Asked, Asked', Calm, NEW o \in Op, NEW k \in Attempt, Statement(o, k)
  PROVE  Calm'
<1>0. /\ OnlyAt(Of(o)) /\ OnlyBy(o, k) /\ run[o][k].pc \in Working
      /\ UNCHANGED <<req, seen, wf, attempts, payload, disturbed>>
  BY StatementMoves DEF temporalVars
<1>1. PICK q \in Request, v \in Workload : o = <<q, v>> /\ Of(o) = v
  BY DEF Op, Of
<1>2. ASSUME NEW w \in Workload \ {v} PROVE Quiet(w)
  BY <1>0, <1>1, WorkIsQuiet DEF OnlyAt
<1>3. ASSUME v \notin disturbed PROVE Undisturbed(v)'
  <2>1. /\ Undisturbed(v) /\ Temporal!Current(o, k) /\ Temporal!WorkflowOpen(o)
        /\ Engaged(q, v) /\ payload[o] = row[v].desired /\ Made(o, k)
    BY <1>0, <1>1, <1>3, WorksCurrently
  <2>2. Served(v)' /\ Made(o, k)'
    BY <1>1, <2>1, StatementMakes DEF Undisturbed
  <2>3. ASSUME NEW i \in Attempt \ {k} PROVE run'[o][i].pc \notin Working
    <3>1. run[o][i].pc \notin Working
      BY <1>1, <2>1 DEF Undisturbed, Sole, Temporal!Current
    <3>. QED
      BY <1>0, <3>1 DEF OnlyBy
  <2>4. Temporal!Current(o, k)'
    BY <1>0, <2>1 DEF Temporal!Current
  <2>5. \A p \in Request \ {q} : \A i \in Attempt : run'[<<p, v>>][i] = run[<<p, v>>][i]
    BY <1>0, <1>1 DEF OnlyBy, Op
  <2>. QED
    BY <1>0, <1>1, <2>1, <2>2, <2>3, <2>4, <2>5, WorkIsCalm DEF OnlyAt
<1>. QED
  BY <1>0, <1>2, <1>3, QuietIsCalm DEF Calm

LEMMA CalmEnding ==
  ASSUME TypeOK, Asked, Asked', Calm, NEW o \in Op, NEW k \in Attempt, Ending(o, k)
  PROVE  Calm'
<1>0. /\ UNCHANGED <<row, req, seen, payload, docker, image, staging, disturbed>>
  BY DEF Ending, ReportResult, Rethrow, dockerVars
<1>t. wf \in [Op -> {"none", "scheduled", "started", "completed", "failed"}]
  BY DEF TypeOK, Temporal!RetryTypeOK
<1>e. /\ run[o][k].pc \in {"report", "rethrow"}
      /\ OnlyBy(o, k) /\ run'[o][k].pc = "over" /\ attempts' = attempts
      /\ \A p \in Op \ {o} : wf'[p] = wf[p]
  BY <1>t, Ended
<1>1. PICK q \in Request, v \in Workload : o = <<q, v>> /\ Of(o) = v
  BY DEF Op, Of
<1>2. ASSUME NEW w \in Workload \ {v} PROVE Quiet(w)
  BY <1>0, <1>1, <1>e, WorkIsQuiet
<1>3. ASSUME v \notin disturbed PROVE Undisturbed(v)'
  <2>1. /\ Undisturbed(v) /\ Temporal!Current(o, k) /\ Temporal!WorkflowOpen(o) /\ Engaged(q, v)
    BY <1>1, <1>3, <1>e, WorksCurrently DEF Working
  <2>2. Served(v)'
    BY <1>0, <2>1 DEF Undisturbed, Served, Runs
  <2>3. ASSUME NEW i \in Attempt PROVE run'[o][i].pc \notin Working
    <3>1. i # k => run[o][i].pc \notin Working
      BY <1>1, <2>1 DEF Undisturbed, Sole, Temporal!Current
    <3>. QED
      BY <1>e, <3>1 DEF OnlyBy, Working
  <2>4. \A p \in Request \ {q} : /\ wf'[<<p, v>>] = wf[<<p, v>>]
                                 /\ \A i \in Attempt : run'[<<p, v>>][i] = run[<<p, v>>][i]
    BY <1>1, <1>e DEF OnlyBy, Op
  <2>. QED
    BY <1>0, <1>1, <2>1, <2>2, <2>3, <2>4, WorkIsCalm
<1>. QED
  BY <1>0, <1>2, <1>3, QuietIsCalm DEF Calm

(* A crash ends what it hits; nothing that is made changes. *)
LEMMA CalmCrash ==
  ASSUME TypeOK, Asked, Asked', Calm, ApiCrash \/ WorkerCrash
  PROVE  Calm'
<1>1. CASE ApiCrash
  <2>1. /\ UNCHANGED <<row, wf, attempts, payload, run, docker, image, staging, disturbed>> /\ Forget
    BY <1>1 DEF ApiCrash, temporalVars, dockerVars
  <2>2. ASSUME NEW q \in Request, NEW w \in Workload PROVE Keeps(q, w)
    BY <1>1, <2>1, ApiCrashed, Forgotten DEF Keeps, Serves
  <2>. QED
    BY <2>1, <2>2, QuietIsCalm DEF Calm, Quiet
<1>2. CASE WorkerCrash
  <2>1. /\ UNCHANGED <<row, req, seen, wf, attempts, payload, docker, image, staging, disturbed>>
        /\ \A o \in Op, k \in Attempt : run'[o][k].pc \in {"idle", "over"}
    BY <1>2 DEF WorkerCrash, At, temporalVars, dockerVars
  <2>2. ASSUME NEW w \in Workload, Undisturbed(w) PROVE Undisturbed(w)'
    <3>1. ASSUME NEW q \in Request, NEW k \in Attempt PROVE run'[<<q, w>>][k].pc \in {"idle", "over"}
      BY <2>1 DEF Op
    <3>2. \A q \in Request : Engaged(q, w)' => Engaged(q, w)
      BY <2>1, <3>1 DEF Engaged, Serves, AtWork, Working, Temporal!WorkflowOpen
    <3>3. Alone(w)'
      BY <2>2, <3>2 DEF Undisturbed, Alone
    <3>4. Sole(w)' /\ \A q \in Request, k \in Attempt : Made(<<q, w>>, k)'
      BY <3>1 DEF Sole, Made, Working
    <3>5. Refused(w)' /\ Informed(w)' /\ Served(w)'
      BY <2>1, <2>2 DEF Undisturbed, Refused, Informed, Served, Wanted, Runs, Temporal!WorkflowOpen
    <3>. QED
      BY <3>3, <3>4, <3>5 DEF Undisturbed
  <2>. QED
    BY <2>1, <2>2 DEF Calm
<1>. QED
  BY <1>1, <1>2

(* What is undisturbed stays deployed as desired over every step. *)
LEMMA CalmStep ==
  ASSUME TypeOK, Asked, Asked', Ordered, Calm, [Next]_vars
  PROVE  Calm'
<1>1. CASE UNCHANGED vars
  <2>1. ASSUME NEW w \in Workload PROVE Quiet(w)
    BY <1>1 DEF vars, Quiet, Keeps
  <2>. QED
    BY <1>1, <2>1, QuietIsCalm DEF Calm, vars
<1>. QED
  BY <1>1, Steps, CalmAsking, CalmStarting, CalmPolling, CalmStatement, CalmEnding, CalmCrash

-----------------------------------------------------------------------------
(***************************************************************************)
(* The theorems.                                                           *)
(***************************************************************************)
LEMMA Beginning == Init => IInv
<1>. SUFFICES ASSUME Init PROVE IInv
  OBVIOUS
<1>1. /\ \A q \in Request : req[q].pc = "idle" /\ req[q].todo = {} /\ req[q].at = None
      /\ \A o \in Op : wf[o] = "none" /\ attempts[o] = 0
      /\ \A o \in Op, k \in Attempt : run[o][k].pc = "idle"
  BY DEF Init, Idle, Temporal!RetryInit
<1>2. \A q \in Request, w \in Workload : <<q, w>> \in Op
  BY DEF Op
<1>3. Asked
  BY <1>1 DEF Asked, Asks
<1>4. Ordered
  BY <1>1, <1>2 DEF Ordered, InOrder
<1>5. ASSUME NEW w \in Workload
      PROVE  IF w \in Deployed
             THEN /\ row[w] = FirstRow /\ docker[w].id = <<First, 1>>
                  /\ docker[w].runs = FirstRow.desired
                  /\ staging[w] = IF First \in Bundled THEN First ELSE None
             ELSE row[w].status = "absent"
  BY <1>5 DEF Init, NewRow
<1>6. /\ FirstRow.status = "available" /\ FirstRow.container = <<First, 1>>
      /\ FirstRow.desired = [config |-> First, env |-> First, domains |-> None]
  BY DEF FirstRow, NewRow
<1>7. Watched
  BY <1>5, <1>6 DEF Watched
<1>8. ASSUME NEW w \in Workload PROVE Undisturbed(w)
  <2>1. Served(w)
    <3>1. CASE w \in Deployed
      <4>1. [FirstRow.desired EXCEPT !.config = First] = FirstRow.desired /\ FirstRow.desired.config = First
        BY <1>6
      <4>. QED
        BY <1>5, <1>6, <3>1, <4>1 DEF Served, Runs
    <3>2. CASE w \notin Deployed
      BY <1>5, <3>2 DEF Served
    <3>. QED
      BY <3>1, <3>2
  <2>2. \A q \in Request : ~Engaged(q, w)
    BY <1>1, <1>2 DEF Engaged, Serves, AtWork, Working, Temporal!WorkflowOpen
  <2>. QED
    BY <1>1, <1>2, <2>1, <2>2
    DEF Undisturbed, Alone, Sole, Refused, Informed, Made, Engaged, Working, Temporal!WorkflowOpen
<1>. QED
  BY <1>3, <1>4, <1>7, <1>8, TypeInit DEF IInv, Calm

(* The inductive invariant holds of every state. *)
THEOREM IInvHolds == Spec => []IInv
<1>1. IInv /\ [Next]_vars => IInv'
  BY TypeStep, AskedStep, OrderedStep, WatchedStep, CalmStep DEF IInv
<1>. QED
  BY <1>1, Beginning, PTL DEF Spec

(* Rows, requests, workflows and attempts keep their types.                *)
THEOREM TypeCorrect == Spec => []TypeOK
BY IInvHolds, PTL DEF IInv

(* Only where something is under way, or where a request or an attempt     *)
(* that had the mark to make was lost, a workload is marked requested or   *)
(* provisioning: startWorkloadProvisioning and the catch of                *)
(* provisionWorkloadActivity leave none behind.                            *)
THEOREM MarksAreTakenAway == Spec => []ProvisioningIsUnderWay
<1>1. IInv => ProvisioningIsUnderWay
  BY DEF IInv, Watched, Watches, Retrying, Marking, ProvisioningIsUnderWay, UnderWay, Engaged,
         Serves, AtWork, Temporal!WorkflowOpen
<1>. QED
  BY <1>1, IInvHolds, PTL

(* A workload that is available and undisturbed has the container that its *)
(* row names, which runs what is desired, whatever failed, was retried or  *)
(* crashed on the way.                                                     *)
THEOREM AvailableWorkloadsAreDeployed == Spec => []AvailableIsDeployed
<1>1. IInv => AvailableIsDeployed
  BY DEF IInv, Calm, Undisturbed, Served, AvailableIsDeployed
<1>. QED
  BY <1>1, IInvHolds, PTL

-----------------------------------------------------------------------------
(***************************************************************************)
(* The form of a workload.                                                 *)
(***************************************************************************)

(* What the page may send. *)
Payloads == {Page!Payload(f) : f \in Page!Form} \ {Page!NoConfig}

(* A version of the row stands for one content of it. *)
Known(data) ==
  /\ data.version \in Nat /\ data.version <= stored.version
  /\ data.version = stored.version => data = stored

(* The row with which PATCH config answers. *)
Answered ==
  [config |-> call["config"].config, status |-> "draft", version |-> call["config"].version]

PageKnows ==
  /\ stored.version \in Nat
  /\ Known(cached)
  /\ fetch.step = "read" => Known(fetch.data)
  /\ call["config"].step = "patched" => Known(Answered)

PageShows ==
  /\ form \in Page!Form
  /\ ~touched => form = Page!Filled(cached.config, form)

(* What was saved is in the row, and a payload. *)
PageSaved ==
  /\ saved # Page!NoConfig => saved \in Payloads /\ stored.config = saved
  /\ call["config"].step = "patch" => call["config"].config \in Payloads

(* What was clicked is what the call has sent, and not yet replaced. *)
PageClicked ==
  /\ clicked # Page!NoConfig =>
       /\ call["config"].step # "idle"
       /\ call["config"].config = clicked /\ call["config"].deploy
       /\ call["config"].step \in {"patched", "deploy", "deployed"} => stored.config = clicked
  /\ Page!DeployedIsClicked

PageInv == Page!TypeOK /\ PageKnows /\ PageShows /\ PageSaved /\ PageClicked

LEMMA Kinds ==
  /\ Blank \notin Page!Mode /\ Blank \notin {"container", "function"}
  /\ Page!NoSource \in Page!Source /\ Page!NoConfig \in Page!Config
  /\ Page!NoConfig.kind = Blank
BY PageAssumption DEF Page!Mode, Page!NoSource, Page!Source, Page!NoConfig, Page!Config, Page!Words

(* Which of its sources a form is about. *)
Chosen(f) == IF f.kind = "container" THEN f.containerSource ELSE f.functionSource

Base(f) == [Page!NoConfig EXCEPT !.kind = f.kind, !.env = f.env]

ChosenSource(f) == [type |-> Chosen(f), at |-> f.at[Chosen(f)]]

(* Payload, case by case. *)
LEMMA PayloadCases ==
  ASSUME NEW f
  PROVE  /\ f.at[Chosen(f)] = Blank => Page!Payload(f) = Page!NoConfig
         /\ f.at[Chosen(f)] # Blank /\ f.kind = "function" =>
              Page!Payload(f) = [Base(f) EXCEPT !.source = ChosenSource(f)]
         /\ f.at[Chosen(f)] # Blank /\ f.kind # "function" /\ Chosen(f) = "image" =>
              Page!Payload(f) = [Base(f) EXCEPT !.image = f.at[Chosen(f)]]
         /\ f.at[Chosen(f)] # Blank /\ f.kind # "function" /\ Chosen(f) # "image" =>
              Page!Payload(f) = [Base(f) EXCEPT !.build = ChosenSource(f)]
BY DEF Page!Payload, Chosen, Base, ChosenSource

(* A form becomes a configuration, *)
LEMMA PayloadType ==
  ASSUME NEW f \in Page!Form
  PROVE  /\ Page!Payload(f) \in Page!Config
         /\ Page!Payload(f) # Page!NoConfig => Page!Payload(f).kind = f.kind
<1> DEFINE mode == IF f.kind = "container" THEN f.containerSource ELSE f.functionSource
<1>1. /\ mode \in Page!Mode /\ f.at[mode] \in Page!Words /\ f.env \in Page!Words
      /\ f.kind \in {"container", "function"}
  BY DEF Page!Form, Page!ContainerMode
<1> DEFINE base == [Page!NoConfig EXCEPT !.kind = f.kind, !.env = f.env]
<1> DEFINE source == [type |-> mode, at |-> f.at[mode]]
<1>2. base \in Page!Config /\ base.kind = f.kind
  BY <1>1, Kinds DEF Page!NoConfig, Page!Config
<1>3. source \in Page!Source
  BY <1>1 DEF Page!Source
<1>4. Page!Payload(f) \in
        {Page!NoConfig, [base EXCEPT !.source = source], [base EXCEPT !.image = f.at[mode]],
         [base EXCEPT !.build = source]}
  BY DEF Page!Payload
<1> HIDE DEF base, source, mode
<1>5. QED
  BY <1>1, <1>2, <1>3, <1>4, Kinds DEF Page!Config

(* and the effect fills the form with fields of the configuration, *)
LEMMA FilledType ==
  ASSUME NEW c \in Page!Config, NEW f \in Page!Form
  PROVE  /\ Page!Filled(c, f) \in Page!Form
         /\ Page!Filled(c, Page!Filled(c, f)) = Page!Filled(c, f)
<1>1. /\ c.kind \in {"container", "function", Blank} /\ f.kind \in {"container", "function"}
      /\ c.image \in Page!Words /\ c.env \in Page!Words
      /\ c.build \in Page!Source /\ c.source \in Page!Source
  BY DEF Page!Config, Page!Form
<1>2. /\ c.build.at \in Page!Words /\ c.source.at \in Page!Words
      /\ c.source.type \in Page!Mode \cup {Blank}
  BY <1>1 DEF Page!Source
<1>3. Page!Filled(c, f) \in Page!Form
  BY <1>1, <1>2, Kinds DEF Page!Filled, Page!Form, Page!Mode, Page!ContainerMode, Page!Words
<1>4. Page!Filled(c, Page!Filled(c, f)) = Page!Filled(c, f)
  BY <1>1, Kinds DEF Page!Filled
<1>5. QED
  BY <1>3, <1>4

(* so that what was sent comes back. *)
LEMMA PayloadComesBack ==
  ASSUME NEW c \in Payloads, NEW f \in Page!Form
  PROVE  Page!Payload(Page!Filled(c, f)) = c
<1>1. PICK g \in Page!Form : c = Page!Payload(g) /\ c # Page!NoConfig
  BY DEF Payloads
<1> DEFINE h == Page!Filled(c, f)
<1> SUFFICES Page!Payload(h) = c
  OBVIOUS
<1>2. /\ Chosen(g) \in Page!Mode /\ g.kind \in {"container", "function"}
      /\ g.kind = "container" => Chosen(g) \in Page!ContainerMode
  BY DEF Page!Form, Page!ContainerMode, Chosen
<1>3. g.at[Chosen(g)] # Blank
  BY <1>1, PayloadCases
<1>4. ASSUME h.kind = g.kind, h.env = g.env, Chosen(h) = Chosen(g),
             h.at[Chosen(g)] = g.at[Chosen(g)]
      PROVE  Page!Payload(h) = Page!Payload(g)
  <2>1. Base(h) = Base(g) /\ ChosenSource(h) = ChosenSource(g)
    BY <1>4 DEF Base, ChosenSource
  <2> HIDE DEF h
  <2>2. QED
    BY <2>1, <1>2, <1>3, <1>4, PayloadCases
<1>5. /\ h.kind = (IF c.kind = Blank THEN f.kind ELSE c.kind) /\ h.env = c.env
      /\ h.containerSource =
           (IF c.image = Blank /\ c.build.type \in {"git", "gitProvider"} THEN c.build.type ELSE "image")
      /\ h.functionSource = (IF c.source.type = Blank THEN "gitProvider" ELSE c.source.type)
  BY DEF Page!Filled
<1>6. ASSUME NEW m \in Page!Mode
      PROVE  h.at[m] = (IF m = "image" /\ c.image # Blank THEN c.image
                        ELSE IF c.build.type = m THEN c.build.at
                        ELSE IF c.source.type = m THEN c.source.at ELSE Blank)
  BY DEF Page!Filled
<1> HIDE DEF h
<1>7. CASE g.kind = "function"
  <2>1. c = [Base(g) EXCEPT !.source = ChosenSource(g)]
    BY <1>1, <1>3, <1>7, PayloadCases
  <2>2. /\ c.kind = "function" /\ c.image = Blank /\ c.build.type = Blank
        /\ c.source = ChosenSource(g) /\ c.env = g.env
    BY <2>1, <1>7 DEF Page!NoConfig, Page!NoSource, Base
  <2>3. c.source.type = Chosen(g) /\ c.source.at = g.at[Chosen(g)]
    BY <2>2 DEF ChosenSource
  <2>4. h.kind = "function" /\ h.env = g.env /\ h.functionSource = Chosen(g)
    BY <2>2, <2>3, <1>2, <1>5, Kinds
  <2>5. h.at[Chosen(g)] = g.at[Chosen(g)]
    BY <2>2, <2>3, <1>2, <1>6, Kinds
  <2>6. Chosen(h) = Chosen(g)
    BY <2>4, <1>7 DEF Chosen
  <2>7. QED
    BY <2>4, <2>5, <2>6, <1>1, <1>4, <1>7
<1>8. CASE g.kind = "container" /\ Chosen(g) = "image"
  <2>1. c = [Base(g) EXCEPT !.image = g.at[Chosen(g)]]
    BY <1>1, <1>3, <1>8, PayloadCases
  <2>2. c.kind = "container" /\ c.image = g.at[Chosen(g)] /\ c.env = g.env
    BY <2>1, <1>8 DEF Page!NoConfig, Base
  <2>3. h.kind = "container" /\ h.env = g.env /\ h.containerSource = "image"
    BY <2>2, <1>3, <1>5, Kinds
  <2>4. h.at[Chosen(g)] = g.at[Chosen(g)]
    BY <2>2, <1>2, <1>3, <1>6, <1>8
  <2>5. Chosen(h) = Chosen(g)
    BY <2>3, <1>8 DEF Chosen
  <2>6. QED
    BY <2>3, <2>4, <2>5, <1>1, <1>4, <1>8
<1>9. CASE g.kind = "container" /\ Chosen(g) # "image"
  <2>1. c = [Base(g) EXCEPT !.build = ChosenSource(g)]
    BY <1>1, <1>3, <1>9, PayloadCases
  <2>2. /\ c.kind = "container" /\ c.image = Blank /\ c.build = ChosenSource(g) /\ c.env = g.env
    BY <2>1, <1>9 DEF Page!NoConfig, Base
  <2>3. c.build.type = Chosen(g) /\ c.build.at = g.at[Chosen(g)]
    BY <2>2 DEF ChosenSource
  <2>4. Chosen(g) \in {"git", "gitProvider"}
    BY <1>2, <1>9 DEF Page!Mode, Page!ContainerMode
  <2>5. h.kind = "container" /\ h.env = g.env /\ h.containerSource = Chosen(g)
    BY <2>2, <2>3, <2>4, <1>5, Kinds
  <2>6. h.at[Chosen(g)] = g.at[Chosen(g)]
    BY <2>2, <2>3, <1>2, <1>6, <1>9
  <2>7. Chosen(h) = Chosen(g)
    BY <2>5, <1>9 DEF Chosen
  <2>8. QED
    BY <2>5, <2>6, <2>7, <1>1, <1>4, <1>9
<1>10. QED
  BY <1>2, <1>7, <1>8, <1>9

(* New data comes into the cache, and into the form. *)
LEMMA Shown ==
  ASSUME Page!TypeOK, PageShows, NEW data \in Page!WorkloadRow, Page!Show(data)
  PROVE  cached' = data /\ touched' \in BOOLEAN /\ PageShows'
<1>1. data.config \in Page!Config /\ form \in Page!Form /\ touched \in BOOLEAN
  BY DEF Page!WorkloadRow, Page!TypeOK
<1>2. CASE data = cached
  BY <1>1, <1>2 DEF Page!Show, PageShows
<1>3. CASE data # cached
  <2>1. form' = Page!Filled(data.config, form) /\ cached' = data /\ touched' = FALSE
    BY <1>3 DEF Page!Show
  <2>2. form' \in Page!Form /\ Page!Filled(data.config, form') = form'
    BY <1>1, <2>1, FilledType
  <2>3. QED
    BY <2>1, <2>2 DEF PageShows
<1>4. QED
  BY <1>2, <1>3

(* The steps of the cache, of the page, of the requests and of others. *)
Caching == Page!StartFetch \/ Page!ReadRow \/ Page!EndFetch
Typing == \E f \in Page!OneField : Page!Edit(f)
Clicking == Page!ClickRebuild \/ \E deploy \in BOOLEAN : Page!ClickSave(deploy)
Deploying == \E b \in Page!Button : Page!DeployArrives(b) \/ Page!DeployReturns(b) \/ Page!CallFails(b)
Elsewhere == Page!WorkerMarks \/ \E c \in Page!Others : Page!OtherSaves(c)

LEMMA PageSteps ==
  Page!Next <=> Caching \/ Typing \/ Clicking \/ Page!PatchArrives \/ Page!PatchReturns
                \/ Deploying \/ Elsewhere
BY DEF Page!Next, Caching, Typing, Clicking, Deploying, Elsewhere

(* Calls keep their type. *)
Call == [step : {"idle", "patch", "patched", "deploy", "deployed"},
         config : Page!Config, deploy : BOOLEAN, version : Nat]

LEMMA CallWritten ==
  ASSUME Page!TypeOK, NEW b \in Page!Button, NEW c \in Call, call' = [call EXCEPT ![b] = c]
  PROVE  /\ call' \in [Page!Button -> Call] /\ call'[b] = c
         /\ \A o \in Page!Button \ {b} : call'[o] = call[o]
BY DEF Page!TypeOK, Call

LEMMA CallStepped ==
  ASSUME Page!TypeOK, NEW b \in Page!Button,
         NEW s \in {"idle", "patch", "patched", "deploy", "deployed"},
         call' = [call EXCEPT ![b].step = s]
  PROVE  /\ call' \in [Page!Button -> Call]
         /\ call'[b] = [call[b] EXCEPT !.step = s] /\ call'[b].step = s
         /\ call'[b].config = call[b].config /\ call'[b].deploy = call[b].deploy
         /\ call'[b].version = call[b].version
         /\ \A o \in Page!Button \ {b} : call'[o] = call[o]
BY DEF Page!TypeOK, Call

LEMMA RestIsCall == Page!NotBusy \in Call /\ Page!NotBusy.step = "idle"
BY Kinds DEF Page!NotBusy, Call

LEMMA TypedCaching == ASSUME PageInv, Caching PROVE Page!TypeOK'
<1>1. CASE Page!StartFetch
  BY <1>1 DEF PageInv, Page!TypeOK, Page!StartFetch, Page!counters
<1>2. CASE Page!ReadRow
  BY <1>2 DEF PageInv, Page!TypeOK, Page!ReadRow, Page!counters
<1>3. CASE Page!EndFetch
  <2>1. fetch.data \in Page!WorkloadRow
    BY <1>3 DEF PageInv, Page!TypeOK, Page!EndFetch
  <2>2. cached' = fetch.data /\ touched' \in BOOLEAN /\ form' \in Page!Form
    BY <2>1, <1>3, Shown DEF PageInv, Page!EndFetch, PageShows
  <2>3. QED
    BY <1>3, <2>1, <2>2 DEF PageInv, Page!TypeOK, Page!EndFetch, Page!counters
<1>4. QED
  BY <1>1, <1>2, <1>3 DEF Caching

LEMMA TypedTyping == ASSUME PageInv, Typing PROVE Page!TypeOK'
<1>1. PICK f \in Page!OneField : Page!Edit(f)
  BY DEF Typing
<1>2. f \in Page!Form
  <2>1. form \in Page!Form
    BY DEF PageInv, Page!TypeOK
  <2>2. QED
    BY <2>1 DEF Page!OneField, Page!Form
<1>3. QED
  BY <1>1, <1>2, BoundsAssumption DEF PageInv, Page!TypeOK, Page!Edit

LEMMA TypedClicking == ASSUME PageInv, Clicking PROVE Page!TypeOK'
<1>1. CASE Page!ClickRebuild
  <2>1. call' \in [Page!Button -> Call]
    BY <1>1, CallStepped DEF PageInv, Page!ClickRebuild, Page!Button
  <2>2. QED
    BY <2>1, <1>1, BoundsAssumption DEF PageInv, Page!TypeOK, Page!ClickRebuild, Call
<1>2. ASSUME NEW deploy \in BOOLEAN, Page!ClickSave(deploy) PROVE Page!TypeOK'
  <2> DEFINE sent == Page!Payload(form)
             c == [Page!NotBusy EXCEPT !.step = "patch", !.config = sent, !.deploy = deploy]
  <2>1. sent \in Page!Config
    BY PayloadType DEF PageInv, Page!TypeOK
  <2>2. c \in Call
    BY <2>1, RestIsCall DEF Call
  <2>3. call' \in [Page!Button -> Call]
    BY <2>2, <1>2, CallWritten DEF PageInv, Page!ClickSave, Page!Button
  <2> HIDE DEF sent, c
  <2>4. clicked' \in Page!Config
    BY <2>1, <1>2, Kinds DEF Page!ClickSave, sent
  <2>5. QED
    BY <2>3, <2>4, <1>2, BoundsAssumption DEF PageInv, Page!TypeOK, Page!ClickSave, Call
<1>3. QED
  BY <1>1, <1>2 DEF Clicking

(* The row is written: another version. *)
LEMMA RowType ==
  ASSUME Page!TypeOK
  PROVE  /\ stored.config \in Page!Config /\ stored.status \in Page!Status /\ stored.version \in Nat
         /\ stored = [config |-> stored.config, status |-> stored.status, version |-> stored.version]
         /\ \A b \in Page!Button : call[b] \in Call
BY DEF Page!TypeOK, Page!WorkloadRow, Call

LEMMA RowMarked ==
  ASSUME NEW r \in Page!WorkloadRow, NEW s \in Page!Status, NEW c \in Page!Config, NEW n \in Nat
  PROVE  /\ [r EXCEPT !.status = s, !.version = n] \in Page!WorkloadRow
         /\ [r EXCEPT !.config = c, !.status = s, !.version = n] \in Page!WorkloadRow
BY DEF Page!WorkloadRow

LEMMA CallAnswered ==
  ASSUME NEW c \in Call, NEW n \in Nat
  PROVE  [c EXCEPT !.step = "patched", !.version = n] \in Call
BY DEF Call

LEMMA TypedArrives == ASSUME PageInv, Page!PatchArrives PROVE Page!TypeOK'
<1> DEFINE old == call["config"]
           r == [config |-> old.config, status |-> "draft", version |-> stored.version + 1]
           c == [old EXCEPT !.step = "patched", !.version = stored.version + 1]
<1>1. old \in Call /\ stored.version \in Nat /\ "config" \in Page!Button
  BY RowType DEF PageInv, Page!Button
<1>2. stored' = r /\ stored'.version = stored.version + 1
  BY DEF Page!PatchArrives
<1>3. r \in Page!WorkloadRow /\ old.config \in Page!Config
  BY <1>1 DEF Page!WorkloadRow, Page!Status, Call
<1>4. call' = [call EXCEPT !["config"] = c]
  <2>1. call \in [Page!Button -> Call]
    BY DEF PageInv, Page!TypeOK, Call
  <2>2. QED
    BY <2>1, <1>1, <1>2 DEF Page!PatchArrives
<1>5. c \in Call
  <2>1. stored.version + 1 \in Nat
    BY <1>1
  <2>2. QED
    BY <2>1, <1>1, CallAnswered
<1>6. call' \in [Page!Button -> Call]
  BY <1>1, <1>4, <1>5, CallWritten DEF PageInv
<1>7. saved' = old.config
  BY DEF Page!PatchArrives
<1> HIDE DEF r, c
<1>8. QED
  BY <1>2, <1>3, <1>6, <1>7 DEF PageInv, Page!TypeOK, Page!PatchArrives, Page!counters, Call

LEMMA AnswerType == ASSUME PageInv PROVE Answered \in Page!WorkloadRow
BY RowType DEF PageInv, Answered, Page!WorkloadRow, Page!Status, Call, Page!Button

LEMMA TypedReturns == ASSUME PageInv, Page!PatchReturns PROVE Page!TypeOK'
<1> DEFINE old == call["config"]
           c == IF old.deploy THEN [old EXCEPT !.step = "deploy"] ELSE Page!NotBusy
<1>1. cached' = Answered /\ touched' \in BOOLEAN /\ form' \in Page!Form
  BY AnswerType, Shown DEF PageInv, Page!PatchReturns, Answered, PageShows
<1>2. old \in Call /\ "config" \in Page!Button
  BY RowType DEF PageInv, Page!Button
<1>3. c \in Call
  BY <1>2, RestIsCall DEF Call
<1>4. call' = [call EXCEPT !["config"] = c]
  BY DEF Page!PatchReturns
<1>5. call' \in [Page!Button -> Call]
  BY <1>2, <1>3, <1>4, CallWritten DEF PageInv
<1> HIDE DEF c
<1>6. QED
  BY <1>1, <1>5, AnswerType DEF PageInv, Page!TypeOK, Page!PatchReturns, Page!Invalidate, Page!counters, Call

LEMMA TypedDeploying == ASSUME PageInv, Deploying PROVE Page!TypeOK'
<1>1. ASSUME NEW b \in Page!Button, Page!DeployArrives(b) PROVE Page!TypeOK'
  <2>1. call' \in [Page!Button -> Call]
    BY <1>1, CallStepped DEF PageInv, Page!DeployArrives
  <2>2. stored' \in Page!WorkloadRow /\ stored.config \in Page!Config
    <3>1. /\ stored \in Page!WorkloadRow /\ stored.version + 1 \in Nat /\ stored.config \in Page!Config
          /\ "provisioning" \in Page!Status
      BY RowType DEF PageInv, Page!TypeOK, Page!Status
    <3>2. stored' = [stored EXCEPT !.status = "provisioning", !.version = stored.version + 1]
      BY <1>1, <3>1 DEF Page!DeployArrives, Page!WorkloadRow
    <3>3. QED
      BY <3>1, <3>2, RowMarked
  <2>3. worker' \in Seq(Page!Status)
    BY <1>1 DEF PageInv, Page!TypeOK, Page!DeployArrives, Page!Status
  <2>4. QED
    BY <1>1, <2>1, <2>2, <2>3 DEF PageInv, Page!TypeOK, Page!DeployArrives, Page!counters, Call
<1>2. ASSUME NEW b \in Page!Button, Page!DeployReturns(b) PROVE Page!TypeOK'
  <2>1. call' \in [Page!Button -> Call]
    BY <1>2, RestIsCall, CallWritten DEF PageInv, Page!DeployReturns
  <2>2. clicked' \in Page!Config
    BY <1>2, Kinds DEF PageInv, Page!TypeOK, Page!DeployReturns
  <2>3. QED
    BY <1>2, <2>1, <2>2 DEF PageInv, Page!TypeOK, Page!DeployReturns, Page!Invalidate, Page!counters, Call
<1>3. ASSUME NEW b \in Page!Button, Page!CallFails(b) PROVE Page!TypeOK'
  <2>1. call' \in [Page!Button -> Call]
    BY <1>3, RestIsCall, CallWritten DEF PageInv, Page!CallFails
  <2>2. clicked' \in Page!Config
    BY <1>3, Kinds DEF PageInv, Page!TypeOK, Page!CallFails
  <2>3. QED
    BY <1>3, <2>1, <2>2 DEF PageInv, Page!TypeOK, Page!CallFails, Page!counters, Call
<1>4. QED
  BY <1>1, <1>2, <1>3 DEF Deploying

LEMMA TypedElsewhere == ASSUME PageInv, Elsewhere PROVE Page!TypeOK'
<1>1. CASE Page!WorkerMarks
  <2>1. Head(worker) \in Page!Status /\ Tail(worker) \in Seq(Page!Status)
    BY <1>1 DEF PageInv, Page!TypeOK, Page!WorkerMarks
  <2>2. stored' \in Page!WorkloadRow
    <3>1. /\ stored \in Page!WorkloadRow /\ stored.version + 1 \in Nat /\ stored.config \in Page!Config
      BY RowType DEF PageInv, Page!TypeOK
    <3>2. stored' = [stored EXCEPT !.status = Head(worker), !.version = stored.version + 1]
      BY <1>1, <3>1 DEF Page!WorkerMarks, Page!WorkloadRow
    <3>3. QED
      BY <2>1, <3>1, <3>2, RowMarked
  <2>3. QED
    BY <1>1, <2>1, <2>2 DEF PageInv, Page!TypeOK, Page!WorkerMarks, Page!counters
<1>2. ASSUME NEW c \in Page!Others, Page!OtherSaves(c) PROVE Page!TypeOK'
  <2>1. c \in Page!Config
    BY Kinds DEF Page!Others, Page!Config, Page!Words
  <2>2. stored' \in Page!WorkloadRow
    <3>1. /\ stored \in Page!WorkloadRow /\ stored.version + 1 \in Nat /\ "draft" \in Page!Status
      BY RowType DEF PageInv, Page!TypeOK, Page!Status
    <3>2. stored' = [stored EXCEPT !.config = c, !.status = "draft", !.version = stored.version + 1]
      BY <1>2, <3>1 DEF Page!OtherSaves, Page!WorkloadRow
    <3>3. QED
      BY <2>1, <3>1, <3>2, RowMarked
  <2>3. QED
    BY <1>2, <2>2, Kinds, BoundsAssumption DEF PageInv, Page!TypeOK, Page!OtherSaves
<1>3. QED
  BY <1>1, <1>2 DEF Elsewhere

(* The types of the page are kept by every step. *)
LEMMA PageTypeStep == ASSUME PageInv, [Page!Next]_(Page!vars) PROVE Page!TypeOK'
<1>1. CASE UNCHANGED Page!vars
  BY <1>1 DEF PageInv, Page!TypeOK, Page!vars, Page!counters
<1>2. CASE Page!Next
  BY <1>2, PageSteps, TypedCaching, TypedTyping, TypedClicking, TypedArrives, TypedReturns,
     TypedDeploying, TypedElsewhere
<1>3. QED
  BY <1>1, <1>2

(* What is known of a row stays known when the row gets another version.   *)
LEMMA OlderIsKnown ==
  ASSUME NEW data, Known(data), NEW now \in Page!WorkloadRow, stored.version \in Nat,
         now.version = stored.version + 1
  PROVE  /\ data.version \in Nat /\ data.version <= now.version
         /\ data.version = now.version => data = now
BY DEF Known

(* How a step changes the row, and what stays of a call. *)
LEMMA RowAdvances ==
  ASSUME PageInv, Page!PatchArrives \/ Elsewhere \/ \E b \in Page!Button : Page!DeployArrives(b)
  PROVE  /\ stored'.version = stored.version + 1 /\ cached' = cached /\ fetch' = fetch
         /\ form' = form /\ touched' = touched
<1>1. stored \in Page!WorkloadRow
  BY DEF PageInv, Page!TypeOK
<1>2. CASE Page!PatchArrives
  BY <1>1, <1>2 DEF Page!PatchArrives
<1>3. CASE Page!WorkerMarks
  BY <1>1, <1>3 DEF Page!WorkerMarks, Page!WorkloadRow
<1>4. ASSUME NEW c \in Page!Others, Page!OtherSaves(c)
      PROVE  /\ stored'.version = stored.version + 1 /\ cached' = cached /\ fetch' = fetch
             /\ form' = form /\ touched' = touched
  BY <1>1, <1>4 DEF Page!OtherSaves, Page!WorkloadRow
<1>5. ASSUME NEW b \in Page!Button, Page!DeployArrives(b)
      PROVE  /\ stored'.version = stored.version + 1 /\ cached' = cached /\ fetch' = fetch
             /\ form' = form /\ touched' = touched
  BY <1>1, <1>5 DEF Page!DeployArrives, Page!WorkloadRow
<1>6. QED
  BY <1>2, <1>3, <1>4, <1>5 DEF Elsewhere

(* The call of Save and Deploy Now, step by step. *)
LEMMA ConfigCall ==
  ASSUME PageInv
  PROVE  LET was == call["config"]  now == call'["config"]
         IN /\ Caching \/ Typing \/ Elsewhere \/ Page!ClickRebuild => now = was
            /\ \A deploy \in BOOLEAN : Page!ClickSave(deploy) =>
                 /\ now.step = "patch" /\ now.config = Page!Payload(form) /\ now.deploy = deploy
            /\ Page!PatchArrives =>
                 /\ now.step = "patched" /\ now.config = was.config /\ now.deploy = was.deploy
                 /\ now.version = stored.version + 1
            /\ Page!PatchReturns =>
                 /\ was.deploy => now.step = "deploy" /\ now.config = was.config /\ now.deploy = was.deploy
                 /\ ~was.deploy => now.step = "idle"
            /\ \A b \in Page!Button : Page!DeployArrives(b) =>
                 IF b = "config"
                 THEN /\ was.step = "deploy" /\ now.step = "deployed" /\ now.config = was.config
                      /\ now.deploy = was.deploy
                 ELSE now = was
            /\ \A b \in Page!Button : Page!DeployReturns(b) \/ Page!CallFails(b) =>
                 IF b = "config" THEN now.step = "idle" ELSE now = was
<1> DEFINE was == call["config"]
           now == call'["config"]
<1>1. was \in Call /\ "config" \in Page!Button /\ "rebuild" \in Page!Button
  BY RowType DEF PageInv, Page!Button
<1>2. call \in [Page!Button -> Call] /\ Page!TypeOK /\ stored \in Page!WorkloadRow
  BY DEF PageInv, Page!TypeOK, Call
<1>3. Caching \/ Typing \/ Elsewhere => now = was
  BY DEF Caching, Page!StartFetch, Page!ReadRow, Page!EndFetch, Typing, Page!Edit, Elsewhere,
         Page!WorkerMarks, Page!OtherSaves
<1>4. Page!ClickRebuild => now = was
  BY <1>1, <1>2 DEF Page!ClickRebuild
<1>5. ASSUME NEW deploy \in BOOLEAN, Page!ClickSave(deploy)
      PROVE  now.step = "patch" /\ now.config = Page!Payload(form) /\ now.deploy = deploy
  <2> DEFINE sent == Page!Payload(form)
  <2>1. now = [Page!NotBusy EXCEPT !.step = "patch", !.config = sent, !.deploy = deploy]
    BY <1>1, <1>2, <1>5 DEF Page!ClickSave
  <2> HIDE DEF sent
  <2>2. now.step = "patch" /\ now.config = sent /\ now.deploy = deploy
    BY <2>1 DEF Page!NotBusy
  <2>3. QED
    BY <2>2 DEF sent
<1>6. Page!PatchArrives =>
        /\ now.step = "patched" /\ now.config = was.config /\ now.deploy = was.deploy
        /\ now.version = stored.version + 1
  BY <1>1, <1>2 DEF Page!PatchArrives, Call
<1>7. ASSUME Page!PatchReturns
      PROVE  /\ was.deploy => now.step = "deploy" /\ now.config = was.config /\ now.deploy = was.deploy
             /\ ~was.deploy => now.step = "idle"
  <2>1. now = IF was.deploy THEN [was EXCEPT !.step = "deploy"] ELSE Page!NotBusy
    BY <1>1, <1>2, <1>7 DEF Page!PatchReturns
  <2>2. QED
    BY <2>1, <1>1, RestIsCall DEF Call
<1>8. ASSUME NEW b \in Page!Button, Page!DeployArrives(b)
      PROVE  IF b = "config"
             THEN /\ was.step = "deploy" /\ now.step = "deployed" /\ now.config = was.config
                  /\ now.deploy = was.deploy
             ELSE now = was
  BY <1>1, <1>2, <1>8, CallStepped DEF Page!DeployArrives
<1>9. ASSUME NEW b \in Page!Button, Page!DeployReturns(b) \/ Page!CallFails(b)
      PROVE  IF b = "config" THEN now.step = "idle" ELSE now = was
  BY <1>1, <1>2, <1>9, CallWritten, RestIsCall DEF Page!DeployReturns, Page!CallFails
<1>10. QED
  BY <1>3, <1>4, <1>5, <1>6, <1>7, <1>8, <1>9

(* What the page knows of the row, step by step. *)
LEMMA KnowsStep == ASSUME PageInv, [Page!Next]_(Page!vars) PROVE PageKnows'
<1>0. /\ stored \in Page!WorkloadRow /\ stored.version \in Nat /\ stored' \in Page!WorkloadRow
      /\ stored'.version \in Nat /\ PageKnows
  BY PageTypeStep, RowType DEF PageInv, Page!TypeOK, Page!WorkloadRow
<1>1. CASE UNCHANGED Page!vars
  BY <1>0, <1>1 DEF PageKnows, Known, Answered, Page!vars
<1>2. CASE Caching
  <2>1. call'["config"] = call["config"] /\ stored' = stored
    BY <1>2, ConfigCall DEF Caching, Page!StartFetch, Page!ReadRow, Page!EndFetch
  <2>2. /\ cached' = cached \/ (fetch.step = "read" /\ cached' = fetch.data)
        /\ fetch'.step = "read" => fetch'.data = stored
    BY <1>2 DEF Caching, Page!StartFetch, Page!ReadRow, Page!EndFetch, Page!Show
  <2>3. QED
    BY <1>0, <2>1, <2>2 DEF PageKnows, Known, Answered
<1>3. CASE Typing \/ Clicking
  <2>1. stored' = stored /\ cached' = cached /\ fetch' = fetch
    BY <1>3 DEF Typing, Clicking, Page!Edit, Page!ClickRebuild, Page!ClickSave
  <2>2. call'["config"] = call["config"] \/ call'["config"].step = "patch"
    BY <1>3, ConfigCall DEF Clicking
  <2>3. QED
    BY <1>0, <2>1, <2>2 DEF PageKnows, Known, Answered
<1>4. ASSUME Page!PatchArrives \/ Elsewhere \/ \E b \in Page!Button : Page!DeployArrives(b)
      PROVE  PageKnows'
  <2>1. stored'.version = stored.version + 1 /\ cached' = cached /\ fetch' = fetch
    BY <1>4, RowAdvances
  <2>2. Known(cached)'
    BY <1>0, <2>1, OlderIsKnown DEF PageKnows, Known
  <2>3. ASSUME fetch'.step = "read" PROVE Known(fetch.data)'
    BY <1>0, <2>1, <2>3, OlderIsKnown DEF PageKnows, Known
  <2>4. ASSUME call'["config"].step = "patched" PROVE Known(Answered)'
    <3>1. CASE Page!PatchArrives
      <4>1. stored' = [config |-> call["config"].config, status |-> "draft", version |-> stored.version + 1]
        BY <3>1 DEF Page!PatchArrives
      <4>2. Answered' = stored'
        BY <3>1, <4>1, ConfigCall DEF Answered
      <4>3. QED
        BY <1>0, <4>2 DEF Known
    <3>2. CASE Elsewhere \/ \E b \in Page!Button : Page!DeployArrives(b)
      <4>1. call'["config"] = call["config"]
        BY <3>2, <2>4, ConfigCall
      <4>2. Answered' = Answered /\ Known(Answered)
        BY <4>1, <2>4, <1>0 DEF Answered, PageKnows
      <4>3. QED
        BY <1>0, <2>1, <4>2, OlderIsKnown DEF Known
    <3>3. QED
      BY <1>4, <3>1, <3>2
  <2>5. QED
    BY <1>0, <2>2, <2>3, <2>4 DEF PageKnows
<1>5. CASE Page!PatchReturns
  <2>1. /\ stored' = stored /\ cached' = Answered /\ fetch'.step = "sent"
        /\ call["config"].step = "patched" /\ call'["config"].step # "patched"
    BY <1>5, ConfigCall, RowType
       DEF PageInv, Page!TypeOK, Page!PatchReturns, Page!Show, Page!Invalidate, Answered, Page!Button
  <2>2. QED
    BY <1>0, <2>1 DEF PageKnows, Known
<1>6. ASSUME NEW b \in Page!Button, Page!DeployReturns(b) \/ Page!CallFails(b)
      PROVE  PageKnows'
  <2>1. stored' = stored /\ cached' = cached
    BY <1>6 DEF Page!DeployReturns, Page!CallFails
  <2>2. fetch' = fetch \/ fetch'.step # "read"
    BY <1>6 DEF Page!DeployReturns, Page!CallFails, Page!Invalidate
  <2>3. call'["config"] = call["config"] \/ call'["config"].step = "idle"
    BY <1>6, ConfigCall
  <2>4. QED
    BY <1>0, <2>1, <2>2, <2>3 DEF PageKnows, Known, Answered
<1>7. QED
  BY <1>1, <1>2, <1>3, <1>4, <1>5, <1>6, PageSteps DEF Deploying

(* What the form shows, step by step. *)
LEMMA ShowsStep == ASSUME PageInv, [Page!Next]_(Page!vars) PROVE PageShows'
<1>0. Page!TypeOK /\ PageShows /\ form' \in Page!Form
  BY PageTypeStep DEF PageInv, Page!TypeOK
<1>1. CASE \/ UNCHANGED Page!vars \/ Page!StartFetch \/ Page!ReadRow \/ Clicking \/ Deploying
           \/ Page!PatchArrives \/ Elsewhere
  <2>1. form' = form /\ touched' = touched /\ cached' = cached
    BY <1>1 DEF Page!vars, Page!StartFetch, Page!ReadRow, Clicking, Page!ClickRebuild, Page!ClickSave,
       Deploying, Page!DeployArrives, Page!DeployReturns, Page!CallFails, Page!PatchArrives,
       Elsewhere, Page!WorkerMarks, Page!OtherSaves
  <2>2. QED
    BY <1>0, <2>1 DEF PageShows
<1>2. CASE Page!EndFetch
  <2>1. fetch.data \in Page!WorkloadRow /\ Page!Show(fetch.data)
    BY <1>0, <1>2 DEF Page!TypeOK, Page!EndFetch
  <2>2. QED
    BY <1>0, <2>1, Shown
<1>3. CASE Page!PatchReturns
  <2>1. Page!Show(Answered)
    BY <1>3 DEF Page!PatchReturns, Answered
  <2>2. QED
    BY <1>0, <2>1, Shown, AnswerType
<1>4. CASE Typing
  <2>1. touched' = TRUE
    BY <1>4 DEF Typing, Page!Edit
  <2>2. QED
    BY <1>0, <2>1 DEF PageShows
<1>5. QED
  BY <1>1, <1>2, <1>3, <1>4, PageSteps DEF Caching

(* What was saved comes back into the form. *)
LEMMA SavedStep == ASSUME PageInv, [Page!Next]_(Page!vars) PROVE PageSaved'
<1>0. stored \in Page!WorkloadRow /\ PageSaved
  BY DEF PageInv, Page!TypeOK
<1>1. ASSUME UNCHANGED Page!vars \/ Caching \/ Typing \/ Page!ClickRebuild PROVE PageSaved'
  <2>1. saved' = saved /\ stored' = stored /\ call'["config"] = call["config"]
    BY <1>1, ConfigCall DEF Page!vars, Caching, Page!StartFetch, Page!ReadRow, Page!EndFetch, Typing,
       Page!Edit, Page!ClickRebuild
  <2>2. QED
    BY <1>0, <2>1 DEF PageSaved
<1>2. ASSUME NEW deploy \in BOOLEAN, Page!ClickSave(deploy) PROVE PageSaved'
  <2>1. saved' = saved /\ stored' = stored /\ Page!Payload(form) # Page!NoConfig
    BY <1>2 DEF Page!ClickSave
  <2>2. Page!Payload(form) \in Payloads
    BY <2>1 DEF Payloads, PageInv, PageShows
  <2>3. call'["config"].config = Page!Payload(form)
    BY <1>2, ConfigCall
  <2>4. QED
    BY <1>0, <2>1, <2>2, <2>3 DEF PageSaved
<1>3. CASE Page!PatchArrives
  <2>1. /\ stored'.config = call["config"].config /\ saved' = call["config"].config
        /\ call["config"].step = "patch" /\ call'["config"].step = "patched"
    BY <1>3, ConfigCall DEF Page!PatchArrives
  <2>2. QED
    BY <1>0, <2>1 DEF PageSaved
<1>4. CASE Page!PatchReturns
  <2>1. saved' = saved /\ stored' = stored /\ call'["config"].step # "patch"
    BY <1>4, ConfigCall, RowType DEF PageInv, Page!PatchReturns, Call, Page!Button
  <2>2. QED
    BY <1>0, <2>1 DEF PageSaved
<1>5. ASSUME NEW b \in Page!Button,
             Page!DeployArrives(b) \/ Page!DeployReturns(b) \/ Page!CallFails(b)
      PROVE  PageSaved'
  <2>1. saved' = saved /\ stored'.config = stored.config
    BY <1>0, <1>5 DEF Page!DeployArrives, Page!DeployReturns, Page!CallFails, Page!WorkloadRow
  <2>2. call'["config"] = call["config"] \/ call'["config"].step \in {"idle", "deployed"}
    BY <1>5, ConfigCall
  <2>3. QED
    BY <1>0, <2>1, <2>2 DEF PageSaved
<1>6. CASE Elsewhere
  <2>1. call'["config"] = call["config"]
    BY <1>6, ConfigCall
  <2>2. saved' = Page!NoConfig \/ (saved' = saved /\ stored'.config = stored.config)
    BY <1>0, <1>6 DEF Elsewhere, Page!WorkerMarks, Page!OtherSaves, Page!WorkloadRow
  <2>3. QED
    BY <1>0, <2>1, <2>2 DEF PageSaved
<1>7. QED
  BY <1>1, <1>2, <1>3, <1>4, <1>5, <1>6, PageSteps DEF Clicking, Deploying

(* What is deployed is what was clicked, or written by another client. *)
LEMMA ClickedStep == ASSUME PageInv, [Page!Next]_(Page!vars) PROVE PageClicked'
<1>0. stored \in Page!WorkloadRow /\ PageClicked
  BY DEF PageInv, Page!TypeOK
<1>1. ASSUME UNCHANGED Page!vars \/ Caching \/ Typing \/ Page!ClickRebuild PROVE PageClicked'
  <2>1. /\ clicked' = clicked /\ stored' = stored /\ deployed' = deployed
        /\ call'["config"] = call["config"]
    BY <1>1, ConfigCall DEF Page!vars, Caching, Page!StartFetch, Page!ReadRow, Page!EndFetch, Typing,
       Page!Edit, Page!ClickRebuild
  <2>2. QED
    BY <1>0, <2>1 DEF PageClicked, Page!DeployedIsClicked
<1>2. ASSUME NEW deploy \in BOOLEAN, Page!ClickSave(deploy) PROVE PageClicked'
  <2>1. clicked' = IF deploy THEN Page!Payload(form) ELSE Page!NoConfig
    BY <1>2 DEF Page!ClickSave
  <2>2. QED
    BY <1>0, <1>2, <2>1, ConfigCall DEF PageClicked, Page!DeployedIsClicked
<1>3. CASE Page!PatchArrives
  <2>1. /\ stored'.config = call["config"].config /\ clicked' = clicked
        /\ call'["config"].step = "patched"
    BY <1>3, ConfigCall DEF Page!PatchArrives
  <2>2. QED
    BY <1>0, <1>3, <2>1, ConfigCall DEF PageClicked, Page!DeployedIsClicked
<1>4. CASE Page!PatchReturns
  <2>1. clicked' = clicked /\ stored' = stored /\ call["config"].step = "patched"
    BY <1>4 DEF Page!PatchReturns
  <2>2. QED
    BY <1>0, <1>4, <2>1, ConfigCall DEF PageClicked, Page!DeployedIsClicked
<1>5. ASSUME NEW b \in Page!Button, Page!DeployArrives(b) PROVE PageClicked'
  <2>1. /\ deployed' = stored.config /\ stored'.config = stored.config /\ clicked' = clicked
    BY <1>0, <1>5 DEF Page!DeployArrives, Page!WorkloadRow
  <2>2. QED
    BY <1>0, <1>5, <2>1, ConfigCall DEF PageClicked, Page!DeployedIsClicked
<1>6. ASSUME NEW b \in Page!Button, Page!DeployReturns(b) \/ Page!CallFails(b) PROVE PageClicked'
  <2>1. /\ deployed' = deployed /\ stored' = stored
        /\ clicked' = IF b = "config" THEN Page!NoConfig ELSE clicked
    BY <1>6 DEF Page!DeployReturns, Page!CallFails
  <2>2. QED
    BY <1>0, <1>6, <2>1, ConfigCall DEF PageClicked, Page!DeployedIsClicked
<1>7. CASE Elsewhere
  <2>1. /\ call'["config"] = call["config"] /\ deployed' = deployed
        /\ clicked' = Page!NoConfig \/ (clicked' = clicked /\ stored'.config = stored.config)
    BY <1>0, <1>7, ConfigCall DEF Elsewhere, Page!WorkerMarks, Page!OtherSaves, Page!WorkloadRow
  <2>2. QED
    BY <1>0, <2>1 DEF PageClicked, Page!DeployedIsClicked
<1>8. QED
  BY <1>1, <1>2, <1>3, <1>4, <1>5, <1>6, <1>7, PageSteps DEF Clicking, Deploying

(* The page opens with the row as it is. *)
LEMMA PageBeginning == Page!Init => PageInv
<1> SUFFICES ASSUME Page!Init PROVE PageInv
  OBVIOUS
<1> DEFINE first == [config |-> Page!NoConfig, status |-> "draft", version |-> 0]
<1>1. stored = first /\ cached = first /\ first \in Page!WorkloadRow /\ stored.version = 0
  BY Kinds DEF Page!Init, Page!WorkloadRow, Page!Status
<1>2. Page!EmptyForm \in Page!Form /\ Page!Filled(Page!NoConfig, Page!EmptyForm) = Page!EmptyForm
  <2>1. /\ Page!NoConfig.kind = Blank /\ Page!NoConfig.image = Blank /\ Page!NoConfig.env = Blank
        /\ Page!NoConfig.build.type = Blank /\ Page!NoConfig.source.type = Blank
        /\ [kind |-> "container"].kind = "container"
    BY DEF Page!NoConfig, Page!NoSource
  <2>2. QED
    BY <2>1, Kinds DEF Page!EmptyForm, Page!Filled, Page!Form, Page!Mode, Page!ContainerMode, Page!Words
<1>3. call \in [Page!Button -> Call] /\ call["config"].step = "idle"
  BY RestIsCall DEF Page!Init, Page!Button
<1>4. Page!TypeOK
  <2>1. fetch = [step |-> "none"] /\ worker = <<>> /\ worker \in Seq(Page!Status)
    BY DEF Page!Init
  <2>2. deployed \in Page!Config /\ clicked \in Page!Config /\ saved \in Page!Config
    BY Kinds DEF Page!Init
  <2>3. form \in Page!Form /\ touched \in BOOLEAN
    BY <1>2 DEF Page!Init
  <2>4. edits \in 0 .. MaxEdits /\ writes \in 0 .. MaxWrites /\ others \in 0 .. MaxOthers
    BY BoundsAssumption DEF Page!Init
  <2>5. QED
    BY <1>1, <1>3, <2>1, <2>2, <2>3, <2>4 DEF Page!TypeOK, Call
<1>5. PageKnows
  BY <1>1, <1>3 DEF PageKnows, Known, Page!Init
<1>6. PageShows
  BY <1>1, <1>2 DEF PageShows, Page!Init
<1>7. PageSaved /\ PageClicked
  BY <1>3 DEF PageSaved, PageClicked, Page!Init, Page!DeployedIsClicked
<1>8. QED
  BY <1>4, <1>5, <1>6, <1>7 DEF PageInv

(* The parts of the invariant of the page are inductive together. *)
LEMMA PageStep == PageInv /\ [Page!Next]_(Page!vars) => PageInv'
<1> SUFFICES ASSUME PageInv, [Page!Next]_(Page!vars) PROVE PageInv'
  OBVIOUS
<1>1. QED
  BY PageTypeStep, KnowsStep, ShowsStep, SavedStep, ClickedStep DEF PageInv


-----------------------------------------------------------------------------
(***************************************************************************)
(* The routes of a workload.                                               *)
(***************************************************************************)

(* What an available workload was provisioned from is what it has: every   *)
(* request that changes it takes the workload out of `available`.          *)
RoutesInv ==
  /\ ports \in Ports
  /\ domains \in Seq(Routes!Row)
  /\ status = "available" => ports # <<>> /\ labels = Routes!Labels
  /\ Routes!EnabledOnce

(* A custom row that matches the platform's shadows it, and without one    *)
(* there is nothing redundant: every row that is desired gets its router.  *)
LEMMA NothingIsRedundant == domains \in Seq(Routes!Row) => Routes!Customs = domains
<1> SUFFICES ASSUME domains \in Seq(Routes!Row) PROVE Routes!Customs = domains
  OBVIOUS
<1>1. ASSUME NEW r \in Routes!ToSet(domains) PROVE ~Routes!Redundant(r)
  <2>1. PICK i \in DOMAIN domains : r = domains[i]
    BY DEF Routes!ToSet
  <2>2. QED
    BY <2>1 DEF Routes!Redundant, Routes!Shadowed
<1>2. QED
  BY <1>1 DEF Routes!Customs

(* The labels: the platform's first, if it has one, then the desired rows. *)
LEMMA LabelsAre ==
  ASSUME domains \in Seq(Routes!Row)
  PROVE  LET first == IF ~Routes!Shadowed /\ ~omit THEN 1 ELSE 0
         IN  /\ Routes!Labels \in Seq([row : Routes!Row \cup {Routes!PlatformRow}, bootstrap : BOOLEAN])
             /\ Len(Routes!Labels) = first + Len(domains)
             /\ first = 1 => Routes!Labels[1] = [row |-> Routes!PlatformRow, bootstrap |-> TRUE]
             /\ \A i \in 1 .. Len(domains) :
                  /\ Routes!Labels[first + i].row = domains[i]
                  /\ Routes!Labels[first + i].bootstrap <=> (Routes!Shadowed \/ omit) /\ i = 1
<1> DEFINE first == IF ~Routes!Shadowed /\ ~omit THEN 1 ELSE 0
           Label == [row : Routes!Row \cup {Routes!PlatformRow}, bootstrap : BOOLEAN]
           ours == [i \in DOMAIN Routes!PlatformRows |->
                      [row |-> Routes!PlatformRows[i], bootstrap |-> TRUE]]
           flag(i) == (Routes!Shadowed \/ omit) /\ i = 1
           custom == [i \in DOMAIN domains |-> [row |-> domains[i], bootstrap |-> flag(i)]]
<1>1. Routes!Labels = ours \o custom
  BY NothingIsRedundant DEF Routes!Labels
<1>2. custom \in Seq(Label) /\ Len(custom) = Len(domains)
  <2>1. custom \in [1 .. Len(domains) -> Label]
    OBVIOUS
  <2>2. QED
    BY <2>1, IsASeq
<1>3. ours \in Seq(Label) /\ Len(ours) = first
      /\ (first = 1 => ours[1] = [row |-> Routes!PlatformRow, bootstrap |-> TRUE])
  <2>1. CASE first = 1
    <3>1. Routes!PlatformRows = <<Routes!PlatformRow>>
      BY <2>1 DEF Routes!PlatformRows
    <3>2. DOMAIN Routes!PlatformRows = 1 .. 1 /\ Routes!PlatformRows[1] = Routes!PlatformRow
      BY <3>1
    <3>3. ours \in [1 .. 1 -> Label] /\ ours[1] = [row |-> Routes!PlatformRow, bootstrap |-> TRUE]
      <4>1. ours = [i \in 1 .. 1 |-> [row |-> Routes!PlatformRows[i], bootstrap |-> TRUE]]
        BY <3>2
      <4>2. \A i \in 1 .. 1 : Routes!PlatformRows[i] = Routes!PlatformRow
        BY <3>2
      <4>3. [row |-> Routes!PlatformRow, bootstrap |-> TRUE] \in Label
        OBVIOUS
      <4> HIDE DEF ours, Label
      <4>4. ours \in [1 .. 1 -> Label]
        BY <4>1, <4>2, <4>3
      <4>5. ours[1] = [row |-> Routes!PlatformRow, bootstrap |-> TRUE]
        <5>1. ours[1] = [row |-> Routes!PlatformRows[1], bootstrap |-> TRUE]
          BY <4>1
        <5>2. QED
          BY <5>1, <3>2
      <4>6. QED
        BY <4>4, <4>5
    <3>4. QED
      BY <2>1, <3>3, IsASeq
  <2>2. CASE first = 0
    <3>1. Routes!PlatformRows = <<>>
      BY <2>2 DEF Routes!PlatformRows
    <3>2. ours \in [1 .. 0 -> Label]
      BY <3>1
    <3>3. QED
      BY <2>2, <3>2, IsASeq
  <2>3. QED
    BY <2>1, <2>2
<1> HIDE DEF ours, Label
<1>4. ASSUME NEW i \in 1 .. Len(domains)
      PROVE  custom[i].row = domains[i] /\ (custom[i].bootstrap <=> flag(i))
  <2>1. flag(i) \in BOOLEAN
    OBVIOUS
  <2>2. custom[i] = [row |-> domains[i], bootstrap |-> flag(i)]
    OBVIOUS
  <2> HIDE DEF flag, custom
  <2>3. custom[i].row = domains[i] /\ custom[i].bootstrap = flag(i)
    BY <2>2
  <2>4. QED
    BY <2>3, Zenon
<1> HIDE DEF custom
<1>5. /\ ours \o custom \in Seq(Label) /\ Len(ours \o custom) = first + Len(domains)
      /\ \A i \in 1 .. first : (ours \o custom)[i] = ours[i]
      /\ \A i \in 1 .. Len(domains) : (ours \o custom)[first + i] = custom[i]
  <2>1. first \in {0, 1} /\ Len(domains) \in Nat
    OBVIOUS
  <2> HIDE DEF first
  <2>2. /\ ours \o custom \in Seq(Label) /\ Len(ours \o custom) = first + Len(domains)
        /\ \A i \in 1 .. first + Len(domains) :
             (ours \o custom)[i] = IF i <= first THEN ours[i] ELSE custom[i - first]
    <3>1. /\ ours \o custom \in Seq(Label) /\ Len(ours \o custom) = Len(ours) + Len(custom)
          /\ \A i \in 1 .. Len(ours) + Len(custom) :
               (ours \o custom)[i] = IF i <= Len(ours) THEN ours[i] ELSE custom[i - Len(ours)]
      <4>1. ours \in Seq(Label)
        BY <1>3
      <4>2. custom \in Seq(Label)
        BY <1>2
      <4>3. QED
        BY <4>1, <4>2, ConcatProperties
    <3>2. Len(ours) = first /\ Len(custom) = Len(domains)
      BY <1>2, <1>3
    <3>3. QED
      BY <3>1, <3>2
  <2>3. \A i \in 1 .. Len(domains) :
          first + i \in 1 .. first + Len(domains) /\ ~(first + i <= first) /\ (first + i) - first = i
    BY <2>1
  <2>4. QED
    BY <2>1, <2>2, <2>3
<1>6. ASSUME NEW i \in 1 .. Len(domains)
      PROVE  /\ Routes!Labels[first + i].row = domains[i]
             /\ Routes!Labels[first + i].bootstrap <=> (Routes!Shadowed \/ omit) /\ i = 1
  <2>1. Routes!Labels[first + i] = custom[i]
    BY <1>1, <1>5
  <2>2. QED
    BY <2>1, <1>4, Zenon
<1>7. first = 1 => Routes!Labels[1] = [row |-> Routes!PlatformRow, bootstrap |-> TRUE]
  <2>1. first = 1 => 1 \in 1 .. first
    OBVIOUS
  <2> HIDE DEF first
  <2>2. QED
    BY <1>1, <1>3, <1>5, <2>1
<1>8. Routes!Labels \in Seq(Label) /\ Len(Routes!Labels) = first + Len(domains)
  BY <1>1, <1>5
<1>9. QED
  BY <1>6, <1>7, <1>8, Zenon DEF Label

(* Exactly one label enables the container. *)
LEMMA LabelsEnableOnce ==
  ASSUME domains \in Seq(Routes!Row), Routes!Labels # <<>>
  PROVE  \E i \in DOMAIN Routes!Labels :
           \A j \in DOMAIN Routes!Labels : Routes!Labels[j].bootstrap <=> i = j
<1> DEFINE L == Routes!Labels
           n == Len(domains)
           Label == [row : Routes!Row \cup {Routes!PlatformRow}, bootstrap : BOOLEAN]
<1>1. L \in Seq(Label) /\ n \in Nat
  BY LabelsAre
<1>2. CASE ~Routes!Shadowed /\ ~omit
  <2>1. Len(L) = 1 + n /\ L[1] = [row |-> Routes!PlatformRow, bootstrap |-> TRUE]
    BY <1>2, LabelsAre
  <2>2. \A i \in 1 .. n : ~L[1 + i].bootstrap
    BY <1>2, LabelsAre
  <2> HIDE DEF L
  <2>3. L[1].bootstrap
    BY <2>1
  <2>4. ASSUME NEW j \in 2 .. 1 + n PROVE ~L[j].bootstrap
    <3>1. j - 1 \in 1 .. n /\ 1 + (j - 1) = j
      BY <1>1
    <3>2. QED
      BY <3>1, <2>2
  <2>5. DOMAIN L = 1 .. 1 + n
    BY <1>1, <2>1
  <2>6. \A j \in DOMAIN L : L[j].bootstrap <=> 1 = j
    BY <1>1, <2>3, <2>4, <2>5
  <2>7. QED
    BY <1>1, <2>5, <2>6 DEF L
<1>3. CASE Routes!Shadowed \/ omit
  <2>1. Len(L) = n
    BY <1>1, <1>3, LabelsAre
  <2>2. \A i \in 1 .. n : L[i].bootstrap <=> i = 1
    <3>1. \A i \in 1 .. n : 0 + i = i
      BY <1>1
    <3>2. QED
      BY <3>1, <1>3, LabelsAre
  <2>3. n # 0
    BY <1>1, <2>1
  <2> HIDE DEF L, n
  <2>4. ASSUME NEW j \in 1 .. n PROVE L[j].bootstrap <=> 1 = j
    BY <2>2
  <2>5. DOMAIN L = 1 .. n /\ 1 \in 1 .. n
    BY <1>1, <2>1, <2>3
  <2>6. QED
    BY <2>4, <2>5 DEF L
<1>4. QED
  BY <1>2, <1>3

(* Every desired row has a label, and the platform's host name as well.    *)
LEMMA LabelsServe ==
  ASSUME domains \in Seq(Routes!Row)
  PROVE  LET routed == {Routes!Labels[i].row : i \in DOMAIN Routes!Labels}
         IN  /\ Routes!ToSet(domains) \subseteq routed
             /\ ~omit => \E r \in routed : Routes!MatchesPlatform(r)
<1> DEFINE L == Routes!Labels
           n == Len(domains)
           first == IF ~Routes!Shadowed /\ ~omit THEN 1 ELSE 0
           Label == [row : Routes!Row \cup {Routes!PlatformRow}, bootstrap : BOOLEAN]
           routed == {L[i].row : i \in DOMAIN L}
<1>1. /\ L \in Seq(Label) /\ n \in Nat /\ Len(L) = first + n
      /\ first = 1 => L[1] = [row |-> Routes!PlatformRow, bootstrap |-> TRUE]
      /\ \A i \in 1 .. n : L[first + i].row = domains[i]
  BY LabelsAre
<1>2. first \in {0, 1} /\ (first = 0 => Routes!Shadowed \/ omit)
  OBVIOUS
<1> HIDE DEF L, first
<1>3. ASSUME NEW r \in Routes!ToSet(domains) PROVE r \in routed
  <2>1. PICK i \in 1 .. n : r = domains[i]
    BY DEF Routes!ToSet
  <2>2. L[first + i].row = r
    BY <1>1, <2>1
  <2>3. first + i \in DOMAIN L
    BY <1>1, <1>2
  <2>4. QED
    BY <2>2, <2>3
<1>4. ASSUME ~omit PROVE \E r \in routed : Routes!MatchesPlatform(r)
  <2>1. CASE first = 1
    <3>1. L[1].row = Routes!PlatformRow /\ 1 \in DOMAIN L
      BY <1>1, <2>1
    <3>2. Routes!MatchesPlatform(Routes!PlatformRow)
      BY DEF Routes!MatchesPlatform, Routes!PlatformRow
    <3>3. QED
      BY <3>1, <3>2
  <2>2. CASE first = 0
    <3>1. PICK i \in DOMAIN domains : Routes!MatchesPlatform(domains[i])
      BY <1>2, <1>4, <2>2 DEF Routes!Shadowed
    <3>2. domains[i] \in Routes!ToSet(domains)
      BY DEF Routes!ToSet
    <3>3. QED
      BY <1>3, <3>1, <3>2
  <2>3. QED
    BY <1>2, <2>1, <2>2
<1>5. QED
  BY <1>3, <1>4 DEF L

(* Two labels of one place are of desired rows, or one is the platform's   *)
(* and the other asks for its host name with another port.                 *)
LEMMA LabelsApart ==
  ASSUME domains \in Seq(Routes!Row),
         NEW i \in DOMAIN Routes!Labels, NEW j \in DOMAIN Routes!Labels, i # j,
         Routes!Labels[i].row.at = Routes!Labels[j].row.at
  PROVE  \/ Routes!Labels[i].row \in Routes!ToSet(domains)
         \/ /\ Routes!Labels[i].row = Routes!PlatformRow
            /\ \E other \in Routes!ToSet(domains) :
                 other.at = Platform /\ other.port # Head(ports)
<1> DEFINE L == Routes!Labels
           n == Len(domains)
           first == IF ~Routes!Shadowed /\ ~omit THEN 1 ELSE 0
           Label == [row : Routes!Row \cup {Routes!PlatformRow}, bootstrap : BOOLEAN]
<1>1. /\ L \in Seq(Label) /\ n \in Nat /\ Len(L) = first + n
      /\ first = 1 => L[1] = [row |-> Routes!PlatformRow, bootstrap |-> TRUE]
      /\ \A k \in 1 .. n : L[first + k].row = domains[k]
  BY LabelsAre
<1>2. first \in {0, 1} /\ (first = 1 => ~Routes!Shadowed)
  OBVIOUS
<1>3. i \in DOMAIN L /\ j \in DOMAIN L /\ L[i].row.at = L[j].row.at
  OBVIOUS
<1> HIDE DEF L, first
<1>4. ASSUME NEW m \in DOMAIN L, m # first \/ first = 0
      PROVE  \E k \in DOMAIN domains : L[m].row = domains[k]
  <2>1. m - first \in 1 .. n /\ first + (m - first) = m
    BY <1>1, <1>2, <1>4
  <2>2. QED
    BY <1>1, <2>1
<1>5. CASE i # first \/ first = 0
  BY <1>3, <1>4, <1>5 DEF Routes!ToSet, L
<1>6. CASE i = first /\ first = 1
  <2>1. PICK k \in DOMAIN domains : L[j].row = domains[k]
    BY <1>3, <1>4, <1>6
  <2>2. L[i].row = Routes!PlatformRow
    BY <1>1, <1>6
  <2>3. domains[k].at = Platform
    BY <1>3, <2>1, <2>2 DEF Routes!PlatformRow
  <2>4. domains[k].port # Head(ports)
    BY <1>2, <1>6, <2>3 DEF Routes!Shadowed, Routes!MatchesPlatform
  <2>5. QED
    BY <2>2, <2>3, <2>4 DEF Routes!ToSet, L
<1>7. QED
  BY <1>2, <1>5, <1>6

(* Adding and removing a row leaves a list of rows. *)
LEMMA DomainsStay ==
  ASSUME domains \in Seq(Routes!Row), NEW r
  PROVE  /\ r \in Routes!Row => Append(domains, r) \in Seq(Routes!Row)
         /\ Routes!Desired(r) => Routes!Without(r) \in Seq(Routes!Row)
<1>1. r \in Routes!Row => Append(domains, r) \in Seq(Routes!Row)
  OBVIOUS
<1>2. ASSUME Routes!Desired(r) PROVE Routes!Without(r) \in Seq(Routes!Row)
  <2> DEFINE i == CHOOSE i \in DOMAIN domains : domains[i] = r
  <2>1. i \in 1 .. Len(domains)
    BY <1>2 DEF Routes!Desired, Routes!ToSet
  <2>2. Routes!Without(r) = SubSeq(domains, 1, i - 1) \o SubSeq(domains, i + 1, Len(domains))
    BY DEF Routes!Without, Routes!RemoveAt
  <2> HIDE DEF i
  <2>3. /\ SubSeq(domains, 1, i - 1) \in Seq(Routes!Row)
        /\ SubSeq(domains, i + 1, Len(domains)) \in Seq(Routes!Row)
    BY <2>1, SubSeqProperties
  <2>4. QED
    BY <2>2, <2>3
<1>3. QED
  BY <1>1, <1>2

(* The labels depend on the desired state only. *)
LEMMA LabelsKept ==
  ASSUME domains \in Seq(Routes!Row), UNCHANGED <<ports, domains, omit>>
  PROVE  Routes!Labels' = Routes!Labels
<1>1. (domains \in Seq(Routes!Row) => Routes!Customs = domains)'
  BY NothingIsRedundant, PTL
<1>2. Routes!Customs' = Routes!Customs
  BY <1>1, NothingIsRedundant DEF Routes!Row, Routes!Port, Routes!ToSet
<1>3. Routes!Shadowed' = Routes!Shadowed /\ Routes!PlatformRows' = Routes!PlatformRows
  BY DEF Routes!PlatformRows, Routes!PlatformRow, Routes!Shadowed, Routes!MatchesPlatform
<1>4. QED
  BY <1>2, <1>3 DEF Routes!Labels

(* The rows of the domains and the routes, step by step. *)
LEMMA RoutesStep == RoutesInv /\ [Routes!Next]_(Routes!vars) => RoutesInv'
<1> SUFFICES ASSUME RoutesInv, [Routes!Next]_(Routes!vars) PROVE RoutesInv'
  OBVIOUS
<1>1. CASE UNCHANGED Routes!vars
  <2>1. Routes!Labels' = Routes!Labels
    BY <1>1, LabelsKept DEF RoutesInv, Routes!vars
  <2>2. QED
    BY <1>1, <2>1 DEF RoutesInv, Routes!vars, Routes!EnabledOnce
<1>2. CASE Routes!Provision
  <2>1. ports' = ports /\ domains' = domains /\ omit' = omit /\ ports # <<>> /\ labels' = Routes!Labels
    BY <1>2 DEF Routes!Provision
  <2>2. Routes!Labels' = Routes!Labels
    BY <2>1, LabelsKept DEF RoutesInv
  <2>3. Routes!EnabledOnce'
    BY <2>1, LabelsEnableOnce DEF RoutesInv, Routes!EnabledOnce
  <2>4. QED
    BY <2>1, <2>2, <2>3 DEF RoutesInv
<1>3. CASE Routes!ProvisionFails \/ Routes!Redeploy \/ \E list \in Ports : Routes!PatchConfig(list)
  BY <1>3 DEF RoutesInv, Routes!EnabledOnce, Routes!ProvisionFails, Routes!Redeploy, Routes!PatchConfig
<1>4. ASSUME NEW rows \in Seq(Routes!Row), NEW omitToo \in BOOLEAN, Routes!SaveDomains(rows, omitToo)
      PROVE  RoutesInv'
  <2>1. CASE Routes!Accepts(rows)
    BY <1>4, <2>1 DEF RoutesInv, Routes!EnabledOnce, Routes!SaveDomains
  <2>2. CASE ~Routes!Accepts(rows)
    BY <1>1, <1>4, <2>2 DEF Routes!SaveDomains
  <2>3. QED
    BY <2>1, <2>2
<1>5. ASSUME NEW r \in Routes!Row, Routes!AddDomain(r) \/ Routes!RemoveRow(r)
      PROVE  RoutesInv'
  <2>1. domains \in Seq(Routes!Row)
    BY DEF RoutesInv
  <2>2. QED
    BY <1>4, <1>5, <2>1, DomainsStay DEF Routes!AddDomain, Routes!RemoveRow
<1>6. QED
  BY <1>1, <1>2, <1>3, <1>5 DEF Routes!Next

(* A workload starts with the platform's host name. *)
LEMMA RoutesBeginning == Routes!Init => RoutesInv
BY DEF Routes!Init, RoutesInv, Routes!EnabledOnce

(* The invariant says what is to be shown. *)
LEMMA RoutesServe ==
  RoutesInv => Routes!DesiredIsRouted /\ Routes!EnabledOnce /\ Routes!RoutersApart
<1> SUFFICES ASSUME RoutesInv PROVE Routes!DesiredIsRouted /\ Routes!RoutersApart
  BY DEF RoutesInv
<1>1. CASE status = "available"
  <2>1. domains \in Seq(Routes!Row) /\ labels = Routes!Labels
    BY <1>1 DEF RoutesInv
  <2>2. Routes!DesiredIsRouted
    BY <2>1, LabelsServe DEF Routes!DesiredIsRouted
  <2>3. Routes!RoutersApart
    BY <2>1, LabelsApart DEF Routes!RoutersApart
  <2>4. QED
    BY <2>2, <2>3
<1>2. CASE status # "available"
  BY <1>2 DEF Routes!DesiredIsRouted, Routes!RoutersApart
<1>3. QED
  BY <1>1, <1>2

-----------------------------------------------------------------------------
(***************************************************************************)
(* Beside each other, in MCWorkloads.                                      *)
(***************************************************************************)
LEMMA Components ==
  /\ MCInit => Init /\ Routes!Init /\ Page!Init
  /\ [MCNext]_mcVars =>
       [Next]_vars /\ [Routes!Next]_(Routes!vars) /\ [Page!Next]_(Page!vars)
<1>1. MCInit => Init /\ Routes!Init /\ Page!Init
  BY DEF MCInit
<1>2. [MCNext]_mcVars => [Next]_vars
  BY DEF MCNext, mcVars
<1>3. [MCNext]_mcVars => [Routes!Next]_(Routes!vars)
  BY DEF MCNext, mcVars, pageVars, routeVars, Routes!vars
<1>4. [MCNext]_mcVars => [Page!Next]_(Page!vars)
  BY DEF MCNext, mcVars, pageVars, formVars, Page!vars, Page!counters
<1>5. QED
  BY <1>1, <1>2, <1>3, <1>4

(* Whatever domains were added and removed, ports reconfigured and         *)
(* deployments failed before, an available workload has a router for every *)
(* domain it is to serve, exactly one row that enables its container, and  *)
(* no second router for a domain unless the domains themselves ask for two *)
(* routes of one place, or for the platform's with a second port.          *)
THEOREM DesiredDomainsAreServed == MCSpec => []DesiredIsServed
<1>1. MCSpec => []RoutesInv
  BY Components, RoutesBeginning, RoutesStep, PTL DEF MCSpec
<1>2. RoutesInv => DesiredIsServed
  BY RoutesServe DEF DesiredIsServed
<1>3. QED
  BY <1>1, <1>2, PTL

(* The page, in every turn of MCWorkloads. *)
LEMMA PageAlways == MCSpec => []PageInv
BY Components, PageBeginning, PageStep, PTL DEF MCSpec

(* Deploy Now: between the PATCH and the POST it sends only other clients  *)
(* write the configuration, and a Rebuild deploys the same.                *)
THEOREM ClicksAreDeployed == MCSpec => []DeployedIsClicked
<1>1. PageInv => DeployedIsClicked
  BY DEF PageInv, PageClicked, DeployedIsClicked
<1>2. QED
  BY <1>1, PageAlways, PTL

(* The page that is up to date and has no edits shows what was saved: a    *)
(* version stands for one content of the row, and what a form sends comes  *)
(* back into it.                                                           *)
THEOREM WhatWasSavedStays == MCSpec => []SavedStays
<1>1. ASSUME PageInv PROVE Page!SavedStays
  <2>1. SUFFICES ASSUME saved # Page!NoConfig, ~touched, cached.version = stored.version
                 PROVE  Page!Payload(form) = saved
    BY DEF Page!SavedStays
  <2>2. cached = stored /\ saved \in Payloads /\ stored.config = saved
    BY <1>1, <2>1 DEF PageInv, PageKnows, Known, PageSaved
  <2>3. form \in Page!Form /\ form = Page!Filled(saved, form)
    BY <1>1, <2>1, <2>2 DEF PageInv, PageShows
  <2>4. QED
    BY <2>2, <2>3, PayloadComesBack
<1>2. PageInv => SavedStays
  BY <1>1 DEF SavedStays
<1>3. QED
  BY <1>2, PageAlways, PTL

(* The turns of MCWorkloads are behaviours of WorkloadProvisioning, so     *)
(* what is proved about that holds in them.                                *)
COROLLARY TurnsAreBehaviours == MCSpec => Spec
BY Components, PTL DEF MCSpec, Spec
=============================================================================
