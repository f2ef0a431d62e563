------------------------ MODULE WorkloadProvisioning ------------------------
(***************************************************************************)
(* Workloads: the routes that record what a workload should be (create,    *)
(* config, env, domains, deploy and rebuild, the GitHub push webhook), the *)
(* provision-workload workflows they start, and the local Docker provider. *)
(*                                                                         *)
(* Every route reads the row, computes from what it read, and writes; the  *)
(* workflows of one workload have unique ids and run side by side, on a    *)
(* container, an image tag and a staging directory named after the         *)
(* workload.                                                               *)
(*                                                                         *)
(* Abstractions:                                                           *)
(*   - a config, an env or a list of domains is the request that wrote it; *)
(*   - of the observed state, the container and the error are kept, the    *)
(*     activity log is not;                                                *)
(*   - a docker build or run, a download or a clone may always fail.       *)
(***************************************************************************)
EXTENDS Naturals, FiniteSets

CONSTANTS
  Workload,       \* workload ids
  Deployed,       \* workloads that are available from the start
  Request,        \* requests of the API
  Built,          \* requests whose config builds an image from a Dockerfile
  Bundled,        \* requests whose config is an uploaded bundle
  Tracked,        \* requests whose config follows the branch that is pushed
  MaxAttempts,    \* maximumAttempts of the activity
  MaxLosses,      \* bound: crashes and failed database statements
  MaxRaces,       \* bound: timeouts of running attempts, lost replies
  Overlapping,    \* BOOLEAN: may requests and workflows of one workload overlap?
  First,          \* what the deployed workloads were made of
  None

Version == Request \cup {First}

ASSUME WorkloadAssumption == Deployed \subseteq Workload /\ None \notin Workload
(* A config has one kind: no bundle is built from a Dockerfile. *)
ASSUME ConfigAssumption ==
  /\ Built \subseteq Version /\ Bundled \subseteq Version /\ Tracked \subseteq Version
  /\ Built \cap Bundled = {}
ASSUME VersionAssumption == None \notin Version /\ First \notin Request
ASSUME AttemptAssumption == MaxAttempts \in Nat \ {0}
ASSUME BoundAssumption == MaxLosses \in Nat /\ MaxRaces \in Nat /\ Overlapping \in BOOLEAN

(* One workflow for each workload a request deploys. *)
Op == Request \X Workload

VARIABLES
  row,          \* project_workloads
  req,          \* req[q]: where request q is
  seen,         \* seen[q]: the rows as q read them
  payload,      \* payload[o]: the desired state workflow o deploys
  wf, attempts, \* Temporal
  run,          \* run[o][k]: the next step of attempt k, and what it read
  docker,       \* docker[w]: the container named after w
  image,        \* image[w]: what the tag of w was built from
  staging,      \* staging[w]: the bundle in the staging directory of w
  stranded,     \* history: workloads some request or attempt of which was lost
  disturbed,    \* history: workloads with requests or attempts that overlapped
  losses, races

dockerVars == <<docker, image, staging>>
temporalVars == <<wf, attempts, payload>>
faultVars == <<stranded, losses, races>>
vars == <<row, req, seen, payload, wf, attempts, run, docker, image, staging,
          stranded, disturbed, losses, races>>

Temporal == INSTANCE ActivityRetry

Attempt == 1 .. MaxAttempts
Container == (Version \X Attempt) \cup {None}
Maybe == Version \cup {None}
Desired == [config: Maybe, env: Maybe, domains: Maybe]

Row == [status: {"absent", "draft", "requested", "provisioning", "available", "failed"},
        desired: Desired, container: Container, error: BOOLEAN]

NewRow(status, config) ==
  [status |-> status, container |-> None, error |-> FALSE,
   desired |-> [config |-> config, env |-> config, domains |-> None]]

Here(w) == row[w].status # "absent"

Working == {"start", "mark", "prepare", "unpack", "remove", "run", "port", "record",
            "fail", "failed", "report", "rethrow"}

AtWork(o) == \E k \in Attempt : run[o][k].pc \in Working

Progress ==
  [op: {"none", "create", "config", "env", "domains", "deploy", "push"},
   pc: {"idle", "update", "next", "dispatch", "mark", "done"},
   at: Workload \cup {None}, todo: SUBSET Workload]

Idle == [op |-> "none", pc |-> "idle", at |-> None, todo |-> {}]

Serves(q, w) == req[q].pc \notin {"idle", "done"} /\ (req[q].at = w \/ w \in req[q].todo)

(* Requests and workflows that are under way for w. *)
Engaged(q, w) == Serves(q, w) \/ Temporal!WorkflowOpen(<<q, w>>) \/ AtWork(<<q, w>>)

UnderWay(w) == \E q \in Request : Engaged(q, w)

NoRead == [w \in Workload |-> NewRow("absent", None)]

NoDesired == [config |-> None, env |-> None, domains |-> None]

FirstRow == [NewRow("available", First) EXCEPT !.container = <<First, 1>>]

Init ==
  /\ row = [w \in Workload |-> IF w \in Deployed THEN FirstRow ELSE NewRow("absent", None)]
  /\ req = [q \in Request |-> Idle]
  /\ seen = [q \in Request |-> NoRead]
  /\ payload = [o \in Op |-> NoDesired]
  /\ Temporal!RetryInit
  /\ run = [o \in Op |-> [k \in Attempt |-> [pc |-> "idle", saw |-> None, err |-> FALSE]]]
  /\ docker = [w \in Workload |->
                 IF w \in Deployed THEN [id |-> <<First, 1>>, runs |-> FirstRow.desired]
                 ELSE [id |-> None, runs |-> NoDesired]]
  /\ image = [w \in Workload |-> IF w \in Deployed /\ First \in Built THEN First ELSE None]
  /\ staging = [w \in Workload |-> IF w \in Deployed /\ First \in Bundled THEN First ELSE None]
  /\ stranded = {} /\ disturbed = {} /\ losses = 0 /\ races = 0

-----------------------------------------------------------------------------
(***************************************************************************)
(* The API.                                                                *)
(***************************************************************************)
ReqAt(q, pc) == req[q].pc = pc

ReqGoto(q, pc) == req' = [req EXCEPT ![q].pc = pc]

(* What a request read is forgotten with it. *)
Forget == seen' = [q \in Request |-> IF req'[q].pc = "done" THEN NoRead ELSE seen[q]]

(* A request that deploys ends; a webhook goes on with the next workload. *)
AfterDispatch(q) == IF req[q].todo = {} THEN "done" ELSE "next"

(* A request about the workloads W arrives.  Those at which others are     *)
(* under way are disturbed.                                                *)
Arrive(q, W) ==
  /\ ReqAt(q, "idle")
  /\ LET busy == {w \in W : UnderWay(w)}
     IN  (Overlapping \/ busy = {}) /\ disturbed' = disturbed \cup busy

(* POST workloads, configured or not. *)
CreateWorkload(q, w, configured) ==
  /\ Arrive(q, {w}) /\ ~Here(w)
  /\ row' = [row EXCEPT ![w] = IF configured THEN NewRow("requested", q)
                               ELSE NewRow("draft", None)]
  /\ seen' = [seen EXCEPT ![q] = IF configured THEN [NoRead EXCEPT ![w] = row'[w]] ELSE @]
  /\ req' = [req EXCEPT ![q] = [op |-> "create", at |-> w, todo |-> {},
                                pc |-> IF configured THEN "dispatch" ELSE "done"]]
  /\ UNCHANGED <<temporalVars, run, dockerVars, faultVars>>

(* A workload is configured once its kind and its configuration are set.   *)
Deployable(w) == row[w].desired.config # None

(* assertWorkloadAccess loads the row; only a config may be given to a     *)
(* workload that has none.                                                 *)
ReadWorkload(q, w, op) ==
  /\ Arrive(q, {w}) /\ Here(w)
  /\ op = "config" \/ Deployable(w)
  /\ seen' = [seen EXCEPT ![q][w] = row[w]]
  /\ req' = [req EXCEPT ![q] = [op |-> op, at |-> w, todo |-> {}, pc |-> "update"]]
  /\ UNCHANGED <<row, temporalVars, run, dockerVars, faultVars>>

(* PATCH config: the desired state is built anew, with the ingress of the  *)
(* row that was read; the observed state is written back without error.    *)
PatchConfig(q, withEnv) ==
  /\ ReqAt(q, "update") /\ req[q].op = "config"
  /\ LET w == req[q].at  old == seen[q][w]
     IN  row' = [row EXCEPT ![w] =
           [status |-> "draft", container |-> old.container, error |-> FALSE,
            desired |-> [config |-> q, env |-> IF withEnv THEN q ELSE None,
                         domains |-> old.desired.domains]]]
  /\ ReqGoto(q, "done")
  /\ Forget
  /\ UNCHANGED <<temporalVars, run, dockerVars, disturbed, faultVars>>

(* What request q asks of the workload it read. *)
Wanted(q, w) ==
  LET old == seen[q][w].desired
  IN  CASE req[q].op = "env" -> [old EXCEPT !.env = q]
        [] req[q].op = "domains" -> [old EXCEPT !.domains = q]
        [] OTHER -> old

(* PATCH workload (env), PATCH domains: the whole desired state is written *)
(* from what was read.                                                     *)
PatchDesired(q) ==
  /\ ReqAt(q, "update") /\ req[q].op \in {"env", "domains"}
  /\ row' = [row EXCEPT ![req[q].at].desired = Wanted(q, req[q].at),
                        ![req[q].at].status = "provisioning"]
  /\ ReqGoto(q, "dispatch")
  /\ UNCHANGED <<seen, temporalVars, run, dockerVars, disturbed, faultVars>>

(* POST deploy, POST rebuild: only the status. *)
Redeploy(q) ==
  /\ ReqAt(q, "update") /\ req[q].op = "deploy"
  /\ row' = [row EXCEPT ![req[q].at].status = "provisioning"]
  /\ ReqGoto(q, "dispatch")
  /\ UNCHANGED <<seen, temporalVars, run, dockerVars, disturbed, faultVars>>

(* The push webhook selects all workloads and keeps those that follow the  *)
(* branch.                                                                 *)
MatchesPush(w) == row[w].desired.config \in Tracked

ReceivePush(q) ==
  LET matching == {w \in Workload : Here(w) /\ MatchesPush(w)}
  IN  /\ Arrive(q, matching) /\ matching # {}
      /\ seen' = [seen EXCEPT ![q] = row]
      /\ req' = [req EXCEPT ![q] = [op |-> "push", at |-> None, todo |-> matching, pc |-> "next"]]
      /\ UNCHANGED <<row, temporalVars, run, dockerVars, faultVars>>

(* Mutant of DeployNext: the workloads are all marked before the first is  *)
(* deployed.                                                               *)
MarkAllFirst(q, w) ==
  /\ ReqAt(q, "next") /\ w \in req[q].todo
  /\ row' = [v \in Workload |-> IF v \in req[q].todo
                                THEN [row[v] EXCEPT !.status = "provisioning"] ELSE row[v]]
  /\ req' = [req EXCEPT ![q].at = w, ![q].todo = @ \ {w}, ![q].pc = "dispatch"]
  /\ UNCHANGED <<seen, temporalVars, run, dockerVars, disturbed, faultVars>>

(* deployWorkloadFromWebhook for the next of them. *)
DeployNext(q, w) ==
  /\ ReqAt(q, "next") /\ w \in req[q].todo
  /\ row' = [row EXCEPT ![w].status = "provisioning"]
  /\ req' = [req EXCEPT ![q].at = w, ![q].todo = @ \ {w}, ![q].pc = "dispatch"]
  /\ UNCHANGED <<seen, temporalVars, run, dockerVars, disturbed, faultVars>>

DispatchAccepted(q) ==
  LET o == <<q, req[q].at>>
  IN  /\ ReqAt(q, "dispatch")
      /\ Temporal!Start(o)
      /\ payload' = [payload EXCEPT ![o] = Wanted(q, req[q].at)]
      /\ ReqGoto(q, AfterDispatch(q))
      /\ Forget
      /\ UNCHANGED <<row, run, dockerVars, disturbed, faultVars>>

DispatchThrows(q) ==
  /\ ReqAt(q, "dispatch")
  /\ ReqGoto(q, "mark")
  /\ UNCHANGED <<row, seen, temporalVars, run, dockerVars, disturbed, faultVars>>

(* Temporal started the workflow and the connection broke. *)
LoseReply(q) ==
  LET o == <<q, req[q].at>>
  IN  /\ ReqAt(q, "dispatch") /\ races < MaxRaces
      /\ Temporal!Start(o)
      /\ payload' = [payload EXCEPT ![o] = Wanted(q, req[q].at)]
      /\ ReqGoto(q, "mark")
      /\ races' = races + 1 /\ disturbed' = disturbed \cup {req[q].at}
      /\ UNCHANGED <<row, seen, run, dockerVars, stranded, losses>>

(* startWorkloadProvisioning marks the workload with the observed state    *)
(* that was read before, and answers 503; a webhook is over with that.     *)
MarkNotStarted(q) ==
  /\ ReqAt(q, "mark")
  /\ LET w == req[q].at
     IN  row' = [row EXCEPT ![w].status = "failed", ![w].error = TRUE,
                            ![w].container = seen[q][w].container]
  /\ req' = [req EXCEPT ![q].pc = "done", ![q].todo = {}]
  /\ Forget
  /\ UNCHANGED <<temporalVars, run, dockerVars, disturbed, faultVars>>

(* A statement of a request fails, the mark included (its error is         *)
(* swallowed).                                                             *)
RequestFails(q) ==
  /\ losses < MaxLosses
  /\ req[q].pc \in {"update", "next", "mark"}
  /\ stranded' = IF ReqAt(q, "mark") THEN stranded \cup {req[q].at} ELSE stranded
  /\ req' = [req EXCEPT ![q].pc = "done", ![q].todo = {}]
  /\ losses' = losses + 1
  /\ Forget
  /\ UNCHANGED <<row, temporalVars, run, dockerVars, disturbed, races>>

ApiCrash ==
  /\ losses < MaxLosses
  /\ \E q \in Request : req[q].pc \notin {"idle", "done"}
  /\ stranded' = stranded \cup {req[q].at : q \in {p \in Request : req[p].pc \in {"dispatch", "mark"}}}
  /\ req' = [q \in Request |-> IF req[q].pc \in {"idle", "done"} THEN req[q]
                               ELSE [req[q] EXCEPT !.pc = "done", !.todo = {}]]
  /\ losses' = losses + 1
  /\ Forget
  /\ UNCHANGED <<row, temporalVars, run, dockerVars, disturbed, races>>

-----------------------------------------------------------------------------
(***************************************************************************)
(* provisionWorkloadActivity, attempt k of o, and the provider under it.   *)
(***************************************************************************)
At(o, k, pc) == run[o][k].pc = pc

Goto(o, k, pc) == run' = [run EXCEPT ![o][k] = [pc |-> pc, saw |-> None, err |-> FALSE]]

Of(o) == o[2]
Config(o) == payload[o].config

PickUp(o) ==
  /\ Temporal!Poll(o)
  /\ Goto(o, attempts[o] + 1, "start")
  /\ UNCHANGED <<row, req, seen, payload, dockerVars, disturbed, faultVars>>

TimeOut(o) ==
  /\ Temporal!Expire(o)
  /\ IF At(o, attempts[o], "over")
     THEN UNCHANGED <<disturbed, races>>
     ELSE races < MaxRaces /\ races' = races + 1 /\ disturbed' = disturbed \cup {Of(o)}
  /\ UNCHANGED <<row, req, seen, payload, run, dockerVars, stranded, losses>>

(* The observed state is read, changed and written, three times. *)
ReadObserved(o, k, from, to) ==
  /\ At(o, k, from)
  /\ run' = [run EXCEPT ![o][k] = [pc |-> to, saw |-> row[Of(o)].container,
                                   err |-> row[Of(o)].error]]
  /\ UNCHANGED <<row, req, seen, temporalVars, dockerVars, disturbed, faultVars>>

Observe(w, status, container, error) ==
  row' = [row EXCEPT ![w].status = status, ![w].container = container, ![w].error = error]

MarkProvisioning(o, k) ==
  /\ At(o, k, "mark")
  /\ Observe(Of(o), "provisioning", run[o][k].saw, run[o][k].err)
  /\ Goto(o, k, "prepare")
  /\ UNCHANGED <<req, seen, temporalVars, dockerVars, disturbed, faultVars>>

(* A config with an image needs nothing; docker build moves the tag; a     *)
(* bundle is unpacked over the emptied staging directory.                  *)
Prepare(o, k) ==
  /\ At(o, k, "prepare")
  /\ \/ Config(o) \notin Built \cup Bundled /\ Goto(o, k, "remove") /\ UNCHANGED <<image, staging>>
     \/ /\ Config(o) \in Built /\ Goto(o, k, "remove")
        /\ image' = [image EXCEPT ![Of(o)] = Config(o)] /\ UNCHANGED staging
     \/ /\ Config(o) \in Bundled /\ Goto(o, k, "unpack")
        /\ staging' = [staging EXCEPT ![Of(o)] = None] /\ UNCHANGED image
  /\ UNCHANGED <<row, req, seen, temporalVars, docker, disturbed, faultVars>>

Unpack(o, k) ==
  /\ At(o, k, "unpack")
  /\ staging' = [staging EXCEPT ![Of(o)] = Config(o)]
  /\ Goto(o, k, "remove")
  /\ UNCHANGED <<row, req, seen, temporalVars, docker, image, disturbed, faultVars>>

(* docker rm -f, whose errors are ignored. *)
RemoveContainer(o, k) ==
  /\ At(o, k, "remove")
  /\ docker' = [docker EXCEPT ![Of(o)] = [id |-> None, runs |-> NoDesired]]
  /\ Goto(o, k, "run")
  /\ UNCHANGED <<row, req, seen, temporalVars, image, staging, disturbed, faultVars>>

(* docker run --name: it needs the name free, and takes the image the tag  *)
(* says now.                                                               *)
RunContainer(o, k) ==
  /\ At(o, k, "run") /\ docker[Of(o)].id = None
  /\ docker' = [docker EXCEPT ![Of(o)] =
                  [id |-> <<o[1], k>>,
                   runs |-> IF Config(o) \in Built THEN [payload[o] EXCEPT !.config = image[Of(o)]]
                            ELSE payload[o]]]
  /\ Goto(o, k, "port")
  /\ UNCHANGED <<row, req, seen, temporalVars, image, staging, disturbed, faultVars>>

(* Mutant of ProviderThrows: the error of docker run is swallowed. *)
RunUnchecked(o, k) ==
  /\ run[o][k].pc \in {"prepare", "unpack", "run", "port"}
  /\ Goto(o, k, IF At(o, k, "run") THEN "record" ELSE "fail")
  /\ UNCHANGED <<row, req, seen, temporalVars, dockerVars, disturbed, faultVars>>

(* The build, the download, docker run or docker port fails; the container *)
(* docker port asked about stays.                                          *)
ProviderThrows(o, k) ==
  /\ run[o][k].pc \in {"prepare", "unpack", "run", "port"}
  /\ Goto(o, k, "fail")
  /\ UNCHANGED <<row, req, seen, temporalVars, dockerVars, disturbed, faultVars>>

AskPort(o, k) ==
  /\ At(o, k, "port")
  /\ Goto(o, k, "record")
  /\ UNCHANGED <<row, req, seen, temporalVars, dockerVars, disturbed, faultVars>>

(* Container and error of the observed state that was read are replaced.   *)
MarkAvailable(o, k) ==
  /\ At(o, k, "record")
  /\ Observe(Of(o), "available", <<o[1], k>>, FALSE)
  /\ Goto(o, k, "report")
  /\ UNCHANGED <<req, seen, temporalVars, dockerVars, disturbed, faultVars>>

(* Mutant of MarkFailed: the catch only throws on. *)
ThrowUnmarked(o, k) ==
  /\ At(o, k, "failed")
  /\ Goto(o, k, "rethrow")
  /\ UNCHANGED <<row, req, seen, temporalVars, dockerVars, disturbed, faultVars>>

MarkFailed(o, k) ==
  /\ At(o, k, "failed")
  /\ Observe(Of(o), "failed", run[o][k].saw, TRUE)
  /\ Goto(o, k, "rethrow")
  /\ UNCHANGED <<req, seen, temporalVars, dockerVars, disturbed, faultVars>>

ReportResult(o, k) ==
  /\ At(o, k, "report")
  /\ Temporal!Returns(o, k)
  /\ Goto(o, k, "over")
  /\ UNCHANGED <<row, req, seen, payload, dockerVars, disturbed, faultVars>>

Rethrow(o, k) ==
  /\ At(o, k, "rethrow")
  /\ Temporal!Throws(o, k)
  /\ Goto(o, k, "over")
  /\ UNCHANGED <<row, req, seen, payload, dockerVars, disturbed, faultVars>>

(* When its attempts K end, Temporal starts another one of o. *)
Retried(o, K) == wf[o] = "started" /\ attempts[o] \in K /\ attempts[o] < MaxAttempts

StatementFails(o, k) ==
  /\ losses < MaxLosses
  /\ \/ run[o][k].pc \in {"start", "mark", "fail", "failed"} /\ Goto(o, k, "rethrow")
     \/ At(o, k, "record") /\ Goto(o, k, "fail")
  /\ stranded' = IF At(o, k, "record") \/ Retried(o, {k}) THEN stranded
                 ELSE stranded \cup {Of(o)}
  /\ losses' = losses + 1
  /\ UNCHANGED <<row, req, seen, temporalVars, dockerVars, disturbed, races>>

WorkerCrash ==
  LET hit == {o \in Op : AtWork(o)}
      lost == {o \in hit : ~Retried(o, Attempt)}
  IN  /\ losses < MaxLosses /\ hit # {}
      /\ run' = [o \in Op |-> [k \in Attempt |->
                   IF At(o, k, "idle") THEN run[o][k]
                   ELSE [pc |-> "over", saw |-> None, err |-> FALSE]]]
      /\ stranded' = stranded \cup {Of(o) : o \in lost}
      /\ losses' = losses + 1
      /\ UNCHANGED <<row, req, seen, temporalVars, dockerVars, disturbed, races>>

-----------------------------------------------------------------------------
Enter(q) ==
  \/ \E w \in Workload, configured \in BOOLEAN : CreateWorkload(q, w, configured)
  \/ \E w \in Workload, op \in {"config", "env", "domains", "deploy"} : ReadWorkload(q, w, op)
  \/ ReceivePush(q)

Serve(q) ==
  \/ \E withEnv \in BOOLEAN : PatchConfig(q, withEnv)
  \/ PatchDesired(q) \/ Redeploy(q)
  \/ \E w \in Workload : DeployNext(q, w)
  \/ DispatchAccepted(q) \/ DispatchThrows(q) \/ MarkNotStarted(q)

Work(o, k) ==
  \/ ReadObserved(o, k, "start", "mark") \/ MarkProvisioning(o, k)
  \/ Prepare(o, k) \/ Unpack(o, k) \/ RemoveContainer(o, k) \/ RunContainer(o, k)
  \/ ProviderThrows(o, k) \/ AskPort(o, k) \/ MarkAvailable(o, k)
  \/ ReadObserved(o, k, "fail", "failed") \/ MarkFailed(o, k)
  \/ ReportResult(o, k) \/ Rethrow(o, k)

Next ==
  \/ \E q \in Request : Enter(q) \/ Serve(q) \/ LoseReply(q) \/ RequestFails(q)
  \/ \E o \in Op : PickUp(o) \/ TimeOut(o)
  \/ \E o \in Op, k \in Attempt : Work(o, k) \/ StatementFails(o, k)
  \/ ApiCrash \/ WorkerCrash

Spec == Init /\ [][Next]_vars

(* The API finishes its requests, a worker polls and runs its attempts,    *)
(* Temporal keeps its timers.                                              *)
Fairness ==
  /\ \A q \in Request : WF_vars(Serve(q))
  /\ \A o \in Op : /\ WF_vars(PickUp(o)) /\ WF_vars(TimeOut(o))
                   /\ \A k \in Attempt : WF_vars(Work(o, k))

FairSpec == Spec /\ Fairness

-----------------------------------------------------------------------------
(* The type invariant. *)
TypeOK ==
  /\ row \in [Workload -> Row]
  /\ req \in [Request -> Progress]
  /\ seen \in [Request -> [Workload -> Row]]
  /\ payload \in [Op -> Desired]
  /\ Temporal!RetryTypeOK
  /\ run \in [Op -> [Attempt -> [pc: Working \cup {"idle", "over"}, saw: Container, err: BOOLEAN]]]
  /\ docker \in [Workload -> [id: Container, runs: Desired]]
  /\ image \in [Workload -> Maybe] /\ staging \in [Workload -> Maybe]
  /\ stranded \subseteq Workload /\ disturbed \subseteq Workload
  /\ losses \in 0 .. MaxLosses /\ races \in 0 .. MaxRaces

(* What a container runs is its image, but a bundle is mounted. *)
Runs(w) ==
  LET c == docker[w].runs
  IN  IF c.config \in Bundled THEN [c EXCEPT !.config = staging[w]] ELSE c

(* A workload that is available and at rest has the container that its     *)
(* observed state names, and that runs what its desired state asks for,    *)
(* through failed builds, retries, crashes and lost statements, unless     *)
(* requests or attempts overlapped on it.                                  *)
AvailableIsDeployed ==
  \A w \in Workload \ disturbed :
    row[w].status = "available" /\ ~UnderWay(w) =>
      /\ docker[w].id = row[w].container
      /\ Runs(w) = row[w].desired

(* "Saving persists changes and redeploys this workload", says the         *)
(* environment panel: with every request served and every workflow closed, *)
(* an available workload runs its desired state.                           *)
SavedIsDeployed ==
  \A w \in Workload : row[w].status = "available" /\ ~UnderWay(w) => Runs(w) = row[w].desired

(* A workload says requested or provisioning only while something is under *)
(* way for it; a webhook that stops half-way leaves no marks.              *)
ProvisioningIsUnderWay ==
  \A w \in Workload \ stranded :
    row[w].status \in {"requested", "provisioning"} => UnderWay(w)

(* Every workload that is being provisioned comes to rest. *)
WorkloadSettles ==
  \A w \in Workload :
    row[w].status \in {"requested", "provisioning"} ~>
      row[w].status \in {"draft", "available", "failed"} \/ w \in stranded
=============================================================================
