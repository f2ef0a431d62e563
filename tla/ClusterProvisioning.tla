------------------------- MODULE ClusterProvisioning -------------------------
(***************************************************************************)
(* Database clusters: POST databases records a cluster and its main branch *)
(* and starts provision-<cluster>; provisionClusterActivity writes back in *)
(* one transaction; requests that read a cluster, or connect to a branch   *)
(* of it, take several statements in between.                              *)
(*                                                                         *)
(* Simplifications: the local provider gives localhost:5432 and does not   *)
(* fail, so a cluster has at most one endpoint row; restores of the main   *)
(* branch and what happens to other branches are module BranchLifecycle.   *)
(***************************************************************************)
EXTENDS Naturals

CONSTANTS
  Cluster,        \* cluster ids, each also the id of its workflow
  Reader,         \* requests that serialize a cluster
  MaxAttempts,    \* maximumAttempts of the activity
  MaxFaults,      \* bound: crashes, failed statements, lost replies
  MaxRaces        \* bound: timeouts of running attempts

VARIABLES
  cluster,      \* database_clusters.status
  main,         \* status of the branch named main
  endpoint,     \* is there an endpoints row of the cluster?
  opening,      \* requests for a branch that found no endpoint, and insert one
  api,          \* where POST databases is with the cluster
  wf, attempts, \* Temporal
  run,          \* run[c][k]: the next step of attempt k
  reader,       \* the requests that read
  stranded,     \* history: clusters whose dispatch, marks or last attempt were lost
  crossed,      \* history: clusters that run although their dispatch failed
  faults, races

temporalVars == <<wf, attempts>>
rowVars == <<cluster, main, endpoint>>
faultVars == <<stranded, crossed, faults, races>>
vars == <<cluster, main, endpoint, opening, api, wf, attempts, run, reader,
          stranded, crossed, faults, races>>

Attempt == 1 .. MaxAttempts

Temporal == INSTANCE ActivityRetry WITH Op <- Cluster

ClusterStatus == {"absent", "requested", "provisioning", "available", "failed"}
BranchStatus == {"absent", "creating", "ready", "failed"}

Unread == [step |-> "idle", status |-> "absent", main |-> "absent", endpoint |-> FALSE]

TypeOK ==
  /\ cluster \in [Cluster -> ClusterStatus]
  /\ main \in [Cluster -> BranchStatus]
  /\ endpoint \in [Cluster -> BOOLEAN]
  /\ opening \subseteq Cluster
  /\ api \in [Cluster -> {"idle", "dispatch", "mark", "markBranches"}]
  /\ Temporal!RetryTypeOK
  /\ run \in [Cluster -> [Attempt ->
       {"idle", "start", "record", "fail", "report", "rethrow", "over"}]]
  /\ reader \in [Reader -> [Cluster ->
       [step : {"idle", "branches", "endpoint", "answered"},
        status : ClusterStatus, main : BranchStatus, endpoint : BOOLEAN]]]
  /\ stranded \subseteq Cluster /\ crossed \subseteq Cluster
  /\ faults \in 0 .. MaxFaults /\ races \in 0 .. MaxRaces

Init ==
  /\ cluster = [c \in Cluster |-> "absent"]
  /\ main = [c \in Cluster |-> "absent"]
  /\ endpoint = [c \in Cluster |-> FALSE]
  /\ opening = {}
  /\ api = [c \in Cluster |-> "idle"]
  /\ Temporal!RetryInit
  /\ run = [c \in Cluster |-> [k \in Attempt |-> "idle"]]
  /\ reader = [r \in Reader |-> [c \in Cluster |-> Unread]]
  /\ stranded = {} /\ crossed = {} /\ faults = 0 /\ races = 0

-----------------------------------------------------------------------------
(* POST databases. *)

(* One transaction inserts the cluster and main. *)
CreateDatabase(c) ==
  /\ cluster[c] = "absent"
  /\ cluster' = [cluster EXCEPT ![c] = "requested"]
  /\ main' = [main EXCEPT ![c] = "creating"]
  /\ api' = [api EXCEPT ![c] = "dispatch"]
  /\ UNCHANGED <<endpoint, opening, temporalVars, run, reader, faultVars>>

DispatchAccepted(c) ==
  /\ api[c] = "dispatch"
  /\ Temporal!Start(c)
  /\ api' = [api EXCEPT ![c] = "idle"]
  /\ UNCHANGED <<rowVars, opening, run, reader, faultVars>>

DispatchThrows(c) ==
  /\ api[c] = "dispatch"
  /\ api' = [api EXCEPT ![c] = "mark"]
  /\ UNCHANGED <<rowVars, opening, temporalVars, run, reader, faultVars>>

(* The workflow started, and the caller is told that it did not. *)
LoseReply(c) ==
  /\ api[c] = "dispatch"
  /\ faults < MaxFaults /\ faults' = faults + 1
  /\ Temporal!Start(c)
  /\ api' = [api EXCEPT ![c] = "mark"]
  /\ crossed' = crossed \cup {c}
  /\ UNCHANGED <<rowVars, opening, run, reader, stranded, races>>

(* Mutant of MarkCluster: the answer 503 is all that follows. *)
AnswerOnly(c) ==
  /\ api[c] = "mark"
  /\ api' = [api EXCEPT ![c] = "idle"]
  /\ UNCHANGED <<rowVars, opening, temporalVars, run, reader, faultVars>>

MarkCluster(c) ==
  /\ api[c] = "mark"
  /\ cluster' = [cluster EXCEPT ![c] = "failed"]
  /\ api' = [api EXCEPT ![c] = "markBranches"]
  /\ UNCHANGED <<main, endpoint, opening, temporalVars, run, reader, faultVars>>

MarkBranches(c) ==
  /\ api[c] = "markBranches"
  /\ main' = [main EXCEPT ![c] = "failed"]
  /\ api' = [api EXCEPT ![c] = "idle"]
  /\ UNCHANGED <<cluster, endpoint, opening, temporalVars, run, reader, faultVars>>

(* The error of either mark is swallowed; the API may end at any step. *)
ApiFails(c) ==
  /\ faults < MaxFaults /\ faults' = faults + 1
  /\ \/ api[c] = "mark" /\ api' = [api EXCEPT ![c] = "markBranches"]
     \/ api[c] # "idle" /\ api' = [api EXCEPT ![c] = "idle"]
  /\ stranded' = stranded \cup {c}
  /\ UNCHANGED <<rowVars, opening, temporalVars, run, reader, crossed, races>>

-----------------------------------------------------------------------------
(* provisionClusterActivity. *)

At(c, k, step) == run[c][k] = step

Goto(c, k, step) == run' = [run EXCEPT ![c][k] = step]

AtWork(c) == \E k \in Attempt : run[c][k] \notin {"idle", "over"}

PickUp(c) ==
  /\ Temporal!Poll(c)
  /\ Goto(c, attempts[c] + 1, "start")
  /\ UNCHANGED <<rowVars, opening, api, reader, faultVars>>

TimeOut(c) ==
  /\ Temporal!Expire(c)
  /\ IF At(c, attempts[c], "over") THEN UNCHANGED races
     ELSE races < MaxRaces /\ races' = races + 1
  /\ UNCHANGED <<rowVars, opening, api, run, reader, stranded, crossed, faults>>

MarkProvisioning(c, k) ==
  /\ At(c, k, "start")
  /\ cluster' = [cluster EXCEPT ![c] = "provisioning"]
  /\ Goto(c, k, "record")
  /\ UNCHANGED <<main, endpoint, opening, api, temporalVars, reader, faultVars>>

(* Mutant of RecordProvisioned: no transaction, the cluster comes first.   *)
RecordInTurn(c, k) ==
  /\ At(c, k, "record")
  /\ IF cluster[c] # "available"
     THEN cluster' = [cluster EXCEPT ![c] = "available"] /\ UNCHANGED <<main, endpoint, run>>
     ELSE /\ main' = [main EXCEPT ![c] = "ready"]
          /\ endpoint' = [endpoint EXCEPT ![c] = TRUE]
          /\ Goto(c, k, "report")
          /\ UNCHANGED cluster
  /\ UNCHANGED <<opening, api, temporalVars, reader, faultVars>>

(* One transaction: the cluster, main, and the endpoint, whose row may be  *)
(* there already.                                                          *)
RecordProvisioned(c, k) ==
  /\ At(c, k, "record")
  /\ cluster' = [cluster EXCEPT ![c] = "available"]
  /\ main' = [main EXCEPT ![c] = "ready"]
  /\ endpoint' = [endpoint EXCEPT ![c] = TRUE]
  /\ Goto(c, k, "report")
  /\ UNCHANGED <<opening, api, temporalVars, reader, faultVars>>

(* The catch block marks the cluster and leaves main as it is. *)
MarkFailed(c, k) ==
  /\ At(c, k, "fail")
  /\ cluster' = [cluster EXCEPT ![c] = "failed"]
  /\ Goto(c, k, "rethrow")
  /\ UNCHANGED <<main, endpoint, opening, api, temporalVars, reader, faultVars>>

ReportResult(c, k) ==
  /\ At(c, k, "report")
  /\ Temporal!Returns(c, k)
  /\ Goto(c, k, "over")
  /\ UNCHANGED <<rowVars, opening, api, reader, faultVars>>

Rethrow(c, k) ==
  /\ At(c, k, "rethrow")
  /\ Temporal!Throws(c, k)
  /\ Goto(c, k, "over")
  /\ UNCHANGED <<rowVars, opening, api, reader, faultVars>>

(* When attempt k ends, Temporal starts another one. *)
Retried(c, k) == wf[c] = "started" /\ attempts[c] = k /\ k < MaxAttempts

(* A statement inside the try block leads to the catch block; one outside, *)
(* or the catch block's own, to Temporal.                                  *)
StatementFails(c, k) ==
  /\ faults < MaxFaults /\ faults' = faults + 1
  /\ \/ /\ At(c, k, "record")
        /\ Goto(c, k, "fail")
        /\ UNCHANGED stranded
     \/ /\ run[c][k] \in {"start", "fail"}
        /\ Goto(c, k, "rethrow")
        /\ stranded' = IF Retried(c, k) THEN stranded ELSE stranded \cup {c}
  /\ UNCHANGED <<rowVars, opening, api, temporalVars, reader, crossed, races>>

WorkerCrash ==
  LET lost == {c \in Cluster : \E k \in Attempt : run[c][k] \notin {"idle", "over"} /\ ~Retried(c, k)}
  IN /\ faults < MaxFaults /\ faults' = faults + 1
     /\ \E c \in Cluster : AtWork(c)
     /\ run' = [c \in Cluster |-> [k \in Attempt |->
                  IF At(c, k, "idle") THEN "idle" ELSE "over"]]
     /\ stranded' = stranded \cup lost
     /\ UNCHANGED <<rowVars, opening, api, temporalVars, reader, crossed, races>>

-----------------------------------------------------------------------------
(* Requests that read a cluster, and requests that connect to a branch.    *)

Exists(c) == cluster[c] # "absent"

(* The caller of serializeDatabase has read the cluster's row. *)
ReadCluster(r, c) ==
  /\ Exists(c)
  /\ reader[r][c].step \in {"idle", "answered"}
  /\ reader' = [reader EXCEPT ![r][c] =
       [step |-> "branches", status |-> cluster[c], main |-> "absent", endpoint |-> FALSE]]
  /\ UNCHANGED <<rowVars, opening, api, temporalVars, run, faultVars>>

ReadBranches(r, c) ==
  /\ reader[r][c].step = "branches"
  /\ reader' = [reader EXCEPT ![r][c] =
       [step |-> "endpoint", status |-> @.status, main |-> main[c], endpoint |-> FALSE]]
  /\ UNCHANGED <<rowVars, opening, api, temporalVars, run, faultVars>>

ReadEndpoint(r, c) ==
  /\ reader[r][c].step = "endpoint"
  /\ reader' = [reader EXCEPT ![r][c] =
       [step |-> "answered", status |-> @.status, main |-> @.main, endpoint |-> endpoint[c]]]
  /\ UNCHANGED <<rowVars, opening, api, temporalVars, run, faultVars>>

(* loadBranchEndpoint finds none and inserts localhost:5432, or updates    *)
(* the row the worker has inserted meanwhile.                              *)
LookForEndpoint(c) ==
  /\ Exists(c) /\ ~endpoint[c]
  /\ opening' = opening \cup {c}
  /\ UNCHANGED <<rowVars, api, temporalVars, run, reader, faultVars>>

AddEndpoint(c) ==
  /\ c \in opening
  /\ endpoint' = [endpoint EXCEPT ![c] = TRUE]
  /\ opening' = opening \ {c}
  /\ UNCHANGED <<cluster, main, api, temporalVars, run, reader, faultVars>>

-----------------------------------------------------------------------------
Work(c, k) ==
  \/ MarkProvisioning(c, k) \/ RecordProvisioned(c, k) \/ MarkFailed(c, k)
  \/ ReportResult(c, k) \/ Rethrow(c, k) \/ StatementFails(c, k)

Next ==
  \/ \E c \in Cluster :
       \/ CreateDatabase(c) \/ DispatchAccepted(c) \/ DispatchThrows(c) \/ LoseReply(c)
       \/ MarkCluster(c) \/ MarkBranches(c) \/ ApiFails(c)
       \/ PickUp(c) \/ TimeOut(c)
       \/ \E k \in Attempt : Work(c, k)
       \/ \E r \in Reader : ReadCluster(r, c) \/ ReadBranches(r, c) \/ ReadEndpoint(r, c)
       \/ LookForEndpoint(c) \/ AddEndpoint(c)
  \/ WorkerCrash

Spec == Init /\ [][Next]_vars

-----------------------------------------------------------------------------
(* A cluster says requested or provisioning only while something is under  *)
(* way for it.                                                             *)
RequestedIsUnderWay ==
  \A c \in Cluster \ stranded :
    cluster[c] \in {"requested", "provisioning"} =>
      api[c] # "idle" \/ Temporal!WorkflowOpen(c) \/ AtWork(c)

(* An answer that says available lists main as ready and has an endpoint,  *)
(* although it is put together from three statements while the worker and  *)
(* other requests write; only a workflow that runs although its dispatch   *)
(* was reported as failed can break it.                                    *)
AnswerIsWhole ==
  \A r \in Reader, c \in Cluster \ crossed :
    reader[r][c].step = "answered" /\ reader[r][c].status = "available" =>
      reader[r][c].main = "ready" /\ reader[r][c].endpoint
=============================================================================
