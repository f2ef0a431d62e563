---------------------------- MODULE PlatformProofs -----------------------------
(***************************************************************************)
(* What the components of MCPlatform guarantee: the clusters for every set *)
(* of clusters and readers, every limit of attempts and every number of    *)
(* faults and timeouts; the settings of the control plane's domain for     *)
(* every set of hosts, addresses and overlapping PATCHes and every number  *)
(* of faults; the slugs of projects for every finite set of requests and   *)
(* every limit of attempts; the dashboard's cache for every number of      *)
(* mutations, failures and steps of the worker; and the git providers, see *)
(* GitProvidersProofs.                                                     *)
(***************************************************************************)
EXTENDS MCPlatform, FiniteSetTheorems, WellFoundedInduction, TLAPS

(***************************************************************************)
(* Clusters.                                                               *)
(***************************************************************************)
(* The limits are numbers, and an activity is attempted at least once. *)
Bounds == MaxAttempts \in Nat \ {0} /\ MaxFaults \in Nat /\ MaxRaces \in Nat

(* What a request has read of a cluster. *)
Seen == [step : {"idle", "branches", "endpoint", "answered"},
         status : ClusterStatus, main : BranchStatus, endpoint : BOOLEAN]

(* Which statements come before which: a workflow has no attempt before it *)
(* starts, the request starts it at most once, and nothing precedes the    *)
(* cluster's row.                                                          *)
Order ==
  \A c \in Cluster :
    /\ wf[c] = "none" => attempts[c] = 0 /\ \A k \in Attempt : run[c][k] = "idle"
    /\ wf[c] = "scheduled" => attempts[c] < MaxAttempts
    /\ wf[c] = "started" => attempts[c] > 0
    /\ api[c] = "dispatch" => wf[c] = "none"
    /\ cluster[c] = "absent" => wf[c] = "none" /\ api[c] = "idle" /\ main[c] = "absent"
    /\ api[c] \in {"mark", "markBranches"} /\ c \notin crossed => wf[c] = "none"

Typed == TypeOK /\ Order

(* What holds in the first state. *)
LEMMA Starts == Bounds /\ Init => Typed
BY DEF Bounds, Init, Typed, TypeOK, Order, Unread, Attempt, ClusterStatus, BranchStatus,
       Temporal!RetryInit, Temporal!RetryTypeOK

(* One request reads something of one cluster. *)
LEMMA SeenUpdate ==
  ASSUME NEW f \in [Reader -> [Cluster -> Seen]], NEW r \in Reader, NEW c \in Cluster, NEW s \in Seen
  PROVE  [f EXCEPT ![r][c] = s] \in [Reader -> [Cluster -> Seen]]
OBVIOUS

(* Every statement keeps the types and the order. *)
LEMMA TypedStep ==
  ASSUME Bounds, Typed, [Next]_vars
  PROVE  Typed'
<1> USE DEF Typed, TypeOK, Order, Temporal!RetryTypeOK, Attempt, ClusterStatus, BranchStatus,
            rowVars, temporalVars, faultVars, Bounds
<1>1. CASE UNCHANGED vars
  BY <1>1 DEF vars
<1>2. ASSUME NEW c \in Cluster, CreateDatabase(c) PROVE Typed'
  BY <1>2 DEF CreateDatabase
<1>3. ASSUME NEW c \in Cluster, DispatchAccepted(c) PROVE Typed'
  BY <1>3 DEF DispatchAccepted, Temporal!Start
<1>4. ASSUME NEW c \in Cluster, DispatchThrows(c) PROVE Typed'
  BY <1>4 DEF DispatchThrows
<1>5. ASSUME NEW c \in Cluster, LoseReply(c) PROVE Typed'
  BY <1>5 DEF LoseReply, Temporal!Start
<1>6. ASSUME NEW c \in Cluster, MarkCluster(c) PROVE Typed'
  BY <1>6 DEF MarkCluster
<1>7. ASSUME NEW c \in Cluster, MarkBranches(c) PROVE Typed'
  BY <1>7 DEF MarkBranches
<1>8. ASSUME NEW c \in Cluster, ApiFails(c) PROVE Typed'
  <2>1. CASE api[c] = "mark" /\ api' = [api EXCEPT ![c] = "markBranches"]
    BY <1>8, <2>1 DEF ApiFails
  <2>2. CASE api[c] # "idle" /\ api' = [api EXCEPT ![c] = "idle"]
    BY <1>8, <2>2 DEF ApiFails
  <2>3. QED
    BY <1>8, <2>1, <2>2 DEF ApiFails
<1>9. ASSUME NEW c \in Cluster, PickUp(c) PROVE Typed'
  BY <1>9 DEF PickUp, Temporal!Poll, Goto
<1>10. ASSUME NEW c \in Cluster, TimeOut(c) PROVE Typed'
  BY <1>10 DEF TimeOut, Temporal!Expire, Temporal!RetryOrGiveUp
<1>11. ASSUME NEW c \in Cluster, NEW k \in Attempt, MarkProvisioning(c, k) PROVE Typed'
  BY <1>11 DEF MarkProvisioning, Goto, At
<1>12. ASSUME NEW c \in Cluster, NEW k \in Attempt, RecordProvisioned(c, k) PROVE Typed'
  BY <1>12 DEF RecordProvisioned, Goto, At
<1>13. ASSUME NEW c \in Cluster, NEW k \in Attempt, MarkFailed(c, k) PROVE Typed'
  BY <1>13 DEF MarkFailed, Goto, At
<1>14. ASSUME NEW c \in Cluster, NEW k \in Attempt, ReportResult(c, k) PROVE Typed'
  BY <1>14 DEF ReportResult, Goto, At, Temporal!Returns, Temporal!Current
<1>15. ASSUME NEW c \in Cluster, NEW k \in Attempt, Rethrow(c, k) PROVE Typed'
  BY <1>15 DEF Rethrow, Goto, At, Temporal!Throws, Temporal!Current, Temporal!RetryOrGiveUp
<1>16. ASSUME NEW c \in Cluster, NEW k \in Attempt, StatementFails(c, k) PROVE Typed'
  <2>1. CASE At(c, k, "record") /\ Goto(c, k, "fail") /\ UNCHANGED stranded
    BY <1>16, <2>1 DEF StatementFails, Goto, At
  <2>2. CASE run[c][k] \in {"start", "fail"} /\ Goto(c, k, "rethrow")
    BY <1>16, <2>2 DEF StatementFails, Goto, At
  <2>3. QED
    BY <1>16, <2>1, <2>2 DEF StatementFails
<1>17. CASE WorkerCrash
  BY <1>17 DEF WorkerCrash, At
<1>18. ASSUME NEW c \in Cluster, NEW r \in Reader, ReadCluster(r, c) PROVE Typed'
  <2> DEFINE s == [step |-> "branches", status |-> cluster[c], main |-> "absent", endpoint |-> FALSE]
  <2>1. s \in Seen
    BY DEF Seen
  <2>2. reader' = [reader EXCEPT ![r][c] = s]
    BY <1>18 DEF ReadCluster
  <2>3. reader' \in [Reader -> [Cluster -> Seen]]
    BY <2>1, <2>2, SeenUpdate DEF Seen
  <2>4. QED
    BY <1>18, <2>3 DEF ReadCluster, Seen
<1>19. ASSUME NEW c \in Cluster, NEW r \in Reader, ReadBranches(r, c) PROVE Typed'
  <2> DEFINE s == [step |-> "endpoint", status |-> reader[r][c].status, main |-> main[c],
                   endpoint |-> FALSE]
  <2>1. s \in Seen
    BY DEF Seen
  <2>2. reader' = [reader EXCEPT ![r][c] = s]
    BY <1>19 DEF ReadBranches
  <2>3. reader' \in [Reader -> [Cluster -> Seen]]
    BY <2>1, <2>2, SeenUpdate DEF Seen
  <2>4. QED
    BY <1>19, <2>3 DEF ReadBranches, Seen
<1>20. ASSUME NEW c \in Cluster, NEW r \in Reader, ReadEndpoint(r, c) PROVE Typed'
  <2> DEFINE s == [step |-> "answered", status |-> reader[r][c].status, main |-> reader[r][c].main,
                   endpoint |-> endpoint[c]]
  <2>1. s \in Seen
    BY DEF Seen
  <2>2. reader' = [reader EXCEPT ![r][c] = s]
    BY <1>20 DEF ReadEndpoint
  <2>3. reader' \in [Reader -> [Cluster -> Seen]]
    BY <2>1, <2>2, SeenUpdate DEF Seen
  <2>4. QED
    BY <1>20, <2>3 DEF ReadEndpoint, Seen
<1>21. ASSUME NEW c \in Cluster, LookForEndpoint(c) PROVE Typed'
  BY <1>21 DEF LookForEndpoint
<1>22. ASSUME NEW c \in Cluster, AddEndpoint(c) PROVE Typed'
  BY <1>22 DEF AddEndpoint
<1>23. QED
  BY <1>1, <1>2, <1>3, <1>4, <1>5, <1>6, <1>7, <1>8, <1>9, <1>10, <1>11, <1>12, <1>13, <1>14,
     <1>15, <1>16, <1>17, <1>18, <1>19, <1>20, <1>21, <1>22 DEF Next, Work

(* No cluster, branch, request or attempt is ever in a state the code does *)
(* not know, and no activity is attempted more often than its policy says. *)
THEOREM TypeCorrect ==
  ASSUME Bounds
  PROVE  Spec => []TypeOK
<1>1. Init => Typed
  BY Starts
<1>2. Typed /\ [Next]_vars => Typed'
  BY TypedStep
<1>3. Typed => TypeOK
  BY DEF Typed
<1>4. QED
  BY <1>1, <1>2, <1>3, PTL DEF Spec

-----------------------------------------------------------------------------
(***************************************************************************)
(* Requested and provisioning clusters are under way.                      *)
(***************************************************************************)

(* What takes c out of requested or provisioning: the request that starts  *)
(* its workflow or marks it, an attempt that has not recorded its outcome, *)
(* or the next attempt, once the last one is noticed to be over.           *)
Progress(c) ==
  \/ api[c] \in {"dispatch", "mark"}
  \/ wf[c] = "scheduled"
  \/ wf[c] = "started" /\ attempts[c] < MaxAttempts /\ run[c][attempts[c]] \in {"rethrow", "over"}
  \/ \E k \in Attempt : run[c][k] \in {"start", "record", "fail"}

Ends == \A c \in Cluster \ stranded : cluster[c] \in {"requested", "provisioning"} => Progress(c)

(* Nothing changes for d. *)
LEMMA ProgressStays ==
  ASSUME NEW d \in Cluster, Progress(d), api'[d] = api[d], wf'[d] = wf[d],
         attempts'[d] = attempts[d], run'[d] = run[d]
  PROVE  Progress(d)'
BY DEF Progress

(* Every statement leaves something that ends what it leaves open. *)
LEMMA EndsStep ==
  ASSUME Bounds, Typed, Ends, [Next]_vars
  PROVE  Ends'
<1> USE DEF Typed, TypeOK, Order, Ends, Progress, Temporal!RetryTypeOK, Attempt, ClusterStatus,
            rowVars, temporalVars, faultVars, Bounds
<1>1. CASE UNCHANGED vars
  BY <1>1 DEF vars
<1>2. ASSUME NEW c \in Cluster, CreateDatabase(c) PROVE Ends'
  BY <1>2 DEF CreateDatabase
<1>3. ASSUME NEW c \in Cluster, DispatchAccepted(c) PROVE Ends'
  BY <1>3 DEF DispatchAccepted, Temporal!Start
<1>4. ASSUME NEW c \in Cluster, DispatchThrows(c) PROVE Ends'
  BY <1>4 DEF DispatchThrows
<1>5. ASSUME NEW c \in Cluster, LoseReply(c) PROVE Ends'
  BY <1>5 DEF LoseReply, Temporal!Start
<1>6. ASSUME NEW c \in Cluster, MarkCluster(c) PROVE Ends'
  BY <1>6 DEF MarkCluster
<1>7. ASSUME NEW c \in Cluster, MarkBranches(c) PROVE Ends'
  BY <1>7 DEF MarkBranches
<1>8. ASSUME NEW c \in Cluster, ApiFails(c) PROVE Ends'
  BY <1>8 DEF ApiFails
<1>9. ASSUME NEW c \in Cluster, PickUp(c) PROVE Ends'
  BY <1>9 DEF PickUp, Temporal!Poll, Goto
<1>10. ASSUME NEW c \in Cluster, TimeOut(c) PROVE Ends'
  BY <1>10 DEF TimeOut, Temporal!Expire, Temporal!RetryOrGiveUp
<1>11. ASSUME NEW c \in Cluster, NEW k \in Attempt, MarkProvisioning(c, k) PROVE Ends'
  BY <1>11 DEF MarkProvisioning, Goto, At
<1>12. ASSUME NEW c \in Cluster, NEW k \in Attempt, RecordProvisioned(c, k) PROVE Ends'
  BY <1>12 DEF RecordProvisioned, Goto, At
<1>13. ASSUME NEW c \in Cluster, NEW k \in Attempt, MarkFailed(c, k) PROVE Ends'
  BY <1>13 DEF MarkFailed, Goto, At
<1>14. ASSUME NEW c \in Cluster, NEW k \in Attempt, ReportResult(c, k) PROVE Ends'
  <2> SUFFICES ASSUME NEW d \in Cluster \ stranded, cluster[d] \in {"requested", "provisioning"}
               PROVE  Progress(d)'
    BY <1>14 DEF ReportResult
  <2>1. CASE d # c
    BY <1>14, <2>1 DEF ReportResult, Goto, Temporal!Returns
  <2>2. /\ api' = api /\ attempts' = attempts /\ run[c][k] = "report"
        /\ \A i \in Attempt \ {k} : run'[c][i] = run[c][i]
    BY <1>14 DEF ReportResult, At, Goto, Temporal!Returns
  <2>3. ASSUME NEW i \in Attempt, d = c, run[c][i] \in {"start", "record", "fail"}
        PROVE  Progress(d)'
    BY <2>2, <2>3
  <2>4. CASE /\ d = c /\ wf[c] = "started" /\ attempts[c] < MaxAttempts
             /\ run[c][attempts[c]] \in {"rethrow", "over"}
    <3>1. attempts[c] \in Attempt \ {k}
      BY <2>2, <2>4
    <3>2. wf' = wf
      BY <1>14, <3>1 DEF ReportResult, Temporal!Returns, Temporal!Current
    <3>3. QED
      BY <2>2, <2>4, <3>1, <3>2
  <2>5. CASE d = c /\ (api[c] \in {"dispatch", "mark"} \/ wf[c] = "scheduled")
    BY <1>14, <2>2, <2>5 DEF ReportResult, Temporal!Returns, Temporal!Current
  <2>6. QED
    BY <2>1, <2>3, <2>4, <2>5
<1>15. ASSUME NEW c \in Cluster, NEW k \in Attempt, Rethrow(c, k) PROVE Ends'
  <2> SUFFICES ASSUME NEW d \in Cluster \ stranded, cluster[d] \in {"requested", "provisioning"}
               PROVE  Progress(d)'
    BY <1>15 DEF Rethrow
  <2>1. CASE d # c
    BY <1>15, <2>1 DEF Rethrow, Goto, Temporal!Throws
  <2>2. /\ api' = api /\ attempts' = attempts /\ run[c][k] = "rethrow"
        /\ \A i \in Attempt \ {k} : run'[c][i] = run[c][i]
    BY <1>15 DEF Rethrow, At, Goto, Temporal!Throws
  <2>3. ASSUME NEW i \in Attempt, d = c, run[c][i] \in {"start", "record", "fail"}
        PROVE  Progress(d)'
    BY <2>2, <2>3
  <2>4. CASE /\ d = c /\ wf[c] = "started" /\ attempts[c] < MaxAttempts
             /\ run[c][attempts[c]] \in {"rethrow", "over"}
    <3>1. CASE attempts[c] = k
      BY <1>15, <2>4, <3>1 DEF Rethrow, Temporal!Throws, Temporal!Current, Temporal!RetryOrGiveUp
    <3>2. CASE attempts[c] # k
      <4>1. attempts[c] \in Attempt \ {k}
        BY <2>4, <3>2
      <4>2. wf' = wf
        BY <1>15, <3>2 DEF Rethrow, Temporal!Throws, Temporal!Current
      <4>3. QED
        BY <2>2, <2>4, <4>1, <4>2
    <3>3. QED
      BY <3>1, <3>2
  <2>5. CASE d = c /\ (api[c] \in {"dispatch", "mark"} \/ wf[c] = "scheduled")
    BY <1>15, <2>2, <2>5 DEF Rethrow, Temporal!Throws, Temporal!Current
  <2>6. QED
    BY <2>1, <2>3, <2>4, <2>5
<1>16. ASSUME NEW c \in Cluster, NEW k \in Attempt, StatementFails(c, k) PROVE Ends'
  <2> SUFFICES ASSUME NEW d \in Cluster \ stranded', cluster[d] \in {"requested", "provisioning"}
               PROVE  Progress(d)'
    BY <1>16 DEF StatementFails
  <2>1. d \notin stranded /\ Progress(d)
    BY <1>16 DEF StatementFails
  <2>2. CASE d # c
    BY <1>16, <2>1, <2>2, ProgressStays DEF StatementFails, Goto
  <2>3. CASE d = c /\ At(c, k, "record") /\ Goto(c, k, "fail")
    BY <1>16, <2>1, <2>3 DEF StatementFails, Goto, At
  <2>4. CASE d = c /\ run[c][k] \in {"start", "fail"} /\ Goto(c, k, "rethrow") /\ Retried(c, k)
    BY <1>16, <2>1, <2>4 DEF StatementFails, Goto, Retried
  <2>5. QED
    BY <1>16, <2>2, <2>3, <2>4 DEF StatementFails
<1>17. CASE WorkerCrash
  <2> SUFFICES ASSUME NEW d \in Cluster \ stranded', cluster[d] \in {"requested", "provisioning"}
               PROVE  Progress(d)'
    BY <1>17 DEF WorkerCrash
  <2>1. d \notin stranded /\ Progress(d)
    BY <1>17 DEF WorkerCrash
  <2>2. \A k \in Attempt : run'[d][k] = IF run[d][k] = "idle" THEN "idle" ELSE "over"
    BY <1>17 DEF WorkerCrash, At
  <2>3. \A k \in Attempt : run[d][k] \notin {"idle", "over"} => Retried(d, k)
    BY <1>17 DEF WorkerCrash
  <2>4. api' = api /\ wf' = wf /\ attempts' = attempts
    BY <1>17 DEF WorkerCrash
  <2>5. CASE api[d] \in {"dispatch", "mark"} \/ wf[d] = "scheduled"
    BY <2>4, <2>5
  <2>6. CASE \E k \in Attempt : run[d][k] \in {"start", "record", "fail"}
    BY <2>2, <2>3, <2>4, <2>6 DEF Retried
  <2>7. CASE wf[d] = "started" /\ attempts[d] < MaxAttempts /\ run[d][attempts[d]] \in {"rethrow", "over"}
    <3>1. attempts[d] \in Attempt
      BY <2>7
    <3>2. QED
      BY <2>2, <2>4, <2>7, <3>1
  <2>8. QED
    BY <2>1, <2>5, <2>6, <2>7
<1>18. ASSUME NEW c \in Cluster, NEW r \in Reader,
              ReadCluster(r, c) \/ ReadBranches(r, c) \/ ReadEndpoint(r, c)
       PROVE  Ends'
  <2>1. UNCHANGED <<cluster, api, wf, attempts, run, stranded>>
    BY <1>18 DEF ReadCluster, ReadBranches, ReadEndpoint
  <2>2. QED
    BY <2>1, ProgressStays
<1>19. ASSUME NEW c \in Cluster, LookForEndpoint(c) \/ AddEndpoint(c) PROVE Ends'
  <2>1. UNCHANGED <<cluster, api, wf, attempts, run, stranded>>
    BY <1>19 DEF LookForEndpoint, AddEndpoint
  <2>2. QED
    BY <2>1, ProgressStays
<1>20. QED
  BY <1>1, <1>2, <1>3, <1>4, <1>5, <1>6, <1>7, <1>8, <1>9, <1>10, <1>11, <1>12, <1>13, <1>14,
     <1>15, <1>16, <1>17, <1>18, <1>19 DEF Next, Work

(* POST databases and provisionClusterActivity: a cluster does not say     *)
(* requested or provisioning when nothing is under way that changes it,    *)
(* whatever attempts overlap, unless a mark or the last attempt was lost.  *)
THEOREM NoClusterIsForgotten ==
  ASSUME Bounds
  PROVE  Spec => []RequestedIsUnderWay
<1>1. Init => Typed /\ Ends
  BY Starts DEF Init, Ends
<1>2. Typed /\ Ends /\ [Next]_vars => (Typed /\ Ends)'
  BY TypedStep, EndsStep
<1>3. Ends => RequestedIsUnderWay
  BY DEF Ends, Progress, RequestedIsUnderWay, AtWork, Temporal!WorkflowOpen
<1>4. QED
  BY <1>1, <1>2, <1>3, PTL DEF Spec

-----------------------------------------------------------------------------
(***************************************************************************)
(* Answers about available clusters are whole.                             *)
(***************************************************************************)

Recorded(c) == main[c] = "ready" /\ endpoint[c]

(* main is ready only once an attempt has recorded it, which the marks of  *)
(* the request then cannot undo; what a request has read before stays so.  *)
Whole ==
  /\ \A c \in Cluster : main[c] = "ready" => wf[c] # "none"
  /\ \A c \in Cluster \ crossed : cluster[c] = "available" => Recorded(c)
  /\ \A c \in Cluster \ crossed, r \in Reader :
       reader[r][c].step # "idle" /\ reader[r][c].status = "available" =>
         /\ Recorded(c)
         /\ reader[r][c].step # "branches" => reader[r][c].main = "ready"
         /\ reader[r][c].step = "answered" => reader[r][c].endpoint

(* Every statement of the worker, of POST databases and of a reader.       *)
LEMMA WholeStep ==
  ASSUME Bounds, Typed, Whole, [Next]_vars
  PROVE  Whole'
<1> USE DEF Typed, TypeOK, Order, Whole, Recorded, Temporal!RetryTypeOK, Attempt,
            rowVars, temporalVars, faultVars, Bounds
<1>1. CASE UNCHANGED vars
  BY <1>1 DEF vars
<1>2. ASSUME NEW c \in Cluster, CreateDatabase(c) PROVE Whole'
  BY <1>2 DEF CreateDatabase
<1>3. ASSUME NEW c \in Cluster, DispatchAccepted(c) PROVE Whole'
  BY <1>3 DEF DispatchAccepted, Temporal!Start
<1>4. ASSUME NEW c \in Cluster, DispatchThrows(c) PROVE Whole'
  BY <1>4 DEF DispatchThrows
<1>5. ASSUME NEW c \in Cluster, LoseReply(c) PROVE Whole'
  BY <1>5 DEF LoseReply, Temporal!Start
<1>6. ASSUME NEW c \in Cluster, MarkCluster(c) PROVE Whole'
  BY <1>6 DEF MarkCluster
<1>7. ASSUME NEW c \in Cluster, MarkBranches(c) PROVE Whole'
  BY <1>7 DEF MarkBranches
<1>8. ASSUME NEW c \in Cluster, ApiFails(c) PROVE Whole'
  BY <1>8 DEF ApiFails
<1>9. ASSUME NEW c \in Cluster, PickUp(c) PROVE Whole'
  BY <1>9 DEF PickUp, Temporal!Poll
<1>10. ASSUME NEW c \in Cluster, TimeOut(c) PROVE Whole'
  BY <1>10 DEF TimeOut, Temporal!Expire, Temporal!RetryOrGiveUp
<1>11. ASSUME NEW c \in Cluster, NEW k \in Attempt, MarkProvisioning(c, k) PROVE Whole'
  BY <1>11 DEF MarkProvisioning
<1>12. ASSUME NEW c \in Cluster, NEW k \in Attempt, RecordProvisioned(c, k) PROVE Whole'
  BY <1>12 DEF RecordProvisioned, At
<1>13. ASSUME NEW c \in Cluster, NEW k \in Attempt, MarkFailed(c, k) PROVE Whole'
  BY <1>13 DEF MarkFailed
<1>14. ASSUME NEW c \in Cluster, NEW k \in Attempt, ReportResult(c, k) PROVE Whole'
  BY <1>14 DEF ReportResult, Temporal!Returns
<1>15. ASSUME NEW c \in Cluster, NEW k \in Attempt, Rethrow(c, k) PROVE Whole'
  BY <1>15 DEF Rethrow, Temporal!Throws, Temporal!RetryOrGiveUp
<1>16. ASSUME NEW c \in Cluster, NEW k \in Attempt, StatementFails(c, k) PROVE Whole'
  BY <1>16 DEF StatementFails
<1>17. CASE WorkerCrash
  BY <1>17 DEF WorkerCrash
<1>18. ASSUME NEW c \in Cluster, NEW r \in Reader, ReadCluster(r, c) PROVE Whole'
  BY <1>18 DEF ReadCluster
<1>19. ASSUME NEW c \in Cluster, NEW r \in Reader, ReadBranches(r, c) PROVE Whole'
  BY <1>19 DEF ReadBranches
<1>20. ASSUME NEW c \in Cluster, NEW r \in Reader, ReadEndpoint(r, c) PROVE Whole'
  BY <1>20 DEF ReadEndpoint
<1>21. ASSUME NEW c \in Cluster, LookForEndpoint(c) PROVE Whole'
  BY <1>21 DEF LookForEndpoint
<1>22. ASSUME NEW c \in Cluster, AddEndpoint(c) PROVE Whole'
  BY <1>22 DEF AddEndpoint
<1>23. QED
  BY <1>1, <1>2, <1>3, <1>4, <1>5, <1>6, <1>7, <1>8, <1>9, <1>10, <1>11, <1>12, <1>13, <1>14,
     <1>15, <1>16, <1>17, <1>18, <1>19, <1>20, <1>21, <1>22 DEF Next, Work

(* serializeDatabase: an answer that calls a cluster available lists main  *)
(* as ready and has an endpoint, however its three statements interleave   *)
(* with the worker's, with retries and with other requests.                *)
THEOREM AnswersAreWhole ==
  ASSUME Bounds
  PROVE  Spec => []AnswerIsWhole
<1>1. Init => Typed /\ Whole
  BY Starts DEF Init, Whole, Unread
<1>2. Typed /\ Whole /\ [Next]_vars => (Typed /\ Whole)'
  BY TypedStep, WholeStep
<1>3. Whole => AnswerIsWhole
  BY DEF Whole, AnswerIsWhole
<1>4. QED
  BY <1>1, <1>2, <1>3, PTL DEF Spec

-----------------------------------------------------------------------------
(***************************************************************************)
(* The settings of the control plane's domain.                             *)
(***************************************************************************)
(* A PATCH. *)
Patch == [step : {"idle", "save", "routes", "acme", "env", "main", "record", "failed"},
          wanted : Domain!Wanted, alone : BOOLEAN]

(* The type invariant without the bound of the faults. *)
SettingsTyped ==
  /\ settings \in Domain!Settings
  /\ patch \in [Patcher -> Patch]
  /\ crowded \in BOOLEAN

(* No other PATCH is at work beside one that is alone, and where PATCHes   *)
(* do not overlap each of them is.                                         *)
InTurns ==
  /\ \A a, o \in Patcher : Domain!Busy(a) /\ patch[a].alone /\ Domain!Busy(o) => o = a
  /\ \A a \in Patcher : Domain!Busy(a) /\ ~crowded => patch[a].alone

Served(w) ==
  /\ routes = Domain!Rendered(w)
  /\ Domain!UsesAcme(w) => acme /\ envEmail = w.email /\ (mainConfig = "email" => mainEmail = w.email)

(* How far a PATCH that is alone has come; what it has saved says applied  *)
(* only at the end.                                                        *)
Written(a) ==
  LET w == patch[a].wanted
      step == patch[a].step
  IN /\ Domain!UsesAcme(w) => w.email # Null
     /\ step # "save" => settings.wanted = w /\ settings.status # "applied"
     /\ step \in {"acme", "env", "main"} => Domain!UsesAcme(w)
     /\ step \in {"acme", "env", "main", "record"} => routes = Domain!Rendered(w)
     /\ step \in {"env", "main"} => acme
     /\ step = "main" => envEmail = w.email
     /\ step = "record" => Served(w)

SettingsInv ==
  /\ SettingsTyped /\ InTurns
  /\ \A a \in Patcher : Domain!Busy(a) /\ patch[a].alone => Written(a)
  /\ Domain!AppliedIsServed

-----------------------------------------------------------------------------
(* A field of a body, or the value of the row in its place. *)
LEMMA PickType ==
  ASSUME NEW S, NEW field \in Domain!Given(S), NEW current \in S
  PROVE  Domain!Pick(field, current) \in S
BY DEF Domain!Given, Domain!Pick

(* What a body makes of a row is a row. *)
LEMMA MergedType ==
  ASSUME NEW body \in Domain!Body, NEW current \in Domain!Wanted
  PROVE  Domain!Merged(body, current) \in Domain!Wanted
<1>1. /\ body.host \in Domain!Given(Domain!HostOrNull) /\ body.https \in Domain!Given(BOOLEAN)
      /\ body.certificate \in Domain!Given(Domain!Certificate) /\ body.email \in Domain!Given(Domain!EmailOrNull)
  BY DEF Domain!Body
<1>2. /\ current.host \in Domain!HostOrNull /\ current.https \in BOOLEAN /\ current.email \in Domain!EmailOrNull
  BY DEF Domain!Wanted
<1>3. "letsencrypt" \in Domain!Certificate /\ "none" \in Domain!Certificate
  BY DEF Domain!Certificate
<1>4. /\ Domain!Pick(body.host, current.host) \in Domain!HostOrNull
      /\ Domain!Pick(body.https, current.https) \in BOOLEAN
      /\ Domain!Pick(body.certificate, "letsencrypt") \in Domain!Certificate
      /\ Domain!Pick(body.email, current.email) \in Domain!EmailOrNull
  BY <1>1, <1>2, <1>3, PickType
<1>5. QED
  BY <1>3, <1>4 DEF Domain!Merged, Domain!Wanted

(* One PATCH takes a step. *)
LEMMA PatchGoto ==
  ASSUME SettingsTyped, NEW a \in Patcher,
         NEW step \in {"save", "routes", "acme", "env", "main", "record", "failed"},
         Domain!Goto(a, step)
  PROVE  /\ patch' \in [Patcher -> Patch]
         /\ patch'[a].step = step /\ patch'[a].wanted = patch[a].wanted
         /\ patch'[a].alone = patch[a].alone
         /\ \A o \in Patcher \ {a} : patch'[o] = patch[o]
BY DEF SettingsTyped, Patch, Domain!Goto

(* The first state. *)
LEMMA SettingsStart == Domain!Init => SettingsInv
<1> SUFFICES ASSUME Domain!Init PROVE SettingsInv
  OBVIOUS
<1>1. Domain!Unset \in Domain!Wanted
  BY DEF Domain!Unset, Domain!Wanted, Domain!HostOrNull, Domain!EmailOrNull, Domain!Certificate
<1>2. SettingsTyped
  <2>1. settings \in Domain!Settings
    BY <1>1 DEF Domain!Init, Domain!Settings
  <2>2. Domain!Idle \in Patch
    BY <1>1 DEF Domain!Idle, Patch
  <2>3. QED
    BY <2>1, <2>2 DEF Domain!Init, SettingsTyped
<1>3. \A a \in Patcher : ~Domain!Busy(a)
  BY DEF Domain!Init, Domain!Busy, Domain!Idle
<1>4. Domain!AppliedIsServed
  BY DEF Domain!Init, Domain!AppliedIsServed
<1>5. QED
  BY <1>2, <1>3, <1>4 DEF SettingsInv, InTurns

-----------------------------------------------------------------------------
(* A statement that does not end its PATCH: what is left to show concerns  *)
(* only this PATCH, where no other is at work.                             *)
LEMMA PatchGoesOn ==
  ASSUME SettingsInv, NEW a \in Patcher, Domain!Busy(a), settings' \in Domain!Settings, UNCHANGED crowded,
         NEW step \in {"save", "routes", "acme", "env", "main", "record", "failed"},
         Domain!Goto(a, step),
         patch[a].alone => Written(a)' /\ settings'.status # "applied"
  PROVE  SettingsInv'
<1>1. /\ patch' \in [Patcher -> Patch]
      /\ patch'[a].step = step /\ patch'[a].wanted = patch[a].wanted
      /\ patch'[a].alone = patch[a].alone
      /\ \A o \in Patcher \ {a} : patch'[o] = patch[o]
  BY PatchGoto DEF SettingsInv
<1>2. \A o \in Patcher : (Domain!Busy(o)' <=> Domain!Busy(o)) /\ patch'[o].alone = patch[o].alone
  BY <1>1 DEF Domain!Busy
<1>3. SettingsTyped'
  BY <1>1 DEF SettingsInv, SettingsTyped
<1>4. InTurns'
  BY <1>2 DEF SettingsInv, InTurns
<1>5. \A o \in Patcher : Domain!Busy(o)' /\ patch'[o].alone => Written(o)'
  BY <1>2 DEF SettingsInv, InTurns
<1>6. Domain!AppliedIsServed'
  <2>1. ~crowded => patch[a].alone
    BY DEF SettingsInv, InTurns
  <2>2. QED
    BY <2>1 DEF Domain!AppliedIsServed
<1>7. QED
  BY <1>3, <1>4, <1>5, <1>6 DEF SettingsInv

(* A PATCH ends: no other is alone then. *)
LEMMA PatchEnds ==
  ASSUME SettingsInv, NEW a \in Patcher, Domain!Busy(a), settings' \in Domain!Settings, crowded' \in BOOLEAN,
         patch' = [patch EXCEPT ![a] = Domain!Idle],
         patch[a].alone \/ crowded' = crowded,
         Domain!AppliedIsServed'
  PROVE  SettingsInv'
<1>1. Domain!Idle \in Patch
  BY DEF Domain!Idle, Patch, Domain!Unset, Domain!Wanted, Domain!HostOrNull, Domain!EmailOrNull, Domain!Certificate
<1>2. SettingsTyped'
  BY <1>1 DEF SettingsInv, SettingsTyped
<1>3. ~Domain!Busy(a)' /\ \A o \in Patcher \ {a} : patch'[o] = patch[o] /\ (Domain!Busy(o)' <=> Domain!Busy(o))
  BY DEF SettingsInv, SettingsTyped, Domain!Busy, Domain!Idle
<1>4. InTurns'
  BY <1>3 DEF SettingsInv, InTurns
<1>5. \A o \in Patcher : Domain!Busy(o)' => ~patch'[o].alone
  BY <1>3 DEF SettingsInv, InTurns
<1>6. QED
  BY <1>2, <1>4, <1>5 DEF SettingsInv

(* Every statement of a PATCH. *)
LEMMA SettingsStep ==
  ASSUME SettingsInv, [Domain!Next]_Domain!vars
  PROVE  SettingsInv'
<1> USE DEF Written, Served
<1>1. CASE UNCHANGED Domain!vars
  BY <1>1 DEF Domain!vars, SettingsInv, SettingsTyped, InTurns, Domain!Busy, Domain!AppliedIsServed
<1>2. ASSUME NEW a \in Patcher, Domain!Open(a) PROVE SettingsInv'
  <2> DEFINE alone == \A o \in Patcher : ~Domain!Busy(o)
  <2>1. PICK wanted \in {Domain!Merged(body, settings.wanted) : body \in Domain!Body} :
          /\ Domain!Valid(wanted)
          /\ patch' = [o \in Patcher |->
                         IF o = a THEN [step |-> "save", wanted |-> wanted, alone |-> alone]
                         ELSE [patch[o] EXCEPT !.alone = FALSE]]
    BY <1>2 DEF Domain!Open
  <2>2. crowded' = (crowded \/ ~alone) /\ UNCHANGED <<settings, routes, acme, envEmail, mainConfig, mainEmail>>
    BY <1>2 DEF Domain!Open
  <2>3. wanted \in Domain!Wanted
    BY MergedType DEF SettingsInv, SettingsTyped, Domain!Settings
  <2>4. patch'[a] = [step |-> "save", wanted |-> wanted, alone |-> alone] /\ patch'[a] \in Patch
    BY <2>1, <2>3 DEF Patch
  <2>5. ASSUME NEW o \in Patcher \ {a}
        PROVE  patch'[o] \in Patch /\ patch'[o].step = patch[o].step /\ ~patch'[o].alone
    <3>1. patch[o] \in Patch
      BY DEF SettingsInv, SettingsTyped
    <3>2. patch'[o] = [patch[o] EXCEPT !.alone = FALSE]
      BY <2>1
    <3>3. QED
      BY <3>1, <3>2 DEF Patch
  <2>6. SettingsTyped'
    <3>1. patch' \in [Patcher -> Patch]
      BY <2>1, <2>4, <2>5
    <3>2. QED
      BY <2>2, <3>1 DEF SettingsInv, SettingsTyped
  <2>7. InTurns'
    <3>1. \A o \in Patcher \ {a} : Domain!Busy(o)' <=> Domain!Busy(o)
      BY <2>5 DEF Domain!Busy
    <3>2. alone => \A o \in Patcher : Domain!Busy(o)' => o = a
      BY <3>1
    <3>3. patch'[a].alone = alone
      BY <2>4
    <3>4. \A b, o \in Patcher : Domain!Busy(b)' /\ patch'[b].alone /\ Domain!Busy(o)' => o = b
      BY <2>5, <3>2, <3>3
    <3>5. ~crowded' => alone
      BY <2>2
    <3>6. \A o \in Patcher : Domain!Busy(o)' /\ ~crowded' => patch'[o].alone
      BY <3>2, <3>3, <3>5
    <3>7. QED
      BY <3>4, <3>6 DEF InTurns
  <2>8. Written(a)'
    BY <2>1, <2>4 DEF Domain!Valid
  <2>9. Domain!AppliedIsServed'
    <3>1. ~crowded' => ~crowded
      BY <2>2
    <3>2. QED
      BY <2>2, <3>1 DEF SettingsInv, Domain!AppliedIsServed
  <2>10. QED
    BY <2>5, <2>6, <2>7, <2>8, <2>9 DEF SettingsInv
<1>3. ASSUME NEW a \in Patcher, Domain!Save(a) PROVE SettingsInv'
  <2>1. /\ Domain!Busy(a) /\ Domain!Goto(a, "routes") /\ patch[a].step = "save"
        /\ settings' = [wanted |-> patch[a].wanted, status |-> "not_configured"]
        /\ UNCHANGED <<routes, acme, envEmail, mainConfig, mainEmail, crowded>>
    BY <1>3 DEF Domain!Save, Domain!Busy
  <2>2. patch[a].wanted \in Domain!Wanted
    BY DEF SettingsInv, SettingsTyped, Patch
  <2>3. settings' \in Domain!Settings
    BY <2>1, <2>2 DEF Domain!Settings
  <2>4. patch'[a].step = "routes" /\ patch'[a].wanted = patch[a].wanted
    BY <2>1, PatchGoto DEF SettingsInv
  <2>5. patch[a].alone => Written(a)' /\ settings'.status # "applied"
    BY <2>1, <2>4 DEF SettingsInv
  <2>6. QED
    BY <2>1, <2>3, <2>5, PatchGoesOn
<1>4. ASSUME NEW a \in Patcher, Domain!WriteRoutes(a) PROVE SettingsInv'
  <2> DEFINE next == IF Domain!UsesAcme(patch[a].wanted) THEN "acme" ELSE "record"
  <2>1. /\ Domain!Busy(a) /\ Domain!Goto(a, next) /\ patch[a].step = "routes"
        /\ routes' = Domain!Rendered(patch[a].wanted)
        /\ UNCHANGED <<settings, acme, envEmail, mainConfig, mainEmail, crowded>>
    BY <1>4 DEF Domain!WriteRoutes, Domain!Busy
  <2>2. patch'[a].step = next /\ patch'[a].wanted = patch[a].wanted
    BY <2>1, PatchGoto DEF SettingsInv
  <2>3. patch[a].alone => Written(a)' /\ settings'.status # "applied"
    BY <2>1, <2>2 DEF SettingsInv
  <2>4. QED
    BY <2>1, <2>3, PatchGoesOn DEF SettingsInv, SettingsTyped
<1>5. ASSUME NEW a \in Patcher, Domain!EnsureAcmeStorage(a) PROVE SettingsInv'
  <2> DEFINE next == IF patch[a].wanted.email # Null THEN "env" ELSE "record"
  <2>1. /\ Domain!Busy(a) /\ Domain!Goto(a, next) /\ patch[a].step = "acme" /\ acme' = TRUE
        /\ UNCHANGED <<settings, routes, envEmail, mainConfig, mainEmail, crowded>>
    BY <1>5 DEF Domain!EnsureAcmeStorage, Domain!Busy
  <2>2. patch'[a].step = next /\ patch'[a].wanted = patch[a].wanted
    BY <2>1, PatchGoto DEF SettingsInv
  <2>3. patch[a].alone => Written(a)' /\ settings'.status # "applied"
    BY <2>1, <2>2 DEF SettingsInv
  <2>4. QED
    BY <2>1, <2>3, PatchGoesOn DEF SettingsInv, SettingsTyped
<1>6. ASSUME NEW a \in Patcher, Domain!UpdateComposeEmail(a) PROVE SettingsInv'
  <2> DEFINE next == IF mainConfig = "unset" THEN "record" ELSE "main"
  <2>1. /\ Domain!Busy(a) /\ Domain!Goto(a, next) /\ patch[a].step = "env"
        /\ envEmail' = patch[a].wanted.email
        /\ UNCHANGED <<settings, routes, acme, mainConfig, mainEmail, crowded>>
    BY <1>6 DEF Domain!UpdateComposeEmail, Domain!Busy
  <2>2. patch'[a].step = next /\ patch'[a].wanted = patch[a].wanted
    BY <2>1, PatchGoto DEF SettingsInv
  <2>3. patch[a].alone => Written(a)' /\ settings'.status # "applied"
    BY <2>1, <2>2 DEF SettingsInv
  <2>4. QED
    BY <2>1, <2>3, PatchGoesOn DEF SettingsInv, SettingsTyped
<1>7. ASSUME NEW a \in Patcher, Domain!UpdateMainEmail(a) PROVE SettingsInv'
  <2>1. /\ Domain!Busy(a) /\ Domain!Goto(a, "record") /\ patch[a].step = "main"
        /\ mainEmail' = IF mainConfig = "email" THEN patch[a].wanted.email ELSE mainEmail
        /\ UNCHANGED <<settings, routes, acme, envEmail, mainConfig, crowded>>
    BY <1>7 DEF Domain!UpdateMainEmail, Domain!Busy
  <2>2. patch'[a].step = "record" /\ patch'[a].wanted = patch[a].wanted
    BY <2>1, PatchGoto DEF SettingsInv
  <2>3. patch[a].alone => Written(a)' /\ settings'.status # "applied"
    BY <2>1, <2>2 DEF SettingsInv
  <2>4. QED
    BY <2>1, <2>3, PatchGoesOn DEF SettingsInv, SettingsTyped
<1>8. ASSUME NEW a \in Patcher, Domain!ApplyThrows(a) PROVE SettingsInv'
  <2>1. /\ Domain!Busy(a) /\ Domain!Goto(a, "failed") /\ patch[a].step \notin {"idle", "save"}
        /\ UNCHANGED <<settings, routes, acme, envEmail, mainConfig, mainEmail, crowded>>
    BY <1>8 DEF Domain!ApplyThrows, Domain!Busy
  <2>2. patch'[a].step = "failed" /\ patch'[a].wanted = patch[a].wanted
    BY <2>1, PatchGoto DEF SettingsInv
  <2>3. patch[a].alone => Written(a)' /\ settings'.status # "applied"
    BY <2>1, <2>2 DEF SettingsInv
  <2>4. QED
    BY <2>1, <2>3, PatchGoesOn DEF SettingsInv, SettingsTyped
<1>9. ASSUME NEW a \in Patcher, Domain!MarkFailed(a) PROVE SettingsInv'
  <2>1. /\ Domain!Busy(a) /\ patch' = [patch EXCEPT ![a] = Domain!Idle]
        /\ settings' = [settings EXCEPT !.status = "failed"]
        /\ crowded' = (crowded /\ ~patch[a].alone)
    BY <1>9 DEF Domain!MarkFailed, Domain!Finish, Domain!Busy
  <2>2. settings' \in Domain!Settings /\ settings'.status = "failed"
    BY <2>1 DEF SettingsInv, SettingsTyped, Domain!Settings
  <2>3. QED
    BY <2>1, <2>2, PatchEnds DEF Domain!AppliedIsServed, SettingsInv, SettingsTyped
<1>10. ASSUME NEW a \in Patcher, Domain!Record(a) PROVE SettingsInv'
  <2> DEFINE status == IF patch[a].wanted.host # Null THEN "applied" ELSE "not_configured"
  <2>1. /\ Domain!Busy(a) /\ patch[a].step = "record" /\ patch' = [patch EXCEPT ![a] = Domain!Idle]
        /\ settings' = [settings EXCEPT !.status = status]
        /\ crowded' = (crowded /\ ~patch[a].alone)
        /\ UNCHANGED <<routes, acme, envEmail, mainConfig, mainEmail>>
    BY <1>10 DEF Domain!Record, Domain!Finish, Domain!Busy
  <2>2. settings' \in Domain!Settings /\ settings'.wanted = settings.wanted
    BY <2>1 DEF SettingsInv, SettingsTyped, Domain!Settings
  <2>3. ~crowded' => patch[a].alone
    BY <2>1 DEF SettingsInv, InTurns
  <2>4. patch[a].alone => Served(settings.wanted)
    BY <2>1 DEF SettingsInv
  <2>5. Domain!AppliedIsServed'
    BY <2>1, <2>2, <2>3, <2>4 DEF Domain!AppliedIsServed
  <2>6. QED
    BY <2>1, <2>2, <2>5, PatchEnds DEF SettingsInv, SettingsTyped
<1>11. ASSUME NEW a \in Patcher, Domain!Abort(a) PROVE SettingsInv'
  <2>1. Domain!AppliedIsServed'
    BY <1>11 DEF Domain!Abort, SettingsInv, Domain!AppliedIsServed
  <2>2. QED
    BY <1>11, <2>1, PatchEnds DEF Domain!Abort, SettingsInv, SettingsTyped
<1>12. QED
  BY <1>1, <1>2, <1>3, <1>4, <1>5, <1>6, <1>7, <1>8, <1>9, <1>10, <1>11 DEF Domain!Next

(* AppliedIsServed of the settings alone. *)
LEMMA SettingsAreServed == Domain!Spec => []Domain!AppliedIsServed
<1>1. SettingsInv /\ [Domain!Next]_Domain!vars => SettingsInv'
  BY SettingsStep
<1>2. SettingsInv => Domain!AppliedIsServed
  BY DEF SettingsInv
<1>3. QED
  BY SettingsStart, <1>1, <1>2, PTL DEF Domain!Spec

(* The rest of the types: what the files hold, and no https without a host *)
(* in the row or in a PATCH.                                               *)
FilesTyped ==
  /\ routes \in [host : Domain!HostOrNull, tls : BOOLEAN] /\ acme \in BOOLEAN
  /\ mainConfig \in {"unset", "plain", "email"}
  /\ envEmail \in Domain!EmailOrNull /\ mainEmail \in Domain!EmailOrNull
  /\ slips \in 0 .. MaxSlips
  /\ settings.wanted.https => settings.wanted.host # Null
  /\ \A a \in Patcher : patch[a].wanted.https => patch[a].wanted.host # Null

(* The first settings name what the installer wrote. *)
LEMMA FilesStart == MaxSlips \in Nat /\ Domain!Init => FilesTyped
<1> SUFFICES ASSUME MaxSlips \in Nat, Domain!Init PROVE FilesTyped
  OBVIOUS
<1>1. /\ settings.wanted = Domain!Unset /\ ~Domain!Unset.https
      /\ \A a \in Patcher : patch[a].wanted = Domain!Unset
  BY DEF Domain!Init, Domain!Unset, Domain!Idle
<1>2. /\ routes = [host |-> Null, tls |-> FALSE] /\ acme = FALSE
      /\ envEmail = Null /\ mainEmail = Null /\ slips = 0
  BY DEF Domain!Init
<1>3. routes \in [host : Domain!HostOrNull, tls : BOOLEAN]
  BY <1>2 DEF Domain!HostOrNull
<1>4. settings.wanted.https => settings.wanted.host # Null
  BY <1>1, Zenon
<1>5. \A a \in Patcher : patch[a].wanted.https => patch[a].wanted.host # Null
  BY <1>1, Zenon
<1>6. acme \in BOOLEAN
  BY <1>2, Zenon
<1>7. slips \in 0 .. MaxSlips
  BY <1>2
<1>8. envEmail \in Domain!EmailOrNull /\ mainEmail \in Domain!EmailOrNull
  BY <1>2 DEF Domain!EmailOrNull
<1>9. mainConfig \in {"unset", "plain", "email"}
  BY DEF Domain!Init
<1>10. QED
  BY <1>3, <1>4, <1>5, <1>6, <1>7, <1>8, <1>9, Zenon DEF FilesTyped

(* A PATCH that goes on, or ends, wants what it wanted, or nothing. *)
LEMMA PatchWants ==
  ASSUME SettingsTyped, NEW a \in Patcher,
         \/ patch' = [patch EXCEPT ![a] = Domain!Idle]
         \/ \E step : Domain!Goto(a, step)
  PROVE  \A o \in Patcher : patch'[o].wanted = patch[o].wanted \/ patch'[o].wanted = Domain!Unset
<1>1. CASE patch' = [patch EXCEPT ![a] = Domain!Idle]
  BY <1>1 DEF SettingsTyped, Domain!Idle
<1>2. CASE \E step : Domain!Goto(a, step)
  <2>1. PICK step : patch' = [patch EXCEPT ![a].step = step]
    BY <1>2 DEF Domain!Goto
  <2>2. patch'[a].wanted = patch[a].wanted
    BY <2>1 DEF SettingsTyped, Patch
  <2>3. QED
    BY <2>1, <2>2 DEF SettingsTyped
<1>3. QED
  BY <1>1, <1>2

(* Every PATCH, and every file of it, keeps the types. *)
LEMMA FilesStep ==
  ASSUME MaxSlips \in Nat, SettingsInv, FilesTyped, [Domain!Next]_(Domain!vars)
  PROVE  FilesTyped'
<1> DEFINE Sound(w) == w.https => w.host # Null
<1>0. SettingsTyped /\ ~Domain!Unset.https
  BY DEF SettingsInv, Domain!Unset
<1>1. CASE UNCHANGED Domain!vars
  BY <1>1 DEF Domain!vars, FilesTyped
<1>2. ASSUME NEW a \in Patcher, Domain!Open(a) PROVE FilesTyped'
  <2>1. PICK wanted \in {Domain!Merged(body, settings.wanted) : body \in Domain!Body} :
          /\ Domain!Valid(wanted)
          /\ \A o \in Patcher : patch'[o].wanted = IF o = a THEN wanted ELSE patch[o].wanted
    <3>1. PICK wanted \in {Domain!Merged(body, settings.wanted) : body \in Domain!Body} :
            /\ Domain!Valid(wanted)
            /\ patch' = [o \in Patcher |->
                          IF o = a
                          THEN [step |-> "save", wanted |-> wanted,
                                alone |-> \A r \in Patcher : ~Domain!Busy(r)]
                          ELSE [patch[o] EXCEPT !.alone = FALSE]]
      BY <1>2 DEF Domain!Open
    <3>2. \A o \in Patcher : patch'[o].wanted = IF o = a THEN wanted ELSE patch[o].wanted
      BY <3>1, <1>0 DEF SettingsTyped, Patch
    <3>3. QED
      BY <3>1, <3>2
  <2>2. UNCHANGED <<settings, routes, acme, envEmail, mainConfig, mainEmail, slips>>
    BY <1>2 DEF Domain!Open
  <2>3. QED
    BY <2>1, <2>2 DEF FilesTyped, Domain!Valid
<1>3. ASSUME NEW a \in Patcher,
             \/ Domain!Save(a) \/ Domain!WriteRoutes(a) \/ Domain!EnsureAcmeStorage(a)
             \/ Domain!UpdateComposeEmail(a) \/ Domain!UpdateMainEmail(a) \/ Domain!ApplyThrows(a)
             \/ Domain!MarkFailed(a) \/ Domain!Record(a) \/ Domain!Abort(a)
      PROVE  FilesTyped'
  <2>1. /\ patch[a].wanted \in Domain!Wanted /\ settings \in Domain!Settings
        /\ Sound(patch[a].wanted)
    BY <1>0 DEF SettingsTyped, Patch, FilesTyped
  <2>2. patch' = [patch EXCEPT ![a] = Domain!Idle] \/ \E step : Domain!Goto(a, step)
    BY <1>3 DEF Domain!Save, Domain!WriteRoutes, Domain!EnsureAcmeStorage, Domain!UpdateComposeEmail,
                Domain!UpdateMainEmail, Domain!ApplyThrows, Domain!MarkFailed, Domain!Record, Domain!Abort,
                Domain!Finish
  <2>3. \A o \in Patcher : Sound(patch'[o].wanted)
    BY <2>2, <1>0, PatchWants DEF FilesTyped
  <2>4. settings'.wanted = settings.wanted \/ settings'.wanted = patch[a].wanted
    BY <1>3, <2>1 DEF Domain!Save, Domain!WriteRoutes, Domain!EnsureAcmeStorage, Domain!UpdateComposeEmail,
                Domain!UpdateMainEmail, Domain!ApplyThrows, Domain!MarkFailed, Domain!Record, Domain!Abort,
                Domain!Finish, Domain!Settings
  <2>5. /\ routes' = routes \/ routes' = Domain!Rendered(patch[a].wanted)
        /\ acme' = acme \/ acme' = TRUE
        /\ envEmail' = envEmail \/ envEmail' = patch[a].wanted.email
        /\ mainEmail' = mainEmail \/ mainEmail' = patch[a].wanted.email
        /\ mainConfig' = mainConfig
        /\ slips' = slips \/ (slips < MaxSlips /\ slips' = slips + 1)
    BY <1>3 DEF Domain!Save, Domain!WriteRoutes, Domain!EnsureAcmeStorage, Domain!UpdateComposeEmail,
                Domain!UpdateMainEmail, Domain!ApplyThrows, Domain!MarkFailed, Domain!Record, Domain!Abort,
                Domain!Finish
  <2>6. /\ Domain!Rendered(patch[a].wanted) \in [host : Domain!HostOrNull, tls : BOOLEAN]
        /\ patch[a].wanted.email \in Domain!EmailOrNull
    BY <2>1 DEF Domain!Wanted, Domain!Rendered
  <2>7. Sound(settings'.wanted)
    BY <2>1, <2>4 DEF FilesTyped
  <2>8. routes' \in [host : Domain!HostOrNull, tls : BOOLEAN]
    BY <2>5, <2>6 DEF FilesTyped
  <2>9. acme' \in BOOLEAN
    BY <2>5, Zenon DEF FilesTyped
  <2>10. envEmail' \in Domain!EmailOrNull /\ mainEmail' \in Domain!EmailOrNull
    BY <2>5, <2>6 DEF FilesTyped
  <2>11. slips' \in 0 .. MaxSlips
    BY <2>5 DEF FilesTyped
  <2>12. mainConfig' \in {"unset", "plain", "email"}
    BY <2>5 DEF FilesTyped
  <2>13. QED
    BY <2>3, <2>7, <2>8, <2>9, <2>10, <2>11, <2>12, Zenon DEF FilesTyped
<1>4. QED
  BY <1>1, <1>2, <1>3 DEF Domain!Next

(* Settings, files and PATCHes have their types. *)
LEMMA SettingsTypes == ASSUME MaxSlips \in Nat PROVE Domain!Spec => []Domain!TypeOK
<1>1. SettingsInv /\ FilesTyped => Domain!TypeOK
  BY DEF SettingsInv, SettingsTyped, FilesTyped, Patch, Domain!TypeOK
<1>2. SettingsInv /\ FilesTyped /\ [Domain!Next]_(Domain!vars) => SettingsInv' /\ FilesTyped'
  BY SettingsStep, FilesStep
<1>3. Domain!Init => SettingsInv /\ FilesTyped
  BY SettingsStart, FilesStart
<1>4. QED
  BY <1>1, <1>2, <1>3, PTL DEF Domain!Spec

-----------------------------------------------------------------------------
(***************************************************************************)
(* Slugs of projects.                                                      *)
(***************************************************************************)
(* Finitely many requests, a limit that is a number. *)
CreationBounds == IsFiniteSet(Creation) /\ MaxCreations \in Nat \ {0}

Post == [step : {"idle", "read", "insert", "created", "refused", "error"},
         attempt : 0 .. MaxCreations, slug : Slugs!Candidate \cup {0}]

Created == {q \in Creation : post[q].step = "created"}

(* Every slug but the one that was there before is some request's; there   *)
(* is one candidate more than they can take.                               *)
Few ==
  /\ taken \subseteq Slugs!Candidate /\ Cardinality(taken) <= Cardinality(Created) + 1
  /\ \A q \in Creation : post[q].step = "insert" => post[q].slug \in Slugs!Candidate

(* Every attempt that failed had its rival: so will the one that holds a   *)
(* slug that is taken.                                                     *)
Paid ==
  \A q \in Creation :
    /\ post[q].step = "idle" => post[q].attempt = 0
    /\ post[q].step \in {"read", "insert"} =>
         post[q].attempt < MaxCreations /\ rivals[q] >= post[q].attempt
    /\ post[q].step = "insert" /\ post[q].slug \in taken => rivals[q] > post[q].attempt
    /\ post[q].step = "refused" => rivals[q] >= MaxCreations

PostsTyped == post \in [Creation -> Post] /\ rivals \in [Creation -> Nat]

SlugsInv == PostsTyped /\ Few /\ Paid

-----------------------------------------------------------------------------
(* One candidate more than there are requests. *)
LEMMA Candidates == Slugs!Candidate = 1 .. Cardinality(Creation) + 1
BY DEF Slugs!Candidate, Slugs!Cardinality, Cardinality

(* While a request has not inserted there is a free candidate, and         *)
(* pickUniqueSlug returns one.                                             *)
LEMMA PickIsFree ==
  ASSUME CreationBounds, PostsTyped, Few, NEW q \in Creation, q \notin Created
  PROVE  Slugs!Pick(taken) \in Slugs!Candidate \ taken
<1>1. Created \subseteq Creation /\ Created # Creation
  BY DEF Created
<1>2. IsFiniteSet(Created) /\ Cardinality(Creation) \in Nat /\ Cardinality(Created) \in Nat
  BY <1>1, FS_CardinalityType, FS_Subset DEF CreationBounds
<1>3. Cardinality(Created) < Cardinality(Creation)
  BY <1>1, <1>2, FS_Subset DEF CreationBounds
<1> DEFINE n == Cardinality(Creation) + 1
<1>4. n \in Int /\ 1 \in Int /\ n >= 1 /\ Slugs!Candidate = 1 .. n
  BY <1>2, Candidates
<1>5. Cardinality(Slugs!Candidate) = n
  <2>1. Cardinality(1 .. n) = IF 1 > n THEN 0 ELSE n - 1 + 1
    BY <1>4, FS_Interval, Zenon
  <2>2. QED
    BY <1>4, <2>1
<1>6. taken # Slugs!Candidate
  BY <1>2, <1>3, <1>5 DEF Few
<1> DEFINE free == Slugs!Candidate \ taken
<1>7. free # {} /\ free \subseteq Nat
  <2>1. Slugs!Candidate \subseteq Nat
    BY <1>4
  <2>2. free # {}
    BY <1>6, Zenon DEF Few
  <2>3. QED
    BY <2>1, <2>2
<1>8. \E m \in free : \A k \in free : m <= k
  <2> DEFINE less == {p \in Nat \X Nat : p[1] < p[2]}
  <2>1. less = OpToRel(<, Nat)
    BY Zenon DEF OpToRel
  <2>2. IsWellFoundedOn(less, Nat)
    BY <2>1, NatLessThanWellFounded, Zenon
  <2> HIDE DEF less, free
  <2>3. PICK m \in free : \A k \in free : <<k, m>> \notin less
    BY <1>7, <2>2, WFMin, Zenon
  <2>4. ASSUME NEW k \in free, ~(m <= k) PROVE FALSE
    <3>1. <<k, m>> \in Nat \X Nat /\ <<k, m>>[1] < <<k, m>>[2]
      BY <1>7, <2>4
    <3>2. QED
      BY <2>3, <3>1, Zenon DEF less
  <2>5. QED
    BY <2>4
<1>9. QED
  BY <1>8, Zenon DEF Slugs!Pick

(* The first state: at most one slug was there before. *)
LEMMA SlugsStart == CreationBounds /\ Slugs!Init => SlugsInv
<1> SUFFICES ASSUME CreationBounds, Slugs!Init PROVE SlugsInv
  OBVIOUS
<1>1. PostsTyped
  BY DEF Slugs!Init, PostsTyped, Post, CreationBounds
<1>2. Created = {}
  BY DEF Slugs!Init, Created
<1>3. Cardinality(taken) <= 1 /\ Cardinality(Created) = 0
  <2>1. Cardinality({}) = 0 /\ Cardinality({1}) = 1
    BY FS_EmptySet, FS_Singleton
  <2>2. taken = {} \/ taken = {1}
    BY DEF Slugs!Init
  <2>3. QED
    BY <1>2, <2>1, <2>2
<1>4. 1 \in Slugs!Candidate
  <2>1. Cardinality(Creation) \in Nat
    BY FS_CardinalityType DEF CreationBounds
  <2>2. QED
    BY <2>1, Candidates
<1>5. Few
  BY <1>3, <1>4 DEF Few, Slugs!Init
<1>6. Paid
  BY DEF Slugs!Init, Paid, CreationBounds
<1>7. QED
  BY <1>1, <1>5, <1>6 DEF SlugsInv

(* Every statement of a request. *)
LEMMA SlugsStep ==
  ASSUME CreationBounds, SlugsInv, [Slugs!Next]_Slugs!vars
  PROVE  SlugsInv'
<1> USE DEF SlugsInv
<1>1. CASE UNCHANGED Slugs!vars
  BY <1>1 DEF Slugs!vars, PostsTyped, Few, Paid, Created
<1>2. ASSUME NEW q \in Creation, Slugs!Begin(q) PROVE SlugsInv'
  <2>1. post'[q].step = "read" /\ post'[q].attempt = 0
        /\ \A r \in Creation \ {q} : post'[r] = post[r]
    BY <1>2 DEF Slugs!Begin, PostsTyped, Post, Paid
  <2>2. Created' = Created
    BY <1>2 DEF Slugs!Begin, Created, PostsTyped, Post
  <2>3. PostsTyped'
    BY <1>2 DEF Slugs!Begin, PostsTyped, Post
  <2>4. UNCHANGED <<taken, rivals>>
    BY <1>2 DEF Slugs!Begin
  <2>5. Paid'
    BY <2>1, <2>4 DEF Paid, PostsTyped, CreationBounds
  <2>6. QED
    BY <2>1, <2>2, <2>3, <2>4, <2>5 DEF Few
<1>3. ASSUME NEW q \in Creation, Slugs!Allocate(q) PROVE SlugsInv'
  <2>1. Slugs!Pick(taken) \in Slugs!Candidate \ taken
    BY <1>3, PickIsFree DEF Slugs!Allocate, Created
  <2>2. post[q].step = "read" /\ UNCHANGED <<taken, rivals>>
    BY <1>3 DEF Slugs!Allocate
  <2>3. post'[q] = [step |-> "insert", attempt |-> post[q].attempt, slug |-> Slugs!Pick(taken)]
        /\ \A r \in Creation \ {q} : post'[r] = post[r]
    BY <1>3 DEF Slugs!Allocate, PostsTyped, Post
  <2>4. Created' = Created
    BY <2>2, <2>3 DEF Created
  <2>5. PostsTyped'
    BY <1>3, <2>1, <2>2, <2>3 DEF Slugs!Allocate, PostsTyped, Post
  <2>6. Paid'
    BY <2>1, <2>2, <2>3 DEF Paid
  <2>7. QED
    BY <2>1, <2>2, <2>3, <2>4, <2>5, <2>6 DEF Few
<1>4. ASSUME NEW q \in Creation, Slugs!Insert(q) PROVE SlugsInv'
  <2>1. /\ post[q].step = "insert" /\ post[q].slug \notin taken
        /\ taken' = taken \cup {post[q].slug}
        /\ rivals' = [r \in Creation |->
                        IF r # q /\ post[r].step \in {"read", "insert"} THEN rivals[r] + 1 ELSE rivals[r]]
    BY <1>4 DEF Slugs!Insert
  <2>2. post'[q].step = "created" /\ \A r \in Creation \ {q} : post'[r] = post[r]
    BY <1>4 DEF Slugs!Insert, PostsTyped, Post
  <2>3. Created' = Created \cup {q} /\ q \notin Created
    BY <2>1, <2>2 DEF Created
  <2>4. PostsTyped'
    <3>1. post' \in [Creation -> Post]
      BY <1>4 DEF Slugs!Insert, PostsTyped, Post
    <3>2. QED
      BY <2>1, <3>1 DEF PostsTyped
  <2>5. Few'
    <3>1. IsFiniteSet(Created) /\ IsFiniteSet(Slugs!Candidate) /\ Cardinality(Created) \in Nat
      <4>1. Created \subseteq Creation /\ Cardinality(Creation) \in Nat
        BY FS_CardinalityType DEF Created, CreationBounds
      <4>2. QED
        <5>1. IsFiniteSet(Created)
          BY <4>1, FS_Subset DEF CreationBounds
        <5>2. 1 \in Int /\ Cardinality(Creation) + 1 \in Int
          BY <4>1
        <5>3. IsFiniteSet(Slugs!Candidate)
          BY <5>2, Candidates, FS_Interval, Zenon
        <5>4. QED
          BY <5>1, <5>3, FS_CardinalityType
    <3>2. IsFiniteSet(taken) /\ Cardinality(taken) \in Nat
      BY <3>1, FS_Subset, FS_CardinalityType DEF Few
    <3>3. Cardinality(taken') = Cardinality(taken) + 1
      BY <2>1, <3>2, FS_AddElement
    <3>4. Cardinality(Created') = Cardinality(Created) + 1
      BY <2>3, <3>1, FS_AddElement
    <3>5. QED
      BY <2>1, <2>2, <3>1, <3>2, <3>3, <3>4 DEF Few
  <2>6. Paid'
    BY <2>1, <2>2 DEF Paid, PostsTyped, Post
  <2>7. QED
    BY <2>4, <2>5, <2>6
<1>5. ASSUME NEW q \in Creation, Slugs!Conflict(q) PROVE SlugsInv'
  <2> DEFINE step == IF wrapped THEN "error"
                     ELSE IF post[q].attempt + 1 < MaxCreations THEN "read" ELSE "refused"
  <2>1. /\ post[q].step = "insert" /\ post[q].slug \in taken /\ UNCHANGED <<taken, rivals>>
        /\ post[q].attempt < MaxCreations /\ post[q].attempt \in Nat /\ rivals[q] > post[q].attempt
    BY <1>5 DEF Slugs!Conflict, Paid, PostsTyped, Post
  <2>2. post'[q] = [step |-> step, attempt |-> post[q].attempt + 1, slug |-> post[q].slug]
        /\ \A r \in Creation \ {q} : post'[r] = post[r]
    BY <1>5 DEF Slugs!Conflict, PostsTyped, Post
  <2>3. Created' = Created
    BY <2>1, <2>2 DEF Created
  <2>4. PostsTyped'
    <3>1. post[q].attempt + 1 \in 0 .. MaxCreations
      BY <2>1 DEF CreationBounds
    <3>2. post'[q] \in Post
      BY <2>1, <2>2, <3>1 DEF Post, PostsTyped
    <3>3. QED
      BY <1>5, <2>1, <2>2, <3>2 DEF Slugs!Conflict, PostsTyped
  <2>5. Paid'
    BY <2>1, <2>2 DEF Paid, PostsTyped, CreationBounds
  <2>6. QED
    BY <2>1, <2>2, <2>3, <2>4, <2>5 DEF Few
<1>6. QED
  BY <1>1, <1>2, <1>3, <1>4, <1>5 DEF Slugs!Next

(* RefusedMeansCrowded of the slugs alone. *)
LEMMA RefusalIsPaid ==
  ASSUME CreationBounds
  PROVE  Slugs!Spec => []Slugs!RefusedMeansCrowded
<1>1. Slugs!Init => SlugsInv
  BY SlugsStart
<1>2. SlugsInv /\ [Slugs!Next]_Slugs!vars => SlugsInv'
  BY SlugsStep
<1>3. SlugsInv => Slugs!RefusedMeansCrowded
  BY DEF SlugsInv, Paid, Slugs!RefusedMeansCrowded
<1>4. QED
  BY <1>1, <1>2, <1>3, PTL DEF Slugs!Spec

(* Projects and the requests that create them have their types. *)
LEMMA SlugTypes == ASSUME CreationBounds PROVE Slugs!Spec => []Slugs!TypeOK
<1>1. SlugsInv /\ wrapped \in BOOLEAN => Slugs!TypeOK
  BY DEF SlugsInv, PostsTyped, Post, Few, Slugs!TypeOK
<1>2. wrapped \in BOOLEAN /\ [Slugs!Next]_(Slugs!vars) => (wrapped \in BOOLEAN)'
  BY DEF Slugs!Next, Slugs!vars, Slugs!Begin, Slugs!Allocate, Slugs!Insert, Slugs!Conflict
<1>3. SlugsInv /\ [Slugs!Next]_(Slugs!vars) => SlugsInv'
  BY SlugsStep
<1>4. Slugs!Init => SlugsInv /\ wrapped \in BOOLEAN
  BY SlugsStart DEF Slugs!Init
<1>5. QED
  BY <1>1, <1>2, <1>3, <1>4, PTL DEF Slugs!Spec

-----------------------------------------------------------------------------
(***************************************************************************)
(* The cache of the dashboard.                                             *)
(***************************************************************************)

(* Items on which the worker works. *)
Working == {"cluster", "branch", "workload", "backup"}

(* The item of whose change the answer of a mutation tells the cache. *)
Toldof(o) == IF o = "createProject" THEN "summary" ELSE Cache!Target(o)

(* What the server would answer. *)
Current == [i \in Cache!Item |-> Cache!Now(i)]

(* Items of which a mutation that is about to return will tell. *)
Awaited == {Toldof(o) : o \in {o \in Cache!Op : calls[o].step = "done"}}

(* An old row, in the cache or on its way, is replaced: something is known *)
(* to be under way, or a mutation will tell; or nobody told.               *)
CachedFine ==
  \A q \in Cache!Query : cached[q] # None /\ q \notin invalid =>
    \A i \in Cache!Items[q] :
      cached[q][i] = Current[i] \/ cached[q][i].busy \/ i \in missed \cup Awaited

ReadFine ==
  \A q \in Cache!Query : fetch[q].step = "read" =>
    \A i \in Cache!Items[q] :
      fetch[q].data[i] = Current[i] \/ fetch[q].data[i].busy \/ i \in missed \cup Awaited

(* Only what the worker works on is busy, wherever it is shown.            *)
OnlyWorkIsBusy ==
  /\ \A i \in Cache!Item : server[i].busy => i \in Working
  /\ working \subseteq Working
  /\ \A q \in Cache!Query : \A i \in Cache!Items[q] :
       /\ cached[q] # None /\ cached[q][i].busy => i \in Working \cup {"summary"}
       /\ fetch[q].step = "read" /\ fetch[q].data[i].busy => i \in Working \cup {"summary"}
  /\ \A o \in Cache!Op : calls[o].row.busy => Cache!Target(o) \in Working

(* The queries of a project start when the list of projects is there. *)
ProjectsFirst ==
  \A q \in {"databases", "workloads"} :
    cached[q] # None \/ Cache!Fetching(q) => cached["projects"] # None

CacheInv == Cache!TypeOK /\ CachedFine /\ ReadFine /\ OnlyWorkIsBusy /\ ProjectsFirst

(* Queries and their items. *)
LEMMA Tables ==
  /\ Cache!Query = {"projects", "summaries", "databases", "workloads", "backups", "schedules",
                    "destinations", "providers", "settings"}
  /\ Cache!Items["projects"] = {"project"} /\ Cache!Items["summaries"] = {"summary"}
  /\ Cache!Items["databases"] = {"cluster", "branch"} /\ Cache!Items["workloads"] = {"workload"}
  /\ Cache!Items["backups"] = {"backup"} /\ Cache!Items["schedules"] = {"schedule"}
  /\ Cache!Items["destinations"] = {"destination"} /\ Cache!Items["providers"] = {"provider"}
  /\ Cache!Items["settings"] = {"setting"}
BY DEF Cache!Query, Cache!Items

(* An item belongs to one query. *)
LEMMA ItemTable ==
  /\ Cache!Item = {"project", "summary", "cluster", "branch", "workload", "backup", "schedule",
                   "destination", "provider", "setting"}
  /\ \A q \in Cache!Query : Cache!Items[q] \subseteq Cache!Item
  /\ \A q, r \in Cache!Query : \A i \in Cache!Items[q] : i \in Cache!Items[r] => q = r
<1>1. \A i : i \in Cache!Item <=> \E q \in Cache!Query : i \in Cache!Items[q]
  BY DEF Cache!Item
<1>2. QED
  BY <1>1, Tables

(* The pages and the queries they mount. *)
LEMMA ShowsTable ==
  /\ Cache!Page = {"login", "projects", "created", "workspace", "overview", "backups",
                   "destinations", "git", "settings"}
  /\ \A p \in Cache!Page : Cache!Shows[p] \subseteq Cache!Query
BY Tables, ItemTable, ShowsTable DEF Cache!Page, Cache!Shows, Cache!Workspace

(* What the mutations change, and whom they tell. *)
LEMMA MutationTable ==
  ASSUME NEW o \in Cache!Op
  PROVE  /\ Cache!Mutation(o).query \in Cache!Query
         /\ Cache!Target(o) \in Cache!Items[Cache!Mutation(o).query]
         /\ Cache!Target(o) \in Cache!Item \ {"summary"}
         /\ Cache!Besides(o) \subseteq Cache!Untold(o) /\ Cache!Besides(o) \subseteq Working
         /\ Cache!Untold(o) \subseteq Cache!Item
         /\ Cache!Invalidated(o) \subseteq Cache!Query
         /\ o = "createProject" =>
              /\ Cache!Target(o) = "project" /\ Cache!Invalidated(o) = {"summaries"}
              /\ ~Cache!Mutation(o).sets
         /\ o # "createProject" =>
              /\ Cache!Invalidated(o) = {} \/ Cache!Invalidated(o) = {Cache!Mutation(o).query}
              /\ Cache!Invalidated(o) = {} => Cache!Mutation(o).sets
         /\ o = "settings" => Cache!Mutation(o).query = "settings" /\ Cache!Invalidated(o) = {}
         /\ Cache!Mutation(o).works \in BOOLEAN /\ Cache!Mutation(o).sets \in BOOLEAN
         /\ Cache!Mutation(o).works => Cache!Target(o) \in Working
         /\ Cache!Besides(o) \subseteq Cache!Item
         /\ Cache!Mutation(o).next \in Cache!Page \cup {None}
<1>1. CASE o = "createProject"
  <2>1. Cache!Mutation(o) = Cache!CreateProject
    BY <1>1 DEF Cache!Mutation
  <2>2. QED
    BY <2>1, <1>1, Tables, ItemTable, ShowsTable DEF Cache!CreateProject, Cache!Change, Cache!Silent, Cache!Target, Cache!Besides,
       Cache!Invalidated, Cache!Untold, Working
<1>2. CASE o = "createWorkload"
  <2>1. Cache!Mutation(o) = Cache!CreateWorkload
    BY <1>2 DEF Cache!Mutation
  <2>2. QED
    BY <2>1, <1>2, Tables, ItemTable, ShowsTable DEF Cache!CreateWorkload, Cache!Change, Cache!Silent, Cache!Target, Cache!Besides,
       Cache!Invalidated, Cache!Untold, Working
<1>3. CASE o = "saveConfig"
  <2>1. Cache!Mutation(o) = Cache!SaveConfig
    BY <1>3 DEF Cache!Mutation
  <2>2. QED
    BY <2>1, <1>3, Tables, ItemTable, ShowsTable DEF Cache!SaveConfig, Cache!Change, Cache!Silent, Cache!Target, Cache!Besides,
       Cache!Invalidated, Cache!Untold, Working
<1>4. CASE o = "saveEnv"
  <2>1. Cache!Mutation(o) = Cache!SaveEnv
    BY <1>4 DEF Cache!Mutation
  <2>2. QED
    BY <2>1, <1>4, Tables, ItemTable, ShowsTable DEF Cache!SaveEnv, Cache!Change, Cache!Silent, Cache!Target, Cache!Besides,
       Cache!Invalidated, Cache!Untold, Working
<1>5. CASE o = "deploy"
  <2>1. Cache!Mutation(o) = Cache!Deploy
    BY <1>5 DEF Cache!Mutation
  <2>2. QED
    BY <2>1, <1>5, Tables, ItemTable, ShowsTable DEF Cache!Deploy, Cache!Change, Cache!Silent, Cache!Target, Cache!Besides,
       Cache!Invalidated, Cache!Untold, Working
<1>6. CASE o = "createDatabase"
  <2>1. Cache!Mutation(o) = Cache!CreateDatabase
    BY <1>6 DEF Cache!Mutation
  <2>2. QED
    BY <2>1, <1>6, Tables, ItemTable, ShowsTable DEF Cache!CreateDatabase, Cache!Change, Cache!Silent, Cache!Target, Cache!Besides,
       Cache!Invalidated, Cache!Untold, Working
<1>7. CASE o = "createBranch"
  <2>1. Cache!Mutation(o) = Cache!CreateBranch
    BY <1>7 DEF Cache!Mutation
  <2>2. QED
    BY <2>1, <1>7, Tables, ItemTable, ShowsTable DEF Cache!CreateBranch, Cache!Change, Cache!Silent, Cache!Target, Cache!Besides,
       Cache!Invalidated, Cache!Untold, Working
<1>8. CASE o = "patchBranch"
  <2>1. Cache!Mutation(o) = Cache!PatchBranch
    BY <1>8 DEF Cache!Mutation
  <2>2. QED
    BY <2>1, <1>8, Tables, ItemTable, ShowsTable DEF Cache!PatchBranch, Cache!Change, Cache!Silent, Cache!Target, Cache!Besides,
       Cache!Invalidated, Cache!Untold, Working
<1>9. CASE o = "backup"
  <2>1. Cache!Mutation(o) = Cache!RunBackup
    BY <1>9 DEF Cache!Mutation
  <2>2. QED
    BY <2>1, <1>9, Tables, ItemTable, ShowsTable DEF Cache!RunBackup, Cache!Change, Cache!Silent, Cache!Target, Cache!Besides,
       Cache!Invalidated, Cache!Untold, Working
<1>10. CASE o = "restore"
  <2>1. Cache!Mutation(o) = Cache!Restore
    BY <1>10 DEF Cache!Mutation
  <2>2. QED
    BY <2>1, <1>10, Tables, ItemTable, ShowsTable DEF Cache!Restore, Cache!Change, Cache!Silent, Cache!Target, Cache!Besides,
       Cache!Invalidated, Cache!Untold, Working
<1>11. CASE o = "schedule"
  <2>1. Cache!Mutation(o) = Cache!SaveSchedule
    BY <1>11 DEF Cache!Mutation
  <2>2. QED
    BY <2>1, <1>11, Tables, ItemTable, ShowsTable DEF Cache!SaveSchedule, Cache!Change, Cache!Silent, Cache!Target, Cache!Besides,
       Cache!Invalidated, Cache!Untold, Working
<1>12. CASE o = "destination"
  <2>1. Cache!Mutation(o) = Cache!SaveDestination
    BY <1>12 DEF Cache!Mutation
  <2>2. QED
    BY <2>1, <1>12, Tables, ItemTable, ShowsTable DEF Cache!SaveDestination, Cache!Change, Cache!Silent, Cache!Target, Cache!Besides,
       Cache!Invalidated, Cache!Untold, Working
<1>13. CASE o = "provider"
  <2>1. Cache!Mutation(o) = Cache!SaveProvider
    BY <1>13 DEF Cache!Mutation
  <2>2. QED
    BY <2>1, <1>13, Tables, ItemTable, ShowsTable DEF Cache!SaveProvider, Cache!Change, Cache!Silent, Cache!Target, Cache!Besides,
       Cache!Invalidated, Cache!Untold, Working
<1>14. CASE o = "settings"
  <2>1. Cache!Mutation(o) = Cache!SaveSettings
    BY <1>14 DEF Cache!Mutation
  <2>2. QED
    BY <2>1, <1>14, Tables, ItemTable, ShowsTable DEF Cache!SaveSettings, Cache!Change, Cache!Silent, Cache!Target, Cache!Besides,
       Cache!Invalidated, Cache!Untold, Working
<1>15. CASE o = "saveDomains"
  <2>1. Cache!Mutation(o) = Cache!SaveDomains
    BY <1>15 DEF Cache!Mutation
  <2>2. QED
    BY <2>1, <1>15, Tables, ItemTable, ShowsTable DEF Cache!SaveDomains, Cache!Change, Cache!Silent, Cache!Target, Cache!Besides,
       Cache!Invalidated, Cache!Untold, Working
<1>16. QED
  BY <1>1, <1>2, <1>3, <1>4, <1>5, <1>6, <1>7, <1>8, <1>9, <1>10, <1>11, <1>12, <1>13, <1>14, <1>15
     DEF Cache!Op

(* Types, query by query. *)
CachedType(q) == cached[q] = None \/ cached[q] \in [Cache!Items[q] -> Cache!Row]
FetchType(q) ==
  \/ fetch[q] \in {[step |-> "none"], [step |-> "sent"]}
  \/ fetch[q].step = "read" /\ fetch[q].data \in [Cache!Items[q] -> Cache!Row]

CallRow == [step : {"idle", "sent", "done"}, row : Cache!Row]

(* The type invariant, query by query. *)
LEMMA CacheTypes ==
  Cache!TypeOK <=>
    /\ server \in [Cache!Item -> Cache!Row] /\ page \in Cache!Page
    /\ working \subseteq Cache!Item /\ expired \in BOOLEAN
    /\ DOMAIN cached = Cache!Query /\ DOMAIN fetch = Cache!Query
    /\ \A q \in Cache!Query : CachedType(q) /\ FetchType(q)
    /\ invalid \subseteq Cache!Query /\ missed \subseteq Cache!Item
    /\ calls \in [Cache!Op -> CallRow]
    /\ ops \in 0 .. MaxChanges /\ marks \in 0 .. MaxMarks
    /\ failed \in 0 .. MaxFailed /\ focused \in 0 .. MaxFocus
BY DEF Cache!TypeOK, CachedType, FetchType, CallRow

(* What the server would answer for an item is a row. *)
LEMMA CurrentType ==
  ASSUME Cache!TypeOK
  PROVE  /\ Current \in [Cache!Item -> Cache!Row]
         /\ \A i \in Cache!Item \ {"summary"} : Current[i] = server[i]
         /\ \A i \in Cache!Item : Current[i] = Cache!Now(i)
<1>1. ASSUME NEW i \in Cache!Item PROVE Cache!Now(i) \in Cache!Row
  <2>1. server \in [Cache!Item -> Cache!Row]
    BY DEF Cache!TypeOK
  <2>2. CASE i # "summary"
    BY <2>1, <2>2 DEF Cache!Now
  <2>3. CASE i = "summary"
    <3>1. /\ server["project"].n \in Nat /\ server["cluster"].n \in Nat
          /\ server["branch"].n \in Nat /\ server["workload"].n \in Nat
      BY <2>1, ItemTable DEF Cache!Row
    <3> DEFINE total == server["project"].n + server["cluster"].n + server["branch"].n + server["workload"].n
               any == \E c \in Cache!Counted : server[c].busy
    <3>2. total \in Nat
      BY <3>1
    <3>3. any \in BOOLEAN
      OBVIOUS
    <3>4. Cache!Now(i) = [n |-> total, busy |-> any]
      BY <2>3 DEF Cache!Now
    <3> HIDE DEF total, any
    <3>5. QED
      BY <3>2, <3>3, <3>4 DEF Cache!Row
  <2>4. QED
    BY <2>2, <2>3
<1>2. \A i \in Cache!Item \ {"summary"} : Cache!Now(i) = server[i]
  BY DEF Cache!Now
<1>3. QED
  BY <1>1, <1>2 DEF Current

(* Queries are started: fetches that are not under way. *)
LEMMA Started ==
  ASSUME Cache!TypeOK, NEW qs, Cache!Start(qs)
  PROVE  /\ DOMAIN fetch' = Cache!Query
         /\ \A q \in Cache!Query :
              /\ FetchType(q)'
              /\ fetch'[q] = fetch[q] \/ (q \in qs /\ fetch'[q] = Cache!Sent)
BY CacheTypes DEF Cache!Start, Cache!Sent, FetchType

(* Fetches that start know nothing yet. *)
LEMMA CacheStarts ==
  ASSUME CacheInv, NEW qs, Cache!Start(qs), \A q \in qs : Cache!Enabled(q),
         UNCHANGED <<server, working, expired, cached, invalid, calls, missed, ops, marks, failed>>,
         page' \in Cache!Page, focused' \in 0 .. MaxFocus
  PROVE  CacheInv'
<1>1. Cache!TypeOK /\ CachedFine /\ ReadFine /\ OnlyWorkIsBusy /\ ProjectsFirst
  BY DEF CacheInv
<1>2. Current' = Current /\ Awaited' = Awaited
  BY DEF Current, Cache!Now, Awaited
<1>3. /\ DOMAIN fetch' = Cache!Query
      /\ \A q \in Cache!Query :
           /\ FetchType(q)'
           /\ fetch'[q] = fetch[q] \/ (q \in qs /\ fetch'[q] = Cache!Sent)
  BY <1>1, Started
<1>4. Cache!TypeOK'
  BY <1>1, <1>3 DEF Cache!TypeOK, FetchType
<1>5. CachedFine'
  BY <1>1, <1>2 DEF CachedFine
<1>6. ReadFine'
  BY <1>1, <1>2, <1>3 DEF ReadFine, Cache!Sent
<1>7. OnlyWorkIsBusy'
  BY <1>1, <1>3 DEF OnlyWorkIsBusy, Cache!Sent
<1>8. ProjectsFirst'
  BY <1>1, <1>3, Tables DEF ProjectsFirst, Cache!Fetching, Cache!Enabled
<1>9. QED
  BY <1>4, <1>5, <1>6, <1>7, <1>8 DEF CacheInv

(* The server answers with its rows as they are. *)
LEMMA CacheAnswers == ASSUME CacheInv, NEW q \in Cache!Query, Cache!Answer(q) PROVE CacheInv'
<1>1. Cache!TypeOK /\ CachedFine /\ ReadFine /\ OnlyWorkIsBusy /\ ProjectsFirst
  BY DEF CacheInv
<1> DEFINE data == [i \in Cache!Items[q] |-> Cache!Now(i)]
<1>2. /\ fetch[q].step = "sent" /\ fetch' = [fetch EXCEPT ![q] = [step |-> "read", data |-> data]]
      /\ UNCHANGED <<server, working, expired, page, cached, invalid, calls, missed, Cache!counters>>
  BY DEF Cache!Answer, Cache!rows
<1>3. data \in [Cache!Items[q] -> Cache!Row] /\ \A i \in Cache!Items[q] : data[i] = Current[i]
  BY <1>1, CurrentType, ItemTable
<1> HIDE DEF data
<1>4. Current' = Current /\ Awaited' = Awaited
  BY <1>2 DEF Current, Cache!Now, Awaited
<1>5. /\ DOMAIN fetch' = Cache!Query
      /\ fetch'[q].step = "read" /\ fetch'[q].data = data
      /\ \A r \in Cache!Query \ {q} : fetch'[r] = fetch[r]
  BY <1>1, <1>2, CacheTypes
<1>6. Cache!TypeOK'
  BY <1>1, <1>2, <1>3, <1>5 DEF Cache!TypeOK, Cache!counters
<1>7. CachedFine'
  BY <1>1, <1>2, <1>4 DEF CachedFine
<1>8. ReadFine'
  BY <1>1, <1>2, <1>3, <1>4, <1>5 DEF ReadFine
<1>9. OnlyWorkIsBusy'
  <2>1. ASSUME NEW i \in Cache!Items[q], data[i].busy PROVE i \in Working \cup {"summary"}
    BY <1>1, <1>3, <2>1, CurrentType, ItemTable DEF OnlyWorkIsBusy
  <2>2. QED
    BY <1>1, <1>2, <1>5, <2>1 DEF OnlyWorkIsBusy
<1>10. ProjectsFirst'
  BY <1>1, <1>2, <1>5, Tables DEF ProjectsFirst, Cache!Fetching
<1>11. QED
  BY <1>6, <1>7, <1>8, <1>9, <1>10 DEF CacheInv

(* A fetch that fails leaves the data as it was. *)
LEMMA FetchEnds == ASSUME CacheInv, NEW q \in Cache!Query, Cache!FetchFails(q) PROVE CacheInv'
<1>1. Cache!TypeOK /\ CachedFine /\ ReadFine /\ OnlyWorkIsBusy /\ ProjectsFirst
  BY DEF CacheInv
<1>2. /\ Cache!Fetching(q) /\ fetch' = [fetch EXCEPT ![q] = [step |-> "none"]]
      /\ UNCHANGED <<server, working, expired, page, cached, invalid, calls, missed, ops, marks, focused>>
      /\ failed < MaxFailed /\ failed' = failed + 1
  BY DEF Cache!FetchFails, Cache!rows
<1>3. Current' = Current /\ Awaited' = Awaited
  BY <1>2 DEF Current, Cache!Now, Awaited
<1>4. /\ DOMAIN fetch' = Cache!Query /\ fetch'[q] = [step |-> "none"]
      /\ \A r \in Cache!Query \ {q} : fetch'[r] = fetch[r]
  BY <1>1, <1>2, CacheTypes
<1>5. Cache!TypeOK'
  BY <1>1, <1>2, <1>4, CacheAssumption DEF Cache!TypeOK
<1>6. CachedFine' /\ ReadFine'
  BY <1>1, <1>2, <1>3, <1>4 DEF CachedFine, ReadFine
<1>7. OnlyWorkIsBusy'
  BY <1>1, <1>2, <1>4 DEF OnlyWorkIsBusy
<1>8. ProjectsFirst'
  BY <1>1, <1>2, <1>4, Tables DEF ProjectsFirst, Cache!Fetching
<1>9. QED
  BY <1>5, <1>6, <1>7, <1>8 DEF CacheInv

(* An answer replaces the data of its query. *)
LEMMA CacheDelivers == ASSUME CacheInv, NEW q \in Cache!Query, Cache!Deliver(q) PROVE CacheInv'
<1>1. Cache!TypeOK /\ CachedFine /\ ReadFine /\ OnlyWorkIsBusy /\ ProjectsFirst
  BY DEF CacheInv
<1> DEFINE data == fetch[q].data
           next == IF q = "projects" /\ page \in {"workspace", "overview", "backups"}
                   THEN {r \in {"databases", "workloads"} : cached[r] = None} ELSE {}
<1>2. /\ fetch[q].step = "read" /\ cached' = [cached EXCEPT ![q] = data]
      /\ invalid' = invalid \ {q}
      /\ missed' = {i \in missed : i \notin Cache!Items[q] \/ data[i] # Cache!Now(i)}
      /\ fetch' = [r \in Cache!Query |-> IF r = q THEN [step |-> "none"]
                                        ELSE IF r \in next /\ ~Cache!Fetching(r) THEN Cache!Sent ELSE fetch[r]]
      /\ UNCHANGED <<server, working, expired, page, calls, Cache!counters>>
  BY DEF Cache!Deliver, Cache!rows
<1>3. data \in [Cache!Items[q] -> Cache!Row]
  BY <1>1, <1>2 DEF Cache!TypeOK
<1>4. Current' = Current /\ Awaited' = Awaited
  BY <1>2 DEF Current, Cache!Now, Awaited
<1>5. /\ missed' \subseteq missed
      /\ \A i \in missed : i \notin Cache!Items[q] => i \in missed'
      /\ \A i \in missed \cap Cache!Items[q] : data[i] # Current[i] => i \in missed'
  BY <1>1, <1>2, CurrentType, ItemTable
<1>6. /\ DOMAIN cached' = Cache!Query /\ cached'[q] = data
      /\ \A r \in Cache!Query \ {q} : cached'[r] = cached[r]
  BY <1>1, <1>2, CacheTypes
<1>7. /\ DOMAIN fetch' = Cache!Query /\ fetch'[q] = [step |-> "none"]
      /\ \A r \in Cache!Query \ {q} : fetch'[r] = fetch[r] \/ (r \in next /\ fetch'[r] = [step |-> "sent"])
  BY <1>2 DEF Cache!Sent
<1>8. next # {} => q = "projects"
  OBVIOUS
<1> HIDE DEF data, next
<1>9. Cache!TypeOK'
  BY <1>1, <1>2, <1>3, <1>5, <1>6, <1>7 DEF Cache!TypeOK, Cache!counters
<1>10. CachedFine'
  <2> SUFFICES ASSUME NEW r \in Cache!Query, cached'[r] # None, r \notin invalid', NEW i \in Cache!Items[r]
               PROVE  \/ cached'[r][i] = Current[i] \/ cached'[r][i].busy
                      \/ i \in missed' \cup Awaited
    BY <1>4 DEF CachedFine
  <2>1. CASE r = q
    BY <2>1, <1>1, <1>2, <1>5, <1>6 DEF ReadFine, data
  <2>2. CASE r # q
    <3>1. i \notin Cache!Items[q]
      BY <2>2, ItemTable
    <3>2. QED
      BY <2>2, <3>1, <1>1, <1>2, <1>5, <1>6 DEF CachedFine
  <2>3. QED
    BY <2>1, <2>2
<1>11. ReadFine'
  <2> SUFFICES ASSUME NEW r \in Cache!Query, fetch'[r].step = "read", NEW i \in Cache!Items[r]
               PROVE  \/ fetch'[r].data[i] = Current[i] \/ fetch'[r].data[i].busy
                      \/ i \in missed' \cup Awaited
    BY <1>4 DEF ReadFine
  <2>1. r # q /\ fetch'[r] = fetch[r]
    BY <1>7
  <2>2. i \notin Cache!Items[q]
    BY <2>1, ItemTable
  <2>3. QED
    BY <2>1, <2>2, <1>1, <1>5 DEF ReadFine
<1>12. OnlyWorkIsBusy'
  <2>1. \A i \in Cache!Items[q] : cached'[q][i].busy => i \in Working \cup {"summary"}
    BY <1>1, <1>2, <1>6 DEF OnlyWorkIsBusy, data
  <2>2. QED
    BY <1>1, <1>2, <1>6, <1>7, <2>1 DEF OnlyWorkIsBusy
<1>13. ProjectsFirst'
  <2> SUFFICES ASSUME NEW r \in {"databases", "workloads"}, cached'[r] # None \/ fetch'[r].step # "none"
               PROVE  cached'["projects"] # None
    BY DEF ProjectsFirst, Cache!Fetching
  <2>1. q = "projects" => cached'["projects"] # None
    BY <1>3, <1>6, CacheAssumption
  <2>2. ASSUME q # "projects" PROVE cached["projects"] # None
    <3>1. next = {}
      BY <2>2 DEF next
    <3>2. r \in Cache!Query /\ "projects" \in Cache!Query
      BY Tables
    <3>3. CASE r = q
      BY <3>3, <1>1, <1>2 DEF ProjectsFirst, Cache!Fetching
    <3>4. CASE r # q
      BY <3>1, <3>2, <3>4, <1>1, <1>6, <1>7 DEF ProjectsFirst, Cache!Fetching
    <3>5. QED
      BY <3>3, <3>4
  <2>3. QED
    BY <2>1, <2>2, <1>6, Tables
<1>14. QED
  BY <1>9, <1>10, <1>11, <1>12, <1>13 DEF CacheInv

(* A mutation is sent, and the other calls stay. *)
LEMMA CallSet ==
  ASSUME Cache!TypeOK, NEW o \in Cache!Op, NEW c \in CallRow, calls' = [calls EXCEPT ![o] = c]
  PROVE  /\ calls' \in [Cache!Op -> CallRow] /\ calls'[o] = c
         /\ \A p \in Cache!Op \ {o} : calls'[p] = calls[p]
         /\ Awaited \subseteq Awaited' \cup {Toldof(o)}
         /\ calls[o].step # "done" => Awaited \subseteq Awaited'
         /\ c.step = "done" => Toldof(o) \in Awaited'
<1>1. /\ calls' \in [Cache!Op -> CallRow] /\ calls'[o] = c
      /\ \A p \in Cache!Op \ {o} : calls'[p] = calls[p]
  BY CacheTypes
<1>2. \A i : i \in Awaited <=> \E p \in Cache!Op : calls[p].step = "done" /\ Toldof(p) = i
  BY DEF Awaited
<1>3. \A i : i \in Awaited' <=> \E p \in Cache!Op : calls'[p].step = "done" /\ Toldof(p) = i
  BY DEF Awaited, Toldof, Cache!Target, Cache!Op
<1>4. QED
  BY <1>1, <1>2, <1>3

(* A mutation is sent. *)
LEMMA CacheClicks == ASSUME CacheInv, NEW o \in Cache!Op, Cache!Click(o) PROVE CacheInv'
<1>1. Cache!TypeOK /\ CachedFine /\ ReadFine /\ OnlyWorkIsBusy /\ ProjectsFirst
  BY DEF CacheInv
<1> DEFINE c == [calls[o] EXCEPT !.step = "sent"]
<1>2. /\ calls[o].step = "idle" /\ calls' = [calls EXCEPT ![o] = c]
      /\ ops < MaxChanges /\ ops' = ops + 1
      /\ UNCHANGED <<server, working, expired, page, cached, invalid, fetch, missed, marks, failed, focused>>
  BY <1>1, CacheTypes DEF Cache!Click, Cache!Idle, Cache!rows
<1>3. calls[o] \in CallRow /\ c \in CallRow /\ c.row = calls[o].row
  BY <1>1, CacheTypes DEF CallRow
<1> HIDE DEF c
<1>4. /\ calls' \in [Cache!Op -> CallRow] /\ calls'[o] = c
      /\ \A p \in Cache!Op \ {o} : calls'[p] = calls[p]
      /\ Awaited \subseteq Awaited'
  BY <1>1, <1>2, <1>3, CallSet
<1>5. Current' = Current
  BY <1>2 DEF Current, Cache!Now
<1>6. Cache!TypeOK'
  BY <1>1, <1>2, <1>4, CacheAssumption DEF Cache!TypeOK, CallRow
<1>7. CachedFine' /\ ReadFine'
  BY <1>1, <1>2, <1>4, <1>5 DEF CachedFine, ReadFine
<1>8. OnlyWorkIsBusy'
  BY <1>1, <1>2, <1>3, <1>4 DEF OnlyWorkIsBusy
<1>9. ProjectsFirst'
  BY <1>1, <1>2 DEF ProjectsFirst, Cache!Fetching
<1>10. QED
  BY <1>6, <1>7, <1>8, <1>9 DEF CacheInv

(* A mutation that fails: the page has missed what it may have done. *)
LEMMA CacheCallFails == ASSUME CacheInv, NEW o \in Cache!Op, Cache!Fails(o) PROVE CacheInv'
<1>1. Cache!TypeOK /\ CachedFine /\ ReadFine /\ OnlyWorkIsBusy /\ ProjectsFirst
  BY DEF CacheInv
<1>2. /\ calls[o].step # "idle" /\ calls' = [calls EXCEPT ![o] = Cache!Idle]
      /\ failed < MaxFailed /\ failed' = failed + 1
      /\ missed' = IF calls[o].step = "sent" THEN missed
                   ELSE missed \cup {Cache!Target(o), "summary"} \cup Cache!Besides(o)
      /\ UNCHANGED <<server, working, expired, page, cached, invalid, fetch, ops, marks, focused>>
  BY DEF Cache!Fails, Cache!rows
<1>3. calls[o] \in CallRow /\ Cache!Idle \in CallRow /\ ~Cache!Idle.row.busy /\ Cache!Idle.step = "idle"
  BY <1>1, CacheTypes DEF CallRow, Cache!Idle, Cache!Missing, Cache!Row
<1>4. /\ calls' \in [Cache!Op -> CallRow] /\ calls'[o] = Cache!Idle
      /\ \A p \in Cache!Op \ {o} : calls'[p] = calls[p]
      /\ Awaited \subseteq Awaited' \cup {Toldof(o)}
      /\ calls[o].step # "done" => Awaited \subseteq Awaited'
  BY <1>1, <1>2, <1>3, CallSet
<1>5. missed \subseteq missed' /\ missed' \subseteq Cache!Item
  <2>1. {Cache!Target(o), "summary"} \cup Cache!Besides(o) \subseteq Cache!Item
    BY MutationTable, ItemTable
  <2>2. QED
    BY <1>1, <1>2, <2>1, CacheTypes
<1>6. missed \cup Awaited \subseteq missed' \cup Awaited'
  <2>1. CASE calls[o].step = "done"
    <3>1. Toldof(o) \in missed'
      BY <1>2, <2>1 DEF Toldof
    <3>2. QED
      BY <3>1, <1>4, <1>5
  <2>2. CASE calls[o].step # "done"
    BY <2>2, <1>4, <1>5
  <2>3. QED
    BY <2>1, <2>2
<1>7. Current' = Current
  BY <1>2 DEF Current, Cache!Now
<1>8. Cache!TypeOK'
  BY <1>1, <1>2, <1>4, <1>5, CacheAssumption DEF Cache!TypeOK, CallRow
<1>9. CachedFine' /\ ReadFine'
  BY <1>1, <1>2, <1>6, <1>7 DEF CachedFine, ReadFine
<1>10. OnlyWorkIsBusy'
  BY <1>1, <1>2, <1>3, <1>4 DEF OnlyWorkIsBusy
<1>11. ProjectsFirst'
  BY <1>1, <1>2 DEF ProjectsFirst, Cache!Fetching
<1>12. QED
  BY <1>8, <1>9, <1>10, <1>11 DEF CacheInv

(* A mutation that is refused has changed nothing. *)
LEMMA CacheRefuses == ASSUME CacheInv, NEW o \in Cache!Op, Cache!Refused(o) PROVE CacheInv'
<1>1. Cache!TypeOK /\ CachedFine /\ ReadFine /\ OnlyWorkIsBusy /\ ProjectsFirst
  BY DEF CacheInv
<1>2. /\ calls[o].step = "sent" /\ calls' = [calls EXCEPT ![o] = Cache!Idle]
      /\ UNCHANGED <<server, working, expired, page, cached, invalid, fetch, missed, ops, marks, failed, focused>>
  BY DEF Cache!Refused, Cache!rows, Cache!counters
<1>3. Cache!Idle \in CallRow /\ ~Cache!Idle.row.busy
  BY DEF CallRow, Cache!Idle, Cache!Missing, Cache!Row
<1>4. /\ calls' \in [Cache!Op -> CallRow] /\ calls'[o] = Cache!Idle
      /\ \A p \in Cache!Op \ {o} : calls'[p] = calls[p]
      /\ Awaited \subseteq Awaited'
  BY <1>1, <1>2, <1>3, CallSet
<1>5. Current' = Current
  BY <1>2 DEF Current, Cache!Now
<1>6. Cache!TypeOK'
  BY <1>1, <1>2, <1>4 DEF Cache!TypeOK, CallRow
<1>7. CachedFine' /\ ReadFine'
  BY <1>1, <1>2, <1>4, <1>5 DEF CachedFine, ReadFine
<1>8. OnlyWorkIsBusy'
  BY <1>1, <1>2, <1>3, <1>4 DEF OnlyWorkIsBusy
<1>9. ProjectsFirst'
  BY <1>1, <1>2 DEF ProjectsFirst, Cache!Fetching
<1>10. QED
  BY <1>6, <1>7, <1>8, <1>9 DEF CacheInv

(* The server makes the change: rows that were current are awaited now. *)
LEMMA CacheArrives == ASSUME CacheInv, NEW o \in Cache!Op, Cache!Arrive(o) PROVE CacheInv'
<1>1. Cache!TypeOK /\ CachedFine /\ ReadFine /\ OnlyWorkIsBusy /\ ProjectsFirst
  BY DEF CacheInv
<1> DEFINE changed == {Cache!Target(o)} \cup Cache!Besides(o)
           row(i) == [n |-> server[i].n + 1, busy |-> Cache!Mutation(o).works \/ (server[i].busy /\ o # "saveConfig")]
           c == [step |-> "done", row |-> server'[Cache!Target(o)]]
<1>2. /\ calls[o].step = "sent" /\ calls' = [calls EXCEPT ![o] = c]
      /\ server' = [i \in Cache!Item |-> IF i \in changed THEN row(i) ELSE server[i]]
      /\ missed' = missed \cup Cache!Untold(o)
      /\ working' = IF Cache!Mutation(o).works
                    THEN working \cup {Cache!Target(o)} \cup Cache!Besides(o) ELSE working
      /\ UNCHANGED <<expired, page, cached, invalid, fetch, Cache!counters>>
  BY DEF Cache!Arrive
<1>3. ASSUME NEW i \in Cache!Item
      PROVE  row(i) \in Cache!Row /\ (row(i).busy => server[i].busy \/ Cache!Mutation(o).works)
  <2>1. server[i].n + 1 \in Nat /\ server[i].busy \in BOOLEAN /\ Cache!Mutation(o).works \in BOOLEAN
    BY <1>1, MutationTable, CacheTypes DEF Cache!Row
  <2> DEFINE b == Cache!Mutation(o).works \/ (server[i].busy /\ o # "saveConfig")
  <2>2. b \in BOOLEAN /\ (b => server[i].busy \/ Cache!Mutation(o).works)
    OBVIOUS
  <2> HIDE DEF b
  <2>3. [n |-> server[i].n + 1, busy |-> b] \in Cache!Row
    BY <2>1, <2>2 DEF Cache!Row
  <2>4. [n |-> server[i].n + 1, busy |-> b].busy = b
    OBVIOUS
  <2>5. QED
    BY <2>2, <2>3, <2>4, Zenon DEF b
<1>4. changed \subseteq Cache!Item /\ Cache!Target(o) \in changed
  BY MutationTable
<1> HIDE DEF row, changed
<1>5. /\ server' \in [Cache!Item -> Cache!Row]
      /\ \A i \in Cache!Item : server'[i].busy => server[i].busy \/ (Cache!Mutation(o).works /\ i \in changed)
      /\ \A i \in Cache!Item \ changed : server'[i] = server[i]
  BY <1>1, <1>2, <1>3, CacheTypes
<1>6. c \in CallRow /\ c.step = "done" /\ c.row = server'[Cache!Target(o)]
  BY <1>4, <1>5 DEF CallRow
<1> HIDE DEF c
<1>7. /\ calls' \in [Cache!Op -> CallRow] /\ calls'[o] = c
      /\ \A p \in Cache!Op \ {o} : calls'[p] = calls[p]
      /\ Awaited \subseteq Awaited' /\ Toldof(o) \in Awaited'
  BY <1>1, <1>2, <1>6, CallSet
<1>8. missed \subseteq missed' /\ missed' \subseteq Cache!Item
  BY <1>1, <1>2, CacheTypes, MutationTable
<1>9. Cache!TypeOK'
  <2>1. working' \subseteq Cache!Item
    BY <1>1, <1>2, MutationTable, CacheTypes
  <2>2. QED
    BY <1>1, <1>2, <1>5, <1>7, <1>8, <2>1 DEF Cache!TypeOK, CallRow, Cache!counters
<1>10. \A i \in Cache!Item : i \in missed' \cup Awaited' \/ Current'[i] = Current[i]
  <2> SUFFICES ASSUME NEW i \in Cache!Item, i \notin missed' \cup Awaited' PROVE Current'[i] = Current[i]
    OBVIOUS
  <2>1. i \notin changed
    BY <1>2, <1>7, MutationTable DEF changed, Toldof, Cache!Untold
  <2>2. i # "summary"
    BY <1>2, <1>7 DEF Toldof, Cache!Untold
  <2>3. Current[i] = server[i] /\ Current'[i] = server'[i]
    BY <2>2 DEF Current, Cache!Now
  <2>4. QED
    BY <2>1, <2>3, <1>5
<1>11. CachedFine'
  BY <1>1, <1>2, <1>7, <1>8, <1>10, ItemTable DEF CachedFine
<1>12. ReadFine'
  BY <1>1, <1>2, <1>7, <1>8, <1>10, ItemTable DEF ReadFine
<1>13. OnlyWorkIsBusy'
  <2>1. \A i \in Cache!Item : server'[i].busy => i \in Working
    BY <1>1, <1>5, MutationTable DEF OnlyWorkIsBusy, changed
  <2>2. c.row.busy => Cache!Target(o) \in Working
    BY <2>1, <1>6, MutationTable
  <2>3. working' \subseteq Working
    BY <1>1, <1>2, MutationTable DEF OnlyWorkIsBusy
  <2>4. QED
    BY <1>1, <1>2, <1>7, <2>1, <2>2, <2>3 DEF OnlyWorkIsBusy
<1>14. ProjectsFirst'
  BY <1>1, <1>2 DEF ProjectsFirst, Cache!Fetching
<1>15. QED
  BY <1>9, <1>11, <1>12, <1>13, <1>14 DEF CacheInv

(* The answer of a mutation is set: one row of one query. *)
LEMMA AnswerIsSet ==
  ASSUME Cache!TypeOK, NEW o \in Cache!Op, cached' = [q \in Cache!Query |-> Cache!SetTo(o, q)]
  PROVE  /\ DOMAIN cached' = Cache!Query
         /\ \A q \in Cache!Query :
              /\ CachedType(q)'
              /\ cached[q] # None => cached'[q] # None
              /\ cached'[q] # None => cached[q] # None \/ q = "settings"
              /\ ~Cache!Mutation(o).sets \/ q # Cache!Mutation(o).query => cached'[q] = cached[q]
              /\ cached'[q] # None =>
                   /\ Cache!Mutation(o).sets /\ q = Cache!Mutation(o).query =>
                        cached'[q][Cache!Target(o)] = calls[o].row
                   /\ \A i \in Cache!Items[q] : i # Cache!Target(o) =>
                        cached[q] # None /\ cached'[q][i] = cached[q][i]
<1> DEFINE row == calls[o].row
           m == Cache!Mutation(o).query
<1>1. row \in Cache!Row
  BY CacheTypes DEF CallRow
<1>2. /\ m \in Cache!Query /\ Cache!Target(o) \in Cache!Items[m]
      /\ o = "settings" => m = "settings" /\ Cache!Items[m] = {Cache!Target(o)}
  BY MutationTable, Tables
<1>3. \A q \in Cache!Query : cached'[q] = Cache!SetTo(o, q) /\ CachedType(q)
  BY CacheTypes
<1>4. ASSUME NEW q \in Cache!Query, q \notin Cache!Sets(o) PROVE cached'[q] = cached[q]
  BY <1>3, <1>4 DEF Cache!SetTo
<1>5. ASSUME NEW q \in Cache!Query, q \in Cache!Sets(o)
      PROVE  /\ q = m /\ Cache!Mutation(o).sets /\ (cached[q] # None \/ q = "settings")
             /\ cached'[q] \in [Cache!Items[q] -> Cache!Row] /\ cached'[q] # None
             /\ cached'[q][Cache!Target(o)] = row
             /\ \A i \in Cache!Items[q] : i # Cache!Target(o) =>
                  cached[q] # None /\ cached'[q][i] = cached[q][i]
  <2>1. q = m /\ Cache!Mutation(o).sets /\ (cached[q] # None \/ o = "settings")
    BY <1>5 DEF Cache!Sets
  <2>2. CASE o = "settings"
    <3>1. cached'[q] = [i \in Cache!Items[q] |-> row]
      BY <1>3, <1>5, <2>2 DEF Cache!SetTo
    <3>2. QED
      BY <3>1, <2>1, <2>2, <1>1, <1>2, CacheAssumption
  <2>3. CASE o # "settings"
    <3>1. cached'[q] = [cached[q] EXCEPT ![Cache!Target(o)] = row]
      BY <1>3, <1>5, <2>3 DEF Cache!SetTo
    <3>2. cached[q] \in [Cache!Items[q] -> Cache!Row]
      BY <1>3, <2>1, <2>3 DEF CachedType
    <3>3. QED
      BY <3>1, <3>2, <2>1, <2>3, <1>1, <1>2, CacheAssumption
  <2>4. QED
    BY <2>2, <2>3
<1>6. ASSUME NEW q \in Cache!Query, q \notin Cache!Sets(o), Cache!Mutation(o).sets, q = m
      PROVE  cached'[q] = None
  BY <1>4, <1>6 DEF Cache!Sets
<1>7. \A q \in Cache!Query : CachedType(q)'
  BY <1>3, <1>4, <1>5 DEF CachedType
<1>8. QED
  BY <1>4, <1>5, <1>6, <1>7

(* The mutation returns: what it does not invalidate it has set, or missed. *)
LEMMA CacheReturns ==
  ASSUME CacheInv, NEW o \in Cache!Op, NEW old, Cache!Return(o, old)
  PROVE  CacheInv'
<1>1. Cache!TypeOK /\ CachedFine /\ ReadFine /\ OnlyWorkIsBusy /\ ProjectsFirst
  BY DEF CacheInv
<1> DEFINE told == Cache!Invalidated(o)
           next == Cache!LandsOn(o)
           m == Cache!Mutation(o).query
           t == Cache!Target(o)
           sets == Cache!Mutation(o).sets
           row == calls[o].row
           starts(q) == \/ q \in told \cap Cache!Mounted /\ Cache!Enabled(q)
                        \/ /\ next # page /\ q \in Cache!Shows[next] /\ Cache!Enabled(q) /\ ~Cache!Fetching(q)
                           /\ cached'[q] = None \/ q \in invalid' \/ q \in old
           started == {q \in Cache!Query : starts(q)}
<1>2. /\ calls[o].step = "done" /\ calls' = [calls EXCEPT ![o] = Cache!Idle]
      /\ cached' = [q \in Cache!Query |-> Cache!SetTo(o, q)]
      /\ invalid' = (invalid \ Cache!Sets(o)) \cup told
      /\ page' = next
      /\ fetch' = [q \in Cache!Query |-> IF starts(q) THEN Cache!Sent ELSE fetch[q]]
      /\ missed' = missed \cup Cache!Overlapped(o)
      /\ UNCHANGED <<server, working, expired, Cache!counters>>
  BY DEF Cache!Return, Cache!rows
<1>3. /\ m \in Cache!Query /\ t \in Cache!Items[m] /\ t \in Cache!Item \ {"summary"}
      /\ told \subseteq Cache!Query
      /\ o = "createProject" => told = {"summaries"} /\ ~sets /\ t = "project"
      /\ o # "createProject" => told = {} \/ told = {m}
      /\ o # "createProject" /\ told = {} => sets
  BY MutationTable
<1>4. /\ DOMAIN fetch' = Cache!Query
      /\ \A q \in Cache!Query : IF q \in started THEN fetch'[q] = [step |-> "sent"] ELSE fetch'[q] = fetch[q]
  BY <1>2 DEF Cache!Sent
<1>5. /\ \A q \in started : Cache!Enabled(q)
      /\ \A q \in told \cap Cache!Mounted : Cache!Enabled(q) => q \in started
  BY <1>3
<1>6. Cache!Sets(o) \subseteq {m}
  BY DEF Cache!Sets
<1>7. next \in Cache!Page
  BY <1>1, MutationTable, CacheTypes DEF Cache!LandsOn
<1> HIDE DEF next, started, starts
<1>8. /\ DOMAIN cached' = Cache!Query
      /\ \A q \in Cache!Query :
           /\ CachedType(q)'
           /\ cached[q] # None => cached'[q] # None
           /\ cached'[q] # None => cached[q] # None \/ q = "settings"
           /\ ~sets \/ q # m => cached'[q] = cached[q]
           /\ cached'[q] # None =>
                /\ sets /\ q = m => cached'[q][t] = row
                /\ \A i \in Cache!Items[q] : i # t => cached[q] # None /\ cached'[q][i] = cached[q][i]
  BY <1>1, <1>2, AnswerIsSet
<1>9. calls[o] \in CallRow /\ Cache!Idle \in CallRow /\ ~Cache!Idle.row.busy /\ Cache!Idle.step = "idle"
  BY <1>1, CacheTypes DEF CallRow, Cache!Idle, Cache!Missing, Cache!Row
<1>10. /\ calls' \in [Cache!Op -> CallRow] /\ calls'[o] = Cache!Idle
       /\ \A p \in Cache!Op \ {o} : calls'[p] = calls[p]
       /\ Awaited \subseteq Awaited' \cup {Toldof(o)}
  BY <1>1, <1>2, <1>9, CallSet
<1>11. /\ Current' = Current /\ \A i \in Cache!Item : Current[i] = Cache!Now(i)
       /\ Current[t] = server[t]
  <2>1. Current' = Current
    BY <1>2 DEF Current, Cache!Now
  <2>2. QED
    BY <2>1, <1>1, <1>3, CurrentType
<1>12. /\ \A r \in told \ Cache!Mounted : Cache!Behind(r) => Cache!Items[r] \subseteq Cache!Overlapped(o)
       /\ told = {} /\ (Cache!Behind(m) \/ m \in invalid \/ row # server[t]) =>
            Cache!Items[m] \subseteq Cache!Overlapped(o)
       /\ Cache!Overlapped(o) \subseteq Cache!Item
  <2>1. \A q \in Cache!Query : Cache!Items[q] \subseteq Cache!Item
    BY ItemTable
  <2>2. m \in Cache!Query /\ told \subseteq Cache!Query
    BY <1>3
  <2>3. \A i \in Cache!Item : i \in Cache!Overlapped(o) <=>
          \/ \E r \in told \ Cache!Mounted : Cache!Behind(r) /\ i \in Cache!Items[r]
          \/ /\ told = {} /\ (Cache!Behind(m) \/ m \in invalid \/ row # server[t])
             /\ i \in Cache!Items[m]
    BY DEF Cache!Overlapped
  <2>4. Cache!Overlapped(o) \subseteq Cache!Item
    BY DEF Cache!Overlapped
  <2> HIDE DEF told, m, row, t
  <2>5. QED
    BY <2>1, <2>2, <2>3, <2>4
<1>13. missed \subseteq missed' /\ missed' \subseteq Cache!Item /\ Cache!Overlapped(o) \subseteq missed'
  BY <1>1, <1>2, <1>12, CacheTypes
<1>14. ASSUME NEW q \in Cache!Query, ~Cache!Behind(q), fetch[q].step = "read", NEW i \in Cache!Items[q]
       PROVE  fetch[q].data[i] = Current[i]
  BY <1>11, <1>14, ItemTable DEF Cache!Behind
<1>15. ASSUME NEW q \in Cache!Query, q \notin told, told # {} \/ q # m, NEW i \in Cache!Items[q]
       PROVE  i # Toldof(o)
  <2>1. CASE o = "createProject"
    BY <2>1, <1>3, <1>15, Tables, ItemTable DEF Toldof
  <2>2. CASE o # "createProject"
    BY <2>2, <1>3, <1>15, ItemTable DEF Toldof
  <2>3. QED
    BY <2>1, <2>2
<1>16. Cache!TypeOK'
  <2>1. \A q \in Cache!Query : FetchType(q)'
    BY <1>1, <1>4, CacheTypes DEF FetchType
  <2>2. invalid' \subseteq Cache!Query
    BY <1>1, <1>2, <1>3, CacheTypes
  <2>3. QED
    BY <2>1, <2>2, <1>1, <1>2, <1>4, <1>7, <1>8, <1>10, <1>13
       DEF Cache!TypeOK, CallRow, Cache!counters, CachedType, FetchType
<1>17. CachedFine'
  <2> SUFFICES ASSUME NEW q \in Cache!Query, cached'[q] # None, q \notin invalid', NEW i \in Cache!Items[q]
               PROVE  \/ cached'[q][i] = Current[i] \/ cached'[q][i].busy
                      \/ i \in missed' \cup Awaited'
    BY <1>11 DEF CachedFine
  <2>1. q \notin told
    BY <1>2
  <2>2. CASE told = {} /\ q = m
    <3>1. sets
      BY <2>2, <1>3
    <3>2. CASE i \in missed'
      BY <3>2
    <3>3. CASE i \notin missed'
      <4>1. m \notin invalid /\ row = server[t]
        BY <3>3, <2>2, <1>12, <1>13
      <4>2. CASE i = t
        BY <4>1, <4>2, <3>1, <2>2, <1>8, <1>11
      <4>3. CASE i # t
        <5>1. i # Toldof(o)
          BY <4>3, <2>2, <1>3 DEF Toldof
        <5>2. cached[q] # None /\ cached'[q][i] = cached[q][i]
          BY <4>3, <1>8
        <5>3. QED
          BY <5>1, <5>2, <4>1, <2>2, <1>1, <1>10, <1>13 DEF CachedFine
      <4>4. QED
        BY <4>2, <4>3
    <3>4. QED
      BY <3>2, <3>3
  <2>3. CASE told # {} \/ q # m
    <3>1. cached'[q] = cached[q] /\ q \notin invalid
      <4>1. q # m \/ ~sets
        BY <2>1, <2>3, <1>3
      <4>2. q \notin Cache!Sets(o)
        BY <4>1 DEF Cache!Sets
      <4>3. QED
        BY <4>1, <4>2, <1>2, <1>8
    <3>2. i # Toldof(o)
      BY <2>1, <2>3, <1>15
    <3>3. QED
      BY <3>1, <3>2, <1>1, <1>10, <1>13 DEF CachedFine
  <2>4. QED
    BY <2>2, <2>3
<1>18. ReadFine'
  <2> SUFFICES ASSUME NEW q \in Cache!Query, fetch'[q].step = "read", NEW i \in Cache!Items[q]
               PROVE  \/ fetch'[q].data[i] = Current[i] \/ fetch'[q].data[i].busy
                      \/ i \in missed' \cup Awaited'
    BY <1>11 DEF ReadFine
  <2>1. q \notin started /\ fetch'[q] = fetch[q]
    BY <1>4
  <2>2. CASE ~Cache!Behind(q)
    BY <2>1, <2>2, <1>14
  <2>3. CASE Cache!Behind(q) /\ q \in told
    <3>1. CASE q \in Cache!Mounted
      <4>1. ~Cache!Enabled(q) /\ Cache!Fetching(q)
        BY <3>1, <2>1, <2>3, <1>5 DEF Cache!Fetching
      <4>2. QED
        BY <4>1, <1>1 DEF ProjectsFirst, Cache!Enabled
    <3>2. CASE q \notin Cache!Mounted
      BY <3>2, <2>3, <1>12, <1>13
    <3>3. QED
      BY <3>1, <3>2
  <2>4. CASE Cache!Behind(q) /\ told = {} /\ q = m
    BY <2>4, <1>12, <1>13
  <2>5. CASE q \notin told /\ (told # {} \/ q # m)
    <3>1. i # Toldof(o)
      BY <2>5, <1>15
    <3>2. QED
      BY <3>1, <2>1, <1>1, <1>10, <1>13 DEF ReadFine
  <2>6. QED
    BY <2>2, <2>3, <2>4, <2>5
<1>19. OnlyWorkIsBusy'
  <2>1. ASSUME NEW q \in Cache!Query, NEW i \in Cache!Items[q], cached'[q] # None, cached'[q][i].busy
        PROVE  i \in Working \cup {"summary"}
    <3>1. CASE ~sets \/ q # m \/ i # t
      BY <3>1, <2>1, <1>1, <1>8 DEF OnlyWorkIsBusy
    <3>2. CASE sets /\ q = m /\ i = t
      BY <3>2, <2>1, <1>1, <1>8 DEF OnlyWorkIsBusy
    <3>3. QED
      BY <3>1, <3>2
  <2>2. QED
    BY <2>1, <1>1, <1>2, <1>4, <1>9, <1>10 DEF OnlyWorkIsBusy
<1>20. ProjectsFirst'
  <2> SUFFICES ASSUME NEW q \in {"databases", "workloads"}, cached'[q] # None \/ fetch'[q].step # "none"
               PROVE  cached'["projects"] # None
    BY DEF ProjectsFirst, Cache!Fetching
  <2>1. q \in Cache!Query /\ "projects" \in Cache!Query
    BY Tables
  <2>2. q \in started => cached["projects"] # None
    BY <1>5 DEF Cache!Enabled
  <2>3. cached["projects"] # None
    BY <2>1, <2>2, <1>1, <1>4, <1>8 DEF ProjectsFirst, Cache!Fetching
  <2>4. QED
    BY <2>1, <2>3, <1>8
<1>21. QED
  BY <1>16, <1>17, <1>18, <1>19, <1>20 DEF CacheInv

(* A row that the worker changes, and the summary that counts it, was busy *)
(* in every copy of it, or the page has missed the change.                 *)
LEMMA CacheMarks == ASSUME CacheInv, NEW i \in Cache!Item, Cache!WorkerMarks(i) PROVE CacheInv'
<1>1. Cache!TypeOK /\ CachedFine /\ ReadFine /\ OnlyWorkIsBusy /\ ProjectsFirst
  BY DEF CacheInv
<1>2. /\ i \in working /\ marks < MaxMarks /\ marks' = marks + 1
      /\ missed' = IF server[i].busy THEN missed ELSE missed \cup {i, "summary"}
      /\ UNCHANGED <<expired, page, cached, invalid, fetch, calls, ops, failed, focused>>
  BY DEF Cache!WorkerMarks
<1>3. PICK busy \in BOOLEAN :
        /\ server' = [server EXCEPT ![i] = [n |-> server[i].n + 1, busy |-> busy]]
        /\ working' \subseteq working
  BY DEF Cache!WorkerMarks
<1>4. server \in [Cache!Item -> Cache!Row]
  BY <1>1, CacheTypes
<1>5. [n |-> server[i].n + 1, busy |-> busy] \in Cache!Row
  BY <1>3, <1>4 DEF Cache!Row
<1>6. /\ server' \in [Cache!Item -> Cache!Row]
      /\ \A j \in Cache!Item \ {i} : server'[j] = server[j]
  BY <1>3, <1>4, <1>5
<1>7. i \in Working /\ i # "summary"
  BY <1>1, <1>2 DEF OnlyWorkIsBusy, Working
<1>0. missed \subseteq missed' /\ missed' \subseteq Cache!Item
  BY <1>1, <1>2, ItemTable, CacheTypes
<1>8. Cache!TypeOK'
  <2>1. working' \subseteq Cache!Item
    BY <1>1, <1>3, CacheTypes
  <2>2. QED
    BY <2>1, <1>0, <1>1, <1>2, <1>6, CacheAssumption DEF Cache!TypeOK
<1>9. Awaited' = Awaited
  BY <1>2 DEF Awaited
<1>10. \A j \in Cache!Item : Current'[j] = Current[j] \/ Current[j].busy \/ j \in missed'
  <2> SUFFICES ASSUME NEW j \in Cache!Item, Current'[j] # Current[j], j \notin missed' PROVE Current[j].busy
    OBVIOUS
  <2>0. j \in {i, "summary"} => server[i].busy
    BY <1>2
  <2>1. CASE j # "summary"
    BY <2>0, <2>1, <1>6 DEF Current, Cache!Now
  <2>2. CASE j = "summary"
    <3>1. i \in Cache!Counted
      BY <2>2, <1>6, ItemTable DEF Current, Cache!Now, Cache!Counted
    <3> DEFINE any == \E c \in Cache!Counted : server[c].busy
    <3>2. any
      BY <3>1, <2>0, <2>2
    <3>3. any \in BOOLEAN
      OBVIOUS
    <3>4. Current[j] = [n |-> server["project"].n + server["cluster"].n + server["branch"].n + server["workload"].n,
                        busy |-> any]
      BY <2>2 DEF Current, Cache!Now
    <3> HIDE DEF any
    <3>5. Current[j].busy = any
      BY <3>4
    <3>6. QED
      BY <3>2, <3>5
  <2>3. QED
    BY <2>1, <2>2
<1>11. CachedFine'
  BY <1>0, <1>1, <1>2, <1>9, <1>10, ItemTable DEF CachedFine
<1>12. ReadFine'
  BY <1>0, <1>1, <1>2, <1>9, <1>10, ItemTable DEF ReadFine
<1>13. OnlyWorkIsBusy'
  BY <1>1, <1>2, <1>3, <1>6, <1>7 DEF OnlyWorkIsBusy
<1>14. ProjectsFirst'
  BY <1>1, <1>2 DEF ProjectsFirst, Cache!Fetching
<1>15. QED
  BY <1>8, <1>11, <1>12, <1>13, <1>14 DEF CacheInv

(* The branch expires: the page has missed that, and the summary too. *)
LEMMA CacheExpires == ASSUME CacheInv, Cache!Expire PROVE CacheInv'
<1>1. Cache!TypeOK /\ CachedFine /\ ReadFine /\ OnlyWorkIsBusy /\ ProjectsFirst
  BY DEF CacheInv
<1>2. /\ server' = [server EXCEPT !["branch"] = Cache!Missing]
      /\ working' = working \ {"branch"} /\ expired' = TRUE
      /\ missed' = missed \cup {"branch", "summary"}
      /\ UNCHANGED <<page, cached, invalid, fetch, calls, ops, marks, failed, focused>>
  BY DEF Cache!Expire, Cache!counters
<1>3. server \in [Cache!Item -> Cache!Row] /\ Cache!Missing \in Cache!Row /\ ~Cache!Missing.busy
  BY <1>1, CacheTypes DEF Cache!Missing, Cache!Row
<1>4. /\ server' \in [Cache!Item -> Cache!Row] /\ ~server'["branch"].busy
      /\ \A j \in Cache!Item \ {"branch"} : server'[j] = server[j]
  BY <1>2, <1>3, ItemTable
<1>5. missed \subseteq missed' /\ missed' \subseteq Cache!Item
  BY <1>1, <1>2, ItemTable, CacheTypes
<1>6. Cache!TypeOK'
  BY <1>1, <1>2, <1>4, <1>5 DEF Cache!TypeOK
<1>7. Awaited' = Awaited
  BY <1>2 DEF Awaited
<1>8. \A j \in Cache!Item : Current'[j] = Current[j] \/ j \in missed'
  BY <1>2, <1>4 DEF Current, Cache!Now
<1>9. CachedFine' /\ ReadFine'
  BY <1>1, <1>2, <1>5, <1>7, <1>8, ItemTable DEF CachedFine, ReadFine
<1>10. OnlyWorkIsBusy'
  BY <1>1, <1>2, <1>4 DEF OnlyWorkIsBusy
<1>11. ProjectsFirst'
  BY <1>1, <1>2 DEF ProjectsFirst, Cache!Fetching
<1>12. QED
  BY <1>6, <1>9, <1>10, <1>11 DEF CacheInv

(* After a sign-out nothing is cached. *)
LEMMA CacheClears == ASSUME CacheInv, Cache!SignOut PROVE CacheInv'
<1>1. Cache!TypeOK /\ OnlyWorkIsBusy
  BY DEF CacheInv
<1>2. /\ page' = "login" /\ invalid' = {}
      /\ DOMAIN cached' = Cache!Query /\ DOMAIN fetch' = Cache!Query
      /\ \A q \in Cache!Query : cached'[q] = None /\ fetch'[q] = [step |-> "none"]
      /\ UNCHANGED <<server, working, expired, calls, missed, Cache!counters>>
  BY DEF Cache!SignOut, Cache!rows
<1>3. Cache!TypeOK'
  BY <1>1, <1>2, ShowsTable DEF Cache!TypeOK, Cache!counters
<1>4. CachedFine' /\ ReadFine'
  BY <1>2 DEF CachedFine, ReadFine
<1>5. OnlyWorkIsBusy'
  BY <1>1, <1>2 DEF OnlyWorkIsBusy
<1>6. ProjectsFirst'
  BY <1>2, Tables DEF ProjectsFirst, Cache!Fetching
<1>7. QED
  BY <1>3, <1>4, <1>5, <1>6 DEF CacheInv

(* A stutter. *)
LEMMA CacheRests == CacheInv /\ UNCHANGED cacheVars => CacheInv'
<1> SUFFICES ASSUME CacheInv, UNCHANGED cacheVars PROVE CacheInv'
  OBVIOUS
<1> USE DEF cacheVars
<1>1. Current' = Current /\ Awaited' = Awaited
  BY DEF Current, Cache!Now, Awaited
<1>2. Cache!TypeOK'
  BY DEF CacheInv, Cache!TypeOK
<1>3. CachedFine' /\ ReadFine'
  BY <1>1 DEF CacheInv, CachedFine, ReadFine
<1>4. OnlyWorkIsBusy' /\ ProjectsFirst'
  BY DEF CacheInv, OnlyWorkIsBusy, ProjectsFirst, Cache!Fetching
<1>5. QED
  BY <1>2, <1>3, <1>4 DEF CacheInv

(* At the start nothing is cached. *)
LEMMA CacheInit == Cache!Init => CacheInv
<1> SUFFICES ASSUME Cache!Init PROVE CacheInv
  OBVIOUS
<1>1. /\ server \in [Cache!Item -> {Cache!Missing, Cache!There}]
      /\ page = "login" /\ invalid = {} /\ missed = {} /\ working = {} /\ expired = FALSE
      /\ DOMAIN cached = Cache!Query /\ DOMAIN fetch = Cache!Query
      /\ \A q \in Cache!Query : cached[q] = None /\ fetch[q] = [step |-> "none"]
      /\ calls = [o \in Cache!Op |-> Cache!Idle]
      /\ ops = 0 /\ marks = 0 /\ failed = 0 /\ focused = 0
  BY DEF Cache!Init
<1>2. /\ Cache!Missing \in Cache!Row /\ Cache!There \in Cache!Row
      /\ ~Cache!Missing.busy /\ ~Cache!There.busy
  BY DEF Cache!Missing, Cache!There, Cache!Row
<1>3. Cache!Idle \in CallRow /\ ~Cache!Idle.row.busy
  BY <1>2 DEF CallRow, Cache!Idle
<1>4. Cache!TypeOK
  <2>1. working \subseteq Cache!Item /\ missed \subseteq Cache!Item /\ invalid \subseteq Cache!Query
    BY <1>1
  <2>2. expired \in BOOLEAN
    BY <1>1, Zenon
  <2>3. server \in [Cache!Item -> Cache!Row] /\ page \in Cache!Page
    BY <1>1, <1>2, ShowsTable
  <2>4. calls \in [Cache!Op -> CallRow]
    BY <1>1, <1>3
  <2>5. \A q \in Cache!Query : CachedType(q) /\ FetchType(q)
    BY <1>1 DEF CachedType, FetchType
  <2>6. ops \in 0 .. MaxChanges /\ marks \in 0 .. MaxMarks /\ failed \in 0 .. MaxFailed /\ focused \in 0 .. MaxFocus
    BY <1>1, CacheAssumption
  <2>7. QED
    BY <1>1, <2>1, <2>2, <2>3, <2>4, <2>5, <2>6, CacheTypes, Zenon
<1>5. CachedFine /\ ReadFine /\ ProjectsFirst
  BY <1>1, Tables DEF CachedFine, ReadFine, ProjectsFirst, Cache!Fetching
<1>6. OnlyWorkIsBusy
  BY <1>1, <1>2, <1>3 DEF OnlyWorkIsBusy
<1>7. QED
  BY <1>4, <1>5, <1>6 DEF CacheInv

(* One step lemma for each action. *)
LEMMA CacheSteps ==
  ASSUME CacheInv, NEW os \in SUBSET Cache!Op, NEW pages \in SUBSET Cache!Page, Cache!Steps(os, pages)
  PROVE  CacheInv'
<1>0. focused \in 0 .. MaxFocus /\ page \in Cache!Page
  BY DEF CacheInv, Cache!TypeOK
<1>1. CASE \E p \in pages : \E old \in SUBSET Cache!Settled(Cache!Shows[p]) : Cache!Enter(p, old)
  <2>1. PICK p \in pages : \E old : Cache!Enter(p, old)
    BY <1>1
  <2>2. p \in Cache!Page
    OBVIOUS
  <2>3. QED
    BY <2>1, <2>2, <1>0, CacheStarts DEF Cache!Enter, Cache!rows, Cache!counters
<1>2. ASSUME NEW q \in Cache!Query, Cache!Focus(q) PROVE CacheInv'
  <2>1. focused' \in 0 .. MaxFocus
    BY <1>0, <1>2, CacheAssumption DEF Cache!Focus
  <2>2. QED
    BY <2>1, <1>0, <1>2, CacheStarts DEF Cache!Focus, Cache!rows
<1>3. ASSUME NEW q \in Cache!Query, Cache!Poll(q) PROVE CacheInv'
  <2>1. Cache!Enabled(q)
    BY <1>3, CacheAssumption DEF Cache!Poll, Cache!Polled, Cache!Enabled, CacheInv, ProjectsFirst
  <2>2. QED
    BY <2>1, <1>0, <1>3, CacheStarts DEF Cache!Poll, Cache!rows, Cache!counters
<1>4. QED
  BY <1>1, <1>2, <1>3, CacheAnswers, CacheDelivers, FetchEnds, CacheClicks, CacheArrives, CacheRefuses,
     CacheCallFails, CacheReturns, CacheMarks, CacheExpires, CacheClears DEF Cache!Steps

(* What every step keeps says that a page at rest is current: no mutation  *)
(* is under way, so what is old and not missed is busy, and polled.        *)
LEMMA RestIsCurrent == CacheInv => Cache!QuietIsCurrent
<1> SUFFICES ASSUME CacheInv, \A o \in Cache!Op : calls[o] = Cache!Idle,
                    NEW q \in Cache!Query, Cache!Quiet(q), NEW i \in Cache!Items[q], i \notin missed
             PROVE  cached[q][i] = Cache!Now(i)
  BY DEF Cache!QuietIsCurrent
<1>1. Cache!TypeOK /\ CachedFine /\ OnlyWorkIsBusy
  BY DEF CacheInv
<1>2. /\ q \in Cache!Mounted /\ cached[q] # None /\ q \notin invalid /\ ~Cache!Polled(q)
      /\ q \in {"databases", "workloads"} => cached["databases"] # None /\ cached["workloads"] # None
  BY DEF Cache!Quiet
<1>3. i \notin Awaited
  BY DEF Awaited, Cache!Idle
<1>4. cached[q][i] = Current[i] \/ cached[q][i].busy
  BY <1>1, <1>2, <1>3 DEF CachedFine
<1>5. ASSUME cached[q][i].busy PROVE FALSE
  <2>1. Cache!Busy(q)
    BY <1>2, <1>5 DEF Cache!Busy
  <2>2. i \in Working \cup {"summary"}
    BY <1>1, <1>2, <1>5 DEF OnlyWorkIsBusy
  <2>3. q \in {"databases", "workloads", "backups", "summaries"}
    BY <2>2, Tables DEF Working
  <2>4. QED
    BY <2>1, <2>3, <1>2 DEF Cache!Polled
<1>6. QED
  BY <1>4, <1>5, <1>1, CurrentType, ItemTable

(* The cache with all its pages and mutations. *)
LEMMA PagesAtRest == Cache!Spec => [](Cache!QuietIsCurrent /\ Cache!TypeOK)
<1>1. CacheInv /\ [Cache!Next]_(Cache!vars) => CacheInv'
  <2> SUFFICES ASSUME CacheInv, [Cache!Next]_(Cache!vars) PROVE CacheInv'
    OBVIOUS
  <2>1. CASE UNCHANGED Cache!vars
    BY <2>1, CacheRests DEF Cache!vars, Cache!rows, Cache!counters, cacheVars
  <2>2. CASE Cache!Next
    BY <2>2, CacheSteps DEF Cache!Next
  <2>3. QED
    BY <2>1, <2>2
<1>2. CacheInv => Cache!TypeOK
  BY DEF CacheInv
<1>3. QED
  BY <1>1, <1>2, CacheInit, RestIsCurrent, PTL DEF Cache!Spec

(* The groups of MCPlatform take mutations and pages of the cache. *)
LEMMA GroupSteps ==
  Group.op \in SUBSET Cache!Op /\ Group.visited \in SUBSET (Cache!Page \ {"login"})
<1>1. \A g \in DOMAIN Groups : Groups[g].op \subseteq Cache!Op
                               /\ Groups[g].visited \subseteq Cache!Page \ {"login"}
  BY ShowsTable DEF Groups, Cache!Op
<1>2. "others" \in DOMAIN Groups
  BY DEF Groups
<1>3. QED
  BY <1>1, <1>2 DEF Group

(* What a group of the run may do, the dashboard may do. *)
LEMMA GroupsAreNext == Cache!Steps(Group.op, Group.visited) => Cache!Next
BY GroupSteps DEF Cache!Steps, Cache!Next

-----------------------------------------------------------------------------
(***************************************************************************)
(* The components side by side: what each of them keeps alone, MCPlatform  *)
(* keeps.                                                                  *)
(***************************************************************************)
Providers ==
  INSTANCE GitProvidersProofs WITH
    Request <- Reading, MaxFaults <- MaxLapses, faults <- lapses

(* The providers of MCPlatform are those GitProvidersProofs speaks of. *)
LEMMA SameProviders ==
  /\ Git!Init <=> Providers!Init
  /\ [Git!Next]_(Git!vars) <=> [Providers!Next]_(Providers!vars)
  /\ Git!StoredTokenRefreshes <=> Providers!StoredTokenRefreshes
  /\ Git!TypeOK <=> Providers!TypeOK
BY DEF Git!Step, Git!TypeOK, Providers!Step, Providers!TypeOK, Git!vars, Git!Token, Git!Type, Git!OAuth, Git!Row, Git!NoRow, Git!Idle, Git!Init,
       Git!RotatesTokens, Git!Issue, Git!HonoursRefresh, Git!HonoursAccess, Git!InHand,
       Git!GrowOld, Git!Ready, Git!LacksCredentials, Git!Expires, Git!Busy, Git!Arrive, Git!Goto,
       Git!Answer, Git!Loaded, Git!Read, Git!Refresh, Git!WithTokens, Git!SaveTokens,
       Git!Returned, Git!SaveRefreshed, Git!Call, Git!ListGithub, Git!ListGitlab,
       Git!ListBitbucket, Git!ListGitea, Git!Create, Git!CreateDetail, Git!Connect, Git!Exchange,
       Git!StoreExchanged, Git!Setup, Git!SetInstallation, Git!Edit, Git!SetCredentials,
       Git!Delete, Git!RemoveRows, Git!Fail, Git!Next, Git!StoredTokenRefreshes, Providers!vars,
       Providers!Token, Providers!Type, Providers!OAuth, Providers!Row, Providers!NoRow,
       Providers!Idle, Providers!Init, Providers!RotatesTokens, Providers!Issue,
       Providers!HonoursRefresh, Providers!HonoursAccess, Providers!InHand, Providers!GrowOld,
       Providers!Ready, Providers!LacksCredentials, Providers!Expires, Providers!Busy,
       Providers!Arrive, Providers!Goto, Providers!Answer, Providers!Loaded, Providers!Read,
       Providers!Refresh, Providers!WithTokens, Providers!SaveTokens, Providers!Returned,
       Providers!SaveRefreshed, Providers!Call, Providers!ListGithub, Providers!ListGitlab,
       Providers!ListBitbucket, Providers!ListGitea, Providers!Create, Providers!CreateDetail,
       Providers!Connect, Providers!Exchange, Providers!StoreExchanged, Providers!Setup,
       Providers!SetInstallation, Providers!Edit, Providers!SetCredentials, Providers!Delete,
       Providers!RemoveRows, Providers!Fail, Providers!Next, Providers!StoredTokenRefreshes

(* A step of MCPlatform is one of a component, and the others stutter. *)
LEMMA Components ==
  /\ MCInit => Git!Init /\ Domain!Init /\ Init /\ Slugs!Init /\ Cache!Init
  /\ [MCNext]_mcVars =>
       /\ [Git!Next]_(Git!vars) /\ [Domain!Next]_(Domain!vars)
       /\ [Next]_vars /\ [Slugs!Next]_(Slugs!vars) /\ [Cache!Next]_(Cache!vars)
<1>1. MCInit => Git!Init /\ Domain!Init /\ Init /\ Slugs!Init /\ Cache!Init
  BY DEF MCInit
<1>2. [MCNext]_mcVars => [Git!Next]_(Git!vars)
  BY DEF MCNext, mcVars, gitVars, Git!vars
<1>3. [MCNext]_mcVars => [Domain!Next]_(Domain!vars)
  BY DEF MCNext, mcVars, domainVars, Domain!vars
<1>4. [MCNext]_mcVars => [Next]_vars
  BY DEF MCNext, mcVars
<1>5. [MCNext]_mcVars => [Slugs!Next]_(Slugs!vars)
  BY DEF MCNext, mcVars, slugVars, Slugs!vars
<1>6. [MCNext]_mcVars => [Cache!Next]_(Cache!vars)
  BY GroupsAreNext DEF MCNext, mcVars, cacheVars, Cache!vars, Cache!rows, Cache!counters
<1>7. QED
  BY <1>1, <1>2, <1>3, <1>4, <1>5, <1>6

(* saveServerDomainSettings: settings that are shown as applied are in the *)
(* files Traefik reads, whichever file, row or process failed before, when *)
(* no PATCHes overlapped since one had run alone.                          *)
THEOREM AppliedSettingsAreServed == MCSpec => []AppliedIsServed
<1>1. MCSpec => Domain!Spec
  BY Components, PTL DEF MCSpec, Domain!Spec
<1>2. Domain!AppliedIsServed => AppliedIsServed
  BY DEF AppliedIsServed
<1>3. QED
  BY <1>1, <1>2, SettingsAreServed, PTL

(* POST projects: a request is refused only when at least as many others   *)
(* as it has attempts were faster; every conflict comes from an insert     *)
(* after the slugs were read, and there is always a free candidate.        *)
THEOREM RefusalsAreCrowded ==
  ASSUME CreationBounds
  PROVE  MCSpec => []RefusedMeansCrowded
<1>1. MCSpec => Slugs!Spec
  BY Components, PTL DEF MCSpec, Slugs!Spec
<1>2. Slugs!RefusedMeansCrowded => RefusedMeansCrowded
  BY DEF RefusedMeansCrowded
<1>3. QED
  BY <1>1, <1>2, RefusalIsPaid, PTL

(* The connection of a git provider outlives whatever requests overlap:    *)
(* ConnectionIsKept of GitProvidersProofs, beside the other components.    *)
THEOREM ConnectionsAreKept == MCSpec => []StoredTokenRefreshes
<1>1. MCSpec => Providers!Spec
  BY Components, SameProviders, PTL DEF MCSpec, Providers!Spec
<1>2. Providers!StoredTokenRefreshes => StoredTokenRefreshes
  BY SameProviders DEF StoredTokenRefreshes
<1>3. QED
  BY <1>1, <1>2, Providers!ConnectionIsKept, PTL

(* A request to a provider that nothing else works on is answered.         *)
THEOREM LoneReadsAreAnswered == MCSpec => LoneReadSucceeds
<1>1. MCSpec => Providers!Spec
  BY Components, SameProviders, PTL DEF MCSpec, Providers!Spec
<1>2. Providers!LoneReadSucceeds => LoneReadSucceeds
  BY PTL DEF LoneReadSucceeds, Git!LoneReadSucceeds, Providers!LoneReadSucceeds, Git!vars, Providers!vars
<1>3. QED
  BY <1>1, <1>2, Providers!LoneReadsSucceed, PTL

(* The bounds are numbers, and there is a provider to ask. *)
PlatformBounds ==
  /\ Bounds /\ CreationBounds /\ MaxSlips \in Nat
  /\ Provider # {} /\ MaxGrants \in Nat /\ MaxLapses \in Nat

(* Every variable of every component has its type: no row, request, file   *)
(* or query is ever in a state the code does not know.                     *)
THEOREM TypesAreCorrect ==
  ASSUME PlatformBounds
  PROVE  MCSpec => []TypesOK
<1>1. MCSpec => Providers!Spec /\ Domain!Spec /\ Spec /\ Slugs!Spec /\ Cache!Spec
  BY Components, SameProviders, PTL DEF MCSpec, Providers!Spec, Domain!Spec, Spec, Slugs!Spec, Cache!Spec
<1>2. Spec => []TypeOK
  BY TypeCorrect DEF PlatformBounds
<1>3. Providers!Spec => []Providers!TypeOK
  BY Providers!TypeCorrect DEF PlatformBounds
<1>4. Domain!Spec => []Domain!TypeOK
  BY SettingsTypes DEF PlatformBounds
<1>5. Slugs!Spec => []Slugs!TypeOK
  BY SlugTypes DEF PlatformBounds
<1>6. TypeOK /\ Git!TypeOK /\ Domain!TypeOK /\ Slugs!TypeOK /\ Cache!TypeOK => TypesOK
  BY DEF TypesOK
<1>7. QED
  BY <1>1, <1>2, <1>3, <1>4, <1>5, <1>6, SameProviders, PagesAtRest, PTL

(* The two theorems about clusters, in MCPlatform. *)
COROLLARY ClustersOnThePlatform ==
  ASSUME Bounds
  PROVE  MCSpec => [](RequestedIsUnderWay /\ AnswerIsWhole)
<1>1. MCSpec => Spec
  BY Components, PTL DEF MCSpec, Spec
<1>2. QED
  BY <1>1, NoClusterIsForgotten, AnswersAreWhole, PTL

(* The dashboard's cache: when nothing of a page is being fetched, polled, *)
(* saved or marked, what it shows is what the server has, but for changes  *)
(* the code tells it of too late or not at all; for any number of          *)
(* mutations, failures and steps of the worker.                            *)
THEOREM RestingPagesAreCurrent == MCSpec => []QuietIsCurrent
<1>1. MCSpec => Cache!Spec
  BY Components, PTL DEF MCSpec, Cache!Spec
<1>2. Cache!QuietIsCurrent => QuietIsCurrent
  BY DEF QuietIsCurrent
<1>3. QED
  BY <1>1, <1>2, PagesAtRest, PTL
=============================================================================
