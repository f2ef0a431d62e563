---------------------------- MODULE DashboardCache ----------------------------
(***************************************************************************)
(* What the dashboard shows: the query cache of one browser tab, the pages *)
(* that mount its queries, the polls, and the mutations with what each of  *)
(* them invalidates or sets when it succeeds.                              *)
(*                                                                         *)
(* External, as the dashboard uses it (TanStack Query): a query fetches    *)
(* once at a time; invalidating a mounted query starts its fetch over, and *)
(* marks one that is not mounted; setting data clears the mark and leaves  *)
(* a fetch under way alone; a page that mounts fetches what is missing,    *)
(* marked or older than 30 s, and a focused window what is older.          *)
(*                                                                         *)
(* Simplifications: one item of each kind besides the cluster and its new  *)
(* branch; backups are of the main branch, and only the new one expires,   *)
(* once.  Left out are other users, scheduled backups, queries dropped     *)
(* after five minutes without a page, the copy of one workload the         *)
(* workspace takes from the list, and connections (module BranchConsole).  *)
(***************************************************************************)
EXTENDS Naturals

CONSTANTS
  None,      \* a query that has no data
  MaxOps,    \* bound: mutations
  MaxMarks,  \* bound: steps of the worker
  MaxFaults, \* bound: fetches and mutations that fail
  MaxFocus   \* bound: times the window gets the focus

VARIABLES
  server,   \* rows, by item: the number of changes, and whether its status is one
            \* of work under way
  working,  \* items a workflow is at work on, whatever their status
  expired,  \* the branch has expired, and its row is deleted
  page,
  cached,   \* data of each query: its items as they were read, or None
  invalid,  \* queries marked as invalidated
  fetch,    \* of each query: none, sent, or what the server has answered
  calls,    \* mutations: idle, sent, or the server has done it; `row` answers
  missed,   \* history: items whose last change the page has not been told of
  ops, marks, faults, focused

counters == <<ops, marks, faults, focused>>
rows == <<server, working, expired>>
vars == <<rows, page, cached, invalid, fetch, calls, missed, counters>>

(* Queries that are mounted on each page; "created" is the workspace of    *)
(* the project that is created, the others are of a project that exists.   *)
Workspace == {"projects", "databases", "workloads"}
Shows ==
  [login |-> {}, projects |-> {"summaries"}, created |-> {"projects"},
   workspace |-> Workspace, overview |-> Workspace,
   backups |-> Workspace \cup {"backups", "schedules", "destinations"},
   destinations |-> {"destinations"}, git |-> {"providers"}, settings |-> {"settings"}]

Page == DOMAIN Shows
Mounted == Shows[page]

Items ==
  [projects |-> {"project"}, summaries |-> {"summary"}, databases |-> {"cluster", "branch"},
   workloads |-> {"workload"}, backups |-> {"backup"}, schedules |-> {"schedule"},
   destinations |-> {"destination"}, providers |-> {"provider"}, settings |-> {"setting"}]

Query == DOMAIN Items
Item == UNION {Items[q] : q \in Query}
QueryOf(i) == CHOOSE q \in Query : i \in Items[q]

(* The mutations, see below. *)
Op == {"createProject", "createWorkload", "saveConfig", "saveEnv", "deploy", "createDatabase",
       "saveDomains", "createBranch", "patchBranch", "backup", "restore", "schedule", "destination",
       "provider", "settings"}

Row == [n : Nat, busy : BOOLEAN]
Missing == [n |-> 0, busy |-> FALSE]
There == [n |-> 1, busy |-> FALSE]

Idle == [step |-> "idle", row |-> Missing]

TypeOK ==
  /\ server \in [Item -> Row]
  /\ working \subseteq Item /\ expired \in BOOLEAN
  /\ page \in Page
  /\ DOMAIN cached = Query /\ DOMAIN fetch = Query
  /\ \A q \in Query : /\ cached[q] = None \/ cached[q] \in [Items[q] -> Row]
                      /\ \/ fetch[q] \in {[step |-> "none"], [step |-> "sent"]}
                         \/ fetch[q].step = "read" /\ fetch[q].data \in [Items[q] -> Row]
  /\ invalid \subseteq Query
  /\ calls \in [Op -> [step : {"idle", "sent", "done"}, row : Row]]
  /\ missed \subseteq Item
  /\ ops \in 0 .. MaxOps /\ marks \in 0 .. MaxMarks /\ faults \in 0 .. MaxFaults
  /\ focused \in 0 .. MaxFocus

-----------------------------------------------------------------------------
(* The mutations. *)

(* A mutation: the pages that offer it, the item it creates or changes and *)
(* its answer has, the query that lists the item, what else it changes,    *)
(* whether it starts work of the worker, the queries it invalidates,       *)
(* whether it sets the answer itself, and the page it leads to, if any.    *)
(* Summaries change with the rest.                                         *)
Change(on, item, query) ==
  [on |-> on, item |-> item, query |-> query, besides |-> {}, creates |-> FALSE,
   works |-> FALSE, tells |-> {query}, sets |-> FALSE, next |-> None]

Silent == {}

CreateProject ==
  [Change({"projects"}, "project", "projects") EXCEPT
     !.creates = TRUE, !.tells = {"summaries"}, !.next = "created"]
CreateWorkload ==
  [Change({"workspace"}, "workload", "workloads") EXCEPT !.creates = TRUE, !.next = "workspace"]
SaveConfig == [Change({"workspace"}, "workload", "workloads") EXCEPT !.sets = TRUE]
SaveEnv == [Change({"workspace"}, "workload", "workloads") EXCEPT !.works = TRUE]
SaveDomains == [Change({"workspace"}, "workload", "workloads") EXCEPT !.works = TRUE]
(* Deploy, and rebuild. *)
Deploy == [Change({"workspace"}, "workload", "workloads") EXCEPT !.works = TRUE]
CreateDatabase == [Change({"workspace"}, "cluster", "databases") EXCEPT !.works = TRUE]
CreateBranch ==
  [Change({"workspace", "overview", "backups"}, "branch", "databases") EXCEPT
     !.creates = TRUE, !.works = TRUE, !.tells = Silent, !.sets = TRUE, !.next = "overview"]
PatchBranch == [Change({"overview"}, "branch", "databases") EXCEPT !.tells = Silent, !.sets = TRUE]
RunBackup == [Change({"backups"}, "backup", "backups") EXCEPT !.works = TRUE]
Restore == [Change({"backups"}, "backup", "backups") EXCEPT !.works = TRUE, !.besides = {"branch"}]
SaveSchedule == Change({"backups"}, "schedule", "schedules")
SaveDestination == Change({"destinations"}, "destination", "destinations")
SaveProvider == Change({"git"}, "provider", "providers")
SaveSettings == [Change({"settings"}, "setting", "settings") EXCEPT !.tells = Silent, !.sets = TRUE]

Mutation(o) ==
  CASE o = "createProject" -> CreateProject [] o = "createWorkload" -> CreateWorkload
    [] o = "saveConfig" -> SaveConfig [] o = "saveEnv" -> SaveEnv
    [] o = "saveDomains" -> SaveDomains [] o = "deploy" -> Deploy
    [] o = "createDatabase" -> CreateDatabase [] o = "createBranch" -> CreateBranch
    [] o = "patchBranch" -> PatchBranch [] o = "backup" -> RunBackup [] o = "restore" -> Restore
    [] o = "schedule" -> SaveSchedule [] o = "destination" -> SaveDestination
    [] o = "provider" -> SaveProvider [] o = "settings" -> SaveSettings

Target(o) == Mutation(o).item
Besides(o) == Mutation(o).besides
LandsOn(o) == IF Mutation(o).next = None THEN page ELSE Mutation(o).next

(* Mutant of Invalidated: deploying refreshes nothing. *)
InvalidatedButDeploy(o) == IF o = "deploy" THEN Silent ELSE Mutation(o).tells

Invalidated(o) == Mutation(o).tells

(* What a mutation needs to be on the screen. *)
Needs(o) ==
  LET seen(i) == cached[QueryOf(i)] # None /\ cached[QueryOf(i)][i].n > 0
  IN CASE Mutation(o).creates ->
            server[Target(o)].n = 0 /\ (o = "createBranch" => seen("cluster") /\ ~expired)
       [] o \in {"saveConfig", "saveDomains", "deploy"} -> seen("workload") /\ ~cached["workloads"]["workload"].busy
       [] o = "saveEnv" -> seen("workload")
       [] o = "patchBranch" -> seen("branch")
       [] o = "restore" -> seen("backup") /\ seen("branch")
       [] OTHER -> TRUE

Counted == {"project", "cluster", "branch", "workload"}

(* What the server answers for an item: a summary counts the rows of its   *)
(* project and says whether any of them is being provisioned.              *)
Now(i) ==
  IF i # "summary" THEN server[i]
  ELSE [n |-> server["project"].n + server["cluster"].n + server["branch"].n + server["workload"].n,
        busy |-> \E c \in Counted : server[c].busy]

(* Changes a successful mutation does not tell the cache of: the list of   *)
(* projects, the branch a restore is writing to, the summaries.            *)
Untold(o) ==
  (IF o = "createProject" THEN {"project"} ELSE {"summary"})
  \cup (IF o = "restore" THEN {"branch"} ELSE {})

Init ==
  /\ server \in [Item -> {Missing, There}]
  /\ working = {} /\ expired = FALSE
  /\ page = "login"
  /\ cached = [q \in Query |-> None]
  /\ invalid = {}
  /\ fetch = [q \in Query |-> [step |-> "none"]]
  /\ calls = [o \in Op |-> Idle]
  /\ missed = {}
  /\ ops = 0 /\ marks = 0 /\ faults = 0 /\ focused = 0

-----------------------------------------------------------------------------
(* Queries. *)

Sent == [step |-> "sent"]
Fetching(q) == fetch[q].step # "none"

(* A query for a project starts when the list of projects is there.        *)
Enabled(q) == q \in {"databases", "workloads"} => cached["projects"] # None

Start(qs) ==
  fetch' = [q \in Query |-> IF q \in qs /\ ~Fetching(q) THEN Sent ELSE fetch[q]]

(* Queries a page that mounts fetches only if their data is old.           *)
Settled(qs) == {q \in qs \ invalid : cached[q] # None /\ ~Fetching(q)}

(* A page mounts: `old` are its queries that are older than 30 s.          *)
Enter(p, old) ==
  /\ p # page
  /\ p = "created" => server["project"].n > 0
  /\ page' = p
  /\ Start({q \in Shows[p] : Enabled(q) /\ (cached[q] = None \/ q \in invalid \/ q \in old)})
  /\ UNCHANGED <<rows, cached, invalid, calls, missed, counters>>

(* The window gets the focus. *)
Focus(q) ==
  /\ q \in Mounted /\ Enabled(q) /\ ~Fetching(q)
  /\ focused < MaxFocus /\ focused' = focused + 1
  /\ Start({q})
  /\ UNCHANGED <<rows, page, cached, invalid, calls, missed, ops, marks, faults>>

Busy(q) == cached[q] # None /\ \E i \in Items[q] : cached[q][i].busy

(* refetchInterval: databases and workloads poll together, once both are   *)
(* there and either shows work.                                            *)
Polled(q) ==
  /\ q \in Mounted
  /\ \/ /\ q \in {"databases", "workloads"}
        /\ cached["databases"] # None /\ cached["workloads"] # None
        /\ Busy("databases") \/ Busy("workloads")
     \/ q \in {"backups", "summaries"} /\ Busy(q)

Poll(q) ==
  /\ Polled(q) /\ ~Fetching(q)
  /\ Start({q})
  /\ UNCHANGED <<rows, page, cached, invalid, calls, missed, counters>>

Answer(q) ==
  /\ fetch[q].step = "sent"
  /\ fetch' = [fetch EXCEPT ![q] = [step |-> "read", data |-> [i \in Items[q] |-> Now(i)]]]
  /\ UNCHANGED <<rows, page, cached, invalid, calls, missed, counters>>

(* The list of projects lets the queries of its project start. *)
Deliver(q) ==
  /\ fetch[q].step = "read"
  /\ cached' = [cached EXCEPT ![q] = fetch[q].data]
  /\ invalid' = invalid \ {q}
  /\ missed' = {i \in missed : i \notin Items[q] \/ fetch[q].data[i] # Now(i)}
  /\ LET next == IF q = "projects" /\ page \in {"workspace", "overview", "backups"}
                 THEN {r \in {"databases", "workloads"} : cached[r] = None} ELSE {}
     IN fetch' = [r \in Query |-> IF r = q THEN [step |-> "none"]
                                  ELSE IF r \in next /\ ~Fetching(r) THEN Sent ELSE fetch[r]]
  /\ UNCHANGED <<rows, page, calls, counters>>

(* It fails twice; the data and the mark stay. *)
FetchFails(q) ==
  /\ Fetching(q)
  /\ faults < MaxFaults /\ faults' = faults + 1
  /\ fetch' = [fetch EXCEPT ![q] = [step |-> "none"]]
  /\ UNCHANGED <<rows, page, cached, invalid, calls, missed, ops, marks, focused>>

-----------------------------------------------------------------------------
(* Mutations. *)

Click(o) ==
  /\ ops < MaxOps /\ ops' = ops + 1
  /\ page \in Mutation(o).on
  /\ calls[o] = Idle /\ Needs(o)
  /\ calls' = [calls EXCEPT ![o].step = "sent"]
  /\ UNCHANGED <<rows, page, cached, invalid, fetch, missed, marks, faults, focused>>

(* The mutation is of the branch that has expired. *)
Late(o) == expired /\ "branch" \in {Target(o)} \cup Besides(o)

(* The server does it.  A workload whose configuration is saved is a draft *)
(* again, even while a workflow is at work on it.                          *)
Arrive(o) ==
  /\ calls[o].step = "sent" /\ ~Late(o)
  /\ Mutation(o).creates => server[Target(o)].n = 0
  /\ server' = [i \in Item |->
                  IF i \in {Target(o)} \cup Besides(o)
                  THEN [n |-> server[i].n + 1,
                        busy |-> Mutation(o).works \/ (server[i].busy /\ o # "saveConfig")]
                  ELSE server[i]]
  /\ working' = IF Mutation(o).works THEN working \cup {Target(o)} \cup Besides(o) ELSE working
  /\ calls' = [calls EXCEPT ![o] = [step |-> "done", row |-> server'[Target(o)]]]
  /\ missed' = missed \cup Untold(o)
  /\ UNCHANGED <<expired, page, cached, invalid, fetch, counters>>

(* The branch it is of is not found any more: the page says so, and shows  *)
(* what it showed.                                                         *)
Refused(o) ==
  /\ calls[o].step = "sent" /\ Late(o)
  /\ calls' = [calls EXCEPT ![o] = Idle]
  /\ UNCHANGED <<rows, page, cached, invalid, fetch, missed, counters>>

(* It is refused, or its answer is lost: the page is told of nothing.      *)
Fails(o) ==
  /\ calls[o].step # "idle"
  /\ faults < MaxFaults /\ faults' = faults + 1
  /\ calls' = [calls EXCEPT ![o] = Idle]
  /\ missed' = IF calls[o].step = "sent" THEN missed
               ELSE missed \cup {Target(o), "summary"} \cup Besides(o)
  /\ UNCHANGED <<rows, page, cached, invalid, fetch, ops, marks, focused>>

(* setQueryData with the answer; only the settings need no list to be in.  *)
Sets(o) ==
  {q \in {Mutation(o).query} : Mutation(o).sets /\ (cached[q] # None \/ o = "settings")}

SetTo(o, q) ==
  IF q \notin Sets(o) THEN cached[q]
  ELSE IF o = "settings" THEN [i \in Items[q] |-> calls[o].row]
  ELSE [cached[q] EXCEPT ![Target(o)] = calls[o].row]

(* What may overwrite the change, or is overwritten by it: an answer that  *)
(* was read before, a mark that setting data clears, a newer row.          *)
Behind(q) == fetch[q].step = "read" /\ fetch[q].data # [i \in Items[q] |-> Now(i)]

Overlapped(o) ==
  LET q == Mutation(o).query
      set == Invalidated(o) = {} /\ (Behind(q) \/ q \in invalid \/ calls[o].row # server[Target(o)])
  IN {i \in Item : \/ \E r \in Invalidated(o) \ Mounted : Behind(r) /\ i \in Items[r]
                   \/ set /\ i \in Items[q]}

(* The mutation succeeds: data is set, removed and invalidated, and the    *)
(* page it leads to mounts.                                                *)
Return(o, old) ==
  LET told == Invalidated(o)
      next == LandsOn(o)
      starts(q) == \/ q \in told \cap Mounted /\ Enabled(q)
                   \/ /\ next # page /\ q \in Shows[next] /\ Enabled(q) /\ ~Fetching(q)
                      /\ cached'[q] = None \/ q \in invalid' \/ q \in old
  IN /\ calls[o].step = "done"
     /\ calls' = [calls EXCEPT ![o] = Idle]
     /\ cached' = [q \in Query |-> SetTo(o, q)]
     /\ invalid' = (invalid \ Sets(o)) \cup told
     /\ page' = next
     /\ fetch' = [q \in Query |-> IF starts(q) THEN Sent ELSE fetch[q]]
     /\ missed' = missed \cup Overlapped(o)
     /\ UNCHANGED <<rows, counters>>

-----------------------------------------------------------------------------
(* A workflow takes an item up, or ends; another attempt, or another       *)
(* workflow, may still be at work on it.  The page asks only while the     *)
(* status it knows is one of work under way.                               *)
WorkerMarks(i) ==
  /\ marks < MaxMarks /\ marks' = marks + 1
  /\ i \in working
  /\ \E busy \in BOOLEAN :
       /\ server' = [server EXCEPT ![i] = [n |-> @.n + 1, busy |-> busy]]
       /\ working' \in {working, IF busy THEN working ELSE working \ {i}}
  /\ missed' = IF server[i].busy THEN missed ELSE missed \cup {i, "summary"}
  /\ UNCHANGED <<expired, page, cached, invalid, fetch, calls, ops, faults, focused>>

(* The time of the branch is over: the first request that comes across it, *)
(* a list of the databases or a call on the branch, deletes the row; what  *)
(* a workflow then marks is no row.                                        *)
Expire ==
  /\ server["branch"].n > 0
  /\ server' = [server EXCEPT !["branch"] = Missing]
  /\ working' = working \ {"branch"} /\ expired' = TRUE
  /\ missed' = missed \cup {"branch", "summary"}
  /\ UNCHANGED <<page, cached, invalid, fetch, calls, counters>>

(* Sign out clears the cache. *)
SignOut ==
  /\ page # "login" /\ \A o \in Op : calls[o] = Idle
  /\ page' = "login"
  /\ cached' = [q \in Query |-> None] /\ invalid' = {}
  /\ fetch' = [q \in Query |-> [step |-> "none"]]
  /\ UNCHANGED <<rows, calls, missed, counters>>

(* What happens as long as only `pages` are visited and only `os` clicked. *)
Steps(os, pages) ==
  \/ \E p \in pages : \E old \in SUBSET Settled(Shows[p]) : Enter(p, old)
  \/ \E q \in Query : Focus(q) \/ Poll(q) \/ Answer(q) \/ Deliver(q) \/ FetchFails(q)
  \/ \E o \in os : Click(o) \/ Arrive(o) \/ Refused(o) \/ Fails(o)
  \/ \E o \in os : \E old \in SUBSET Settled(Shows[LandsOn(o)] \ Mounted) : Return(o, old)
  \/ \E i \in Item : WorkerMarks(i)
  \/ Expire \/ SignOut

Next == Steps(Op, Page \ {"login"})

Spec == Init /\ [][Next]_vars

-----------------------------------------------------------------------------
(* A query of the page whose data nothing is about to replace. *)
Quiet(q) ==
  /\ q \in Mounted /\ cached[q] # None
  /\ q \notin invalid /\ ~Fetching(q) /\ ~Polled(q)
  /\ q \in {"databases", "workloads"} => cached["databases"] # None /\ cached["workloads"] # None

(* When nothing is being fetched, polled, saved or marked, every list of   *)
(* the page is what the server has, whatever was created, deployed,        *)
(* restored and finished in between and on whichever page; except for the  *)
(* changes in `missed`.                                                    *)
QuietIsCurrent ==
  (\A o \in Op : calls[o] = Idle) =>
    \A q \in Query : Quiet(q) => \A i \in Items[q] : i \in missed \/ cached[q][i] = Now(i)
=============================================================================
