------------------------------ MODULE MCPlatform ------------------------------
(***************************************************************************)
(* Components that share nothing, in one run; only the `active` one takes  *)
(* steps, so their state spaces are added and not multiplied.  The one     *)
(* this module extends is the clusters: one cluster, two attempts, two     *)
(* faults, an attempt that outlives its timeout, one reader.               *)
(***************************************************************************)
EXTENDS ClusterProvisioning

CONSTANTS
  Provider, Reading, MaxGrants, MaxLapses,   \* Git: the requests, their faults
  Host, Email, Patcher, MaxSlips,            \* Domain
  Creation, MaxCreations,                    \* Slugs: POSTs, their attempts
  MaxChanges, MaxMarks, MaxFailed, MaxFocus, \* Cache
  None, Null

VARIABLES
  active,
  parent, child, granted, live, age, req, cut, lapses,               \* Git
  settings, routes, acme, envEmail, mainConfig, mainEmail, patch, crowded, slips, \* Domain
  taken, wrapped, post, rivals,                                      \* Slugs
  server, working, expired, page, cached, invalid, fetch, calls, missed, \* Cache
  ops, marks, failed, focused

(* Two requests to one provider; three tokens are issued at most. *)
Git == INSTANCE GitProviders WITH Request <- Reading, MaxFaults <- MaxLapses, faults <- lapses

(* Two PATCHes of the settings; a host or none, an email or none, and each *)
(* kind of main configuration.                                             *)
Domain == INSTANCE ServerDomain WITH MaxFaults <- MaxSlips, faults <- slips

(* Three POSTs with the same name, two attempts each. *)
Slugs == INSTANCE ProjectSlugs WITH Request <- Creation, MaxAttempts <- MaxCreations

(* The cache of the dashboard. *)
Cache ==
  INSTANCE DashboardCache WITH
    MaxOps <- MaxChanges, MaxFaults <- MaxFailed, faults <- failed

(* Nothing is no data, and the bounds are numbers. *)
ASSUME CacheAssumption ==
  /\ \A q \in Cache!Query : None \notin [Cache!Items[q] -> Cache!Row]
  /\ MaxChanges \in Nat /\ MaxMarks \in Nat /\ MaxFailed \in Nat /\ MaxFocus \in Nat

gitVars == <<parent, child, granted, live, age, req, cut, lapses>>
domainVars == <<settings, routes, acme, envEmail, mainConfig, mainEmail, patch, crowded, slips>>
slugVars == <<taken, wrapped, post, rivals>>
cacheVars ==
  <<server, working, expired, page, cached, invalid, fetch, calls, missed, ops, marks, failed, focused>>

(* The cache is taken five times: with each group of mutations that share  *)
(* queries, the pages that offer them or lead away from them, the items    *)
(* that are not there yet, and how many mutations, marks of the worker,    *)
(* failures and focused windows there are.                                 *)
Groups ==
  [services |->
     [op |-> {"createProject", "createWorkload"}, visited |-> {"projects", "created", "workspace"},
      fresh |-> {"project", "branch", "workload"}, ops |-> 1, marks |-> 1, failed |-> 1, focused |-> 0],
   branches |->
     [op |-> {"createDatabase", "createBranch", "patchBranch"},
      visited |-> {"overview", "workspace"},
      fresh |-> {"branch"}, ops |-> 2, marks |-> 1, failed |-> 0, focused |-> 0],
   workloads |->
     [op |-> {"saveConfig", "saveEnv", "saveDomains", "deploy"}, visited |-> {"workspace"},
      fresh |-> {"branch"}, ops |-> 2, marks |-> 2, failed |-> 0, focused |-> 0],
   backups |->
     [op |-> {"backup", "restore", "schedule"}, visited |-> {"backups"},
      fresh |-> {}, ops |-> 1, marks |-> 1, failed |-> 0, focused |-> 0],
   others |->
     [op |-> {"destination", "provider", "settings"}, visited |-> {"destinations", "git", "settings"},
      fresh |-> {"branch"}, ops |-> 1, marks |-> 0, failed |-> 1, focused |-> 1]]

Group == IF active \in DOMAIN Groups THEN Groups[active] ELSE Groups.others

Within ==
  /\ ops <= Group.ops /\ marks <= Group.marks /\ failed <= Group.failed /\ focused <= Group.focused

MCInit ==
  /\ active \in {"git", "domain", "clusters", "slugs",
                "services", "branches", "workloads", "backups", "others"}
  /\ Git!Init /\ Domain!Init /\ Init /\ Slugs!Init
  /\ Cache!Init
  /\ server = [i \in Cache!Item |-> IF i \in Group.fresh THEN Cache!Missing ELSE Cache!There]
  /\ active # "git" => \A p \in Provider : parent[p].type = "github"
  /\ active # "domain" => mainConfig = "unset"
  /\ active # "slugs" => taken = {} /\ ~wrapped

MCNext ==
  /\ UNCHANGED active
  /\ \/ /\ active = "git" /\ Git!Next
        /\ UNCHANGED <<domainVars, vars, slugVars, cacheVars>>
     \/ /\ active = "domain" /\ Domain!Next
        /\ UNCHANGED <<gitVars, vars, slugVars, cacheVars>>
     \/ /\ active = "clusters" /\ Next
        /\ UNCHANGED <<gitVars, domainVars, slugVars, cacheVars>>
     \/ /\ active = "slugs" /\ Slugs!Next
        /\ UNCHANGED <<gitVars, domainVars, vars, cacheVars>>
     \/ /\ active \in DOMAIN Groups /\ Cache!Steps(Group.op, Group.visited) /\ Within'
        /\ UNCHANGED <<gitVars, domainVars, vars, slugVars>>

mcVars == <<active, gitVars, domainVars, vars, slugVars, cacheVars>>

MCSpec == MCInit /\ [][MCNext]_mcVars

(* Every variable has its type. *)
TypesOK ==
  /\ TypeOK
  /\ active = "git" => Git!TypeOK
  /\ active = "domain" => Domain!TypeOK
  /\ active = "slugs" => Slugs!TypeOK
  /\ active \in DOMAIN Groups => Cache!TypeOK

(* GitProviders: the stored refresh token is good, or being replaced. *)
StoredTokenRefreshes == active = "git" => Git!StoredTokenRefreshes

(* GitProviders: a request nothing overlaps is answered. *)
LoneReadSucceeds == Git!LoneReadSucceeds

(* ServerDomain: settings shown as applied are served. *)
AppliedIsServed == active = "domain" => Domain!AppliedIsServed

(* ProjectSlugs: a refusal means as many faster rivals as attempts. *)
RefusedMeansCrowded == active = "slugs" => Slugs!RefusedMeansCrowded

(* DashboardCache: a page at rest shows what the server has. *)
QuietIsCurrent == active \in DOMAIN Groups => Cache!QuietIsCurrent
=============================================================================
