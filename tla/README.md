# Openbika in TLA+

Openbika is a control plane for managed Postgres. An API process writes rows in
a Postgres database and starts Temporal workflows; a worker process runs their
activities (Docker, Postgres, S3) and writes the outcome back into the rows; a
dashboard polls the API. The database is the only state API and worker share,
nothing spans several statements but a few transactions, Temporal retries
activities that may still run, and the dashboard keeps copies of what it read.
That is where the program can go wrong, and what these specifications are about.

## Inventory

| component | state | operations | talks to |
|---|---|---|---|
| Backup scheduler (`apps/api/src/backup-scheduler.ts`) | `backup_schedules`, `backup_jobs`; in memory `running`, the selected rows | tick once a minute; per due row insert a job, move `nextRunAt` on, start the workflow, mark the job when that fails | database, Temporal |
| Schedule routes (`routes/v1.ts` 4383-4582) | `backup_schedules` | POST, PATCH, DELETE | the scheduler, through the rows |
| Backup activity (`apps/worker/src/activities.ts` 722-937) | `backup_jobs`, S3 objects | mark running, load context, dump to S3, mark succeeded, prune by retention, mark failed and rethrow | Temporal, Docker, S3 |
| Backup and restore routes (`routes/v1.ts` 4091-4327) | `backup_jobs`, `restore_jobs`, `branches` | record and dispatch a backup or a restore | Temporal |
| Branches (`routes/v1.ts`; activities 370-433, 676-720, 945-1105) | `branches`, local databases | create and clone, restore, expire on read, create a missing database on connect | Postgres, Docker, S3 |
| Cluster provisioning (`routes/v1.ts` 3170-3300; activities 435-570) | `database_clusters`, main branches, endpoints | POST databases, the worker's transaction, answers from several statements | Temporal |
| Workload provisioning (`routes/v1.ts`; activities 572-674; `packages/provisioning`) | `project_workloads`, containers, image tags, staging directories | create, save config, env and domains, deploy, rebuild, push webhook | Docker, Temporal |
| Workload ingress (`docker-runtime.ts`, `workload-domains-panel.tsx`) | domains desired, routes observed, Traefik labels | add, remove and save domains, deploy | Traefik |
| Git providers (`git-providers.ts`; `routes/v1.ts` 1920-2972) | two rows per provider | create, OAuth callbacks, token refresh, edit, delete | GitHub, GitLab, Gitea, Bitbucket |
| Server domain (`server-domain-settings.ts`; `routes/v1.ts` 1568-1681) | settings row, Traefik files | GET, PATCH: row, files one after the other, row | Traefik |
| Organizations, projects, slugs (`routes/v1.ts` 167-214, 3020-3170) | rows under unique indexes | create, rename | |
| Temporal, as the code uses it (`apps/worker/src/workflows.ts`) | workflows and attempts | start; five attempts, ten minutes each, no heartbeat | worker |
| Dashboard (`apps/dashboard/src`) | query cache, forms, previews, dialogs of one tab | pages, polls, mutations and what they invalidate | API |

Authentication, environment, queue names, the install scripts and the
observability package keep no state the rest depends on; `PROJECT.json` lists
every component with what is left out of it.

### What is hard, and what correct means

- *Scheduler.* Insert of a job and update of `nextRunAt` are two statements; a
  tick works from a snapshot; a crash restarts the process; nothing claims a row.
  Correct: one job per occurrence, no job lost, a paused schedule stops, every
  due schedule fires, a job marked as not dispatched is not running.
- *Backups.* Attempts overlap after a timeout, die with the worker and lose
  single statements; every mark of a row is unconditional. Correct: a succeeded
  row has its dump, rows agree with closed workflows and live as `JobLifecycle`
  says, the workflow closes.
- *Retention* selects survivors, then deletes the rest, while other jobs finish
  and restores refer to old ones. Correct: it prunes old successes of its
  schedule only, never the newest N, and leaves no more than N once a delete
  gets through.
- *Branches.* A restore drops its target before it validates the backup;
  restores, clones and expiry of one branch overlap. Correct: a ready branch has
  its data, whole; `creating` ends; a parent outlives its children.
- *Workloads.* Observed state is read before a long `docker run` and written
  after it; redeploys are workflows of their own on one container name. Correct:
  what is available runs what is desired, marks end.
- *Clusters, git tokens, domain settings, slugs.* Read, remote call or file,
  write. Correct: nothing stays requested; answers are whole; the stored token
  is good; settings shown as applied are served; a free slug is found.
- *Dashboard.* Answers arrive in any order, polls refill forms, caches are
  invalidated by hand, components outlive a switch of branch. Correct: a page at
  rest is current, a form keeps what was saved, an edit reaches its row, an
  answer is shown for what was asked.

## Plan

| step | modules | status |
|---|---|---|
| 1 | `BackupScheduler`, `BackupExecution`, `JobLifecycle` | done, proved |
| 2 | `ActivityRetry`, `BranchLifecycle`, `BranchService` | done, proved |
| 3 | `WorkloadProvisioning`, `Ingress` | done, proved |
| 4 | `ClusterProvisioning`, `GitProviders`, `ServerDomain`, `ProjectSlugs` | done, proved |
| 5 | `DashboardCache`, `WorkloadForm`, `TablesStudio`, `BranchConsole` | done, proved |
| 6 | safety of every run as a theorem, both refinements | done |
| 7 | shorter proofs; properties for the two hazards without one | open |

Modules take their sets and bounds as CONSTANTS with named assumptions, have one
action per statement or handler, and use no RECURSIVE operator.

## Modules

Operators introduced as "Mutant of" are deliberately wrong variants of the
definition after them, and no specification uses them: they show that each
property fails when the code is wrong in that way.

### Control plane

**`BackupScheduler`.** `sched`, `job` are the two tables, `wf` the workflows
Temporal accepted. For each API process `due[a]` is the rest of the rows its tick
selected, `cur[a]`/`jobOf[a]` the row and job in `runSchedule`, `pc[a]` the next
statement, `tickAt[a]` the `now` of the tick. `CreateSchedule`, `PatchSchedule`,
`DeleteSchedule` are the routes; `ExpireBranch` the cascade from a branch;
`TickStart`, `SeedNextRun`, `InsertJob`, `InsertRejected`, `AdvanceSchedule`,
`DispatchAccepted`, `DispatchThrows`, `MarkFailed` the scheduler, in the order of
the code; `StatementFails` and `Crash` its faults. The clock counts minutes, one
scheduler interval. A cron expression with its timezone is the set of minutes it
matches; `broken` is one the request schema admits and cron-parser rejects.
`job[j].cut`, `firedPaused` and `unheard` (jobs whose start was accepted and
threw) are history.

**`ActivityRetry`** is Temporal: status of a workflow, attempts, the retry policy
all six workflows share, the timeout that abandons an attempt without stopping
it. The modules of the activities instantiate it; an attempt that is not
`Current` may go on writing rows, but nobody listens to it.

**`BackupExecution`.** `row` is `backup_jobs` with jobs numbered by `createdAt`;
`run[j][k]` is what attempt `k` of job `j` holds and where it is; `api` is the
dispatcher, `objects` the whole dumps in S3, `schedule`, `destination`,
`restored` the rows the foreign keys connect: a restore of a backup is recorded
(`RequestRestore`) and goes by cascade with its target branch (`DeleteTarget`).
`refused` says that the last delete of the retention failed because of one. Every statement of
`createBackupActivity` and `applyScheduleRetention` is an action, but for the two
selects of the retention. `lost` and `raced` are history: jobs hit by a crash
or failed statement, and jobs with a timed-out attempt or a lost reply.
`Overlapping` and `Restoring` say whether jobs may run side by side and whether
restores refer to backups.

**`BranchLifecycle`.** `branch` and `restore` are the tables, `disk[b]` is what
Postgres holds for a branch: the rows users wrote and every `pg_restore` that has
begun and not ended. Routes (create, restore, list with its expiry, connect) and
both activities are taken statement by statement, with retries, timeouts and
crashes. A start may be accepted and unheard of (`StartUnheard`): the API then
marks the branch of a clone failed, before or after the worker marks it ready.
`disturbed` holds branches with overlapping or repeated operations, and those
clones.

**`ClusterProvisioning`.** POST databases with its dispatch and its marks,
`provisionClusterActivity` with its one transaction, and requests that serialize
a cluster in three statements or insert a missing endpoint meanwhile.

**`WorkloadProvisioning`.** `row` holds what is desired and observed, `seen[q]`
what a request read before it writes, `payload[o]` what its workflow deploys;
`docker`, `image`, `staging` are the container, the tag and the bundle directory,
all three named after the workload. A config, env or list of domains is the
request that wrote it. Ports of compose, Docker's own recovery and the activity
log are left out.

**`Ingress`** follows one host from the Domains panel through PATCH domains into
labels and back: `Labels` of the worker (shadowing, dropping the platform's row,
redirects, one bootstrap router) and the merge of observed and desired rows in
the panel are translated as operators.

**`GitProviders`, `ServerDomain`, `ProjectSlugs`** have one action per statement,
remote call or file, with requests that interleave. GitLab revokes a refresh
token once it is used and Gitea does not, which the code does not say and its
remote applications do. Whether the database driver wraps the error that carries
the violated index is not in the repository: `wrapped` models both.
`mainConfig` is what the environment names as Traefik's main configuration:
nothing, which is the default and makes `updateMainTraefikEmail` return, a file
without an email line, as the shipped one, which it writes back as it was, or
one with such a line. The shipped file takes its email from the environment of
the compose project, which is written if it is there. When Traefik is restarted
or reads its files is left out.

### Dashboard

**`DashboardCache`** is one tab: which page mounts which query, which polls while
something is under way, what each mutation invalidates or sets. The query library
is external: one fetch at a time; invalidation starts a fetch over; setting data
leaves a fetch alone. Deploy, rebuild and saving env or domains put a workflow
to work (`working`), and the page polls while the status it knows is one of work
under way. `missed` holds changes the page has no way to learn of before its
next fetch. Two of them are the code's: saving a configuration makes the row a
draft, even while a workflow that will mark it runs; and the first request that
comes across a branch whose time is over deletes its row (`Expire`), where a call
on that branch is answered 404 (`Refused`) and the page keeps showing it. `Steps(os, pages)` is what happens while only some
mutations are clicked and some pages visited; `Next` takes them all.

**`WorkloadForm`** is the effect that fills the form from the cached workload,
Save, Deploy Now (save, then deploy) and Rebuild, next to polls, the worker and
other clients. **`TablesStudio`** keeps drafts and selection by place in a preview
whose answers arrive in any order; `swapped` is history and says that an answer
replaced rows that were on the screen, or came for a table that was left, since a
preview was last asked for. **`BranchConsole`** is the connection dialog
and the SQL runner across switches of branch and view.

### Abstract specifications

**`JobLifecycle`**: status of a job and whether work on it is open.
`BackupExecution` implements it with `status <- row[j].status`, `open <- api or
workflow still has the job`. A success is not final before the workflow is
closed: a worker that dies between marking and reporting makes the backup again. Jobs two
attempts work on, or that run although their dispatcher heard of an error, are
*strays*, of which little is promised.
**`BranchService`**: a branch says ready only while its database is whole, and
its data is taken apart only after that. `BranchLifecycle` implements it, with a
branch `disturbed` once operations overlapped on it.

### Instances

Each component is checked in one run. `MCBackupScheduler`, `MCBackups`,
`MCBranches`, `MCWorkloads` and `MCPlatform` extend the component itself, so what
is proved of `Spec` is proved of the run, and `Within` says how far TLC follows
it. Where a variable `active` chooses a *turn*, each turn has a `Within` of its
own: one lets operations overlap, another has faults instead. The last two, and
`MCBranches`, put further components beside it that share no variables; only the
active one takes steps, so the state spaces add up, and a property of a component
that is not active holds trivially. `MCLive` instantiates five components, with
fairness. Components that share rows but are checked apart meet at those rows:
`ExpireBranch` in `BackupScheduler` is the cascade of `BranchLifecycle`'s expiry;
the backups of `BranchLifecycle` succeed as `BackupExecution` says.

## Runs

| run | instances | shows |
|---|---|---|
| `scheduler` | 2 processes, 4 jobs, 3 expressions, 4 minutes, 2 faults while one process is alone; once both have ticked, or a reply was lost, 2 minutes and 1 fault | `TypeOK`, `AloneFiresOnce`, `NoLostJob`, `NotDispatchedIsTrue`, `PausedFiresOncePerServer` |
| `backups` | 2 attempts, keep 1; `faults`: a POST and a scheduled job, timeouts, lost replies, a crash; `losses`: 2 scheduled jobs side by side, a crash, restores; `sequential`: 3 jobs in turn, a crash; `converging`: 3 jobs side by side, with restores of the first | `TypeOK`, `ArtifactIsReal`, `OutcomeAgrees`, `RetentionConverges`, `SequentialKeepsNewest`, `RowsFollowLifecycle` (refinement of `JobLifecycle`) |
| `branches` | 2 attempts; `turns`: a clone and a restore in turn with a crash; `overlap`: the same at once, or the clone alone with a start that was not heard of or a timeout; `restores`: 2 restores of one branch with a timeout; `family`: 3 branches that expire; the table view with 4 requests and changes of the schema in all; the connection dialog; the SQL runner | `TypeOK`, `ReadyIsWhole`, `ReadyKeepsData`, `CreatingIsUnderWay`, `RestoreOutcome`, `ParentStays`, `BranchesFollowService` (refinement of `BranchService`), `WritesHitTheirRows`, `ShownIsAsked` |
| `workloads` | 2 requests, one with a build, one with a bundle, 2 attempts; `turns`: in turn, a crash, a timeout or lost reply; `overlap`: at once; `push`: a push for 2 workloads; routes of 2 hosts; the form with 3 edits, or 2 and a save of another client | `TypeOK`, `AvailableIsDeployed`, `ProvisioningIsUnderWay`, `DesiredIsServed`, `DeployedIsClicked`, `SavedStays` |
| `platform` | 1 provider, 2 requests, 3 tokens, a fault; 2 PATCHes, a host, an email and each kind of main configuration, a fault; 1 cluster, 2 attempts, 2 faults, a timeout; 3 POSTs; the cache in 5 groups of mutations with their pages (`Groups`) | `TypesOK`, `StoredTokenRefreshes`, `LoneReadSucceeds`, `AppliedIsServed`, `RequestedIsUnderWay`, `AnswerIsWhole`, `RefusedMeansCrowded`, `QuietIsCurrent` |
| `live` | scheduler, backup, clone, restore, workload, each with fairness | `DueScheduleFires`, `QueuedJobSettles`, `BackupsClose`, `BranchesSettle`, `WorkloadsSettle` |
| `scheduler_double_fire` | 2 processes, no fault | `OneRunPerOccurrence` **fails** |
| `retention_overlap` | 2 overlapping jobs, keep 1 | `RetentionKeepsNewest` **fails** |
| `branch_canvas` | 2 restores of one branch | `CleanCanvas` **fails** |
| `workload_saved` | 2 redeploys of one workload | `SavedIsDeployed` **fails** |
| `studio_selection` | 1 table, 2 previews of it, a write | `SelectionIsDeleted` **fails** |
| `console_confirm` | 2 branches, write mode | `WritesAreConfirmed` **fails** |

### Findings

1. *Two API processes fire an occurrence twice.* Nothing claims a row between
   select and update; the comment on `startBackupScheduler` calls it safe once
   per server. As long as one process alone has ticked it is safe
   (`AloneFiresOnce`).
2. *Overlapping jobs prune the newest backup.* A job that selected its survivors
   before another succeeded deletes that newer success.
3. *Two restores of one branch share a canvas.* Both drop and create the
   database before either copies; the second `pg_restore` runs into the rows of
   the first.
4. *A saved change may not be what runs.* Redeploys are separate workflows; the
   older one may remove the newer container and record `available` last.
5. *Delete may delete other rows than were ticked.* A preview can be asked for
   again while one is loading: Enter in the filter, or a change of the schema.
   `loadPreview` clears the selection when it asks, but neither cancels nor tells
   its requests apart. The first answer is shown and a row is ticked; the second
   replaces the rows, and the selection, which is by place, is of another row now.
   The order of the two answers does not matter, and the confirmation only counts
   rows. (The same happens across tables, when an answer for the table that was
   left arrives last.)
6. *Write mode outlives its branch.* The confirmation is state of a component
   that stays mounted when another branch is chosen.

Behaviour the models show and no document of the repository speaks about:

- "not dispatched" may be wrong after a lost reply of Temporal: every error of
  `startControlPlaneWorkflow` becomes `WorkflowDispatchError`. Hence
  `NotDispatchedIsTrue` excepts `unheard`.
- A restore stops retention: `restore_jobs.backup_job_id` is `on delete
  restrict`, the delete is one statement over all victims and its error is only
  logged. The restore goes with its target branch, but then nothing tries the
  delete again before the next success. Hence `RetentionConverges` excepts a last
  delete that was `refused`, and no earlier one.
- The comment on the platform's label row in `docker-runtime.ts` (line 403) says
  that two routers are never registered for one host on port 80. A custom row
  with the platform's host and a port other than the first one does not shadow
  the platform's row and gives two routers with one rule. `RoutersApart`, a part
  of `DesiredIsServed`, says that there is no other way to get two.
- A page at rest may show a branch that has expired, and a workload whose
  configuration was saved while a workflow ran may show `draft` after that has
  marked it: nothing polls. Both are in `missed`.
- A clone whose start succeeded and whose reply was lost may become ready and
  then be marked failed by the API. Hence such a branch is `disturbed`.
- The filter of custom rows that are redundant with the platform's never drops
  one: such a row shadows the platform's first (`NothingIsRedundant`).
- PATCH of a schedule leaves `nextRunAt`: the old occurrence still fires once.
- POST restores whose dispatch fails leaves its branch `creating` (`stranded`).
- A restore of a failed backup destroys the data of the branch before it is
  refused; the row says `creating` meanwhile, then `failed`.
- env, domains and config are merged into a desired state read earlier; of two
  concurrent patches one is lost.
- Removing a domain that is applied but not desired any more gives up the
  platform's host name; a workload with a build context and no source cannot be
  saved from the form.

### Bounds

`MaxTime`, `MaxFaults`, `MaxLosses`, `MaxRaces`, `MaxGrants`, `MaxEdits`,
`MaxOps` and the like bound clocks, faults and requests; the sets of jobs and
requests bound what may be inserted. Four minutes let an expression fire, be
missed and fire again around two faults. Two processes, requests or attempts
give every pairwise race; two attempts give one overlap and one retry (the
code has five; the theorems hold for any number). Three jobs with keep 1 give two
victims at once, three POSTs with two attempts a request that loses twice.
Three tokens let each of two refreshes succeed after a connection. One host, an
email or none, and routes with and without TLS tell the files of two PATCHes
apart. Two tables with two rows and three previews reorder answers within and
across tables. In the cache, two mutations and two marks let a workload be saved
while it is deployed and marked after that. The
cache is split into five groups of mutations that share queries: mutations of
different groups invalidate disjoint lists, apart from the lists of clusters and
workloads, which most groups have.

`CHECK_DEADLOCK FALSE` everywhere: with requests, edits and faults spent and
every job closed, an instance has nothing left to do. `MCBackupScheduler` has
the constraint `Within`, see its comment, and `MCBranches` `InTime`: a behaviour
of the console ends with the first late answer, after which its property
promises nothing.

### Fairness

Only `MCLive` states fairness, of single steps and for the active component.
Scheduler: `TickStart`, the current row of each process, and the clock
(`setInterval` and the event loop of a live process). Activities: each attempt's
next step, the worker's polling, the API's dispatch and marks, and Temporal's
timer. No edit, request, crash, failed statement or answer of a fault is fair.
An attempt that never ends is covered by `TimeOut`, which needs no cooperation of
the worker. `MCLive` restates the `Fairness` of the modules with `active` as a
guard, since the others take no steps. Crashes are allowed in all but the
scheduler, where a crash does lose a job (`NoLostJob` says exactly when); there
replies may be lost. What a fault strands is excused in `BranchesSettle` and
`WorkloadsSettle`, as in the invariants `CreatingIsUnderWay` and
`ProvisioningIsUnderWay`.

## Proofs

Every safety property of the passing runs is a theorem, for all values of the
constants that meet the named assumptions of the modules (TLC evaluates those in
the runs) or the bounds a theorem states (`Bounds`, `PlatformBounds`: limits are
numbers, requests finite). The step lemmas are one per action or group of actions;
the proofs of the parts of an invariant cite only the parts they need.

**`BackupSchedulerProofs`.**
- `TypeCorrect`. Types alone are not inductive: `Hands` adds that a process
  inside `runSchedule` holds a selected row and a job. The types of `nextRunAt`
  rest on `NextFireLater`: the next match is later than now.
- `NoJobIsLost`. Each action leaves a job where it is, passes it to Temporal,
  marks it, or is a fault that cuts it.
- `AloneFiresOnceAlways`, for any number of processes while one alone has ticked:
  `nextRunAt`, in the table and in the tick's snapshot, lies beyond every uncut
  occurrence fired before.
- `MarkedJobsAreNotDispatched`. A job is in the hands of one process
  (`SoleHolder`) and undecided while it is (`Undecided`), so a mark cannot meet a
  dispatch of the same job. The history `unheard` replaced an assumption that no
  reply is lost.
- `PausedSchedulesStop`. A row is selected at most once per process
  (`SelectedOnce`); firings of the paused schedule plus the processes that still
  hold its row never exceed the processes.

**`BackupExecutionProofs`.** `IInv` has `TypeOK`; `InStep`, how far the API,
Temporal and the worker are; `ArtifactInHand`, what an attempt is about to write;
`ArtifactIsReal`; `InOrder`, a job without races has one attempt at work and its
row says what that has done; `Retained`, no more than `Keep` successes remain or an
attempt is still to apply the retention.
- `SucceededHasDump`, under all overlaps, because objects are never deleted, a
  destination never returns, and a pruned row never comes back.
- `RowsAgreeWithWorkflows`, `RetentionConvergesAlways`: the latter excuses lost
  attempts and a last delete that was refused, not jobs that overlap, nor restores
  that came and went before it.
- `RetentionKeepsTheNewest` and `RetentionOfOneAtATime`: the survivors an attempt
  selected are still the newest when it deletes (`Fresh`), which is inductive
  only where neither jobs nor attempts overlap; with overlapping jobs it is false
  (`retention_overlap`).
- `BackupsFollowLifecycle`, the refinement: each action maps to a step of
  `JobLifecycle` or a stutter.

**`BranchLifecycleProofs`.** `IInv` has `Typed` (with the order of statements),
`Lineage` (parents are there and do not expire), `Watched` (a branch that says
creating has an open operation, or its mark was lost), `Calm` (for an undisturbed
branch, what each statement of the one operation on it has done to its database)
and `JobsAgree`.
- `ParentsStay`, `CreatingEnds`, `ReadyStaysWhole`, `JobsAgreeWithWorkflows`,
  `ReadyDataIsKept`; `ImplementsService`, the refinement of `BranchService`.
- `WritesReachRows` and `ShownWasAsked` carry the theorems of
  **`TablesStudioProofs`** and **`BranchConsoleProofs`** into the run. The first:
  a request clears the screen, and as long as no answer has replaced rows since,
  edits and selection are of the rows that are there. The
  second: what is cached or in flight and not detached is at least as new as the
  last PATCH that returned.
- Trying to prove `Watched` found a history variable wrong: the first
  statement stands before the `try`, and when it fails on the last attempt nobody
  marks the branch, which had not counted as a lost mark (`LosesMark`).

**`WorkloadProvisioningProofs`.** `IInv` has `TypeOK`, `Asked`, `Ordered`,
`Watched` and `Calm`, much as for branches.
- `MarksAreTakenAway`, `AvailableWorkloadsAreDeployed`. The proof needs that a
  config is not both built and bundled, and that no workload is `None`; both are
  now assumptions.
- `DesiredDomainsAreServed`: the filter of redundant domains never drops a row,
  one row alone enables the container, and two rows with one host and path are
  desired, or one is the platform's and the other asks for its host.
- `ClicksAreDeployed`, `WhatWasSavedStays`: a version stands for one content of
  the row, and what a form sends comes back into it. `SavedStays` turned out to
  hold also while requests are under way, so it says so now. Overlapping cases in
  `WorkloadForm`, of which TLC took the first, are IF/ELSE now.

**`PlatformProofs`.**
- `NoClusterIsForgotten`, from where the dispatcher, the workflow and its attempts
  can be for each status of the row; `AnswersAreWhole`, because an available
  cluster stays available with a ready main branch and an endpoint, so what a
  reader sees later is no less than what it saw.
- `AppliedSettingsAreServed`: while a PATCH is alone, each of its steps has
  brought one more file in line with what it wants, or has found that there is
  none to bring in line.
- `RefusalsAreCrowded`: a request that lost its slug has been overtaken since it
  last read; the slugs taken are finite, so there is a free one to pick.
- `RestingPagesAreCurrent`: a row that is shown, or was read by a fetch that has
  not been delivered, is as the server has it, or busy, or awaited (a mutation that
  changed it is to return), or missed, or its query is marked or fetched anew
  (`CachedFine`, `ReadFine`); only what the worker works on is busy
  (`OnlyWorkIsBusy`), so an old busy row is polled, and what a workflow marks on a
  row that is not busy, or an expiry takes away, is missed.
- `ConnectionsAreKept`, `LoneReadsAreAnswered`, from **`GitProvidersProofs`**: a
  token about to be saved is known to its request alone (`Private`), and a refresh
  token is found with one provider only (`Owned`), so no revocation reaches a row.
  For a read that is alone the row stays as good as when it was read, and access
  and refresh tokens come in pairs (`LoneInv`).
- `TypesAreCorrect`, for all components of the run.

Only model-checked: the liveness of `live` (`DueScheduleFires`,
`QueuedJobSettles`, `BackupsClose`, `BranchesSettle`, `WorkloadsSettle`), since
fairness and ENABLED are out of the prover's reach; and the six properties that
fail, by their counterexamples.

## Not modelled

Authentication and sessions, the HTTP plumbing, install scripts and compose
files, generated route trees, styling and texts. Of modelled components: a PATCH
of the retention limit or of a destination's bucket while a backup runs; several
organizations and access checks; roles and grants of local databases; ports of
functions beyond the first; equal `createdAt`; objects an aborted upload leaves
behind; two dashboards at once, but for other clients that write in
`WorkloadForm` and `TablesStudio`; providers other than the local one, whose
calls are stubs in the repository.
