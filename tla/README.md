# TLA+ verification of AI-CloudOps

Models, model-checking configurations and proofs for the stateful parts of the
AI-CloudOps backend (`src/`, Go): the **work order engine**, the **cron jobs**, the
**service tree**, the **cloud accounts and their synchronisation**, the **Kubernetes
clusters and their clients**, the **streams of pod logs and pod terminals**, the **alert
webhook**, the **on-duty rota** and the **configuration caches of monitoring**.  Section 1
says what the system consists of, sections 2 to 9 take the modelled parts one by one,
section 10 lists what is left out, section 11 is the plan.

    cd tla
    tlc -workers 2 -config WorkorderSerial.cfg MCWorkorderInstance.tla
    tlapm WorkorderInstanceProofs.tla

| file | what it is |
|---|---|
| `WorkorderProcess.tla` | the process definition of a work order and the functions computed from it |
| `WorkorderInstance.tla` | the engine: every handler that changes an instance, cut at its DAO calls |
| `WorkorderLifecycle.tla` | the abstract specification: whole operations on (status, step) |
| `MCWorkorderInstance.tla`, `Workorder*.cfg` | small processes, requests and bounds for TLC |
| `WorkorderInstanceProofs.tla` | theorems of the engine, whatever overlaps |
| `WorkorderSerialProofs.tla` | theorems of the engine for one request at a time, the refinement among them |
| `CronJob.tla` | admin handlers, scheduler, task queue and workers |
| `MCCronJob.tla`, `Cron*.cfg` | small instances for TLC |
| `CronJobProofs.tla` | theorems of the cron jobs |
| `TreeNode.tla`, `TreeNodeProofs.tla` | the service tree; its theorems |
| `CloudSync.tla`, `CloudSyncProofs.tla` | one cloud account: regions, instances, synchronisation; its theorems |
| `ClusterClients.tla` | rows of clusters, the map of clients, the status and its checks |
| `LogStream.tla` | one pod log as server-sent events |
| `PodTerminal.tla` | one terminal in a pod over a websocket |
| `StreamProofs.tla` | theorems of the log stream and the terminal |
| `MCResources.tla`, `Resources.cfg` | these five together, and their instance |
| `ResourcesProofs.tla` | theorems of the cluster clients, and of the five together |
| `MCLogStream.tla`, `LogStream.cfg` | the instance of the log stream alone |
| `MCCloudSync.tla`, `CloudFullSync.cfg` | the instance of the synchronisation alone |
| `AlertEvent.tla` | Alertmanager's messages, the queue, the event rows, operators |
| `OnDuty.tla` | filling of the duty history, the plan, who is paged |
| `ConfigCache.tla` | hash, generation, Redis keys and table of the monitoring configurations |
| `MCMonitoring.tla`, `Monitoring.cfg` | these three together, and their instance |
| `MonitoringProofs.tla` | theorems of the three, one part each, and of them together |
| `MCConfigCache.tla`, `ConfigJobs.cfg` | the instance of the caches alone |
| `PROJECT.json` | components, runs, mutants, the definition-to-source map, findings, hazards, theorems |

## 1. Inventory

The backend is one Go process: gin handlers, services, GORM DAOs on MySQL, Redis
for caches and the asynq queue, goroutines started in `src/main.go`.  A request
runs in a goroutine of its own.  Most services do read-check-write over several
statements without a transaction, so **the unit of interleaving is the DAO call**;
this is the central modelling decision of the project.

**Work order instances** (`internal/workorder`).  State: a row per instance
(status, current step, assignee, completion time), the process definition it runs
on (a JSON document that can be edited at any time), and append-only flow records,
timeline entries and comments.  Operations: create (plain, from a template), submit,
assign, approve, reject, cancel, complete, return, update, delete, and two reads
that may write (`GetCurrentStep` stores a missing step).  Interactions: every
handler asks `GetAvailableActions`, which asks `GetCurrentStep`, which reads the
process; notifications are sent and forgotten.  Hard: a handler makes several DAO
calls between its status check and its write; the write is a GORM `Updates` with a
struct, which skips zero fields; logging failures are swallowed; the process can
change under the order; the users a step names are checked nowhere.  Correct when: finished
orders stay finished, the record explains the status, an order is stuck only where nobody its
step names exists, a deleted row is never written, and overlapping requests take away no
stored data they do not mean to clear.

**Cron jobs** (`internal/cron`).  State: a row per job (status, built-in flag, run
counters), asynq's scheduler entries in memory, the task queue in Redis, ten
workers.  Operations: create, update, delete, enable, disable, trigger; a reload of
the enabled jobs every 30 s; `ProcessTask` per task.  Interactions: the scheduler
and the trigger enqueue, a worker reads and writes the row several times around the
job's command, the API writes the same row meanwhile.  Hard: overlapping runs,
retries, asynq's time limit, restarts with tasks in hand, updates that save stale
columns.  Correct when: scheduled runs of a job do not overlap, a job shown as
running is being run and stops being so, counters add up, tasks settle, an
administrator's decision stands.

**On-duty rota** (`internal/prometheus/service/alert/onduty_service.go`,
`internal/cron/manager.go`).  State: groups, changes of a day, a history row per
group and day.  Operations: plan, change, fill history.  Hard: the shift arithmetic
before the first day and with changed group sizes; two fillings of a day.  Correct
when: the person computed for a day agrees with history, changes and rotation, and
there is one history row per group and day.

**Alert webhook and alert events** (`internal/prometheus/webhook`,
`internal/prometheus/service/alert/event_service.go`).  State: a bounded channel of
alerts, four caches refreshed on timers, an event row per fingerprint, silences
in the external Alertmanager.  Operations: receive, handle, silence, unsilence,
claim.  Hard: a queue that fills in the middle of a message, alerts handled in unordered
goroutines, operators and alerts writing the same row, drops on a cold cache.
Correct when: an event ends in the status of its last alert unless an operator
silenced or claimed it, and no accepted alert disappears.

**Service tree** (`internal/tree/dao/tree_node_dao.go`).  State: nodes with parent,
level and leaf flag.  Operations: create, move, delete, bind.  Hard: walks and
counts outside transactions.  Correct when: no cycle, no orphan, levels and leaf
flags agree with the parents.

**Cloud accounts** (`internal/tree/service/tree_cloud_service.go`,
`cloud_account_service.go`, `cloud_account_region_service.go`).  State: an account, a row per
region with a default flag, a row per instance.  Operations: synchronise (full or
incremental), create, update and delete regions, enable, disable and delete the account,
delete a resource.  Interactions: the cloud is asked region by region; nodes of the service
tree are bound to the rows.  Hard: a synchronisation is dozens of statements without a
transaction, any of which may fail, while regions and the account are counted and deleted.
Correct when: a successful synchronisation mirrors the cloud and destroys nothing it should
keep, an account has one default region, and no resource is left under what is deleted.

**Monitoring configuration caches** (`internal/prometheus/cache`).  State: a hash per pool (by
name) and a configuration per instance in Redis, rows in MySQL.  Operations: refresh, batch save;
create, update, rename and delete pools and their parts.  Hard: failures between the writes,
overlapping refreshes, hashes kept under names and sets under ids, pools that are passed over.
Correct when: a stored hash implies that every instance has the configuration it stands for.

**Kubernetes clusters** (`internal/k8s/manager`, `internal/k8s/client`,
`internal/k8s/service/cluster_service.go`, `internal/cron/manager.go`).  State: a row per
cluster with its kubeconfig and status, and a map of clients in memory.  Operations: create,
update, delete and refresh a cluster, use its client, check all clusters on a timer,
initialise all at the start.  Interactions: every request on pods, nodes, deployments goes
through the map.  Hard: the client is looked up, built and stored in separate steps while
requests change the row; creation is rolled back by hand.  Correct when: a cached client is
one of the row's kubeconfig, and the status becomes what the client meets.

**Pod logs and terminals** (`pkg/sse`, `pkg/utils/terminal`,
`internal/k8s/service/pod_service.go`).  State: per connection, a bounded channel and three
goroutines, or a read-write lock, a heartbeat and two copiers per shell.  Hard: clients that
leave, pods that fall silent, shells that end with a copier still reading.  Correct when: a
client that stays gets every line, nobody uses a closed connection, the websocket has one
writer, and a connection whose client is gone ends.

**Serial numbers and creation** (`internal/workorder/dao/instance_dao.go`).  State: the
numbers in use.  Hard: the maximum of a string column, the gap between computing
and inserting.  Correct when: no two orders share a number and creation succeeds
while numbers are left.

**Audit middleware**, **sessions**, **roles**, **Kubernetes management**,
**notifications**, **streams**, **startup**: thin over external systems, or create /
read / update / delete of reference data.  `PROJECT.json` gives the reason for each.

## 2. The work order engine

### Modules and their correspondence to the code

`WorkorderProcess` has no state.  A definition is `[steps, connections]`, both lists
in order because the code takes the first match everywhere.  `findStepByStatus`,
`LocateStep` (the lookup and its fallback), `getNextStep`, `getStatusForStep`,
`canUserOperate`, `getActionsForStep` and `StatusAllows` (the guard at the head of
each handler) are the functions of `instance_service.go`; `ValidDefinition` is
what `ValidateProcessDefinition` accepts.

`WorkorderInstance` keeps

| variable | code |
|---|---|
| `process` | the row of `cl_workorder_process`: definition, published or not |
| `row[i]` | `cl_workorder_instance`: life (absent, live, soft-deleted), status, step, assignee, completed_at set or nil |
| `trail[i]` | the rows appended to flow, timeline and comment tables |
| `req[w]` | the locals of the handler goroutine `w` runs: where it is (`pc`), the row it loaded first and will write back (`snap`), the rows the permission check loaded (`seen`, `read`), the step found |
| `calls` | requests begun (bound) |

A handler is the path

    load -> permit -> locate -> resolve [-> backfill]
         [-> locate -> resolve [-> backfill]]      Approve looks again
         [-> plan] -> write [-> writeStatus] -> record

with one action per DAO call; all that the code computes between two calls belongs
to the earlier action.  `MergeNonZero` is GORM's `Updates(struct)`: a nil or zero
field of the struct is not written.  `WriteAssignee`/`WriteStatus` are Assign's two
statements.  `Record` is the tail of a handler: three inserts whose errors are only
logged and that nothing reads in between.  `Abort` is a failing call, a client that
goes away or a server that stops.  `UpdateProcess` is an edit of the process while
instances run.

A request that its guard turns away changes nothing and is no step.  `PrepareCreate`
asks that no other pending create uses the id its insert will produce: ids are
auto-increment.

`WorkorderLifecycle` says what the engine promises when requests do not overlap: one
step per operation over (status, step).  `RefinesLifecycle` maps `row` to it; reads,
planning and records are stutters, `Backfill` maps to `Fill`.

### Runs

All runs use one instance row, two users and one who was removed, and the two processes of
`MCWorkorderInstance`.  `mcLinear` is the ordinary start - approval - task - end, with
an approval step that lists extra actions and a user-restricted assignee;
`mcLoop` lists the end first, connects the approval back to the start, leaves the
task without a connection, has it name only the removed user, and lets a finished order offer
`submit`.  Together they reach every branch of the step functions.  `UserIds` are the ids that
definitions and requests name: neither `ValidateProcessDefinition` nor the handlers check that
there are such users, so they need not be `Operators`.  One row is enough for the safety
properties because no action reads one instance to write another; `calls` bounds a
behaviour to 3 to 6 requests, enough for an order to be created, submitted,
assigned, returned, submitted again and finished, or for handlers to overlap.
`CHECK_DEADLOCK FALSE` because behaviours end when the calls are used up.

| run | setting | shows |
|---|---|---|
| `workorder_serial` | one request at a time, six requests, nothing fails | `RefinesLifecycle`; `TrailExplainsStatus`: the flow records are a chain of legal moves ending in the stored status; `TerminalIsFinal`; `TypeOK` |
| `workorder_concurrent` | two overlapping requests, three in all, on an order created as a draft or pending; failing calls, edits of the process | `ClearedOnPurpose`, `DeletedIsFrozen`, `CompletedHasTime`, `AssignedBeforeProcessing`: what survives overlap; `StuckOnMissingUsersOnly`: an unfinished order has a user with an allowed action, unless its step names users and neither they nor the assignee exist |
| `workorder_cancel_race` | two overlapping requests | `FinishedNeverCancelled` is violated: the guard reads a stale status |
| `workorder_return` | one request at a time | `ReturnClearsAssignee` is violated: the comment at `instance_service.go:1561` says that a return clears the assignee, and `Updates` leaves the nil out |

No order is created or edited straight into Completed in these runs: `CreateInstance` stores no
completion time for one, so the properties about completion times would say nothing but that.
`TerminalIsFinal` is checked without failures and edits and proved with them.

`ClearedOnPurpose` lets a return clear the assignee and the approval that ends the flow clear the
step, as the comments of both say (`instance_service.go:1561`, `:696`); everything else must leave what is
stored, however old its copy of the row.  Neither of the two clears anything, in fact: an approval that
ends the flow keeps the step as a return keeps the assignee.

### Proofs (`WorkorderInstanceProofs`, `WorkorderSerialProofs`)

For any processes, users, instances and number of overlapping requests, from the
assumptions named in `WorkorderInstance` (definitions are valid, sentinels are not
values, parameters are typed):

* `CoreInvariant`: `Core` = `TypeOK` and, per request, `PhaseOK`.  `TypeOK` is not
  inductive by itself: that a write finds a typed row needs to know which operation is
  in which phase, that `resolve` and later phases hold a row that exists, that a
  pending insert owns its id, and that an assign has a target.
* `TypeCorrect`, `AssignKeepsOrder`: parts of `Core`.
* `OnlyThoseWhoMeanToClear` (`ClearedOnPurpose`), `DeletedStays`: from `NextKeepsRows`, a lemma per step on what it
  does to the rows.
* `CompletedIsStamped`: `CompletedHasTime` under any overlap, if no request creates or
  edits an order into Completed.  The row's own property is not inductive, since a
  request may write an old copy back: the invariant says it of the row **and** of every
  copy a request still holds.

* `StuckExactlyOnMissingUsers`: `StuckOnMissingUsersOnly`, if there is a user at all, for any ids that steps and
  requests name, existing or not.  No invariant beyond the types is needed: whatever step
  `LocateStep` falls back to, it offers `submit` for a draft and `cancel` for an open order, so somebody can act
  exactly if somebody can operate the step, and `WhoCanOperate` says when that is.

For one request at a time (`OneWorker`) more is true, and `WorkorderSerialProofs` proves it.
`InTurn` is the invariant under it: between its status guard and its last write a
request's row is live with the status that was checked.  It is stated of the row the
request *would find now*, since resolve, backfill and the second read all look again,
and it holds when calls fail and the process is edited.

* `StatusesAreFinal`: `TerminalIsFinal`, with failing calls and edits of the process.
* `FlowTellsStatus`: `TrailExplainsStatus`, if no call fails and updates leave the status
  alone.  `AllRecorded` adds to `InTurn` what the tail of a handler is about to append: the row has
  the target status already and the chain still ends in the source.  Both hypotheses are needed because the code
  needs them: the status is written before the record, and an update that sets the status
  records nothing.
* `ImplementsLifecycle`: `RefinesLifecycle`, if besides the process stays as it is.
  `AllFaithful` says of each phase that what a request will write is computed from the row and
  the definition of now; every read, plan and record is then a stutter, and the write is
  the lifecycle's step (`StatusWritesRefine`, one step per operation).  With an edit in
  between, the target of an approval is computed from a definition that is gone, which
  no single step of the lifecycle explains.

All safety properties of the runs of this section are theorems, except the violated one.

## 3. The cron jobs

### Modules and their correspondence to the code

| variable of `CronJob` | code |
|---|---|
| `row[j]` | `cl_cron_jobs`: life, status, is_built_in, job type system or not, the three counters |
| `entries`, `loaded` | entries registered with asynq's scheduler (memory); jobs a reload has read and not registered yet |
| `task[t]` | asynq's queue in Redis: absent, pending, active, retry, archived, and the retries used |
| `work[w]` | the goroutine of a worker: its place in `ProcessTask`, its task, what it will return |
| `admin[a]` | an API goroutine between its first call and its last |

A task is `<<job, kind>>`; the scheduler's has a fixed `TaskID` per job, so its kind is
`"schedule"`; a triggered one gets an id of its own.  `ProcessTask` is
`Load -> Mark -> Execute -> Restore -> Ack`: read and check the job, write Running, run
the command and write its result, write Enabled, return.  Errors of the three writes
are logged and the run goes on, as in the code.  `UpdateGet`/`UpdateSave` and
`DeleteGet`/`DeleteCheck`/`DeleteRow` are the reads and the write of update and delete;
`Saved` is GORM's `Save`: every column, zero ones included, and an insert that
overwrites when the row was soft-deleted meanwhile.

asynq is external and modelled from how the code uses it: delivery to a free worker,
refusal of a `TaskID` that is in the queue in any state, retry up to a bound and then
archive, a default time limit that cancels the context, and the recovery of active
tasks after a stop.  `MaxRetry` is asynq's default (25), because the job's own
`max_retry` is never handed to it; the runs use 1, and the proofs cover every value.
`Unregister("*")` and `Unregister("cron_job_N")` name no entry, so `entries` only grows
until a restart.  A run that exceeds the limit ends with its context: every executor
returns when it is cancelled, and the DAO calls after it fail.  What an SSH job may leave
running on the remote host after that is outside the model.

### Runs

One job, two workers, one API goroutine.  Overlap comes from the workers and the
task kinds, and no action touches two jobs.

| run | setting | shows |
|---|---|---|
| `cron_jobs` | two workers, one API goroutine, four events | `OneWorkerPerTask`, `RunningHasWorker`: a job shown as running is being run, while runs overlap and the API changes, disables or deletes it, unless its last run was cut off; `CountersAgree`, `RunEnds`: it does not stay running; `TasksSettle`, `TypeOK` |
| `cron_builtin` | | `BuiltinNeverDeleted` is violated: an update clears the flag the deletion checks |
| `cron_disable` | | `DisabledUntilEnabled` is violated: the end of a run enables the job again |

An event is anything a behaviour is given from outside: an entry that comes due, a request, a failing call, a
time limit, a restart.  Four (`MaxEvents`) are enough to create and trigger a job and have a scheduled run of it overlap
that one, disable, update or delete it meanwhile, or cut it off.  `stranded` is history: the jobs whose last run ended without
its restore being stored (a failing call, the time limit, a restart) and whose status nobody has written
since.  They may stay Running; that nothing else leaves a job so is what `RunningHasWorker` and `RunEnds` say.

**Fairness.**  Liveness is checked under `FairSpec`: weak fairness of `WorkerStep(w)`, a
goroutine that has begun goes on (the Go scheduler), and strong fairness of taking a
task, for each task: asynq serves its queue in the order tasks become due, so a task
is not passed over for ever by others.  Nothing makes a client call the API, an entry
fire, a fault happen or stop happening: `TasksSettle` holds because retries are bounded.
A lost restore leaves the job Running, and every later task skips it: `RunEnds` excepts the
`stranded` jobs, and the hazard is listed.

### Proofs (`CronJobProofs`)

For any jobs, workers, API goroutines, faults and restarts:

* `CoreInvariant`: `Core` is split into four parts with their own variables, `Table`,
  `Queue`, `Api` and `Rest`, and each has a lemma for `Next`.  `TypeOK` alone is not
  inductive: the write of a worker is typed because the task in its hands is a task
  (`Held`), which is a fact about `work` and `task` together.
* `TypeCorrect`, `TaskHasOneWorker`, `CountsAddUp`.  `OneWorkerPerTask` needs `Held`: a
  second worker cannot take a task because the first holding it keeps it active.
  `CountersAgree` needs the same sum of the counters every API goroutine has read.
* `RunningIsOwned`: `RunningHasWorker`, with failing calls, time limits and restarts, by naming
  the worker that wrote Running and showing that the end of an overlapping run of the same job
  shows it enabled or leaves it stranded, and of another job leaves it alone.

Only model-checked: `RunEnds` and `TasksSettle` (liveness).

## 4. The service tree

### Module and its correspondence to the code

| variable of `TreeNode` | code |
|---|---|
| `node[n]` | `cl_tree_node`: life, `parent_id` (`Root` is 0), `level`, `is_leaf` |
| `call[s]` | the locals of the handler goroutine `s` runs in `tree_node_dao.go` |
| `mode` | which kinds of requests overlap in this behaviour, and whether queries fail |
| `moved`, `requested` | history: below a moved node, and flags last written from a request |

Handlers are cut at their queries.  `CreateNode` reads its parent, then the parent's level,
inserts, and marks the parent; `UpdateNode` (also for `MoveNode`) checks the new parent,
walks to the root one row at a time, writes with a map, and puts both parents' flags right;
`DeleteNode` counts the children before its transaction, which is one step.  Which overlaps a
property survives is part of its statement (`Apart`), because no property of the tree
survives all of them: two moves close a cycle (on which the walk of the next move never ends), a
creation under a node being deleted leaves an orphan.

`Forest`, `NoOrphans` and `ColumnsAgree` (`LevelFollowsParent` and `LeafFlagAgrees`: a level is one more
than the parent's, a node without children is a leaf) are checked with three nodes, two
goroutines and four requests: two moves in opposite directions need two nodes, a walk past an
intermediate node three.  The levels of the descendants of a moved node stay what they were
(`moved`), and a request's own `is_leaf` is stored unchecked (`requested`): both are left out of
the properties because the code does not promise them.

### Proofs (`TreeNodeProofs`)

For any nodes, goroutines, modes and number of requests: `TreeTypeCorrect`, `TreeForest`,
`TreeNoOrphans`, `TreeLevels`, `TreeColumns`.  `TreeInv` adds to the types what each handler has found out and why it still
holds when it writes.  For `Forest` that is `Covered`: the walk of an update has covered a set of
nodes without the moved one, closed under parents up to the node it reads next; creates and
deletes cannot break such a set, another update could.  For `NoOrphans` it is that the
parent found by a create or an update is still there, and that a node found without children has
none.

For `ColumnsAgree` the two columns have an invariant each.  `LevelInv` says that a request about to
insert or write carries the level that belongs under the parent it carries; it does not mention
`level` of a moved node's descendants, which `moved` collects.  `LeafInv` says, place by place, what is
left to be put right: after an insert the new parent's flag, after a write both parents' flags, after
the count whether the old parent has children.  The flag is right between requests because no request
is left with something to do.

### The cloud accounts (`CloudSync`)

| variable of `CloudSync` | code |
|---|---|
| `account` | the status of a row of `cl_tree_cloud_account`, or deleted |
| `region[r]` | `cl_tree_cloud_account_region`: absent, live or soft-deleted, and `is_default` |
| `resource[i]`, `lastResource` | `cl_tree_cloud_resource`: life and instance; auto-increment |
| `request[c]` | the locals of the handler goroutine `c` runs in `SyncTreeCloudResource` or in the services of regions and accounts |
| `cloudMode` | which kinds of requests overlap in this behaviour, whether statements fail, how many requests |

A synchronisation is `Fetch [-> ListExisting -> DeleteMissing*] -> (LookUp -> Save)*` per region, then
`ReportSync`.  `Onward` says what is left to do in the region at hand and then in the next.  What the cloud
answers is any set of instances of the region, also when the request names instances.  A region that
cannot be fetched or listed is logged and skipped, a row that cannot be written is counted.  Regions move the default flag in two
statements (`ClearDefault`, then `InsertRegions` or `SetDefault`); deleting a default one picks another
(`PickDefault`).  Deletions count first (`CountResources`, `DeleteAccount`) and remove later.

The run `full_sync` shows `FullSyncRecreates` violated: a comment says that a full synchronisation deletes all ECS
resources of the region and creates them anew (`tree_cloud_service.go:516`); the rows of instances that the cloud still reports are kept.
The comment is what is wrong: `SyncMirrors` and `CloudMirrors` are about the code.

`OneDefault` holds if requests on regions do not overlap, whichever statement fails.  `NoStrayResource` holds
if synchronisations overlap neither changes of regions nor the deletion of the account.  `SyncMirrors` says of a
synchronisation that is about to report success that there is exactly one row for every instance it fetched, that a full one
left no other, and that every row that was there before is still there unless a full synchronisation missed it.
One region with two instances and one with one let a region be skipped while another is done, and two rows of one
region be at different places; two requests overlap, three come one after another.

`CloudSyncProofs` proves `CloudTypeCorrect`, `CloudOneDefault` and `CloudNoStray` for any regions, instances,
goroutines, modes and bounds.  `BusyInv` adds to the types which request a place of a handler belongs to
(`KindInv`) and that two busy goroutines may overlap (`OverlapInv`); from it follows that the goroutine at hand is the
only one of its kind.  `DefaultInv` adds that an insertion of a new default finds none, and that a region about to
become the default has no rival.  `StrayInv` adds that a synchronisation holds only regions that are there and that
what is about to be removed has no resource.

`CloudMirrors` is `SyncMirrors`.  `MirrorInv` follows one synchronisation through its regions: of each region
that is done it keeps that the rows match what was fetched (`DoneOK`), and of the region at hand what is
still missing (`items`), still too much (`gone`), and which rows were there before (`HeldOK`).  What was fetched and
done before stays true because nobody else writes rows meanwhile; what the cloud answers is never
assumed to be the same twice.

Observed, and kept out of the properties: two overlapping synchronisations look up the same instance and both create it;
a request that names instances and is full deletes the rows of the others; when a region cannot be fetched the
history still says success; a region that was deleted cannot be created again, because the unique index counts
soft-deleted rows, and the attempt has cleared the old default by then; a synchronisation sets port and user name of
a row back to 22 and root.

## 5. Kubernetes clusters

| variable of `ClusterClients` | code |
|---|---|
| `cluster[c]`, `lastCluster` | `cl_k8s_clusters`: kubeconfig and status; auto-increment |
| `clients[c]` | the map of `client.go`: the kubeconfig the cached client was built from |
| `answering` | kubeconfigs whose API server answers (outside) |
| `job[s]` | the locals of a request, or of the check of one cluster |

`GetKubeClient` is `LookUpClient -> ReadCluster -> StoreClient`: a look under the read lock, a
query, and a store under the write lock.  Create, update, delete, refresh and use of a cluster,
`CheckRound` (the periodic check, a goroutine per cluster of one list) and `RestartAndInitialize`
(the map is empty and filled for every row before requests are served) all go through it.
`DeleteRow` is also the hand-made rollback of a creation.  The clients built beside the kube client
(metrics, dynamic, CRD) succeed and fail with it.

`ClientIsCurrent` is stated between requests that do not overlap, with failing statements and
restarts; under overlap the code stores a client of the old kubeconfig, or of a deleted cluster, and
then serves it to everybody.  `StatusSettles` (liveness) covers overlap as well: once requests and
outages end, every status becomes what the cluster's client meets, stale or not, although create
and update write "running" without asking the cluster, and the check compares with the status it
listed.  Modes: two clusters with one handler, and one cluster with two handlers; three requests,
one outage, one failing statement, one restart.  Fairness: the loop of `manager.go` comes round every
`K8sCheckInterval`, and started goroutines go on (`ClusterStep`).

### Proofs (`ResourcesProofs`)

For any kubeconfigs, requests, handlers and bounds, from `ClusterSafety` (the specification without its
fairness): `ClusterTypeCorrect` and `ClientsCurrent`, which is `ClientIsCurrent`.  `ShapeInv` is the types, that ids not given yet
have neither row nor client, and what a job can be at each of its places.  `TurnInv` is for requests and checks
that take turns: a handler in its request is alone (the checks of one round are of different clusters, so
they may run side by side), each place of a job knows that what it read still holds, and each client is
the row's except between the write and the removal of an update (`BeingReplaced`).  The property alone is not inductive
exactly because of that pair of statements.  `NoClusterAssumption` names the zero row apart from
any cluster.

## 6. Streams of pod logs and terminals

### `LogStream`

One request of `GetPodLogs`: a producer reads lines and sends messages into a channel of capacity
one, the request goroutine (`Stream` of `pkg/sse/stream.go`) writes them to the client, a monitor
waits for the end of the client or of the context.  `producer`, `streamer` and `monitoring` are the
places of the three goroutines, `cancelled` is `cancelCtx`.  The log of the pod is read under gin's
context, which the client's departure does not cancel (`ContextWithFallback` is not set), and through a
client whose `config.Timeout` of ten seconds ends every followed log early: `LogStops`.

`DeliveredInFull`: a stream that stops under a client that is still there has handed over everything that was
read, and read everything unless the log broke.  `OnlyProducerHolds` (liveness): when the client is
gone the request returns, except where the producer is held, in a send into a full channel or in a read of a
silent pod.  The run `log_stream` shows what a comment promises and the code does not keep (`EndedLogEndsRequest`): a log that
is not followed is read to its end, and the request waits for its monitor, which waits for the client to leave or for
the `cancel` that is deferred until after `wg.Wait`.  A followed log is polled on after its pod has ended; that is not what the run shows.

`StreamProofs` proves, for any capacity, retries and log, `LogInvariant` (where every message made
is, as long as the client is there; who may have cancelled), `StreamDelivers`, and `AbandonedForever`: a
producer in a full channel that the request goroutine has left is held until the process ends.

### `PodTerminal`

One websocket to a pod (`pkg/utils/terminal/terminal.go`): the session goroutine tries the shells of a list, each
shell gets an input and an output copier, a heartbeat pings.  All enter the connection under the read lock
and look at `closed` again under it; `Close` sets `closed` and takes the write lock.  `session`, `input[k]`,
`output[k]` and `beat` are the places of the goroutines; "inside" means holding the read lock.  Go's RWMutex
admits no new reader once a writer waits (`MayEnter`): that is where the deadlock comes from.  A pong is
handled inside a read and takes the read lock a second time.

`NobodyAfterClose` and `OneWriter` (gorilla's websocket allows one writer, and the writers hold only a read
lock) are invariants; `SessionEnds` (liveness) says that a session whose client is gone or that is being closed ends,
unless a pong holds it (`PongHeld`).  `StreamProofs` proves `TerminalInvariant`, `ClosedIsLeft`,
`WritersTakeTurns`, for any number of shells and messages, and `HeldForever`: once held, no message,
deadline or heartbeat frees it.  The strengthening is `OutputInv`: only the last shell
started can have an output copier, and none while another is started or an error is written.

What the code does and no property rules out: the input copier of a shell that failed goes on reading and
takes the next keystroke; `Next` does not wait for a size, so that client-go stops asking and later sizes are lost;
a shell left with `exit 1` starts the next one of the list; `Close` waits up to the read deadline of
30 seconds for a blocked read; the channel of sizes stays open when it holds one.

Bounds: two lines of at most two messages fill the channel of one, with one more in the producer's hands;
two shells and two client messages let the copier of the first meet the second.  Fairness: goroutines that
can go on do; the read deadline passes when no pong moves it any more.  Pods, shells and clients owe nothing.

## 7. Alerts

| variable of `AlertEvent` | code |
|---|---|
| `outgoing` | Alertmanager: the message being delivered, and how far |
| `queue` | the channel between receiver and consumer |
| `warm` | the four caches of the webhook know the send group, its user and the rule |
| `task[t]` | goroutines: one per alert, one per operator's request |
| `event[f]` | the row of `cl_monitor_alert_events` of a fingerprint |
| `silence[i]` | Alertmanager's silences |
| `lastStatus`, `untouched` | history |

A message is enqueued alert by alert.  A full queue ends the request, and the rest of the message is lost: the
answer says "try again later", but `ErrorWithMessage` sends it with HTTP status 200 (`pkg/utils/apiresponse.go:109`), which
counts as delivered.  `HandleAlert` is `Find -> Store -> Read -> Card -> Escalate`; the links of the card run
`MonitorAlertSilence` and `MonitorAlertUnSilence`; the API claims.  Every writer uses `Updates` of a struct
read earlier (`Updates` leaves zero columns alone).  Faults are failing calls, cold caches and restarts,
which lose the queue and the goroutines; a duty group that is gone panics (`CardPanics`).

| property | says |
|---|---|
| `EventFollowsAlerts` | one at a time and without operators, an event ends in the status of the last alert the queue accepted; what a full queue refused leaves no trace |
| `LastSilenceLiftable` | without overlap, a silence nothing came after can be lifted from the card |
| `SilencedHasSilence`, `ClaimantKept` | whatever overlaps, fails and restarts: a silenced row names a silence of its own alert, a claimed one stays claimed |
| `AcceptedIsRecorded` | liveness: a queued alert gets its event, also when two goroutines create it |

`MonitoringProofs` proves `EventTypeCorrect`, `EventSilenced` and `EventClaimantKept` for any fingerprints, users,
goroutines, queue size and messages.  `EventInv` says of the stored rows **and of every copy a goroutine holds**
that a silenced row names its own silence, because any copy may be written back later.

`EventsFollowAlerts` and `SilencesCanBeLifted` are `EventFollowsAlerts` and `LastSilenceLiftable`.  `FollowInv` says, for
each fingerprint, where its last accepted alert is: the last of its kind in the queue, or in the hands of the one busy
goroutine, or in the row.  `LiftInv` says that ids of silences are given in order, so that the latest silence of an event is its largest,
and that the operator between posting a silence and writing the row carries just that one.

Observed, and kept out of the properties: an alert in flight overwrites "silenced", after which the silence cannot be
lifted from the card; two silences followed by one lifting leave the first active; a silence that expired makes
the lifting fail, and the event stays silenced; a claim does not stop the escalation, whose check
reads a status that the same alert has overwritten; the alerts of a message the queue has no room for
are lost, the resolved ones for good; silencing and unsilencing through the management API fail before they change
anything (`poolDao` is never set).

## 8. The on-duty rota

`OnDuty`: `group`, `employed`, `history`, `change` are the tables, `fill[g]` the goroutine that
fills today's row (the manager's loop, one in each server process; the built-in job of that name is a stub), cut at `Look -> Decide -> CheckRow -> WriteRow`; the clock is read in the first two.  Three codes
compute who is on duty: the filling from yesterday's row and a count of rows, `Plan` of the API by index and remainder,
`PagedToday` of the webhook by today's row.

`RotaIsRoundRobin` compares the filling with the reference definition (each member for `shiftDays` days in order);
`RotaCodesAgree` the plan with the filling (`PlanComesTrue`) and the API with the webhook (`ShownIsPaged`), under
edits, gaps and overlap;
`OneRowADay`; `ChangeIsApplied` (liveness): a substitution for today is filled in although the day has its row.  Nine days,
rosters of two and three, shifts of one to three days: the rotation comes round at least once for every pair.  Fairness: the
manager's loop fills again and again (`DutyStep`).

Observed: seen from the middle of a shift the plan is off by the days already served; a substitution shifts the
rota for good, since the next day goes on after the substitute; a missed day starts again with the first member.

### Proofs (`MonitoringProofs`, the rota)

For any members, rosters, shift lengths and number of days.  `DutyTypeCorrect` from `DutyTyped`: a filling never
dates ahead of today and has members and a user where it needs them.  `OneRow` from `RowInv`: what the check saw
still holds when the row is written, since only fillings write rows.

`RoundRobin` and `CodesAgree` are about arithmetic.  `RotaInv` says that each of the days before today has
exactly the row of its `Turn`, the reference definition, and a filling past its look carries today's.  The step
that keeps it is `ChosenIsTurn`: yesterday's person and a count of rows give the turn of today.  On the first day of a shift
(`ShiftIsOver`) the last `shiftDays` days are all his, so the count reaches `shiftDays`; on any other day
(`ShiftGoesOn`) the earliest of them was somebody else's, or lies before the first day, unless there is only one
member and both answers are the same.  `RowsAreDays` turns the count of rows into a count of days.  `PlanCounts`
shows that the remainder the plan computes is the turn, whatever quotients and remainders the division gives (`Division`,
`DivisionIsUnique`).  `EmployedMembers` and `AllServe`: leaving out deleted users keeps a roster a sequence of
members, and leaves it alone when there are none.

`RostersAssumption` says that a roster names nobody twice: `CreateMonitorOnDutyGroup` and the update look the users up by
their ids, which finds each once, and refuse a list whose length differs (`onduty_service.go:125-133`, `190-199`).

## 9. The configuration caches

| variable of `ConfigCache` | code |
|---|---|
| `pool[p]`, `lastId` | the table of pools, by name: id, instances, the fields a configuration depends on |
| `parts[i]` | the tables of jobs, rules and send groups: those of pool `i`; some exist without a pool |
| `served[ip]`, `members[i]`, `hash[p]` | Redis: configurations by instance, sets of instances by pool id, hashes by pool name |
| `saved[ip]` | the table of configurations |
| `refresh[r]` | the goroutines that refresh: their step, the pools they have read, what they will save |
| `torn`, `contested`, `reused` | history |

A refresh is cut at `CheckPool -> GeneratePool -> StorePool -> StoreHash`, then `BatchSaveConfigs` as
`Lookup -> CreateRows -> UpdateRows`.  The four caches are one algorithm with three variants (`cache` of the mode):

| | hash covers | passed over | gets a configuration |
|---|---|---|---|
| `main` (Prometheus, Alertmanager) | the pool's fields | a pool without instances, with fields `CreateBaseConfig` refuses, without parts | every instance |
| `rules` (alert rules) | the pool's fields | not listed: no `support_alert`; without instances or rules | the instances that rules are dealt to (`Allotted`) |
| `records` (record rules) | the instances and the rules | not listed: no `support_record`; without instances | every instance |

`UpdatePool` is all of `UpdateMonitorScrapePool`: it renames, and checks neither fields nor that there are instances
(`Unfit` are the values of the fields that a refresh refuses or leaves out).

`StoresAgree` is `HashTellsTruth` (a pool the next refresh skips is served what one generation of it gives) and `SavedIsServed`
(table and Redis agree); `EventuallyServed` is liveness.  They hold for refreshes that do not overlap and do not fail, and
not of three things, each of which is a state the code reaches and a hazard names:

* instances moved between pools around a refresh (`contested`): the cleanup of the old pool may come last;
* pools whose rules changed between the two reads of a refresh (`torn`);
* names used before (`reused`), until their hash is stored anew.  Hashes are kept by name and never removed, so a pool
  renamed, changed, generated and renamed back is skipped on its first hash, while its instances serve what the other name
  gave them; so is a pool that takes the name of another.

A pool with invalid fields, or no instances, keeps what it had until an update mends it; `EventuallyServed` speaks of the pools a
refresh generates (`Generated`).  The run `config_jobs` shows `PartsAreServed` violated: the hash of scrape pools leaves
their jobs out.  The keys of a deleted pool stay served.

Observed beside it: the alert rule's check of its pool asks the table of Alertmanager pools for the id of a
scrape pool (`rule_service.go:113`), so rules exist whose pool does not.

Bounds: two pools, two instances, three values of the fields of which one is invalid, two contents of the parts, of
which one reaches one instance only, two ids: a pool can be renamed to a free name and back, changed in between and invalid
in between, and an instance handed from one to the other.  Up to four changes of pools and parts, at any step of a
refresh.  Fairness: the timer of the manager begins refreshes for ever, and a refresh goes on (`ConfigStep`).

### Proofs (`MonitoringProofs`, the caches)

For any pools, instances, values of the fields, ways of dealing out rules and refreshes: `ConfigTypeCorrect` and
`StoresTellOneStory`, which is `StoresAgree`.  The invariant has three layers.  `CacheTyped` is the types.  `HolderInv` adds
that ids of pools are given in order and that an instance belongs to one pool at a time, in the table of pools, in Redis and in
what a refresh has read (`OneHolder`: the address check of the services), except the contested ones.  `OrderlyInv` adds, for
refreshes that neither overlap nor fail:

* `HashTrue`: for every listed pool whose name is not `reused`, its hash is of *some* row the pool had and *some* parts
  (`MadeOf`): its members are the share of that row, and they are served its configuration.  It is not said that the row is
  the present one: the fields may have changed since, be invalid, or come back; that is why the hash
  is compared, and `TrueHashServes` shows that an equal hash makes the configurations equal.  The pool being stored is left out
  (`Storing`), and `StoreTrue` says what the refresh carries instead.
* `NamesKnown`: what a refresh has read under a name is the pool that has it now, unless the name is `reused` or it has no
  hash.  This is what makes storing a hash under a name safe.
* `SaveTrue`, `RowsTrue`: `save`, `create` and `update` carry just what is missing between Redis and the table.

A change of a pool is one lemma (`ChangesKeepStores`): creation, update under either name and deletion all are a `Moved` row.

### The two sum instances

`MCResources` (tree, cloud accounts, clusters, log, terminal) and `MCMonitoring` (events, rota, caches) check components that share no variable.
A behaviour picks one (`part`) and the others rest in one initial state, so the state space is the sum of
theirs and not the product; each module's fairness is stated for its moves.  The modes (overlap, faults,
bounds) are picked in the initial state as well: each is as large as its question needs.

| run | shows |
|---|---|
| `resources` | the invariants of sections 4 to 6, `StatusSettles`, and `StreamsLetGo` (`OnlyProducerHolds` and `SessionEnds`) |
| `monitoring` | the invariants of sections 7 to 9, `ClaimantKept`, `AcceptedIsRecorded`, `ChangeIsApplied`, `EventuallyServed` |
| `full_sync` | `FullSyncRecreates` is violated |
| `log_stream` | `EndedLogEndsRequest` is violated |
| `config_jobs` | `PartsAreServed` is violated |

`ResourcesCompose` and `MonitoringComposes` prove what this rests on: a behaviour of the sum is a behaviour of each
component (`ResourcesSpec => TreeSpec /\ CloudSpec /\ ...`), for any values of the constants, so every theorem about
a component is one about the sum.  `ResourcesTypeCorrect` and `MonitoringTypeCorrect` follow.  Fairness is left out of it:
`ClusterSafety`, `LogSafety` and `TerminalSafety` are the specifications without it, the theorems of these components
are stated from them, and `ClusterSpec`, `LogSpec` and `TerminalSpec` add it.

`CHECK_DEADLOCK FALSE`: behaviours end when their requests are used up, and a finished stream has nothing left to do.

## 10. What is left out

Work orders: titles, form data, serial numbers, notifications, user comments, creation and deletion
of processes and templates, listings. Serial numbers only refuse creations, and a refused creation
leaves no state behind. Observed in `GenerateSerialNumber`: two creations that overlap compute the
same number, and the second insert fails; after WO..9999 the maximum of the strings no longer grows,
and creations fail once the hundred numbers tried after it are taken; the same happens when the last
hundred and one orders of a day have been deleted, since the maximum leaves deleted rows out and the
check of a number does not; on a day without orders the maximum is NULL, which database/sql does not
scan into a Go string, so that the branch that starts at one is not reached.

Cron: names and their uniqueness, validation of schedules, what a command does, the clock (an entry
fires at any moment), the retry counters of the manager's loops, forced re-initialisation of
built-in jobs. A job's `max_retry` is never handed to asynq. The remote command an SSH run leaves
behind after its time is up is on another host.

Cloud accounts: what a row contains, change logs, bindings to nodes, which regions are enabled,
local resources, SSH.

Not modelled, each with its reason in `PROJECT.json`: Kubernetes resources (forwarded requests),
sessions, roles, notifications, audit, robot tokens, startup: they are thin over external systems or
create, read, update and delete of reference data. The SSH terminals share one client between users
(`pkg/di/wire_gen.go`): a connection made in between decides where the next terminal opens.

Left to TLC, because the prover has no rule for fairness and ENABLED: the liveness properties `RunEnds`,
`TasksSettle`, `StatusSettles`, `StreamsLetGo`, `AcceptedIsRecorded`, `ChangeIsApplied` and `EventuallyServed`.  Every
safety property of every passing run is a theorem, under the hypotheses the theorem names.

Two things shape the proofs.  The library's induction theorems take an operator as a parameter, which the installed
provers cannot instantiate; where induction on the natural numbers is needed (the rota), it is done with
`LeastElement` and `InductionOnSets`, which speak of sets and follow from `NatLessThanWellFounded`.  And definitions by
`SelectSeq` cannot be unfolded, so that `EmployedAmong`, the filter of deleted users, is a recursive function, whose
value on each index the proofs obtain from the one before.

Mutants: for every property of a passing run `PROJECT.json` names a mutant, a definition written the
way a plausible mistake would (a dropped filter, a missing reset, an early return), that the run's
own configuration must find. They stand next to the definition they mutate, marked `mutant`.

## 11. Plan

1. The audit middleware (bounded channel, batches, drain at shutdown), the retry of notifications and the shared SSH
   client of tree terminals; then the chains of the remaining services, as far as they have a state of their own.
2. For the cron jobs, the invariant behind `TasksSettle` (a task in retry has retries left) as a theorem; for each liveness
   property, the safety half of its argument: a measure no step increases.
3. What overlap leaves of the properties proved for turns: which rows two overlapping synchronisations can leave, and
   how long a stale client can be served.
4. Serial numbers composed with `WorkorderInstance!PrepareCreate`, once it is settled what the first creation of a
   day does (section 10).
