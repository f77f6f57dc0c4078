---- MODULE CronJob ----
(***************************************************************************)
(* Cron jobs: the admin handlers over cl_cron_jobs, the scheduler that      *)
(* registers enabled jobs, the queue (asynq, external) and the workers that *)
(* run ProcessTask.  Handlers and workers are cut at their DAO calls; no    *)
(* transaction or lock spans two of them.                                   *)
(*                                                                         *)
(*   scheduler   load the enabled jobs -> register each -> (fires later)    *)
(*   worker      take -> load -> mark -> execute/record -> restore -> ack   *)
(*   Update      get -> save        Delete   get -> get -> delete           *)
(*   Trigger     get -> enqueue     Create, Enable, Disable   one statement *)
(*                                                                         *)
(* A task is <<job, kind>>: "schedule" for the one whose TaskID the         *)
(* scheduler fixes, a trigger id for those an admin enqueues.               *)
(***************************************************************************)
EXTENDS Integers

CONSTANTS
  Jobs,
  Builtin,      \* the jobs the program itself creates when it first starts
  Workers,      \* asynq's concurrent workers
  Admins,       \* goroutines serving the API
  Triggers,     \* ids of tasks enqueued by hand
  MaxRetry,     \* retries of a task (asynq's default: no option sets another)
  MaxEvents,    \* bound on what a behaviour is given from outside: entries that
                \* come due, requests, failing calls, time limits, restarts
  NoTask, NoJob

ASSUME RetryAssumption == MaxRetry \in Nat
ASSUME BuiltinAssumption == Builtin \subseteq Jobs

Kinds == {"schedule"} \cup Triggers
Tasks == Jobs \X Kinds

\* Zero is what Save stores for a status nobody set.
Statuses == {"Zero", "Enabled", "Disabled", "Running"}

VARIABLES
  row,       \* the table
  entries,   \* jobs with at least one entry in asynq's scheduler (memory)
  loaded,    \* jobs loadAndScheduleJobs has read and not registered yet
  task,      \* the queue (Redis, survives a restart)
  work,      \* each worker's goroutine
  admin,     \* each API goroutine
  stranded,  \* history: jobs whose last run ended without its restore being
             \* stored, and whose status nobody has written since
  events     \* how many of those there were

vars == <<row, entries, loaded, task, work, admin, stranded, events>>

Live(j) == row[j].life = "live"
Enabled(j) == Live(j) /\ row[j].status = "Enabled"

\* One more event from outside, if the bound allows it; a DAO call that is done,
\* or fails.
Event == events < MaxEvents /\ events' = events + 1

Done(ok) == IF ok THEN UNCHANGED events ELSE Event

NoRuns == [runs |-> 0, successes |-> 0, failures |-> 0]

NoRow == [life |-> "absent", status |-> "Zero", builtIn |-> FALSE, system |-> FALSE,
          count |-> NoRuns]

NewRow(builtIn, system) ==
  [life |-> "live", status |-> "Enabled", builtIn |-> builtIn, system |-> system,
   count |-> NoRuns]

NoTaskState == [state |-> "absent", retried |-> 0]
Free == [pc |-> "idle", task |-> NoTask, ok |-> TRUE]
NoCall == [pc |-> "idle", job |-> NoJob, seen |-> NoRuns]

\* After InitializeBuiltinTasks has run on an empty database.
Init ==
  /\ row = [j \in Jobs |-> IF j \in Builtin THEN NewRow(TRUE, TRUE) ELSE NoRow]
  /\ entries = {} /\ loaded = {} /\ stranded = {}
  /\ task = [t \in Tasks |-> NoTaskState]
  /\ work = [w \in Workers |-> Free]
  /\ admin = [a \in Admins |-> NoCall]
  /\ events = 0

\* dao.UpdateCronJobStatus: a map update, filtered by the soft delete only.
StatusWrite(j, status) ==
  /\ row' = [row EXCEPT ![j].status = IF Live(j) THEN status ELSE @]
  /\ stranded' = stranded \ {j}

(***************************************************************************)
(* The scheduler.  Unregister("*") before the registrations, and            *)
(* Unregister("cron_job_N") in DeleteCronJob, name no entry: asynq's entry  *)
(* ids are its own.  So entries only grow until the process stops.          *)
(***************************************************************************)
LoadEnabled ==
  /\ loaded = {}
  /\ loaded' = {j \in Jobs : Enabled(j) /\ ~row[j].system}
  /\ loaded' # {}
  /\ UNCHANGED <<row, entries, task, work, admin, events, stranded>>

Register(j) ==
  /\ j \in loaded
  /\ loaded' = loaded \ {j}
  /\ entries' = entries \cup {j}
  /\ UNCHANGED <<row, task, work, admin, events, stranded>>

\* An entry comes due.  The task has a fixed TaskID: while one is in the
\* queue, in whatever state, another is refused.
FireWithoutTaskID(j) ==   \* mutant: the task is enqueued whatever the queue holds
  /\ j \in entries /\ Event
  /\ task' = [task EXCEPT ![<<j, "schedule">>] = [state |-> "pending", retried |-> 0]]
  /\ UNCHANGED <<row, entries, loaded, work, admin, stranded>>

Fire(j) ==
  /\ j \in entries /\ Event
  /\ task[<<j, "schedule">>].state = "absent"
  /\ task' = [task EXCEPT ![<<j, "schedule">>].state = "pending"]
  /\ UNCHANGED <<row, entries, loaded, work, admin, stranded>>

(***************************************************************************)
(* A worker: asynq's delivery around ProcessTask.                           *)
(***************************************************************************)
\* The workers between the write of Running and the restore.
InRun == {w \in Workers : work[w].pc \in {"execute", "restore"}}

Take(w, t) ==
  /\ work[w].pc = "idle" /\ task[t].state \in {"pending", "retry"}
  /\ task' = [task EXCEPT ![t].state = "active"]
  /\ work' = [work EXCEPT ![w] = [pc |-> "load", task |-> t, ok |-> TRUE]]
  /\ UNCHANGED <<row, entries, loaded, admin, events, stranded>>

\* The goroutine goes on to its next call; ok is what ProcessTask will return.
Go(w, pc, ok) == work' = [work EXCEPT ![w] = [pc |-> pc, task |-> @.task, ok |-> ok]]

LoadWaits(w) ==   \* mutant: the worker waits for the job to be enabled
  /\ work[w].pc = "load" /\ Enabled(work[w].task[1])
  /\ Go(w, "mark", TRUE)
  /\ UNCHANGED <<row, entries, loaded, task, admin, events, stranded>>

\* A job that is gone or not enabled: the task succeeds without a run.
Load(w) ==
  /\ work[w].pc = "load"
  /\ \E read \in BOOLEAN :
       /\ Done(read)
       /\ Go(w, IF read /\ Enabled(work[w].task[1]) THEN "mark" ELSE "ack", read)
  /\ UNCHANGED <<row, entries, loaded, task, admin, stranded>>

\* The run goes on when the status could not be written.
Mark(w) ==
  /\ work[w].pc = "mark"
  /\ \E stored \in BOOLEAN :
       /\ Done(stored)
       /\ IF stored THEN StatusWrite(work[w].task[1], "Running") ELSE UNCHANGED <<row, stranded>>
  /\ Go(w, "execute", TRUE)
  /\ UNCHANGED <<entries, loaded, task, admin>>

CountedSuccesses(c, ok) ==   \* mutant: run_count moves with success_count only
  [runs |-> c.runs + (IF ok THEN 1 ELSE 0), successes |-> c.successes + (IF ok THEN 1 ELSE 0),
   failures |-> c.failures + (IF ok THEN 0 ELSE 1)]

Counted(c, ok) ==
  [runs |-> c.runs + 1, successes |-> c.successes + (IF ok THEN 1 ELSE 0),
   failures |-> c.failures + (IF ok THEN 0 ELSE 1)]

\* Mutant: a failed run returns its error before the status is restored.
ExecuteReturnsEarly(w) ==
  LET j == work[w].task[1] IN
  /\ work[w].pc = "execute"
  /\ \E ok \in BOOLEAN, stored \in BOOLEAN :
       /\ Done(stored)
       /\ row' = IF stored /\ Live(j) THEN [row EXCEPT ![j].count = Counted(@, ok)] ELSE row
       /\ Go(w, IF ok THEN "restore" ELSE "ack", ok)
  /\ UNCHANGED <<entries, loaded, task, admin, stranded>>

\* The job's command, and UpdateCronJobRunInfo with its result.
Execute(w) ==
  LET j == work[w].task[1] IN
  /\ work[w].pc = "execute"
  /\ \E ok \in BOOLEAN, stored \in BOOLEAN :
       /\ Done(stored)
       /\ row' = IF stored /\ Live(j) THEN [row EXCEPT ![j].count = Counted(@, ok)] ELSE row
       /\ Go(w, "restore", ok)
  /\ UNCHANGED <<entries, loaded, task, admin, stranded>>

\* A restore that fails is only logged: the job stays as it is.
Restore(w) ==
  LET j == work[w].task[1] IN
  /\ work[w].pc = "restore"
  /\ \E stored \in BOOLEAN :
       /\ Done(stored)
       /\ IF stored THEN StatusWrite(j, "Enabled")
          ELSE stranded' = stranded \cup {j} /\ UNCHANGED row
  /\ Go(w, "ack", work[w].ok)
  /\ UNCHANGED <<entries, loaded, task, admin>>

\* What becomes of a task that was not done.
FailedOnceMore(s) ==   \* mutant: one retry more
  IF s.retried <= MaxRetry THEN [state |-> "retry", retried |-> s.retried + 1]
  ELSE [s EXCEPT !.state = "archived"]

Failed(s) ==
  IF s.retried < MaxRetry THEN [state |-> "retry", retried |-> s.retried + 1]
  ELSE [s EXCEPT !.state = "archived"]

\* ProcessTask has returned.
Ack(w) ==
  /\ work[w].pc = "ack"
  /\ task' = [task EXCEPT ![work[w].task] = IF work[w].ok THEN NoTaskState ELSE Failed(@)]
  /\ work' = [work EXCEPT ![w] = Free]
  /\ UNCHANGED <<row, entries, loaded, admin, events, stranded>>

\* A run outlives asynq's time limit: the context is cancelled, the task goes
\* back to the queue, and the calls the handler still makes all fail.
Timeout(w) ==
  /\ Event
  /\ work[w].pc \in {"load", "mark", "execute", "restore"}
  /\ stranded' = IF w \in InRun THEN stranded \cup {work[w].task[1]} ELSE stranded
  /\ task' = [task EXCEPT ![work[w].task] = Failed(@)]
  /\ work' = [work EXCEPT ![w] = Free]
  /\ UNCHANGED <<row, entries, loaded, admin>>

(***************************************************************************)
(* The API handlers.                                                        *)
(***************************************************************************)
\* An API goroutine accepts a request and makes its first call.
Accept(a, pc, j) ==
  /\ admin[a].pc = "idle" /\ Event
  /\ admin' = [admin EXCEPT ![a] = [pc |-> pc, job |-> j, seen |-> row[j].count]]

Answer(a) == admin' = [admin EXCEPT ![a] = NoCall]

\* A handler that is one statement.
OneStatement ==
  /\ Event
  /\ UNCHANGED <<entries, loaded, task, work, admin>>

CreateCronJob(j) ==
  /\ row[j].life = "absent"
  /\ \E system \in BOOLEAN : row' = [row EXCEPT ![j] = NewRow(FALSE, system)]
  /\ UNCHANGED stranded
  /\ OneStatement

EnableCronJob(j) ==
  /\ row[j].life # "absent"
  /\ StatusWrite(j, "Enabled")
  /\ OneStatement

DisableCronJob(j) ==
  /\ row[j].life # "absent"
  /\ StatusWrite(j, "Disabled")
  /\ OneStatement

UpdateGet(a, j) ==
  /\ Live(j) /\ Accept(a, "save", j)
  /\ UNCHANGED <<row, entries, loaded, task, work, stranded>>

\* Save of a new struct: the counters are those read before, everything the
\* request does not carry is zero.  When the row was deleted in between, Save
\* updates nothing and turns into an insert that overwrites it: the zero
\* status then becomes the column's default.
Saved(j, seen, system) ==
  [life |-> "live", status |-> IF Live(j) THEN "Zero" ELSE "Enabled",
   builtIn |-> FALSE, system |-> system, count |-> seen]

UpdateSave(a) ==
  LET j == admin[a].job IN
  /\ admin[a].pc = "save"
  /\ \E system \in BOOLEAN : row' = [row EXCEPT ![j] = Saved(j, admin[a].seen, system)]
  /\ stranded' = stranded \ {j}
  /\ Answer(a)
  /\ UNCHANGED <<entries, loaded, task, work, events>>

\* The service looks the job up, then the DAO does.
DeleteGet(a, j) ==
  /\ Live(j) /\ ~row[j].builtIn /\ Accept(a, "check", j)
  /\ UNCHANGED <<row, entries, loaded, task, work, stranded>>

Deletable(r) == r.life = "live" /\ ~r.builtIn /\ r.status # "Running"

DeleteCheck(a) ==
  /\ admin[a].pc = "check"
  /\ admin' = [admin EXCEPT ![a] = IF Deletable(row[@.job])
                                   THEN [@ EXCEPT !.pc = "delete"] ELSE NoCall]
  /\ UNCHANGED <<row, entries, loaded, task, work, events, stranded>>

\* The row goes; the scheduler's entry stays (see LoadEnabled).
DeleteRow(a) ==
  LET j == admin[a].job IN
  /\ admin[a].pc = "delete"
  /\ row' = [row EXCEPT ![j].life = "deleted"]
  /\ Answer(a)
  /\ UNCHANGED <<entries, loaded, task, work, events, stranded>>

TriggerGet(a, j) ==
  /\ Enabled(j) /\ Accept(a, "enqueue", j)
  /\ UNCHANGED <<row, entries, loaded, task, work, stranded>>

Enqueue(a) ==
  /\ admin[a].pc = "enqueue"
  /\ \E k \in Triggers :
       LET t == <<admin[a].job, k>> IN
       /\ task[t].state = "absent"
       /\ task' = [task EXCEPT ![t].state = "pending"]
  /\ Answer(a)
  /\ UNCHANGED <<row, entries, loaded, work, events, stranded>>

\* A call of the handler fails, or its client goes away.
AbortCall(a) ==
  /\ Event /\ admin[a].pc # "idle"
  /\ Answer(a)
  /\ UNCHANGED <<row, entries, loaded, task, work, stranded>>

(***************************************************************************)
(* The process stops and starts again: goroutines and entries are gone, the *)
(* table and the queue stay.  asynq puts the tasks its workers held back in *)
(* the queue, counting it as a retry unless it shut down in order.  The     *)
(* built-in jobs exist (or their name is taken by the deleted row).         *)
(***************************************************************************)
Restart ==
  /\ Event
  /\ \E inOrder \in BOOLEAN :
       task' = [t \in Tasks |->
                  IF task[t].state # "active" THEN task[t]
                  ELSE IF inOrder THEN [task[t] EXCEPT !.state = "pending"]
                  ELSE Failed(task[t])]
  /\ work' = [w \in Workers |-> Free]
  /\ admin' = [a \in Admins |-> NoCall]
  /\ entries' = {} /\ loaded' = {}
  /\ stranded' = stranded \cup {work[w].task[1] : w \in InRun}
  /\ UNCHANGED row

WorkerStep(w) == Load(w) \/ Mark(w) \/ Execute(w) \/ Restore(w) \/ Ack(w)

Next ==
  \/ LoadEnabled
  \/ \E j \in Jobs :
       Register(j) \/ Fire(j) \/ CreateCronJob(j) \/ EnableCronJob(j) \/ DisableCronJob(j)
  \/ \E w \in Workers : WorkerStep(w) \/ Timeout(w) \/ \E t \in Tasks : Take(w, t)
  \/ \E a \in Admins, j \in Jobs : UpdateGet(a, j) \/ DeleteGet(a, j) \/ TriggerGet(a, j)
  \/ \E a \in Admins :
       UpdateSave(a) \/ DeleteCheck(a) \/ DeleteRow(a) \/ Enqueue(a) \/ AbortCall(a)
  \/ Restart

\* A goroutine that has started a task goes on with it; a task in the queue is
\* taken (asynq takes them in the order they became due, so a task is not
\* passed over for ever).  Nobody has to call the API, no entry has to fire.
Fairness ==
  /\ \A w \in Workers : WF_vars(WorkerStep(w))
  /\ \A t \in Tasks : SF_vars(\E w \in Workers : Take(w, t))

Spec == Init /\ [][Next]_vars
FairSpec == Spec /\ Fairness

(***************************************************************************)
(* Properties.                                                              *)
(***************************************************************************)
Counts == [runs : Nat, successes : Nat, failures : Nat]

Rows == [life : {"absent", "live", "deleted"}, status : Statuses,
         builtIn : BOOLEAN, system : BOOLEAN, count : Counts]

TaskStates == [state : {"absent", "pending", "active", "retry", "archived"},
               retried : 0..MaxRetry]

Goroutines == [pc : {"idle", "load", "mark", "execute", "restore", "ack"},
               task : Tasks \cup {NoTask}, ok : BOOLEAN]

Calls == [pc : {"idle", "save", "check", "delete", "enqueue"}, job : Jobs \cup {NoJob},
          seen : Counts]

\* Every variable keeps its type; in particular no task is retried more often
\* than asynq allows.
TypeOK ==
  /\ row \in [Jobs -> Rows]
  /\ entries \subseteq Jobs /\ loaded \subseteq Jobs
  /\ task \in [Tasks -> TaskStates]
  /\ work \in [Workers -> Goroutines]
  /\ admin \in [Admins -> Calls]
  /\ stranded \subseteq Jobs
  /\ events \in Nat

\* No task is in two hands, whatever fails and however often the process
\* stops; so two scheduled runs of a job never overlap (the fixed TaskID
\* keeps a second task out).
OneWorkerPerTask ==
  \A v, w \in Workers :
    work[v].pc # "idle" /\ work[w].pc # "idle" /\ work[v].task = work[w].task => v = w

\* A job shown as running has a worker that will set it back, though runs
\* started by hand overlap and the API changes the job meanwhile; the only jobs
\* without one were left by a restore that failed, a time limit or a restart,
\* and have not been written since.
RunningHasWorker ==
  \A j \in Jobs : Live(j) /\ row[j].status = "Running" =>
    j \in stranded \/ \E w \in InRun : work[w].task[1] = j

\* Every counted run is counted once as a success or a failure, also when an
\* update writes old counters back over newer ones.
Sums(c) == c.runs = c.successes + c.failures

CountersAgree == \A j \in Jobs : Sums(row[j].count)

\* What the goroutines know: with the above, the invariant the proofs induct on.
Held(w) ==
  work[w].pc # "idle" => work[w].task \in Tasks /\ task[work[w].task].state = "active"

Called(a) ==
  /\ admin[a].pc # "idle" => admin[a].job \in Jobs
  /\ Sums(admin[a].seen)

Core ==
  /\ TypeOK /\ OneWorkerPerTask /\ CountersAgree
  /\ \A w \in Workers : Held(w)
  /\ \A a \in Admins : Called(a)

\* No job stays running, unless its last run was cut off: nobody has to enable
\* it by hand.
RunEnds ==
  \A j \in Jobs :
    (Live(j) /\ row[j].status = "Running") ~>
      (~(Live(j) /\ row[j].status = "Running") \/ j \in stranded)

\* A task that entered the queue is done or given up in the end, in spite of
\* failing calls, time limits and restarts.
TasksSettle ==
  \A t \in Tasks : (task[t].state # "absent") ~> (task[t].state \in {"absent", "archived"})

(***************************************************************************)
(* What the code says of itself and does not do.                            *)
(***************************************************************************)
\* "Built-in system jobs cannot be deleted."
BuiltinNeverDeleted == \A j \in Builtin : Live(j)

\* A job an administrator disabled is not enabled by anything but another
\* request to enable it.
DisabledUntilEnabled ==
  [][\A j \in Jobs : Live(j) /\ row[j].status = "Disabled" /\ row'[j].status = "Enabled"
                       => EnableCronJob(j)]_vars

====
