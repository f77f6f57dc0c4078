---- MODULE CronJobProofs ----
(***************************************************************************)
(* Theorems of CronJob, for any jobs, workers and API goroutines.  Core is  *)
(* inductive: types, who holds which task, and the sums of the counters.    *)
(***************************************************************************)
EXTENDS CronJob, TLAPS

LEMMA TaskJob == \A t \in Tasks : t[1] \in Jobs
  BY DEF Tasks

\* The values a task takes when it fails keep their type.
LEMMA FailedType ==
  ASSUME NEW s \in TaskStates
  PROVE  Failed(s) \in TaskStates /\ Failed(s).state \in {"retry", "archived"}
  BY RetryAssumption, SMT DEF Failed, TaskStates

LEMMA AbsentType == NoTaskState \in TaskStates /\ NoTaskState.state = "absent"
  BY RetryAssumption, SMT DEF NoTaskState, TaskStates

LEMMA NoRunsType == NoRuns \in Counts /\ Sums(NoRuns)
  BY SMT DEF NoRuns, Counts, Sums

LEMMA NewRowType ==
  ASSUME NEW b \in BOOLEAN, NEW s \in BOOLEAN
  PROVE  NewRow(b, s) \in Rows /\ NewRow(b, s).count = NoRuns
  BY NoRunsType DEF NewRow, Rows, Statuses

LEMMA NoRowType == NoRow \in Rows /\ NoRow.count = NoRuns
  BY NoRunsType DEF NoRow, Rows, Statuses

LEMMA FreeType == Free \in Goroutines /\ Free.pc = "idle"
  BY DEF Free, Goroutines

LEMMA NoCallType == NoCall \in Calls /\ NoCall.pc = "idle" /\ NoCall.seen = NoRuns
  BY NoRunsType DEF NoCall, Calls

LEMMA InitCore == Init => Core
  <1> SUFFICES ASSUME Init PROVE Core
    OBVIOUS
  <1>1. TypeOK
    <2>1. row \in [Jobs -> Rows]
      BY NewRowType, NoRowType DEF Init
    <2>2. task \in [Tasks -> TaskStates]
      BY AbsentType DEF Init
    <2>3. work \in [Workers -> Goroutines]
      BY FreeType DEF Init
    <2>4. admin \in [Admins -> Calls]
      BY NoCallType DEF Init
    <2>5. entries \subseteq Jobs /\ loaded \subseteq Jobs
      BY DEF Init
    <2>6. stranded \subseteq Jobs /\ events \in Nat
      BY DEF Init
    <2> QED
      BY <2>1, <2>2, <2>3, <2>4, <2>5, <2>6 DEF TypeOK
  <1>2. OneWorkerPerTask
    BY SMT DEF Init, OneWorkerPerTask, Free
  <1>3. CountersAgree
    BY NewRowType, NoRowType, NoRunsType DEF Init, CountersAgree
  <1>4. \A w \in Workers : Held(w)
    BY SMT DEF Init, Held, Free
  <1>5. \A a \in Admins : Called(a)
    BY NoCallType, NoRunsType DEF Init, Called
  <1> QED
    BY <1>1, <1>2, <1>3, <1>4, <1>5 DEF Core

(***************************************************************************)
(* Core in four parts, each with its own variables.                         *)
(***************************************************************************)
Table == row \in [Jobs -> Rows] /\ CountersAgree

Queue ==
  /\ task \in [Tasks -> TaskStates] /\ work \in [Workers -> Goroutines]
  /\ OneWorkerPerTask /\ \A w \in Workers : Held(w)

Api == admin \in [Admins -> Calls] /\ \A a \in Admins : Called(a)

Rest ==
  /\ entries \subseteq Jobs /\ loaded \subseteq Jobs
  /\ stranded \subseteq Jobs /\ events \in Nat

LEMMA CoreParts == Core <=> Table /\ Queue /\ Api /\ Rest
  BY DEF Core, TypeOK, Table, Queue, Api, Rest

LEMMA Kept ==
  /\ Table /\ UNCHANGED row => Table'
  /\ Queue /\ UNCHANGED <<task, work>> => Queue'
  /\ Api /\ UNCHANGED admin => Api'
  /\ Rest /\ UNCHANGED <<entries, loaded, stranded, events>> => Rest'
  BY DEF Table, CountersAgree, Queue, OneWorkerPerTask, Held, Api, Called, Rest

(***************************************************************************)
(* The table.                                                               *)
(***************************************************************************)
\* One row replaced by another of the type whose counters agree.
LEMMA RowReplaced ==
  ASSUME Table, NEW j \in Jobs, NEW r \in Rows, Sums(r.count), row' = [row EXCEPT ![j] = r]
  PROVE  Table'
  BY DEF Table, CountersAgree

LEMMA StatusKeepsTable ==
  ASSUME Table, NEW j \in Jobs, NEW s \in Statuses, StatusWrite(j, s)
  PROVE  Table'
  <1> DEFINE r == [row[j] EXCEPT !.status = IF Live(j) THEN s ELSE @]
  <1>1. row' = [row EXCEPT ![j] = r]
    BY DEF StatusWrite, Table
  <1>2. r \in Rows /\ r.count = row[j].count
    BY DEF Table, Rows
  <1>3. Sums(r.count)
    BY <1>2 DEF Table, CountersAgree
  <1> HIDE DEF r
  <1> QED
    BY <1>1, <1>2, <1>3, RowReplaced

LEMMA WorkerJob ==
  ASSUME Queue, NEW w \in Workers, work[w].pc # "idle"
  PROVE  work[w].task \in Tasks /\ work[w].task[1] \in Jobs
  BY TaskJob DEF Queue, Held

LEMMA CountedSums ==
  ASSUME NEW c \in Counts, Sums(c), NEW ok \in BOOLEAN
  PROVE  Counted(c, ok) \in Counts /\ Sums(Counted(c, ok))
  BY SMT DEF Counts, Sums, Counted

LEMMA CountedKeepsTable ==
  ASSUME Table, NEW j \in Jobs, NEW ok \in BOOLEAN,
         row' = [row EXCEPT ![j].count = Counted(@, ok)]
  PROVE  Table'
  <1> DEFINE c == Counted(row[j].count, ok)
             r == [row[j] EXCEPT !.count = c]
  <1>1. row[j] \in Rows /\ row[j].count \in Counts /\ Sums(row[j].count)
    BY DEF Table, CountersAgree, Rows
  <1>2. c \in Counts /\ Sums(c)
    BY <1>1, CountedSums
  <1>3. row' = [row EXCEPT ![j] = r]
    BY DEF Table
  <1> HIDE DEF c
  <1>4. r \in Rows /\ r.count = c
    BY <1>1, <1>2 DEF Rows
  <1> HIDE DEF r
  <1> QED
    BY <1>2, <1>3, <1>4, RowReplaced

LEMMA SavedRow ==
  ASSUME NEW j \in Jobs, NEW system \in BOOLEAN, NEW seen \in Counts, Sums(seen)
  PROVE  Saved(j, seen, system) \in Rows /\ Sums(Saved(j, seen, system).count)
  BY DEF Saved, Rows, Statuses

LEMMA NextTable == Core /\ [Next]_vars => Table'
  <1> SUFFICES ASSUME Core, [Next]_vars PROVE Table'
    OBVIOUS
  <1>1. Table /\ Queue /\ Api
    BY CoreParts
  <1>2. ASSUME NEW j \in Jobs, CreateCronJob(j) PROVE Table'
    <2>1. PICK system \in BOOLEAN : row' = [row EXCEPT ![j] = NewRow(FALSE, system)]
      BY <1>2 DEF CreateCronJob
    <2> QED
      BY <2>1, <1>1, NewRowType, NoRunsType, RowReplaced
  <1>3. ASSUME NEW j \in Jobs, EnableCronJob(j) \/ DisableCronJob(j) PROVE Table'
    BY <1>1, <1>3, StatusKeepsTable DEF EnableCronJob, DisableCronJob, Statuses
  <1>4. ASSUME NEW w \in Workers, Mark(w) \/ Restore(w) PROVE Table'
    <2>1. work[w].task[1] \in Jobs
      BY <1>1, <1>4, WorkerJob DEF Mark, Restore
    <2>2. \/ StatusWrite(work[w].task[1], "Running")
          \/ StatusWrite(work[w].task[1], "Enabled")
          \/ UNCHANGED row
      BY <1>4 DEF Mark, Restore
    <2> QED
      BY <1>1, <2>1, <2>2, StatusKeepsTable, Kept DEF Statuses
  <1>5. ASSUME NEW w \in Workers, Execute(w) PROVE Table'
    <2>1. work[w].task[1] \in Jobs
      BY <1>1, <1>5, WorkerJob DEF Execute
    <2>2. PICK ok \in BOOLEAN :
             \/ row' = [row EXCEPT ![work[w].task[1]].count = Counted(@, ok)]
             \/ UNCHANGED row
      BY <1>5 DEF Execute
    <2> QED
      BY <1>1, <2>1, <2>2, CountedKeepsTable, Kept
  <1>6. ASSUME NEW a \in Admins, UpdateSave(a) PROVE Table'
    <2> DEFINE j == admin[a].job
               seen == admin[a].seen
    <2>1. j \in Jobs /\ seen \in Counts /\ Sums(seen)
      BY <1>1, <1>6 DEF Api, Called, Calls, UpdateSave
    <2>2. PICK system \in BOOLEAN : row' = [row EXCEPT ![j] = Saved(j, seen, system)]
      BY <1>6 DEF UpdateSave
    <2> HIDE DEF j, seen
    <2> QED
      BY <1>1, <2>1, <2>2, SavedRow, RowReplaced
  <1>7. ASSUME NEW a \in Admins, DeleteRow(a) PROVE Table'
    <2> DEFINE j == admin[a].job
               r == [row[j] EXCEPT !.life = "deleted"]
    <2>1. j \in Jobs
      BY <1>1, <1>7 DEF Api, Called, DeleteRow
    <2>2. row' = [row EXCEPT ![j] = r]
      BY <1>1, <1>7, <2>1 DEF DeleteRow, Table
    <2>3. r \in Rows /\ r.count = row[j].count
      BY <1>1, <2>1 DEF Table, Rows
    <2>4. Sums(r.count)
      BY <1>1, <2>1, <2>3 DEF Table, CountersAgree
    <2> HIDE DEF r
    <2> QED
      BY <1>1, <2>1, <2>2, <2>3, <2>4, RowReplaced
  <1>8. CASE UNCHANGED row
    BY <1>1, <1>8, Kept
  <1> QED
    BY <1>2, <1>3, <1>4, <1>5, <1>6, <1>7, <1>8
    DEF Next, WorkerStep, vars, LoadEnabled, Register, Fire, Take, Load, Ack, Timeout,
        UpdateGet, DeleteGet, TriggerGet, DeleteCheck, Enqueue, AbortCall, Restart

(***************************************************************************)
(* The queue and the workers.                                               *)
(***************************************************************************)
\* A task nobody holds becomes pending (an entry fires, an admin triggers).
LEMMA Enqueued ==
  ASSUME Queue, NEW t \in Tasks, task[t].state = "absent",
         task' = [task EXCEPT ![t].state = "pending"], UNCHANGED work
  PROVE  Queue'
  <1>1. task' \in [Tasks -> TaskStates]
    BY SMT DEF Queue, TaskStates
  <1>2. ASSUME NEW w \in Workers PROVE Held(w)'
    BY SMT DEF Queue, Held, TaskStates
  <1> QED
    BY <1>1, <1>2 DEF Queue, OneWorkerPerTask

\* A worker goes on with the task it holds.
LEMMA Continued ==
  ASSUME Queue, NEW w \in Workers, work[w].pc # "idle", UNCHANGED task,
         work' \in [Workers -> Goroutines],
         work'[w].task = work[w].task,
         \A v \in Workers \ {w} : work'[v] = work[v]
  PROVE  Queue'
  <1>1. ASSUME NEW v \in Workers PROVE Held(v)'
    BY DEF Queue, Held
  <1> QED
    BY <1>1 DEF Queue, OneWorkerPerTask

\* A worker lets its task go.
LEMMA Released ==
  ASSUME Queue, NEW w \in Workers, work[w].pc # "idle",
         NEW s \in TaskStates,
         task' = [task EXCEPT ![work[w].task] = s],
         work' = [work EXCEPT ![w] = Free]
  PROVE  Queue'
  <1>1. task' \in [Tasks -> TaskStates]
    BY DEF Queue
  <1>2. work' \in [Workers -> Goroutines] /\ work'[w].pc = "idle"
    BY FreeType DEF Queue
  <1>3. OneWorkerPerTask'
    BY <1>2 DEF Queue, OneWorkerPerTask
  <1>4. ASSUME NEW v \in Workers PROVE Held(v)'
    <2>1. CASE v = w
      BY <1>2, <2>1 DEF Held
    <2>2. CASE v # w /\ work[v].pc # "idle"
      <3>1. work'[v] = work[v] /\ work[v].task \in Tasks /\ task[work[v].task].state = "active"
        BY <2>2 DEF Queue, Held
      <3>2. work[v].task # work[w].task
        BY <2>2 DEF Queue, OneWorkerPerTask
      <3> QED
        BY <3>1, <3>2 DEF Queue, Held
    <2>3. CASE v # w /\ work[v].pc = "idle"
      BY <2>3 DEF Queue, Held
    <2> QED
      BY <2>1, <2>2, <2>3
  <1> QED
    BY <1>1, <1>2, <1>3, <1>4 DEF Queue

LEMMA Taken ==
  ASSUME Queue, NEW w \in Workers, NEW t \in Tasks, Take(w, t)
  PROVE  Queue'
  <1> DEFINE g == [pc |-> "load", task |-> t, ok |-> TRUE]
  <1>1. /\ task[t].state # "active"
        /\ task' = [task EXCEPT ![t].state = "active"]
        /\ work' = [work EXCEPT ![w] = g]
    BY DEF Take
  <1>2. task' \in [Tasks -> TaskStates] /\ task'[t].state = "active"
    BY <1>1, SMT DEF Queue, TaskStates
  <1>3. g \in Goroutines /\ g.task = t
    BY DEF Goroutines
  <1> HIDE DEF g
  <1>4. work' \in [Workers -> Goroutines] /\ work'[w].task = t
    BY <1>1, <1>3 DEF Queue
  <1>5. ASSUME NEW v \in Workers \ {w}, work[v].pc # "idle"
        PROVE  work'[v] = work[v] /\ work[v].task \in Tasks \ {t}
    BY <1>1, <1>5 DEF Queue, Held
  <1>6. \A v \in Workers \ {w} : work'[v] = work[v]
    BY <1>1 DEF Queue
  <1>7. OneWorkerPerTask'
    BY <1>4, <1>5, <1>6 DEF Queue, OneWorkerPerTask
  <1>8. ASSUME NEW v \in Workers PROVE Held(v)'
    <2>1. CASE v = w
      BY <1>2, <1>4, <2>1 DEF Held
    <2>2. CASE v # w /\ work[v].pc # "idle"
      BY <1>1, <1>5, <2>2 DEF Queue, Held
    <2>3. CASE v # w /\ work[v].pc = "idle"
      BY <1>6, <2>3 DEF Held
    <2> QED
      BY <2>1, <2>2, <2>3
  <1> QED
    BY <1>2, <1>4, <1>7, <1>8 DEF Queue

\* After a restart nobody holds a task.
LEMMA Restarted ==
  ASSUME Queue, Restart
  PROVE  Queue'
  <1>1. PICK inOrder \in BOOLEAN :
           task' = [t \in Tasks |->
                      IF task[t].state # "active" THEN task[t]
                      ELSE IF inOrder THEN [task[t] EXCEPT !.state = "pending"]
                      ELSE Failed(task[t])]
    BY DEF Restart
  <1>2. ASSUME NEW t \in Tasks PROVE task'[t] \in TaskStates
    <2>1. task[t] \in TaskStates
      BY DEF Queue
    <2>2. [task[t] EXCEPT !.state = "pending"] \in TaskStates
      BY <2>1, SMT DEF TaskStates
    <2>3. Failed(task[t]) \in TaskStates
      BY <2>1, FailedType
    <2> QED
      BY <1>1, <2>1, <2>2, <2>3
  <1>3. task' \in [Tasks -> TaskStates]
    BY <1>1, <1>2
  <1>4. work' \in [Workers -> Goroutines] /\ \A w \in Workers : work'[w].pc = "idle"
    BY FreeType DEF Restart
  <1> QED
    BY <1>3, <1>4 DEF Queue, OneWorkerPerTask, Held

LEMMA NextQueue == Core /\ [Next]_vars => Queue'
  <1> SUFFICES ASSUME Core, [Next]_vars PROVE Queue'
    OBVIOUS
  <1>1. Queue /\ Api
    BY CoreParts
  <1>2. ASSUME NEW j \in Jobs, Fire(j) PROVE Queue'
    <2>1. <<j, "schedule">> \in Tasks
      BY DEF Tasks, Kinds
    <2> QED
      BY <1>1, <1>2, <2>1, Enqueued DEF Fire
  <1>3. ASSUME NEW a \in Admins, Enqueue(a) PROVE Queue'
    <2>1. admin[a].job \in Jobs
      BY <1>1, <1>3 DEF Enqueue, Api, Called
    <2>2. PICK k \in Triggers :
             /\ task[<<admin[a].job, k>>].state = "absent"
             /\ task' = [task EXCEPT ![<<admin[a].job, k>>].state = "pending"]
      BY <1>3 DEF Enqueue
    <2>3. <<admin[a].job, k>> \in Tasks
      BY <2>1 DEF Tasks, Kinds
    <2> QED
      BY <1>1, <1>3, <2>2, <2>3, Enqueued DEF Enqueue
  <1>4. ASSUME NEW w \in Workers, NEW t \in Tasks, Take(w, t) PROVE Queue'
    BY <1>1, <1>4, Taken
  <1>5. ASSUME NEW w \in Workers, Load(w) \/ Mark(w) \/ Execute(w) \/ Restore(w) PROVE Queue'
    <2>1. PICK p \in {"mark", "execute", "restore", "ack"}, b \in BOOLEAN : Go(w, p, b)
      BY <1>1, <1>5 DEF Load, Mark, Execute, Restore, Queue, Goroutines
    <2>2. work[w].pc # "idle" /\ UNCHANGED task
      BY <1>5 DEF Load, Mark, Execute, Restore
    <2>3. /\ work' \in [Workers -> Goroutines]
          /\ work'[w].task = work[w].task
          /\ \A v \in Workers \ {w} : work'[v] = work[v]
      BY <1>1, <2>1 DEF Queue, Goroutines, Go
    <2> QED
      BY <1>1, <2>2, <2>3, Continued
  <1>6. ASSUME NEW w \in Workers, Ack(w) \/ Timeout(w) PROVE Queue'
    <2>1. work[w].pc # "idle" /\ task[work[w].task] \in TaskStates
      BY <1>1, <1>6 DEF Ack, Timeout, Queue, Held
    <2>2. \/ task' = [task EXCEPT ![work[w].task] = NoTaskState]
          \/ task' = [task EXCEPT ![work[w].task] = Failed(task[work[w].task])]
      BY <1>1, <1>6 DEF Ack, Timeout, Queue
    <2>3. work' = [work EXCEPT ![w] = Free]
      BY <1>6 DEF Ack, Timeout
    <2> QED
      BY <1>1, <2>1, <2>2, <2>3, AbsentType, FailedType, Released
  <1>7. CASE Restart
    BY <1>1, <1>7, Restarted
  <1>8. CASE UNCHANGED <<task, work>>
    BY <1>1, <1>8, Kept
  <1> QED
    BY <1>2, <1>3, <1>4, <1>5, <1>6, <1>7, <1>8
    DEF Next, WorkerStep, vars, LoadEnabled, Register, CreateCronJob, EnableCronJob,
        DisableCronJob, OneStatement, UpdateGet, DeleteGet, TriggerGet, UpdateSave,
        DeleteCheck, DeleteRow, AbortCall

(***************************************************************************)
(* The API goroutines and the rest.                                         *)
(***************************************************************************)
LEMMA NextApi == Core /\ [Next]_vars => Api'
  <1> SUFFICES ASSUME Core, [Next]_vars PROVE Api'
    OBVIOUS
  <1>1. Api /\ Table
    BY CoreParts
  <1>2. ASSUME NEW a \in Admins, NEW j \in Jobs, NEW p \in {"save", "check", "enqueue"},
               Accept(a, p, j)
        PROVE  Api'
    <2> DEFINE c == [pc |-> p, job |-> j, seen |-> row[j].count]
    <2>1. row[j].count \in Counts /\ Sums(row[j].count)
      BY <1>1 DEF Table, CountersAgree, Rows
    <2>2. c \in Calls /\ c.job \in Jobs /\ Sums(c.seen)
      BY <2>1 DEF Calls
    <2>3. admin' = [admin EXCEPT ![a] = c]
      BY <1>2 DEF Accept
    <2> HIDE DEF c
    <2> QED
      BY <1>1, <2>2, <2>3 DEF Api, Called
  <1>3. ASSUME NEW a \in Admins, Answer(a) PROVE Api'
    BY <1>1, <1>3, NoCallType, NoRunsType DEF Answer, Api, Called
  <1>4. ASSUME NEW a \in Admins, DeleteCheck(a) PROVE Api'
    <2> DEFINE c == [admin[a] EXCEPT !.pc = "delete"]
    <2>1. admin[a] \in Calls /\ admin[a].job \in Jobs /\ Sums(admin[a].seen)
      BY <1>1, <1>4 DEF DeleteCheck, Api, Called
    <2>2. c \in Calls /\ c.job \in Jobs /\ Sums(c.seen)
      BY <2>1 DEF Calls
    <2>3. admin' = [admin EXCEPT ![a] = c] \/ admin' = [admin EXCEPT ![a] = NoCall]
      BY <1>1, <1>4 DEF DeleteCheck, Api
    <2> HIDE DEF c
    <2> QED
      BY <1>1, <2>2, <2>3, NoCallType, NoRunsType DEF Api, Called
  <1>5. CASE Restart
    BY <1>5, NoCallType, NoRunsType DEF Restart, Api, Called
  <1>6. CASE UNCHANGED admin
    BY <1>1, <1>6, Kept
  <1> QED
    BY <1>2, <1>3, <1>4, <1>5, <1>6
    DEF Next, WorkerStep, vars, LoadEnabled, Register, Fire, Take, Load, Mark, Execute,
        Restore, Ack, Timeout, CreateCronJob, EnableCronJob, DisableCronJob, OneStatement,
        UpdateGet, DeleteGet, TriggerGet, UpdateSave, DeleteRow, Enqueue, AbortCall

LEMMA EventType ==
  ASSUME Rest, NEW ok \in BOOLEAN, Done(ok) \/ Event
  PROVE  events' \in Nat
  BY SMT DEF Done, Event, Rest

LEMMA NextRest == Core /\ [Next]_vars => Rest'
  <1> SUFFICES ASSUME Core, [Next]_vars PROVE Rest'
    OBVIOUS
  <1>1. Rest /\ Queue /\ Api
    BY CoreParts
  <1>2. CASE LoadEnabled
    BY <1>1, <1>2 DEF LoadEnabled, Rest
  <1>3. ASSUME NEW j \in Jobs, Register(j) \/ Fire(j) PROVE Rest'
    <2>1. events' \in Nat
      BY <1>1, <1>3, EventType DEF Register, Fire, Rest
    <2> QED
      BY <1>1, <1>3, <2>1 DEF Register, Fire, Rest
  <1>4. ASSUME NEW j \in Jobs, CreateCronJob(j) \/ EnableCronJob(j) \/ DisableCronJob(j)
        PROVE  Rest'
    <2>1. UNCHANGED <<entries, loaded>> /\ events' \in Nat
      BY <1>1, <1>4, EventType DEF CreateCronJob, EnableCronJob, DisableCronJob, OneStatement
    <2>2. stranded' \subseteq stranded
      BY <1>4 DEF CreateCronJob, EnableCronJob, DisableCronJob, StatusWrite
    <2> QED
      BY <1>1, <2>1, <2>2 DEF Rest
  <1>5. ASSUME NEW a \in Admins, NEW j \in Jobs, UpdateGet(a, j) \/ DeleteGet(a, j) \/ TriggerGet(a, j)
        PROVE  Rest'
    <2>1. events' \in Nat
      BY <1>1, <1>5, EventType DEF UpdateGet, DeleteGet, TriggerGet, Accept
    <2> QED
      BY <1>1, <1>5, <2>1 DEF UpdateGet, DeleteGet, TriggerGet, Rest
  <1>6. CASE Restart
    <2>1. events' \in Nat /\ entries' = {} /\ loaded' = {}
      BY <1>1, <1>6, EventType DEF Restart
    <2>2. \A w \in InRun : work[w].task[1] \in Jobs
      BY <1>1, WorkerJob DEF InRun
    <2>3. stranded' \subseteq Jobs
      BY <1>1, <1>6, <2>2 DEF Restart, Rest
    <2> QED
      BY <2>1, <2>3 DEF Rest
  <1>7. CASE UNCHANGED <<entries, loaded, stranded, events>>
    BY <1>1, <1>7, Kept
  <1>8. ASSUME NEW w \in Workers, Load(w) \/ Execute(w) PROVE Rest'
    <2>1. PICK ok \in BOOLEAN : Done(ok)
      BY <1>8 DEF Load, Execute
    <2> QED
      BY <1>1, <1>8, <2>1, EventType DEF Load, Execute, Rest
  <1>9. ASSUME NEW w \in Workers, Mark(w) \/ Restore(w) \/ Timeout(w) PROVE Rest'
    <2>1. work[w].task[1] \in Jobs
      BY <1>1, <1>9, WorkerJob DEF Mark, Restore, Timeout
    <2>2. PICK ok \in BOOLEAN : Done(ok) \/ Event
      BY <1>9 DEF Mark, Restore, Timeout
    <2>3. events' \in Nat
      BY <1>1, <2>2, EventType
    <2>4. stranded' \subseteq stranded \cup {work[w].task[1]}
      BY <1>9 DEF Mark, Restore, Timeout, StatusWrite
    <2>5. UNCHANGED <<entries, loaded>>
      BY <1>9 DEF Mark, Restore, Timeout
    <2> QED
      BY <1>1, <2>1, <2>3, <2>4, <2>5 DEF Rest
  <1>10. ASSUME NEW a \in Admins, UpdateSave(a) \/ AbortCall(a) PROVE Rest'
    <2>1. events' \in Nat
      BY <1>1, <1>10, EventType DEF UpdateSave, AbortCall, Rest
    <2> QED
      BY <1>1, <1>10, <2>1 DEF UpdateSave, AbortCall, Rest
  <1> QED
    BY <1>2, <1>3, <1>4, <1>5, <1>6, <1>7, <1>8, <1>9, <1>10
    DEF Next, WorkerStep, vars, Take, Ack, DeleteCheck, DeleteRow, Enqueue

(***************************************************************************)
(* A running job has its worker.                                            *)
(***************************************************************************)
Running(j) == Live(j) /\ row[j].status = "Running"

Runs(w, j) == work[w].pc \in {"execute", "restore"} /\ work[w].task[1] = j

LEMMA OwnedOrStranded ==
  RunningHasWorker <=>
    \A j \in Jobs : Running(j) => j \in stranded \/ \E w \in Workers : Runs(w, j)
  BY DEF RunningHasWorker, Running, Runs, InRun

\* No job starts to run, none that runs is taken off the stranded ones, and no
\* worker stops running one.
Steady ==
  /\ \A j \in Jobs : Running(j)' => Running(j) /\ (j \in stranded => j \in stranded')
  /\ \A j \in Jobs, w \in Workers : Runs(w, j) => Runs(w, j)'

LEMMA SteadySuffices == RunningHasWorker /\ Steady => RunningHasWorker'
  BY DEF RunningHasWorker, Steady, Running, Runs, InRun

\* A status write leaves the other jobs alone.
LEMMA StatusElsewhere ==
  ASSUME Table, NEW j \in Jobs, NEW s \in Statuses, StatusWrite(j, s)
  PROVE  /\ \A i \in Jobs \ {j} : Running(i)' <=> Running(i)
         /\ \A i \in Jobs \ {j} : i \in stranded' <=> i \in stranded
         /\ s # "Running" => ~Running(j)'
  <1> DEFINE r == [row[j] EXCEPT !.status = IF Live(j) THEN s ELSE @]
  <1>1. row' = [row EXCEPT ![j] = r]
    BY DEF StatusWrite, Table
  <1>2. r.life = row[j].life /\ r.status = IF Live(j) THEN s ELSE row[j].status
    BY DEF Table, Rows
  <1> HIDE DEF r
  <1>3. row'[j] = r /\ \A i \in Jobs \ {j} : row'[i] = row[i]
    BY <1>1 DEF Table
  <1> QED
    BY <1>2, <1>3 DEF Running, Live, StatusWrite

\* A row replaced by one that is not running.
LEMMA RowElsewhere ==
  ASSUME Table, NEW j \in Jobs, NEW r \in Rows, row' = [row EXCEPT ![j] = r]
  PROVE  /\ \A i \in Jobs \ {j} : Running(i)' <=> Running(i)
         /\ Running(j)' <=> r.life = "live" /\ r.status = "Running"
  BY DEF Table, Running, Live

\* The step of one worker leaves the others' goroutines alone.
LEMMA OtherWorkers ==
  ASSUME Queue, NEW w \in Workers, NEW p, NEW b, Go(w, p, b)
  PROVE  /\ \A v \in Workers \ {w} : work'[v] = work[v]
         /\ work'[w].pc = p /\ work'[w].task = work[w].task
  BY DEF Queue, Go

LEMMA NextRunning ==
  ASSUME Core, RunningHasWorker, [Next]_vars
  PROVE  RunningHasWorker'
  <1>1. Table /\ Queue /\ Api /\ Rest
    BY CoreParts
  <1>2. \A j \in Jobs : Running(j) => j \in stranded \/ \E w \in Workers : Runs(w, j)
    BY OwnedOrStranded
  \* It is enough to show this of each step.
  <1> DEFINE Goal == \A j \in Jobs : Running(j)' => j \in stranded' \/ \E w \in Workers : Runs(w, j)'
  <1>3. Goal => RunningHasWorker'
    BY DEF RunningHasWorker, Running, Runs, InRun
  <1>4. ASSUME NEW w \in Workers, Mark(w) PROVE Goal
    <2>1. PICK j \in Jobs : j = work[w].task[1]
      BY <1>1, <1>4, WorkerJob DEF Mark
    <2>2. /\ work[w].pc = "mark" /\ Go(w, "execute", TRUE)
          /\ StatusWrite(j, "Running") \/ UNCHANGED <<row, stranded>>
      BY <1>4, <2>1 DEF Mark
    <2>3. \A v \in Workers, i \in Jobs : Runs(v, i) => Runs(v, i)'
      BY <1>1, <2>2, OtherWorkers DEF Runs
    <2>4. Runs(w, j)'
      BY <1>1, <2>2, <2>1, OtherWorkers DEF Runs
    <2>5. /\ \A i \in Jobs \ {j} : Running(i)' <=> Running(i)
          /\ \A i \in Jobs \ {j} : i \in stranded' <=> i \in stranded
      <3>1. CASE StatusWrite(j, "Running")
        BY <1>1, <3>1, <2>1, StatusElsewhere DEF Statuses
      <3>2. CASE UNCHANGED <<row, stranded>>
        BY <3>2 DEF Running, Live
      <3> QED
        BY <2>2, <3>1, <3>2
    <2> QED
      BY <1>2, <2>1, <2>3, <2>4, <2>5
  <1>5. ASSUME NEW w \in Workers, Execute(w) PROVE Steady
    <2>1. PICK j \in Jobs : j = work[w].task[1] /\ work[w].pc = "execute"
      BY <1>1, <1>5, WorkerJob DEF Execute
    <2>2. PICK ok \in BOOLEAN :
             /\ row' = [row EXCEPT ![j].count = Counted(@, ok)] \/ UNCHANGED row
             /\ Go(w, "restore", ok)
      BY <1>5, <2>1 DEF Execute
    <2>3. \A v \in Workers, i \in Jobs : Runs(v, i) => Runs(v, i)'
      BY <1>1, <2>1, <2>2, OtherWorkers DEF Runs
    <2> DEFINE c == Counted(row[j].count, ok)
               r == [row[j] EXCEPT !.count = c]
    <2>4. row' = [row EXCEPT ![j] = r] \/ UNCHANGED row
      BY <1>1, <2>1, <2>2 DEF Table
    <2> HIDE DEF c
    <2>5. r.life = row[j].life /\ r.status = row[j].status
      BY <1>1, <2>1 DEF Table, Rows
    <2> HIDE DEF r
    <2>6. \A i \in Jobs : Running(i)' <=> Running(i)
      BY <1>1, <2>1, <2>4, <2>5 DEF Table, Running, Live
    <2>7. UNCHANGED stranded
      BY <1>5 DEF Execute
    <2> QED
      BY <2>3, <2>6, <2>7 DEF Steady
  <1>6. ASSUME NEW w \in Workers, Restore(w) PROVE Goal
    <2>1. PICK j \in Jobs : j = work[w].task[1]
      BY <1>1, <1>6, WorkerJob DEF Restore
    <2>2. /\ work[w].pc = "restore" /\ Go(w, "ack", work[w].ok)
          /\ \/ StatusWrite(j, "Enabled")
             \/ stranded' = stranded \cup {j} /\ UNCHANGED row
      BY <1>6, <2>1 DEF Restore
    <2>3. \A v \in Workers, i \in Jobs \ {j} : Runs(v, i) => Runs(v, i)'
      BY <1>1, OtherWorkers, <2>2, <2>1 DEF Runs
    <2>4. CASE StatusWrite(j, "Enabled")
      <3>1. /\ \A i \in Jobs \ {j} : Running(i)' <=> Running(i)
            /\ \A i \in Jobs \ {j} : i \in stranded' <=> i \in stranded
            /\ ~Running(j)'
        BY <1>1, <2>4, <2>1, StatusElsewhere DEF Statuses
      <3> QED
        BY <1>2, <2>1, <2>3, <3>1
    <2>5. CASE stranded' = stranded \cup {j} /\ UNCHANGED row
      <3>1. \A i \in Jobs : Running(i)' <=> Running(i)
        BY <2>5 DEF Running, Live
      <3> QED
        BY <1>2, <2>1, <2>3, <2>5, <3>1
    <2> QED
      BY <2>2, <2>4, <2>5
  <1>7. ASSUME NEW w \in Workers, Load(w) \/ Ack(w) \/ \E t \in Tasks : Take(w, t)
        PROVE  Goal
    <2>1. UNCHANGED <<row, stranded>> /\ work[w].pc \notin {"execute", "restore"}
      BY <1>7 DEF Load, Ack, Take
    <2>2. \A v \in Workers \ {w} : work'[v] = work[v]
      BY <1>1, <1>7 DEF Load, Ack, Take, Go, Queue
    <2> QED
      BY <1>2, <2>1, <2>2 DEF Runs, Running, Live
  <1>8. ASSUME NEW w \in Workers, Timeout(w) PROVE Goal
    <2>1. PICK j \in Jobs : j = work[w].task[1]
      BY <1>1, <1>8, WorkerJob DEF Timeout
    <2>2. UNCHANGED row /\ \A v \in Workers \ {w} : work'[v] = work[v]
      BY <1>1, <1>8 DEF Timeout, Queue
    <2>3. stranded \subseteq stranded' /\ \A i \in Jobs : Runs(w, i) => i \in stranded'
      BY <1>8, <2>1 DEF Timeout, Runs, InRun
    <2> QED
      BY <1>2, <2>2, <2>3 DEF Runs, Running, Live
  <1>9. ASSUME Restart PROVE Goal
    <2>1. UNCHANGED row
      BY <1>9 DEF Restart
    <2>2. stranded \subseteq stranded'
          /\ \A i \in Jobs : (\E w \in Workers : Runs(w, i)) => i \in stranded'
      BY <1>9 DEF Restart, Runs, InRun
    <2>3. \A i \in Jobs : Running(i)' <=> Running(i)
      BY <2>1 DEF Running, Live
    <2>4. ASSUME NEW i \in Jobs, Running(i) PROVE i \in stranded'
      BY <1>2, <2>2, <2>4
    <2> QED
      BY <2>3, <2>4
  <1>10. ASSUME NEW j \in Jobs, EnableCronJob(j) \/ DisableCronJob(j) PROVE Steady
    <2>1. UNCHANGED work
      BY <1>10 DEF EnableCronJob, DisableCronJob, OneStatement
    <2>2. StatusWrite(j, "Enabled") \/ StatusWrite(j, "Disabled")
      BY <1>10 DEF EnableCronJob, DisableCronJob
    <2>3. /\ \A i \in Jobs \ {j} : Running(i)' <=> Running(i)
          /\ \A i \in Jobs \ {j} : i \in stranded' <=> i \in stranded
          /\ ~Running(j)'
      BY <1>1, <2>2, StatusElsewhere DEF Statuses
    <2> QED
      BY <2>1, <2>3 DEF Steady, Runs
  <1>11. ASSUME NEW j \in Jobs, CreateCronJob(j) PROVE Steady
    <2>1. UNCHANGED <<work, stranded>>
      BY <1>11 DEF CreateCronJob, OneStatement
    <2>2. PICK system \in BOOLEAN : row' = [row EXCEPT ![j] = NewRow(FALSE, system)]
      BY <1>11 DEF CreateCronJob
    <2>3. NewRow(FALSE, system) \in Rows /\ NewRow(FALSE, system).status = "Enabled"
      BY NewRowType DEF NewRow
    <2> QED
      BY <1>1, <2>1, <2>2, <2>3, RowElsewhere DEF Steady, Runs
  <1>12. ASSUME NEW a \in Admins, UpdateSave(a) PROVE Steady
    <2>0. PICK j \in Jobs, seen \in Counts :
             j = admin[a].job /\ seen = admin[a].seen /\ Sums(seen)
      BY <1>1, <1>12 DEF Api, Called, Calls, UpdateSave
    <2>1. stranded' = stranded \ {j} /\ UNCHANGED work
      BY <1>12, <2>0 DEF UpdateSave
    <2>2. PICK system \in BOOLEAN : row' = [row EXCEPT ![j] = Saved(j, seen, system)]
      BY <1>12, <2>0 DEF UpdateSave
    <2>3. Saved(j, seen, system) \in Rows /\ Saved(j, seen, system).status # "Running"
      BY <2>0, SavedRow DEF Saved
    <2>4. /\ \A i \in Jobs \ {j} : Running(i)' <=> Running(i)
          /\ ~Running(j)'
      BY <1>1, <2>1, <2>2, <2>3, RowElsewhere
    <2> QED
      BY <2>1, <2>4 DEF Steady, Runs
  <1>13. ASSUME NEW a \in Admins, DeleteRow(a) PROVE Steady
    <2> DEFINE j == admin[a].job
               r == [row[j] EXCEPT !.life = "deleted"]
    <2>1. j \in Jobs /\ UNCHANGED <<work, stranded>>
      BY <1>1, <1>13 DEF Api, Called, DeleteRow
    <2>2. row' = [row EXCEPT ![j] = r]
      BY <1>1, <1>13, <2>1 DEF DeleteRow, Table
    <2>3. r \in Rows /\ r.life = "deleted"
      BY <1>1, <2>1 DEF Table, Rows
    <2> HIDE DEF r
    <2> QED
      BY <1>1, <2>1, <2>2, <2>3, RowElsewhere DEF Steady, Runs
  <1>14. CASE UNCHANGED <<row, work, stranded>>
    BY <1>14 DEF RunningHasWorker, Live, InRun
  <1> HIDE DEF Goal
  <1> QED
    BY <1>3, <1>4, <1>5, <1>6, <1>7, <1>8, <1>9, <1>10, <1>11, <1>12, <1>13, <1>14, SteadySuffices
    DEF Next, WorkerStep, vars, LoadEnabled, Register, Fire, UpdateGet, DeleteGet,
        TriggerGet, DeleteCheck, Enqueue, AbortCall

(***************************************************************************)
(* Theorems.                                                                *)
(***************************************************************************)
\* The inductive invariant of the cron jobs: types, who holds which task, and
\* the sums of the counters, whatever fails and however often the process stops.
THEOREM CoreInvariant == Spec => []Core
  <1>1. Core /\ [Next]_vars => Core'
    BY NextTable, NextQueue, NextApi, NextRest, CoreParts DEF Core, TypeOK, Table, Queue, Api, Rest
  <1> QED
    BY InitCore, <1>1, PTL DEF Spec

\* Type correctness of the table, the queue and the goroutines.
THEOREM TypeCorrect == Spec => []TypeOK
  BY CoreInvariant, PTL DEF Core

\* No task is ever in the hands of two workers: scheduled runs of one job do
\* not overlap, for any number of workers, through retries and restarts.
THEOREM TaskHasOneWorker == Spec => []OneWorkerPerTask
  BY CoreInvariant, PTL DEF Core

\* A job's run_count is the sum of its successes and failures, even when an
\* update saves counters it read before the last run.
THEOREM CountsAddUp == Spec => []CountersAgree
  BY CoreInvariant, PTL DEF Core

\* A job shown as running is being run, for any number of jobs, workers,
\* requests, failures and restarts, unless its last run was cut off (its restore
\* failed, asynq's time limit, a restart) and nothing wrote its status since:
\* an overlapping run of the same job, a disable, an update or a deletion does
\* not orphan it.
THEOREM RunningIsOwned == Spec => []RunningHasWorker
  <1>1. Init => RunningHasWorker
    BY SMT DEF Init, RunningHasWorker, Live, NewRow, NoRow
  <1>2. Core /\ RunningHasWorker /\ [Next]_vars => RunningHasWorker'
    BY NextRunning
  <1> QED
    BY <1>1, <1>2, CoreInvariant, PTL DEF Spec

====
