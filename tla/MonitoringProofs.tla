---- MODULE MonitoringProofs ----
(***************************************************************************)
(* Theorems of the monitoring: alert events, configuration caches, the     *)
(* on-duty rota.  Each part is about its own specification, for any values *)
(* of its constants: alerts, users, goroutines, queue sizes and modes;     *)
(* pools, addresses and changes; members, rosters, shift lengths and days. *)
(***************************************************************************)
EXTENDS MCMonitoring, FiniteSetTheorems, WellFoundedInduction, TLAPS

----
(***************************************************************************)
(* Alert events: whatever overlaps, fails and restarts.                    *)
(***************************************************************************)

Pcs == {"idle", "find", "store", "read", "card", "escalate", "post", "delete",
        "writeSilenced", "writeFiring", "writeClaimed"}
TaskType == [pc : Pcs, kind : {"alert"} \cup Operations, alert : Alerts, seen : Rows]
SilenceType == [fp : Fingerprints, state : {"unused", "active", "lifted", "expired"}]
OutgoingType == [alerts : Seq(Alerts), next : Nat]

\* SilencesOf, of any state s of Alertmanager.
Own(s, f) == {i \in SilenceIds : s[i].fp = f /\ s[i].state # "unused"}

\* A row names no silence or one of its own, a silenced one does name one, and only a
\* stored one has a claimant.
RowOK(s, f, r) ==
  /\ r.silence \in {NoSilence} \cup Own(s, f)
  /\ r.status = "silenced" => r.silence \in Own(s, f)
  /\ ~r.stored => r.claimant = Nobody

\* A goroutine holds no silence or one of its own alert, has one when it is about to
\* write a silenced row, and once it has stored or found its row the table e has it.
TaskOK(s, e, k) ==
  /\ k.seen.silence \in {NoSilence} \cup Own(s, k.alert.fp)
  /\ k.pc = "writeSilenced" => k.seen.silence \in Own(s, k.alert.fp)
  /\ k.pc \notin {"idle", "find", "store"} => e[k.alert.fp].stored
  /\ k.pc = "store" /\ k.seen.stored => e[k.alert.fp].stored

Typed ==
  /\ EventTypeOK
  /\ outgoing \in OutgoingType
  /\ outgoing.alerts # <<>> => outgoing.next \in DOMAIN outgoing.alerts

EventInv ==
  /\ Typed
  /\ \A f \in Fingerprints : RowOK(silence, f, event[f])
  /\ \A t \in Tasks : TaskOK(silence, event, task[t])

LEMMA AnyAlertType == AnyAlert \in Alerts
<1>1. PICK f \in Fingerprints : TRUE
  BY FingerprintsAssumption
<1>2. [fp |-> f, status |-> "firing"] \in Alerts
  BY DEF Alerts
<1>3. \E a \in Alerts : TRUE
  BY <1>2
<1> QED
  BY <1>3 DEF AnyAlert

LEMMA NoEventType ==
  NoEvent \in Rows /\ NoEvent.silence = NoSilence /\ NoEvent.claimant = Nobody /\ NoEvent.status = "firing"
  /\ ~NoEvent.stored
  BY DEF NoEvent, Rows, EventStatuses

LEMMA NoTaskType ==
  NoTask \in TaskType /\ NoTask.pc = "idle" /\ NoTask.seen = NoEvent /\ NoTask.alert = AnyAlert
  BY AnyAlertType, NoEventType DEF NoTask, TaskType, Pcs, Operations

LEMMA NoTaskOK == \A s, e : TaskOK(s, e, NoTask)
  BY NoTaskType, NoEventType DEF TaskOK

\* The initial states satisfy the invariant.
LEMMA EventInitInv == EventInit => EventInv
<1> SUFFICES ASSUME EventInit PROVE EventInv
  OBVIOUS
<1>1. EventTypeOK
  <2>1. AnyAlert.fp \in Fingerprints
    BY AnyAlertType DEF Alerts
  <2>2. queue \in Seq(Alerts) /\ Len(queue) <= QueueSize
    BY BoundsAssumption DEF EventInit
  <2>3. eventMode.faults \in BOOLEAN
    BY EventModesAssumption DEF EventInit
  <2>4. event \in [Fingerprints -> Rows] /\ warm \in BOOLEAN
    BY NoEventType, <2>3 DEF EventInit
  <2>5. silence \in [SilenceIds -> SilenceType]
    BY <2>1 DEF EventInit, SilenceType
  <2>6. task \in [Tasks -> TaskType]
    BY NoTaskType DEF EventInit
  <2> QED
    BY <2>2, <2>4, <2>5, <2>6 DEF EventTypeOK, TaskType, Pcs, SilenceType
<1>2. outgoing \in OutgoingType /\ outgoing.alerts = <<>>
  BY DEF EventInit, NotSent, OutgoingType
<1>3. \A f \in Fingerprints : RowOK(silence, f, event[f])
  BY NoEventType DEF EventInit, RowOK
<1>4. \A t \in Tasks : TaskOK(silence, event, task[t])
  BY NoTaskOK DEF EventInit
<1> QED
  BY <1>1, <1>2, <1>3, <1>4 DEF EventInv, Typed

LEMMA TypedParts ==
  ASSUME EventInv
  PROVE  /\ queue \in Seq(Alerts) /\ Len(queue) <= QueueSize /\ warm \in BOOLEAN
         /\ event \in [Fingerprints -> Rows] /\ silence \in [SilenceIds -> SilenceType]
         /\ task \in [Tasks -> TaskType] /\ outgoing \in OutgoingType
         /\ (outgoing.alerts # <<>> => outgoing.next \in DOMAIN outgoing.alerts)
  BY DEF EventInv, Typed, EventTypeOK, TaskType, Pcs, SilenceType

\* The facts about one goroutine and the row of its alert that the steps need.
LEMMA TaskFacts ==
  ASSUME EventInv, NEW t \in Tasks
  PROVE  /\ task[t] \in TaskType /\ task[t].alert \in Alerts /\ task[t].alert.fp \in Fingerprints
         /\ task[t].seen \in Rows /\ TaskOK(silence, event, task[t])
         /\ event[task[t].alert.fp] \in Rows
         /\ RowOK(silence, task[t].alert.fp, event[task[t].alert.fp])
<1>1. task[t] \in TaskType /\ event \in [Fingerprints -> Rows]
  BY TypedParts
<1>2. task[t].alert \in Alerts /\ task[t].seen \in Rows
  BY <1>1 DEF TaskType
<1>3. task[t].alert.fp \in Fingerprints
  BY <1>2 DEF Alerts
<1> QED
  BY <1>1, <1>2, <1>3 DEF EventInv

\* What a step may do: no silence is forgotten, no row removed, and every row and goroutine it changes
\* is as it must be.
LEMMA StepKeeps ==
  ASSUME EventInv, Typed',
         \A f \in Fingerprints : Own(silence, f) \subseteq Own(silence', f),
         \A f \in Fingerprints : event[f].stored => event'[f].stored,
         \A f \in Fingerprints : event'[f] = event[f] \/ RowOK(silence', f, event'[f]),
         \A t \in Tasks : task'[t] = task[t] \/ TaskOK(silence', event', task'[t])
  PROVE  EventInv'
<1>1. \A f \in Fingerprints : RowOK(silence', f, event'[f])
  BY DEF EventInv, RowOK
<1>2. ASSUME NEW t \in Tasks PROVE TaskOK(silence', event', task'[t])
  <2>1. CASE task'[t] = task[t]
    <3>1. Own(silence, task[t].alert.fp) \subseteq Own(silence', task[t].alert.fp)
      BY TaskFacts
    <3>2. TaskOK(silence, event, task[t])
      BY TaskFacts
    <3>3. event[task[t].alert.fp].stored => event'[task[t].alert.fp].stored
      BY TaskFacts
    <3>4. TaskOK(silence', event', task[t])
      BY <3>1, <3>2, <3>3 DEF TaskOK
    <3> QED
      BY <3>4, <2>1
  <2> QED
    BY <2>1
<1> QED
  BY <1>1, <1>2 DEF EventInv

\* A step that leaves the rows and the silences alone and gives one goroutine a new record.
LEMMA TaskStepKeeps ==
  ASSUME EventInv, NEW t \in Tasks, NEW k \in TaskType, TaskOK(silence, event, k),
         task' = [task EXCEPT ![t] = k], UNCHANGED <<event, silence, outgoing, warm>>,
         queue' \in Seq(Alerts), Len(queue') <= QueueSize
  PROVE  EventInv'
<1>1. task' \in [Tasks -> TaskType]
  BY TypedParts
<1>2. Typed'
  BY TypedParts, <1>1 DEF Typed, EventTypeOK, TaskType, Pcs, SilenceType
<1>3. \A u \in Tasks : task'[u] = task[u] \/ TaskOK(silence', event', task'[u])
  BY TypedParts
<1> QED
  BY <1>2, <1>3, StepKeeps

\* Updates keeps the type of a row, takes the status and unsets no silence and no claimant.
LEMMA UpdatesRow ==
  ASSUME NEW row \in Rows, NEW e \in Rows
  PROVE  /\ Updates(row, e) \in Rows /\ Updates(row, e).status = e.status
         /\ Updates(row, e).stored = row.stored
         /\ Updates(row, e).silence = IF e.silence = NoSilence THEN row.silence ELSE e.silence
         /\ Updates(row, e).claimant = IF e.claimant = Nobody THEN row.claimant ELSE e.claimant
<1> DEFINE s == IF e.silence = NoSilence THEN row.silence ELSE e.silence
           c == IF e.claimant = Nobody THEN row.claimant ELSE e.claimant
<1>1. s \in {NoSilence} \cup SilenceIds /\ c \in Users \cup {Nobody} /\ e.status \in EventStatuses
  BY DEF Rows
<1>2. Updates(row, e) = [row EXCEPT !.status = e.status, !.silence = s, !.claimant = c]
  BY DEF Updates, Rows
<1> HIDE DEF s, c
<1>3. /\ Updates(row, e) \in Rows /\ Updates(row, e).status = e.status
      /\ Updates(row, e).stored = row.stored
      /\ Updates(row, e).silence = s /\ Updates(row, e).claimant = c
  BY <1>1, <1>2 DEF Rows
<1> QED
  BY <1>3 DEF s, c

\* A write of the row of one goroutine's alert.
LEMMA WriteKeeps ==
  ASSUME EventInv, NEW t \in Tasks, NEW k \in TaskType, NEW row \in Rows,
         TaskOK(silence, event', k), row.stored, RowOK(silence, task[t].alert.fp, row),
         task' = [task EXCEPT ![t] = k],
         event' = [event EXCEPT ![task[t].alert.fp] = row],
         UNCHANGED <<silence, queue, warm, outgoing>>
  PROVE  EventInv'
<1> DEFINE f0 == task[t].alert.fp
<1>1. f0 \in Fingerprints
  BY TaskFacts
<1> HIDE DEF f0
<1>2. event' = [event EXCEPT ![f0] = row]
  BY DEF f0
<1>3. event' \in [Fingerprints -> Rows] /\ task' \in [Tasks -> TaskType]
  BY TypedParts, <1>2
<1>4. Typed'
  BY TypedParts, <1>3 DEF Typed, EventTypeOK, TaskType, Pcs, SilenceType
<1>5. \A f \in Fingerprints : event'[f] = event[f] \/ RowOK(silence', f, event'[f])
  BY <1>2, TypedParts DEF f0
<1>6. \A u \in Tasks : task'[u] = task[u] \/ TaskOK(silence', event', task'[u])
  BY TypedParts
<1>7. \A f \in Fingerprints : event[f].stored => event'[f].stored
  BY <1>2, TypedParts
<1> QED
  BY <1>4, <1>5, <1>6, <1>7, StepKeeps

\* A step that leaves the rows and the silences alone and ends any goroutines.
LEMMA EndsKeep ==
  ASSUME EventInv, Typed', UNCHANGED <<event, silence>>,
         \A t \in Tasks : task'[t] = task[t] \/ task'[t] = NoTask
  PROVE  EventInv'
<1>1. \A t \in Tasks : task'[t] = task[t] \/ TaskOK(silence', event', task'[t])
  BY NoTaskOK
<1> QED
  BY <1>1, StepKeeps

\* A step that ends one goroutine, or sends it on with the record it has to a place
\* that asks for nothing more.
LEMMA FinishKeeps ==
  ASSUME EventInv, NEW t \in Tasks, Finish(t), Others, UNCHANGED <<event, silence>>
  PROVE  EventInv'
<1>1. task' = [task EXCEPT ![t] = NoTask] /\ NoTask \in TaskType
  BY NoTaskType DEF Finish
<1> QED
  BY <1>1, NoTaskOK, TaskStepKeeps, TypedParts DEF Others

LEMMA NotifyKeeps ==
  ASSUME EventInv, NEW m \in Messages, Notify(m)
  PROVE  EventInv'
<1>1. m \in Seq(Alerts)
  BY MessagesAssumption
<1>2. outgoing' \in OutgoingType /\ (outgoing'.alerts # <<>> => outgoing'.next \in DOMAIN outgoing'.alerts)
  <2>1. outgoing' = [alerts |-> m, next |-> 1]
    BY DEF Notify
  <2>2. outgoing' \in OutgoingType /\ outgoing'.alerts = m /\ outgoing'.next = 1
    BY <2>1, <1>1 DEF OutgoingType
  <2>3. m # <<>> => 1 \in DOMAIN m
    BY <1>1
  <2> QED
    BY <2>2, <2>3
<1>3. Typed'
  BY <1>2, TypedParts DEF Notify, Typed, EventTypeOK, TaskType, Pcs, SilenceType
<1> QED
  BY <1>3, EndsKeep DEF Notify

LEMMA MonitorAlertReceiveKeeps ==
  ASSUME EventInv, MonitorAlertReceive
  PROVE  EventInv'
<1> DEFINE a == outgoing.alerts[outgoing.next]
<1>1. /\ outgoing.alerts \in Seq(Alerts) /\ outgoing.next \in DOMAIN outgoing.alerts
      /\ outgoing.alerts # <<>> /\ outgoing.next \in Nat
  BY TypedParts DEF MonitorAlertReceive, OutgoingType
<1>2. a \in Alerts
  BY <1>1
<1> HIDE DEF a
<1>3. queue' \in Seq(Alerts) /\ Len(queue') <= QueueSize
  <2>1. CASE HasRoom
    <3>1. queue' = Append(queue, a)
      BY <2>1 DEF MonitorAlertReceive, a
    <3> QED
      BY <3>1, <2>1, <1>2, TypedParts, BoundsAssumption DEF HasRoom
  <2>2. CASE ~HasRoom
    BY <2>2, TypedParts DEF MonitorAlertReceive
  <2> QED
    BY <2>1, <2>2
<1>4. outgoing' \in OutgoingType /\ (outgoing'.alerts # <<>> => outgoing'.next \in DOMAIN outgoing'.alerts)
  <2>1. \/ outgoing' = NotSent
        \/ outgoing.next # Len(outgoing.alerts) /\ outgoing' = [outgoing EXCEPT !.next = outgoing.next + 1]
    BY TypedParts DEF MonitorAlertReceive, OutgoingType
  <2>2. CASE outgoing' = NotSent
    BY <2>2 DEF NotSent, OutgoingType
  <2>3. CASE outgoing.next # Len(outgoing.alerts) /\ outgoing' = [outgoing EXCEPT !.next = outgoing.next + 1]
    BY <2>3, <1>1, TypedParts DEF OutgoingType
  <2> QED
    BY <2>1, <2>2, <2>3
<1>5. UNCHANGED <<warm, task, event, silence>>
  BY DEF MonitorAlertReceive
<1>6. Typed'
  BY <1>3, <1>4, <1>5, TypedParts DEF Typed, EventTypeOK, TaskType, Pcs, SilenceType
<1> QED
  BY <1>5, <1>6, EndsKeep

LEMMA DispatchKeeps ==
  ASSUME EventInv, NEW t \in Tasks, Dispatch(t)
  PROVE  EventInv'
<1> DEFINE k == [NoTask EXCEPT !.pc = "find", !.alert = Head(queue)]
<1>1. Head(queue) \in Alerts /\ Tail(queue) \in Seq(Alerts) /\ Len(Tail(queue)) <= QueueSize
  BY TypedParts, BoundsAssumption DEF Dispatch
<1>2. k \in TaskType /\ k.pc = "find" /\ k.seen = NoEvent
  BY <1>1, NoTaskType DEF TaskType, Pcs
<1>3. TaskOK(silence, event, k)
  BY <1>2, NoEventType DEF TaskOK
<1>4. task' = [task EXCEPT ![t] = k]
  BY DEF Dispatch
<1> HIDE DEF k
<1> QED
  BY <1>1, <1>2, <1>3, <1>4, TaskStepKeeps DEF Dispatch

LEMMA FindKeeps ==
  ASSUME EventInv, NEW t \in Tasks, Find(t)
  PROVE  EventInv'
<1>1. CASE ~warm
  BY <1>1, FinishKeeps DEF Find
<1>2. CASE warm
  <2> DEFINE k == [task[t] EXCEPT !.pc = "store", !.seen = event[task[t].alert.fp]]
  <2>1. task' = [task EXCEPT ![t] = k]
    BY <1>2, TypedParts DEF Find
  <2>2. /\ k \in TaskType /\ k.pc = "store" /\ k.seen = event[task[t].alert.fp]
        /\ k.alert = task[t].alert
    BY TaskFacts DEF TaskType, Pcs
  <2> HIDE DEF k
  <2>3. TaskOK(silence, event, k)
    BY <2>2, TaskFacts DEF TaskOK, RowOK
  <2> QED
    BY <2>1, <2>2, <2>3, TaskStepKeeps, TypedParts DEF Find, Others
<1> QED
  BY <1>1, <1>2

LEMMA ReadKeeps ==
  ASSUME EventInv, NEW t \in Tasks, Read(t)
  PROVE  EventInv'
<1> DEFINE k == [task[t] EXCEPT !.pc = "card", !.seen = event[task[t].alert.fp]]
<1>1. task' = [task EXCEPT ![t] = k]
  BY TypedParts DEF Read
<1>2. /\ k \in TaskType /\ k.pc = "card" /\ k.seen = event[task[t].alert.fp]
      /\ k.alert = task[t].alert
  BY TaskFacts DEF TaskType, Pcs
<1> HIDE DEF k
<1>3. event[task[t].alert.fp].stored
  BY TaskFacts DEF TaskOK, Read
<1>4. TaskOK(silence, event, k)
  BY <1>2, <1>3, TaskFacts DEF TaskOK, RowOK
<1> QED
  BY <1>1, <1>2, <1>4, TaskStepKeeps, TypedParts DEF Read, Others

\* A goroutine that goes on with the record it has.
LEMMA GoOnKeeps ==
  ASSUME EventInv, NEW t \in Tasks, NEW pc \in Pcs \ {"writeSilenced", "store"}, GoOn(t, pc),
         task[t].pc \notin {"idle", "find", "store"}, Others, UNCHANGED <<event, silence>>
  PROVE  EventInv'
<1> DEFINE k == [task[t] EXCEPT !.pc = pc]
<1>1. task' = [task EXCEPT ![t] = k]
  BY TypedParts DEF GoOn
<1>2. k \in TaskType /\ k.pc = pc /\ k.seen = task[t].seen /\ k.alert = task[t].alert
  BY TaskFacts DEF TaskType
<1> HIDE DEF k
<1>3. TaskOK(silence, event, k)
  BY <1>2, TaskFacts DEF TaskOK
<1> QED
  BY <1>1, <1>2, <1>3, TaskStepKeeps, TypedParts DEF Others

LEMMA CardKeeps ==
  ASSUME EventInv, NEW t \in Tasks, Card(t)
  PROVE  EventInv'
<1>1. CASE Finish(t)
  BY <1>1, FinishKeeps DEF Card
<1>2. CASE GoOn(t, "escalate")
  BY <1>2, GoOnKeeps DEF Card, Pcs
<1> QED
  BY <1>1, <1>2 DEF Card

LEMMA RestartKeeps ==
  ASSUME EventInv, Restart
  PROVE  EventInv'
<1>1. \A t \in Tasks : task'[t] = task[t] \/ task'[t] = NoTask
  BY DEF Restart
<1>2. task' \in [Tasks -> TaskType]
  BY NoTaskType, TypedParts DEF Restart
<1>3. queue' \in Seq(Alerts) /\ Len(queue') <= QueueSize /\ warm' \in BOOLEAN
  <2>1. queue' = <<>> /\ warm' = FALSE
    BY DEF Restart
  <2>2. Len(<<>>) = 0 /\ <<>> \in Seq(Alerts) /\ 0 <= QueueSize
    BY BoundsAssumption
  <2> QED
    BY <2>1, <2>2
<1>4. outgoing' \in OutgoingType /\ (outgoing'.alerts # <<>> => outgoing'.next \in DOMAIN outgoing'.alerts)
  BY TypedParts DEF Restart, OutgoingType
<1>5. UNCHANGED <<event, silence>>
  BY DEF Restart
<1>6. Typed'
  BY <1>2, <1>3, <1>4, <1>5, TypedParts DEF Typed, EventTypeOK, TaskType, Pcs, SilenceType
<1> QED
  BY <1>1, <1>5, <1>6, EndsKeep

\* A row that Updates wrote is as it must be, if what it wrote names a silence of its own
\* alert wherever it must.
LEMMA UpdatesOK ==
  ASSUME NEW f, NEW row \in Rows, NEW e \in Rows, RowOK(silence, f, row), row.stored,
         e.silence \in {NoSilence} \cup Own(silence, f),
         e.status = "silenced" => Updates(row, e).silence \in Own(silence, f)
  PROVE  RowOK(silence, f, Updates(row, e)) /\ Updates(row, e) \in Rows /\ Updates(row, e).stored
<1>1. row.silence \in {NoSilence} \cup Own(silence, f)
  BY DEF RowOK
<1>2. Updates(row, e).silence \in {NoSilence} \cup Own(silence, f)
  BY <1>1, UpdatesRow
<1> QED
  BY <1>2, UpdatesRow DEF RowOK

\* UpdateMonitorAlertEvent at the end of a goroutine.
LEMMA WriteBackKeeps ==
  ASSUME EventInv, NEW t \in Tasks, NEW e \in Rows, WriteBack(t, e), Others, UNCHANGED silence,
         task[t].pc \notin {"idle", "find", "store"},
         e.silence \in {NoSilence} \cup Own(silence, task[t].alert.fp),
         e.status = "silenced" => e.silence \in Own(silence, task[t].alert.fp)
  PROVE  EventInv'
<1> DEFINE f0 == task[t].alert.fp
           row == Updates(event[f0], e)
<1>1. event' = [event EXCEPT ![f0] = row] /\ task' = [task EXCEPT ![t] = NoTask]
  BY TaskFacts, TypedParts DEF WriteBack, Finish
<1>2. event[f0].stored /\ event[f0] \in Rows /\ RowOK(silence, f0, event[f0])
  BY TaskFacts DEF TaskOK
<1>3. NoSilence \notin Own(silence, f0)
  BY DEF NoSilence, Own, SilenceIds
<1>4. e.status = "silenced" => row.silence \in Own(silence, f0)
  BY <1>2, <1>3, UpdatesRow
<1>5. RowOK(silence, f0, row) /\ row \in Rows /\ row.stored
  BY <1>2, <1>4, UpdatesOK
<1> HIDE DEF row
<1> QED
  BY <1>1, <1>5, NoTaskType, NoTaskOK, WriteKeeps DEF Others

LEMMA StatusOfType ==
  \A a \in Alerts : StatusOf(a) \in EventStatuses /\ StatusOf(a) # "silenced"
  BY DEF StatusOf, Alerts, EventStatuses

LEMMA StoreKeeps ==
  ASSUME EventInv, NEW t \in Tasks, Store(t)
  PROVE  EventInv'
<1> DEFINE f0 == task[t].alert.fp
           new == [NoEvent EXCEPT !.stored = TRUE, !.status = StatusOf(task[t].alert)]
           row == IF task[t].seen.stored THEN Updates(event[f0], new) ELSE new
           k == [task[t] EXCEPT !.pc = "read"]
<1>1. /\ new \in Rows /\ new.stored /\ new.status = StatusOf(task[t].alert)
      /\ new.silence = NoSilence /\ new.claimant = Nobody /\ new.status # "silenced"
  <2>1. StatusOf(task[t].alert) \in EventStatuses /\ StatusOf(task[t].alert) # "silenced"
    BY StatusOfType, TaskFacts
  <2> QED
    BY <2>1, NoEventType DEF NoEvent, Rows
<1> HIDE DEF new
<1>2. CASE ~(task[t].seen.stored \/ ~event[f0].stored)
  <2>1. Finish(t) /\ Others /\ UNCHANGED <<event, silence>>
    BY <1>2 DEF Store
  <2> QED
    BY <2>1, FinishKeeps
<1>3. CASE task[t].seen.stored \/ ~event[f0].stored
  <2>1. /\ event' = [event EXCEPT ![f0] = row] /\ GoOn(t, "read") /\ Others /\ UNCHANGED silence
        /\ task[t].pc = "store"
    BY <1>3, TaskFacts, TypedParts DEF Store, new
  <2>2. task' = [task EXCEPT ![t] = k]
    BY <2>1, TypedParts DEF GoOn
  <2>3. k \in TaskType /\ k.pc = "read" /\ k.seen = task[t].seen /\ k.alert = task[t].alert
    BY TaskFacts DEF TaskType, Pcs
  <2>4. RowOK(silence, f0, row) /\ row \in Rows /\ row.stored
    <3>1. CASE task[t].seen.stored
      <4>1. event[f0].stored /\ event[f0] \in Rows /\ RowOK(silence, f0, event[f0])
        BY <2>1, <3>1, TaskFacts DEF TaskOK
      <4>2. row = Updates(event[f0], new)
        BY <3>1
      <4> QED
        BY <4>1, <4>2, <1>1, UpdatesOK
    <3>2. CASE ~task[t].seen.stored
      BY <3>2, <1>1 DEF RowOK
    <3> QED
      BY <3>1, <3>2
  <2> HIDE DEF row, k
  <2>5. event'[f0].stored
    BY <2>1, <2>4, TaskFacts, TypedParts
  <2>6. TaskOK(silence, event', k)
    BY <2>3, <2>5, TaskFacts DEF TaskOK
  <2> QED
    BY <2>1, <2>2, <2>3, <2>4, <2>6, WriteKeeps DEF Others
<1> QED
  BY <1>2, <1>3

LEMMA EscalateKeeps ==
  ASSUME EventInv, NEW t \in Tasks, Escalate(t)
  PROVE  EventInv'
<1> DEFINE e == [task[t].seen EXCEPT !.status = "upgraded"]
<1>1. e \in Rows /\ e.silence = task[t].seen.silence /\ e.status = "upgraded"
  BY TaskFacts DEF Rows, EventStatuses
<1>2. WriteBack(t, e)
  BY DEF Escalate
<1> HIDE DEF e
<1> QED
  BY <1>1, <1>2, TaskFacts, WriteBackKeeps DEF Escalate, TaskOK

LEMMA WriteSilencedKeeps ==
  ASSUME EventInv, NEW t \in Tasks, WriteSilenced(t)
  PROVE  EventInv'
<1> DEFINE e == [task[t].seen EXCEPT !.status = "silenced"]
<1>1. e \in Rows /\ e.silence = task[t].seen.silence
  BY TaskFacts DEF Rows, EventStatuses
<1>2. WriteBack(t, e)
  BY DEF WriteSilenced
<1> HIDE DEF e
<1>3. e.silence \in Own(silence, task[t].alert.fp)
  BY <1>1, TaskFacts DEF WriteSilenced, TaskOK
<1> QED
  BY <1>1, <1>2, <1>3, WriteBackKeeps DEF WriteSilenced

LEMMA WriteFiringKeeps ==
  ASSUME EventInv, NEW t \in Tasks, WriteFiring(t)
  PROVE  EventInv'
<1> DEFINE e == [task[t].seen EXCEPT !.status = "firing", !.silence = NoSilence]
<1>1. e \in Rows /\ e.silence = NoSilence /\ e.status = "firing"
  BY TaskFacts DEF Rows, EventStatuses
<1>2. WriteBack(t, e)
  BY DEF WriteFiring
<1> HIDE DEF e
<1> QED
  BY <1>1, <1>2, WriteBackKeeps DEF WriteFiring

LEMMA WriteClaimedKeeps ==
  ASSUME EventInv, NEW t \in Tasks, WriteClaimed(t)
  PROVE  EventInv'
<1>1. PICK u \in Users : WriteBack(t, [task[t].seen EXCEPT !.status = "claimed", !.claimant = u])
  BY DEF WriteClaimed
<1> DEFINE e == [task[t].seen EXCEPT !.status = "claimed", !.claimant = u]
<1>2. e \in Rows /\ e.silence = task[t].seen.silence /\ e.status = "claimed"
  BY TaskFacts DEF Rows, EventStatuses
<1>3. WriteBack(t, e)
  BY <1>1
<1> HIDE DEF e
<1> QED
  BY <1>2, <1>3, TaskFacts, WriteBackKeeps DEF WriteClaimed, TaskOK

LEMMA BeginOperationKeeps ==
  ASSUME EventInv, NEW t \in Tasks, NEW kind \in Operations, NEW f \in Fingerprints,
         NEW pc \in {"post", "delete", "writeClaimed"}, BeginOperation(t, kind, f, pc)
  PROVE  EventInv'
<1> DEFINE a == [fp |-> f, status |-> "firing"]
           k == [pc |-> pc, kind |-> kind, alert |-> a, seen |-> event[f]]
<1>1. a \in Alerts /\ a.fp = f
  BY DEF Alerts
<1>2. event[f] \in Rows /\ RowOK(silence, f, event[f]) /\ event[f].stored
  BY TypedParts DEF EventInv, BeginOperation
<1>3. k \in TaskType
  BY <1>1, <1>2 DEF TaskType, Pcs
<1>4. TaskOK(silence, event, k)
  BY <1>1, <1>2 DEF TaskOK, RowOK
<1>5. task' = [task EXCEPT ![t] = k]
  BY DEF BeginOperation
<1> HIDE DEF k
<1> QED
  BY <1>3, <1>4, <1>5, TaskStepKeeps, TypedParts DEF BeginOperation

\* The two steps that change a silence of Alertmanager keep every silence known.
LEMMA PostSilenceKeeps ==
  ASSUME EventInv, NEW t \in Tasks, PostSilence(t)
  PROVE  EventInv'
<1> DEFINE f0 == task[t].alert.fp
<1>1. PICK i \in SilenceIds :
        /\ silence[i].state = "unused"
        /\ silence' = [silence EXCEPT ![i] = [fp |-> f0, state |-> "active"]]
        /\ task' = [task EXCEPT ![t].pc = "writeSilenced", ![t].seen.silence = i]
  BY DEF PostSilence
<1> DEFINE e == [task[t].seen EXCEPT !.silence = i]
           k == [task[t] EXCEPT !.pc = "writeSilenced", !.seen = e]
           new == [fp |-> f0, state |-> "active"]
<1>2. f0 \in Fingerprints /\ task[t] \in TaskType /\ task[t].seen \in Rows /\ event[f0].stored
  BY TaskFacts DEF PostSilence, TaskOK
<1>3. e \in Rows /\ e.silence = i
  BY <1>2 DEF Rows
<1>4. task' = [task EXCEPT ![t] = k]
  BY <1>1, <1>2, TypedParts DEF TaskType
<1> HIDE DEF e
<1>5. k \in TaskType /\ k.pc = "writeSilenced" /\ k.seen = e /\ k.alert = task[t].alert
  BY <1>2, <1>3 DEF TaskType, Pcs
<1>6. new \in SilenceType /\ new.fp = f0 /\ new.state = "active"
  BY <1>2 DEF SilenceType
<1> HIDE DEF k, new
<1>7. silence' = [silence EXCEPT ![i] = new]
  BY <1>1 DEF new
<1>8. silence' \in [SilenceIds -> SilenceType] /\ task' \in [Tasks -> TaskType]
  BY <1>4, <1>5, <1>6, <1>7, TypedParts
<1>9. \A f \in Fingerprints : Own(silence, f) \subseteq Own(silence', f)
  BY <1>1, <1>7, TypedParts DEF Own
<1>10. i \in Own(silence', f0)
  BY <1>6, <1>7, TypedParts DEF Own
<1>11. TaskOK(silence', event', k)
  <2>1. event' = event
    BY DEF PostSilence
  <2> QED
    BY <2>1, <1>2, <1>3, <1>5, <1>10 DEF TaskOK
<1>12. Typed'
  BY <1>8, TypedParts DEF PostSilence, Others, Typed, EventTypeOK, TaskType, Pcs, SilenceType
<1>13. \A u \in Tasks : task'[u] = task[u] \/ TaskOK(silence', event', task'[u])
  BY <1>4, <1>11, TypedParts
<1> QED
  BY <1>9, <1>12, <1>13, StepKeeps DEF PostSilence

\* A silence in use that gets another state in use.
LEMMA SilenceStateKeeps ==
  ASSUME EventInv, NEW i \in SilenceIds, NEW new \in {"lifted", "expired"},
         silence[i].state = "active", silence' = [silence EXCEPT ![i].state = new]
  PROVE  /\ silence' \in [SilenceIds -> SilenceType]
         /\ \A f \in Fingerprints : Own(silence', f) = Own(silence, f)
<1>1. silence \in [SilenceIds -> SilenceType]
  BY TypedParts
<1> DEFINE r == [silence[i] EXCEPT !.state = new]
<1>2. r \in SilenceType /\ r.fp = silence[i].fp /\ r.state = new
  BY <1>1 DEF SilenceType
<1>3. silence' = [silence EXCEPT ![i] = r]
  BY <1>1
<1> HIDE DEF r
<1> QED
  BY <1>1, <1>2, <1>3 DEF Own

LEMMA DeleteSilenceKeeps ==
  ASSUME EventInv, NEW t \in Tasks, DeleteSilence(t)
  PROVE  EventInv'
<1> DEFINE i == task[t].seen.silence
           k == [task[t] EXCEPT !.pc = "writeFiring"]
<1>1. CASE ~(i \in SilenceIds /\ silence[i].state = "active")
  BY <1>1, FinishKeeps DEF DeleteSilence
<1>2. CASE i \in SilenceIds /\ silence[i].state = "active"
  <2>1. silence' = [silence EXCEPT ![i].state = "lifted"] /\ GoOn(t, "writeFiring")
        /\ Others /\ event' = event /\ task[t].pc = "delete"
    BY <1>2 DEF DeleteSilence
  <2>2. /\ silence' \in [SilenceIds -> SilenceType]
        /\ \A f \in Fingerprints : Own(silence', f) = Own(silence, f)
    BY <1>2, <2>1, SilenceStateKeeps
  <2>3. task' = [task EXCEPT ![t] = k]
    BY <2>1, TypedParts DEF GoOn
  <2>4. k \in TaskType /\ k.pc = "writeFiring" /\ k.seen = task[t].seen /\ k.alert = task[t].alert
    BY TaskFacts DEF TaskType, Pcs
  <2> HIDE DEF k
  <2>5. TaskOK(silence', event', k)
    BY <2>1, <2>2, <2>4, TaskFacts DEF TaskOK
  <2>6. task' \in [Tasks -> TaskType]
    BY <2>3, <2>4, TypedParts
  <2>7. Typed'
    BY <2>1, <2>2, <2>6, TypedParts DEF Others, Typed, EventTypeOK, TaskType, Pcs, SilenceType
  <2>8. \A u \in Tasks : task'[u] = task[u] \/ TaskOK(silence', event', task'[u])
    BY <2>3, <2>5, TypedParts
  <2> QED
    BY <2>1, <2>2, <2>7, <2>8, StepKeeps
<1> QED
  BY <1>1, <1>2

LEMMA ExpireKeeps ==
  ASSUME EventInv, NEW i \in SilenceIds, Expire(i)
  PROVE  EventInv'
<1>1. /\ silence' \in [SilenceIds -> SilenceType]
      /\ \A f \in Fingerprints : Own(silence', f) = Own(silence, f)
  BY SilenceStateKeeps DEF Expire
<1>2. Typed'
  BY <1>1, TypedParts DEF Expire, Typed, EventTypeOK, TaskType, Pcs, SilenceType
<1> QED
  BY <1>1, <1>2, StepKeeps DEF Expire

LEMMA TaskStepKeepsAll ==
  ASSUME EventInv, NEW t \in Tasks, TaskStep(t)
  PROVE  EventInv'
  BY FindKeeps, StoreKeeps, ReadKeeps, CardKeeps, EscalateKeeps, RestartKeeps, PostSilenceKeeps,
     WriteSilencedKeeps, DeleteSilenceKeeps, WriteFiringKeeps, WriteClaimedKeeps
  DEF TaskStep, CardPanics

\* Every step keeps the invariant.
LEMMA EventNextKeeps == EventInv /\ [EventNext]_eventVars => EventInv'
<1> SUFFICES ASSUME EventInv, [EventNext]_eventVars PROVE EventInv'
  OBVIOUS
<1>1. CASE \E m \in Messages : Notify(m)
  BY <1>1, NotifyKeeps
<1>2. CASE MonitorAlertReceive
  BY <1>2, MonitorAlertReceiveKeeps
<1>3. ASSUME NEW t \in Tasks, Dispatch(t) \/ TaskStep(t) \/ GiveUp(t) PROVE EventInv'
  BY <1>3, DispatchKeeps, TaskStepKeepsAll, FinishKeeps DEF GiveUp
<1>4. ASSUME NEW t \in Tasks, NEW f \in Fingerprints, Silence(t, f) \/ UnSilence(t, f) \/ Claim(t, f)
      PROVE  EventInv'
  BY <1>4, BeginOperationKeeps DEF Silence, UnSilence, Claim, Operations
<1>5. CASE \E i \in SilenceIds : Expire(i)
  BY <1>5, ExpireKeeps
<1>6. CASE RefreshCaches
  <2>1. Typed'
    BY <1>6, TypedParts DEF RefreshCaches, Typed, EventTypeOK, TaskType, Pcs, SilenceType
  <2> QED
    BY <1>6, <2>1, EndsKeep DEF RefreshCaches
<1>7. CASE Crash
  BY <1>7, RestartKeeps DEF Crash
<1>8. CASE UNCHANGED eventVars
  <2>1. Typed'
    BY <1>8, TypedParts DEF eventVars, Typed, EventTypeOK, TaskType, Pcs, SilenceType
  <2> QED
    BY <1>8, <2>1, EndsKeep DEF eventVars
<1> QED
  BY <1>1, <1>2, <1>3, <1>4, <1>5, <1>6, <1>7, <1>8 DEF EventNext

\* The inductive invariant holds in every reachable state of the alert webhook.
THEOREM EventInvariant == EventSpec => []EventInv
<1> QED
  BY EventInitInv, EventNextKeeps, PTL DEF EventSpec

\* EventTypeOK: rows, channel and goroutines keep their types, and the channel its bound.
THEOREM EventTypeCorrect == EventSpec => []EventTypeOK
<1>1. EventInv => EventTypeOK
  BY DEF EventInv, Typed
<1> QED
  BY <1>1, EventInvariant, PTL

\* SilencedHasSilence: a silenced event names a silence of its own alert, for any number of
\* overlapping goroutines, failures, restarts and expiries (UpdateMonitorAlertEvent).
THEOREM EventSilenced == EventSpec => []SilencedHasSilence
<1>1. EventInv => SilencedHasSilence
  BY DEF EventInv, SilencedHasSilence, RowOK, Own, SilencesOf
<1> QED
  BY <1>1, EventInvariant, PTL

\* A write of a row by Updates unsets no claimant.
LEMMA WriteBackClaimant ==
  ASSUME EventInv, NEW t \in Tasks, NEW e \in Rows, WriteBack(t, e), NEW f \in Fingerprints,
         event[f].claimant # Nobody
  PROVE  event'[f].claimant # Nobody
<1> DEFINE f0 == task[t].alert.fp
           row == Updates(event[f0], e)
<1>1. f0 \in Fingerprints /\ event[f0] \in Rows
  BY TaskFacts
<1>2. event' = [event EXCEPT ![f0] = row]
  BY <1>1, TypedParts DEF WriteBack
<1>3. row.claimant = IF e.claimant = Nobody THEN event[f0].claimant ELSE e.claimant
  BY <1>1, UpdatesRow
<1> HIDE DEF row
<1> QED
  BY <1>1, <1>2, <1>3, TypedParts

LEMMA StoreClaimant ==
  ASSUME EventInv, NEW t \in Tasks, Store(t), NEW f \in Fingerprints, event[f].claimant # Nobody
  PROVE  event'[f].claimant # Nobody
<1> DEFINE f0 == task[t].alert.fp
           new == [NoEvent EXCEPT !.stored = TRUE, !.status = StatusOf(task[t].alert)]
           row == IF task[t].seen.stored THEN Updates(event[f0], new) ELSE new
<1>1. f0 \in Fingerprints /\ event[f0] \in Rows /\ RowOK(silence, f0, event[f0])
  BY TaskFacts
<1>2. new \in Rows /\ new.claimant = Nobody
  <2>1. StatusOf(task[t].alert) \in EventStatuses
    BY StatusOfType, TaskFacts
  <2> QED
    BY <2>1, NoEventType DEF NoEvent, Rows
<1>3. event' = event \/ (event' = [event EXCEPT ![f0] = row] /\ (task[t].seen.stored \/ ~event[f0].stored))
  BY <1>1, TypedParts DEF Store
<1> HIDE DEF new
<1>4. CASE task[t].seen.stored
  <2>1. row = Updates(event[f0], new)
    BY <1>4
  <2>2. row.claimant = event[f0].claimant
    BY <2>1, <1>1, <1>2, UpdatesRow
  <2> HIDE DEF row
  <2> QED
    BY <2>2, <1>1, <1>3, TypedParts
<1>5. CASE ~event[f0].stored
  <2>1. event[f0].claimant = Nobody
    BY <1>1, <1>5 DEF RowOK
  <2> HIDE DEF row
  <2> QED
    BY <2>1, <1>1, <1>3, TypedParts
<1> QED
  BY <1>3, <1>4, <1>5

LEMMA TaskStepClaimant ==
  ASSUME EventInv, NEW t \in Tasks, TaskStep(t), NEW f \in Fingerprints, event[f].claimant # Nobody
  PROVE  event'[f].claimant # Nobody
<1>1. CASE Store(t)
  BY <1>1, StoreClaimant
<1>2. CASE Escalate(t) \/ WriteSilenced(t) \/ WriteFiring(t) \/ WriteClaimed(t)
  <2>1. task[t].seen \in Rows
    BY TaskFacts
  <2>2. /\ [task[t].seen EXCEPT !.status = "upgraded"] \in Rows
        /\ [task[t].seen EXCEPT !.status = "silenced"] \in Rows
        /\ [task[t].seen EXCEPT !.status = "firing", !.silence = NoSilence] \in Rows
        /\ \A u \in Users : [task[t].seen EXCEPT !.status = "claimed", !.claimant = u] \in Rows
    BY <2>1 DEF Rows, EventStatuses
  <2>3. \E e \in Rows : WriteBack(t, e)
    BY <1>2, <2>2 DEF Escalate, WriteSilenced, WriteFiring, WriteClaimed
  <2> QED
    BY <2>3, WriteBackClaimant
<1>3. CASE \/ Find(t) \/ Read(t) \/ Card(t) \/ CardPanics(t) \/ PostSilence(t) \/ DeleteSilence(t)
  BY <1>3 DEF Find, Read, Card, CardPanics, Restart, PostSilence, DeleteSilence
<1> QED
  BY <1>1, <1>2, <1>3 DEF TaskStep

\* ClaimantKept: no step of any goroutine unsets the user who claimed an event, because a
\* create only fills a fingerprint without a row and Updates skips a zero ren_ling_user_id.
THEOREM EventClaimantKept == EventSpec => ClaimantKept
<1>1. EventInv /\ [EventNext]_eventVars =>
        [\A f \in Fingerprints : event[f].claimant # Nobody => event'[f].claimant # Nobody]_eventVars
  <2> SUFFICES ASSUME EventInv, EventNext, NEW f \in Fingerprints, event[f].claimant # Nobody
               PROVE  event'[f].claimant # Nobody
    OBVIOUS
  <2>1. CASE \E t \in Tasks : TaskStep(t)
    BY <2>1, TaskStepClaimant
  <2>2. CASE event' = event
    BY <2>2
  <2>3. (\E t \in Tasks : TaskStep(t)) \/ event' = event
    BY DEF EventNext, Notify, MonitorAlertReceive, Dispatch, GiveUp, Silence, UnSilence, Claim,
           BeginOperation, Expire, RefreshCaches, Crash, Restart
  <2> QED
    BY <2>1, <2>2, <2>3
<1> QED
  BY <1>1, EventInvariant, PTL DEF EventSpec, ClaimantKept

(****************************************************************************)
(* One goroutine at a time, no faults, a staffed duty group, no operator:   *)
(* the events follow their alerts.                                          *)
(****************************************************************************)
Alone == Serial /\ eventMode.ops = {}
AlertPcs == {"idle", "find", "store", "read", "card", "escalate"}

OneBusy == \A t, u \in Tasks : task[t].pc # "idle" /\ task[u].pc # "idle" => t = u

Queued(f) == \E k \in DOMAIN queue : queue[k].fp = f
LastOf(f, k) == queue[k].fp = f /\ \A j \in DOMAIN queue : j > k => queue[j].fp # f
Pending(t, f) == task[t].pc \in {"find", "store"} /\ task[t].alert.fp = f
UpToDate(f) == event[f].stored /\ event[f].status = StatusOf([fp |-> f, status |-> lastStatus[f]])

\* What became of the last alert accepted: it is the last of its fingerprint in the channel, or
\* a goroutine is about to store it, or its event tells its status.
FollowRow(f) ==
  /\ \A k \in DOMAIN queue : LastOf(f, k) => queue[k].status = lastStatus[f]
  /\ ~Queued(f) => \A t \in Tasks : Pending(t, f) => task[t].alert.status = lastStatus[f]
  /\ ~Queued(f) /\ (\A t \in Tasks : ~Pending(t, f)) /\ lastStatus[f] # "none" => UpToDate(f)

\* The goroutine at work knows whether its row is there, and has written its alert once stored.
FollowTask(t) ==
  /\ task[t].pc \in AlertPcs
  /\ task[t].pc = "store" => (task[t].seen.stored <=> event[task[t].alert.fp].stored)
  /\ task[t].pc \in {"read", "card", "escalate"} =>
       event[task[t].alert.fp].status = StatusOf(task[t].alert)
  /\ task[t].pc = "escalate" => task[t].alert.status = "firing" /\ eventMode.upgrades

Following ==
  /\ warm /\ OneBusy
  /\ lastStatus \in [Fingerprints -> {"none", "firing", "resolved"}]
  /\ \A f \in Fingerprints : FollowRow(f)
  /\ \A t \in Tasks : FollowTask(t)
FollowInv == Alone => Following

LEMMA FollowInitInv == EventInit => FollowInv
<1> SUFFICES ASSUME EventInit, Alone PROVE Following
  BY DEF FollowInv
<1>1. queue = <<>> /\ warm = ~eventMode.faults /\ lastStatus = [f \in Fingerprints |-> "none"]
  BY DEF EventInit
<1>2. \A t \in Tasks : task[t].pc = "idle"
  BY NoTaskType DEF EventInit
<1>3. warm
  BY <1>1 DEF Alone, Serial
<1>4. DOMAIN queue = {}
  BY <1>1
<1>5. \A f \in Fingerprints : FollowRow(f)
  BY <1>1, <1>2, <1>4 DEF FollowRow, Pending
<1>6. lastStatus \in [Fingerprints -> {"none", "firing", "resolved"}]
  BY <1>1
<1>7. OneBusy /\ \A t \in Tasks : FollowTask(t)
  BY <1>2 DEF OneBusy, FollowTask, AlertPcs
<1> QED
  BY <1>3, <1>5, <1>6, <1>7 DEF Following

\* A step that neither the channel nor the goroutines nor the rows notice.
LEMMA UnnoticedFollows ==
  ASSUME Following, UNCHANGED <<eventMode, queue, task, event, lastStatus>>, warm' = warm \/ warm' = TRUE
  PROVE  Following'
<1>1. warm'
  BY DEF Following
<1>2. OneBusy'
  BY DEF Following, OneBusy
<1>3. \A f \in Fingerprints : FollowRow(f)'
  BY DEF Following, FollowRow, Queued, LastOf, Pending, UpToDate, StatusOf
<1>4. \A t \in Tasks : FollowTask(t)'
  BY DEF Following, FollowTask, StatusOf
<1> QED
  BY <1>1, <1>2, <1>3, <1>4 DEF Following

LEMMA ReceiveFollows ==
  ASSUME EventInv, Following, MonitorAlertReceive
  PROVE  Following'
<1>1. UNCHANGED <<eventMode, warm, task, event>>
  BY DEF MonitorAlertReceive
<1>2. PICK a \in Alerts : a = outgoing.alerts[outgoing.next]
  BY TypedParts DEF MonitorAlertReceive, OutgoingType
<1>3. CASE ~HasRoom
  <2>1. UNCHANGED <<queue, lastStatus>>
    BY <1>3 DEF MonitorAlertReceive
  <2> QED
    BY <2>1, <1>1, UnnoticedFollows
<1>4. CASE HasRoom
  <2>1. queue' = Append(queue, a) /\ lastStatus' = [lastStatus EXCEPT ![a.fp] = a.status]
    BY <1>2, <1>4 DEF MonitorAlertReceive
  <2>2. a.fp \in Fingerprints /\ a.status \in {"firing", "resolved"}
    BY <1>2 DEF Alerts
  <2>3. queue \in Seq(Alerts)
    BY TypedParts
  <2>4. /\ DOMAIN queue' = 1..(Len(queue) + 1) /\ DOMAIN queue = 1..Len(queue)
        /\ Len(queue) \in Nat
        /\ queue'[Len(queue) + 1] = a /\ \A j \in DOMAIN queue : queue'[j] = queue[j]
    BY <2>1, <2>3, <1>2
  <2>5. lastStatus'[a.fp] = a.status /\ \A f \in Fingerprints : f # a.fp => lastStatus'[f] = lastStatus[f]
    BY <2>1, <2>2 DEF Following
  <2>6. ASSUME NEW f \in Fingerprints, f # a.fp PROVE FollowRow(f)'
    <3>1. Queued(f)' <=> Queued(f)
      BY <2>4, <2>6 DEF Queued
    <3>2. ASSUME NEW k \in DOMAIN queue', LastOf(f, k)' PROVE queue'[k].status = lastStatus'[f]
      <4>1. k \in DOMAIN queue /\ queue'[k] = queue[k]
        BY <2>4, <2>6, <3>2 DEF LastOf
      <4>2. LastOf(f, k)
        BY <4>1, <2>4, <3>2 DEF LastOf
      <4> QED
        BY <4>1, <4>2, <2>5, <2>6 DEF Following, FollowRow
    <3>3. FollowRow(f)
      BY DEF Following
    <3> QED
      BY <3>1, <3>2, <3>3, <1>1, <2>5, <2>6 DEF FollowRow, Pending, UpToDate, StatusOf
  <2>7. FollowRow(a.fp)'
    <3>1. Queued(a.fp)'
      BY <2>4 DEF Queued
    <3>2. ASSUME NEW k \in DOMAIN queue', LastOf(a.fp, k)' PROVE queue'[k].status = lastStatus'[a.fp]
      <4>1. k = Len(queue) + 1
        BY <2>4, <3>2 DEF LastOf
      <4> QED
        BY <4>1, <2>4, <2>5
    <3> QED
      BY <3>1, <3>2 DEF FollowRow, LastOf, Queued
  <2>8. \A f \in Fingerprints : FollowRow(f)'
    BY <2>6, <2>7
  <2>9. \A t \in Tasks : FollowTask(t)'
    BY <1>1 DEF Following, FollowTask, StatusOf
  <2>10. lastStatus' \in [Fingerprints -> {"none", "firing", "resolved"}]
    BY <2>1, <2>2 DEF Following
  <2> QED
    BY <1>1, <2>8, <2>9, <2>10 DEF Following, OneBusy
<1>5. UNCHANGED lastStatus \/ HasRoom
  BY DEF MonitorAlertReceive
<1> QED
  BY <1>3, <1>4, <1>5

LEMMA DispatchFollows ==
  ASSUME EventInv, Alone, Following, NEW t \in Tasks, Dispatch(t)
  PROVE  Following'
<1> DEFINE k == [NoTask EXCEPT !.pc = "find", !.alert = Head(queue)]
<1>1. \A u \in Tasks : task[u].pc = "idle"
  BY DEF Dispatch, MayBegin, Alone, Serial
<1>2. queue \in Seq(Alerts) /\ queue # <<>> /\ Len(queue) \in Nat /\ Len(queue) >= 1
  BY TypedParts DEF Dispatch
<1>3. PICK a \in Alerts : a = Head(queue)
  BY <1>2
<1>4. /\ DOMAIN queue = 1..Len(queue) /\ DOMAIN queue' = 1..(Len(queue) - 1) /\ queue[1] = a
      /\ \A j \in DOMAIN queue' : queue'[j] = queue[j + 1]
  BY <1>2, <1>3 DEF Dispatch
<1>5. k.pc = "find" /\ k.alert = a
  BY <1>3, NoTaskType DEF TaskType
<1>6. task' = [task EXCEPT ![t] = k]
  BY DEF Dispatch
<1> HIDE DEF k
<1>7. task'[t].pc = "find" /\ task'[t].alert = a /\ \A u \in Tasks : u # t => task'[u].pc = "idle"
  BY <1>1, <1>5, <1>6, TypedParts
<1>8. UNCHANGED <<eventMode, warm, event, lastStatus>>
  BY DEF Dispatch
<1>9. ASSUME NEW f \in Fingerprints PROVE FollowRow(f)'
  <2>1. FollowRow(f)
    BY DEF Following
  <2>2. Queued(f) <=> (a.fp = f \/ Queued(f)')
    <3>1. ASSUME NEW j \in DOMAIN queue, queue[j].fp = f, j # 1 PROVE Queued(f)'
      <4>1. j - 1 \in DOMAIN queue' /\ (j - 1) + 1 = j
        BY <1>2, <1>4, <3>1
      <4>2. queue'[j - 1].fp = f
        BY <1>4, <4>1, <3>1
      <4> QED
        BY <4>1, <4>2 DEF Queued
    <3>2. ASSUME NEW j \in DOMAIN queue', queue'[j].fp = f PROVE Queued(f)
      BY <1>2, <1>4, <3>2 DEF Queued
    <3>3. a.fp = f => Queued(f)
      BY <1>2, <1>4 DEF Queued
    <3> QED
      BY <3>1, <3>2, <3>3, <1>4 DEF Queued
  <2>3. ASSUME NEW j \in DOMAIN queue', LastOf(f, j)' PROVE queue'[j].status = lastStatus'[f]
    <3>1. j + 1 \in DOMAIN queue /\ j \in Nat
      BY <1>2, <1>4
    <3>2. ASSUME NEW i \in DOMAIN queue, i > j + 1 PROVE queue[i].fp # f
      <4>1. i - 1 \in DOMAIN queue' /\ i - 1 > j /\ (i - 1) + 1 = i
        BY <1>2, <1>4, <3>1, <3>2
      <4>2. queue'[i - 1].fp # f
        BY <4>1, <2>3 DEF LastOf
      <4> QED
        BY <4>1, <4>2, <1>4
    <3>3. LastOf(f, j + 1)
      BY <3>1, <3>2, <1>4, <2>3 DEF LastOf
    <3> QED
      BY <3>1, <3>3, <2>1, <1>4, <1>8 DEF FollowRow
  <2>4. ~Queued(f)' /\ a.fp = f => a.status = lastStatus[f]
    <3>1. SUFFICES ASSUME ~Queued(f)', a.fp = f PROVE a.status = lastStatus[f]
      OBVIOUS
    <3>2. ASSUME NEW i \in DOMAIN queue, i > 1 PROVE queue[i].fp # f
      <4>1. i - 1 \in DOMAIN queue' /\ (i - 1) + 1 = i
        BY <1>2, <1>4, <3>2
      <4> QED
        BY <4>1, <1>4, <3>1 DEF Queued
    <3>3. 1 \in DOMAIN queue /\ LastOf(f, 1)
      BY <3>1, <3>2, <1>2, <1>4 DEF LastOf
    <3> QED
      BY <3>3, <2>1, <1>4 DEF FollowRow
  <2>5. \A u \in Tasks : Pending(u, f)' <=> (u = t /\ a.fp = f)
    BY <1>7 DEF Pending
  <2>6. \A u \in Tasks : ~Pending(u, f)
    BY <1>1 DEF Pending
  <2>7. UpToDate(f)' <=> UpToDate(f)
    BY <1>8 DEF UpToDate, StatusOf
  <2> QED
    BY <2>1, <2>2, <2>3, <2>4, <2>5, <2>6, <2>7, <1>7, <1>8 DEF FollowRow
<1>10. \A u \in Tasks : FollowTask(u)'
  BY <1>7 DEF FollowTask, AlertPcs
<1> QED
  BY <1>7, <1>8, <1>9, <1>10 DEF Following, OneBusy

\* A step of the goroutine at work, which may write the row of its alert.
LEMMA WorkFollows ==
  ASSUME EventInv, Following, NEW t \in Tasks, NEW k \in TaskType, NEW f0 \in Fingerprints,
         task[t].pc # "idle", task[t].alert.fp = f0,
         task' = [task EXCEPT ![t] = k], k.pc # "idle" => k.alert = task[t].alert,
         UNCHANGED <<eventMode, queue, warm, lastStatus>>,
         \A f \in Fingerprints : f # f0 => event'[f] = event[f],
         FollowTask(t)', FollowRow(f0)'
  PROVE  Following'
<1>1. task'[t] = k /\ \A u \in Tasks : u # t => task'[u] = task[u] /\ task[u].pc = "idle"
  BY TypedParts DEF Following, OneBusy
<1>2. OneBusy'
  BY <1>1 DEF OneBusy
<1>3. ASSUME NEW f \in Fingerprints, f # f0 PROVE FollowRow(f)'
  <2>1. FollowRow(f)
    BY DEF Following
  <2>2. \A u \in Tasks : ~Pending(u, f) /\ ~Pending(u, f)'
    BY <1>1, <1>3 DEF Pending
  <2>3. UpToDate(f)' <=> UpToDate(f)
    BY <1>3 DEF UpToDate, StatusOf
  <2> QED
    BY <2>1, <2>2, <2>3 DEF FollowRow, LastOf, Queued
<1>4. ASSUME NEW u \in Tasks, u # t PROVE FollowTask(u)'
  BY <1>1, <1>4 DEF FollowTask, AlertPcs
<1> QED
  BY <1>2, <1>3, <1>4 DEF Following

\* What the steps of the goroutine at work rely on.
LEMMA AtWork ==
  ASSUME EventInv, Following, NEW t \in Tasks
  PROVE  /\ FollowTask(t) /\ FollowRow(task[t].alert.fp)
         /\ (task[t].pc # "idle" => \A u \in Tasks : u # t => task[u].pc = "idle")
  BY TaskFacts DEF Following, OneBusy

LEMMA FindFollows ==
  ASSUME EventInv, Following, NEW t \in Tasks, Find(t)
  PROVE  Following'
<1> DEFINE k == [task[t] EXCEPT !.pc = "store", !.seen = event[task[t].alert.fp]]
<1>1. task' = [task EXCEPT ![t] = k]
  BY TypedParts DEF Find, Following
<1>2. k \in TaskType /\ k.pc = "store" /\ k.seen = event[task[t].alert.fp] /\ k.alert = task[t].alert
  BY TaskFacts DEF TaskType, Pcs
<1> HIDE DEF k
<1>3. PICK f0 \in Fingerprints : f0 = task[t].alert.fp
  BY TaskFacts
<1>4. UNCHANGED <<eventMode, queue, warm, lastStatus, event>> /\ task[t].pc = "find"
  BY DEF Find, Others
<1>5. task'[t] = k /\ \A u \in Tasks : u # t => task'[u] = task[u]
  BY <1>1, TypedParts
<1>6. FollowTask(t)'
  BY <1>2, <1>4, <1>5 DEF FollowTask, AlertPcs
<1>7. FollowRow(f0)'
  <2>1. \A u \in Tasks : /\ Pending(u, f0)' <=> Pending(u, f0)
                        /\ task'[u].alert = task[u].alert
    BY <1>2, <1>4, <1>5 DEF Pending
  <2>2. UpToDate(f0)' <=> UpToDate(f0)
    BY <1>4 DEF UpToDate, StatusOf
  <2> QED
    BY <2>1, <2>2, <1>3, <1>4, AtWork DEF FollowRow, LastOf, Queued
<1> QED
  BY <1>1, <1>2, <1>3, <1>4, <1>6, <1>7, WorkFollows

\* Read, and Card: the alert is stored already, and nothing is written.
LEMMA NoWriteFollows ==
  ASSUME EventInv, Following, NEW t \in Tasks, NEW k \in TaskType,
         task[t].pc \in {"read", "card"}, task' = [task EXCEPT ![t] = k],
         k.pc \in {"card", "escalate"} => k.alert = task[t].alert,
         k.pc \in {"idle", "card", "escalate"},
         k.pc = "escalate" => task[t].alert.status = "firing" /\ eventMode.upgrades,
         UNCHANGED <<eventMode, queue, warm, lastStatus, event>>
  PROVE  Following'
<1>1. PICK f0 \in Fingerprints : f0 = task[t].alert.fp
  BY TaskFacts
<1>2. task'[t] = k /\ \A u \in Tasks : u # t => task'[u] = task[u]
  BY TypedParts
<1>3. FollowTask(t)'
  BY <1>2, AtWork DEF FollowTask, AlertPcs, StatusOf
<1>4. FollowRow(f0)'
  <2>1. \A u \in Tasks : ~Pending(u, f0)' /\ ~Pending(u, f0)
    BY <1>2, AtWork DEF Pending
  <2>2. UpToDate(f0)' <=> UpToDate(f0)
    BY DEF UpToDate, StatusOf
  <2> QED
    BY <2>1, <2>2, <1>1, AtWork DEF FollowRow, LastOf, Queued
<1> QED
  BY <1>1, <1>3, <1>4, WorkFollows

LEMMA ReadFollows ==
  ASSUME EventInv, Following, NEW t \in Tasks, Read(t)
  PROVE  Following'
<1> DEFINE k == [task[t] EXCEPT !.pc = "card", !.seen = event[task[t].alert.fp]]
<1>1. task' = [task EXCEPT ![t] = k]
  BY TypedParts DEF Read
<1>2. k \in TaskType /\ k.pc = "card" /\ k.alert = task[t].alert
  BY TaskFacts DEF TaskType, Pcs
<1> HIDE DEF k
<1> QED
  BY <1>1, <1>2, NoWriteFollows DEF Read, Others

LEMMA CardFollows ==
  ASSUME EventInv, Following, NEW t \in Tasks, Card(t)
  PROVE  Following'
<1>1. UNCHANGED <<eventMode, queue, warm, lastStatus, event>> /\ task[t].pc = "card"
  BY DEF Card, Others
<1>2. CASE Finish(t)
  <2>1. task' = [task EXCEPT ![t] = NoTask]
    BY <1>2 DEF Finish
  <2> QED
    BY <2>1, <1>1, NoTaskType, NoWriteFollows
<1>3. CASE task[t].alert.status = "firing" /\ eventMode.upgrades /\ GoOn(t, "escalate")
  <2> DEFINE k == [task[t] EXCEPT !.pc = "escalate"]
  <2>1. task' = [task EXCEPT ![t] = k]
    BY <1>3, TypedParts DEF GoOn
  <2>2. k \in TaskType /\ k.pc = "escalate" /\ k.alert = task[t].alert
    BY TaskFacts DEF TaskType, Pcs
  <2> HIDE DEF k
  <2> QED
    BY <2>1, <2>2, <1>1, <1>3, NoWriteFollows
<1> QED
  BY <1>2, <1>3 DEF Card

LEMMA StoreFollows ==
  ASSUME EventInv, Following, NEW t \in Tasks, Store(t)
  PROVE  Following'
<1> DEFINE new == [NoEvent EXCEPT !.stored = TRUE, !.status = StatusOf(task[t].alert)]
           row == IF task[t].seen.stored THEN Updates(event[task[t].alert.fp], new) ELSE new
           k == [task[t] EXCEPT !.pc = "read"]
<1>1. PICK f0 \in Fingerprints : f0 = task[t].alert.fp
  BY TaskFacts
<1>2. new \in Rows /\ new.stored /\ new.status = StatusOf(task[t].alert)
  <2>1. StatusOf(task[t].alert) \in EventStatuses
    BY StatusOfType, TaskFacts
  <2> QED
    BY <2>1, NoEventType DEF NoEvent, Rows
<1>3. task[t].pc = "store" /\ (task[t].seen.stored <=> event[f0].stored)
  BY <1>1, AtWork DEF Store, FollowTask
<1>4. event' = [event EXCEPT ![f0] = row] /\ GoOn(t, "read") /\ UNCHANGED <<eventMode, queue, warm, lastStatus>>
  BY <1>1, <1>3, TypedParts DEF Store, Others
<1> HIDE DEF new
<1>5. row.stored /\ row.status = StatusOf(task[t].alert)
  BY <1>1, <1>2, <1>3, TypedParts, UpdatesRow
<1>6. task' = [task EXCEPT ![t] = k]
  BY <1>4, TypedParts DEF GoOn
<1>7. k \in TaskType /\ k.pc = "read" /\ k.alert = task[t].alert
  BY TaskFacts DEF TaskType, Pcs
<1> HIDE DEF row, k
<1>8. event'[f0] = row /\ \A f \in Fingerprints : f # f0 => event'[f] = event[f]
  BY <1>4, TypedParts
<1>9. task'[t] = k /\ \A u \in Tasks : u # t => task'[u] = task[u]
  BY <1>6, TypedParts
<1>10. FollowTask(t)'
  BY <1>1, <1>4, <1>5, <1>7, <1>8, <1>9 DEF FollowTask, AlertPcs, StatusOf
<1>11. FollowRow(f0)'
  <2>1. \A u \in Tasks : ~Pending(u, f0)'
    BY <1>3, <1>7, <1>9, AtWork DEF Pending
  <2>2. ~Queued(f0) => task[t].alert.status = lastStatus[f0]
    BY <1>1, <1>3, AtWork DEF FollowRow, Pending
  <2>3. ~Queued(f0) => UpToDate(f0)'
    BY <2>2, <1>4, <1>5, <1>8 DEF UpToDate, StatusOf
  <2> QED
    BY <2>1, <2>3, <1>1, <1>4, AtWork DEF FollowRow, LastOf, Queued
<1> QED
  BY <1>1, <1>3, <1>4, <1>6, <1>7, <1>8, <1>10, <1>11, WorkFollows

LEMMA EscalateFollows ==
  ASSUME EventInv, Following, NEW t \in Tasks, Escalate(t)
  PROVE  Following'
<1> DEFINE e == [task[t].seen EXCEPT !.status = "upgraded"]
           row == Updates(event[task[t].alert.fp], e)
<1>1. PICK f0 \in Fingerprints : f0 = task[t].alert.fp
  BY TaskFacts
<1>2. e \in Rows /\ e.status = "upgraded"
  BY TaskFacts DEF Rows, EventStatuses
<1>3. /\ task[t].pc = "escalate" /\ UNCHANGED <<eventMode, queue, warm, lastStatus>>
      /\ event' = [event EXCEPT ![f0] = row] /\ task' = [task EXCEPT ![t] = NoTask]
  BY <1>1, TypedParts DEF Escalate, Others, WriteBack, Finish
<1> HIDE DEF e
<1>4. row.stored = event[f0].stored /\ row.status = "upgraded"
  BY <1>1, <1>2, TypedParts, UpdatesRow
<1> HIDE DEF row
<1>5. event[f0].status = "upgraded"
  BY <1>1, <1>3, AtWork DEF FollowTask, StatusOf
<1>6. event'[f0] = row /\ \A f \in Fingerprints : f # f0 => event'[f] = event[f]
  BY <1>3, TypedParts
<1>7. task'[t] = NoTask /\ \A u \in Tasks : u # t => task'[u] = task[u]
  BY <1>3, TypedParts
<1>8. FollowTask(t)'
  BY <1>7, NoTaskType DEF FollowTask, AlertPcs
<1>9. FollowRow(f0)'
  <2>1. \A u \in Tasks : ~Pending(u, f0)' /\ ~Pending(u, f0)
    BY <1>3, <1>7, NoTaskType, AtWork DEF Pending
  <2>2. UpToDate(f0)' <=> UpToDate(f0)
    BY <1>3, <1>4, <1>5, <1>6 DEF UpToDate, StatusOf
  <2> QED
    BY <2>1, <2>2, <1>1, <1>3, AtWork DEF FollowRow, LastOf, Queued
<1> QED
  BY <1>1, <1>3, <1>6, <1>8, <1>9, NoTaskType, WorkFollows

\* The mode of a behaviour is constant.
LEMMA ModeStays == [EventNext]_eventVars => eventMode' = eventMode
  BY DEF EventNext, eventVars, Notify, MonitorAlertReceive, Dispatch, TaskStep, Find, Store, Read, Card,
         Escalate, CardPanics, Restart, PostSilence, WriteSilenced, DeleteSilence, WriteFiring,
         WriteClaimed, GiveUp, Others, Silence, UnSilence, Claim, BeginOperation, Expire, RefreshCaches, Crash

\* Every step keeps the events following, as long as no operator, fault or second goroutine is there.
LEMMA NextFollows == EventInv /\ FollowInv /\ [EventNext]_eventVars => FollowInv'
<1> SUFFICES ASSUME EventInv, FollowInv, [EventNext]_eventVars, Alone' PROVE Following'
  BY DEF FollowInv
<1>1. eventMode' = eventMode
  BY ModeStays
<1>2. Alone
  BY <1>1 DEF Alone, Serial
<1>3. Following
  BY <1>2 DEF FollowInv
<1>4. CASE \E m \in Messages : Notify(m)
  BY <1>3, <1>4, UnnoticedFollows DEF Notify
<1>5. CASE MonitorAlertReceive
  BY <1>3, <1>5, ReceiveFollows
<1>6. ASSUME NEW t \in Tasks, Dispatch(t) \/ TaskStep(t) \/ GiveUp(t) PROVE Following'
  <2>1. task[t].pc \in AlertPcs
    BY <1>3 DEF Following, FollowTask
  <2>2. ~(PostSilence(t) \/ WriteSilenced(t) \/ DeleteSilence(t) \/ WriteFiring(t) \/ WriteClaimed(t))
    BY <2>1 DEF AlertPcs, PostSilence, WriteSilenced, DeleteSilence, WriteFiring, WriteClaimed
  <2>3. ~CardPanics(t) /\ ~GiveUp(t)
    BY <1>2 DEF CardPanics, GiveUp, Alone, Serial
  <2>4. CASE Dispatch(t)
    BY <1>2, <1>3, <2>4, DispatchFollows
  <2>5. CASE Find(t) \/ Store(t) \/ Read(t) \/ Card(t) \/ Escalate(t)
    BY <1>3, <2>5, FindFollows, StoreFollows, ReadFollows, CardFollows, EscalateFollows
  <2> QED
    BY <1>6, <2>2, <2>3, <2>4, <2>5 DEF TaskStep
<1>7. ASSUME NEW t \in Tasks, NEW f \in Fingerprints PROVE ~(Silence(t, f) \/ UnSilence(t, f) \/ Claim(t, f))
  BY <1>2 DEF Silence, UnSilence, Claim, BeginOperation, Alone
<1>8. CASE \E i \in SilenceIds : Expire(i)
  BY <1>3, <1>8, UnnoticedFollows DEF Expire
<1>9. CASE RefreshCaches
  BY <1>3, <1>9, UnnoticedFollows DEF RefreshCaches
<1>10. ~Crash
  BY <1>2 DEF Crash, Alone, Serial
<1>11. CASE UNCHANGED eventVars
  BY <1>3, <1>11, UnnoticedFollows DEF eventVars
<1> QED
  BY <1>4, <1>5, <1>6, <1>7, <1>8, <1>9, <1>10, <1>11 DEF EventNext

\* EventFollowsAlerts: handled one at a time, with nothing failing and no operator at work, every
\* event has the status of the last alert accepted once all are handled, for any fingerprints,
\* messages, goroutines and size of the channel (MonitorAlertReceive, HandleAlert).
THEOREM EventsFollowAlerts == EventSpec => []EventFollowsAlerts
<1>1. EventInv /\ FollowInv => EventFollowsAlerts
  <2> SUFFICES ASSUME FollowInv, Alone, Idle, queue = <<>>, NEW f \in Fingerprints, lastStatus[f] # "none"
               PROVE  UpToDate(f)
    BY DEF EventFollowsAlerts, Alone, UpToDate
  <2>1. ~Queued(f)
    BY DEF Queued
  <2>2. \A t \in Tasks : ~Pending(t, f)
    BY DEF Idle, Pending
  <2> QED
    BY <2>1, <2>2 DEF FollowInv, Following, FollowRow
<1> QED
  BY <1>1, FollowInitInv, NextFollows, EventInvariant, PTL DEF EventSpec

(****************************************************************************)
(* One goroutine at a time, no faults, a staffed duty group: the latest     *)
(* silence can be lifted.                                                   *)
(****************************************************************************)
At(pc, f) == \E t \in Tasks : task[t].pc = pc /\ task[t].alert.fp = f
Latest(f, i) == i \in Own(silence, f) /\ silence[i].state = "active" /\ \A j \in Own(silence, f) : j <= i

\* The silences ever created are the first ones: a new one is the latest of its event.
InOrder == \A i, j \in SilenceIds : silence[i].state # "unused" /\ j < i => silence[j].state # "unused"

\* An event nothing came after tells of its latest silence, unless that one is being written, and
\* names no lifted one, unless that is being written.
LiftRow(f) ==
  /\ \A i \in SilenceIds :
       f \in untouched /\ Latest(f, i) /\ ~At("writeSilenced", f) =>
         event[f].status = "silenced" /\ event[f].silence = i
  /\ \A i \in SilenceIds :
       event[f].status = "silenced" /\ event[f].silence = i /\ ~At("writeFiring", f) =>
         silence[i].state # "lifted"

\* A goroutine lifts the silence that its event still names, and writes the latest one.
LiftTask(t) ==
  LET k == task[t] IN
  /\ k.pc \in {"delete", "writeFiring"} => k.seen.silence = event[k.alert.fp].silence
  /\ k.pc = "writeFiring" => k.seen.silence \in SilenceIds /\ silence[k.seen.silence].state = "lifted"
  /\ k.pc = "writeSilenced" =>
       /\ k.seen.silence \in SilenceIds /\ silence[k.seen.silence].state # "lifted"
       /\ \A j \in Own(silence, k.alert.fp) : j <= k.seen.silence

Lifting ==
  /\ OneBusy /\ InOrder
  /\ \A f \in Fingerprints : LiftRow(f)
  /\ \A t \in Tasks : LiftTask(t)
LiftInv == Serial => Lifting

LEMMA LiftInitInv == EventInit => LiftInv
<1> SUFFICES ASSUME EventInit PROVE Lifting
  BY DEF LiftInv
<1>1. untouched = {} /\ \A i \in SilenceIds : silence[i].state = "unused"
  BY DEF EventInit
<1>2. \A t \in Tasks : task[t].pc = "idle"
  BY NoTaskType DEF EventInit
<1>3. \A f \in Fingerprints : event[f].status # "silenced"
  BY NoEventType DEF EventInit
<1> QED
  BY <1>1, <1>2, <1>3 DEF Lifting, OneBusy, InOrder, LiftRow, LiftTask

\* A step of one goroutine, the others being idle, about its own event and its silences.
LEMMA WorkLifts ==
  ASSUME EventInv, Lifting, NEW t \in Tasks, NEW k \in TaskType, NEW f0 \in Fingerprints,
         task' = [task EXCEPT ![t] = k], \A u \in Tasks : u # t => task[u].pc = "idle",
         task[t].pc # "idle" => task[t].alert.fp = f0, k.pc # "idle" => k.alert.fp = f0,
         \A f \in Fingerprints : f # f0 =>
           /\ event'[f] = event[f] /\ (f \in untouched' <=> f \in untouched)
           /\ Own(silence', f) = Own(silence, f) /\ \A i \in Own(silence, f) : silence'[i] = silence[i],
         InOrder', LiftTask(t)', LiftRow(f0)'
  PROVE  Lifting'
<1>1. task'[t] = k /\ \A u \in Tasks : u # t => task'[u] = task[u] /\ task[u].pc = "idle"
  BY TypedParts
<1>2. OneBusy'
  BY <1>1 DEF OneBusy
<1>3. ASSUME NEW f \in Fingerprints, f # f0 PROVE LiftRow(f)'
  <2>1. LiftRow(f) /\ RowOK(silence, f, event[f])
    BY DEF Lifting, EventInv
  <2>2. ~At("writeSilenced", f) /\ ~At("writeFiring", f)
    BY <1>1, <1>3 DEF At
  <2>3. \A i \in SilenceIds : Latest(f, i)' => Latest(f, i)
    BY <1>3 DEF Latest
  <2>4. event[f].status = "silenced" => silence'[event[f].silence] = silence[event[f].silence]
    BY <2>1, <1>3 DEF RowOK
  <2> QED
    BY <2>1, <2>2, <2>3, <2>4, <1>3 DEF LiftRow
<1>4. ASSUME NEW u \in Tasks, u # t PROVE LiftTask(u)'
  BY <1>1, <1>4 DEF LiftTask
<1> QED
  BY <1>2, <1>3, <1>4 DEF Lifting

\* A step that neither the goroutines nor the rows and silences notice.
LEMMA UnnoticedLifts ==
  ASSUME Lifting, UNCHANGED <<task, event, silence, untouched>>
  PROVE  Lifting'
  BY DEF Lifting, OneBusy, InOrder, LiftRow, LiftTask, At, Latest

\* A goroutine begins, goes on or ends without a write.
LEMMA MoveLifts ==
  ASSUME EventInv, Lifting, NEW t \in Tasks, NEW k \in TaskType, NEW f0 \in Fingerprints,
         task' = [task EXCEPT ![t] = k], \A u \in Tasks : u # t => task[u].pc = "idle",
         task[t].pc # "idle" => task[t].alert.fp = f0, k.pc # "idle" => k.alert.fp = f0,
         task[t].pc \notin {"writeSilenced", "writeFiring"},
         k.pc \notin {"writeSilenced", "writeFiring"},
         k.pc = "delete" => k.seen.silence = event[f0].silence,
         UNCHANGED <<event, silence, untouched>>
  PROVE  Lifting'
<1>1. task'[t] = k /\ \A u \in Tasks : u # t => task'[u] = task[u] /\ task[u].pc = "idle"
  BY TypedParts
<1>2. LiftTask(t)'
  BY <1>1 DEF LiftTask
<1>3. LiftRow(f0)'
  <2>1. ~At("writeSilenced", f0) /\ ~At("writeFiring", f0)
    BY <1>1 DEF At
  <2>2. LiftRow(f0)
    BY DEF Lifting
  <2> QED
    BY <2>1, <2>2 DEF LiftRow, Latest
<1>4. InOrder'
  BY DEF Lifting, InOrder
<1> QED
  BY <1>2, <1>3, <1>4, WorkLifts

\* An alert or a claim writes its status, which is not silenced.
LEMMA TouchLifts ==
  ASSUME EventInv, Lifting, NEW t \in Tasks, NEW k \in TaskType, NEW f0 \in Fingerprints, NEW row \in Rows,
         task' = [task EXCEPT ![t] = k], \A u \in Tasks : u # t => task[u].pc = "idle",
         task[t].alert.fp = f0, k.pc = "idle" \/ (k.pc = "read" /\ k.alert.fp = f0),
         event' = [event EXCEPT ![f0] = row], row.status # "silenced",
         untouched' = untouched \ {f0}, UNCHANGED silence
  PROVE  Lifting'
<1>1. task'[t] = k
  BY TypedParts
<1>2. event'[f0] = row /\ \A f \in Fingerprints : f # f0 => event'[f] = event[f]
  BY TypedParts
<1>3. LiftTask(t)'
  BY <1>1 DEF LiftTask
<1>4. LiftRow(f0)'
  BY <1>2 DEF LiftRow
<1>5. InOrder'
  BY DEF Lifting, InOrder
<1> QED
  BY <1>2, <1>3, <1>4, <1>5, WorkLifts

\* While a goroutine is at work, the others are idle.
LEMMA WorksAlone ==
  ASSUME Lifting, NEW t \in Tasks, task[t].pc # "idle"
  PROVE  \A u \in Tasks : u # t => task[u].pc = "idle"
  BY DEF Lifting, OneBusy

LEMMA FinishLifts ==
  ASSUME EventInv, Lifting, NEW t \in Tasks, Finish(t), UNCHANGED <<event, silence, untouched>>,
         task[t].pc \notin {"idle", "writeSilenced", "writeFiring"}
  PROVE  Lifting'
<1>1. task' = [task EXCEPT ![t] = NoTask]
  BY DEF Finish
<1> QED
  BY <1>1, NoTaskType, WorksAlone, TaskFacts, MoveLifts

LEMMA GoOnLifts ==
  ASSUME EventInv, Lifting, NEW t \in Tasks, NEW pc \in Pcs \ {"writeSilenced", "writeFiring", "delete"},
         NEW seen \in Rows, task' = [task EXCEPT ![t].pc = pc, ![t].seen = seen],
         UNCHANGED <<event, silence, untouched>>,
         task[t].pc \notin {"idle", "writeSilenced", "writeFiring"}
  PROVE  Lifting'
<1> DEFINE k == [task[t] EXCEPT !.pc = pc, !.seen = seen]
<1>1. task' = [task EXCEPT ![t] = k]
  BY TypedParts
<1>2. k \in TaskType /\ k.pc = pc /\ k.alert = task[t].alert
  BY TaskFacts DEF TaskType
<1> HIDE DEF k
<1> QED
  BY <1>1, <1>2, WorksAlone, TaskFacts, MoveLifts

LEMMA DispatchLifts ==
  ASSUME EventInv, Serial, Lifting, NEW t \in Tasks, Dispatch(t)
  PROVE  Lifting'
<1> DEFINE k == [NoTask EXCEPT !.pc = "find", !.alert = Head(queue)]
<1>1. \A u \in Tasks : task[u].pc = "idle"
  BY DEF Dispatch, MayBegin, Serial
<1>2. Head(queue) \in Alerts
  BY TypedParts DEF Dispatch
<1>3. k \in TaskType /\ k.pc = "find" /\ k.alert.fp \in Fingerprints
  BY <1>2, NoTaskType DEF TaskType, Pcs, Alerts
<1>4. task' = [task EXCEPT ![t] = k] /\ UNCHANGED <<event, silence, untouched>>
  BY DEF Dispatch
<1> HIDE DEF k
<1> QED
  BY <1>1, <1>3, <1>4, MoveLifts

LEMMA BeginOperationLifts ==
  ASSUME EventInv, Serial, Lifting, NEW t \in Tasks, NEW kind \in Operations, NEW f \in Fingerprints,
         NEW pc \in {"post", "delete", "writeClaimed"}, BeginOperation(t, kind, f, pc)
  PROVE  Lifting'
<1> DEFINE a == [fp |-> f, status |-> "firing"]
           k == [pc |-> pc, kind |-> kind, alert |-> a, seen |-> event[f]]
<1>1. \A u \in Tasks : task[u].pc = "idle"
  BY DEF BeginOperation, MayBegin, Serial
<1>2. a \in Alerts /\ event[f] \in Rows
  BY TypedParts DEF Alerts
<1>3. k \in TaskType /\ k.alert.fp = f /\ k.pc = pc /\ k.seen.silence = event[f].silence
  BY <1>2 DEF TaskType, Pcs
<1>4. task' = [task EXCEPT ![t] = k] /\ UNCHANGED <<event, silence, untouched>>
  BY DEF BeginOperation
<1> HIDE DEF k
<1> QED
  BY <1>1, <1>3, <1>4, MoveLifts

LEMMA StoreLifts ==
  ASSUME EventInv, Lifting, NEW t \in Tasks, Store(t)
  PROVE  Lifting'
<1> DEFINE new == [NoEvent EXCEPT !.stored = TRUE, !.status = StatusOf(task[t].alert)]
           row == IF task[t].seen.stored THEN Updates(event[task[t].alert.fp], new) ELSE new
           k == [task[t] EXCEPT !.pc = "read"]
<1>1. PICK f0 \in Fingerprints : f0 = task[t].alert.fp
  BY TaskFacts
<1>2. task[t].pc = "store" /\ UNCHANGED silence
  BY DEF Store
<1>3. CASE Finish(t) /\ UNCHANGED <<event, untouched>>
  BY <1>2, <1>3, FinishLifts
<1>4. CASE event' = [event EXCEPT ![f0] = row] /\ untouched' = untouched \ {f0} /\ GoOn(t, "read")
  <2>1. new \in Rows /\ new.status # "silenced"
    <3>1. StatusOf(task[t].alert) \in EventStatuses /\ StatusOf(task[t].alert) # "silenced"
      BY StatusOfType, TaskFacts
    <3> QED
      BY <3>1, NoEventType DEF NoEvent, Rows
  <2> HIDE DEF new
  <2>2. row \in Rows /\ row.status # "silenced"
    BY <2>1, TaskFacts, UpdatesRow
  <2>3. task' = [task EXCEPT ![t] = k]
    BY <1>4, TypedParts DEF GoOn
  <2>4. k \in TaskType /\ k.pc = "read" /\ k.alert = task[t].alert
    BY TaskFacts DEF TaskType, Pcs
  <2> HIDE DEF row, k
  <2> QED
    BY <1>1, <1>2, <1>4, <2>2, <2>3, <2>4, WorksAlone, TouchLifts
<1> QED
  BY <1>1, <1>3, <1>4, TypedParts, TaskFacts DEF Store

\* The goroutine that writes the row of its event back, in a status that is not silenced.
LEMMA WriteBackLifts ==
  ASSUME EventInv, Lifting, NEW t \in Tasks, NEW e \in Rows, WriteBack(t, e), e.status # "silenced",
         untouched' = untouched \ {task[t].alert.fp}, UNCHANGED silence, task[t].pc # "idle"
  PROVE  Lifting'
<1> DEFINE row == Updates(event[task[t].alert.fp], e)
<1>1. PICK f0 \in Fingerprints : f0 = task[t].alert.fp
  BY TaskFacts
<1>2. row \in Rows /\ row.status # "silenced"
  BY TaskFacts, UpdatesRow
<1>3. event' = [event EXCEPT ![f0] = row] /\ task' = [task EXCEPT ![t] = NoTask]
  BY <1>1, TypedParts DEF WriteBack, Finish
<1> HIDE DEF row
<1> QED
  BY <1>1, <1>2, <1>3, NoTaskType, WorksAlone, TouchLifts

LEMMA EscalateLifts ==
  ASSUME EventInv, Lifting, NEW t \in Tasks, Escalate(t)
  PROVE  Lifting'
<1> DEFINE e == [task[t].seen EXCEPT !.status = "upgraded"]
<1>1. e \in Rows /\ e.status = "upgraded"
  BY TaskFacts DEF Rows, EventStatuses
<1>2. WriteBack(t, e)
  BY DEF Escalate
<1> HIDE DEF e
<1> QED
  BY <1>1, <1>2, WriteBackLifts DEF Escalate

LEMMA WriteClaimedLifts ==
  ASSUME EventInv, Lifting, NEW t \in Tasks, WriteClaimed(t)
  PROVE  Lifting'
<1>1. PICK u \in Users : WriteBack(t, [task[t].seen EXCEPT !.status = "claimed", !.claimant = u])
  BY DEF WriteClaimed
<1> DEFINE e == [task[t].seen EXCEPT !.status = "claimed", !.claimant = u]
<1>2. e \in Rows /\ e.status = "claimed"
  BY TaskFacts DEF Rows, EventStatuses
<1>3. WriteBack(t, e)
  BY <1>1
<1> HIDE DEF e
<1> QED
  BY <1>2, <1>3, WriteBackLifts DEF WriteClaimed

\* The silence it has posted is the latest of its event, and the row names it now.
LEMMA WriteSilencedLifts ==
  ASSUME EventInv, Lifting, NEW t \in Tasks, WriteSilenced(t)
  PROVE  Lifting'
<1> DEFINE e == [task[t].seen EXCEPT !.status = "silenced"]
           row == Updates(event[task[t].alert.fp], e)
<1>1. PICK f0 \in Fingerprints : f0 = task[t].alert.fp
  BY TaskFacts
<1>2. PICK i \in SilenceIds : i = task[t].seen.silence
  BY DEF WriteSilenced, Lifting, LiftTask
<1>3. silence[i].state # "lifted" /\ \A j \in Own(silence, f0) : j <= i
  BY <1>1, <1>2 DEF WriteSilenced, Lifting, LiftTask
<1>4. e \in Rows /\ e.silence = i /\ e.status = "silenced"
  BY <1>2, TaskFacts DEF Rows, EventStatuses
<1>5. event' = [event EXCEPT ![f0] = row] /\ task' = [task EXCEPT ![t] = NoTask]
  BY <1>1, TypedParts DEF WriteSilenced, WriteBack, Finish
<1>6. untouched' = untouched \cup {f0} /\ UNCHANGED silence /\ task[t].pc = "writeSilenced"
  BY <1>1 DEF WriteSilenced
<1> HIDE DEF e
<1>7. i # NoSilence
  BY DEF SilenceIds, NoSilence
<1>8. row.silence = i /\ row.status = "silenced"
  BY <1>4, <1>7, TaskFacts, UpdatesRow
<1> HIDE DEF row
<1>9. event'[f0] = row /\ \A f \in Fingerprints : f # f0 => event'[f] = event[f]
  BY <1>5, TypedParts
<1>10. i \in Own(silence, f0)
  BY <1>1, <1>2, <1>6, TaskFacts DEF TaskOK
<1>11. LiftRow(f0)'
  <2>1. \A j \in SilenceIds : Latest(f0, j)' => j = i
    BY <1>3, <1>6, <1>10 DEF Latest, SilenceIds, Own
  <2> QED
    BY <2>1, <1>3, <1>6, <1>8, <1>9 DEF LiftRow
<1>12. LiftTask(t)'
  BY <1>5, NoTaskType, TypedParts DEF LiftTask
<1>13. InOrder'
  BY <1>6 DEF Lifting, InOrder
<1> QED
  BY <1>1, <1>5, <1>6, <1>9, <1>11, <1>12, <1>13, NoTaskType, WorksAlone, WorkLifts

\* The silence its event named was lifted: no active one is the latest of an untouched event.
LEMMA WriteFiringLifts ==
  ASSUME EventInv, Lifting, NEW t \in Tasks, WriteFiring(t)
  PROVE  Lifting'
<1> DEFINE e == [task[t].seen EXCEPT !.status = "firing", !.silence = NoSilence]
           row == Updates(event[task[t].alert.fp], e)
<1>1. PICK f0 \in Fingerprints : f0 = task[t].alert.fp
  BY TaskFacts
<1>2. e \in Rows /\ e.status = "firing"
  BY TaskFacts DEF Rows, EventStatuses
<1>3. event' = [event EXCEPT ![f0] = row] /\ task' = [task EXCEPT ![t] = NoTask]
  BY <1>1, TypedParts DEF WriteFiring, WriteBack, Finish
<1>4. UNCHANGED <<silence, untouched>> /\ task[t].pc = "writeFiring"
  BY DEF WriteFiring
<1> HIDE DEF e
<1>5. row.status = "firing"
  BY <1>2, TaskFacts, UpdatesRow
<1> HIDE DEF row
<1>6. event'[f0] = row /\ \A f \in Fingerprints : f # f0 => event'[f] = event[f]
  BY <1>3, TypedParts
<1>7. silence[event[f0].silence].state = "lifted"
  BY <1>1, <1>4 DEF Lifting, LiftTask
<1>8. LiftRow(f0)'
  <2>1. ~At("writeSilenced", f0)
    BY <1>4, WorksAlone DEF At
  <2>2. \A i \in SilenceIds : ~(f0 \in untouched /\ Latest(f0, i))
    BY <2>1, <1>7 DEF Lifting, LiftRow, Latest
  <2> QED
    BY <2>2, <1>4, <1>5, <1>6 DEF LiftRow, Latest
<1>9. LiftTask(t)'
  BY <1>3, NoTaskType, TypedParts DEF LiftTask
<1>10. InOrder'
  BY <1>4 DEF Lifting, InOrder
<1> QED
  BY <1>1, <1>3, <1>4, <1>6, <1>8, <1>9, <1>10, NoTaskType, WorksAlone, WorkLifts

\* A silence is created after all others, so it is the latest, and it is active.
LEMMA PostSilenceLifts ==
  ASSUME EventInv, Lifting, NEW t \in Tasks, PostSilence(t)
  PROVE  Lifting'
<1>1. PICK f0 \in Fingerprints : f0 = task[t].alert.fp
  BY TaskFacts
<1>2. PICK i \in SilenceIds :
        /\ silence[i].state = "unused" /\ \A j \in 1..(i - 1) : silence[j].state # "unused"
        /\ silence' = [silence EXCEPT ![i] = [fp |-> f0, state |-> "active"]]
        /\ task' = [task EXCEPT ![t].pc = "writeSilenced", ![t].seen.silence = i]
  BY <1>1 DEF PostSilence
<1> DEFINE e == [task[t].seen EXCEPT !.silence = i]
           k == [task[t] EXCEPT !.pc = "writeSilenced", !.seen = e]
           new == [fp |-> f0, state |-> "active"]
<1>3. UNCHANGED <<event, untouched>> /\ task[t].pc = "post"
  BY DEF PostSilence
<1>4. task[t] \in TaskType /\ task[t].seen \in Rows
  BY TaskFacts
<1>5. e \in Rows /\ e.silence = i
  BY <1>4 DEF Rows
<1>6. task' = [task EXCEPT ![t] = k]
  BY <1>2, <1>4, TypedParts DEF TaskType
<1> HIDE DEF e
<1>7. k \in TaskType /\ k.pc = "writeSilenced" /\ k.seen = e /\ k.alert = task[t].alert
  BY <1>4, <1>5 DEF TaskType, Pcs
<1>8. new.fp = f0 /\ new.state = "active"
  OBVIOUS
<1> HIDE DEF k, new
<1>9. silence' = [silence EXCEPT ![i] = new] /\ silence \in [SilenceIds -> SilenceType]
  BY <1>2, TypedParts DEF new
<1>10. silence'[i] = new /\ \A j \in SilenceIds : j # i => silence'[j] = silence[j]
  BY <1>9
<1>11. \A j \in SilenceIds : j <= i \/ silence[j].state = "unused"
  BY <1>2 DEF Lifting, InOrder, SilenceIds
<1>12. InOrder'
  <2> SUFFICES ASSUME NEW a \in SilenceIds, NEW b \in SilenceIds, silence'[a].state # "unused", b < a
               PROVE  silence'[b].state # "unused"
    BY DEF InOrder
  <2>1. CASE a = i
    BY <2>1, <1>2, <1>10 DEF SilenceIds
  <2>2. CASE a # i
    BY <2>2, <1>8, <1>10 DEF Lifting, InOrder
  <2> QED
    BY <2>1, <2>2
<1>13. \A f \in Fingerprints : f # f0 =>
         Own(silence', f) = Own(silence, f) /\ \A j \in Own(silence, f) : silence'[j] = silence[j]
  BY <1>2, <1>8, <1>10 DEF Own
<1>14. Own(silence', f0) = Own(silence, f0) \cup {i}
  BY <1>8, <1>10 DEF Own
<1>15. task'[t] = k
  BY <1>6, TypedParts
<1>16. LiftTask(t)'
  <2>1. \A j \in Own(silence', f0) : j <= i
    BY <1>11, <1>14 DEF Own, SilenceIds
  <2> QED
    BY <2>1, <1>1, <1>5, <1>7, <1>8, <1>10, <1>15 DEF LiftTask
<1>17. LiftRow(f0)'
  <2>1. At("writeSilenced", f0)'
    BY <1>1, <1>7, <1>15 DEF At
  <2>2. event[f0].status = "silenced" => event[f0].silence # i
    <3>1. RowOK(silence, f0, event[f0])
      BY DEF EventInv
    <3> QED
      BY <3>1, <1>2 DEF RowOK, Own
  <2>3. ~At("writeFiring", f0)
    BY <1>3, WorksAlone DEF At
  <2>4. \A j \in SilenceIds : event[f0].status = "silenced" /\ event[f0].silence = j => silence'[j].state # "lifted"
    BY <2>2, <2>3, <1>10 DEF Lifting, LiftRow
  <2> QED
    BY <2>1, <2>4, <1>3 DEF LiftRow
<1> QED
  BY <1>1, <1>3, <1>6, <1>7, <1>12, <1>13, <1>16, <1>17, WorksAlone, WorkLifts

\* A silence in use that gets another state in use.
LEMMA OtherState ==
  ASSUME EventInv, NEW i \in SilenceIds, NEW new \in {"lifted", "expired"},
         silence[i].state = "active", silence' = [silence EXCEPT ![i].state = new]
  PROVE  /\ \A f \in Fingerprints : Own(silence', f) = Own(silence, f)
         /\ silence'[i].state = new /\ \A j \in SilenceIds : j # i => silence'[j] = silence[j]
         /\ (InOrder => InOrder')
<1>1. silence'[i].state = new /\ \A j \in SilenceIds : j # i => silence'[j] = silence[j]
  BY TypedParts DEF SilenceType
<1>2. InOrder => InOrder'
  BY <1>1 DEF InOrder
<1> QED
  BY <1>1, <1>2, SilenceStateKeeps

LEMMA DeleteSilenceLifts ==
  ASSUME EventInv, Lifting, NEW t \in Tasks, DeleteSilence(t)
  PROVE  Lifting'
<1> DEFINE k == [task[t] EXCEPT !.pc = "writeFiring"]
<1>1. PICK f0 \in Fingerprints : f0 = task[t].alert.fp
  BY TaskFacts
<1>2. UNCHANGED <<event, untouched>> /\ task[t].pc = "delete" /\ task[t].seen.silence = event[f0].silence
  BY <1>1 DEF DeleteSilence, Lifting, LiftTask
<1>3. CASE Finish(t) /\ UNCHANGED silence
  BY <1>2, <1>3, FinishLifts
<1>4. CASE /\ task[t].seen.silence \in SilenceIds /\ silence[task[t].seen.silence].state = "active"
           /\ silence' = [silence EXCEPT ![task[t].seen.silence].state = "lifted"]
           /\ GoOn(t, "writeFiring")
  <2>1. PICK i \in SilenceIds : i = task[t].seen.silence
    BY <1>4
  <2>2. /\ \A f \in Fingerprints : Own(silence', f) = Own(silence, f)
        /\ silence'[i].state = "lifted" /\ \A j \in SilenceIds : j # i => silence'[j] = silence[j]
        /\ InOrder'
    BY <1>4, <2>1, OtherState DEF Lifting
  <2>3. task' = [task EXCEPT ![t] = k]
    BY <1>4, TypedParts DEF GoOn
  <2>4. k \in TaskType /\ k.pc = "writeFiring" /\ k.seen = task[t].seen /\ k.alert = task[t].alert
    BY TaskFacts DEF TaskType, Pcs
  <2> HIDE DEF k
  <2>5. task'[t] = k
    BY <2>3, TypedParts
  <2>6. i \in Own(silence, f0)
    <3>1. task[t].seen.silence \in {NoSilence} \cup Own(silence, f0)
      BY <1>1, TaskFacts DEF TaskOK
    <3> QED
      BY <3>1, <2>1 DEF NoSilence, SilenceIds
  <2>7. \A f \in Fingerprints : f # f0 =>
          Own(silence', f) = Own(silence, f) /\ \A j \in Own(silence, f) : silence'[j] = silence[j]
    BY <2>2, <2>6 DEF Own
  <2>8. LiftTask(t)'
    BY <1>1, <1>2, <2>1, <2>2, <2>4, <2>5 DEF LiftTask
  <2>9. LiftRow(f0)'
    <3>1. ~At("writeSilenced", f0) /\ ~At("writeFiring", f0)
      BY <1>2, WorksAlone DEF At
    <3>2. At("writeFiring", f0)'
      BY <1>1, <2>4, <2>5 DEF At
    <3>3. \A j \in SilenceIds : Latest(f0, j)' => Latest(f0, j)
      BY <2>2 DEF Latest
    <3> QED
      BY <3>1, <3>2, <3>3, <1>2 DEF Lifting, LiftRow
  <2> QED
    BY <1>1, <1>2, <2>2, <2>3, <2>4, <2>7, <2>8, <2>9, WorksAlone, WorkLifts
<1> QED
  BY <1>3, <1>4 DEF DeleteSilence

LEMMA ExpireLifts ==
  ASSUME EventInv, Lifting, NEW i \in SilenceIds, Expire(i)
  PROVE  Lifting'
<1>1. UNCHANGED <<task, event, untouched>> /\ silence[i].state = "active"
  BY DEF Expire
<1>2. /\ \A f \in Fingerprints : Own(silence', f) = Own(silence, f)
      /\ silence'[i].state = "expired" /\ \A j \in SilenceIds : j # i => silence'[j] = silence[j]
      /\ InOrder'
  BY OtherState DEF Expire, Lifting
<1>3. \A f \in Fingerprints : LiftRow(f)'
  <2> SUFFICES ASSUME NEW f \in Fingerprints PROVE LiftRow(f)'
    OBVIOUS
  <2>1. \A j \in SilenceIds : Latest(f, j)' => Latest(f, j)
    BY <1>2 DEF Latest
  <2>2. \A j \in SilenceIds : silence'[j].state = "lifted" => silence[j].state = "lifted"
    BY <1>2
  <2> QED
    BY <2>1, <2>2, <1>1 DEF Lifting, LiftRow, At
<1>4. \A t \in Tasks : LiftTask(t)'
  <2> SUFFICES ASSUME NEW t \in Tasks PROVE LiftTask(t)'
    OBVIOUS
  <2>1. task[t].alert.fp \in Fingerprints /\ LiftTask(t)
    BY TaskFacts DEF Lifting
  <2> QED
    BY <2>1, <1>1, <1>2 DEF LiftTask
<1> QED
  BY <1>1, <1>2, <1>3, <1>4 DEF Lifting, OneBusy

LEMMA TaskStepLifts ==
  ASSUME EventInv, Serial, Lifting, NEW t \in Tasks, TaskStep(t)
  PROVE  Lifting'
<1>1. CASE Find(t)
  <2>1. task[t].pc = "find" /\ UNCHANGED <<event, silence, untouched>> /\ event[task[t].alert.fp] \in Rows
    BY <1>1, TaskFacts DEF Find
  <2>2. Finish(t) \/ task' = [task EXCEPT ![t].pc = "store", ![t].seen = event[task[t].alert.fp]]
    BY <1>1 DEF Find
  <2> QED
    BY <2>1, <2>2, FinishLifts, GoOnLifts DEF Pcs
<1>2. CASE Read(t)
  <2>1. /\ task[t].pc = "read" /\ UNCHANGED <<event, silence, untouched>> /\ event[task[t].alert.fp] \in Rows
        /\ task' = [task EXCEPT ![t].pc = "card", ![t].seen = event[task[t].alert.fp]]
    BY <1>2, TaskFacts DEF Read
  <2> QED
    BY <2>1, GoOnLifts DEF Pcs
<1>3. CASE Card(t)
  <2>1. task[t].pc = "card" /\ UNCHANGED <<event, silence, untouched>> /\ task[t].seen \in Rows
    BY <1>3, TaskFacts DEF Card
  <2>2. Finish(t) \/ GoOn(t, "escalate")
    BY <1>3 DEF Card
  <2>3. CASE GoOn(t, "escalate")
    <3>1. [task[t] EXCEPT !.pc = "escalate"] = [task[t] EXCEPT !.pc = "escalate", !.seen = task[t].seen]
      BY TaskFacts DEF TaskType
    <3>2. task' = [task EXCEPT ![t].pc = "escalate", ![t].seen = task[t].seen]
      BY <2>3, <3>1, TypedParts DEF GoOn
    <3> QED
      BY <2>1, <3>2, GoOnLifts DEF Pcs
  <2> QED
    BY <2>1, <2>2, <2>3, FinishLifts
<1>4. ~CardPanics(t)
  BY DEF CardPanics, Serial
<1> QED
  BY <1>1, <1>2, <1>3, <1>4, StoreLifts, EscalateLifts, PostSilenceLifts, WriteSilencedLifts,
     DeleteSilenceLifts, WriteFiringLifts, WriteClaimedLifts DEF TaskStep

LEMMA NextLifts == EventInv /\ LiftInv /\ [EventNext]_eventVars => LiftInv'
<1> SUFFICES ASSUME EventInv, LiftInv, [EventNext]_eventVars, Serial' PROVE Lifting'
  BY DEF LiftInv
<1>1. eventMode' = eventMode
  BY ModeStays
<1>2. Serial /\ Lifting
  BY <1>1 DEF Serial, LiftInv
<1>3. CASE (\E m \in Messages : Notify(m)) \/ MonitorAlertReceive \/ RefreshCaches \/ UNCHANGED eventVars
  BY <1>2, <1>3, UnnoticedLifts DEF Notify, MonitorAlertReceive, RefreshCaches, eventVars
<1>4. ASSUME NEW t \in Tasks, Dispatch(t) \/ TaskStep(t) \/ GiveUp(t) PROVE Lifting'
  BY <1>2, <1>4, DispatchLifts, TaskStepLifts DEF GiveUp, Serial
<1>5. ASSUME NEW t \in Tasks, NEW f \in Fingerprints, Silence(t, f) \/ UnSilence(t, f) \/ Claim(t, f)
      PROVE  Lifting'
  BY <1>2, <1>5, BeginOperationLifts DEF Silence, UnSilence, Claim, Operations
<1>6. CASE \E i \in SilenceIds : Expire(i)
  BY <1>2, <1>6, ExpireLifts
<1>7. ~Crash
  BY <1>2 DEF Crash, Serial
<1> QED
  BY <1>3, <1>4, <1>5, <1>6, <1>7 DEF EventNext

\* LastSilenceLiftable: with one goroutine at a time and nothing failing, an event that nothing has
\* written since its last silence names that silence as long as it is active, and no silenced event
\* names a lifted one, for any operators' requests among any alerts (MonitorAlertSilence,
\* MonitorAlertUnSilence, UpdateMonitorAlertEvent).
THEOREM SilencesCanBeLifted == EventSpec => []LastSilenceLiftable
<1>1. EventInv /\ LiftInv => LastSilenceLiftable
  <2> SUFFICES ASSUME EventInv, LiftInv, Serial, Idle, NEW f \in Fingerprints, NEW i \in SilenceIds
               PROVE  /\ f \in untouched /\ i \in ActiveSilences(f) /\ (\A j \in SilencesOf(f) : j <= i) =>
                           event[f].status = "silenced" /\ event[f].silence = i
                      /\ event[f].status = "silenced" /\ event[f].silence = i => silence[i].state # "lifted"
    BY DEF LastSilenceLiftable
  <2>1. ~At("writeSilenced", f) /\ ~At("writeFiring", f)
    BY DEF Idle, At
  <2>2. i \in ActiveSilences(f) /\ (\A j \in SilencesOf(f) : j <= i) => Latest(f, i)
    BY DEF ActiveSilences, SilencesOf, Latest, Own
  <2> QED
    BY <2>1, <2>2 DEF LiftInv, Lifting, LiftRow
<1> QED
  BY <1>1, LiftInitInv, NextLifts, EventInvariant, PTL DEF EventSpec

----
(***************************************************************************)
(* Configuration caches: the refreshes, the jobs that save, the rows.      *)
(***************************************************************************)

RefreshSteps == {"idle", "check", "generate", "store", "hash", "create", "update"}
Generating == {"generate", "store", "hash"}
HashType == Config \cup {NoConfig}
RefreshType == [pc : RefreshSteps, todo : SUBSET Pools, list : [Pools -> PoolRow \cup {NoPool}],
                at : Pools \cup {Absent}, hash : HashType, parts : AnyParts,
                save : [Ips -> HashType], create : SUBSET Ips, update : SUBSET (Ips \X Nat)]

\* A refresh generates a pool that it has read, with instances, and saves rows that it has
\* generated.
RefreshOK(c) ==
  /\ c \in RefreshType
  /\ \A p \in c.todo : c.list[p] # NoPool
  /\ c.pc \in Generating => c.at \in Pools /\ c.list[c.at] # NoPool /\ c.list[c.at].ips # {}
  /\ c.create \subseteq ToSave(c)
  /\ \A u \in c.update : u[1] \in ToSave(c)

CacheShape ==
  /\ configMode \in ConfigModes
  /\ pool \in [Pools -> PoolRow \cup {NoPool}]
  /\ parts \in [Ids -> AnyParts]
  /\ lastId \in 0..MaxId
  /\ served \in [Ips -> HashType]
  /\ members \in [Ids -> SUBSET Ips]
  /\ hash \in [Pools -> HashType]
  /\ saved \in [Ips -> Seq(Config)]
  /\ refresh \in [Refreshers -> RefreshType]
  /\ torn \subseteq Pools /\ contested \subseteq Ips /\ reused \subseteq Pools

CacheTyped == CacheShape /\ \A r \in Refreshers : RefreshOK(refresh[r])

----
\* A row read from the table, or NoPool.
LEMMA RowFields ==
  /\ \A row \in PoolRow : /\ row.id \in Ids /\ row.ips \in SUBSET Ips /\ row.fields \in Versions
                          /\ row # NoPool
  /\ NoPool.id = 0 /\ NoPool.ips = {}
BY MaxIdAssumption DEF PoolRow, NoPool, Ids

\* A configuration is not the absence of one.
LEMMA ConfigIsThere == \A k \in Config : k # NoConfig
BY DEF Config, NoConfig

LEMMA RestingOK == RefreshOK(Resting)
BY DEF Resting, RefreshOK, RefreshType, RefreshSteps, Generating, ToSave, Nothing, HashType, NoHash, AnyParts

\* One refresher goes on, the others stay.
LEMMA OneRefresherMoves ==
  ASSUME CacheTyped, NEW r \in Refreshers, NEW c, RefreshTo(r, c), RefreshOK(c)
  PROVE  /\ refresh' \in [Refreshers -> RefreshType]
         /\ \A s \in Refreshers : RefreshOK(refresh'[s])
         /\ refresh'[r] = c /\ \A s \in Refreshers \ {r} : refresh'[s] = refresh[s]
<1>1. c \in RefreshType BY DEF RefreshOK
<1>2. refresh \in [Refreshers -> RefreshType] BY DEF CacheTyped, CacheShape
<1>3. refresh' = [refresh EXCEPT ![r] = c] BY DEF RefreshTo
<1>4. \A s \in Refreshers : RefreshOK(refresh[s]) BY DEF CacheTyped
<1> QED BY <1>1, <1>2, <1>3, <1>4

\* What a pool is hashed and generated to.
LEMMA HashTyped ==
  ASSUME NEW row \in PoolRow, NEW content \in AnyParts
  PROVE  /\ Hash(row, content).ips = row.ips
         /\ Hash(row, content).fields = IF Caching("records") THEN Absent ELSE row.fields
         /\ Hash(row, content).parts = IF Caching("records") THEN content ELSE NoParts
         /\ ConfigOf(row, content).ips = row.ips
         /\ row.ips # {} => /\ Hash(row, content) \in Config /\ Hash(row, content) # NoHash
                            /\ ConfigOf(row, content) \in Config /\ ConfigOf(row, content) # NoConfig
<1>1. PICK h : h = Hash(row, content) OBVIOUS
<1>2. PICK k : k = ConfigOf(row, content) OBVIOUS
<1>3. PICK fields, some : /\ h = [fields |-> fields, ips |-> row.ips, parts |-> some]
                          /\ fields = IF Caching("records") THEN Absent ELSE row.fields
                          /\ some = IF Caching("records") THEN content ELSE NoParts
  BY <1>1 DEF Hash
<1>4. h.ips = row.ips /\ h.fields = fields /\ h.parts = some BY <1>3
<1>5. PICK own : /\ k = [fields |-> own, parts |-> content, ips |-> row.ips]
                 /\ own = IF Caching("main") THEN row.fields ELSE Absent
  BY <1>2 DEF ConfigOf
<1>6. /\ fields \in Versions \cup {Absent} /\ own \in Versions \cup {Absent}
      /\ some \in AnyParts /\ row.ips \in SUBSET Ips
  BY <1>3, <1>5, RowFields DEF AnyParts
<1>7. row.ips # {} => h \in Config /\ k \in Config BY <1>3, <1>5, <1>6 DEF Config
<1> QED BY <1>1, <1>2, <1>3, <1>4, <1>5, <1>7, ConfigIsThere DEF NoHash

\* The instances that get a configuration are the pool's.
LEMMA ShareOfPool ==
  ASSUME NEW row \in PoolRow, NEW content \in AnyParts
  PROVE  Share(row, content) \subseteq row.ips
BY AllottedAssumption, RowFields DEF Share, AnyParts

----
(***************************************************************************)
(* Changes of the table of pools.                                          *)
(***************************************************************************)

\* The row of the name o becomes that of the name p.
Moved(o, p, row) ==
  /\ pool' \in [Pools -> PoolRow \cup {NoPool}] /\ row \in PoolRow \cup {NoPool}
  /\ \A q \in Pools : pool'[q] = IF q = p THEN row ELSE IF q = o THEN NoPool ELSE pool[q]
  /\ lastId \in 0..MaxId /\ lastId' \in 0..MaxId /\ lastId <= lastId'
  /\ contested' = contested \cup StillOf(row.id, row.ips)
  /\ reused' = IF ~Listed(p) /\ UsedBefore(p) THEN reused \cup {p} ELSE reused
  /\ p = o \/ ~Listed(p)
  /\ \/ row = NoPool
     \/ lastId < lastId' /\ row.id = lastId' /\ ~Listed(p)
     \/ Listed(o) /\ row.id = pool[o].id
  /\ FreeFor(o, row.ips)
  /\ UNCHANGED <<configMode, parts, served, members, hash, saved, refresh, torn>>

PoolChange(p) ==
  \/ \E ips \in SUBSET Ips, v \in configMode.versions :
       CreatePool(p, ips, v) \/ \E q \in Pools : UpdatePool(p, q, ips, v)
  \/ DeletePool(p)

LEMMA PoolMoves ==
  ASSUME CacheTyped, NEW p \in Pools, PoolChange(p)
  PROVE  \E o \in Pools, q \in Pools : \E row : Moved(o, q, row)
<1>1. pool \in [Pools -> PoolRow \cup {NoPool}] /\ lastId \in 0..MaxId /\ configMode.versions \subseteq Versions
  BY ConfigModesAssumption DEF CacheTyped, CacheShape
<1>2. ASSUME NEW ips \in SUBSET Ips, NEW v \in configMode.versions, CreatePool(p, ips, v)
      PROVE  \E row : Moved(p, p, row)
  <2>1. lastId' = lastId + 1 /\ lastId' \in 1..MaxId /\ lastId' \in 0..MaxId /\ lastId < lastId' /\ lastId <= lastId'
    BY <1>1, <1>2, MaxIdAssumption DEF CreatePool
  <2>2. PICK row : row = [id |-> lastId', ips |-> ips, fields |-> v] OBVIOUS
  <2>3. row \in PoolRow /\ row.id = lastId' /\ row.ips = ips BY <1>1, <2>1, <2>2 DEF PoolRow, Ids
  <2>4. PICK new : new = [pool EXCEPT ![p] = row] OBVIOUS
  <2>5. SetPools(new, p) /\ UNCHANGED parts /\ ~Listed(p) /\ FreeFor(p, ips)
    BY <1>2, <2>2, <2>4 DEF CreatePool
  <2>6. new[p] = row /\ new \in [Pools -> PoolRow \cup {NoPool}]
        /\ \A q \in Pools : new[q] = IF q = p THEN row ELSE pool[q]
    BY <1>1, <2>3, <2>4
  <2>7. /\ pool' = new /\ contested' = contested \cup StillOf(row.id, row.ips)
        /\ reused' = IF ~Listed(p) /\ UsedBefore(p) THEN reused \cup {p} ELSE reused
        /\ UNCHANGED <<configMode, served, members, hash, saved, refresh, torn>>
    BY <2>5, <2>6 DEF SetPools
  <2> QED BY <1>1, <2>1, <2>3, <2>5, <2>6, <2>7 DEF Moved
<1>3. ASSUME NEW ips \in SUBSET Ips, NEW v \in configMode.versions, NEW q \in Pools, UpdatePool(p, q, ips, v)
      PROVE  \E row : Moved(p, q, row)
  <2>1. pool[p] \in PoolRow /\ Listed(p) BY <1>1, <1>3 DEF UpdatePool, Listed
  <2>2. PICK row : row = [pool[p] EXCEPT !.ips = ips, !.fields = v] OBVIOUS
  <2>3. row \in PoolRow /\ row.id = pool[p].id /\ row.ips = ips BY <1>1, <2>1, <2>2 DEF PoolRow
  <2>4. PICK new : new = [pool EXCEPT ![p] = NoPool, ![q] = row] OBVIOUS
  <2>5. SetPools(new, q) /\ UNCHANGED <<parts, lastId>> /\ FreeFor(p, ips) /\ (q = p \/ ~Listed(q))
    BY <1>3, <2>2, <2>4 DEF UpdatePool
  <2>6. new[q] = row /\ new \in [Pools -> PoolRow \cup {NoPool}]
        /\ \A o \in Pools : new[o] = IF o = q THEN row ELSE IF o = p THEN NoPool ELSE pool[o]
    BY <1>1, <2>3, <2>4
  <2>7. /\ pool' = new /\ contested' = contested \cup StillOf(row.id, row.ips)
        /\ reused' = IF ~Listed(q) /\ UsedBefore(q) THEN reused \cup {q} ELSE reused
        /\ UNCHANGED <<configMode, served, members, hash, saved, refresh, torn>>
    BY <2>5, <2>6 DEF SetPools
  <2>8. lastId' \in 0..MaxId /\ lastId <= lastId' BY <1>1, <2>5
  <2> QED BY <1>1, <2>1, <2>3, <2>5, <2>6, <2>7, <2>8 DEF Moved
<1>4. ASSUME DeletePool(p) PROVE \E row : Moved(p, p, row)
  <2>1. PICK new : new = [pool EXCEPT ![p] = NoPool] OBVIOUS
  <2>2. SetPools(new, p) /\ UNCHANGED <<parts, lastId>> BY <1>4, <2>1 DEF DeletePool
  <2>3. new[p] = NoPool /\ new \in [Pools -> PoolRow \cup {NoPool}]
        /\ \A o \in Pools : new[o] = IF o = p THEN NoPool ELSE pool[o]
    BY <1>1, <2>1
  <2>4. /\ pool' = new /\ contested' = contested \cup StillOf(NoPool.id, NoPool.ips)
        /\ reused' = IF ~Listed(p) /\ UsedBefore(p) THEN reused \cup {p} ELSE reused
        /\ UNCHANGED <<configMode, served, members, hash, saved, refresh, torn>>
    BY <2>2, <2>3 DEF SetPools
  <2>5. lastId' \in 0..MaxId /\ lastId <= lastId' BY <1>1, <2>2
  <2>6. FreeFor(p, NoPool.ips) BY RowFields DEF FreeFor
  <2> QED BY <1>1, <2>2, <2>3, <2>4, <2>5, <2>6 DEF Moved
<1> QED BY <1>2, <1>3, <1>4 DEF PoolChange

LEMMA MovedTyped ==
  ASSUME CacheTyped, NEW o \in Pools, NEW p \in Pools, NEW row, Moved(o, p, row)
  PROVE  CacheTyped'
<1>1. row.ips \subseteq Ips BY RowFields DEF Moved
<1>2. contested' \subseteq Ips /\ reused' \subseteq Pools
  BY <1>1 DEF Moved, CacheTyped, CacheShape, StillOf
<1> QED BY <1>2 DEF Moved, CacheTyped, CacheShape

LEMMA SetPartsTyped ==
  ASSUME CacheTyped, NEW i \in Ids, NEW content \in AnyParts, SetParts(i, content)
  PROVE  CacheTyped'
BY DEF SetParts, CacheTyped, CacheShape

----
(***************************************************************************)
(* Steps of a refresh.                                                     *)
(***************************************************************************)

\* What BeginRefresh reads.
ListRead(d) ==
  /\ d = [Resting EXCEPT !.pc = "check", !.todo = d.todo, !.list = d.list]
  /\ d.list \in [Pools -> PoolRow \cup {NoPool}] /\ d.todo \subseteq Pools
  /\ \A p \in Pools : d.list[p] \in {pool[p], NoPool}
  /\ \A p \in d.todo : d.list[p] # NoPool
  /\ d.pc = "check" /\ d.save = Nothing

LEMMA BeginReads ==
  ASSUME CacheTyped, NEW r \in Refreshers, BeginRefresh(r)
  PROVE  \E d : RefreshTo(r, d) /\ ListRead(d) /\ RefreshOK(d)
<1>1. PICK listed : listed = {p \in Pools : Listed(p) /\ (Caching("main") \/ Fit(pool[p]))} OBVIOUS
<1>2. PICK list : list = [p \in Pools |-> IF p \in listed THEN pool[p] ELSE NoPool] OBVIOUS
<1>3. PICK d : d = [Resting EXCEPT !.pc = "check", !.todo = listed, !.list = list] OBVIOUS
<1>4. RefreshTo(r, d) BY <1>1, <1>2, <1>3 DEF BeginRefresh
<1>5. /\ list \in [Pools -> PoolRow \cup {NoPool}] /\ listed \subseteq Pools
      /\ \A p \in Pools : list[p] \in {pool[p], NoPool}
      /\ \A p \in listed : list[p] # NoPool
  BY <1>1, <1>2 DEF CacheTyped, CacheShape, Listed
<1>6. Resting \in RefreshType BY RestingOK DEF RefreshOK
<1>7. /\ d \in RefreshType /\ d.pc = "check" /\ d.list = list /\ d.todo = listed
      /\ d.create = {} /\ d.update = {} /\ d.save = Nothing
  BY <1>3, <1>5, <1>6 DEF RefreshType, RefreshSteps, Resting
<1>8. RefreshOK(d) BY <1>5, <1>7 DEF RefreshOK, Generating
<1>9. ListRead(d) BY <1>3, <1>5, <1>7 DEF ListRead
<1> QED BY <1>4, <1>8, <1>9

LEMMA BeginTyped ==
  ASSUME CacheTyped, NEW r \in Refreshers, BeginRefresh(r)
  PROVE  CacheTyped'
BY BeginReads, OneRefresherMoves DEF BeginRefresh, ConfigSame, CacheTyped, CacheShape

\* CheckPool, for the parts that it reads.
CheckWith(r, p, content) ==
  LET c == refresh[r]
      new == Hash(c.list[p], content)
  IN RefreshTo(r, IF c.list[p].ips = {} \/ hash[p] = new THEN [c EXCEPT !.todo = @ \ {p}]
                  ELSE [c EXCEPT !.todo = @ \ {p}, !.pc = "generate", !.at = p, !.hash = new])

\* A pool without instances or with its hash is passed over; another one is generated.
LEMMA CheckGoesTo ==
  ASSUME CacheTyped, NEW r \in Refreshers, NEW p \in Pools, CheckPool(r, p)
  PROVE  \E d : /\ RefreshTo(r, d) /\ RefreshOK(d)
                /\ d.list = refresh[r].list /\ d.save = refresh[r].save
                /\ \/ d.pc = "check"
                   \/ /\ d.pc = "generate" /\ d.at = p
                      /\ \E content \in AnyParts : d.hash = Hash(refresh[r].list[p], content)
<1>1. PICK c : c = refresh[r] OBVIOUS
<1>2. c \in RefreshType /\ RefreshOK(c) /\ p \in c.todo /\ c.pc = "check"
  BY <1>1 DEF CacheTyped, CacheShape, CheckPool
<1>3. PICK row : row = c.list[p] OBVIOUS
<1>4. row \in PoolRow /\ row.id \in Ids BY <1>2, <1>3, RowFields DEF RefreshOK, RefreshType
<1>5. parts[row.id] \in AnyParts /\ NoParts \in AnyParts BY <1>4 DEF CacheTyped, CacheShape, AnyParts
<1>6. PICK content \in AnyParts : CheckWith(r, p, content)
  BY <1>1, <1>3, <1>5 DEF CheckPool, CheckWith
<1>7. PICK new : new = Hash(row, content) OBVIOUS
<1>8. row.ips # {} => new \in HashType BY <1>4, <1>7, HashTyped DEF HashType
<1>9. PICK d : d = IF row.ips = {} \/ hash[p] = new THEN [c EXCEPT !.todo = @ \ {p}]
                   ELSE [c EXCEPT !.todo = @ \ {p}, !.pc = "generate", !.at = p, !.hash = new]
  OBVIOUS
<1>10. RefreshTo(r, d) BY <1>1, <1>3, <1>6, <1>7, <1>9 DEF CheckWith
<1>11. CASE row.ips = {} \/ hash[p] = new
  <2>1. d = [c EXCEPT !.todo = @ \ {p}] BY <1>9, <1>11
  <2>2. /\ d \in RefreshType /\ d.pc = "check" /\ d.list = c.list /\ d.save = c.save
        /\ d.todo = c.todo \ {p} /\ d.create = c.create /\ d.update = c.update
    BY <1>2, <2>1 DEF RefreshType
  <2>3. RefreshOK(d) BY <1>2, <2>2 DEF RefreshOK, Generating, ToSave
  <2> QED BY <1>1, <1>10, <2>2, <2>3
<1>12. CASE ~(row.ips = {} \/ hash[p] = new)
  <2>1. d = [c EXCEPT !.todo = @ \ {p}, !.pc = "generate", !.at = p, !.hash = new] BY <1>9, <1>12
  <2>2. /\ d \in RefreshType /\ d.pc = "generate" /\ d.list = c.list /\ d.save = c.save
        /\ d.todo = c.todo \ {p} /\ d.create = c.create /\ d.update = c.update /\ d.at = p /\ d.hash = new
    BY <1>2, <1>8, <1>12, <2>1 DEF RefreshType, RefreshSteps
  <2>3. RefreshOK(d) BY <1>2, <1>3, <1>4, <1>12, <2>2, RowFields DEF RefreshOK, ToSave
  <2> QED BY <1>1, <1>3, <1>7, <1>10, <2>2, <2>3
<1> QED BY <1>11, <1>12

LEMMA CheckTyped ==
  ASSUME CacheTyped, NEW r \in Refreshers, NEW p \in Pools, CheckPool(r, p)
  PROVE  CacheTyped'
BY CheckGoesTo, OneRefresherMoves DEF CheckPool, ConfigSame, CacheTyped, CacheShape

\* A pool is left, or the parts that were read are to be stored.
LEMMA GenerateGoesTo ==
  ASSUME CacheTyped, NEW r \in Refreshers, GeneratePool(r)
  PROVE  \E d : /\ RefreshTo(r, d) /\ RefreshOK(d)
                /\ d.list = refresh[r].list /\ d.save = refresh[r].save
                /\ \/ d.pc = "check"
                   \/ d.pc = "store" /\ d.at = refresh[r].at /\ d.hash = refresh[r].hash
<1>1. PICK c : c = refresh[r] OBVIOUS
<1>2. c \in RefreshType /\ RefreshOK(c) /\ c.pc = "generate" /\ c.at \in Pools /\ c.list[c.at] # NoPool
  BY <1>1 DEF CacheTyped, CacheShape, GeneratePool, RefreshOK, Generating
<1>3. c.list[c.at].id \in Ids BY <1>2, RowFields DEF RefreshType
<1>4. PICK content \in AnyParts : content = parts[c.list[c.at].id] BY <1>3 DEF CacheTyped, CacheShape
<1>5. \/ RefreshTo(r, [c EXCEPT !.pc = "check", !.at = Absent, !.hash = NoHash])
      \/ RefreshTo(r, [c EXCEPT !.pc = "store", !.parts = content])
  BY <1>1, <1>4 DEF GeneratePool
<1>6. PICK d : RefreshTo(r, d) /\ \/ d = [c EXCEPT !.pc = "check", !.at = Absent, !.hash = NoHash]
                                  \/ d = [c EXCEPT !.pc = "store", !.parts = content]
  BY <1>5
<1>7. RefreshOK(d)
  BY <1>2, <1>6 DEF RefreshOK, RefreshType, RefreshSteps, Generating, ToSave, HashType, NoHash
<1>8. /\ d.list = c.list /\ d.save = c.save
      /\ d.pc = "check" \/ (d.pc = "store" /\ d.at = c.at /\ d.hash = c.hash)
  BY <1>2, <1>6 DEF RefreshType
<1> QED BY <1>1, <1>6, <1>7, <1>8

LEMMA GenerateTyped ==
  ASSUME CacheTyped, NEW r \in Refreshers, GeneratePool(r)
  PROVE  CacheTyped'
BY GenerateGoesTo, OneRefresherMoves DEF GeneratePool, ConfigSame, CacheTyped, CacheShape

\* What a refresher stores: the instances done and those that are stale.
Stored(row, config, done) ==
  /\ served' = [ip \in Ips |-> IF ip \in done THEN config
                               ELSE IF ip \in members[row.id] \ done THEN NoConfig ELSE served[ip]]
  /\ members' = [members EXCEPT ![row.id] = done]

StoredSome(row, content) ==
  \E failed \in IF configMode.faults THEN SUBSET Share(row, content) ELSE {{}} :
    Stored(row, ConfigOf(row, content), Share(row, content) \ failed)

SaveWith(save, share, config) == [ip \in Ips |-> IF ip \in share THEN config ELSE save[ip]]

LEMMA StoreGoesTo ==
  ASSUME CacheTyped, NEW r \in Refreshers, StorePool(r),
         NEW c, c = refresh[r], NEW row, row = c.list[c.at]
  PROVE  /\ c \in RefreshType /\ RefreshOK(c) /\ c.pc = "store" /\ c.at \in Pools
         /\ row \in PoolRow /\ row.ips # {} /\ c.parts \in AnyParts
         /\ Share(row, c.parts) \subseteq row.ips
         /\ ConfigOf(row, c.parts) \in Config /\ ConfigOf(row, c.parts) # NoConfig
         /\ \E done \in SUBSET Share(row, c.parts) :
              /\ Stored(row, ConfigOf(row, c.parts), done)
              /\ ~configMode.faults => done = Share(row, c.parts)
         /\ \E d : /\ RefreshTo(r, d) /\ RefreshOK(d) /\ d.pc = "hash" /\ d.at = c.at /\ d.list = c.list
                   /\ d.hash = c.hash /\ d.parts = c.parts
                   /\ d.save = SaveWith(c.save, Share(row, c.parts), ConfigOf(row, c.parts))
<1>1. c \in RefreshType /\ RefreshOK(c) /\ c.pc = "store" /\ c.at \in Pools /\ c.parts \in AnyParts
  BY DEF CacheTyped, CacheShape, StorePool, RefreshOK, RefreshType, Generating
<1>2. row \in PoolRow /\ row.ips # {} BY <1>1 DEF RefreshOK, RefreshType, Generating
<1>3. PICK share : share = Share(row, c.parts) OBVIOUS
<1>4. share \subseteq row.ips BY <1>1, <1>2, <1>3, ShareOfPool
<1>5. PICK config : config = ConfigOf(row, c.parts) OBVIOUS
<1>6. config \in Config /\ config # NoConfig BY <1>1, <1>2, <1>5, HashTyped
<1>7. PICK failed \in (IF configMode.faults THEN SUBSET share ELSE {{}}) : Stored(row, config, share \ failed)
  <2>1. StoredSome(refresh[r].list[refresh[r].at], refresh[r].parts)
    BY DEF StorePool, StoredSome, Stored
  <2>2. StoredSome(row, c.parts) BY <2>1
  <2> QED BY <1>3, <1>5, <2>2 DEF StoredSome
<1>8. PICK done : done = share \ failed OBVIOUS
<1>9. /\ done \in SUBSET share /\ Stored(row, config, done)
      /\ ~configMode.faults => done = share
  BY <1>7, <1>8
<1>10. PICK d : d = [c EXCEPT !.pc = "hash",
                              !.save = [ip \in Ips |-> IF ip \in share THEN config ELSE c.save[ip]]]
  OBVIOUS
<1>11. RefreshTo(r, d) BY <1>3, <1>5, <1>10 DEF StorePool
<1>12. /\ d \in RefreshType /\ d.pc = "hash" /\ d.todo = c.todo /\ d.list = c.list /\ d.at = c.at
       /\ d.create = c.create /\ d.update = c.update /\ d.hash = c.hash /\ d.parts = c.parts
       /\ d.save = [ip \in Ips |-> IF ip \in share THEN config ELSE c.save[ip]]
  BY <1>1, <1>6, <1>10 DEF RefreshType, RefreshSteps, HashType
<1>13. ToSave(c) \subseteq ToSave(d) BY <1>6, <1>12 DEF ToSave
<1>14. RefreshOK(d) BY <1>1, <1>12, <1>13 DEF RefreshOK, Generating
<1>15. /\ d.pc = "hash" /\ d.at = c.at /\ d.list = c.list /\ d.hash = c.hash /\ d.parts = c.parts
       /\ d.save = SaveWith(c.save, Share(row, c.parts), ConfigOf(row, c.parts))
  <2>1. d.save = SaveWith(c.save, share, config) BY <1>12 DEF SaveWith
  <2> QED BY <1>3, <1>5, <1>12, <2>1
<1>16. \E done2 \in SUBSET Share(row, c.parts) :
         Stored(row, ConfigOf(row, c.parts), done2) /\ (~configMode.faults => done2 = Share(row, c.parts))
  BY <1>3, <1>5, <1>9
<1> QED BY <1>1, <1>2, <1>3, <1>4, <1>5, <1>6, <1>11, <1>14, <1>15, <1>16

LEMMA StoreTyped ==
  ASSUME CacheTyped, NEW r \in Refreshers, StorePool(r)
  PROVE  CacheTyped'
<1>1. PICK c : c = refresh[r] OBVIOUS
<1>2. PICK row : row = c.list[c.at] OBVIOUS
<1>3. /\ row \in PoolRow /\ Share(row, c.parts) \subseteq row.ips /\ ConfigOf(row, c.parts) \in Config
      /\ \E done \in SUBSET Share(row, c.parts) : Stored(row, ConfigOf(row, c.parts), done)
      /\ \E d : RefreshTo(r, d) /\ RefreshOK(d)
  BY <1>1, <1>2, StoreGoesTo
<1>4. PICK done \in SUBSET Share(row, c.parts) : Stored(row, ConfigOf(row, c.parts), done) BY <1>3
<1>5. row.id \in Ids /\ done \subseteq Ips BY <1>3, <1>4, RowFields
<1>6. served' \in [Ips -> HashType] BY <1>3, <1>4 DEF Stored, HashType, CacheTyped, CacheShape
<1>7. members' \in [Ids -> SUBSET Ips] BY <1>4, <1>5 DEF Stored, CacheTyped, CacheShape
<1> QED BY <1>3, <1>6, <1>7, OneRefresherMoves DEF StorePool, ConfigSame, CacheTyped, CacheShape

LEMMA StoreHashTyped ==
  ASSUME CacheTyped, NEW r \in Refreshers, StoreHash(r)
  PROVE  CacheTyped'
<1>1. PICK c : c = refresh[r] OBVIOUS
<1>2. c \in RefreshType /\ RefreshOK(c) /\ c.pc = "hash" /\ c.at \in Pools
  BY <1>1 DEF CacheTyped, CacheShape, StoreHash, RefreshOK, Generating
<1>3. PICK d : d = [c EXCEPT !.pc = "check", !.at = Absent, !.hash = NoHash, !.parts = NoParts] OBVIOUS
<1>4. RefreshTo(r, d) BY <1>1, <1>3 DEF StoreHash
<1>5. RefreshOK(d)
  BY <1>2, <1>3 DEF RefreshOK, RefreshType, RefreshSteps, Generating, ToSave, HashType, NoHash, AnyParts
<1>6. hash' \in [Pools -> HashType]
  BY <1>1, <1>2 DEF StoreHash, RefreshType, CacheTyped, CacheShape
<1>7. torn' \subseteq Pools /\ reused' \subseteq Pools
  BY <1>1, <1>2 DEF StoreHash, CacheTyped, CacheShape
<1> QED BY <1>4, <1>5, <1>6, <1>7, OneRefresherMoves DEF StoreHash, ConfigSame, CacheTyped, CacheShape

LEMMA LookupTyped ==
  ASSUME CacheTyped, NEW r \in Refreshers, Lookup(r)
  PROVE  CacheTyped'
<1>1. PICK c : c = refresh[r] OBVIOUS
<1>2. c \in RefreshType /\ RefreshOK(c) /\ c.pc = "check"
  BY <1>1 DEF CacheTyped, CacheShape, Lookup
<1>3. \A ip \in Ips : saved[ip] \in Seq(Config) BY DEF CacheTyped, CacheShape
<1>4. PICK new : new = {ip \in ToSave(c) : saved[ip] = <<>>} OBVIOUS
<1>5. PICK old : old = {<<ip, Len(saved[ip])>> : ip \in
                          {i \in ToSave(c) : saved[i] # <<>> /\ saved[i][Len(saved[i])] # c.save[i]}}
  OBVIOUS
<1>6. new \subseteq Ips /\ old \subseteq Ips \X Nat
  BY <1>3, <1>4, <1>5 DEF ToSave
<1>7. PICK d : d = [c EXCEPT !.pc = "create", !.create = new, !.update = old] OBVIOUS
<1>8. RefreshTo(r, Resting) \/ RefreshTo(r, d) BY <1>1, <1>4, <1>5, <1>7 DEF Lookup
<1>9. /\ d \in RefreshType /\ d.todo = c.todo /\ d.list = c.list /\ d.pc = "create"
      /\ d.save = c.save /\ d.create = new /\ d.update = old
  BY <1>2, <1>6, <1>7 DEF RefreshType, RefreshSteps
<1>10. ToSave(d) = ToSave(c) BY <1>9 DEF ToSave
<1>11. RefreshOK(d) BY <1>2, <1>4, <1>5, <1>9, <1>10 DEF RefreshOK, Generating
<1> QED BY <1>8, <1>11, RestingOK, OneRefresherMoves DEF Lookup, ConfigSame, CacheTyped, CacheShape

LEMMA RowsTyped ==
  ASSUME CacheTyped, NEW r \in Refreshers, CreateRows(r) \/ UpdateRows(r)
  PROVE  CacheTyped'
<1>1. PICK c : c = refresh[r] OBVIOUS
<1>2. c \in RefreshType /\ RefreshOK(c) BY <1>1 DEF CacheTyped, CacheShape
<1>3. \A ip \in ToSave(c) : c.save[ip] \in Config BY <1>2 DEF RefreshType, ToSave, HashType
<1>4. saved \in [Ips -> Seq(Config)] BY DEF CacheTyped, CacheShape
<1>5. CASE CreateRows(r)
  <2>1. PICK d : d = [c EXCEPT !.pc = "update"] OBVIOUS
  <2>2. RefreshTo(r, d) BY <1>1, <1>5, <2>1 DEF CreateRows
  <2>3. RefreshOK(d) BY <1>2, <2>1 DEF RefreshOK, RefreshType, RefreshSteps, Generating, ToSave
  <2>4. saved' \in [Ips -> Seq(Config)]
    BY <1>1, <1>2, <1>3, <1>4, <1>5 DEF CreateRows, RefreshOK
  <2> QED BY <1>5, <2>2, <2>3, <2>4, OneRefresherMoves DEF CreateRows, ConfigSame, CacheTyped, CacheShape
<1>6. CASE UpdateRows(r)
  <2>1. saved' \in [Ips -> Seq(Config)]
    <3>1. \A ip \in Ips, k \in Nat : <<ip, k>> \in c.update => c.save[ip] \in Config
      BY <1>2, <1>3 DEF RefreshOK, Generating
    <3>2. ASSUME NEW ip \in Ips
          PROVE  [k \in DOMAIN saved[ip] |-> IF <<ip, k>> \in c.update THEN c.save[ip] ELSE saved[ip][k]]
                   \in Seq(Config)
      <4>1. PICK rows \in Seq(Config) : rows = saved[ip] BY <1>4
      <4>2. DOMAIN rows = 1..Len(rows) /\ Len(rows) \in Nat /\ \A k \in 1..Len(rows) : rows[k] \in Config
        OBVIOUS
      <4>3. PICK g : g = [k \in 1..Len(rows) |-> IF <<ip, k>> \in c.update THEN c.save[ip] ELSE rows[k]]
        OBVIOUS
      <4>4. \A k \in 1..Len(rows) : g[k] \in Config BY <3>1, <4>2, <4>3
      <4>5. g \in Seq(Config) BY <4>2, <4>3, <4>4
      <4> QED BY <4>1, <4>2, <4>3, <4>5
    <3>3. PICK f : f = [ip \in Ips |-> [k \in DOMAIN saved[ip] |->
                          IF <<ip, k>> \in c.update THEN c.save[ip] ELSE saved[ip][k]]]
      OBVIOUS
    <3>4. \A ip \in Ips : f[ip] \in Seq(Config) BY <3>2, <3>3
    <3>5. saved' = f BY <1>1, <1>6, <3>3 DEF UpdateRows
    <3> QED BY <3>3, <3>4, <3>5
  <2> QED BY <1>6, <2>1, RestingOK, OneRefresherMoves DEF UpdateRows, ConfigSame, CacheTyped, CacheShape
<1> QED BY <1>5, <1>6

LEMMA FailTyped ==
  ASSUME CacheTyped, NEW r \in Refreshers, FailRefresh(r)
  PROVE  CacheTyped'
BY RestingOK, OneRefresherMoves DEF FailRefresh, ConfigSame, CacheTyped, CacheShape

\* The configuration caches keep their types: the rows, the keys, and what each refresh holds.
THEOREM ConfigTypeCorrect == ConfigSpec => []ConfigTypeOK
<1>1. ConfigInit => CacheTyped
  BY RestingOK, MaxIdAssumption
  DEF ConfigInit, CacheTyped, CacheShape, Nothing, HashType, NoHash, RefreshOK, AnyParts
<1>2. CacheTyped /\ [ConfigNext]_configVars => CacheTyped'
  <2>1. CASE UNCHANGED configVars BY <2>1 DEF configVars, CacheTyped, CacheShape
  <2>2. ASSUME CacheTyped, ConfigNext PROVE CacheTyped'
    <3>1. \/ \E p \in Pools : PoolChange(p)
          \/ \E i \in Ids, content \in AnyParts : SetParts(i, content)
          \/ \E r \in Refreshers : BeginRefresh(r) \/ RefreshStep(r) \/ FailRefresh(r)
      BY <2>2 DEF ConfigNext, PoolChange
    <3>2. CASE \E p \in Pools : PoolChange(p) BY <2>2, <3>2, PoolMoves, MovedTyped
    <3>3. CASE \E i \in Ids, content \in AnyParts : SetParts(i, content) BY <2>2, <3>3, SetPartsTyped
    <3>4. CASE \E r \in Refreshers : BeginRefresh(r) \/ RefreshStep(r) \/ FailRefresh(r)
      BY <2>2, <3>4, BeginTyped, CheckTyped, GenerateTyped, StoreTyped, StoreHashTyped,
         LookupTyped, RowsTyped, FailTyped DEF RefreshStep
    <3> QED BY <3>1, <3>2, <3>3, <3>4
  <2> QED BY <2>1, <2>2
<1>3. CacheTyped => ConfigTypeOK
  BY DEF CacheTyped, CacheShape, RefreshOK, RefreshType, RefreshSteps, Generating, HashType, ConfigTypeOK
<1> QED BY <1>1, <1>2, <1>3, PTL DEF ConfigSpec

----
\* Who has an instance: the ids of pools whose set of instances names it, whose row does,
\* or whose row did when a refresh read it.
Holds(i, ip) ==
  \/ i \in Ids /\ ip \in members[i]
  \/ \E p \in Pools : pool[p].id = i /\ ip \in pool[p].ips
  \/ \E r \in Refreshers, p \in Pools : refresh[r].list[p].id = i /\ ip \in refresh[r].list[p].ips

\* Only one pool has an instance that is not contested.
OneHolder == \A ip \in Ips \ contested : \A i, j \in Nat : Holds(i, ip) /\ Holds(j, ip) => i = j

\* An id has one name in the table, and one in what a refresh has read (not always the
\* same); ids are given in order.
IdsGiven ==
  /\ \A p, q \in Pools, i \in Ids : pool[p].id = i /\ pool[q].id = i => p = q
  /\ \A r \in Refreshers, p, q \in Pools, i \in Ids :
       refresh[r].list[p].id = i /\ refresh[r].list[q].id = i => p = q
  /\ \A p \in Pools, i \in Ids : pool[p].id = i => i <= lastId
  /\ \A r \in Refreshers, p \in Pools, i \in Ids : refresh[r].list[p].id = i => i <= lastId
  /\ \A i \in Ids : i > lastId => members[i] = {}

\* Of what a refresh does, only this is about the ids and the instances that they have.
KeepsHolders ==
  /\ UNCHANGED <<pool, parts, lastId, contested>>
  /\ \A s \in Refreshers : \/ refresh'[s].list = refresh[s].list
                           \/ \A p \in Pools : refresh'[s].list[p] \in {pool[p], NoPool}
  /\ \A i \in Ids : \/ members'[i] = members[i]
                    \/ \E r \in Refreshers, p \in Pools :
                         refresh[r].list[p].id = i /\ members'[i] \subseteq refresh[r].list[p].ips

LEMMA RefreshKeepsHolders ==
  ASSUME CacheTyped, IdsGiven, OneHolder, KeepsHolders
  PROVE  IdsGiven' /\ OneHolder'
<1>1. \A p \in Pools : pool[p] \in PoolRow \cup {NoPool}
  BY DEF CacheTyped, CacheShape
<1>2. \A r \in Refreshers, p \in Pools : refresh[r].list[p] \in PoolRow \cup {NoPool}
  BY DEF CacheTyped, CacheShape, RefreshType
<1>3. ASSUME NEW i \in Nat, NEW ip, Holds(i, ip)' PROVE Holds(i, ip)
  <2>1. ASSUME NEW r \in Refreshers, NEW p \in Pools,
               refresh'[r].list[p].id = i, ip \in refresh'[r].list[p].ips
        PROVE  Holds(i, ip)
    <3>1. refresh'[r].list[p] \in {refresh[r].list[p], pool[p], NoPool} BY <2>1 DEF KeepsHolders
    <3> QED BY <2>1, <3>1, RowFields DEF Holds
  <2>2. ASSUME NEW p \in Pools, pool'[p].id = i, ip \in pool'[p].ips PROVE Holds(i, ip)
    BY <2>2 DEF Holds, KeepsHolders
  <2>3. ASSUME i \in Ids, ip \in members'[i] PROVE Holds(i, ip)
    BY <2>3 DEF Holds, KeepsHolders
  <2> QED BY <1>3, <2>1, <2>2, <2>3 DEF Holds
<1>4. OneHolder' BY <1>3 DEF OneHolder, KeepsHolders
<1>5. ASSUME NEW r \in Refreshers, NEW p \in Pools, NEW i \in Ids, refresh'[r].list[p].id = i
      PROVE  refresh[r].list[p].id = i \/ pool[p].id = i
  <2>1. refresh'[r].list[p] \in {refresh[r].list[p], pool[p], NoPool} BY DEF KeepsHolders
  <2>2. i # 0 BY DEF Ids
  <2> QED BY <1>5, <2>1, <2>2, RowFields
<1>6. \A p, q \in Pools, i \in Ids : pool'[p].id = i /\ pool'[q].id = i => p = q
  BY DEF IdsGiven, KeepsHolders
<1>7. ASSUME NEW r \in Refreshers, NEW p \in Pools, NEW q \in Pools, NEW i \in Ids,
             refresh'[r].list[p].id = i, refresh'[r].list[q].id = i
      PROVE  p = q
  <2>1. CASE refresh'[r].list = refresh[r].list BY <1>7, <2>1 DEF IdsGiven
  <2>2. CASE \A o \in Pools : refresh'[r].list[o] \in {pool[o], NoPool}
    <3>1. i # 0 BY DEF Ids
    <3>2. pool[p].id = i /\ pool[q].id = i BY <1>7, <2>2, <3>1, RowFields
    <3> QED BY <3>2 DEF IdsGiven
  <2> QED BY <2>1, <2>2 DEF KeepsHolders
<1>8. \A p \in Pools, i \in Ids : pool'[p].id = i => i <= lastId'
  BY DEF IdsGiven, KeepsHolders
<1>9. \A r \in Refreshers, p \in Pools, i \in Ids : refresh'[r].list[p].id = i => i <= lastId'
  BY <1>5 DEF IdsGiven, KeepsHolders
<1>10. ASSUME NEW i \in Ids, i > lastId' PROVE members'[i] = {}
  <2>1. \A r \in Refreshers, p \in Pools : refresh[r].list[p].id # i
    BY <1>10, MaxIdAssumption DEF IdsGiven, KeepsHolders, Ids, CacheTyped, CacheShape
  <2> QED BY <1>10, <2>1 DEF IdsGiven, KeepsHolders
<1> QED BY <1>4, <1>6, <1>7, <1>8, <1>9, <1>10 DEF IdsGiven

\* One row of the table changes or gets another name, and what it gains from others is
\* contested.
LEMMA MovedKeepsHolders ==
  ASSUME CacheTyped, IdsGiven, OneHolder, NEW o \in Pools, NEW p \in Pools, NEW row, Moved(o, p, row)
  PROVE  IdsGiven' /\ OneHolder'
<1>1. /\ \A q \in Pools : pool[q] \in PoolRow \cup {NoPool}
      /\ lastId \in 0..MaxId /\ lastId' \in 0..MaxId /\ lastId <= lastId'
  BY DEF Moved, CacheTyped, CacheShape
<1>2. /\ \A q \in Pools : pool'[q] = IF q = p THEN row ELSE IF q = o THEN NoPool ELSE pool[q]
      /\ UNCHANGED <<members, refresh>> /\ row \in PoolRow \cup {NoPool}
      /\ contested' = contested \cup StillOf(row.id, row.ips) /\ FreeFor(o, row.ips)
      /\ p = o \/ ~Listed(p)
      /\ \/ row = NoPool
         \/ lastId < lastId' /\ row.id = lastId' /\ ~Listed(p)
         \/ Listed(o) /\ row.id = pool[o].id
  BY DEF Moved
<1>3. ASSUME NEW i \in Nat, NEW ip, Holds(i, ip)'
      PROVE  Holds(i, ip) \/ (i = row.id /\ ip \in row.ips)
  <2>1. ASSUME NEW q \in Pools, pool'[q].id = i, ip \in pool'[q].ips
        PROVE  Holds(i, ip) \/ (i = row.id /\ ip \in row.ips)
    BY <1>2, <2>1, RowFields DEF Holds
  <2> QED BY <1>2, <1>3, <2>1 DEF Holds
<1>4. ASSUME NEW ip \in Ips, ip \notin contested', NEW i \in Nat, NEW j \in Nat, Holds(i, ip)', Holds(j, ip)',
             i = row.id, ip \in row.ips
      PROVE  j = i
  <2>1. ip \notin StillOf(row.id, row.ips) BY <1>2, <1>4
  <2>2. ASSUME j \in Ids, ip \in members[j] PROVE j = i
    BY <1>4, <2>1, <2>2 DEF StillOf
  <2>3. ASSUME NEW r \in Refreshers, NEW q \in Pools, refresh[r].list[q].id = j, ip \in refresh[r].list[q].ips
        PROVE  j = i
    BY <1>4, <2>1, <2>3 DEF StillOf
  <2>4. ASSUME NEW q \in Pools, pool'[q].id = j, ip \in pool'[q].ips PROVE j = i
    BY <1>2, <1>4, <2>4, RowFields DEF FreeFor
  <2> QED BY <1>2, <1>4, <2>2, <2>3, <2>4 DEF Holds
<1>5. ASSUME NEW ip \in Ips, ip \notin contested', NEW i \in Nat, NEW j \in Nat, Holds(i, ip)', Holds(j, ip)'
      PROVE  i = j
  <2>1. CASE i = row.id /\ ip \in row.ips BY <1>4, <1>5, <2>1
  <2>2. CASE j = row.id /\ ip \in row.ips BY <1>4, <1>5, <2>2
  <2>3. CASE Holds(i, ip) /\ Holds(j, ip) BY <1>2, <1>5, <2>3 DEF OneHolder
  <2> QED BY <1>3, <1>5, <2>1, <2>2, <2>3
<1>6. OneHolder' BY <1>5 DEF OneHolder
<1>7. ASSUME NEW q \in Pools, NEW i \in Ids, pool'[q].id = i, q # p PROVE pool[q].id = i /\ q # o
  <2>1. i # 0 BY DEF Ids
  <2> QED BY <1>2, <1>7, <2>1, RowFields
<1>8. ASSUME NEW q \in Pools, NEW i \in Ids, pool'[q].id = i, pool'[p].id = i PROVE q = p
  <2>1. ASSUME q # p PROVE FALSE
    <3>1. pool[q].id = i /\ q # o BY <1>7, <1>8, <2>1
    <3>2. i <= lastId BY <3>1 DEF IdsGiven
    <3>3. row.id = i /\ i # 0 BY <1>2, <1>8 DEF Ids
    <3>4. row # NoPool BY <3>3, RowFields
    <3>5. ~(lastId < lastId' /\ row.id = lastId') BY <1>1, <3>2, <3>3, MaxIdAssumption DEF Ids
    <3>6. pool[o].id = i BY <1>2, <3>3, <3>4, <3>5
    <3> QED BY <3>1, <3>6 DEF IdsGiven
  <2> QED BY <2>1
<1>9. \A q1, q2 \in Pools, i \in Ids : pool'[q1].id = i /\ pool'[q2].id = i => q1 = q2
  <2>1. ASSUME NEW q1 \in Pools, NEW q2 \in Pools, NEW i \in Ids, pool'[q1].id = i, pool'[q2].id = i
        PROVE  q1 = q2
    <3>1. CASE q1 = p \/ q2 = p BY <1>8, <2>1, <3>1
    <3>2. CASE q1 # p /\ q2 # p BY <1>7, <2>1, <3>2 DEF IdsGiven
    <3> QED BY <3>1, <3>2
  <2> QED BY <2>1
<1>10. ASSUME NEW q \in Pools, NEW i \in Ids, pool'[q].id = i PROVE i <= lastId'
  <2>1. CASE q # p
    <3>1. i <= lastId BY <1>7, <1>10, <2>1 DEF IdsGiven
    <3> QED BY <1>1, <3>1, MaxIdAssumption DEF Ids
  <2>2. CASE q = p
    <3>1. row.id = i /\ i # 0 BY <1>2, <1>10, <2>2 DEF Ids
    <3>2. row # NoPool BY <3>1, RowFields
    <3>3. CASE row.id = lastId' BY <1>1, <3>1, <3>3 DEF Ids
    <3>4. CASE row.id = pool[o].id
      <4>1. i <= lastId BY <3>1, <3>4 DEF IdsGiven
      <4> QED BY <1>1, <4>1, MaxIdAssumption DEF Ids
    <3> QED BY <1>2, <3>2, <3>3, <3>4
  <2> QED BY <2>1, <2>2
<1>11. \A r \in Refreshers, q1, q2 \in Pools, i \in Ids :
         refresh'[r].list[q1].id = i /\ refresh'[r].list[q2].id = i => q1 = q2
  BY <1>2 DEF IdsGiven
<1>12. ASSUME NEW r \in Refreshers, NEW q \in Pools, NEW i \in Ids, refresh'[r].list[q].id = i
       PROVE  i <= lastId'
  <2>1. i <= lastId BY <1>2, <1>12 DEF IdsGiven
  <2> QED BY <1>1, <2>1, MaxIdAssumption DEF Ids
<1>13. \A i \in Ids : i > lastId' => members'[i] = {}
  BY <1>1, <1>2 DEF IdsGiven, Ids
<1> QED BY <1>6, <1>9, <1>10, <1>11, <1>12, <1>13 DEF IdsGiven

HolderInv == CacheTyped /\ IdsGiven /\ OneHolder

LEMMA SetPartsKeepsHolders ==
  ASSUME HolderInv, NEW i \in Ids, NEW content \in AnyParts, SetParts(i, content)
  PROVE  HolderInv'
<1>1. CacheTyped' BY SetPartsTyped DEF HolderInv
<1>2. UNCHANGED <<pool, lastId, members, refresh, contested>> BY DEF SetParts
<1> QED BY <1>1, <1>2 DEF HolderInv, IdsGiven, OneHolder, Holds

\* The pools that a refresher has read stay what they are until it reads them again.
LEMMA RefresherReads ==
  ASSUME HolderInv, NEW r \in Refreshers, BeginRefresh(r) \/ RefreshStep(r) \/ FailRefresh(r)
  PROVE  CacheTyped' /\ KeepsHolders
<1>1. CacheTyped /\ IdsGiven /\ OneHolder /\ refresh[r] \in RefreshType /\ RefreshOK(refresh[r])
  BY DEF HolderInv, CacheTyped, CacheShape
<1>2. CacheTyped'
  BY <1>1, BeginTyped, CheckTyped, GenerateTyped, StoreTyped, StoreHashTyped,
     LookupTyped, RowsTyped, FailTyped DEF RefreshStep
<1>3. PICK c : c = refresh[r] OBVIOUS
<1>4. c \in RefreshType /\ RefreshOK(c) BY <1>1, <1>3
<1>5. ASSUME NEW d, RefreshTo(r, d),
             d.list = c.list \/ \A p \in Pools : d.list[p] \in {pool[p], NoPool}
      PROVE  \A s \in Refreshers : \/ refresh'[s].list = refresh[s].list
                                   \/ \A p \in Pools : refresh'[s].list[p] \in {pool[p], NoPool}
  <2>1. refresh \in [Refreshers -> RefreshType] BY <1>1 DEF CacheTyped, CacheShape
  <2> QED BY <1>3, <1>5, <2>1 DEF RefreshTo
<1>6. \A p \in Pools : Resting.list[p] = NoPool BY DEF Resting
<1>7. ASSUME UNCHANGED <<pool, parts, lastId, contested, members>>, NEW d, RefreshTo(r, d),
             d.list = c.list \/ \A p \in Pools : d.list[p] \in {pool[p], NoPool}
      PROVE  KeepsHolders
  BY <1>5, <1>7 DEF KeepsHolders
<1>8. ASSUME BeginRefresh(r) PROVE KeepsHolders
  <2>1. PICK d : RefreshTo(r, d) /\ ListRead(d) BY <1>1, <1>8, BeginReads
  <2>2. UNCHANGED <<pool, parts, lastId, contested, members>> BY <1>8 DEF BeginRefresh, ConfigSame
  <2> QED BY <1>7, <2>1, <2>2 DEF ListRead
<1>9. ASSUME NEW p \in Pools, CheckPool(r, p) PROVE KeepsHolders
  <2>1. PICK d : RefreshTo(r, d) /\ d.list = c.list BY <1>1, <1>3, <1>9, CheckGoesTo
  <2>2. UNCHANGED <<pool, parts, lastId, contested, members>> BY <1>9 DEF CheckPool, ConfigSame
  <2> QED BY <1>7, <2>1, <2>2
<1>10. ASSUME GeneratePool(r) PROVE KeepsHolders
  <2>1. PICK d : RefreshTo(r, d) /\ d.list = c.list BY <1>1, <1>3, <1>10, GenerateGoesTo
  <2>2. UNCHANGED <<pool, parts, lastId, contested, members>> BY <1>10 DEF GeneratePool, ConfigSame
  <2> QED BY <1>7, <2>1, <2>2
<1>11. ASSUME StorePool(r) PROVE KeepsHolders
  <2>1. PICK row : row = c.list[c.at] OBVIOUS
  <2>2. /\ c.at \in Pools /\ row \in PoolRow /\ Share(row, c.parts) \subseteq row.ips
        /\ \E done \in SUBSET Share(row, c.parts) : Stored(row, ConfigOf(row, c.parts), done)
        /\ \E d : RefreshTo(r, d) /\ d.list = c.list
    BY <1>1, <1>3, <1>11, <2>1, StoreGoesTo
  <2>3. PICK d : RefreshTo(r, d) /\ d.list = c.list BY <2>2
  <2>4. PICK done \in SUBSET Share(row, c.parts) : Stored(row, ConfigOf(row, c.parts), done) BY <2>2
  <2>5. members' = [members EXCEPT ![row.id] = done] /\ done \subseteq row.ips BY <2>2, <2>4 DEF Stored
  <2>6. UNCHANGED <<pool, parts, lastId, contested>> BY <1>11 DEF StorePool, ConfigSame
  <2>7. members \in [Ids -> SUBSET Ips] BY <1>1 DEF CacheTyped, CacheShape
  <2>8. ASSUME NEW i \in Ids
        PROVE  \/ members'[i] = members[i]
               \/ \E s \in Refreshers, p \in Pools :
                    refresh[s].list[p].id = i /\ members'[i] \subseteq refresh[s].list[p].ips
    BY <1>3, <2>1, <2>2, <2>5, <2>7
  <2>9. \A s \in Refreshers : \/ refresh'[s].list = refresh[s].list
                              \/ \A p \in Pools : refresh'[s].list[p] \in {pool[p], NoPool}
    BY <1>5, <2>3
  <2> QED BY <2>6, <2>8, <2>9 DEF KeepsHolders
<1>12. ASSUME StoreHash(r) PROVE KeepsHolders
  <2>1. PICK d : d = [c EXCEPT !.pc = "check", !.at = Absent, !.hash = NoHash, !.parts = NoParts] OBVIOUS
  <2>2. RefreshTo(r, d) /\ d.list = c.list BY <1>3, <1>4, <1>12, <2>1 DEF StoreHash, RefreshType
  <2>3. UNCHANGED <<pool, parts, lastId, contested, members>> BY <1>12 DEF StoreHash, ConfigSame
  <2> QED BY <1>7, <2>2, <2>3
<1>13. ASSUME Lookup(r) \/ CreateRows(r) \/ UpdateRows(r) \/ FailRefresh(r) PROVE KeepsHolders
  <2>1. PICK d : RefreshTo(r, d) /\ (d.list = Resting.list \/ d.list = c.list)
    <3>1. CASE Lookup(r)
      <4>1. PICK new, old : RefreshTo(r, Resting)
                            \/ RefreshTo(r, [c EXCEPT !.pc = "create", !.create = new, !.update = old])
        BY <1>3, <3>1 DEF Lookup
      <4>2. PICK d : d = [c EXCEPT !.pc = "create", !.create = new, !.update = old] OBVIOUS
      <4>3. d.list = c.list BY <1>4, <4>2 DEF RefreshType
      <4>4. RefreshTo(r, Resting) \/ RefreshTo(r, d) BY <4>1, <4>2
      <4> QED BY <4>3, <4>4
    <3>2. CASE CreateRows(r) BY <1>3, <1>4, <3>2 DEF CreateRows, RefreshType
    <3>3. CASE UpdateRows(r) \/ FailRefresh(r) BY <3>3 DEF UpdateRows, FailRefresh
    <3> QED BY <1>13, <3>1, <3>2, <3>3
  <2>2. UNCHANGED <<pool, parts, lastId, contested, members>>
    BY <1>13 DEF Lookup, CreateRows, UpdateRows, FailRefresh, ConfigSame
  <2> QED BY <1>6, <1>7, <2>1, <2>2
<1>14. KeepsHolders
  BY <1>8, <1>9, <1>10, <1>11, <1>12, <1>13 DEF RefreshStep
<1> QED BY <1>2, <1>14

LEMMA RefresherKeepsHolders ==
  ASSUME HolderInv, NEW r \in Refreshers, BeginRefresh(r) \/ RefreshStep(r) \/ FailRefresh(r)
  PROVE  HolderInv'
BY RefresherReads, RefreshKeepsHolders DEF HolderInv

----
\* The pool with the id i was stored and its hash is not yet.
Storing(i) == \E r \in Refreshers : refresh[r].pc = "hash" /\ refresh[r].list[refresh[r].at].id = i

\* What the hash h and the last generation of the pool with the id i were made of: a row it
\* had and, unless the hash is torn, the parts that the hash covers.  The instances that
\* were given the configuration still have it.
MadeOf(i, h, row, content, isTorn) ==
  /\ row.id = i
  /\ h.ips = row.ips /\ h.fields = Hash(row, content).fields
  /\ ~isTorn /\ Caching("records") => h.parts = content
  /\ members[i] = Share(row, content)
  /\ \A ip \in members[i] \ contested : served[ip] = ConfigOf(row, content)

\* A hash in Redis is of what the pool that has the name was last generated from.
HashTrue(p) ==
  Listed(p) /\ ~Storing(pool[p].id) =>
    \E row \in PoolRow, content \in AnyParts : MadeOf(pool[p].id, hash[p], row, content, p \in torn)

\* The instance is served the row it has in the table.
Told(ip) == served[ip] # NoConfig => saved[ip] = <<served[ip]>>

\* What a refresh has stored so far: it will save what it has served, and the rest is told.
SaveTrue(c) ==
  \A ip \in Ips : IF c.save[ip] = NoConfig THEN Told(ip) ELSE served[ip] \in {NoConfig, c.save[ip]}

\* The pool it stands at was stored as it was read.
StoreTrue(c) ==
  /\ c.pc \in Generating => /\ c.hash.ips = c.list[c.at].ips
                            /\ c.hash.fields = Hash(c.list[c.at], NoParts).fields
  /\ c.pc = "hash" => /\ members[c.list[c.at].id] = Share(c.list[c.at], c.parts)
                      /\ \A ip \in members[c.list[c.at].id] : served[ip] = ConfigOf(c.list[c.at], c.parts)

\* A pool that was renamed since it was read, or that has a name read as another's, has a
\* name that was used before, or no hash.
NamesKnown(c) ==
  /\ \A p, q \in Pools : p # q /\ Listed(p) /\ c.list[q].id = pool[p].id => p \in reused \/ hash[p] = NoHash
  /\ \A p \in Pools : Listed(p) /\ c.list[p] # NoPool /\ c.list[p].id # pool[p].id => p \in reused

\* Every row that is to be saved is there, or is about to be written.
RowsTrue(c) ==
  /\ c.pc = "create" =>
       \A ip \in ToSave(c) :
         IF saved[ip] = <<>> THEN ip \in c.create
         ELSE ip \notin c.create /\ (<<ip, 1>> \in c.update \/ saved[ip] = <<c.save[ip]>>)
  /\ c.pc = "update" =>
       \A ip \in ToSave(c) : saved[ip] # <<>> /\ (<<ip, 1>> \in c.update \/ saved[ip] = <<c.save[ip]>>)

RefreshTrue(c) == SaveTrue(c) /\ StoreTrue(c) /\ NamesKnown(c) /\ RowsTrue(c)

\* What an instance is served is of a pool that has it in its set.
ServedHeld == \A ip \in Ips : served[ip] # NoConfig => \E i \in Ids : ip \in members[i]

OrderlyInv ==
  /\ \A r, s \in Refreshers : refresh[r].pc # "idle" /\ refresh[s].pc # "idle" => r = s
  /\ \A ip \in Ips : Len(saved[ip]) <= 1
  /\ ServedHeld
  /\ \A p \in Pools \ reused : hash[p] # NoHash => HashTrue(p)
  /\ \A r \in Refreshers : refresh[r].pc # "idle" => RefreshTrue(refresh[r])
  /\ AtRest => \A ip \in Ips : Told(ip)

StoresInv == HolderInv /\ (Orderly => OrderlyInv)

\* A change of a pool touches nothing that a refresh has stored.
LEMMA MovedKeepsStores ==
  ASSUME HolderInv, OrderlyInv, NEW o \in Pools, NEW p \in Pools, NEW row, Moved(o, p, row)
  PROVE  OrderlyInv'
<1>1. /\ CacheTyped /\ IdsGiven
      /\ pool \in [Pools -> PoolRow \cup {NoPool}] /\ \A q \in Pools : Listed(q) => pool[q].id \in Ids
  BY RowFields DEF HolderInv, CacheTyped, CacheShape, Listed
<1>2. /\ \A q \in Pools : pool'[q] = IF q = p THEN row ELSE IF q = o THEN NoPool ELSE pool[q]
      /\ UNCHANGED <<configMode, parts, served, members, hash, saved, refresh, torn>>
      /\ contested \subseteq contested'
      /\ reused' = IF ~Listed(p) /\ UsedBefore(p) THEN reused \cup {p} ELSE reused
      /\ p = o \/ ~Listed(p)
      /\ \/ row = NoPool
         \/ lastId < lastId' /\ row.id = lastId' /\ ~Listed(p)
         \/ Listed(o) /\ row.id = pool[o].id
  BY DEF Moved
\* A name that is listed now was listed with the same id, or it is new or was used before.
<1>3. ASSUME NEW q \in Pools, Listed(q)'
      PROVE  \/ Listed(q) /\ pool'[q].id = pool[q].id
             \/ ~Listed(q) /\ (UsedBefore(q) => q \in reused')
  <2>1. CASE q # p
    <3>1. pool'[q] = pool[q] BY <1>2, <1>3, <2>1 DEF Listed
    <3> QED BY <1>3, <3>1 DEF Listed
  <2>2. CASE q = p /\ Listed(p)
    <3>1. p = o /\ row # NoPool /\ pool'[q] = row BY <1>2, <1>3, <2>2 DEF Listed
    <3>2. row.id = pool[p].id BY <1>2, <2>2, <3>1
    <3> QED BY <2>2, <3>1, <3>2
  <2>3. CASE q = p /\ ~Listed(p) BY <1>2, <2>3
  <2> QED BY <2>1, <2>2, <2>3
<1>4. \A q \in Pools : q \notin reused' => q \notin reused BY <1>2
<1>5. ASSUME NEW q \in Pools \ reused', hash'[q] # NoHash PROVE HashTrue(q)'
  <2>1. SUFFICES ASSUME Listed(q)', ~Storing(pool[q].id)'
                 PROVE  \E was \in PoolRow, content \in AnyParts :
                          MadeOf(pool[q].id, hash[q], was, content, q \in torn)'
    BY DEF HashTrue, Storing
  <2>2. Listed(q) /\ pool'[q].id = pool[q].id
    BY <1>2, <1>3, <1>5, <2>1 DEF UsedBefore
  <2>3. ~Storing(pool[q].id) BY <1>2, <2>1, <2>2 DEF Storing
  <2>4. HashTrue(q) BY <1>2, <1>4, <1>5 DEF OrderlyInv
  <2>5. PICK was \in PoolRow, content \in AnyParts : MadeOf(pool[q].id, hash[q], was, content, q \in torn)
    BY <2>2, <2>3, <2>4 DEF HashTrue
  <2>6. MadeOf(pool[q].id, hash[q], was, content, q \in torn)'
    BY <1>2, <2>2, <2>5 DEF MadeOf, Hash, ConfigOf, Share, Caching
  <2> QED BY <2>6
<1>6. ASSUME NEW r \in Refreshers, refresh'[r].pc # "idle" PROVE RefreshTrue(refresh[r])'
  <2>1. RefreshTrue(refresh[r]) BY <1>2, <1>6 DEF OrderlyInv
  <2>2. PICK c : c = refresh[r] /\ c = refresh'[r] BY <1>2
  <2>3. c.list \in [Pools -> PoolRow \cup {NoPool}]
    BY <1>1, <2>2 DEF CacheTyped, CacheShape, RefreshType
  <2>4. NamesKnown(c) BY <2>1, <2>2 DEF RefreshTrue
  <2>5. ASSUME NEW q \in Pools, NEW q2 \in Pools, q # q2, Listed(q)', c.list[q2].id = pool'[q].id
        PROVE  q \in reused' \/ hash'[q] = NoHash
    BY <1>2, <1>3, <1>4, <2>4, <2>5 DEF NamesKnown, UsedBefore
  <2>6. ASSUME NEW q \in Pools, Listed(q)', c.list[q] # NoPool, c.list[q].id # pool'[q].id
        PROVE  q \in reused'
    BY <1>3, <1>4, <2>2, <2>4, <2>6 DEF NamesKnown, UsedBefore
  <2>7. NamesKnown(refresh[r])' BY <2>2, <2>5, <2>6 DEF NamesKnown
  <2>8. SaveTrue(refresh[r])' BY <1>2, <2>1 DEF RefreshTrue, SaveTrue, Told
  <2>9. StoreTrue(refresh[r])'
    BY <1>2, <2>1 DEF RefreshTrue, StoreTrue, Hash, ConfigOf, Share, Caching
  <2>10. RowsTrue(refresh[r])' BY <1>2, <2>1 DEF RefreshTrue, RowsTrue, ToSave
  <2> QED BY <2>7, <2>8, <2>9, <2>10 DEF RefreshTrue
<1>7. ServedHeld' /\ (AtRest' => \A ip \in Ips : Told(ip)')
  BY <1>2 DEF OrderlyInv, ServedHeld, AtRest, Told
<1> QED BY <1>2, <1>5, <1>6, <1>7 DEF OrderlyInv

LEMMA SetPartsKeepsStores ==
  ASSUME OrderlyInv, NEW i \in Ids, NEW content \in AnyParts, SetParts(i, content)
  PROVE  OrderlyInv'
<1>1. UNCHANGED <<configMode, pool, served, members, hash, saved, refresh, torn, contested, reused>>
  BY DEF SetParts
<1>2. ASSUME NEW q \in Pools, HashTrue(q) PROVE HashTrue(q)'
  <2>1. SUFFICES ASSUME Listed(q)', ~Storing(pool[q].id)'
                 PROVE  \E was \in PoolRow, some \in AnyParts :
                          MadeOf(pool[q].id, hash[q], was, some, q \in torn)'
    BY DEF HashTrue, Storing
  <2>2. Listed(q) /\ ~Storing(pool[q].id) BY <1>1, <2>1 DEF Listed, Storing
  <2>3. PICK was \in PoolRow, some \in AnyParts : MadeOf(pool[q].id, hash[q], was, some, q \in torn)
    BY <1>2, <2>2 DEF HashTrue
  <2>4. MadeOf(pool[q].id, hash[q], was, some, q \in torn)'
    BY <1>1, <2>3 DEF MadeOf, Hash, ConfigOf, Share, Caching
  <2> QED BY <2>4
<1>3. ASSUME NEW r \in Refreshers, RefreshTrue(refresh[r]) PROVE RefreshTrue(refresh[r])'
  BY <1>1, <1>3 DEF RefreshTrue, SaveTrue, StoreTrue, NamesKnown, RowsTrue, ToSave, Told, Listed,
                    Hash, ConfigOf, Share, Caching
<1>4. ServedHeld' /\ (AtRest' => \A ip \in Ips : Told(ip)')
  BY <1>1 DEF OrderlyInv, ServedHeld, AtRest, Told
<1> QED BY <1>1, <1>2, <1>3, <1>4 DEF OrderlyInv

\* The refresher r goes on to d while the others are idle: what is left to show.
LEMMA RefresherGoesOn ==
  ASSUME HolderInv, NEW r \in Refreshers, NEW d, RefreshTo(r, d), d \in RefreshType,
         \A s \in Refreshers \ {r} : refresh[s].pc = "idle",
         \A ip \in Ips : Len(saved'[ip]) <= 1,
         ServedHeld',
         \A p \in Pools \ reused' : hash'[p] # NoHash => HashTrue(p)',
         d.pc # "idle" => RefreshTrue(d)',
         d.pc = "idle" => \A ip \in Ips : Told(ip)'
  PROVE  OrderlyInv'
<1>1. refresh \in [Refreshers -> RefreshType] BY DEF HolderInv, CacheTyped, CacheShape
<1>2. \A s \in Refreshers : refresh'[s] = IF s = r THEN d ELSE refresh[s]
  BY <1>1 DEF RefreshTo
<1>3. \A s \in Refreshers : refresh'[s].pc # "idle" => s = r /\ refresh'[s] = d
  BY <1>2
<1>4. \A s, t \in Refreshers : refresh'[s].pc # "idle" /\ refresh'[t].pc # "idle" => s = t
  BY <1>3
<1>5. ASSUME NEW s \in Refreshers, refresh'[s].pc # "idle"
      PROVE  RefreshTrue(refresh[s])'
  <2>1. refresh'[s] = d /\ d.pc # "idle" BY <1>3, <1>5
  <2>2. SaveTrue(d)' /\ StoreTrue(d)' /\ NamesKnown(d)' /\ RowsTrue(d)' BY <2>1 DEF RefreshTrue
  <2>3. SaveTrue(refresh[s])' BY <2>1, <2>2 DEF SaveTrue
  <2>4. StoreTrue(refresh[s])' BY <2>1, <2>2 DEF StoreTrue
  <2>5. NamesKnown(refresh[s])' BY <2>1, <2>2 DEF NamesKnown
  <2>6. RowsTrue(refresh[s])' BY <2>1, <2>2 DEF RowsTrue
  <2> QED BY <2>3, <2>4, <2>5, <2>6 DEF RefreshTrue
<1>6. AtRest' => \A ip \in Ips : Told(ip)' BY <1>2 DEF AtRest
<1> QED BY <1>4, <1>5, <1>6 DEF OrderlyInv

\* A hash stays true while nobody touches its instances.
LEMMA KeptHash ==
  ASSUME NEW p \in Pools, HashTrue(p), ~Storing(pool[p].id),
         UNCHANGED <<configMode, pool, contested>>, hash'[p] = hash[p], p \in torn <=> p \in torn',
         Listed(p) => /\ members'[pool[p].id] = members[pool[p].id]
                      /\ \A ip \in members[pool[p].id] \ contested : served'[ip] = served[ip]
  PROVE  HashTrue(p)'
<1>1. SUFFICES ASSUME Listed(p)'
               PROVE  \E row \in PoolRow, content \in AnyParts :
                        MadeOf(pool[p].id, hash[p], row, content, p \in torn)'
  BY DEF HashTrue
<1>2. Listed(p) BY <1>1 DEF Listed
<1>3. PICK row \in PoolRow, content \in AnyParts : MadeOf(pool[p].id, hash[p], row, content, p \in torn)
  BY <1>2 DEF HashTrue
<1>4. PICK i : i = pool[p].id /\ pool'[p].id = i OBVIOUS
<1>5. /\ row.id = i /\ hash'[p].ips = row.ips /\ hash'[p].fields = Hash(row, content).fields
      /\ ~(p \in torn') /\ Caching("records") => hash'[p].parts = content
      /\ members'[i] = Share(row, content)
      /\ \A ip \in members'[i] \ contested' : served'[ip] = ConfigOf(row, content)
  BY <1>2, <1>3, <1>4 DEF MadeOf
<1>6. /\ Hash(row, content)' = Hash(row, content) /\ ConfigOf(row, content)' = ConfigOf(row, content)
      /\ Share(row, content)' = Share(row, content) /\ Caching("records")' = Caching("records")
  BY DEF Hash, ConfigOf, Share, Caching
<1>7. MadeOf(pool[p].id, hash[p], row, content, p \in torn)' BY <1>4, <1>5, <1>6 DEF MadeOf
<1> QED BY <1>7

\* A step of r that changes neither Redis nor the table.
LEMMA QuietStep ==
  ASSUME HolderInv, OrderlyInv, NEW r \in Refreshers, NEW d, RefreshTo(r, d), d \in RefreshType, KeepsHolders,
         \A s \in Refreshers \ {r} : refresh[s].pc = "idle",
         UNCHANGED <<configMode, served, members, hash, saved, torn, reused>>,
         refresh[r].pc # "hash",
         d.pc # "idle" => RefreshTrue(d),
         d.pc = "idle" => \A ip \in Ips : Told(ip)
  PROVE  OrderlyInv'
<1>1. \A i : ~Storing(i) BY DEF Storing
<1>2. UNCHANGED <<pool, contested>> BY DEF KeepsHolders
<1>3. ASSUME NEW p \in Pools \ reused', hash'[p] # NoHash PROVE HashTrue(p)'
  <2>1. HashTrue(p) BY <1>3 DEF OrderlyInv
  <2> QED BY <1>1, <1>2, <2>1, KeptHash
<1>4. d.pc # "idle" => RefreshTrue(d)'
  BY <1>2 DEF RefreshTrue, SaveTrue, StoreTrue, NamesKnown, RowsTrue, ToSave, Told, Listed,
              Hash, ConfigOf, Share, Caching
<1>5. d.pc = "idle" => \A ip \in Ips : Told(ip)' BY DEF Told
<1>6. ServedHeld' /\ \A ip \in Ips : Len(saved'[ip]) <= 1 BY DEF OrderlyInv, ServedHeld
<1> QED BY <1>3, <1>4, <1>5, <1>6, RefresherGoesOn

\* What is known of the refresher that is not idle.
LEMMA ActiveRefresher ==
  ASSUME HolderInv, OrderlyInv, NEW r \in Refreshers, NEW c, c = refresh[r], c.pc # "idle"
  PROVE  /\ c \in RefreshType /\ RefreshOK(c) /\ RefreshTrue(c)
         /\ \A s \in Refreshers \ {r} : refresh[s].pc = "idle"
<1>1. RefreshTrue(refresh[r]) BY DEF OrderlyInv
<1>2. SaveTrue(c) /\ StoreTrue(c) /\ NamesKnown(c) /\ RowsTrue(c) BY <1>1 DEF RefreshTrue
<1>3. c \in RefreshType /\ RefreshOK(c) BY DEF HolderInv, CacheTyped, CacheShape
<1> QED BY <1>2, <1>3 DEF RefreshTrue, OrderlyInv

LEMMA BeginStores ==
  ASSUME HolderInv, OrderlyInv, Orderly, NEW r \in Refreshers, BeginRefresh(r)
  PROVE  OrderlyInv'
<1>1. KeepsHolders /\ CacheTyped /\ IdsGiven /\ CacheTyped' BY RefresherReads DEF HolderInv
<1>2. \A s \in Refreshers : refresh[s].pc = "idle" BY DEF BeginRefresh, Orderly
<1>3. PICK d : RefreshTo(r, d) /\ ListRead(d) /\ RefreshOK(d) BY <1>1, BeginReads
<1>4. d \in RefreshType /\ d.pc = "check" /\ d.save = Nothing BY <1>3 DEF RefreshOK, ListRead
<1>5. \A ip \in Ips : Told(ip) BY <1>2 DEF OrderlyInv, AtRest
<1>6. SaveTrue(d) BY <1>4, <1>5 DEF SaveTrue, Nothing
<1>7. StoreTrue(d) /\ RowsTrue(d) BY <1>4 DEF StoreTrue, RowsTrue, Generating
<1>8. NamesKnown(d)
  <2>1. \A p \in Pools : d.list[p] \in {pool[p], NoPool} BY <1>3 DEF ListRead
  <2>2. \A p \in Pools : Listed(p) => pool[p].id \in Ids /\ pool[p].id # 0
    BY <1>1, RowFields DEF CacheTyped, CacheShape, Listed, Ids
  <2>3. ASSUME NEW p \in Pools, NEW q \in Pools, p # q, Listed(p), d.list[q].id = pool[p].id PROVE FALSE
    <3>1. pool[q].id = pool[p].id BY <2>1, <2>2, <2>3, RowFields
    <3> QED BY <1>1, <2>2, <2>3, <3>1 DEF IdsGiven
  <2> QED BY <2>1, <2>3 DEF NamesKnown
<1>9. UNCHANGED <<configMode, served, members, hash, saved, torn, reused>> BY DEF BeginRefresh, ConfigSame
<1> QED BY <1>1, <1>2, <1>3, <1>4, <1>6, <1>7, <1>8, <1>9, QuietStep DEF RefreshTrue

LEMMA CheckStores ==
  ASSUME HolderInv, OrderlyInv, NEW r \in Refreshers, NEW p \in Pools, CheckPool(r, p)
  PROVE  OrderlyInv'
<1>1. KeepsHolders /\ CacheTyped /\ CacheTyped' BY RefresherReads DEF HolderInv, RefreshStep
<1>2. PICK c : c = refresh[r] OBVIOUS
<1>3. p \in c.todo /\ c.pc = "check" BY <1>2 DEF CheckPool
<1>4. /\ c \in RefreshType /\ RefreshOK(c) /\ RefreshTrue(c)
      /\ \A s \in Refreshers \ {r} : refresh[s].pc = "idle"
  BY <1>2, <1>3, ActiveRefresher
<1>5. PICK d : /\ RefreshTo(r, d) /\ RefreshOK(d) /\ d.list = c.list /\ d.save = c.save
               /\ \/ d.pc = "check"
                  \/ /\ d.pc = "generate" /\ d.at = p
                     /\ \E content \in AnyParts : d.hash = Hash(c.list[p], content)
  BY <1>1, <1>2, CheckGoesTo
<1>6. d \in RefreshType BY <1>5 DEF RefreshOK
<1>7. SaveTrue(d) /\ RowsTrue(d) /\ NamesKnown(d)
  BY <1>4, <1>5 DEF RefreshTrue, SaveTrue, RowsTrue, NamesKnown
<1>8. StoreTrue(d)
  <2>1. SUFFICES ASSUME d.pc = "generate"
                 PROVE  d.hash.ips = c.list[p].ips /\ d.hash.fields = Hash(c.list[p], NoParts).fields
    BY <1>5 DEF StoreTrue, Generating
  <2>2. c.list[p] \in PoolRow /\ NoParts \in AnyParts BY <1>3, <1>4 DEF RefreshOK, RefreshType, AnyParts
  <2> QED BY <1>5, <2>1, <2>2, HashTyped
<1>9. UNCHANGED <<configMode, served, members, hash, saved, torn, reused>> BY DEF CheckPool, ConfigSame
<1>10. d.pc # "idle" /\ refresh[r].pc # "hash" /\ RefreshTrue(d) BY <1>2, <1>3, <1>5, <1>7, <1>8 DEF RefreshTrue
<1> QED BY <1>1, <1>4, <1>5, <1>6, <1>9, <1>10, QuietStep

LEMMA GenerateStores ==
  ASSUME HolderInv, OrderlyInv, NEW r \in Refreshers, GeneratePool(r)
  PROVE  OrderlyInv'
<1>1. KeepsHolders /\ CacheTyped /\ CacheTyped' BY RefresherReads DEF HolderInv, RefreshStep
<1>2. PICK c : c = refresh[r] OBVIOUS
<1>3. c.pc = "generate" BY <1>2 DEF GeneratePool
<1>4. /\ c \in RefreshType /\ RefreshOK(c) /\ RefreshTrue(c)
      /\ \A s \in Refreshers \ {r} : refresh[s].pc = "idle"
  BY <1>2, <1>3, ActiveRefresher
<1>5. PICK d : /\ RefreshTo(r, d) /\ RefreshOK(d) /\ d.list = c.list /\ d.save = c.save
               /\ d.pc = "check" \/ (d.pc = "store" /\ d.at = c.at /\ d.hash = c.hash)
  BY <1>1, <1>2, GenerateGoesTo
<1>6. d \in RefreshType BY <1>5 DEF RefreshOK
<1>7. SaveTrue(d) /\ RowsTrue(d) /\ NamesKnown(d)
  BY <1>4, <1>5 DEF RefreshTrue, SaveTrue, RowsTrue, NamesKnown
<1>8. StoreTrue(d) BY <1>3, <1>4, <1>5 DEF RefreshTrue, StoreTrue, Generating
<1>9. UNCHANGED <<configMode, served, members, hash, saved, torn, reused>> BY DEF GeneratePool, ConfigSame
<1>10. d.pc # "idle" /\ refresh[r].pc # "hash" /\ RefreshTrue(d) BY <1>2, <1>3, <1>5, <1>7, <1>8 DEF RefreshTrue
<1> QED BY <1>1, <1>4, <1>5, <1>6, <1>9, <1>10, QuietStep

LEMMA StoreStores ==
  ASSUME HolderInv, OrderlyInv, Orderly, NEW r \in Refreshers, StorePool(r)
  PROVE  OrderlyInv'
<1>1. KeepsHolders /\ CacheTyped /\ CacheTyped' BY RefresherReads DEF HolderInv, RefreshStep
<1>2. PICK c : c = refresh[r] OBVIOUS
<1>3. PICK row : row = c.list[c.at] OBVIOUS
<1>4. PICK share : share = Share(row, c.parts) OBVIOUS
<1>5. PICK config : config = ConfigOf(row, c.parts) OBVIOUS
<1>6. /\ c.pc = "store" /\ c.at \in Pools /\ row \in PoolRow /\ row.ips # {} /\ c.parts \in AnyParts
      /\ share \subseteq row.ips /\ config \in Config /\ config # NoConfig
      /\ \E done \in SUBSET share : Stored(row, config, done) /\ (~configMode.faults => done = share)
      /\ \E d : /\ RefreshTo(r, d) /\ RefreshOK(d) /\ d.pc = "hash" /\ d.at = c.at /\ d.list = c.list
                /\ d.hash = c.hash /\ d.parts = c.parts
                /\ d.save = [ip \in Ips |-> IF ip \in share THEN config ELSE c.save[ip]]
  <2>1. /\ c.pc = "store" /\ c.at \in Pools /\ row \in PoolRow /\ row.ips # {} /\ c.parts \in AnyParts
        /\ share \subseteq row.ips /\ config \in Config /\ config # NoConfig
    BY <1>1, <1>2, <1>3, <1>4, <1>5, StoreGoesTo
  <2>2. PICK done \in SUBSET Share(row, c.parts) :
          Stored(row, ConfigOf(row, c.parts), done) /\ (~configMode.faults => done = Share(row, c.parts))
    BY <1>1, <1>2, <1>3, StoreGoesTo
  <2>3. \E some \in SUBSET share : Stored(row, config, some) /\ (~configMode.faults => some = share)
    BY <1>4, <1>5, <2>2
  <2>4. PICK d : /\ RefreshTo(r, d) /\ RefreshOK(d) /\ d.pc = "hash" /\ d.at = c.at /\ d.list = c.list
                 /\ d.hash = c.hash /\ d.parts = c.parts
                 /\ d.save = SaveWith(c.save, Share(row, c.parts), ConfigOf(row, c.parts))
    BY <1>1, <1>2, <1>3, StoreGoesTo
  <2>5. d.save = [ip \in Ips |-> IF ip \in share THEN config ELSE c.save[ip]]
    BY <1>4, <1>5, <2>4 DEF SaveWith
  <2> QED BY <2>1, <2>3, <2>4, <2>5
<1>7. /\ c \in RefreshType /\ RefreshTrue(c) /\ \A s \in Refreshers \ {r} : refresh[s].pc = "idle"
      /\ row.id \in Ids /\ row.ips \subseteq Ips
  BY <1>2, <1>6, ActiveRefresher, RowFields
<1>8. Stored(row, config, share) BY <1>6 DEF Orderly
<1>9. PICK d : /\ RefreshTo(r, d) /\ RefreshOK(d) /\ d.pc = "hash" /\ d.at = c.at /\ d.list = c.list
               /\ d.hash = c.hash /\ d.parts = c.parts
               /\ d.save = [ip \in Ips |-> IF ip \in share THEN config ELSE c.save[ip]]
  BY <1>6
<1>10. members \in [Ids -> SUBSET Ips] /\ served \in [Ips -> HashType]
  BY <1>1 DEF CacheTyped, CacheShape
<1>11. /\ \A ip \in Ips : served'[ip] = IF ip \in share THEN config
                                        ELSE IF ip \in members[row.id] THEN NoConfig ELSE served[ip]
       /\ members'[row.id] = share /\ \A i \in Ids \ {row.id} : members'[i] = members[i]
  BY <1>7, <1>8, <1>10 DEF Stored
<1>12. UNCHANGED <<configMode, pool, contested, hash, saved, torn, reused>> BY <1>1 DEF StorePool, ConfigSame, KeepsHolders
<1>13. SaveTrue(d)'
  <2>1. \A ip \in Ips : IF c.save[ip] = NoConfig THEN Told(ip) ELSE served[ip] \in {NoConfig, c.save[ip]}
    BY <1>7 DEF RefreshTrue, SaveTrue
  <2>2. \A ip \in Ips : d.save[ip] = IF ip \in share THEN config ELSE c.save[ip] BY <1>9
  <2> QED BY <1>6, <1>11, <1>12, <2>1, <2>2 DEF SaveTrue, Told
<1>14. StoreTrue(d)'
  <2>1. row = d.list[d.at] /\ d.parts = c.parts BY <1>3, <1>9
  <2>2. d.hash.ips = row.ips /\ d.hash.fields = Hash(row, NoParts).fields
    BY <1>3, <1>6, <1>7, <1>9 DEF RefreshTrue, StoreTrue, Generating
  <2>3. members'[row.id] = Share(row, c.parts)
        /\ \A ip \in members'[row.id] : served'[ip] = ConfigOf(row, c.parts)
    BY <1>4, <1>5, <1>6, <1>7, <1>11
  <2>4. /\ Hash(row, NoParts)' = Hash(row, NoParts) /\ ConfigOf(row, c.parts)' = ConfigOf(row, c.parts)
        /\ Share(row, c.parts)' = Share(row, c.parts)
    BY <1>12 DEF Hash, ConfigOf, Share, Caching
  <2> QED BY <2>1, <2>2, <2>3, <2>4 DEF StoreTrue
<1>15. NamesKnown(d)' BY <1>7, <1>9, <1>12 DEF RefreshTrue, NamesKnown, Listed
<1>16. RowsTrue(d)' BY <1>9 DEF RowsTrue
<1>17. ASSUME NEW p \in Pools \ reused', hash'[p] # NoHash PROVE HashTrue(p)'
  <2>1. CASE Listed(p) /\ pool[p].id = row.id
    <3>1. refresh'[r] = d BY <1>1, <1>9, OneRefresherMoves
    <3>2. pool'[p].id = d.list[d.at].id BY <1>3, <1>9, <1>12, <2>1
    <3>3. Storing(pool[p].id)' BY <1>9, <3>1, <3>2 DEF Storing
    <3> QED BY <3>3 DEF HashTrue
  <2>2. CASE Listed(p) /\ pool[p].id # row.id
    <3>1. HashTrue(p) BY <1>12, <1>17 DEF OrderlyInv
    <3>2. ~Storing(pool[p].id) BY <1>2, <1>6, <1>7 DEF Storing
    <3>3. pool[p].id \in Ids BY <1>1, <2>2, RowFields DEF CacheTyped, CacheShape, Listed
    <3>4. ASSUME NEW ip \in members[pool[p].id] \ contested PROVE ip \notin row.ips /\ ip \notin members[row.id]
      <4>1. Holds(pool[p].id, ip) /\ ip \in Ips BY <1>10, <3>3, <3>4 DEF Holds
      <4>2. ip \in row.ips \/ ip \in members[row.id] => Holds(row.id, ip)
        BY <1>2, <1>3, <1>6, <1>7 DEF Holds
      <4>3. Holds(row.id, ip) => row.id = pool[p].id
        BY <1>7, <3>3, <3>4, <4>1 DEF OneHolder, HolderInv, Ids
      <4> QED BY <2>2, <4>2, <4>3
    <3>5. \A ip \in members[pool[p].id] \ contested : served'[ip] = served[ip]
      BY <1>6, <1>10, <1>11, <3>3, <3>4
    <3>6. members'[pool[p].id] = members[pool[p].id] BY <1>11, <2>2, <3>3
    <3> QED BY <1>12, <3>1, <3>2, <3>5, <3>6, KeptHash
  <2>3. CASE ~Listed(p) BY <1>12, <2>3 DEF HashTrue, Listed
  <2> QED BY <2>1, <2>2, <2>3
<1>18. ServedHeld'
  <2>1. ASSUME NEW ip \in Ips, served'[ip] # NoConfig PROVE \E i \in Ids : ip \in members'[i]
    <3>1. CASE ip \in share BY <1>7, <1>11, <3>1
    <3>2. CASE ip \notin share
      <4>1. served[ip] # NoConfig /\ ip \notin members[row.id] BY <1>11, <2>1, <3>2
      <4>2. PICK i \in Ids : ip \in members[i] BY <4>1 DEF OrderlyInv, ServedHeld
      <4>3. members'[i] = members[i] BY <1>11, <4>1, <4>2
      <4> QED BY <4>2, <4>3
    <3> QED BY <3>1, <3>2
  <2> QED BY <2>1 DEF ServedHeld
<1>19. d \in RefreshType /\ \A ip \in Ips : Len(saved'[ip]) <= 1 BY <1>9, <1>12 DEF OrderlyInv, RefreshOK
<1>20. d.pc # "idle" /\ RefreshTrue(d)' BY <1>9, <1>13, <1>14, <1>15, <1>16 DEF RefreshTrue
<1> QED BY <1>7, <1>9, <1>17, <1>18, <1>19, <1>20, RefresherGoesOn

LEMMA StoreHashStores ==
  ASSUME HolderInv, OrderlyInv, NEW r \in Refreshers, StoreHash(r)
  PROVE  OrderlyInv'
<1>1. KeepsHolders /\ CacheTyped /\ IdsGiven /\ CacheTyped' BY RefresherReads DEF HolderInv, RefreshStep
<1>2. PICK c : c = refresh[r] OBVIOUS
<1>3. c.pc = "hash" BY <1>2 DEF StoreHash
<1>4. /\ c \in RefreshType /\ RefreshOK(c) /\ RefreshTrue(c)
      /\ \A s \in Refreshers \ {r} : refresh[s].pc = "idle"
  BY <1>2, <1>3, ActiveRefresher
<1>5. PICK row : row = c.list[c.at] OBVIOUS
<1>6. c.at \in Pools /\ row \in PoolRow /\ row.id \in Ids /\ row # NoPool /\ c.parts \in AnyParts
  BY <1>3, <1>4, <1>5, RowFields DEF RefreshOK, RefreshType, Generating
<1>7. PICK d : d = [c EXCEPT !.pc = "check", !.at = Absent, !.hash = NoHash, !.parts = NoParts] OBVIOUS
<1>8. RefreshTo(r, d) BY <1>2, <1>7 DEF StoreHash
<1>9. d \in RefreshType BY <1>1, <1>8 DEF CacheTyped, CacheShape, RefreshTo
<1>10. d.pc = "check" /\ d.save = c.save /\ d.list = c.list BY <1>4, <1>7 DEF RefreshType
<1>11. UNCHANGED <<configMode, pool, contested, served, members, saved>> BY <1>1 DEF StoreHash, ConfigSame, KeepsHolders
<1>12. SaveTrue(d)' BY <1>4, <1>10, <1>11 DEF RefreshTrue, SaveTrue, Told
<1>13. StoreTrue(d)' /\ RowsTrue(d)' BY <1>10 DEF StoreTrue, RowsTrue, Generating
<1>14. /\ hash'[c.at] = c.hash /\ \A p \in Pools \ {c.at} : hash'[p] = hash[p]
       /\ \A p \in Pools \ {c.at} : p \in torn <=> p \in torn'
       /\ \A p \in Pools \ {c.at} : p \in reused <=> p \in reused'
       /\ c.at \notin torn' => c.hash = Hash(row, c.parts)
       /\ pool[c.at].id # row.id => reused' = reused
  BY <1>1, <1>2, <1>5, <1>6 DEF StoreHash, CacheTyped, CacheShape
<1>15. /\ \A p, q \in Pools : p # q /\ Listed(p) /\ c.list[q].id = pool[p].id => p \in reused \/ hash[p] = NoHash
       /\ \A p \in Pools : Listed(p) /\ c.list[p] # NoPool /\ c.list[p].id # pool[p].id => p \in reused
  BY <1>4 DEF RefreshTrue, NamesKnown
<1>16. \A p \in Pools : Listed(p) => pool[p].id \in Ids
  BY <1>1, RowFields DEF CacheTyped, CacheShape, Listed
\* Another name does not have the row that was read as c.at, or was used before.
<1>17. ASSUME NEW p \in Pools, NEW q \in Pools, p # q, Listed(p), c.list[q].id = pool[p].id
       PROVE  p \in reused' \/ hash'[p] = NoHash
  <2>1. CASE p # c.at BY <1>14, <1>15, <1>17, <2>1
  <2>2. CASE p = c.at
    <3>1. row.id # pool[p].id BY <1>1, <1>2, <1>5, <1>16, <1>17, <2>2 DEF IdsGiven
    <3>2. p \in reused BY <1>5, <1>6, <1>15, <1>17, <2>2, <3>1
    <3> QED BY <1>14, <2>2, <3>1, <3>2
  <2> QED BY <2>1, <2>2
<1>18. ASSUME NEW p \in Pools, Listed(p), c.list[p] # NoPool, c.list[p].id # pool[p].id PROVE p \in reused'
  <2>1. p \in reused BY <1>15, <1>18
  <2> QED BY <1>5, <1>14, <1>18, <2>1
<1>19. NamesKnown(d)' BY <1>10, <1>11, <1>17, <1>18 DEF NamesKnown, Listed
<1>20. ASSUME NEW p \in Pools \ reused', hash'[p] # NoHash PROVE HashTrue(p)'
  <2>1. CASE ~Listed(p) BY <1>11, <2>1 DEF HashTrue, Listed
  <2>2. CASE Listed(p) /\ pool[p].id # row.id
    <3>1. p # c.at BY <1>5, <1>6, <1>14, <1>15, <1>20, <2>2
    <3>2. p \in Pools \ reused /\ hash'[p] = hash[p] /\ (p \in torn <=> p \in torn') BY <1>14, <1>20, <3>1
    <3>3. HashTrue(p) BY <1>20, <3>2 DEF OrderlyInv
    <3>4. ~Storing(pool[p].id) BY <1>2, <1>4, <1>5, <2>2 DEF Storing
    <3> QED BY <1>11, <3>2, <3>3, <3>4, KeptHash
  <2>3. CASE Listed(p) /\ pool[p].id = row.id
    <3>1. p = c.at BY <1>5, <1>6, <1>17, <1>20, <2>3
    <3>2. /\ members'[row.id] = Share(row, c.parts)
          /\ \A ip \in members'[row.id] \ contested' : served'[ip] = ConfigOf(row, c.parts)
          /\ hash'[p].ips = row.ips /\ hash'[p].fields = Hash(row, NoParts).fields
      BY <1>3, <1>4, <1>5, <1>11, <1>14, <3>1 DEF RefreshTrue, StoreTrue, Generating
    <3>3. Hash(row, NoParts).fields = Hash(row, c.parts).fields
      BY <1>6, HashTyped DEF AnyParts
    <3>4. ~(p \in torn') /\ Caching("records") => hash'[p].parts = c.parts
      BY <1>6, <1>14, <3>1, HashTyped
    <3>5. /\ Hash(row, c.parts)' = Hash(row, c.parts) /\ ConfigOf(row, c.parts)' = ConfigOf(row, c.parts)
          /\ Share(row, c.parts)' = Share(row, c.parts) /\ Caching("records")' = Caching("records")
      BY <1>11 DEF Hash, ConfigOf, Share, Caching
    <3>6. pool'[p].id = row.id BY <1>11, <2>3
    <3>7. MadeOf(pool[p].id, hash[p], row, c.parts, p \in torn)'
      BY <3>2, <3>3, <3>4, <3>5, <3>6 DEF MadeOf
    <3> QED BY <1>6, <3>7 DEF HashTrue
  <2> QED BY <2>1, <2>2, <2>3
<1>21. ServedHeld' /\ \A ip \in Ips : Len(saved'[ip]) <= 1 BY <1>11 DEF OrderlyInv, ServedHeld
<1>22. d.pc # "idle" /\ RefreshTrue(d)' BY <1>10, <1>12, <1>13, <1>19 DEF RefreshTrue
<1> QED BY <1>4, <1>8, <1>9, <1>20, <1>21, <1>22, RefresherGoesOn

\* A sequence of at most one row.
LEMMA OneRowOrNone ==
  ASSUME NEW s \in Seq(Config), Len(s) <= 1
  PROVE  s = <<>> \/ (Len(s) = 1 /\ s = <<s[1]>> /\ DOMAIN s = {1})
<1>1. Len(s) = 0 \/ Len(s) = 1
  <2>1. PICK n : n = Len(s) OBVIOUS
  <2>2. n \in Nat /\ n <= 1 BY <2>1
  <2>3. n = 0 \/ n = 1 BY <2>2
  <2> QED BY <2>1, <2>3
<1>2. Len(s) = 0 => s = <<>> OBVIOUS
<1>3. ASSUME Len(s) = 1 PROVE s = <<s[1]>> /\ DOMAIN s = {1}
  <2>1. DOMAIN s = {1} BY <1>3
  <2>2. s = <<s[1]>> BY <1>3, <2>1
  <2> QED BY <2>1, <2>2
<1> QED BY <1>1, <1>2, <1>3

LEMMA LookupStores ==
  ASSUME HolderInv, OrderlyInv, NEW r \in Refreshers, Lookup(r)
  PROVE  OrderlyInv'
<1>1. KeepsHolders /\ CacheTyped /\ CacheTyped' BY RefresherReads DEF HolderInv, RefreshStep
<1>2. PICK c : c = refresh[r] OBVIOUS
<1>3. c.pc = "check" BY <1>2 DEF Lookup
<1>4. /\ c \in RefreshType /\ RefreshOK(c) /\ SaveTrue(c) /\ NamesKnown(c)
      /\ \A s \in Refreshers \ {r} : refresh[s].pc = "idle"
  BY <1>2, <1>3, ActiveRefresher DEF RefreshTrue
<1>5. UNCHANGED <<configMode, served, members, hash, saved, torn, reused>> BY DEF Lookup, ConfigSame
<1>6. CASE ToSave(c) = {}
  <2>1. RefreshTo(r, Resting) BY <1>2, <1>6 DEF Lookup
  <2>2. Resting \in RefreshType /\ Resting.pc = "idle" BY RestingOK DEF RefreshOK, Resting
  <2>3. \A ip \in Ips : Told(ip) BY <1>4, <1>6 DEF SaveTrue, ToSave
  <2> QED BY <1>1, <1>2, <1>3, <1>4, <1>5, <2>1, <2>2, <2>3, QuietStep
<1>7. CASE ToSave(c) # {}
  <2>1. PICK new : new = {ip \in ToSave(c) : saved[ip] = <<>>} OBVIOUS
  <2>2. PICK old : old = {<<ip, Len(saved[ip])>> : ip \in
                            {i \in ToSave(c) : saved[i] # <<>> /\ saved[i][Len(saved[i])] # c.save[i]}}
    OBVIOUS
  <2>3. PICK d : d = [c EXCEPT !.pc = "create", !.create = new, !.update = old] OBVIOUS
  <2>4. RefreshTo(r, d) BY <1>2, <1>7, <2>1, <2>2, <2>3 DEF Lookup
  <2>5. d \in RefreshType BY <1>1, <2>4 DEF CacheTyped, CacheShape, RefreshTo
  <2>6. d.pc = "create" /\ d.save = c.save /\ d.create = new /\ d.update = old
    BY <1>4, <2>3 DEF RefreshType
  <2>7. SaveTrue(d) BY <1>4, <2>6 DEF SaveTrue
  <2>8. StoreTrue(d) BY <2>6 DEF StoreTrue, Generating
  <2>9. ASSUME NEW ip \in ToSave(d)
        PROVE  IF saved[ip] = <<>> THEN ip \in d.create
               ELSE ip \notin d.create /\ (<<ip, 1>> \in d.update \/ saved[ip] = <<d.save[ip]>>)
    <3>1. ip \in ToSave(c) /\ ip \in Ips BY <2>6, <2>9 DEF ToSave
    <3>2. saved[ip] \in Seq(Config) /\ Len(saved[ip]) <= 1
      BY <1>1, <3>1 DEF CacheTyped, CacheShape, OrderlyInv
    <3>3. saved[ip] = <<>> \/ (Len(saved[ip]) = 1 /\ saved[ip] = <<saved[ip][1]>>)
      BY <3>2, OneRowOrNone
    <3>4. CASE saved[ip] = <<>> BY <2>1, <2>6, <3>1, <3>4
    <3>5. CASE saved[ip] # <<>> /\ saved[ip][1] = c.save[ip]
      BY <2>1, <2>6, <3>1, <3>3, <3>5
    <3>6. CASE saved[ip] # <<>> /\ saved[ip][1] # c.save[ip]
      BY <2>1, <2>2, <2>6, <3>1, <3>3, <3>6
    <3> QED BY <3>4, <3>5, <3>6
  <2>10. RowsTrue(d) BY <2>6, <2>9 DEF RowsTrue
  <2>11. d.list = c.list BY <1>4, <2>3 DEF RefreshType
  <2>12. NamesKnown(d) BY <1>4, <2>11 DEF NamesKnown
  <2>13. RefreshTrue(d) BY <2>7, <2>8, <2>10, <2>12 DEF RefreshTrue
  <2> QED BY <1>1, <1>2, <1>3, <1>4, <1>5, <2>4, <2>5, <2>6, <2>13, QuietStep
<1> QED BY <1>6, <1>7

LEMMA CreateStores ==
  ASSUME HolderInv, OrderlyInv, NEW r \in Refreshers, CreateRows(r)
  PROVE  OrderlyInv'
<1>1. KeepsHolders /\ CacheTyped /\ CacheTyped' BY RefresherReads DEF HolderInv, RefreshStep
<1>2. PICK c : c = refresh[r] OBVIOUS
<1>3. /\ c.pc = "create" /\ c \in RefreshType /\ RefreshOK(c)
  <2>1. c.pc = "create" BY <1>2 DEF CreateRows
  <2> QED BY <1>2, <2>1, ActiveRefresher
<1>4. /\ SaveTrue(c) /\ RowsTrue(c) /\ NamesKnown(c)
      /\ \A s \in Refreshers \ {r} : refresh[s].pc = "idle"
  BY <1>2, <1>3, ActiveRefresher DEF RefreshTrue
<1>5. UNCHANGED <<configMode, pool, contested, served, members, hash, torn, reused>>
  BY <1>1 DEF CreateRows, ConfigSame, KeepsHolders
<1>6. saved' = [ip \in Ips |-> IF ip \in c.create THEN Append(saved[ip], c.save[ip]) ELSE saved[ip]]
  BY <1>2 DEF CreateRows
<1>7. PICK d : d = [c EXCEPT !.pc = "update"] OBVIOUS
<1>8. RefreshTo(r, d) BY <1>2, <1>7 DEF CreateRows
<1>9. d \in RefreshType BY <1>1, <1>8 DEF CacheTyped, CacheShape, RefreshTo
<1>10. d.pc = "update" /\ d.save = c.save /\ d.update = c.update /\ d.list = c.list BY <1>3, <1>7 DEF RefreshType
<1>11. ASSUME NEW ip \in Ips
       PROVE  IF ip \in c.create THEN saved'[ip] = <<c.save[ip]>> ELSE saved'[ip] = saved[ip]
  <2>1. ip \in c.create => saved[ip] = <<>>
    BY <1>3, <1>4 DEF RowsTrue, RefreshOK
  <2>2. ip \in c.create => saved'[ip] = Append(<<>>, c.save[ip]) BY <1>6, <2>1
  <2> QED BY <1>6, <2>2
<1>12. SaveTrue(d)'
  <2>1. \A ip \in c.create : c.save[ip] # NoConfig BY <1>3 DEF RefreshOK, ToSave
  <2> QED BY <1>4, <1>5, <1>10, <1>11, <2>1 DEF SaveTrue, Told
<1>13. StoreTrue(d)' /\ NamesKnown(d)'
  BY <1>4, <1>5, <1>10 DEF StoreTrue, Generating, NamesKnown, Listed
<1>14. ASSUME NEW ip \in ToSave(d)
       PROVE  saved'[ip] # <<>> /\ (<<ip, 1>> \in d.update \/ saved'[ip] = <<d.save[ip]>>)
  <2>1. ip \in ToSave(c) /\ ip \in Ips BY <1>10, <1>14 DEF ToSave
  <2> QED BY <1>3, <1>4, <1>10, <1>11, <2>1 DEF RowsTrue
<1>15. RowsTrue(d)' BY <1>10, <1>14 DEF RowsTrue
<1>16. \A ip \in Ips : Len(saved'[ip]) <= 1
  <2>1. ASSUME NEW ip \in Ips PROVE Len(saved'[ip]) <= 1
    <3>1. Len(<<c.save[ip]>>) = 1 OBVIOUS
    <3>2. Len(saved[ip]) <= 1 BY DEF OrderlyInv
    <3>3. CASE ip \in c.create
      <4>1. saved'[ip] = <<c.save[ip]>> BY <1>11, <3>3
      <4> QED BY <4>1
    <3>4. CASE ip \notin c.create
      <4>1. saved'[ip] = saved[ip] BY <1>11, <3>4
      <4> QED BY <3>2, <4>1
    <3> QED BY <3>3, <3>4
  <2> QED BY <2>1
<1>17. ASSUME NEW p \in Pools \ reused', hash'[p] # NoHash PROVE HashTrue(p)'
  <2>1. ~Storing(pool[p].id) BY <1>2, <1>3, <1>4 DEF Storing
  <2>2. HashTrue(p) BY <1>5, <1>17 DEF OrderlyInv
  <2> QED BY <1>5, <2>1, <2>2, KeptHash
<1>18. ServedHeld' BY <1>5 DEF OrderlyInv, ServedHeld
<1>19. d.pc # "idle" /\ RefreshTrue(d)' BY <1>10, <1>12, <1>13, <1>15 DEF RefreshTrue
<1> QED BY <1>4, <1>8, <1>9, <1>16, <1>17, <1>18, <1>19, RefresherGoesOn

LEMMA UpdateStores ==
  ASSUME HolderInv, OrderlyInv, NEW r \in Refreshers, UpdateRows(r)
  PROVE  OrderlyInv'
<1>1. KeepsHolders /\ CacheTyped /\ CacheTyped' BY RefresherReads DEF HolderInv, RefreshStep
<1>2. PICK c : c = refresh[r] OBVIOUS
<1>3. /\ c.pc = "update" /\ c \in RefreshType /\ RefreshOK(c)
  <2>1. c.pc = "update" BY <1>2 DEF UpdateRows
  <2> QED BY <1>2, <2>1, ActiveRefresher
<1>4. /\ SaveTrue(c) /\ RowsTrue(c) /\ NamesKnown(c)
      /\ \A s \in Refreshers \ {r} : refresh[s].pc = "idle"
  BY <1>2, <1>3, ActiveRefresher DEF RefreshTrue
<1>5. UNCHANGED <<configMode, pool, contested, served, members, hash, torn, reused>>
  BY <1>1 DEF UpdateRows, ConfigSame, KeepsHolders
<1>6. \A ip \in Ips : saved'[ip] = [k \in DOMAIN saved[ip] |->
                                      IF <<ip, k>> \in c.update THEN c.save[ip] ELSE saved[ip][k]]
  BY <1>2 DEF UpdateRows
<1>7. RefreshTo(r, Resting) BY DEF UpdateRows
<1>8. Resting \in RefreshType /\ Resting.pc = "idle" BY RestingOK DEF RefreshOK, Resting
<1>9. ASSUME NEW ip \in Ips
      PROVE  /\ Len(saved'[ip]) <= 1
             /\ ip \in ToSave(c) => saved'[ip] = <<c.save[ip]>>
             /\ ip \notin ToSave(c) => saved'[ip] = saved[ip]
  <2>1. PICK rows : rows = saved[ip] OBVIOUS
  <2>2. rows \in Seq(Config) /\ Len(rows) <= 1
    BY <1>1, <2>1 DEF CacheTyped, CacheShape, OrderlyInv
  <2>3. rows = <<>> \/ (Len(rows) = 1 /\ rows = <<rows[1]>> /\ DOMAIN rows = {1})
    BY <2>2, OneRowOrNone
  <2>4. PICK f : f = [k \in DOMAIN rows |-> IF <<ip, k>> \in c.update THEN c.save[ip] ELSE rows[k]] OBVIOUS
  <2>5. saved'[ip] = f BY <1>6, <2>1, <2>4
  <2>6. CASE rows = <<>>
    <3>1. f = <<>> BY <2>4, <2>6
    <3>2. ip \notin ToSave(c) BY <1>3, <1>4, <2>1, <2>6 DEF RowsTrue
    <3> QED BY <2>1, <2>2, <2>5, <2>6, <3>1, <3>2
  <2>7. CASE Len(rows) = 1 /\ rows = <<rows[1]>> /\ DOMAIN rows = {1}
    <3>1. f = [k \in {1} |-> IF <<ip, 1>> \in c.update THEN c.save[ip] ELSE rows[1]] BY <2>4, <2>7
    <3>2. f = <<IF <<ip, 1>> \in c.update THEN c.save[ip] ELSE rows[1]>> BY <3>1
    <3>3. Len(f) = 1 BY <3>2
    <3>4. ip \in ToSave(c) => <<ip, 1>> \in c.update \/ rows = <<c.save[ip]>>
      BY <1>3, <1>4, <2>1 DEF RowsTrue
    <3>5. ip \in ToSave(c) => f = <<c.save[ip]>>
      BY <2>7, <3>2, <3>4
    <3>6. ip \notin ToSave(c) => <<ip, 1>> \notin c.update BY <1>3 DEF RefreshOK
    <3>7. ip \notin ToSave(c) => f = rows BY <2>7, <3>2, <3>6
    <3> QED BY <2>1, <2>5, <3>3, <3>5, <3>7
  <2> QED BY <2>3, <2>6, <2>7
<1>10. ASSUME NEW ip \in Ips PROVE Told(ip)'
  <2>1. CASE ip \in ToSave(c)
    BY <1>4, <1>5, <1>9, <2>1 DEF SaveTrue, ToSave, Told
  <2>2. CASE ip \notin ToSave(c)
    BY <1>4, <1>5, <1>9, <2>2 DEF SaveTrue, ToSave, Told
  <2> QED BY <2>1, <2>2
<1>11. ASSUME NEW p \in Pools \ reused', hash'[p] # NoHash PROVE HashTrue(p)'
  <2>1. ~Storing(pool[p].id) BY <1>2, <1>3, <1>4 DEF Storing
  <2>2. HashTrue(p) BY <1>5, <1>11 DEF OrderlyInv
  <2> QED BY <1>5, <2>1, <2>2, KeptHash
<1>12. ServedHeld' BY <1>5 DEF OrderlyInv, ServedHeld
<1> QED BY <1>4, <1>7, <1>8, <1>9, <1>10, <1>11, <1>12, RefresherGoesOn

LEMMA RefresherKeepsStores ==
  ASSUME StoresInv, NEW r \in Refreshers, BeginRefresh(r) \/ RefreshStep(r) \/ FailRefresh(r)
  PROVE  StoresInv'
<1>1. HolderInv /\ HolderInv' BY RefresherKeepsHolders DEF StoresInv
<1>2. UNCHANGED configMode
  BY DEF BeginRefresh, RefreshStep, FailRefresh, CheckPool, GeneratePool, StorePool, StoreHash,
         Lookup, CreateRows, UpdateRows, ConfigSame
<1>3. ASSUME Orderly' PROVE OrderlyInv'
  <2>1. Orderly /\ OrderlyInv BY <1>2, <1>3 DEF StoresInv, Orderly
  <2>2. ~FailRefresh(r) BY <2>1 DEF Orderly, FailRefresh
  <2> QED BY <1>1, <2>1, <2>2, BeginStores, CheckStores, GenerateStores, StoreStores, StoreHashStores,
             LookupStores, CreateStores, UpdateStores DEF RefreshStep
<1> QED BY <1>1, <1>3 DEF StoresInv

LEMMA ChangesKeepStores ==
  ASSUME StoresInv,
         \/ \E p \in Pools : PoolChange(p)
         \/ \E i \in Ids, content \in AnyParts : SetParts(i, content)
  PROVE  StoresInv'
<1>1. HolderInv /\ CacheTyped /\ IdsGiven /\ OneHolder BY DEF StoresInv, HolderInv
<1>2. CASE \E p \in Pools : PoolChange(p)
  <2>1. PICK o \in Pools, q \in Pools : \E row : Moved(o, q, row) BY <1>1, <1>2, PoolMoves
  <2>2. PICK row : Moved(o, q, row) BY <2>1
  <2>3. HolderInv' BY <1>1, <2>2, MovedTyped, MovedKeepsHolders DEF HolderInv
  <2>4. Orderly' => OrderlyInv'
    <3>1. UNCHANGED configMode BY <2>2 DEF Moved
    <3> QED BY <1>1, <2>2, <3>1, MovedKeepsStores DEF StoresInv, Orderly
  <2> QED BY <2>3, <2>4 DEF StoresInv
<1>3. CASE \E i \in Ids, content \in AnyParts : SetParts(i, content)
  <2>1. PICK i \in Ids, content \in AnyParts : SetParts(i, content) BY <1>3
  <2>2. HolderInv' BY <1>1, <2>1, SetPartsKeepsHolders
  <2>3. Orderly' => OrderlyInv'
    <3>1. UNCHANGED configMode BY <2>1 DEF SetParts
    <3> QED BY <2>1, <3>1, SetPartsKeepsStores DEF StoresInv, Orderly
  <2> QED BY <2>2, <2>3 DEF StoresInv
<1> QED BY <1>2, <1>3

\* A hash that is the pool's says that the pool was generated from what it has.
LEMMA TrueHashServes ==
  ASSUME HolderInv, OrderlyInv, AtRest, NEW p \in Pools \ (torn \cup reused),
         hash[p] = Hash(pool[p], PartsOf(p))
  PROVE  ServedWhole(p)
<1>1. CacheTyped /\ OneHolder /\ pool[p] \in PoolRow \cup {NoPool} /\ members \in [Ids -> SUBSET Ips]
      /\ parts \in [Ids -> AnyParts]
  BY DEF HolderInv, CacheTyped, CacheShape
<1>2. PICK own : own = PartsOf(p) OBVIOUS
<1>3. own \in AnyParts BY <1>1, <1>2, RowFields DEF PartsOf, Listed, AnyParts
<1>4. CASE pool[p].ips = {} BY <1>2, <1>3, <1>4 DEF ServedWhole
<1>5. CASE pool[p].ips # {}
  <2>1. pool[p] \in PoolRow /\ Listed(p) BY <1>1, <1>5, RowFields DEF Listed
  <2>2. PICK mine : mine = pool[p] OBVIOUS
  <2>3. mine \in PoolRow /\ mine.id \in Ids /\ mine.ips # {} /\ mine.ips \subseteq Ips
    BY <1>5, <2>1, <2>2, RowFields
  <2>4. /\ hash[p] # NoHash /\ hash[p].ips = mine.ips
        /\ hash[p].fields = IF Caching("records") THEN Absent ELSE mine.fields
        /\ hash[p].parts = IF Caching("records") THEN own ELSE NoParts
    <3>1. hash[p] = Hash(mine, own) BY <1>2, <2>2
    <3> QED BY <1>3, <2>3, <3>1, HashTyped
  <2>5. ~Storing(pool[p].id) BY DEF AtRest, Storing
  <2>6. HashTrue(p) BY <2>4 DEF OrderlyInv
  <2>7. PICK row \in PoolRow, content \in AnyParts : MadeOf(pool[p].id, hash[p], row, content, p \in torn)
    BY <2>1, <2>5, <2>6 DEF HashTrue
  <2>8. /\ row.ips = mine.ips /\ (~Caching("records") => row.fields = mine.fields)
        /\ Caching("records") => content = own
        /\ members[mine.id] = Share(row, content)
        /\ \A ip \in members[mine.id] \ contested : served[ip] = ConfigOf(row, content)
    BY <2>2, <2>4, <2>7, HashTyped DEF MadeOf
  <2>9. Share(row, content) = Share(mine, content) BY <2>8 DEF Share
  <2>10. ConfigOf(row, content) = ConfigOf(mine, content)
    <3>1. Caching("main") => ~Caching("records") BY DEF Caching
    <3> QED BY <2>8, <3>1 DEF ConfigOf
  <2>11. ASSUME NEW ip \in mine.ips \ contested
         PROVE  served[ip] = IF ip \in Share(mine, content) THEN ConfigOf(mine, content) ELSE NoConfig
    <3>1. CASE ip \in Share(mine, content) BY <2>8, <2>9, <2>10, <2>11, <3>1
    <3>2. ASSUME ip \notin Share(mine, content), served[ip] # NoConfig PROVE FALSE
      <4>1. ip \in Ips BY <2>3, <2>11
      <4>2. PICK i \in Ids : ip \in members[i] BY <3>2, <4>1 DEF OrderlyInv, ServedHeld
      <4>3. Holds(i, ip) /\ Holds(mine.id, ip) BY <2>2, <2>11, <4>2 DEF Holds
      <4>4. i = mine.id BY <1>1, <2>3, <2>11, <4>1, <4>3 DEF OneHolder, Ids
      <4> QED BY <2>8, <2>9, <3>2, <4>2, <4>4
    <3> QED BY <3>1, <3>2
  <2>12. \A ip \in pool[p].ips \ contested :
           served[ip] = IF ip \in Share(pool[p], content) THEN ConfigOf(pool[p], content) ELSE NoConfig
    BY <2>2, <2>11
  <2> QED BY <1>2, <2>8, <2>12 DEF ServedWhole
<1> QED BY <1>4, <1>5

\* Redis, its hashes and the table of configurations tell one story between refreshes that
\* neither overlap nor fail, however many pools, instances and changes there are: also when
\* pools are renamed, have fields that cannot be generated or no instances, and when rules
\* go to some of the instances only.
THEOREM StoresTellOneStory == ConfigSpec => []StoresAgree
<1>1. ConfigInit => StoresInv
  <2> SUFFICES ASSUME ConfigInit PROVE StoresInv
    OBVIOUS
  <2>1. CacheTyped
    BY RestingOK, MaxIdAssumption
    DEF ConfigInit, CacheTyped, CacheShape, Nothing, HashType, NoHash, RefreshOK, AnyParts
  <2>2. \A r \in Refreshers, p \in Pools : refresh[r].list[p] = NoPool /\ refresh[r].pc = "idle"
    BY DEF ConfigInit, Resting
  <2>3. IdsGiven BY <2>2, RowFields DEF ConfigInit, IdsGiven, Ids
  <2>4. OneHolder BY <2>2, RowFields DEF ConfigInit, OneHolder, Holds
  <2>5. \A r \in Refreshers : refresh[r].pc = "idle" BY DEF ConfigInit, Resting
  <2>6. OrderlyInv
    <3>1. \A ip \in Ips : saved[ip] = <<>> /\ served[ip] = NoConfig BY DEF ConfigInit, Nothing
    <3>2. Len(<<>>) <= 1 OBVIOUS
    <3>3. \A p \in Pools : hash[p] = NoHash BY DEF ConfigInit
    <3> QED BY <2>5, <3>1, <3>2, <3>3 DEF OrderlyInv, ServedHeld, Told
  <2> QED BY <2>1, <2>3, <2>4, <2>6 DEF StoresInv, HolderInv
<1>2. StoresInv /\ [ConfigNext]_configVars => StoresInv'
  <2>1. ASSUME StoresInv, UNCHANGED configVars PROVE StoresInv'
    <3>1. CacheTyped' /\ IdsGiven' /\ OneHolder'
      BY <2>1 DEF StoresInv, HolderInv, configVars, CacheTyped, CacheShape, IdsGiven, OneHolder, Holds
    <3>2. ASSUME NEW p \in Pools, HashTrue(p) PROVE HashTrue(p)'
      <4>1. UNCHANGED <<configMode, pool, contested, hash, torn, members, served, refresh>>
        BY <2>1 DEF configVars
      <4>2. CASE Storing(pool[p].id)
        <5>1. Storing(pool[p].id)' BY <4>1, <4>2 DEF Storing
        <5> QED BY <5>1 DEF HashTrue
      <4>3. CASE ~Storing(pool[p].id) BY <3>2, <4>1, <4>3, KeptHash
      <4> QED BY <4>2, <4>3
    <3>3. ASSUME NEW r \in Refreshers, RefreshTrue(refresh[r]) PROVE RefreshTrue(refresh[r])'
      BY <2>1, <3>3 DEF configVars, RefreshTrue, SaveTrue, StoreTrue, NamesKnown, RowsTrue, ToSave, Told,
                        Listed, Hash, ConfigOf, Share, Caching
    <3>4. Orderly' => OrderlyInv'
      BY <2>1, <3>2, <3>3 DEF StoresInv, Orderly, configVars, OrderlyInv, ServedHeld, Told, AtRest
    <3> QED BY <3>1, <3>4 DEF StoresInv, HolderInv
  <2>2. ASSUME StoresInv, ConfigNext PROVE StoresInv'
    <3>1. \/ \E p \in Pools : PoolChange(p)
          \/ \E i \in Ids, content \in AnyParts : SetParts(i, content)
          \/ \E r \in Refreshers : BeginRefresh(r) \/ RefreshStep(r) \/ FailRefresh(r)
      BY <2>2 DEF ConfigNext, PoolChange
    <3> QED BY <2>2, <3>1, ChangesKeepStores, RefresherKeepsStores
  <2> QED BY <2>1, <2>2
<1>3. StoresInv => StoresAgree
  <2> SUFFICES ASSUME StoresInv, Orderly, AtRest
               PROVE  /\ \A ip \in Ips \ contested : served[ip] # NoConfig => saved[ip] = <<served[ip]>>
                      /\ \A p \in Pools \ (torn \cup reused) :
                           hash[p] = Hash(pool[p], PartsOf(p)) => ServedWhole(p)
    BY DEF StoresAgree, SavedIsServed, HashTellsTruth
  <2>1. HolderInv /\ OrderlyInv BY DEF StoresInv
  <2> QED BY <2>1, TrueHashServes DEF OrderlyInv, Told
<1> QED BY <1>1, <1>2, <1>3, PTL DEF ConfigSpec

----
(***************************************************************************)
(* The on-duty rota.                                                       *)
(***************************************************************************)

----
\* The natural numbers are well ordered, and what holds of 0 and of every successor holds.
LEMMA LeastElement ==
  ASSUME NEW T \in SUBSET Nat, T # {}
  PROVE  \E n \in T : \A m \in T : n <= m
<1>1. PICK R : R = OpToRel(<, Nat) OBVIOUS
<1>2. IsWellFoundedOn(R, Nat) BY <1>1, NatLessThanWellFounded
<1>3. PICK x \in T : \A y \in T : ~ (<<y, x>> \in R) BY <1>2, WFMin
<1>4. \A y \in Nat : y < x => <<y, x>> \in R BY <1>1 DEF OpToRel
<1>5. x \in Nat OBVIOUS
<1>6. ASSUME NEW m \in T PROVE x <= m
  <2>1. m \in Nat OBVIOUS
  <2>2. ~(m < x) BY <1>3, <1>4, <1>6, <2>1
  <2> QED BY <1>5, <2>1, <2>2
<1> QED BY <1>6

LEMMA InductionOnSets ==
  ASSUME NEW S, 0 \in S, \A n \in Nat : n \in S => n + 1 \in S
  PROVE  Nat \subseteq S
<1>1. SUFFICES ASSUME Nat \ S # {} PROVE FALSE OBVIOUS
<1>2. PICK n \in Nat \ S : \A m \in Nat \ S : n <= m BY <1>1, LeastElement
<1>3. n # 0 BY <1>2
<1>4. n - 1 \in Nat /\ (n - 1) + 1 = n BY <1>2, <1>3
<1>5. n - 1 \in S BY <1>2, <1>4
<1> QED BY <1>2, <1>4, <1>5

\* Division with remainder.
LEMMA Division ==
  ASSUME NEW a \in Nat, NEW b \in Nat \ {0}
  PROVE  /\ a \div b \in Nat /\ (a % b) \in Nat /\ (a % b) < b
         /\ a = (a \div b) * b + (a % b)
<1>1. b \in Nat /\ b > 0 OBVIOUS
<1>2. a \div b \in Int /\ a \div b >= 0 BY <1>1
<1>3. (a % b) \in 0..(b - 1) BY <1>1
<1>4. a = (a \div b) * b + (a % b) BY <1>1
<1> QED BY <1>1, <1>2, <1>3, <1>4

IsDivided(a, b, q, r) ==
  /\ a \in Nat /\ b \in Nat \ {0} /\ q \in Nat /\ r \in Nat
  /\ r < b /\ a = q * b + r

LEMMA Divided ==
  ASSUME NEW a \in Nat, NEW b \in Nat \ {0}
  PROVE  \E q \in Nat, r \in Nat : IsDivided(a, b, q, r)
BY Division DEF IsDivided

LEMMA DivisionIsUnique ==
  ASSUME NEW q \in Nat, NEW r \in Nat, NEW b \in Nat \ {0}, r < b
  PROVE  (q * b + r) \div b = q /\ (q * b + r) % b = r
<1>1. PICK a \in Nat : a = q * b + r OBVIOUS
<1>2. PICK p \in Nat, s \in Nat : p = a \div b /\ s = a % b /\ s < b /\ a = p * b + s
  BY Division
<1>3. ASSUME q < p PROVE FALSE
  <2>1. PICK d \in Nat : p = q + 1 + d
    <3>1. p - q - 1 \in Nat /\ p = q + 1 + (p - q - 1) BY <1>3
    <3> QED BY <3>1
  <2>2. p * b = q * b + b + d * b BY <2>1
  <2>3. d * b \in Nat OBVIOUS
  <2> QED BY <1>1, <1>2, <2>2, <2>3
<1>4. ASSUME p < q PROVE FALSE
  <2>1. PICK d \in Nat : q = p + 1 + d
    <3>1. q - p - 1 \in Nat /\ q = p + 1 + (q - p - 1) BY <1>4
    <3> QED BY <3>1
  <2>2. q * b = p * b + b + d * b BY <2>1
  <2>3. d * b \in Nat OBVIOUS
  <2> QED BY <1>1, <1>2, <2>2, <2>3
<1>5. p = q BY <1>3, <1>4
<1> QED BY <1>1, <1>2, <1>5

LEMMA NextRemainder ==
  ASSUME NEW k \in Nat, NEW n \in Nat \ {0}
  PROVE  /\ ((k % n) + 1) % n = (k + 1) % n
         /\ n > 1 => (k + 1) % n # k % n
<1>1. PICK x \in Nat, y \in Nat : k = x * n + y /\ y < n /\ (k % n) = y
  BY Division
<1>2. CASE y + 1 < n
  <2>1. (k + 1) = x * n + (y + 1) BY <1>1
  <2>2. (k + 1) % n = y + 1 BY <1>2, <2>1, DivisionIsUnique
  <2>3. (0 * n + (y + 1)) % n = y + 1 BY <1>2, DivisionIsUnique
  <2>4. (y + 1) % n = y + 1 BY <2>3
  <2> QED BY <1>1, <2>2, <2>4
<1>3. CASE y + 1 = n
  <2>1. (k + 1) = (x + 1) * n + 0 BY <1>1, <1>3
  <2>2. (k + 1) % n = 0
    <3>1. PICK z \in Nat : z = x + 1 BY <1>1
    <3>2. (z * n + 0) % n = 0 BY DivisionIsUnique
    <3>3. z * n + 0 = k + 1 BY <2>1, <3>1
    <3> QED BY <3>2, <3>3
  <2>3. (1 * n + 0) % n = 0 BY DivisionIsUnique
  <2>4. 1 * n + 0 = y + 1 BY <1>1, <1>3
  <2>5. (y + 1) % n = 0 BY <2>3, <2>4
  <2> QED BY <1>1, <1>3, <2>2, <2>5
<1> QED BY <1>1, <1>2, <1>3

----
\* f keeps the employed among the first k members: the recursion of EmployedAmong.
IsKept(f, roster, users, k) ==
  /\ DOMAIN f = 0..k
  /\ f[0] = <<>>
  /\ \A i \in 1..k : f[i] = IF roster[i] \in users THEN Append(f[i - 1], roster[i]) ELSE f[i - 1]

KeptBy(f, roster, users, k) ==
  f = [i \in 0..k |-> IF i = 0 THEN <<>>
        ELSE IF roster[i] \in users THEN Append(f[i - 1], roster[i]) ELSE f[i - 1]]

LEMMA KeptExists ==
  ASSUME NEW m, NEW E, NEW n \in Nat
  PROVE  \E f : KeptBy(f, m, E, n)
<1>1. PICK S : S = {k \in Nat : \E f : IsKept(f, m, E, k)} OBVIOUS
<1>2. 0 \in S
  <2>1. PICK f : f = [i \in 0..0 |-> <<>>] OBVIOUS
  <2>2. IsKept(f, m, E, 0) BY <2>1 DEF IsKept
  <2> QED BY <1>1, <2>2
<1>3. ASSUME NEW k \in Nat, k \in S PROVE k + 1 \in S
  <2>1. PICK f : IsKept(f, m, E, k) BY <1>1, <1>3
  <2>2. PICK last : last = IF m[k + 1] \in E THEN Append(f[k], m[k + 1]) ELSE f[k] OBVIOUS
  <2>3. PICK g : g = [i \in 0..(k + 1) |-> IF i = k + 1 THEN last ELSE f[i]] OBVIOUS
  <2>4. /\ DOMAIN g = 0..(k + 1) /\ g[k + 1] = last
        /\ \A i \in 0..k : g[i] = f[i]
    BY <2>3
  <2>5. g[0] = <<>> BY <2>1, <2>4 DEF IsKept
  <2>6. ASSUME NEW i \in 1..(k + 1)
        PROVE  g[i] = IF m[i] \in E THEN Append(g[i - 1], m[i]) ELSE g[i - 1]
    <3>1. CASE i = k + 1
      <4>1. i - 1 = k /\ g[i - 1] = f[k] BY <2>4, <3>1
      <4> QED BY <2>2, <2>4, <3>1, <4>1
    <3>2. CASE i # k + 1
      <4>1. i \in 1..k /\ i - 1 \in 0..k BY <3>2
      <4>2. f[i] = IF m[i] \in E THEN Append(f[i - 1], m[i]) ELSE f[i - 1]
        BY <2>1, <4>1 DEF IsKept
      <4>3. g[i] = f[i] /\ g[i - 1] = f[i - 1] BY <2>4, <4>1
      <4> QED BY <4>2, <4>3
    <3> QED BY <3>1, <3>2
  <2>7. IsKept(g, m, E, k + 1) BY <2>4, <2>5, <2>6 DEF IsKept
  <2> QED BY <1>1, <2>7
<1>4. n \in S BY <1>2, <1>3, InductionOnSets
<1>5. PICK f : IsKept(f, m, E, n) BY <1>1, <1>4
<1>6. PICK g : g = [i \in 0..n |-> IF i = 0 THEN <<>>
                          ELSE IF m[i] \in E THEN Append(f[i - 1], m[i]) ELSE f[i - 1]]
  OBVIOUS
<1>7. ASSUME NEW i \in 0..n PROVE g[i] = f[i]
  <2>1. CASE i = 0 BY <1>5, <1>6, <2>1 DEF IsKept
  <2>2. CASE i # 0
    <3>1. i \in 1..n BY <2>2
    <3> QED BY <1>5, <1>6, <2>2, <3>1 DEF IsKept
  <2> QED BY <2>1, <2>2
<1>8. IsKept(g, m, E, n)
  <2>1. DOMAIN g = 0..n /\ g[0] = <<>> BY <1>6
  <2>2. ASSUME NEW i \in 1..n PROVE g[i] = IF m[i] \in E THEN Append(g[i - 1], m[i]) ELSE g[i - 1]
    <3>1. i \in 0..n /\ i - 1 \in 0..n /\ i # 0 OBVIOUS
    <3>2. g[i - 1] = f[i - 1] BY <1>7, <3>1
    <3>3. g[i] = IF m[i] \in E THEN Append(f[i - 1], m[i]) ELSE f[i - 1] BY <1>6, <3>1
    <3> QED BY <3>2, <3>3
  <2> QED BY <2>1, <2>2 DEF IsKept
<1>9. g = [i \in 0..n |-> IF i = 0 THEN <<>>
             ELSE IF m[i] \in E THEN Append(g[i - 1], m[i]) ELSE g[i - 1]]
  <2>1. ASSUME NEW i \in 0..n
        PROVE  g[i] = IF i = 0 THEN <<>> ELSE IF m[i] \in E THEN Append(g[i - 1], m[i]) ELSE g[i - 1]
    <3>1. CASE i = 0 BY <1>6, <3>1
    <3>2. CASE i # 0
      <4>1. i \in 1..n BY <3>2
      <4> QED BY <1>8, <3>2, <4>1 DEF IsKept
    <3> QED BY <3>1, <3>2
  <2>2. PICK h : h = [i \in 0..n |-> IF i = 0 THEN <<>>
             ELSE IF m[i] \in E THEN Append(g[i - 1], m[i]) ELSE g[i - 1]] OBVIOUS
  <2>3. \A i \in 0..n : h[i] = g[i] BY <2>1, <2>2
  <2>4. g = [i \in 0..n |-> g[i]] BY <1>6
  <2>5. h = [i \in 0..n |-> h[i]] BY <2>2
  <2>6. h = g BY <2>3, <2>4, <2>5
  <2> QED BY <2>2, <2>6
<1> QED BY <1>9 DEF KeptBy

\* Those of a roster that are employed make a list of employed users, and the roster itself
\* when all are.
LEMMA EmployedMembers ==
  ASSUME NEW m \in Seq(Members), NEW E \in SUBSET Members
  PROVE  /\ EmployedAmong(m, E) \in Seq(E)
         /\ E = Members => EmployedAmong(m, E) = m
<1>1. PICK n \in Nat : n = Len(m) /\ DOMAIN m = 1..n OBVIOUS
<1>2. PICK f : f = (CHOOSE g : KeptBy(g, m, E, n)) /\ EmployedAmong(m, E) = f[n]
  BY <1>1 DEF EmployedAmong, KeptBy
<1>3. f = [i \in 0..n |-> IF i = 0 THEN <<>>
             ELSE IF m[i] \in E THEN Append(f[i - 1], m[i]) ELSE f[i - 1]]
  <2>1. KeptBy(f, m, E, n) BY <1>2, KeptExists
  <2> QED BY <2>1 DEF KeptBy
<1>4. f[0] = <<>> BY <1>3
<1>5. ASSUME NEW k \in Nat, k + 1 <= n
      PROVE  f[k + 1] = IF m[k + 1] \in E THEN Append(f[k], m[k + 1]) ELSE f[k]
  <2>1. k + 1 \in 0..n /\ k + 1 # 0 /\ (k + 1) - 1 = k BY <1>5
  <2>2. f[k + 1] = IF m[k + 1] \in E THEN Append(f[(k + 1) - 1], m[k + 1]) ELSE f[(k + 1) - 1]
    BY <1>3, <2>1
  <2> QED BY <2>1, <2>2
<1>6. PICK S : S = {k \in Nat : k <= n => f[k] \in Seq(E)} OBVIOUS
<1>7. 0 \in S
  <2>1. <<>> \in Seq(E) OBVIOUS
  <2> QED BY <1>4, <1>6, <2>1
<1>8. ASSUME NEW k \in Nat, k \in S PROVE k + 1 \in S
  <2>1. CASE k + 1 <= n
    <3>1. f[k] \in Seq(E) BY <1>6, <1>8, <2>1
    <3>2. f[k + 1] = IF m[k + 1] \in E THEN Append(f[k], m[k + 1]) ELSE f[k] BY <1>5, <2>1
    <3>3. m[k + 1] \in E => Append(f[k], m[k + 1]) \in Seq(E) BY <3>1
    <3>4. f[k + 1] \in Seq(E) BY <3>1, <3>2, <3>3
    <3> QED BY <1>6, <3>4
  <2>2. CASE ~(k + 1 <= n) BY <1>6, <2>2
  <2> QED BY <2>1, <2>2
<1>9. n \in S BY <1>7, <1>8, InductionOnSets
<1>10. EmployedAmong(m, E) \in Seq(E) BY <1>2, <1>6, <1>9
<1>11. ASSUME E = Members PROVE EmployedAmong(m, E) = m
  <2>1. PICK T : T = {k \in Nat : k <= n => f[k] = [i \in 1..k |-> m[i]]} OBVIOUS
  <2>2. 0 \in T BY <1>4, <2>1
  <2>3. ASSUME NEW k \in Nat, k \in T PROVE k + 1 \in T
    <3>1. CASE k + 1 <= n
      <4>1. f[k] = [i \in 1..k |-> m[i]] BY <2>1, <2>3, <3>1
      <4>2. k + 1 \in 1..n /\ m[k + 1] \in Members BY <1>1, <3>1
      <4>3. f[k + 1] = Append(f[k], m[k + 1]) BY <1>5, <1>11, <3>1, <4>2
      <4>4. \A i \in 1..k : m[i] \in Members BY <1>1, <3>1
      <4>5. f[k] \in Seq(Members) /\ Len(f[k]) = k BY <4>1, <4>4
      <4>6. f[k + 1] = [i \in 1..(k + 1) |-> m[i]] BY <4>1, <4>2, <4>3, <4>5
      <4> QED BY <2>1, <4>6
    <3>2. CASE ~(k + 1 <= n) BY <2>1, <3>2
    <3> QED BY <3>1, <3>2
  <2>4. n \in T BY <2>2, <2>3, InductionOnSets
  <2>5. f[n] = [i \in 1..n |-> m[i]] BY <2>1, <2>4
  <2>6. m = [i \in 1..n |-> m[i]] BY <1>1
  <2> QED BY <1>2, <2>5, <2>6
<1> QED BY <1>10, <1>11

----
(***************************************************************************)
(* Types.                                                                  *)
(***************************************************************************)
FillSteps == {"idle", "look", "decide", "check", "write"}
FillRow == [pc : FillSteps, day : Days, members : Seq(Members), user : Members \cup {NoUser}, exists : BOOLEAN]

DutyShape ==
  /\ dutyMode \in DutyModes
  /\ today \in Days
  /\ group \in [members : Rosters, exists : BOOLEAN]
  /\ employed \in SUBSET Members
  /\ history \in [Days -> Seq(Members)]
  /\ change \in [Days -> Members \cup {NoUser}]
  /\ fill \in [Fillers -> FillRow]

\* A filling is for today or a day before; it has members as long as it needs them, and
\* somebody to write.
FillingOK ==
  \A g \in Fillers :
    /\ fill[g].day <= today
    /\ fill[g].pc \in {"look", "decide"} => fill[g].members # <<>>
    /\ fill[g].pc \in {"check", "write"} => fill[g].user \in Members

DutyTyped == DutyShape /\ FillingOK

LEMMA NoFillTyped == NoFill \in FillRow /\ NoFill.day = 1 /\ NoFill.pc = "idle"
<1>1. 1 \in Days BY MaxDaysAssumption DEF Days
<1>2. <<>> \in Seq(Members) OBVIOUS
<1> QED BY <1>1, <1>2 DEF NoFill, FillRow, FillSteps

LEMMA ServingTyped ==
  ASSUME DutyShape
  PROVE  Serving \in Seq(employed) /\ Serving \in Seq(Members)
<1>1. group.members \in Seq(Members) BY RostersAssumption DEF DutyShape
<1>2. employed \in SUBSET Members BY DEF DutyShape
<1>3. Serving \in Seq(employed) BY <1>1, <1>2, EmployedMembers DEF Serving
<1> QED BY <1>2, <1>3

LEMMA RowTyped ==
  ASSUME DutyShape, NEW d
  PROVE  RowOf(d) \in Members \cup {NoUser}
BY DEF DutyShape, RowOf

LEMMA NextMemberTyped ==
  ASSUME NEW U, NEW m \in Seq(U), NEW u \in Range(m)
  PROVE  /\ Index(m, u) \in DOMAIN m /\ m[Index(m, u)] = u
         /\ NextMember(m, u) \in U
<1>1. PICK i \in DOMAIN m : m[i] = u BY DEF Range
<1>2. Index(m, u) \in DOMAIN m /\ m[Index(m, u)] = u BY <1>1 DEF Index
<1>3. PICK n \in Nat : n = Len(m) /\ DOMAIN m = 1..n OBVIOUS
<1>4. PICK j \in 1..n : j = Index(m, u) BY <1>2, <1>3
<1>5. (j % n) + 1 \in 1..n
  <2>1. n \in Nat \ {0} /\ j \in Nat BY <1>4
  <2>2. (j % n) \in Nat /\ (j % n) < n BY <2>1, Division
  <2> QED BY <2>1, <2>2
<1>6. NextMember(m, u) = m[(j % n) + 1] BY <1>3, <1>4 DEF NextMember
<1> QED BY <1>2, <1>3, <1>5, <1>6

LEMMA RowsWithTyped ==
  ASSUME NEW rows \in Seq(Members), NEW u \in Members, NEW b \in BOOLEAN
  PROVE  RowsWith(rows, u, b) \in Seq(Members)
<1>1. [i \in DOMAIN rows |-> u] \in Seq(Members) OBVIOUS
<1>2. Append(rows, u) \in Seq(Members) OBVIOUS
<1> QED BY <1>1, <1>2 DEF RowsWith

\* The user of a decision: the next one, the same one, or the first.
Chosen(g) ==
  LET roster == fill[g].members
      last == RowOf(today - 1)
  IN IF last = NoUser \/ last \notin Range(roster) THEN roster[1]
     ELSE IF IsShiftNeeded(last) THEN NextMember(roster, last) ELSE last

LEMMA ChosenTyped ==
  ASSUME DutyTyped, NEW g \in Fillers, fill[g].pc = "decide"
  PROVE  Chosen(g) \in Members
<1>1. PICK m \in Seq(Members) : m = fill[g].members /\ m # <<>>
  BY DEF DutyTyped, DutyShape, FillingOK, FillRow
<1>2. m[1] \in Members BY <1>1
<1>3. PICK last : last = RowOf(today - 1) OBVIOUS
<1>4. last \in Range(m) => last \in Members /\ NextMember(m, last) \in Members
  BY NextMemberTyped DEF Range
<1> QED BY <1>1, <1>2, <1>3, <1>4 DEF Chosen

\* A filling that takes a step to a well typed row, with the rows of the history typed.
LEMMA FillingTyped ==
  ASSUME DutyTyped, NEW g \in Fillers, NEW r \in FillRow,
         fill' = [fill EXCEPT ![g] = r], DutySame,
         r.day <= today,
         r.pc \in {"look", "decide"} => r.members # <<>>,
         r.pc \in {"check", "write"} => r.user \in Members,
         history' \in [Days -> Seq(Members)]
  PROVE  DutyTyped'
<1>1. DutyShape' BY DEF DutyTyped, DutyShape, DutySame
<1>2. today' = today BY DEF DutySame
<1>3. ASSUME NEW h \in Fillers
      PROVE  /\ fill'[h].day <= today'
             /\ fill'[h].pc \in {"look", "decide"} => fill'[h].members # <<>>
             /\ fill'[h].pc \in {"check", "write"} => fill'[h].user \in Members
  <2>1. fill'[h] = IF h = g THEN r ELSE fill[h] BY DEF DutyTyped, DutyShape
  <2>2. CASE h = g BY <1>2, <2>1, <2>2
  <2>3. CASE h # g BY <1>2, <2>1, <2>3 DEF DutyTyped, FillingOK
  <2> QED BY <2>2, <2>3
<1> QED BY <1>1, <1>3 DEF DutyTyped, FillingOK

LEMMA DutyStepTyped ==
  ASSUME DutyTyped, NEW g \in Fillers, BeginFill(g) \/ FillStep(g)
  PROVE  DutyTyped'
<1>1. PICK w \in FillRow : w = fill[g] BY DEF DutyTyped, DutyShape
<1>2. /\ w.day <= today
      /\ w.pc \in {"look", "decide"} => w.members # <<>>
      /\ w.pc \in {"check", "write"} => w.user \in Members
  BY <1>1 DEF DutyTyped, FillingOK
<1>3. /\ w.day \in Days /\ w.members \in Seq(Members) /\ w.pc \in FillSteps
      /\ w.user \in Members \cup {NoUser} /\ w.exists \in BOOLEAN
  BY DEF FillRow
<1>4. today \in Days /\ fill \in [Fillers -> FillRow] /\ history \in [Days -> Seq(Members)]
      /\ today \in Nat /\ 1 <= today
  BY DEF DutyTyped, DutyShape, Days
<1>5. ASSUME StopFill(g), DutySame, history' \in [Days -> Seq(Members)] PROVE DutyTyped'
  <2>1. NoFill.day <= today /\ NoFill.pc = "idle" BY <1>4, NoFillTyped
  <2>2. fill' = [fill EXCEPT ![g] = NoFill] BY <1>5 DEF StopFill
  <2> QED BY <1>5, <2>1, <2>2, NoFillTyped, FillingTyped
<1>6. CASE BeginFill(g)
  <2>1. PICK m \in Seq(Members) : m = Serving /\ m # <<>>
    BY <1>6, ServingTyped DEF DutyTyped, BeginFill
  <2> DEFINE r == [NoFill EXCEPT !.pc = "look", !.members = m]
  <2>2. r \in FillRow /\ r.day = 1 /\ r.pc = "look" /\ r.members = m
    BY NoFillTyped DEF FillRow, FillSteps
  <2>3. fill' = [fill EXCEPT ![g] = r] /\ DutySame /\ history' = history
    BY <1>6, <2>1 DEF BeginFill
  <2> HIDE DEF r
  <2> QED BY <1>4, <2>1, <2>2, <2>3, FillingTyped
<1>7. CASE Look(g)
  <2>1. w.pc = "look" /\ DutySame /\ history' = history BY <1>1, <1>7 DEF Look
  <2>2. CASE change[today] # NoUser
    <3>1. PICK u \in Members : u = change[today] BY <1>4, <2>2 DEF DutyTyped, DutyShape
    <3> DEFINE r == [w EXCEPT !.pc = "check", !.day = today, !.user = u]
    <3>2. r \in FillRow /\ r.day = today /\ r.pc = "check" /\ r.user = u
      BY <1>4 DEF FillRow, FillSteps
    <3>3. fill' = [fill EXCEPT ![g] = r] BY <1>1, <1>4, <1>7, <2>2, <3>1 DEF Look
    <3> HIDE DEF r
    <3>4. r.day <= today /\ r.pc \notin {"look", "decide"} /\ r.user \in Members /\ history' \in [Days -> Seq(Members)]
      BY <1>4, <2>1, <3>2
    <3> QED BY <2>1, <3>2, <3>3, <3>4, FillingTyped
  <2>3. CASE change[today] = NoUser /\ RowOf(today) # NoUser
    BY <1>4, <1>5, <1>7, <2>1, <2>3 DEF Look
  <2>4. CASE change[today] = NoUser /\ RowOf(today) = NoUser
    <3> DEFINE r == [w EXCEPT !.pc = "decide", !.day = today]
    <3>1. r \in FillRow /\ r.day = today /\ r.pc = "decide" /\ r.members = w.members
      BY <1>4 DEF FillRow, FillSteps
    <3>2. fill' = [fill EXCEPT ![g] = r] BY <1>1, <1>4, <1>7, <2>4 DEF Look
    <3> HIDE DEF r
    <3>3. r.day <= today /\ r.members # <<>> /\ r.pc \notin {"check", "write"} /\ history' \in [Days -> Seq(Members)]
      BY <1>2, <1>4, <2>1, <3>1
    <3> QED BY <2>1, <3>1, <3>2, <3>3, FillingTyped
  <2> QED BY <2>2, <2>3, <2>4
<1>8. CASE Decide(g)
  <2>1. PICK u \in Members : u = Chosen(g) BY <1>8, ChosenTyped DEF Decide
  <2>2. fill' = [fill EXCEPT ![g].pc = "check", ![g].user = u]
    BY <1>8, <2>1 DEF Decide, Chosen
  <2> DEFINE r == [w EXCEPT !.pc = "check", !.user = u]
  <2>3. r \in FillRow /\ r.day = w.day /\ r.pc = "check" /\ r.user = u
    BY DEF FillRow, FillSteps
  <2>4. fill' = [fill EXCEPT ![g] = r] BY <1>1, <1>4, <2>2
  <2> HIDE DEF r
  <2> QED BY <1>2, <1>4, <1>8, <2>3, <2>4, FillingTyped DEF Decide
<1>9. CASE CheckRow(g)
  <2>1. PICK b \in BOOLEAN : b = (RowOf(fill[g].day) # NoUser) OBVIOUS
  <2>2. fill' = [fill EXCEPT ![g].pc = "write", ![g].exists = b] BY <1>9, <2>1 DEF CheckRow
  <2> DEFINE r == [w EXCEPT !.pc = "write", !.exists = b]
  <2>3. r \in FillRow /\ r.day = w.day /\ r.pc = "write" /\ r.user = w.user
    BY DEF FillRow, FillSteps
  <2>4. fill' = [fill EXCEPT ![g] = r] BY <1>1, <1>4, <2>2
  <2> HIDE DEF r
  <2>5. w.pc = "check" BY <1>1, <1>9 DEF CheckRow
  <2> QED BY <1>2, <1>4, <1>9, <2>3, <2>4, <2>5, FillingTyped DEF CheckRow
<1>10. CASE WriteRow(g)
  <2>1. w.pc = "write" /\ DutySame /\ StopFill(g) BY <1>1, <1>10 DEF WriteRow
  <2>2. PICK rows \in Seq(Members) : rows = RowsWith(history[w.day], w.user, w.exists)
    BY <1>2, <1>3, <1>4, <2>1, RowsWithTyped
  <2>3. history' = [history EXCEPT ![w.day] = rows] BY <1>1, <1>10, <2>2 DEF WriteRow
  <2> QED BY <1>4, <1>5, <2>1, <2>3
<1> QED BY <1>6, <1>7, <1>8, <1>9, <1>10 DEF FillStep

LEMMA DutyApiTyped ==
  ASSUME DutyTyped,
         \/ \E d \in Days, u \in Members : CreateChange(d, u)
         \/ \E m \in Rosters : UpdateGroup(m)
         \/ DeleteGroup
         \/ \E u \in Members : DeleteUser(u)
         \/ NextDay
  PROVE  DutyTyped'
<1> USE DEF DutyTyped, DutyShape, FillingOK, FillRow, FillSteps
<1>1. ASSUME NEW d \in Days, NEW u \in Members, CreateChange(d, u) PROVE DutyTyped'
  BY <1>1 DEF CreateChange
<1>2. ASSUME NEW m \in Rosters, UpdateGroup(m) PROVE DutyTyped'
  BY <1>2 DEF UpdateGroup
<1>3. CASE DeleteGroup
  <2>1. <<>> \in Seq(Members) OBVIOUS
  <2> QED BY <1>3, <2>1 DEF DeleteGroup
<1>4. ASSUME NEW u \in Members, DeleteUser(u) PROVE DutyTyped'
  BY <1>4 DEF DeleteUser
<1>5. CASE NextDay
  <2>1. dutyMode.days \in 1..MaxDays BY DutyModesAssumption
  <2>2. today' \in Days /\ today' = today + 1 BY <1>5, <2>1, MaxDaysAssumption DEF NextDay, Days
  <2>3. \A h \in Fillers : fill[h].day \in Nat BY DEF Days
  <2> QED BY <1>5, <2>2, <2>3 DEF NextDay, Days
<1> QED BY <1>1, <1>2, <1>3, <1>4, <1>5

LEMMA DutyTypedInit == DutyInit => DutyTyped
<1>1. 1 \in Days BY MaxDaysAssumption DEF Days
<1>2. <<>> \in Seq(Members) OBVIOUS
<1>3. ASSUME DutyInit PROVE DutyShape
  <2>1. fill \in [Fillers -> FillRow] BY <1>3, NoFillTyped DEF DutyInit
  <2>2. history \in [Days -> Seq(Members)] BY <1>2, <1>3 DEF DutyInit
  <2>3. change \in [Days -> Members \cup {NoUser}] BY <1>3 DEF DutyInit
  <2> QED BY <1>1, <1>3, <2>1, <2>2, <2>3 DEF DutyInit, DutyShape
<1>4. ASSUME DutyInit PROVE FillingOK
  BY <1>4, NoFillTyped DEF DutyInit, FillingOK
<1> QED BY <1>3, <1>4 DEF DutyTyped

LEMMA DutyTypedNext ==
  ASSUME DutyTyped, [DutyNext]_dutyVars
  PROVE  DutyTyped'
<1>1. CASE UNCHANGED dutyVars
  BY <1>1 DEF DutyTyped, DutyShape, FillingOK, dutyVars
<1> QED BY <1>1, DutyStepTyped, DutyApiTyped DEF DutyNext

LEMMA DutyTypedInvariant == DutySpec => []DutyTyped
BY DutyTypedInit, DutyTypedNext, PTL DEF DutySpec

\* The rota keeps its types: a filling never dates ahead of today and always has somebody
\* to write (processOnDutyHistoryForGroup, CreateMonitorOnDutyHistory).
THEOREM DutyTypeCorrect == DutySpec => []DutyTypeOK
<1>1. DutyTyped => DutyTypeOK
  BY DEF DutyTyped, DutyShape, FillingOK, FillRow, FillSteps, DutyTypeOK, Days
<1> QED BY <1>1, DutyTypedInvariant, PTL

----
(***************************************************************************)
(* One row a day, when one goroutine fills at a time.                      *)
(***************************************************************************)
OneFiller == \A g, h \in Fillers : fill[g].pc # "idle" /\ fill[h].pc # "idle" => g = h
ShortDays == \A d \in Days : Len(history[d]) <= 1

\* What the check saw still holds when the row is written.
NoRowYet ==
  \A g \in Fillers : fill[g].pc = "write" /\ ~fill[g].exists => history[fill[g].day] = <<>>

RowInv == DutyTyped /\ (~dutyMode.overlap => OneFiller /\ ShortDays /\ NoRowYet)

LEMMA NoRowIsEmpty ==
  ASSUME DutyShape, NEW d \in Days
  PROVE  /\ history[d] \in Seq(Members)
         /\ RowOf(d) = IF history[d] = <<>> THEN NoUser ELSE Head(history[d])
         /\ RowOf(d) = NoUser <=> history[d] = <<>>
<1>1. history[d] \in Seq(Members) BY DEF DutyShape
<1>2. history[d] # <<>> => Head(history[d]) \in Members BY <1>1
<1> QED BY <1>1, <1>2, NoUserAssumption DEF RowOf

LEMMA RowsWithShort ==
  ASSUME NEW rows \in Seq(Members), Len(rows) <= 1, NEW u, NEW b \in BOOLEAN, ~b => rows = <<>>
  PROVE  Len(RowsWith(rows, u, b)) <= 1
<1>1. CASE b
  <2>1. PICK n \in Nat : n = Len(rows) /\ DOMAIN rows = 1..n OBVIOUS
  <2>2. [i \in 1..n |-> u] \in Seq({u}) /\ Len([i \in 1..n |-> u]) = n OBVIOUS
  <2> QED BY <1>1, <2>1, <2>2 DEF RowsWith
<1>2. CASE ~b
  <2>1. Append(<<>>, u) = <<u>> /\ Len(<<u>>) = 1 OBVIOUS
  <2> QED BY <1>2, <2>1 DEF RowsWith
<1> QED BY <1>1, <1>2

\* A step of a filling leaves the others alone, and begins only when nobody fills.
LEMMA OneFillerStep ==
  ASSUME RowInv, ~dutyMode.overlap, NEW g \in Fillers, BeginFill(g) \/ FillStep(g)
  PROVE  /\ \A h \in Fillers \ {g} : fill[h].pc = "idle" /\ fill'[h] = fill[h]
         /\ OneFiller' /\ dutyMode' = dutyMode
<1>1. fill \in [Fillers -> FillRow] BY DEF RowInv, DutyTyped, DutyShape
<1>2. \A h \in Fillers \ {g} : fill[h].pc = "idle"
  <2>1. CASE BeginFill(g) BY <2>1 DEF BeginFill
  <2>2. CASE FillStep(g)
    <3>1. fill[g].pc # "idle" BY <2>2 DEF FillStep, Look, Decide, CheckRow, WriteRow
    <3> QED BY <3>1 DEF RowInv, OneFiller
  <2> QED BY <2>1, <2>2
<1>3. \A h \in Fillers \ {g} : fill'[h] = fill[h]
  BY <1>1 DEF BeginFill, FillStep, Look, Decide, CheckRow, WriteRow, StopFill
<1>4. dutyMode' = dutyMode
  BY DEF BeginFill, FillStep, Look, Decide, CheckRow, WriteRow, DutySame
<1>5. OneFiller' BY <1>2, <1>3 DEF OneFiller
<1> QED BY <1>2, <1>3, <1>4, <1>5

LEMMA RowStep ==
  ASSUME RowInv, ~dutyMode.overlap, NEW g \in Fillers, BeginFill(g) \/ FillStep(g)
  PROVE  ShortDays' /\ NoRowYet'
<1>1. PICK w \in FillRow : w = fill[g] BY DEF RowInv, DutyTyped, DutyShape
<1>2. fill \in [Fillers -> FillRow] /\ history \in [Days -> Seq(Members)] /\ w.day \in Days
  BY DEF RowInv, DutyTyped, DutyShape, FillRow
<1>3. \A h \in Fillers \ {g} : fill[h].pc = "idle" /\ fill'[h] = fill[h] BY OneFillerStep
<1>4. ASSUME history' = history, fill'[g].pc # "write" PROVE ShortDays' /\ NoRowYet'
  BY <1>3, <1>4 DEF RowInv, ShortDays, NoRowYet
<1>5. CASE BeginFill(g)
  <2>1. fill'[g].pc = "look" BY <1>2, <1>5, NoFillTyped DEF BeginFill, FillRow, FillSteps
  <2> QED BY <1>4, <1>5, <2>1 DEF BeginFill
<1>6. CASE Look(g)
  <2>1. fill'[g].pc # "write"
    <3>1. CASE change[today] # NoUser
      <4>1. fill' = [fill EXCEPT ![g] = [w EXCEPT !.pc = "check", !.day = today, !.user = change[today]]]
        BY <1>1, <1>6, <3>1 DEF Look
      <4> QED BY <1>2, <4>1 DEF FillRow
    <3>2. CASE change[today] = NoUser /\ RowOf(today) # NoUser
      BY <1>2, <1>6, <3>2, NoFillTyped DEF Look, StopFill
    <3>3. CASE change[today] = NoUser /\ RowOf(today) = NoUser
      <4>1. fill' = [fill EXCEPT ![g] = [w EXCEPT !.pc = "decide", !.day = today]]
        BY <1>1, <1>6, <3>3 DEF Look
      <4> QED BY <1>2, <4>1 DEF FillRow
    <3> QED BY <3>1, <3>2, <3>3
  <2> QED BY <1>4, <1>6, <2>1 DEF Look
<1>7. CASE Decide(g)
  <2>1. PICK u : fill' = [fill EXCEPT ![g].pc = "check", ![g].user = u] BY <1>7 DEF Decide
  <2>2. fill'[g].pc = "check" BY <1>1, <1>2, <2>1 DEF FillRow
  <2> QED BY <1>4, <1>7, <2>2 DEF Decide
<1>8. CASE CheckRow(g)
  <2>1. PICK b \in BOOLEAN : b = (RowOf(w.day) # NoUser) OBVIOUS
  <2>2. fill' = [fill EXCEPT ![g].pc = "write", ![g].exists = b] /\ history' = history
    BY <1>1, <1>8, <2>1 DEF CheckRow
  <2>3. fill'[g].exists = b /\ fill'[g].day = w.day BY <1>1, <1>2, <2>2 DEF FillRow
  <2>4. ~b => history[w.day] = <<>> BY <1>2, <2>1, NoRowIsEmpty DEF RowInv, DutyTyped
  <2>5. NoRowYet' BY <1>3, <2>2, <2>3, <2>4 DEF NoRowYet
  <2> QED BY <2>2, <2>5 DEF RowInv, ShortDays
<1>9. CASE WriteRow(g)
  <2>1. PICK b \in BOOLEAN : b = w.exists BY DEF FillRow
  <2>2. PICK rows \in Seq(Members) : rows = history[w.day] /\ Len(rows) <= 1 /\ (~b => rows = <<>>)
    BY <1>1, <1>2, <1>9, <2>1 DEF RowInv, ShortDays, NoRowYet, WriteRow
  <2>3. PICK new : new = RowsWith(rows, w.user, b) /\ Len(new) <= 1
    BY <2>2, RowsWithShort
  <2>4. history' = [history EXCEPT ![w.day] = new] BY <1>1, <1>9, <2>1, <2>2, <2>3 DEF WriteRow
  <2>5. ShortDays' BY <1>2, <2>3, <2>4 DEF RowInv, ShortDays
  <2>6. fill'[g].pc = "idle" BY <1>2, <1>9, NoFillTyped DEF WriteRow, StopFill
  <2>7. NoRowYet' BY <1>3, <2>6 DEF NoRowYet
  <2> QED BY <2>5, <2>7
<1> QED BY <1>5, <1>6, <1>7, <1>8, <1>9 DEF FillStep

LEMMA RowInvariant == DutySpec => []RowInv
<1>1. DutyInit => RowInv
  <2>1. ASSUME DutyInit PROVE OneFiller /\ ShortDays /\ NoRowYet
    <3>1. \A g \in Fillers : fill[g].pc = "idle" BY <2>1, NoFillTyped DEF DutyInit
    <3>2. \A d \in Days : history[d] = <<>> BY <2>1 DEF DutyInit
    <3>3. Len(<<>>) = 0 OBVIOUS
    <3> QED BY <3>1, <3>2, <3>3 DEF OneFiller, ShortDays, NoRowYet
  <2> QED BY <2>1, DutyTypedInit DEF RowInv
<1>2. RowInv /\ [DutyNext]_dutyVars => RowInv'
  <2> SUFFICES ASSUME RowInv, [DutyNext]_dutyVars PROVE RowInv' OBVIOUS
  <2>1. DutyTyped' BY DutyTypedNext DEF RowInv
  <2>2. ASSUME NEW g \in Fillers, BeginFill(g) \/ FillStep(g) PROVE RowInv'
    <3>1. dutyMode' = dutyMode
      BY <2>2 DEF BeginFill, FillStep, Look, Decide, CheckRow, WriteRow, DutySame
    <3> QED BY <2>1, <2>2, <3>1, OneFillerStep, RowStep DEF RowInv
  <2>3. ASSUME UNCHANGED <<dutyMode, history, fill>> PROVE RowInv'
    BY <2>1, <2>3 DEF RowInv, OneFiller, ShortDays, NoRowYet
  <2>4. CASE DeleteGroup
    <3>1. ~dutyMode.overlap => ShortDays' /\ NoRowYet'
      <4>1. \A d \in Days : history'[d] = <<>> BY <2>4 DEF DeleteGroup
      <4>2. fill' = fill /\ \A h \in Fillers : fill[h].day \in Days
        BY <2>4 DEF DeleteGroup, RowInv, DutyTyped, DutyShape, FillRow
      <4>3. Len(<<>>) = 0 OBVIOUS
      <4> QED BY <4>1, <4>2, <4>3 DEF ShortDays, NoRowYet
    <3>2. UNCHANGED <<dutyMode, fill>> BY <2>4 DEF DeleteGroup
    <3> QED BY <2>1, <3>1, <3>2 DEF RowInv, OneFiller
  <2> QED BY <2>2, <2>3, <2>4 DEF DutyNext, CreateChange, UpdateGroup, DeleteUser, NextDay, dutyVars
<1> QED BY <1>1, <1>2, PTL DEF DutySpec

\* A day has at most one row as long as one goroutine fills at a time, though the check of
\* CreateMonitorOnDutyHistory and its insert are two statements, and though the group may
\* be edited or deleted, users leave and days end in between.
THEOREM OneRow == DutySpec => []OneRowADay
<1>1. RowInv => OneRowADay BY DEF RowInv, ShortDays, OneRowADay
<1> QED BY <1>1, RowInvariant, PTL

----
(***************************************************************************)
(* The round robin.                                                        *)
(***************************************************************************)
\* Whose turn a day is, by the order of the group.
Turn(d) == group.members[(((d - 1) \div dutyMode.shiftDays) % Len(group.members)) + 1]

Untouched == employed = Members /\ group.exists /\ \A d \in Days : change[d] = NoUser

\* Every day before today is filled, today may be, and each is the turn of its user.
TurnsTaken ==
  /\ \A d \in Days : history[d] # <<>> => d <= today /\ history[d] = <<Turn(d)>>
  /\ \A d \in Days : d < today => history[d] # <<>>

\* A filling past its look is for today, finds no row, and writes whose turn it is.
FillsTheTurn ==
  \A g \in Fillers :
    /\ fill[g].pc # "idle" => fill[g].members = group.members
    /\ fill[g].pc \in {"decide", "check", "write"} => fill[g].day = today /\ history[today] = <<>>
    /\ fill[g].pc \in {"check", "write"} => fill[g].user = Turn(today)
    /\ fill[g].pc = "write" => fill[g].exists = FALSE

RotaInv == RowInv /\ (Undisturbed => Untouched /\ TurnsTaken /\ FillsTheTurn)

LEMMA DaysInARow ==
  ASSUME NEW a \in Int, NEW n \in Nat, NEW P, P = {<<d, 1>> : d \in a..(a + n - 1)}
  PROVE  IsFiniteSet(P) /\ Cardinality(P) = n
<1>1. PICK b \in Int : b = a + n - 1 OBVIOUS
<1>2. IsFiniteSet(a..b) /\ Cardinality(a..b) = n BY <1>1, FS_Interval
<1>3. PICK f : f = [d \in a..b |-> <<d, 1>>] OBVIOUS
<1>4. f \in [a..b -> P] BY <1>1, <1>3
<1>5. \A x, y \in a..b : f[x] = f[y] => x = y BY <1>3
<1>6. \A p \in P : \E x \in a..b : f[x] = p BY <1>1, <1>3
<1>7. f \in Bijection(a..b, P)
  BY <1>4, <1>5, <1>6 DEF Bijection, Injection, Surjection, IsInjective
<1>8. ExistsBijection(a..b, P) BY <1>7 DEF ExistsBijection
<1> QED BY <1>2, <1>8, FS_Bijection

LEMMA RosterFacts ==
  ASSUME DutyShape
  PROVE  /\ group.members \in Seq(Members) /\ group.members # <<>>
         /\ DOMAIN group.members = 1..Len(group.members) /\ Len(group.members) \in Nat \ {0}
         /\ \A i, j \in 1..Len(group.members) : group.members[i] = group.members[j] => i = j
         /\ dutyMode.shiftDays \in Nat \ {0}
<1>1. group.members \in Rosters /\ dutyMode \in DutyModes BY DEF DutyShape
<1>2. PICK m : m = group.members OBVIOUS
<1>3. m \in Seq(Members) /\ m # <<>> /\ IsInjective(m) BY <1>1, <1>2, RostersAssumption
<1>4. DOMAIN m = 1..Len(m) /\ Len(m) \in Nat /\ Len(m) # 0 BY <1>3
<1>5. \A i, j \in 1..Len(m) : m[i] = m[j] => i = j BY <1>3, <1>4 DEF IsInjective
<1>6. dutyMode.shiftDays \in Nat \ {0} BY <1>1, DutyModesAssumption
<1> QED BY <1>2, <1>3, <1>4, <1>5, <1>6

\* The r-th day (from 0) of the k-th shift is the k-th member's turn, counting round.
LEMMA TurnOfShift ==
  ASSUME DutyShape, NEW k \in Nat, NEW r \in Nat, NEW d, r < dutyMode.shiftDays,
         d = k * dutyMode.shiftDays + r + 1
  PROVE  /\ Turn(d) = group.members[(k % Len(group.members)) + 1]
         /\ (k % Len(group.members)) + 1 \in 1..Len(group.members)
         /\ Turn(d) \in Range(group.members) /\ Turn(d) \in Members
<1>1. PICK s \in Nat \ {0} : s = dutyMode.shiftDays BY RosterFacts
<1>2. PICK n \in Nat \ {0} : n = Len(group.members) BY RosterFacts
<1>3. PICK x \in Nat : x = k * s + r BY <1>1
<1>4. d - 1 = x /\ x \div s = k
  <2>1. d = k * s + r + 1 /\ r < s BY <1>1
  <2>2. d = x + 1 BY <1>3, <2>1
  <2>3. x \div s = k BY <1>3, <2>1, DivisionIsUnique
  <2> QED BY <2>2, <2>3
<1>5. Turn(d) = group.members[(k % n) + 1] BY <1>1, <1>2, <1>4 DEF Turn
<1>6. (k % n) + 1 \in 1..n
  <2>1. (k % n) \in Nat /\ (k % n) < n BY Division
  <2> QED BY <2>1
<1>7. group.members[(k % n) + 1] \in Range(group.members) /\ group.members[(k % n) + 1] \in Members
  BY <1>2, <1>6, RosterFacts DEF Range
<1> QED BY <1>2, <1>5, <1>6, <1>7

\* Every day belongs to a shift.
LEMMA ShiftOfDay ==
  ASSUME DutyShape, NEW d \in Days
  PROVE  \E k \in Nat, r \in Nat : r < dutyMode.shiftDays /\ d = k * dutyMode.shiftDays + r + 1
<1>1. PICK s \in Nat \ {0} : s = dutyMode.shiftDays BY RosterFacts
<1>2. PICK a \in Nat : a = d - 1 BY DEF Days
<1>3. PICK k \in Nat, r \in Nat : r < s /\ a = k * s + r BY Division
<1>4. d = k * s + r + 1 BY <1>2, <1>3 DEF Days
<1> QED BY <1>1, <1>3, <1>4

LEMMA TurnsAfterAnother ==
  ASSUME DutyShape, NEW k \in Nat, NEW u, u = group.members[(k % Len(group.members)) + 1]
  PROVE  /\ u \in Range(group.members)
         /\ NextMember(group.members, u) = group.members[((k + 1) % Len(group.members)) + 1]
         /\ Len(group.members) = 1 => NextMember(group.members, u) = u
         /\ Len(group.members) # 1 => group.members[((k + 1) % Len(group.members)) + 1] # u
<1>1. PICK n \in Nat \ {0} : n = Len(group.members) BY RosterFacts
<1>2. PICK m \in Seq(Members) : m = group.members BY RosterFacts
<1>3. DOMAIN m = 1..n /\ \A i, j \in 1..n : m[i] = m[j] => i = j BY <1>1, <1>2, RosterFacts
<1>4. PICK x \in Nat : x = (k % n) /\ x < n BY Division
<1>5. PICK y \in Nat : y = ((k + 1) % n) /\ y < n
  <2>1. PICK l \in Nat : l = k + 1 OBVIOUS
  <2> QED BY <2>1, Division
<1>6. ((x + 1) % n) = y /\ (n > 1 => y # x) BY <1>4, <1>5, NextRemainder
<1>7. x + 1 \in 1..n /\ y + 1 \in 1..n BY <1>4, <1>5
<1>8. u = m[x + 1] BY <1>1, <1>2, <1>4
<1>9. u \in Range(m) BY <1>3, <1>7, <1>8 DEF Range
<1>10. Index(m, u) = x + 1
  <2>1. Index(m, u) \in 1..n /\ m[Index(m, u)] = u BY <1>3, <1>9, NextMemberTyped
  <2> QED BY <1>3, <1>7, <1>8, <2>1
<1>11. NextMember(m, u) = m[y + 1] BY <1>1, <1>2, <1>6, <1>10 DEF NextMember
<1>12. n = 1 => m[y + 1] = u BY <1>4, <1>5, <1>8
<1>13. n # 1 => m[y + 1] # u
  <2>1. ASSUME n # 1 PROVE y # x BY <1>6, <2>1
  <2> QED BY <1>3, <1>7, <1>8, <2>1
<1> QED BY <1>1, <1>2, <1>5, <1>9, <1>11, <1>12, <1>13

\* The rows of a user over the last days, when every day has one row and it is the turn of
\* its user: the days of that range that are filled and his.
LEMMA RowsAreDays ==
  ASSUME DutyShape, TurnsTaken, NEW u, NEW from, NEW to
  PROVE  \A x : x \in RowsOf(u, from, to) <=>
                 \E d \in Days : from <= d /\ d <= to /\ history[d] # <<>> /\ Turn(d) = u /\ x = <<d, 1>>
<1>1. ASSUME NEW d \in Days
      PROVE  {i \in DOMAIN history[d] : history[d][i] = u} =
               IF history[d] # <<>> /\ Turn(d) = u THEN {1} ELSE {}
  <2>1. CASE history[d] = <<>> BY <2>1
  <2>2. CASE history[d] # <<>>
    <3>1. history[d] = <<Turn(d)>> BY <2>2 DEF TurnsTaken
    <3>2. PICK w : w = Turn(d) OBVIOUS
    <3>3. DOMAIN <<w>> = {1} /\ <<w>>[1] = w OBVIOUS
    <3> QED BY <2>2, <3>1, <3>2, <3>3
  <2> QED BY <2>1, <2>2
<1>2. ASSUME NEW x
      PROVE  x \in RowsOf(u, from, to) <=>
               \E d \in Days : /\ from <= d /\ d <= to
                              /\ x \in {d} \X {i \in DOMAIN history[d] : history[d][i] = u}
  BY DEF RowsOf
<1>3. ASSUME NEW x, NEW d \in Days
      PROVE  x \in {d} \X {i \in DOMAIN history[d] : history[d][i] = u} <=>
               history[d] # <<>> /\ Turn(d) = u /\ x = <<d, 1>>
  <2>1. PICK T : T = {i \in DOMAIN history[d] : history[d][i] = u} OBVIOUS
  <2>2. CASE history[d] # <<>> /\ Turn(d) = u
    <3>1. T = {1} BY <1>1, <2>1, <2>2
    <3>2. x \in {d} \X {1} <=> x = <<d, 1>> OBVIOUS
    <3> QED BY <2>1, <2>2, <3>1, <3>2
  <2>3. CASE ~(history[d] # <<>> /\ Turn(d) = u)
    <3>1. T = {} BY <1>1, <2>1, <2>3
    <3>2. x \notin {d} \X {} OBVIOUS
    <3> QED BY <2>1, <2>3, <3>1, <3>2
  <2> QED BY <2>2, <2>3
<1> QED BY <1>2, <1>3

\* After the last day of a shift the count says so: the days of the shift are all his.
LEMMA ShiftIsOver ==
  ASSUME DutyShape, TurnsTaken, NEW k \in Nat, today = (k + 1) * dutyMode.shiftDays + 1
  PROVE  IsShiftNeeded(Turn(today - 1))
<1>1. PICK s \in Nat \ {0} : s = dutyMode.shiftDays BY RosterFacts
<1>2. PICK t \in Nat : t = today /\ t \in Days BY DEF DutyShape, Days
<1>3. PICK a \in Nat : a = k * s /\ t = a + s + 1 BY <1>1, <1>2
<1>4. PICK u : u = Turn(today - 1) OBVIOUS
<1>5. PICK n \in Nat \ {0} : n = Len(group.members) BY RosterFacts
<1>6. ASSUME NEW d \in (a + 1)..(a + s) PROVE Turn(d) = group.members[(k % n) + 1]
  <2>1. PICK r \in Nat : r = d - a - 1 OBVIOUS
  <2>2. d = k * s + r + 1 /\ r < s BY <1>3, <2>1
  <2> QED BY <1>1, <1>5, <2>2, TurnOfShift
<1>7. t - 1 = a + s /\ a + s \in (a + 1)..(a + s) BY <1>3
<1>8. \A d \in (a + 1)..(a + s) : Turn(d) = u BY <1>2, <1>4, <1>6, <1>7
<1>9. ASSUME NEW d \in (a + 1)..(a + s)
      PROVE  d \in Days /\ t - s <= d /\ d <= t - 1 /\ history[d] # <<>>
  <2>1. d \in Days /\ d < t BY <1>2, <1>3, MaxDaysAssumption DEF Days
  <2> QED BY <1>2, <1>3, <2>1 DEF TurnsTaken
<1>10. PICK P : P = {<<d, 1>> : d \in (a + 1)..((a + 1) + s - 1)} OBVIOUS
<1>11. IsFiniteSet(P) /\ Cardinality(P) = s
  <2>1. PICK b \in Int : b = a + 1 OBVIOUS
  <2>2. P = {<<d, 1>> : d \in b..(b + s - 1)} BY <1>10, <2>1
  <2> QED BY <2>2, DaysInARow
<1>12. PICK R : R = RowsOf(u, t - s, t - 1) OBVIOUS
<1>13. \A x : x \in R <=>
         \E d \in Days : t - s <= d /\ d <= t - 1 /\ history[d] # <<>> /\ Turn(d) = u /\ x = <<d, 1>>
  BY <1>12, RowsAreDays
<1>14. P \subseteq R
  <2>1. ASSUME NEW d \in (a + 1)..((a + 1) + s - 1) PROVE <<d, 1>> \in R
    <3>1. d \in (a + 1)..(a + s) OBVIOUS
    <3> QED BY <1>8, <1>9, <1>13, <3>1
  <2> QED BY <1>10, <2>1
<1>15. R \subseteq P
  <2>1. ASSUME NEW d \in Days, t - s <= d, d <= t - 1 PROVE <<d, 1>> \in P
    <3>1. d \in (a + 1)..((a + 1) + s - 1) BY <1>3, <2>1 DEF Days
    <3> QED BY <1>10, <3>1
  <2> QED BY <1>13, <2>1
<1>16. R = P BY <1>14, <1>15
<1> QED BY <1>1, <1>2, <1>4, <1>11, <1>12, <1>16 DEF IsShiftNeeded, DaysOf

\* Before that day it does not, unless there is but one member: the day shiftDays ago was
\* somebody else's.
LEMMA ShiftGoesOn ==
  ASSUME DutyShape, TurnsTaken, NEW k \in Nat, NEW r \in Nat,
         r + 1 < dutyMode.shiftDays, today = k * dutyMode.shiftDays + r + 2,
         Len(group.members) # 1
  PROVE  ~IsShiftNeeded(Turn(today - 1))
<1>1. PICK s \in Nat \ {0} : s = dutyMode.shiftDays BY RosterFacts
<1>2. PICK t \in Nat : t = today /\ t \in Days BY DEF DutyShape, Days
<1>3. PICK a \in Nat : a = k * s /\ t = a + r + 2 /\ r + 1 < s BY <1>1, <1>2
<1>4. PICK u : u = Turn(today - 1) OBVIOUS
<1>5. PICK n \in Nat \ {0} : n = Len(group.members) BY RosterFacts
<1>6. u = group.members[(k % n) + 1]
  <2>1. t - 1 = k * s + r + 1 /\ r < s BY <1>1, <1>3
  <2> QED BY <1>1, <1>2, <1>4, <1>5, <2>1, TurnOfShift
<1>7. t - s \in Days => Turn(t - s) # u
  <2>1. SUFFICES ASSUME t - s \in Days PROVE Turn(t - s) # u OBVIOUS
  <2>2. k # 0
    <3>1. k = 0 => a = 0 BY <1>3
    <3> QED BY <1>1, <1>3, <2>1, <3>1 DEF Days
  <2>3. PICK j \in Nat : k = j + 1
    <3>1. k - 1 \in Nat /\ k = (k - 1) + 1 BY <2>2
    <3> QED BY <3>1
  <2>4. a = j * s + s BY <1>3, <2>3
  <2>5. PICK q \in Nat : q = r + 1 OBVIOUS
  <2>6. t - s = j * s + q + 1 /\ q < s
    <3>1. PICK b \in Nat : b = j * s OBVIOUS
    <3> QED BY <1>3, <2>4, <2>5, <3>1
  <2>7. Turn(t - s) = group.members[(j % n) + 1] BY <1>1, <1>5, <2>6, TurnOfShift
  <2>8. group.members[((j + 1) % n) + 1] # group.members[(j % n) + 1]
    BY <1>5, TurnsAfterAnother
  <2> QED BY <1>6, <2>3, <2>7, <2>8
<1>8. PICK p \in Nat : p = s - 1 BY <1>1
<1>9. PICK P : P = {<<d, 1>> : d \in (t - s + 1)..((t - s + 1) + p - 1)} OBVIOUS
<1>10. IsFiniteSet(P) /\ Cardinality(P) = p
  <2>1. PICK b \in Int : b = t - s + 1 OBVIOUS
  <2>2. P = {<<d, 1>> : d \in b..(b + p - 1)} BY <1>9, <2>1
  <2> QED BY <2>2, DaysInARow
<1>11. PICK R : R = RowsOf(u, t - s, t - 1) OBVIOUS
<1>12. \A x : x \in R <=>
         \E d \in Days : t - s <= d /\ d <= t - 1 /\ history[d] # <<>> /\ Turn(d) = u /\ x = <<d, 1>>
  BY <1>11, RowsAreDays
<1>13. R \subseteq P
  <2>1. ASSUME NEW d \in Days, t - s <= d, d <= t - 1, Turn(d) = u PROVE <<d, 1>> \in P
    <3>1. d # t - s BY <1>7, <2>1
    <3>2. d \in (t - s + 1)..((t - s + 1) + p - 1) BY <1>1, <1>2, <1>8, <2>1, <3>1 DEF Days
    <3> QED BY <1>9, <3>2
  <2> QED BY <1>12, <2>1
<1>14. Cardinality(R) <= p /\ IsFiniteSet(R)
  <2>1. R \in SUBSET P BY <1>13
  <2> QED BY <1>10, <2>1, FS_Subset
<1>15. Cardinality(R) \in Nat BY <1>14, FS_CardinalityType
<1>16. ~(Cardinality(R) >= s) BY <1>1, <1>8, <1>14, <1>15
<1> QED BY <1>1, <1>2, <1>4, <1>11, <1>16 DEF IsShiftNeeded, DaysOf

\* The rule by yesterday's row and by the count of the last days chooses whose turn it is.
LEMMA ChosenIsTurn ==
  ASSUME DutyShape, TurnsTaken, NEW g \in Fillers, fill[g].members = group.members
  PROVE  Chosen(g) = Turn(today)
<1>1. PICK s \in Nat \ {0} : s = dutyMode.shiftDays BY RosterFacts
<1>2. PICK t \in Nat \ {0} : t = today /\ t \in Days BY DEF DutyShape, Days
<1>3. PICK m \in Seq(Members) : m = group.members BY RosterFacts
<1>4. PICK n \in Nat \ {0} : n = Len(m) BY <1>3, RosterFacts
<1>5. CASE t = 1
  <2>1. RowOf(today - 1) = NoUser BY <1>2, <1>5 DEF RowOf, Days
  <2>2. Chosen(g) = m[1] BY <1>3, <2>1 DEF Chosen
  <2>3. Turn(today) = m[(0 % n) + 1]
    <3>1. 0 < s /\ t = 0 * s + 0 + 1 BY <1>1, <1>5
    <3> QED BY <1>1, <1>2, <1>3, <1>4, <3>1, TurnOfShift
  <2>4. (0 % n) = 0
    <3>1. (0 * n + 0) % n = 0 BY DivisionIsUnique
    <3>2. 0 * n + 0 = 0 OBVIOUS
    <3> QED BY <3>1, <3>2
  <2> QED BY <2>2, <2>3, <2>4
<1>6. CASE t # 1
  <2>1. PICK y \in Days : y = t - 1 /\ y < t BY <1>2, <1>6, MaxDaysAssumption DEF Days
  <2>2. PICK k \in Nat, r \in Nat : r < s /\ y = k * s + r + 1
    <3>1. \E k \in Nat, r \in Nat : r < dutyMode.shiftDays /\ y = k * dutyMode.shiftDays + r + 1
      BY ShiftOfDay
    <3> QED BY <1>1, <3>1
  <2>3. PICK u : u = Turn(y) OBVIOUS
  <2>4. u = m[(k % n) + 1] /\ u \in Range(m) /\ u \in Members
    BY <1>1, <1>3, <1>4, <2>2, <2>3, TurnOfShift
  <2>5. RowOf(today - 1) = u
    <3>1. history[y] = <<u>> BY <1>2, <2>1, <2>3 DEF TurnsTaken
    <3>2. Head(<<u>>) = u /\ <<u>> # <<>> OBVIOUS
    <3> QED BY <1>2, <2>1, <3>1, <3>2 DEF RowOf
  <2>6. Chosen(g) = IF IsShiftNeeded(u) THEN NextMember(m, u) ELSE u
    BY <1>3, <2>4, <2>5, NoUserAssumption DEF Chosen
  <2>7. /\ NextMember(m, u) = m[((k + 1) % n) + 1]
        /\ n = 1 => NextMember(m, u) = u
    BY <1>3, <1>4, <2>4, TurnsAfterAnother
  <2>8. CASE r = s - 1
    <3>1. PICK l \in Nat : l = k + 1 OBVIOUS
    <3>2. l * s = k * s + s BY <3>1
    <3>3. t = l * s + 0 + 1 /\ 0 < s
      <4>1. PICK a \in Nat, b \in Nat : a = k * s /\ b = l * s OBVIOUS
      <4>2. t = y + 1 BY <2>1
      <4> QED BY <2>2, <2>8, <3>2, <4>1, <4>2
    <3>4. today = (k + 1) * dutyMode.shiftDays + 1
      <4>1. t = l * s + 1 BY <3>3
      <4> QED BY <1>1, <1>2, <3>1, <4>1
    <3>5. IsShiftNeeded(u) BY <1>2, <2>1, <2>3, <3>4, ShiftIsOver
    <3>6. Turn(today) = m[(l % n) + 1] BY <1>1, <1>2, <1>3, <1>4, <3>3, TurnOfShift
    <3> QED BY <2>6, <2>7, <3>1, <3>5, <3>6
  <2>9. CASE r # s - 1
    <3>1. PICK q \in Nat : q = r + 1 OBVIOUS
    <3>2. q < s /\ t = k * s + q + 1
      <4>1. PICK a \in Nat : a = k * s OBVIOUS
      <4>2. t = y + 1 BY <2>1
      <4> QED BY <2>2, <2>9, <3>1, <4>1, <4>2
    <3>3. Turn(today) = u BY <1>1, <1>2, <1>3, <1>4, <2>4, <3>2, TurnOfShift
    <3>4. n # 1 => ~IsShiftNeeded(u)
      <4>1. r + 1 < dutyMode.shiftDays /\ today = k * dutyMode.shiftDays + r + 2
        <5>1. PICK a \in Nat : a = k * s OBVIOUS
        <5>2. r + 1 < s /\ t = a + r + 2 BY <3>1, <3>2, <5>1
        <5> QED BY <1>1, <1>2, <5>1, <5>2
      <4> QED BY <1>2, <1>3, <1>4, <2>1, <2>3, <4>1, ShiftGoesOn
    <3> QED BY <2>6, <2>7, <3>3, <3>4
  <2> QED BY <2>8, <2>9
<1> QED BY <1>5, <1>6

\* Nothing is disturbed, so everybody of the group serves.
LEMMA AllServe ==
  ASSUME DutyShape, employed = Members
  PROVE  Serving = group.members
<1>1. PICK m \in Seq(Members) : m = group.members BY RosterFacts
<1>2. EmployedAmong(m, Members) = m BY <1>1, EmployedMembers
<1> QED BY <1>1, <1>2 DEF Serving

\* A step of a filling that leaves the history alone.
LEMMA TurnsKept ==
  ASSUME RotaInv, Undisturbed, NEW g \in Fillers, BeginFill(g) \/ FillStep(g), DutySame,
         history' = history, NEW r, fill'[g] = r,
         r.pc # "idle" => r.members = group.members,
         r.pc \in {"decide", "check", "write"} => r.day = today /\ history[today] = <<>>,
         r.pc \in {"check", "write"} => r.user = Turn(today),
         r.pc = "write" => r.exists = FALSE
  PROVE  Untouched' /\ TurnsTaken' /\ FillsTheTurn'
<1>1. UNCHANGED <<dutyMode, today, group, employed, change>> BY DEF DutySame
<1>2. \A h \in Fillers \ {g} : fill[h].pc = "idle" /\ fill'[h] = fill[h]
  BY OneFillerStep DEF RotaInv, Undisturbed
<1>3. Untouched' BY <1>1 DEF RotaInv, Untouched
<1>4. TurnsTaken' BY <1>1 DEF RotaInv, TurnsTaken, Turn
<1>5. Turn(today)' = Turn(today) BY <1>1 DEF Turn
<1>6. FillsTheTurn' BY <1>1, <1>2, <1>5 DEF FillsTheTurn
<1> QED BY <1>3, <1>4, <1>6

LEMMA RotaStep ==
  ASSUME RotaInv, Undisturbed, NEW g \in Fillers, BeginFill(g) \/ FillStep(g)
  PROVE  Untouched' /\ TurnsTaken' /\ FillsTheTurn'
<1>1. PICK w \in FillRow : w = fill[g] BY DEF RotaInv, RowInv, DutyTyped, DutyShape
<1>2. /\ fill \in [Fillers -> FillRow] /\ history \in [Days -> Seq(Members)] /\ today \in Days
      /\ DutyShape /\ DutyTyped
  BY DEF RotaInv, RowInv, DutyTyped, DutyShape
<1>3. Untouched /\ TurnsTaken /\ FillsTheTurn BY DEF RotaInv
<1>4. /\ w.pc # "idle" => w.members = group.members
      /\ w.pc \in {"decide", "check", "write"} => w.day = today /\ history[today] = <<>>
      /\ w.pc \in {"check", "write"} => w.user = Turn(today)
      /\ w.pc = "write" => w.exists = FALSE
  BY <1>1, <1>3 DEF FillsTheTurn
<1>5. CASE BeginFill(g)
  <2>1. Serving = group.members BY <1>2, <1>3, AllServe DEF Untouched
  <2> DEFINE r == [NoFill EXCEPT !.pc = "look", !.members = Serving]
  <2>2. r.pc = "look" /\ r.members = group.members BY <2>1, NoFillTyped DEF FillRow
  <2>3. fill' = [fill EXCEPT ![g] = r] /\ DutySame /\ history' = history
    BY <1>5 DEF BeginFill
  <2> HIDE DEF r
  <2>4. fill'[g] = r BY <1>2, <2>3
  <2> QED BY <1>5, <2>2, <2>3, <2>4, TurnsKept
<1>6. CASE Look(g)
  <2>1. change[today] = NoUser /\ w.pc = "look" BY <1>1, <1>2, <1>3, <1>6 DEF Untouched, Look
  <2>2. DutySame /\ history' = history BY <1>6 DEF Look
  <2>3. CASE RowOf(today) # NoUser
    <3>1. fill'[g] = NoFill BY <1>2, <1>6, <2>1, <2>3 DEF Look, StopFill
    <3>2. PICK r : r = NoFill /\ r.pc = "idle" BY NoFillTyped
    <3> QED BY <1>6, <2>2, <3>1, <3>2, TurnsKept DEF FillStep
  <2>4. CASE RowOf(today) = NoUser
    <3> DEFINE r == [w EXCEPT !.pc = "decide", !.day = today]
    <3>1. r.pc = "decide" /\ r.day = today /\ r.members = w.members BY DEF FillRow
    <3>2. fill'[g] = r BY <1>1, <1>2, <1>6, <2>1, <2>4 DEF Look
    <3> HIDE DEF r
    <3>3. history[today] = <<>> BY <1>2, <2>4, NoRowIsEmpty
    <3>4. r.members = group.members BY <1>4, <2>1, <3>1
    <3> QED BY <1>6, <2>2, <3>1, <3>2, <3>3, <3>4, TurnsKept DEF FillStep
  <2> QED BY <2>3, <2>4
<1>7. CASE Decide(g)
  <2>1. w.pc = "decide" /\ DutySame /\ history' = history BY <1>1, <1>7 DEF Decide
  <2>2. Chosen(g) = Turn(today) BY <1>1, <1>2, <1>3, <1>4, <2>1, ChosenIsTurn
  <2>3. PICK u : u = Chosen(g) OBVIOUS
  <2>4. fill' = [fill EXCEPT ![g].pc = "check", ![g].user = u]
    BY <1>7, <2>3 DEF Decide, Chosen
  <2> DEFINE r == [w EXCEPT !.pc = "check", !.user = u]
  <2>5. r.pc = "check" /\ r.user = u /\ r.day = w.day /\ r.members = w.members BY DEF FillRow
  <2>6. fill'[g] = r BY <1>1, <1>2, <2>4
  <2> HIDE DEF r
  <2> QED BY <1>4, <1>7, <2>1, <2>2, <2>3, <2>5, <2>6, TurnsKept DEF FillStep
<1>8. CASE CheckRow(g)
  <2>1. w.pc = "check" /\ DutySame /\ history' = history BY <1>1, <1>8 DEF CheckRow
  <2>2. RowOf(w.day) = NoUser BY <1>2, <1>4, <2>1, NoRowIsEmpty
  <2>3. fill' = [fill EXCEPT ![g].pc = "write", ![g].exists = FALSE]
    BY <1>1, <1>8, <2>2 DEF CheckRow
  <2> DEFINE r == [w EXCEPT !.pc = "write", !.exists = FALSE]
  <2>4. /\ r.pc = "write" /\ r.exists = FALSE /\ r.user = w.user /\ r.day = w.day
        /\ r.members = w.members
    BY DEF FillRow
  <2>5. fill'[g] = r BY <1>1, <1>2, <2>3
  <2> HIDE DEF r
  <2> QED BY <1>4, <1>8, <2>1, <2>4, <2>5, TurnsKept DEF FillStep
<1>9. CASE WriteRow(g)
  <2>1. w.pc = "write" /\ DutySame BY <1>1, <1>9 DEF WriteRow
  <2>2. PICK u : u = Turn(today) OBVIOUS
  <2>3. RowsWith(<<>>, u, FALSE) = <<u>> /\ <<u>> # <<>> BY DEF RowsWith
  <2>4. history' = [history EXCEPT ![today] = <<u>>]
    BY <1>1, <1>4, <1>9, <2>1, <2>2, <2>3 DEF WriteRow
  <2>5. UNCHANGED <<dutyMode, today, group, employed, change>> BY <2>1 DEF DutySame
  <2>6. \A d \in Days : Turn(d)' = Turn(d) BY <2>5 DEF Turn
  <2>7. \A d \in Days : history'[d] = IF d = today THEN <<u>> ELSE history[d] BY <1>2, <2>4
  <2>8. today <= today BY <1>2 DEF Days
  <2>9. TurnsTaken' BY <1>3, <2>2, <2>3, <2>5, <2>6, <2>7, <2>8 DEF TurnsTaken
  <2>10. \A h \in Fillers : fill'[h].pc = "idle"
    <3>1. \A h \in Fillers \ {g} : fill[h].pc = "idle" /\ fill'[h] = fill[h]
      BY OneFillerStep DEF RotaInv, Undisturbed
    <3>2. fill'[g].pc = "idle" BY <1>2, <1>9, NoFillTyped DEF WriteRow, StopFill
    <3> QED BY <3>1, <3>2
  <2>11. FillsTheTurn' BY <2>10 DEF FillsTheTurn
  <2>12. Untouched' BY <1>3, <2>5 DEF Untouched
  <2> QED BY <2>9, <2>11, <2>12
<1> QED BY <1>5, <1>6, <1>7, <1>8, <1>9 DEF FillStep

LEMMA RotaMidnight ==
  ASSUME RotaInv, Undisturbed, NextDay
  PROVE  Untouched' /\ TurnsTaken' /\ FillsTheTurn'
<1>1. UNCHANGED <<dutyMode, group, employed, change, history, fill>> BY DEF NextDay
<1>2. today \in Nat /\ today' = today + 1 /\ today \in Days
  BY DEF NextDay, RotaInv, RowInv, DutyTyped, DutyShape, Days
<1>3. history[today] # <<>>
  BY <1>2, NoRowIsEmpty DEF NextDay, Undisturbed, RotaInv, RowInv, DutyTyped
<1>4. \A d \in Days : Turn(d)' = Turn(d) BY <1>1 DEF Turn
<1>5. TurnsTaken'
  <2>1. ASSUME NEW d \in Days, history'[d] # <<>> PROVE d <= today' /\ history'[d] = <<Turn(d)'>>
    <3>1. d \in Nat BY DEF Days
    <3> QED BY <1>1, <1>2, <1>4, <2>1, <3>1 DEF RotaInv, TurnsTaken
  <2>2. ASSUME NEW d \in Days, d < today' PROVE history'[d] # <<>>
    <3>1. d \in Nat BY DEF Days
    <3>2. d < today \/ d = today BY <1>2, <2>2, <3>1
    <3> QED BY <1>1, <1>3, <3>2 DEF RotaInv, TurnsTaken
  <2> QED BY <2>1, <2>2 DEF TurnsTaken
<1>6. Untouched' BY <1>1 DEF RotaInv, Untouched
<1>7. \A h \in Fillers : fill'[h].pc = "idle" BY <1>1 DEF NextDay, Undisturbed
<1>8. FillsTheTurn' BY <1>7 DEF FillsTheTurn
<1> QED BY <1>5, <1>6, <1>8

LEMMA RotaInvariant == DutySpec => []RotaInv
<1>1. DutyInit /\ RowInv => RotaInv
  <2>1. ASSUME DutyInit PROVE Untouched /\ FillsTheTurn
    BY <2>1, NoFillTyped DEF DutyInit, Untouched, FillsTheTurn
  <2>2. ASSUME DutyInit PROVE TurnsTaken
    <3>1. \A d \in Days : history[d] = <<>> /\ ~(d < today) BY <2>2 DEF DutyInit, Days
    <3> QED BY <3>1 DEF TurnsTaken
  <2> QED BY <2>1, <2>2 DEF RotaInv
<1>2. RotaInv /\ [DutyNext]_dutyVars /\ RowInv' => RotaInv'
  <2> SUFFICES ASSUME RotaInv, [DutyNext]_dutyVars, RowInv' PROVE RotaInv' OBVIOUS
  <2>1. SUFFICES ASSUME Undisturbed' PROVE (Untouched /\ TurnsTaken /\ FillsTheTurn)'
    BY DEF RotaInv
  <2>2. dutyMode' = dutyMode
    BY DEF DutyNext, BeginFill, FillStep, Look, Decide, CheckRow, WriteRow, DutySame,
           CreateChange, UpdateGroup, DeleteGroup, DeleteUser, NextDay, dutyVars
  <2>3. Undisturbed BY <2>1, <2>2 DEF Undisturbed
  <2>4. CASE UNCHANGED dutyVars
    <3>1. \A d \in Days : Turn(d)' = Turn(d) BY <2>4 DEF Turn, dutyVars
    <3>2. Turn(today)' = Turn(today) BY <2>4 DEF Turn, dutyVars
    <3> QED BY <2>3, <2>4, <3>1, <3>2 DEF RotaInv, Untouched, TurnsTaken, FillsTheTurn, dutyVars
  <2> QED BY <2>3, <2>4, RotaStep, RotaMidnight
    DEF DutyNext, Undisturbed, CreateChange, UpdateGroup, DeleteGroup, DeleteUser
<1> QED BY <1>1, <1>2, RowInvariant, PTL DEF DutySpec

\* Undisturbed, the rule by yesterday's row and by counting rows is the round robin: the
\* members serve in their order, each for exactly shiftDays days (processOnDutyHistoryForGroup,
\* isShiftNeeded, getNextUserIndex), for every group, shift length and number of days.
THEOREM RoundRobin == DutySpec => []RotaIsRoundRobin
<1>1. ASSUME RotaInv PROVE RotaIsRoundRobin
  <2>1. Undisturbed => Serving = group.members
    BY <1>1, AllServe DEF RotaInv, RowInv, DutyTyped, Untouched
  <2> QED BY <1>1, <2>1 DEF RotaInv, TurnsTaken, Turn, RotaIsRoundRobin, Filled
<1> QED BY <1>1, RotaInvariant, PTL

----
(***************************************************************************)
(* The plan of the API and the webhook.                                    *)
(***************************************************************************)
\* calculateDutyUser counts on from a member's first day as the shifts do.
PlannedTurn(x, e, s, n) == ((x * s + e) % (n * s)) \div s
RotaTurn(l, n) == (l % n)

LEMMA PlanCounts ==
  ASSUME NEW k, NEW n, NEW p, NEW x, IsDivided(k, n, p, x),
         NEW e, NEW s, NEW j, NEW r, IsDivided(e, s, j, r)
  PROVE  PlannedTurn(x, e, s, n) = RotaTurn(k + j, n)
<1>0. /\ k \in Nat /\ e \in Nat /\ s \in Nat \ {0} /\ n \in Nat \ {0}
      /\ p \in Nat /\ x \in Nat /\ j \in Nat /\ r \in Nat
  BY DEF IsDivided
<1>1. PICK l \in Nat : l = x + j BY <1>0
<1>2. PICK c \in Nat, y \in Nat : y < n /\ l = c * n + y
  <2>1. PICK c \in Nat, y \in Nat : IsDivided(l, n, c, y) BY <1>0, Divided
  <2> QED BY <2>1 DEF IsDivided
<1>3. PICK b \in Nat \ {0} : b = n * s
  <2>1. n * s \in Nat /\ n * s # 0 BY <1>0
  <2> QED BY <2>1
<1>4. PICK z \in Nat : z = y * s + r BY <1>0
<1>5. r < s => z < b
  <2>1. PICK i \in Nat : n = y + 1 + i
    <3>1. n - y - 1 \in Nat /\ n = y + 1 + (n - y - 1) BY <1>0, <1>2
    <3> QED BY <3>1
  <2>2. n * s = y * s + s + i * s BY <1>0, <2>1
  <2>3. i * s \in Nat /\ y * s \in Nat BY <1>0
  <2> QED BY <1>0, <1>3, <1>4, <2>2, <2>3
<1>6. k = p * n + x /\ x < n /\ e = j * s + r /\ r < s BY DEF IsDivided
<1>7. x * s + e = c * b + z
  <2>1. x * s + e = (x + j) * s + r BY <1>0, <1>6
  <2>2. (c * n + y) * s = c * (n * s) + y * s BY <1>0, <1>2
  <2>3. l * s = c * b + y * s BY <1>0, <1>2, <1>3, <2>2
  <2> QED BY <1>0, <1>1, <1>4, <2>1, <2>3
<1>8. (x * s + e) % b = z
  <2>1. (c * b + z) % b = z BY <1>0, <1>5, <1>6, DivisionIsUnique
  <2> QED BY <1>7, <2>1
<1>9. z \div s = y
  <2>1. (y * s + r) \div s = y BY <1>0, <1>6, DivisionIsUnique
  <2> QED BY <1>4, <2>1
<1>10. ((k + j) % n) = y
  <2>1. PICK q \in Nat : q = p + c BY <1>0
  <2>2. q * n = p * n + c * n BY <1>0, <2>1
  <2>3. k + j = q * n + y BY <1>0, <1>1, <1>2, <1>6, <2>2
  <2>4. (q * n + y) % n = y BY <1>0, <1>2, DivisionIsUnique
  <2> QED BY <2>3, <2>4
<1> QED BY <1>3, <1>8, <1>9, <1>10 DEF PlannedTurn, RotaTurn

LEMMA PlanIsRota == RotaInv => PlanComesTrue
<1>0. SUFFICES ASSUME RotaInv, Undisturbed, NEW from \in Days, NEW d \in Days, from <= d,
                      (from - 1) % dutyMode.shiftDays = 0, Filled(from), Filled(d)
               PROVE  Plan(from, d) = RowOf(d)
  BY DEF PlanComesTrue
<1>1. DutyShape /\ TurnsTaken /\ employed = Members
  BY <1>0 DEF RotaInv, RowInv, DutyTyped, Untouched
<1>2. PICK s \in Nat \ {0} : s = dutyMode.shiftDays BY <1>1, RosterFacts
<1>3. PICK m \in Seq(Members) : m = group.members BY <1>1, RosterFacts
<1>4. PICK n \in Nat \ {0} : n = Len(m) /\ DOMAIN m = 1..n BY <1>1, <1>3, RosterFacts
<1>5. Serving = m BY <1>1, <1>3, AllServe
<1>6. PICK k \in Nat : from = k * s + 0 + 1
  <2>1. PICK a \in Nat : a = from - 1 /\ (a % s) = 0 BY <1>0, <1>2 DEF Days
  <2>2. a = (a \div s) * s + (a % s) /\ a \div s \in Nat BY Division
  <2>3. PICK k \in Nat : k = a \div s BY <2>2
  <2>4. a = k * s BY <2>1, <2>2, <2>3
  <2>5. from = k * s + 0 + 1 BY <2>1, <2>4 DEF Days
  <2> QED BY <2>5
<1>7. \A e \in Days : Filled(e) => RowOf(e) = Turn(e)
  <2>1. SUFFICES ASSUME NEW e \in Days, Filled(e) PROVE RowOf(e) = Turn(e) OBVIOUS
  <2>2. PICK u : u = Turn(e) OBVIOUS
  <2>3. history[e] = <<u>> BY <1>1, <2>1, <2>2 DEF TurnsTaken, Filled
  <2>4. Head(<<u>>) = u /\ <<u>> # <<>> OBVIOUS
  <2> QED BY <2>2, <2>3, <2>4 DEF RowOf
<1>8. PICK p \in Nat, x \in Nat : x = (k % n) /\ x < n /\ k = p * n + x BY Division
<1>9. 0 < s /\ from = k * s + 0 + 1 BY <1>6
<1>10. RowOf(from) = m[x + 1]
  <2>1. Turn(from) = m[(k % n) + 1] BY <1>1, <1>2, <1>3, <1>4, <1>9, TurnOfShift
  <2> QED BY <1>0, <1>7, <1>8, <2>1
<1>11. IndexOn(from) = x
  <2>1. x + 1 \in 1..n BY <1>8
  <2>2. RowOf(from) \in Range(m) BY <1>4, <1>10, <2>1 DEF Range
  <2>3. Index(m, RowOf(from)) \in 1..n /\ m[Index(m, RowOf(from))] = m[x + 1]
    BY <1>4, <1>10, <2>2, NextMemberTyped
  <2>4. Index(m, RowOf(from)) = x + 1 BY <1>1, <1>3, <1>4, <2>1, <2>3, RosterFacts
  <2> QED BY <1>5, <2>2, <2>4 DEF IndexOn
<1>12. PICK e \in Nat : e = d - from /\ x * s + d - from = x * s + e BY <1>0 DEF Days
<1>13. PICK j \in Nat, r \in Nat : j = e \div s /\ r < s /\ e = j * s + r BY Division
<1>14. PlannedTurn(x, e, s, n) = RotaTurn(k + j, n)
  <2>1. IsDivided(k, n, p, x) /\ IsDivided(e, s, j, r) BY <1>8, <1>13 DEF IsDivided
  <2> QED BY <2>1, PlanCounts
<1>15. Plan(from, d) = m[((k + j) % n) + 1]
  BY <1>2, <1>4, <1>5, <1>11, <1>12, <1>14 DEF Plan, PlannedTurn, RotaTurn
<1>16. PICK l \in Nat : l = k + j OBVIOUS
<1>17. d = l * s + r + 1
  <2>1. l * s = k * s + j * s BY <1>16
  <2>2. PICK a \in Nat, b \in Nat, c \in Nat : a = l * s /\ b = k * s /\ c = j * s OBVIOUS
  <2>3. d = from + e BY <1>12 DEF Days
  <2> QED BY <1>9, <1>13, <2>1, <2>2, <2>3
<1>18. Turn(d) = m[(l % n) + 1] BY <1>1, <1>2, <1>3, <1>4, <1>13, <1>17, TurnOfShift
<1> QED BY <1>0, <1>7, <1>15, <1>16, <1>18

LEMMA PagedIsShown == DutyShape => ShownIsPaged
<1> SUFFICES ASSUME DutyShape, change[today] = NoUser \/ RowOf(today) \in employed
             PROVE  PagedToday = ShownToday
  BY DEF ShownIsPaged
<1>1. CASE RowOf(today) \in employed BY <1>1 DEF PagedToday, ShownToday
<1>2. CASE RowOf(today) \notin employed
  <2>1. change[today] \notin employed BY <1>2, NoUserAssumption DEF DutyShape
  <2>2. PagedToday = FirstOf(Serving) BY <1>2 DEF PagedToday
  <2>3. CASE Serving = <<>> BY <1>2, <2>1, <2>2, <2>3 DEF ShownToday, FirstOf
  <2>4. CASE Serving # <<>>
    <3>1. PICK q \in Seq(employed) : q = Serving /\ q # <<>> BY <2>4, ServingTyped
    <3>2. PICK n \in Nat \ {0} : n = Len(q) BY <3>1
    <3>3. PICK s \in Nat \ {0} : s = dutyMode.shiftDays BY RosterFacts
    <3>4. RowOf(today) \notin Range(q) BY <1>2 DEF Range
    <3>5. IndexOn(today) = 0 BY <3>1, <3>4 DEF IndexOn
    <3>6. 0 * s + today - today = 0 /\ 0 \in Nat BY DEF DutyShape, Days
    <3>7. (0 % (n * s)) \div s = 0
      <4>1. PICK b \in Nat \ {0} : b = n * s
        <5>1. n * s \in Nat /\ n * s # 0 OBVIOUS
        <5> QED BY <5>1
      <4>2. (0 * b + 0) % b = 0 BY DivisionIsUnique
      <4>3. 0 * b + 0 = 0 OBVIOUS
      <4>4. (0 * s + 0) \div s = 0 BY DivisionIsUnique
      <4>5. 0 * s + 0 = 0 OBVIOUS
      <4> QED BY <4>1, <4>2, <4>3, <4>4, <4>5
    <3>8. Plan(today, today) = q[1]
      <4>1. PICK t \in Nat : t = today BY DEF DutyShape, Days
      <4>2. Plan(t, t) = q[(((0 * s + t - t) % (n * s)) \div s) + 1]
        BY <3>1, <3>2, <3>3, <3>5, <4>1 DEF Plan
      <4>3. 0 * s + t - t = 0 BY <3>6, <4>1
      <4>4. Plan(t, t) = q[0 + 1] BY <3>7, <4>2, <4>3
      <4> QED BY <4>1, <4>4
    <3>9. FirstOf(Serving) = q[1] BY <3>1 DEF FirstOf
    <3> QED BY <1>2, <2>1, <2>2, <2>4, <3>8, <3>9 DEF ShownToday
  <2> QED BY <2>3, <2>4
<1> QED BY <1>1, <1>2

\* The plan of the API comes true when it is asked on the first day of a shift
\* (calculateDutyUser), and the webhook pages whom the API shows as on duty today
\* (getTodayDutyUser, FillTodayOnDutyUser), whatever is edited, missed or overlaps, except on a day
\* whose change has not been filled in.
THEOREM CodesAgree == DutySpec => []RotaCodesAgree
<1>1. RotaInv => RotaCodesAgree
  BY PlanIsRota, PagedIsShown DEF RotaInv, RowInv, DutyTyped, RotaCodesAgree
<1> QED BY <1>1, RotaInvariant, PTL

----
(***************************************************************************)
(* The composition.                                                        *)
(***************************************************************************)
\* What the composition does is, for each of its components, a behaviour of that component:
\* what is proved of one holds in it (webhook, rota and caches share no state).
THEOREM MonitoringComposes == MonitoringSpec => EventSpec /\ DutySpec /\ ConfigSpec
<1>1. MonitoringInit => EventInit /\ DutyInit /\ ConfigInit BY DEF MonitoringInit
<1>2. [MonitoringNext]_monitoringVars =>
        [EventNext]_eventVars /\ [DutyNext]_dutyVars /\ [ConfigNext]_configVars
  BY DEF MonitoringNext, monitoringVars, EventMoves, DutyMoves, ConfigMoves
<1> QED BY <1>1, <1>2, PTL DEF MonitoringSpec, EventSpec, DutySpec, ConfigSpec

\* The three components keep their types.
THEOREM MonitoringTypeCorrect == MonitoringSpec => []MonitoringTypeOK
BY MonitoringComposes, EventTypeCorrect, DutyTypeCorrect, ConfigTypeCorrect, PTL DEF MonitoringTypeOK
====
