---- MODULE AlertEvent ----
(****************************************************************************)
(* The alert webhook: Alertmanager's messages go through a bounded queue, a *)
(* goroutine per alert writes the event row of its fingerprint and sends    *)
(* the card; the card's links silence and unsilence, the management API     *)
(* claims.  Every writer reads the row and writes it back later with        *)
(* Updates of a struct, which skips the columns that are zero.              *)
(*                                                                          *)
(*   alert      find -> store -> read -> card [-> escalate]                 *)
(*   silence    post -> write                                               *)
(*   unsilence  delete -> write                                             *)
(*   claim      write                                                       *)
(****************************************************************************)
EXTENDS Integers, Sequences

CONSTANTS
  Fingerprints,  \* of alerts
  Users,         \* who may claim
  Nobody,        \* ren_ling_user_id 0
  Tasks,         \* goroutines: of alerts, and of requests
  QueueSize,     \* capacity of the channel
  Messages,      \* what Alertmanager may send: sequences of alerts
  MaxSilences,   \* bound: silences ever created
  EventModes     \* the modes a behaviour can have

Operations == {"silence", "unsilence", "claim"}
Alerts == [fp : Fingerprints, status : {"firing", "resolved"}]
SilenceIds == 1..MaxSilences
NoSilence == 0   \* silence_id ""

ASSUME NobodyAssumption == Nobody \notin Users
ASSUME FingerprintsAssumption == Fingerprints # {}
ASSUME BoundsAssumption == QueueSize \in Nat \ {0} /\ MaxSilences \in Nat
ASSUME MessagesAssumption == Messages \subseteq Seq(Alerts)
ASSUME EventModesAssumption ==
  EventModes \subseteq [overlap : BOOLEAN,      \* goroutines run between each other's steps
                        ops : SUBSET Operations,
                        faults : BOOLEAN,       \* queries and calls fail, the process restarts
                        upgrades : BOOLEAN,     \* the send group has FirstUpgradeUsers
                        staffed : BOOLEAN,      \* its duty group exists and has members
                        messages : Nat,         \* bound on Alertmanager's messages
                        requests : 0..MaxSilences] \* bound on operators' requests

VARIABLES
  eventMode,
  outgoing,   \* Alertmanager: the message it is delivering
  queue,      \* the channel
  warm,       \* the caches know the send group, its user and the rule
  task,       \* each goroutine: where it is, what it has read
  event,      \* the table: one row per fingerprint
  silence,    \* Alertmanager: the silences
  sent,       \* bound: messages
  operations, \* bound: requests
  lastStatus, \* history: the status of the last alert accepted
  untouched   \* history: events no alert or claim has written since their last silence

eventVars == <<eventMode, outgoing, queue, warm, task, event, silence, sent, operations,
               lastStatus, untouched>>

NoEvent == [stored |-> FALSE, status |-> "firing", silence |-> NoSilence, claimant |-> Nobody]
AnyAlert == CHOOSE a \in Alerts : TRUE
NoTask == [pc |-> "idle", kind |-> "alert", alert |-> AnyAlert, seen |-> NoEvent]
NotSent == [alerts |-> <<>>, next |-> 1]

EventInit ==
  /\ eventMode \in EventModes
  /\ outgoing = NotSent
  /\ queue = <<>>
  /\ warm = ~eventMode.faults
  /\ task = [t \in Tasks |-> NoTask]
  /\ event = [f \in Fingerprints |-> NoEvent]
  /\ silence = [i \in SilenceIds |-> [fp |-> AnyAlert.fp, state |-> "unused"]]
  /\ sent = 0 /\ operations = 0
  /\ lastStatus = [f \in Fingerprints |-> "none"]
  /\ untouched = {}

SilencesOf(f) == {i \in SilenceIds : silence[i].fp = f /\ silence[i].state # "unused"}
ActiveSilences(f) == {i \in SilencesOf(f) : silence[i].state = "active"}

UpdateAll(row, e) == e   \* mutant: zero columns are written too

UpdateStatus(row, e) == [row EXCEPT !.status = e.status]   \* mutant: one column

\* Updates(struct): status is never zero; an empty silence_id or a zero
\* ren_ling_user_id leaves the column alone.
Updates(row, e) ==
  [row EXCEPT !.status = e.status,
              !.silence = IF e.silence = NoSilence THEN @ ELSE e.silence,
              !.claimant = IF e.claimant = Nobody THEN @ ELSE e.claimant]

GoOn(t, pc) == task' = [task EXCEPT ![t].pc = pc]
Finish(t) == task' = [task EXCEPT ![t] = NoTask]

MayBegin(t) ==
  /\ task[t].pc = "idle"
  /\ eventMode.overlap \/ \A u \in Tasks : task[u].pc = "idle"

(***************************************************************************)
(* Alertmanager and the receiver.                                          *)
(***************************************************************************)
Notify(m) ==
  /\ outgoing.alerts = <<>>
  /\ sent < eventMode.messages /\ sent' = sent + 1
  /\ \A k \in DOMAIN m : ActiveSilences(m[k].fp) = {}
  /\ outgoing' = [alerts |-> m, next |-> 1]
  /\ UNCHANGED <<eventMode, queue, warm, task, event, silence, operations, lastStatus, untouched>>

HasRoomLate == Len(queue) <= QueueSize   \* mutant

HasRoom == Len(queue) < QueueSize

\* MonitorAlertReceive, one turn of its loop.  A full queue ends the request with an
\* error text, but under HTTP 200: Alertmanager takes the message as delivered, and the
\* alerts after the accepted ones are lost.
MonitorAlertReceive ==
  /\ outgoing.alerts # <<>>
  /\ LET a == outgoing.alerts[outgoing.next] IN
     IF HasRoom
     THEN /\ queue' = Append(queue, a)
          /\ lastStatus' = [lastStatus EXCEPT ![a.fp] = a.status]
          /\ outgoing' = IF outgoing.next = Len(outgoing.alerts) THEN NotSent
                         ELSE [outgoing EXCEPT !.next = @ + 1]
     ELSE /\ outgoing' = NotSent
          /\ UNCHANGED <<queue, lastStatus>>
  /\ UNCHANGED <<eventMode, warm, task, event, silence, sent, operations, untouched>>

DispatchNewest(t) ==   \* mutant: the newest alert first
  /\ queue # <<>> /\ MayBegin(t)
  /\ task' = [task EXCEPT ![t] = [NoTask EXCEPT !.pc = "find", !.alert = queue[Len(queue)]]]
  /\ queue' = SubSeq(queue, 1, Len(queue) - 1)
  /\ UNCHANGED <<eventMode, outgoing, warm, event, silence, sent, operations, lastStatus, untouched>>

\* AlertReceiveConsumerManager: a goroutine per alert, without a limit (here Tasks).
Dispatch(t) ==
  /\ queue # <<>> /\ MayBegin(t)
  /\ task' = [task EXCEPT ![t] = [NoTask EXCEPT !.pc = "find", !.alert = Head(queue)]]
  /\ queue' = Tail(queue)
  /\ UNCHANGED <<eventMode, outgoing, warm, event, silence, sent, operations, lastStatus, untouched>>

(***************************************************************************)
(* HandleAlert.                                                            *)
(***************************************************************************)
Others == UNCHANGED <<eventMode, outgoing, queue, warm, sent, operations, lastStatus>>

\* Out of the caches: an alert whose send group, user or rule they do not know is dropped.
\* Then the SELECT of CreateOrUpdateEvent.
Find(t) ==
  /\ task[t].pc = "find"
  /\ IF warm THEN task' = [task EXCEPT ![t].pc = "store", ![t].seen = event[task[t].alert.fp]]
             ELSE Finish(t)
  /\ Others /\ UNCHANGED <<event, silence, untouched>>

\* An event to be upgraded carries that status from the first notification on.
StatusOf(a) == IF a.status = "firing" /\ eventMode.upgrades THEN "upgraded" ELSE a.status

StoreKnown(t) ==   \* mutant: a record that is not found is an error
  LET f == task[t].alert.fp IN
  /\ task[t].pc = "store"
  /\ IF task[t].seen.stored
     THEN /\ event' = [event EXCEPT ![f] =
                        Updates(@, [NoEvent EXCEPT !.status = StatusOf(task[t].alert)])]
          /\ GoOn(t, "read") /\ untouched' = untouched \ {f}
     ELSE Finish(t) /\ UNCHANGED <<event, untouched>>
  /\ Others /\ UNCHANGED silence

\* CreateOrUpdateEvent: the fingerprint is unique, a second create fails.
Store(t) ==
  LET f == task[t].alert.fp
      new == [NoEvent EXCEPT !.stored = TRUE, !.status = StatusOf(task[t].alert)]
  IN
  /\ task[t].pc = "store"
  /\ IF task[t].seen.stored \/ ~event[f].stored
     THEN /\ event' = [event EXCEPT ![f] = IF task[t].seen.stored THEN Updates(@, new) ELSE new]
          /\ untouched' = untouched \ {f}
          /\ GoOn(t, "read")
     ELSE Finish(t) /\ UNCHANGED <<event, untouched>>
  /\ Others /\ UNCHANGED silence

Read(t) ==
  /\ task[t].pc = "read"
  /\ task' = [task EXCEPT ![t].pc = "card", ![t].seen = event[task[t].alert.fp]]
  /\ Others /\ UNCHANGED <<event, silence, untouched>>

\* GenerateFeishuCardContentOneAlert with a staffed duty group.  Whether the alert
\* has been firing for too long is open.
Card(t) ==
  /\ task[t].pc = "card" /\ eventMode.staffed
  /\ \/ Finish(t)
     \/ /\ task[t].seen.status # "claimed"
        /\ task[t].alert.status = "firing" /\ eventMode.upgrades
        /\ GoOn(t, "escalate")
  /\ Others /\ UNCHANGED <<event, silence, untouched>>

\* UpdateMonitorAlertEvent with the row that was read.
WriteBack(t, e) ==
  LET f == task[t].alert.fp IN
  /\ event' = [event EXCEPT ![f] = Updates(@, e)]
  /\ Finish(t)

Escalate(t) ==
  /\ task[t].pc = "escalate"
  /\ WriteBack(t, [task[t].seen EXCEPT !.status = "upgraded"])
  /\ untouched' = untouched \ {task[t].alert.fp}
  /\ Others /\ UNCHANGED silence

\* What dies with the webhook's process: the channel, the caches, its goroutines.  A
\* request that dies with it is no answer, and is sent again.
Restart ==
  /\ queue' = <<>> /\ warm' = FALSE
  /\ task' = [t \in Tasks |-> IF task[t].kind = "claim" THEN task[t] ELSE NoTask]
  /\ outgoing' = [outgoing EXCEPT !.next = 1]
  /\ UNCHANGED <<eventMode, event, silence, sent, operations, lastStatus, untouched>>

\* The duty group is gone or empty: FillTodayOnDutyUser gets or returns nil, its ID
\* is read, and no goroutine of an alert recovers.
CardPanics(t) ==
  /\ task[t].pc = "card" /\ ~eventMode.staffed
  /\ Restart

(***************************************************************************)
(* Operators.                                                              *)
(***************************************************************************)
BeginOperation(t, kind, f, pc) ==
  /\ kind \in eventMode.ops
  /\ MayBegin(t)
  /\ operations < eventMode.requests /\ operations' = operations + 1
  /\ event[f].stored
  /\ task' = [task EXCEPT ![t] = [pc |-> pc, kind |-> kind, alert |-> [fp |-> f, status |-> "firing"],
                                  seen |-> event[f]]]
  /\ UNCHANGED <<eventMode, outgoing, queue, warm, event, silence, sent, lastStatus, untouched>>

\* MonitorAlertSilence, also of an event that is silenced already.
Silence(t, f) == BeginOperation(t, "silence", f, "post")

\* POST /api/v2/silences; the write of the event waits for its answer.
PostSilence(t) ==
  /\ task[t].pc = "post"
  /\ \E i \in SilenceIds :
       /\ silence[i].state = "unused" /\ \A j \in 1..(i - 1) : silence[j].state # "unused"
       /\ silence' = [silence EXCEPT ![i] = [fp |-> task[t].alert.fp, state |-> "active"]]
       /\ task' = [task EXCEPT ![t].pc = "writeSilenced", ![t].seen.silence = i]
  /\ Others /\ UNCHANGED <<event, untouched>>

WriteSilenced(t) ==
  /\ task[t].pc = "writeSilenced"
  /\ WriteBack(t, [task[t].seen EXCEPT !.status = "silenced"])
  /\ untouched' = untouched \cup {task[t].alert.fp}
  /\ Others /\ UNCHANGED silence

\* MonitorAlertUnSilence
UnSilence(t, f) ==
  /\ event[f].status = "silenced"
  /\ BeginOperation(t, "unsilence", f, "delete")

DeleteSilenceNot(t) ==   \* mutant: only the event is changed
  /\ task[t].pc = "delete"
  /\ GoOn(t, "writeFiring")
  /\ Others /\ UNCHANGED <<event, silence, untouched>>

\* DELETE /api/v2/silence/id: an error unless the silence is active.
DeleteSilence(t) ==
  LET i == task[t].seen.silence IN
  /\ task[t].pc = "delete"
  /\ IF i \in SilenceIds /\ silence[i].state = "active"
     THEN /\ silence' = [silence EXCEPT ![i].state = "lifted"]
          /\ GoOn(t, "writeFiring")
     ELSE Finish(t) /\ UNCHANGED silence
  /\ Others /\ UNCHANGED <<event, untouched>>

\* The empty SilenceID is not written: the event keeps the id of the lifted silence.
WriteFiring(t) ==
  /\ task[t].pc = "writeFiring"
  /\ WriteBack(t, [task[t].seen EXCEPT !.status = "firing", !.silence = NoSilence])
  /\ Others /\ UNCHANGED <<silence, untouched>>

\* EventAlertClaim of the management API.
Claim(t, f) == BeginOperation(t, "claim", f, "writeClaimed")

WriteClaimed(t) ==
  /\ task[t].pc = "writeClaimed"
  /\ \E u \in Users : WriteBack(t, [task[t].seen EXCEPT !.status = "claimed", !.claimant = u])
  /\ untouched' = untouched \ {task[t].alert.fp}
  /\ Others /\ UNCHANGED silence

(***************************************************************************)
(* Time and faults.                                                        *)
(***************************************************************************)
\* startCacheRefresh: the four loops replace their maps.
RefreshCaches ==
  /\ ~warm /\ warm' = TRUE
  /\ UNCHANGED <<eventMode, outgoing, queue, task, event, silence, sent, operations, lastStatus,
                 untouched>>

Expire(i) ==
  /\ silence[i].state = "active"
  /\ silence' = [silence EXCEPT ![i].state = "expired"]
  /\ UNCHANGED <<eventMode, outgoing, queue, warm, task, event, sent, operations, lastStatus, untouched>>

\* A query or a call fails: the goroutine gives up.
GiveUp(t) ==
  /\ eventMode.faults /\ task[t].pc # "idle"
  /\ Finish(t)
  /\ Others /\ UNCHANGED <<event, silence, untouched>>

Crash == eventMode.faults /\ Restart

TaskStep(t) ==
  \/ Find(t) \/ Store(t) \/ Read(t) \/ Card(t) \/ Escalate(t) \/ CardPanics(t)
  \/ PostSilence(t) \/ WriteSilenced(t) \/ DeleteSilence(t) \/ WriteFiring(t) \/ WriteClaimed(t)

EventNext ==
  \/ \E m \in Messages : Notify(m)
  \/ MonitorAlertReceive
  \/ \E t \in Tasks :
       \/ Dispatch(t) \/ TaskStep(t) \/ GiveUp(t)
       \/ \E f \in Fingerprints : Silence(t, f) \/ UnSilence(t, f) \/ Claim(t, f)
  \/ \E i \in SilenceIds : Expire(i)
  \/ RefreshCaches \/ Crash

EventSpec == EventInit /\ [][EventNext]_eventVars

\* The manager takes from the channel, and every goroutine runs.
DispatchSome == \E t \in Tasks : Dispatch(t)
EventFairness == WF_eventVars(DispatchSome) /\ \A t \in Tasks : WF_eventVars(TaskStep(t))

(***************************************************************************)
(* Properties.                                                             *)
(***************************************************************************)
EventStatuses == {"firing", "silenced", "claimed", "resolved", "upgraded"}
Rows == [stored : BOOLEAN, status : EventStatuses, silence : {NoSilence} \cup SilenceIds,
         claimant : Users \cup {Nobody}]

\* Type invariant of the alert webhook (rows, channel and goroutines of internal/prometheus/webhook).
EventTypeOK ==
  /\ queue \in Seq(Alerts) /\ Len(queue) <= QueueSize
  /\ warm \in BOOLEAN
  /\ event \in [Fingerprints -> Rows]
  /\ silence \in [SilenceIds -> [fp : Fingerprints, state : {"unused", "active", "lifted", "expired"}]]
  /\ task \in [Tasks -> [pc : {"idle", "find", "store", "read", "card", "escalate", "post", "delete",
                               "writeSilenced", "writeFiring", "writeClaimed"},
                         kind : {"alert"} \cup Operations, alert : Alerts, seen : Rows]]

Idle == \A t \in Tasks : task[t].pc = "idle"
Serial == ~eventMode.overlap /\ ~eventMode.faults /\ eventMode.staffed

\* Handled one at a time, and with no operator at work, the alerts of a fingerprint leave
\* its event in the status of the last one the queue accepted, also of a message that was
\* accepted in part (MonitorAlertReceive, HandleAlert, CreateOrUpdateEvent).
EventFollowsAlerts ==
  Serial /\ eventMode.ops = {} /\ Idle /\ queue = <<>> =>
    \A f \in Fingerprints :
      lastStatus[f] # "none" =>
        /\ event[f].stored
        /\ event[f].status = StatusOf([fp |-> f, status |-> lastStatus[f]])

\* Whoever claimed an event stays recorded, whatever overlaps and fails: no write of a
\* row read earlier, and no later alert, unsets ren_ling_user_id (Updates of a struct).
ClaimantKept ==
  [][\A f \in Fingerprints : event[f].claimant # Nobody => event'[f].claimant # Nobody]_eventVars

\* While nothing overlaps or fails, the latest silence of an event can be lifted from its
\* card as long as it is active and neither an alert nor a claim came after it: the event is
\* silenced under its id; and a silenced event never names a silence that was lifted.
LastSilenceLiftable ==
  Serial /\ Idle =>
    \A f \in Fingerprints, i \in SilenceIds :
      /\ f \in untouched /\ i \in ActiveSilences(f) /\ (\A j \in SilencesOf(f) : j <= i) =>
           event[f].status = "silenced" /\ event[f].silence = i
      /\ event[f].status = "silenced" /\ event[f].silence = i => silence[i].state # "lifted"

\* A silenced event names a silence of its own alert, whatever overlaps and fails: the id is
\* written with the status, and nothing clears it (MonitorAlertSilence, UpdateMonitorAlertEvent).
SilencedHasSilence ==
  \A f \in Fingerprints : event[f].status = "silenced" => event[f].silence \in SilencesOf(f)

\* An accepted alert gets its event once the caches are loaded and while nothing fails,
\* also when two goroutines try to create it.
AcceptedIsRecorded ==
  \A f \in Fingerprints :
    (~eventMode.faults /\ eventMode.staffed /\ \E k \in DOMAIN queue : queue[k].fp = f)
      ~> event[f].stored
====
