---- MODULE WorkorderInstance ----
(***************************************************************************)
(* The work order instance engine: the handlers of instance_service.go over *)
(* the rows of cl_workorder_instance.  No handler opens a transaction, so   *)
(* each is cut at its DAO calls: one action per call, and everything the    *)
(* handler computes between two calls belongs to the earlier one.           *)
(*                                                                         *)
(* req[w] is what the goroutine serving a request keeps in its locals:      *)
(*   load -> permit -> locate -> resolve [-> backfill]        (permission)  *)
(*        [-> locate -> resolve [-> backfill]]       (Approve's second look) *)
(*        [-> plan] -> write [-> writeStatus] -> record                     *)
(* Update and Delete go from load to write; Create is load -> insert ->     *)
(* record.  The two read endpoints run the permission part only, which may  *)
(* write: GetCurrentStep fills in a missing current step.                   *)
(*                                                                         *)
(* Left out: titles, serial numbers, forms, notifications (nothing here     *)
(* reads them back), and a row's columns that only Update writes.           *)
(***************************************************************************)
EXTENDS WorkorderProcess

CONSTANTS
  Instances,       \* rows that can exist
  Workers,         \* goroutines serving requests at the same time
  Operators,       \* users that exist: they send the requests
  UserIds,         \* user ids a definition or a request names (nothing checks that
                   \* such a user exists)
  Definitions,     \* process definitions that can be stored
  CreateStatuses,  \* statuses a create request carries (the API takes all six)
  Edits,           \* [status, completed] an update request carries, Unset for no status
  Failures,        \* TRUE: a DAO call can fail, a request can be cut short
  ProcessUpdates,  \* TRUE: the process can be edited while instances run
  MaxCalls,        \* bound on the requests of a behaviour
  NoUser, Unset    \* the nil *int and the zero status of a request

ProcessSteps == [id : STRING, type : STRING, assigneeType : STRING,
                 assigneeIds : SUBSET UserIds, actions : SUBSET STRING]

ASSUME DefinitionsAssumption ==
  \A d \in Definitions :
    /\ d \in [steps : Seq(ProcessSteps), connections : Seq([from : STRING, to : STRING])]
    /\ ValidDefinition(d)

ASSUME SentinelAssumption ==
  /\ NoUser \notin Operators \cup UserIds /\ Unset \notin Statuses /\ NoStep \notin STRING
  /\ \A d \in Definitions : \A k \in DOMAIN d.steps : d.steps[k] # NoStep

ASSUME ParameterAssumption ==
  /\ CreateStatuses \subseteq Statuses
  /\ Edits \subseteq [status : Statuses \cup {Unset}, completed : BOOLEAN]
  /\ Failures \in BOOLEAN /\ ProcessUpdates \in BOOLEAN /\ MaxCalls \in Nat

VARIABLES
  process,  \* [def, published]: the row of cl_workorder_process
  row,      \* row[i]: [life, status, step, assignee, completed]
  trail,    \* trail[i]: [flow, timeline, comments] rows appended for i
  req,      \* req[w]: locals of the handler w runs
  calls     \* requests begun

vars == <<process, row, trail, req, calls>>

StepRecords == UNION {{d.steps[k] : k \in DOMAIN d.steps} : d \in Definitions}
AllStepIds  == {s.id : s \in StepRecords}

\* completed stands for a non-nil completed_at.
NoRow == [life |-> "absent", status |-> "Draft", step |-> NoStep,
          assignee |-> NoUser, completed |-> FALSE]

EmptyTrail == [flow |-> <<>>, timeline |-> 0, comments |-> 0]

\* snap is the instance the handler loaded first and will write back; seen and
\* read are what GetAvailableActions and GetCurrentStep loaded for themselves.
Idle == [pc |-> "idle", op |-> "none", inst |-> "none", user |-> NoUser,
         target |-> NoUser, snap |-> NoRow, seen |-> NoRow, read |-> NoRow,
         step |-> NoStep, second |-> FALSE, from |-> "Draft", to |-> "Draft"]

ReadOps     == {"actions", "current-step"}
CreateOps   == {"create", "create-from-template"}
RowWriteOps == {"submit", "approve", "complete", "return", "update"}

LogOutcomes == IF Failures THEN BOOLEAN ELSE {TRUE}

Live(i) == row[i].life = "live"

\* Mutant: Select("*").Updates(struct), every column written.
MergeEveryColumn(old, new) ==
  [old EXCEPT !.status = new.status, !.step = new.step,
              !.assignee = new.assignee, !.completed = new.completed]

\* Updates(struct): zero fields of the struct are not written.
MergeNonZero(old, new) ==
  [old EXCEPT !.status    = IF new.status = Unset THEN @ ELSE new.status,
              !.step      = IF new.step = NoStep THEN @ ELSE new.step,
              !.assignee  = IF new.assignee = NoUser THEN @ ELSE new.assignee,
              !.completed = @ \/ new.completed]

\* Mutant: Unscoped(), the soft delete filters nothing.
UpdateUnscoped(i, new) ==
  row' = [row EXCEPT ![i] = MergeNonZero(@, new)]

\* dao.UpdateInstance: a deleted row matches nothing and is an error.
UpdateInstance(i, new) ==
  row' = [row EXCEPT ![i] = IF Live(i) THEN MergeNonZero(@, new) ELSE @]

Init ==
  /\ process \in [def : Definitions, published : {TRUE}]
  /\ row = [i \in Instances |-> NoRow]
  /\ trail = [i \in Instances |-> EmptyTrail]
  /\ req = [w \in Workers |-> Idle]
  /\ calls = 0

Begin(w, r) ==
  /\ req[w].pc = "idle"
  /\ calls < MaxCalls
  /\ calls' = calls + 1
  /\ req' = [req EXCEPT ![w] = r]
  /\ UNCHANGED <<process, row, trail>>

\* Every action but the first of a request.
Advance(w, r) == req' = [req EXCEPT ![w] = r] /\ UNCHANGED calls

(***************************************************************************)
(* CreateInstance and CreateInstanceFromTemplate: the process is read, the  *)
(* row is prepared, and inserted later.                                     *)
(***************************************************************************)
InitialStepId(op, status) ==
  IF op = "create-from-template" THEN NoStep
  ELSE IF status = "Draft" THEN StartStep(process.def).id
  ELSE FirstRealStep(process.def).id

\* i is the id the insert will produce: no other create is about to use it.
PrepareCreate(w, i) ==
  \E op \in CreateOps, u \in Operators, target \in UserIds \cup {NoUser}, status \in CreateStatuses :
    /\ process.published
    /\ row[i].life = "absent" /\ \A v \in Workers : req[v].inst # i
    /\ op = "create-from-template" => status = "Draft"
    /\ Begin(w, [Idle EXCEPT !.pc = "insert", !.op = op, !.inst = i, !.user = u,
                   !.to = status,
                   !.snap = [life |-> "live", status |-> status,
                             step |-> InitialStepId(op, status),
                             assignee |-> target, completed |-> FALSE]])

Insert(w) ==
  /\ req[w].pc = "insert"
  /\ row' = [row EXCEPT ![req[w].inst] = req[w].snap]
  /\ Advance(w, [req[w] EXCEPT !.pc = "record"])
  /\ UNCHANGED <<process, trail>>

(***************************************************************************)
(* The first read of a handler and its status guard.  A request the guard   *)
(* turns away has changed nothing and is no step.                           *)
(***************************************************************************)
Load(w, i) ==
  \E op \in FlowActions, u \in Operators, target \in UserIds \cup {NoUser} :
    /\ Live(i)
    /\ StatusAllows(op, row[i].status)
    /\ target # NoUser <=> op = "assign"
    /\ Begin(w, [Idle EXCEPT !.pc = "permit", !.op = op, !.inst = i, !.user = u,
                   !.target = target, !.snap = row[i], !.from = row[i].status])

\* Update builds a fresh instance from the request; unset fields stay zero.
LoadForUpdate(w, i) ==
  \E e \in Edits, assignee \in UserIds \cup {NoUser} :
    /\ Live(i)
    /\ StatusAllows("update", row[i].status)
    /\ Begin(w, [Idle EXCEPT !.pc = "write", !.op = "update", !.inst = i,
                   !.snap = [life |-> "live", status |-> e.status, step |-> NoStep,
                             assignee |-> assignee, completed |-> e.completed]])

LoadForDelete(w, i) ==
  /\ Live(i)
  /\ StatusAllows("delete", row[i].status)
  /\ Begin(w, [Idle EXCEPT !.pc = "write", !.op = "delete", !.inst = i])

Query(w, i) ==
  \E op \in ReadOps, u \in Operators :
    Begin(w, [Idle EXCEPT !.pc = IF op = "actions" THEN "permit" ELSE "locate",
                          !.op = op, !.inst = i, !.user = u])

(***************************************************************************)
(* GetAvailableActions: its own read gives the status and assignee that     *)
(* decide, then GetCurrentStep reads the instance again, then the process.  *)
(***************************************************************************)
ReadPermit(w) ==
  LET q == req[w] IN
  /\ q.pc = "permit"
  /\ IF Live(q.inst)
     THEN Advance(w, [q EXCEPT !.pc = "locate", !.seen = row[q.inst]])
     ELSE Advance(w, Idle)
  /\ UNCHANGED <<process, row, trail>>

ReadLocate(w) ==
  LET q == req[w] IN
  /\ q.pc = "locate"
  /\ IF Live(q.inst)
     THEN Advance(w, [q EXCEPT !.pc = "resolve", !.read = row[q.inst]])
     ELSE Advance(w, Idle)
  /\ UNCHANGED <<process, row, trail>>

Permitted(q) ==
  /\ canUserOperate(q.step, q.user, q.seen.assignee)
  /\ q.op \in getActionsForStep(q.step, q.seen.status)

\* What follows GetCurrentStep, q.step being the step it returned.
AfterCurrentStep(q) ==
  LET r == [q EXCEPT !.seen = NoRow, !.read = NoRow] IN
  IF q.op \in ReadOps \/ (~q.second /\ ~Permitted(q)) THEN Idle
  ELSE IF q.op = "submit" \/ (q.op = "approve" /\ q.second) THEN [r EXCEPT !.pc = "plan"]
  ELSE IF q.op = "approve" THEN [r EXCEPT !.pc = "locate", !.second = TRUE]
  ELSE [r EXCEPT !.pc = "write", !.step = NoStep]

Resolve(w) ==
  LET q == [req[w] EXCEPT !.step = LocateStep(process.def, req[w].read.step, req[w].read.status)]
  IN
  /\ q.pc = "resolve"
  /\ Advance(w, IF q.read.step = NoStep THEN [q EXCEPT !.pc = "backfill"]
                 ELSE AfterCurrentStep(q))
  /\ UNCHANGED <<process, row, trail>>

\* GetCurrentStep stores the step it found for a row without one, by writing
\* back the whole row it read.  An error is logged and the request goes on.
Backfill(w) ==
  LET q == req[w] IN
  /\ q.pc = "backfill"
  /\ \E ok \in LogOutcomes :
       IF ok THEN UpdateInstance(q.inst, [q.read EXCEPT !.step = q.step.id])
       ELSE UNCHANGED row
  /\ Advance(w, AfterCurrentStep(q))
  /\ UNCHANGED <<process, trail>>

(***************************************************************************)
(* The second reading of the process, in Submit and in Approve.             *)
(***************************************************************************)
ApproveStatus(next) ==
  IF next = NoStep THEN "Completed" ELSE getStatusForStep(next)

\* Mutants of Planned: Submit leaves the step where it was; Approve forgets
\* the completion time.
PlannedSubmitKeepsStep(q) ==
  LET next == getNextStep(process.def, q.step)
      to == IF q.op = "submit" THEN "Pending" ELSE ApproveStatus(next)
  IN  [q EXCEPT !.pc = "write", !.step = NoStep, !.to = to,
                !.snap.status = to,
                !.snap.step = IF q.op = "submit" THEN @
                              ELSE IF next = NoStep THEN NoStep ELSE next.id,
                !.snap.completed = @ \/ (q.op = "approve" /\ to = "Completed")]

PlannedWithoutTime(q) ==
  LET next == IF q.op = "submit" THEN FirstRealStep(process.def)
              ELSE getNextStep(process.def, q.step)
      to == IF q.op = "submit" THEN "Pending" ELSE ApproveStatus(next)
  IN  [q EXCEPT !.pc = "write", !.step = NoStep, !.to = to,
                !.snap.status = to,
                !.snap.step = IF next = NoStep THEN NoStep ELSE next.id]

Planned(q) ==
  LET next == IF q.op = "submit" THEN FirstRealStep(process.def)
              ELSE getNextStep(process.def, q.step)
      to == IF q.op = "submit" THEN "Pending" ELSE ApproveStatus(next)
  IN  [q EXCEPT !.pc = "write", !.step = NoStep, !.to = to,
                !.snap.status = to,
                !.snap.step = IF next = NoStep THEN NoStep ELSE next.id,
                !.snap.completed = @ \/ (q.op = "approve" /\ to = "Completed")]

Plan(w) ==
  /\ req[w].pc = "plan"
  /\ Advance(w, Planned(req[w]))
  /\ UNCHANGED <<process, row, trail>>

(***************************************************************************)
(* The writes.                                                              *)
(***************************************************************************)
\* The instance a handler hands to UpdateInstance.
RowToWrite(q) ==
  CASE q.op = "complete" -> [q.snap EXCEPT !.status = "Completed", !.completed = TRUE]
    [] q.op = "return"   -> [q.snap EXCEPT !.status = "Draft", !.assignee = NoUser]
    [] OTHER             -> q.snap

TargetStatus(op) ==
  CASE op = "assign"   -> "Processing"
    [] op = "reject"   -> "Rejected"
    [] op = "cancel"   -> "Cancelled"
    [] op = "complete" -> "Completed"
    [] op = "return"   -> "Draft"

\* After a write that found the row (or did not: the handler returns the error).
AfterWrite(q) ==
  IF ~Live(q.inst) \/ q.op \in {"update", "delete"} THEN Idle
  ELSE [q EXCEPT !.pc = "record", !.snap = NoRow, !.target = NoUser,
                 !.to = IF q.op \in {"submit", "approve"} THEN @ ELSE TargetStatus(q.op)]

WriteRow(w) ==
  LET q == req[w] IN
  /\ q.pc = "write" /\ q.op \in RowWriteOps
  /\ UpdateInstance(q.inst, RowToWrite(q))
  /\ Advance(w, AfterWrite(q))
  /\ UNCHANGED <<process, trail>>

\* dao.UpdateInstanceAssignee, the first of Assign's two writes.
WriteAssignee(w) ==
  LET q == req[w] IN
  /\ q.pc = "write" /\ q.op = "assign"
  /\ row' = [row EXCEPT ![q.inst].assignee = IF Live(q.inst) THEN q.target ELSE @]
  /\ Advance(w, IF Live(q.inst) THEN [q EXCEPT !.pc = "writeStatus"] ELSE Idle)
  /\ UNCHANGED <<process, trail>>

\* dao.UpdateInstanceStatus.
WriteStatus(w) ==
  LET q == req[w] IN
  /\ \/ q.pc = "write" /\ q.op \in {"reject", "cancel"}
     \/ q.pc = "writeStatus" /\ q.op = "assign"
  /\ row' = [row EXCEPT ![q.inst].status = IF Live(q.inst) THEN TargetStatus(q.op) ELSE @]
  /\ Advance(w, AfterWrite(q))
  /\ UNCHANGED <<process, trail>>

Delete(w) ==
  LET q == req[w] IN
  /\ q.pc = "write" /\ q.op = "delete"
  /\ row' = [row EXCEPT ![q.inst].life = IF Live(q.inst) THEN "deleted" ELSE @]
  /\ Advance(w, Idle)
  /\ UNCHANGED <<process, trail>>

(***************************************************************************)
(* The tail of a handler: flow record, timeline entry, system comment.      *)
(* Each is a separate insert whose failure is only logged; nothing reads    *)
(* them in between, so they are one action.                                 *)
(***************************************************************************)
FlowAction(op) == IF op \in CreateOps THEN "submit" ELSE op

\* Mutant: the status is read for the record after the snapshot was changed.
FlowOfWritten(q) == [action |-> FlowAction(q.op), from |-> q.to, to |-> q.to]

FlowOf(q) == [action |-> FlowAction(q.op), from |-> q.from, to |-> q.to]

Comments(op) == IF op \in {"submit", "assign"} \cup CreateOps THEN {0} ELSE {0, 1}

Record(w) ==
  LET q == req[w] IN
  /\ q.pc = "record"
  /\ \E flowed, timed \in LogOutcomes, comment \in Comments(q.op) :
       trail' = [trail EXCEPT ![q.inst] =
                   [flow     |-> IF flowed THEN Append(@.flow, FlowOf(q)) ELSE @.flow,
                    timeline |-> @.timeline + (IF timed THEN 1 ELSE 0),
                    comments |-> @.comments + comment]]
  /\ Advance(w, Idle)
  /\ UNCHANGED <<process, row>>

\* A DAO call fails, the client goes away, or the server stops.
Abort(w) ==
  /\ Failures
  /\ req[w].pc # "idle"
  /\ Advance(w, Idle)
  /\ UNCHANGED <<process, row, trail>>

\* UpdateWorkorderProcess: no check of the instances that run on the process.
UpdateProcess ==
  /\ ProcessUpdates
  /\ \E d \in Definitions, p \in BOOLEAN :
       process' = [def |-> d, published |-> p]
  /\ UNCHANGED <<row, trail, req, calls>>

Step(w) ==
  \/ Insert(w)
  \/ ReadPermit(w)
  \/ ReadLocate(w)
  \/ Resolve(w)
  \/ Backfill(w)
  \/ Plan(w)
  \/ WriteRow(w)
  \/ WriteAssignee(w)
  \/ WriteStatus(w)
  \/ Delete(w)
  \/ Record(w)

Next ==
  \/ \E w \in Workers, i \in Instances :
       \/ PrepareCreate(w, i)
       \/ Load(w, i)
       \/ LoadForUpdate(w, i)
       \/ LoadForDelete(w, i)
       \/ Query(w, i)
  \/ \E w \in Workers : Step(w) \/ Abort(w)
  \/ UpdateProcess

Spec == Init /\ [][Next]_vars

(***************************************************************************)
(* Properties.                                                              *)
(***************************************************************************)
Rows == [life : {"absent", "live", "deleted"}, status : Statuses,
         step : AllStepIds \cup {NoStep}, assignee : UserIds \cup {NoUser},
         completed : BOOLEAN]

FlowRecords == [action : FlowActions, from : Statuses, to : Statuses]

Phases == {"idle", "insert", "permit", "locate", "resolve", "backfill", "plan",
           "write", "writeStatus", "record"}

Operations == FlowActions \cup ReadOps \cup CreateOps \cup {"update", "delete", "none"}

\* What a handler may hand to UpdateInstance: a loaded row, or Update's own.
Snapshots == Rows \cup [life : {"live"}, status : {Unset}, step : {NoStep},
                       assignee : UserIds \cup {NoUser}, completed : BOOLEAN]

Requests ==
  [pc : Phases, op : Operations, inst : Instances \cup {"none"},
   user : Operators \cup {NoUser}, target : UserIds \cup {NoUser},
   snap : Snapshots, seen : Rows, read : Rows, step : StepRecords \cup {NoStep},
   second : BOOLEAN, from : Statuses, to : Statuses]

\* Every variable keeps its type; a stored row never holds the zero status.
TypeOK ==
  /\ process \in [def : Definitions, published : BOOLEAN]
  /\ row \in [Instances -> Rows]
  /\ trail \in [Instances -> [flow : Seq(FlowRecords), timeline : Nat, comments : Nat]]
  /\ req \in [Workers -> Requests]
  /\ calls \in Nat

\* What a request knows in each phase (the strengthening of TypeOK that the
\* proofs induct on).
PhaseOK(w) ==
  LET q == req[w] IN
  /\ q.pc # "idle" => q.inst \in Instances
  /\ q.pc = "insert" =>
       /\ q.op \in CreateOps /\ q.snap \in Rows /\ q.snap.life = "live"
       /\ row[q.inst].life = "absent"
       /\ \A v \in Workers : req[v].pc = "insert" /\ req[v].inst = q.inst => v = w
  /\ q.pc \in {"permit", "locate", "resolve", "backfill"} => q.op \in FlowActions \cup ReadOps
  /\ q.pc = "plan" => q.op \in {"submit", "approve"}
  /\ q.pc = "write" => q.op \in FlowActions \cup {"update", "delete"}
  /\ q.pc = "record" => q.op \in FlowActions \cup CreateOps
  /\ q.pc \in {"resolve", "backfill", "plan", "write", "writeStatus", "record"} =>
       row[q.inst].life # "absent"
  /\ q.pc = "backfill" => q.step \in StepRecords
  /\ q.op = "assign" /\ q.pc # "record" => q.target # NoUser
  /\ q.pc = "writeStatus" => q.op = "assign" /\ row[q.inst].assignee # NoUser

Core == TypeOK /\ \A w \in Workers : PhaseOK(w)

\* w writes the whole row of i for op.
Writes(w, i, op) == WriteRow(w) /\ req[w].inst = i /\ req[w].op = op

\* However stale the row a handler writes back, it takes away nothing another
\* request stored unless that is its purpose: only a return may take away the
\* assignee, only the approval that ends the flow the current step, nothing
\* the completion time.  (Updates leaves out zero fields.)
ClearedOnPurpose ==
  [][\A i \in Instances : row[i].life # "absent" =>
       /\ row[i].assignee # NoUser /\ row'[i].assignee = NoUser =>
            \E w \in Workers : Writes(w, i, "return")
       /\ row[i].step # NoStep /\ row'[i].step = NoStep =>
            \E w \in Workers : Writes(w, i, "approve") /\ req[w].to = "Completed"
       /\ row[i].completed => row'[i].completed]_vars

\* No handler that loaded an instance before its deletion writes to it after
\* (Updates and the map updates are filtered by the soft delete).
DeletedIsFrozen ==
  [][\A i \in Instances : row[i].life = "deleted" => row'[i] = row[i]]_vars

\* Whatever overlaps, an instance that is Completed has its completion time:
\* Approve and Complete store both in one write and no write takes it away.
\* (Instances created or edited straight into Completed are set aside by the
\* configuration: CreateInstance stores no completion time.)
CompletedHasTime ==
  \A i \in Instances : row[i].status = "Completed" => row[i].completed

\* Assign's second write finds the instance with an assignee, even if Return,
\* Update or another Assign ran between its two writes.
AssignedBeforeProcessing ==
  \A w \in Workers : req[w].pc = "writeStatus" => row[req[w].inst].assignee # NoUser

\* Completed and Cancelled are final, Rejected can only be cancelled (a step
\* may list "cancel" among its actions): the status guards at the head of the
\* handlers.  True as long as requests do not overlap.
TerminalIsFinal ==
  [][\A i \in Instances : Live(i) =>
       /\ row[i].status \in {"Completed", "Cancelled"} => row'[i].status = row[i].status
       /\ row[i].status = "Rejected" => row'[i].status \in {"Rejected", "Cancelled"}]_vars

Quiet(i) == \A w \in Workers : req[w].inst # i

\* When no handler is under way the flow records of an instance tell its whole
\* life: a chain of legal moves from Draft to the status the row has.
TrailExplainsStatus ==
  \A i \in Instances : row[i].life # "absent" /\ Quiet(i) =>
    LET f == trail[i].flow IN
    /\ f # <<>>
    /\ f[1].from = "Draft" /\ f[Len(f)].to = row[i].status
    /\ \A k \in 2..Len(f) : f[k].from = f[k - 1].to /\ StatusAllows(f[k].action, f[k].from)

\* Some user has an action on i that the step lists and the status allows.
SomebodyCanAct(i, s) ==
  \E u \in Operators, op \in FlowActions :
    /\ StatusAllows(op, row[i].status)
    /\ canUserOperate(s, u, row[i].assignee)
    /\ op \in getActionsForStep(s, row[i].status)

\* Whatever its process was edited to, an instance that is not finished is stuck
\* in one case only, and then it is: its step names users, and neither they
\* nor the assignee exist (any more).  The empty-list rule and the fallbacks
\* of the step search are there for all other cases.
StuckOnMissingUsersOnly ==
  \A i \in Instances : Live(i) /\ row[i].status \in {"Draft"} \cup OpenStatuses =>
    LET s == LocateStep(process.def, row[i].step, row[i].status) IN
    ~SomebodyCanAct(i, s) <=>
      /\ s.assigneeType = "user" /\ s.assigneeIds # {}
      /\ (s.assigneeIds \cup {row[i].assignee}) \cap Operators = {}

\* The engine implements the lifecycle of whole operations.
Lifecycle == INSTANCE WorkorderLifecycle WITH
  def <- process.def,
  order <- [i \in Instances |->
    [status |-> CASE row[i].life = "absent" -> "None"
                  [] row[i].life = "live"   -> row[i].status
                  [] OTHER                  -> "Gone",
     step |-> row[i].step]]

RefinesLifecycle == Lifecycle!Spec

(***************************************************************************)
(* What the code says of itself and does not do.                            *)
(***************************************************************************)
\* ReturnInstance: "set the order to draft, clear the assignee".
ReturnClearsAssignee ==
  [][\A w \in Workers, i \in Instances :
       Writes(w, i, "return") /\ Live(i) => row'[i].assignee = NoUser]_vars

\* CancelInstance: "a completed or cancelled order cannot be cancelled again".
FinishedNeverCancelled ==
  [][\A i \in Instances :
       Live(i) /\ row[i].status = "Completed" => row'[i].status # "Cancelled"]_vars

====
