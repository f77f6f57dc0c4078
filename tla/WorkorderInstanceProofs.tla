---- MODULE WorkorderInstanceProofs ----
(***************************************************************************)
(* Theorems of WorkorderInstance, for any sets of instances, workers, users *)
(* and valid definitions.                                                   *)
(***************************************************************************)
EXTENDS WorkorderInstance, WellFoundedInduction, TLAPS

(***************************************************************************)
(* Searching a definition.                                                  *)
(***************************************************************************)
\* A non-empty set of naturals has a least element: the "first match" exists.
LEMMA LeastNat ==
  ASSUME NEW K \in SUBSET Nat, K # {}
  PROVE  \E k \in K : \A m \in K : k <= m
<1> DEFINE R == OpToRel(<, Nat)
<1>1. IsWellFoundedOn(R, Nat)
  BY NatLessThanWellFounded, Zenon
<1>2. \A a, b \in Nat : <<a, b>> \in R <=> a < b
  BY DEF OpToRel
<1> HIDE DEF R
<1>3. PICK x \in K : \A y \in K : ~(<<y, x>> \in R)
  BY <1>1, WFMin, Zenon
<1>4. x \in Nat /\ \A y \in K : y \in Nat /\ ~(y < x)
  BY <1>2, <1>3, Zenon
<1>5. \A y \in K : x <= y
  BY <1>4
<1> QED BY <1>5

\* The first match of a search with a match is a step at a matching index.
LEMMA FirstStepFound ==
  ASSUME NEW d \in Definitions, NEW K \in SUBSET DOMAIN d.steps, K # {}
  PROVE  /\ FirstStep(d, K) \in StepRecords
         /\ \E k \in K : FirstStep(d, K) = d.steps[k]
<1>1. DOMAIN d.steps \subseteq Nat
  BY DefinitionsAssumption
<1>2. \E k \in K : \A m \in K : k <= m
  BY <1>1, LeastNat
<1> DEFINE k0 == CHOOSE k \in K : \A m \in K : k <= m
<1>3. k0 \in K
  BY <1>2
<1>4. FirstStep(d, K) = d.steps[k0]
  BY DEF FirstStep
<1> HIDE DEF k0
<1>5. d.steps[k0] \in StepRecords
  BY <1>3 DEF StepRecords
<1> QED BY <1>3, <1>4, <1>5

\* A step record is never the nil step and its id is a step id.
LEMMA StepRecordFacts ==
  ASSUME NEW s \in StepRecords
  PROVE  s # NoStep /\ s.id \in AllStepIds /\ s.id # NoStep
<1>1. PICK d \in Definitions : \E k \in DOMAIN d.steps : s = d.steps[k]
  BY DEF StepRecords
<1>2. s # NoStep
  BY <1>1, SentinelAssumption
<1>3. s.id \in STRING
  <2>1. d.steps \in Seq(ProcessSteps)
    BY DefinitionsAssumption
  <2>2. s \in ProcessSteps
    BY <1>1, <2>1
  <2> QED BY <2>2 DEF ProcessSteps
<1>4. s.id # NoStep
  BY <1>3, SentinelAssumption
<1> QED BY <1>2, <1>4 DEF AllStepIds

\* A valid definition has a start step and a step that is not one.
LEMMA EntrySteps ==
  ASSUME NEW d \in Definitions
  PROVE  StartStep(d) \in StepRecords /\ FirstRealStep(d) \in StepRecords
<1>1. ValidDefinition(d)
  BY DefinitionsAssumption
<1>2. StepsOfType(d, {"start"}) # {} /\ StepsOfType(d, {"start"}) \subseteq DOMAIN d.steps
  BY <1>1 DEF ValidDefinition, StepsOfType
<1>3. {k \in DOMAIN d.steps : d.steps[k].type # "start"} # {}
  BY <1>1 DEF ValidDefinition
<1>4. StartStep(d) \in StepRecords
  BY <1>2, FirstStepFound DEF StartStep
<1>5. FirstRealStep(d) \in StepRecords
  BY <1>3, FirstStepFound DEF FirstRealStep
<1> QED BY <1>4, <1>5

\* A search by id, and the successor of a step, is a step or nil.
LEMMA SearchResults ==
  ASSUME NEW d \in Definitions, NEW x
  PROVE  /\ StepById(d, x) \in StepRecords \cup {NoStep}
         /\ getNextStep(d, x) \in StepRecords \cup {NoStep}
<1>1. \A y : StepById(d, y) \in StepRecords \cup {NoStep}
  <2> TAKE y
  <2> DEFINE K == {k \in DOMAIN d.steps : d.steps[k].id = y}
  <2>1. CASE K = {}
    BY <2>1 DEF StepById, FirstStep
  <2>2. CASE K # {}
    BY <2>2, FirstStepFound DEF StepById
  <2> QED BY <2>1, <2>2
<1>2. getNextStep(d, x) \in StepRecords \cup {NoStep}
  BY <1>1 DEF getNextStep
<1> QED BY <1>1, <1>2

\* GetCurrentStep always finds a step: this is what its fallback is for.
LEMMA LocateStepFound ==
  ASSUME NEW d \in Definitions, NEW x, NEW status
  PROVE  LocateStep(d, x, status) \in StepRecords
<1>1. findStepByStatus(d, status) \in StepRecords
  <2> DEFINE K == StepsOfType(d, TypesForStatus(status))
  <2>1. K \subseteq DOMAIN d.steps
    BY DEF StepsOfType
  <2>2. CASE K = {}
    <3>1. 1 \in DOMAIN d.steps
      BY DefinitionsAssumption DEF ValidDefinition
    <3> QED BY <2>2, <3>1 DEF findStepByStatus, StepRecords
  <2>3. CASE K # {}
    BY <2>1, <2>3, FirstStepFound DEF findStepByStatus
  <2> QED BY <2>2, <2>3
<1>2. StepById(d, x) \in StepRecords \cup {NoStep}
  BY SearchResults
<1> QED BY <1>1, <1>2 DEF LocateStep

LEMMA StepStatus ==
  ASSUME NEW s
  PROVE  getStatusForStep(s) \in Statuses /\ ApproveStatus(s) \in Statuses
BY DEF getStatusForStep, ApproveStatus, Statuses

(***************************************************************************)
(* What a write can do to a row.                                            *)
(***************************************************************************)
\* One row after a step: nothing stored is taken away, a deletion is final.
Kept(old, new) == old.life # "absent" =>
  /\ new.life # "absent"
  /\ old.life = "deleted" => new = old
  /\ old.assignee # NoUser => new.assignee # NoUser
  /\ old.step # NoStep => new.step # NoStep
  /\ old.completed => new.completed

\* What a step may do to the rows: keep what is stored; create by Insert only.
RowsKept ==
  /\ row' \in [Instances -> Rows]
  /\ \A j \in Instances :
       /\ Kept(row[j], row'[j])
       /\ row[j].life = "absent" =>
            \/ row'[j].life = "absent"
            \/ \E w \in Workers : req[w].inst = j /\ req[w].pc = "insert" /\ Insert(w)

\* dao.UpdateInstance keeps the type of the row and everything it stores.
LEMMA MergeKeeps ==
  ASSUME NEW old \in Rows, NEW new \in Snapshots
  PROVE  /\ MergeNonZero(old, new) \in Rows
         /\ MergeNonZero(old, new).life = old.life
         /\ old.assignee # NoUser => MergeNonZero(old, new).assignee # NoUser
         /\ old.step # NoStep => MergeNonZero(old, new).step # NoStep
         /\ old.completed => MergeNonZero(old, new).completed
<1>1. /\ new.status \in Statuses \cup {Unset} /\ new.step \in AllStepIds \cup {NoStep}
      /\ new.assignee \in UserIds \cup {NoUser} /\ new.completed \in BOOLEAN
  BY DEF Snapshots, Rows
<1> QED BY <1>1 DEF MergeNonZero, Rows

LEMMA UpdateKeeps ==
  ASSUME TypeOK, NEW i \in Instances, NEW new \in Snapshots, UpdateInstance(i, new)
  PROVE  RowsKept
<1>1. row \in [Instances -> Rows]
  BY DEF TypeOK
<1>2. row'[i] \in Rows /\ Kept(row[i], row'[i]) /\ row'[i].life = row[i].life
  BY <1>1, MergeKeeps DEF UpdateInstance, Live, Kept
<1>3. \A j \in Instances : j # i => row'[j] = row[j]
  BY <1>1 DEF UpdateInstance
<1> QED BY <1>1, <1>2, <1>3 DEF UpdateInstance, Kept, RowsKept

LEMMA UnchangedKeeps ==
  ASSUME TypeOK, UNCHANGED row
  PROVE  RowsKept
BY DEF TypeOK, Kept, RowsKept

\* The row a request writes back has a type, whatever its snapshot.
LEMMA RowToWriteType ==
  ASSUME NEW q \in Requests
  PROVE  RowToWrite(q) \in Snapshots
<1>1. q.snap \in Snapshots
  BY DEF Requests
<1>2. CASE q.op = "complete"
  BY <1>1, <1>2 DEF RowToWrite, Snapshots, Rows, Statuses
<1>3. CASE q.op = "return"
  BY <1>1, <1>3 DEF RowToWrite, Snapshots, Rows, Statuses
<1> QED BY <1>1, <1>2, <1>3 DEF RowToWrite

\* The request an action of w works for is typed and knows what its phase says.
LEMMA RequestFacts ==
  ASSUME Core, NEW w \in Workers
  PROVE  req[w] \in Requests /\ PhaseOK(w)
BY DEF Core, TypeOK

\* Every step of the engine keeps the rows.
LEMMA NextKeepsRows ==
  ASSUME Core, [Next]_vars
  PROVE  RowsKept
<1> USE DEF Core
<1>1. ASSUME NEW w \in Workers, NEW i \in Instances,
             PrepareCreate(w, i) \/ Load(w, i) \/ LoadForUpdate(w, i) \/ LoadForDelete(w, i) \/ Query(w, i)
      PROVE  RowsKept
  BY <1>1, UnchangedKeeps DEF PrepareCreate, Load, LoadForUpdate, LoadForDelete, Query, Begin
<1>2. ASSUME NEW w \in Workers,
             ReadPermit(w) \/ ReadLocate(w) \/ Resolve(w) \/ Plan(w) \/ Record(w) \/ Abort(w)
      PROVE  RowsKept
  BY <1>2, UnchangedKeeps DEF ReadPermit, ReadLocate, Resolve, Plan, Record, Abort
<1>3. ASSUME NEW w \in Workers, Insert(w)
      PROVE  RowsKept
  <2>1. /\ req[w].pc = "insert" /\ req[w].inst \in Instances /\ req[w].snap \in Rows
        /\ row[req[w].inst].life = "absent"
    BY <1>3, RequestFacts DEF PhaseOK, Insert
  <2>2. row' = [row EXCEPT ![req[w].inst] = req[w].snap]
    BY <1>3 DEF Insert
  <2>3. row \in [Instances -> Rows]
    BY DEF TypeOK
  <2> QED BY <1>3, <2>1, <2>2, <2>3 DEF RowsKept, Kept
<1>4. ASSUME NEW w \in Workers, Backfill(w)
      PROVE  RowsKept
  <2>1. /\ req[w] \in Requests /\ req[w].inst \in Instances
        /\ req[w].step \in StepRecords
    BY <1>4, RequestFacts DEF PhaseOK, Backfill
  <2>2. [req[w].read EXCEPT !.step = req[w].step.id] \in Snapshots
    <3>1. req[w].read \in Rows /\ req[w].step.id \in AllStepIds
      BY <2>1, StepRecordFacts DEF Requests
    <3> QED BY <3>1 DEF Rows, Snapshots
  <2>3. UNCHANGED row \/ UpdateInstance(req[w].inst, [req[w].read EXCEPT !.step = req[w].step.id])
    BY <1>4 DEF Backfill
  <2> QED BY <2>1, <2>2, <2>3, UpdateKeeps, UnchangedKeeps
<1>5. ASSUME NEW w \in Workers, WriteRow(w)
      PROVE  RowsKept
  <2>1. req[w] \in Requests /\ req[w].inst \in Instances
    BY <1>5, RequestFacts DEF PhaseOK, WriteRow
  <2>2. UpdateInstance(req[w].inst, RowToWrite(req[w]))
    BY <1>5 DEF WriteRow
  <2> QED BY <2>1, <2>2, UpdateKeeps, RowToWriteType
<1>6. ASSUME NEW w \in Workers, WriteAssignee(w) \/ WriteStatus(w) \/ Delete(w)
      PROVE  RowsKept
  <2> DEFINE i == req[w].inst
  <2>1. /\ req[w].inst \in Instances /\ req[w].target \in UserIds \cup {NoUser}
        /\ WriteAssignee(w) => req[w].target # NoUser
    BY <1>6, RequestFacts DEF PhaseOK, WriteAssignee, WriteStatus, Delete, Requests
  <2>2. row \in [Instances -> Rows]
    BY DEF TypeOK
  <2>3. WriteStatus(w) => TargetStatus(req[w].op) \in Statuses
    BY DEF WriteStatus, TargetStatus, Statuses
  <2>4. CASE WriteAssignee(w)
    <3>1. row' = [row EXCEPT ![i].assignee = IF Live(i) THEN req[w].target ELSE @]
      BY <2>4 DEF WriteAssignee
    <3> QED BY <2>1, <2>2, <2>4, <3>1 DEF RowsKept, Kept, Rows, Live
  <2>5. CASE WriteStatus(w)
    <3>1. row' = [row EXCEPT ![i].status = IF Live(i) THEN TargetStatus(req[w].op) ELSE @]
      BY <2>5 DEF WriteStatus
    <3> QED BY <2>1, <2>2, <2>3, <2>5, <3>1 DEF RowsKept, Kept, Rows, Live
  <2>6. CASE Delete(w)
    <3>1. row' = [row EXCEPT ![i].life = IF Live(i) THEN "deleted" ELSE @]
      BY <2>6 DEF Delete
    <3> QED BY <2>1, <2>2, <3>1 DEF RowsKept, Kept, Rows, Live
  <2> QED BY <1>6, <2>4, <2>5, <2>6
<1>7. CASE UpdateProcess \/ UNCHANGED vars
  BY <1>7, UnchangedKeeps DEF UpdateProcess, vars
<1> QED BY <1>1, <1>2, <1>3, <1>4, <1>5, <1>6, <1>7 DEF Next, Step

(***************************************************************************)
(* Types and phases.                                                        *)
(***************************************************************************)
\* A step that changes the locals of w alone leaves every other request's
\* phase facts true; what is left to show concerns w.
LEMMA OneRequest ==
  ASSUME Core, [Next]_vars, NEW w \in Workers, NEW r \in Requests,
         req' = [req EXCEPT ![w] = r],
         r.pc = "insert" => \A v \in Workers : v # w => req[v].inst # r.inst,
         PhaseOK(w)'
  PROVE  req' \in [Workers -> Requests] /\ \A v \in Workers : PhaseOK(v)'
<1>1. req \in [Workers -> Requests] /\ row \in [Instances -> Rows]
  BY DEF Core, TypeOK
<1>2. req' \in [Workers -> Requests] /\ req'[w] = r
  BY <1>1
<1>3. RowsKept
  BY NextKeepsRows
<1>4. ASSUME NEW v \in Workers, v # w
      PROVE  PhaseOK(v)'
  <2>1. req'[v] = req[v] /\ PhaseOK(v)
    BY <1>1, <1>4, RequestFacts
  <2>2. req[v].pc = "insert" => row'[req[v].inst].life = "absent"
    <3> SUFFICES ASSUME req[v].pc = "insert"
                 PROVE  row'[req[v].inst].life = "absent"
      OBVIOUS
    <3>1. req[v].inst \in Instances /\ row[req[v].inst].life = "absent"
      BY <2>1 DEF PhaseOK
    <3>2. ASSUME NEW u \in Workers, req[u].inst = req[v].inst, req[u].pc = "insert", Insert(u)
          PROVE  FALSE
      <4>1. u = v
        BY <2>1, <3>2 DEF PhaseOK
      <4>2. req'[v].pc = "record"
        BY <1>1, <3>2, <4>1 DEF Insert, Advance, Requests
      <4> QED BY <2>1, <4>2
    <3> QED BY <1>3, <3>1, <3>2 DEF RowsKept
  <2>3. req[v].pc = "insert" =>
          \A u \in Workers : req'[u].pc = "insert" /\ req'[u].inst = req'[v].inst => u = v
    <3> SUFFICES ASSUME req[v].pc = "insert", NEW u \in Workers,
                        req'[u].pc = "insert", req'[u].inst = req'[v].inst
                 PROVE  u = v
      OBVIOUS
    <3>1. CASE u = w
      BY <1>2, <1>4, <2>1, <3>1
    <3>2. CASE u # w
      BY <1>1, <2>1, <3>2 DEF PhaseOK
    <3> QED BY <3>1, <3>2
  <2>4. req[v].inst \in Instances => Kept(row[req[v].inst], row'[req[v].inst])
    BY <1>3 DEF RowsKept
  <2> QED BY <2>1, <2>2, <2>3, <2>4 DEF PhaseOK, Kept
<1> QED BY <1>2, <1>4

\* The idle record is typed, and a request that ends knows nothing.
LEMMA IdleType == Idle \in Requests /\ NoRow \in Rows
BY DEF Idle, NoRow, Requests, Rows, Snapshots, Statuses, Phases, Operations

LEMMA EndRequest ==
  ASSUME Core, [Next]_vars, NEW w \in Workers, req' = [req EXCEPT ![w] = Idle]
  PROVE  req' \in [Workers -> Requests] /\ \A v \in Workers : PhaseOK(v)'
<1>1. req'[w] = Idle
  BY DEF Core, TypeOK
<1>2. PhaseOK(w)'
  BY <1>1 DEF PhaseOK, Idle
<1> QED BY <1>2, IdleType, OneRequest DEF Idle

\* The first action of a request.
LEMMA BeginStep ==
  ASSUME Core, [Next]_vars, NEW w \in Workers, NEW i \in Instances,
         PrepareCreate(w, i) \/ Load(w, i) \/ LoadForUpdate(w, i)
           \/ LoadForDelete(w, i) \/ Query(w, i)
  PROVE  req' \in [Workers -> Requests] /\ \A v \in Workers : PhaseOK(v)'
<1> USE IdleType
<1>1. req \in [Workers -> Requests] /\ row \in [Instances -> Rows] /\ process.def \in Definitions
  BY DEF Core, TypeOK
<1>2. CASE PrepareCreate(w, i)
  <2>1. PICK op \in CreateOps, u \in Operators, target \in UserIds \cup {NoUser}, status \in CreateStatuses :
          /\ row[i].life = "absent" /\ \A v \in Workers : req[v].inst # i
          /\ Begin(w, [Idle EXCEPT !.pc = "insert", !.op = op, !.inst = i, !.user = u,
                         !.to = status,
                         !.snap = [life |-> "live", status |-> status,
                                   step |-> InitialStepId(op, status),
                                   assignee |-> target, completed |-> FALSE]])
    BY <1>2 DEF PrepareCreate
  <2> DEFINE s == [life |-> "live", status |-> status, step |-> InitialStepId(op, status),
                   assignee |-> target, completed |-> FALSE]
             r == [Idle EXCEPT !.pc = "insert", !.op = op, !.inst = i, !.user = u,
                               !.to = status, !.snap = s]
  <2>2. InitialStepId(op, status) \in AllStepIds \cup {NoStep}
    BY <1>1, EntrySteps, StepRecordFacts DEF InitialStepId
  <2>3. s \in Rows /\ s.life = "live"
    BY <2>2, ParameterAssumption DEF Rows
  <2>4. r \in Requests
    BY <2>3, ParameterAssumption DEF Requests, Idle, Snapshots, Phases, Operations, Statuses
  <2>5. /\ req' = [req EXCEPT ![w] = r] /\ row' = row
        /\ r.pc = "insert" /\ r.op \in CreateOps /\ r.inst = i /\ r.snap = s
    BY <2>1 DEF Begin, Idle
  <2> HIDE DEF r, s
  <2>6. req'[w] = r /\ \A v \in Workers : v # w => req'[v] = req[v]
    BY <1>1, <2>5
  <2>7. PhaseOK(w)'
    BY <2>1, <2>3, <2>5, <2>6 DEF PhaseOK, CreateOps
  <2> QED BY <2>1, <2>4, <2>5, <2>7, OneRequest
<1>3. CASE Load(w, i)
  <2>1. PICK op \in FlowActions, u \in Operators, target \in UserIds \cup {NoUser} :
          /\ Live(i) /\ (target # NoUser <=> op = "assign")
          /\ Begin(w, [Idle EXCEPT !.pc = "permit", !.op = op, !.inst = i, !.user = u,
                         !.target = target, !.snap = row[i], !.from = row[i].status])
    BY <1>3 DEF Load
  <2> DEFINE r == [Idle EXCEPT !.pc = "permit", !.op = op, !.inst = i, !.user = u,
                     !.target = target, !.snap = row[i], !.from = row[i].status]
  <2>2. r \in Requests
    <3>1. row[i] \in Snapshots /\ row[i].status \in Statuses
      BY <1>1 DEF Snapshots, Rows
    <3> QED BY <3>1 DEF Requests, Idle, Phases, Operations
  <2>3. req' = [req EXCEPT ![w] = r]
    BY <2>1 DEF Begin
  <2>4. r.pc = "permit" /\ r.op = op /\ r.inst = i /\ r.target = target
    BY DEF Idle
  <2> HIDE DEF r
  <2>5. PhaseOK(w)'
    BY <1>1, <2>1, <2>3, <2>4 DEF PhaseOK
  <2> QED BY <2>2, <2>3, <2>4, <2>5, OneRequest
<1>4. CASE LoadForUpdate(w, i)
  <2>1. PICK e \in Edits, assignee \in UserIds \cup {NoUser} :
          /\ Live(i)
          /\ Begin(w, [Idle EXCEPT !.pc = "write", !.op = "update", !.inst = i,
                         !.snap = [life |-> "live", status |-> e.status, step |-> NoStep,
                                   assignee |-> assignee, completed |-> e.completed]])
    BY <1>4 DEF LoadForUpdate
  <2> DEFINE s == [life |-> "live", status |-> e.status, step |-> NoStep,
                   assignee |-> assignee, completed |-> e.completed]
             r == [Idle EXCEPT !.pc = "write", !.op = "update", !.inst = i, !.snap = s]
  <2>2. s \in Snapshots
    BY ParameterAssumption DEF Snapshots, Rows
  <2>3. r \in Requests
    BY <2>2 DEF Requests, Idle, Phases, Operations
  <2>4. req' = [req EXCEPT ![w] = r] /\ row' = row
    BY <2>1 DEF Begin
  <2>5. r.pc = "write" /\ r.op = "update" /\ r.inst = i
    BY DEF Idle
  <2> HIDE DEF r
  <2>6. PhaseOK(w)'
    BY <1>1, <2>1, <2>4, <2>5 DEF PhaseOK, Live
  <2> QED BY <2>3, <2>4, <2>5, <2>6, OneRequest
<1>5. CASE LoadForDelete(w, i)
  <2> DEFINE r == [Idle EXCEPT !.pc = "write", !.op = "delete", !.inst = i]
  <2>1. r \in Requests
    BY DEF Requests, Idle, Phases, Operations
  <2>2. req' = [req EXCEPT ![w] = r] /\ row' = row /\ Live(i)
    BY <1>5 DEF LoadForDelete, Begin
  <2>3. r.pc = "write" /\ r.op = "delete" /\ r.inst = i
    BY DEF Idle
  <2> HIDE DEF r
  <2>4. PhaseOK(w)'
    BY <1>1, <2>2, <2>3 DEF PhaseOK, Live
  <2> QED BY <2>1, <2>2, <2>3, <2>4, OneRequest
<1>6. CASE Query(w, i)
  <2>1. PICK op \in ReadOps, u \in Operators :
          Begin(w, [Idle EXCEPT !.pc = IF op = "actions" THEN "permit" ELSE "locate",
                                !.op = op, !.inst = i, !.user = u])
    BY <1>6 DEF Query
  <2> DEFINE r == [Idle EXCEPT !.pc = IF op = "actions" THEN "permit" ELSE "locate",
                               !.op = op, !.inst = i, !.user = u]
  <2>2. r \in Requests
    BY DEF Requests, Idle, Phases, Operations
  <2>3. req' = [req EXCEPT ![w] = r]
    BY <2>1 DEF Begin
  <2>4. r.pc \in {"permit", "locate"} /\ r.op = op /\ r.inst = i
    BY DEF Idle
  <2> HIDE DEF r
  <2>5. PhaseOK(w)'
    BY <1>1, <2>3, <2>4 DEF PhaseOK, ReadOps
  <2> QED BY <2>2, <2>3, <2>4, <2>5, OneRequest
<1> QED BY <1>2, <1>3, <1>4, <1>5, <1>6

\* What GetCurrentStep leads to, for a request that found a step.
LEMMA AfterCurrentStepType ==
  ASSUME NEW q \in Requests, q.step \in StepRecords
  PROVE  LET r == AfterCurrentStep(q) IN
         /\ r \in Requests
         /\ \/ r = Idle
            \/ /\ r.pc \in {"plan", "locate", "write"}
               /\ r.op = q.op /\ r.inst = q.inst /\ r.target = q.target
               /\ r.snap = q.snap
               /\ q.op \notin ReadOps /\ (r.pc = "plan" => q.op \in {"submit", "approve"})
         /\ r.read = NoRow
<1> DEFINE r == [q EXCEPT !.seen = NoRow, !.read = NoRow]
<1>1. /\ r \in Requests /\ [r EXCEPT !.pc = "plan"] \in Requests
      /\ [r EXCEPT !.pc = "locate", !.second = TRUE] \in Requests
      /\ [r EXCEPT !.pc = "write", !.step = NoStep] \in Requests
  BY IdleType DEF Requests, Phases
<1>2. r.op = q.op /\ r.inst = q.inst /\ r.target = q.target /\ r.snap = q.snap /\ r.read = NoRow
  BY DEF Requests
<1> QED BY <1>1, <1>2, IdleType DEF AfterCurrentStep, Requests, Idle

\* Submit's and Approve's second reading prepares a typed row and status.
PlannedType(q) ==
  /\ Planned(q) \in Requests
  /\ Planned(q).pc = "write" /\ Planned(q).op = q.op
  /\ Planned(q).inst = q.inst /\ Planned(q).target = q.target
  /\ Planned(q).read = q.read
  /\ q.op \in {"submit", "approve"} /\ Planned(q).snap.status = "Completed" =>
       Planned(q).snap.completed

LEMMA PlannedTyped ==
  ASSUME process.def \in Definitions, NEW q \in Requests
  PROVE  PlannedType(q)
<1> DEFINE next == IF q.op = "submit" THEN FirstRealStep(process.def)
                   ELSE getNextStep(process.def, q.step)
           to == IF q.op = "submit" THEN "Pending" ELSE ApproveStatus(next)
           id == IF next = NoStep THEN NoStep ELSE next.id
           done == q.snap.completed \/ (q.op = "approve" /\ to = "Completed")
           s == [q.snap EXCEPT !.status = to, !.step = id, !.completed = done]
<1>1. to \in Statuses
  BY StepStatus DEF Statuses
<1>2. id \in AllStepIds \cup {NoStep}
  BY EntrySteps, SearchResults, StepRecordFacts
<1>3. q.snap \in Snapshots
  BY DEF Requests
<1>4. done \in BOOLEAN
  OBVIOUS
<1>5. Planned(q) = [q EXCEPT !.pc = "write", !.step = NoStep, !.to = to, !.snap = s]
  <2> HIDE DEF next, to, id
  <2>1. s = [[[q.snap EXCEPT !.status = to] EXCEPT !.step = id] EXCEPT !.completed = @ \/ (q.op = "approve" /\ to = "Completed")]
    BY <1>3 DEF Snapshots, Rows
  <2> QED BY <2>1, <1>3 DEF Planned, next, to, id, Requests
<1>8. q.op = "submit" => to # "Completed"
  OBVIOUS
<1>9. q.op = "approve" /\ to = "Completed" => done
  OBVIOUS
<1> HIDE DEF next, to, id, done
<1>6. s \in Snapshots /\ s.status = to /\ s.completed = done
  BY <1>1, <1>2, <1>3, <1>4 DEF Snapshots, Rows
<1> HIDE DEF s
<1>7. Planned(q) \in Requests
  BY <1>1, <1>5, <1>6 DEF Requests, Phases
<1> QED BY <1>5, <1>6, <1>7, <1>8, <1>9 DEF PlannedType, Requests

\* The reads of the permission part and the plan.
LEMMA ReadStep ==
  ASSUME Core, [Next]_vars, NEW w \in Workers,
         ReadPermit(w) \/ ReadLocate(w) \/ Resolve(w) \/ Backfill(w) \/ Plan(w)
  PROVE  req' \in [Workers -> Requests] /\ \A v \in Workers : PhaseOK(v)'
<1> DEFINE q == req[w]
<1>1. /\ req \in [Workers -> Requests] /\ row \in [Instances -> Rows]
      /\ process.def \in Definitions
  BY DEF Core, TypeOK
<1>2. q \in Requests /\ PhaseOK(w)
  BY RequestFacts
<1>3. CASE ReadPermit(w)
  <2> DEFINE r == [q EXCEPT !.pc = "locate", !.seen = row[q.inst]]
  <2>1. q.pc = "permit" /\ q.inst \in Instances /\ q.op \in FlowActions \cup ReadOps
    BY <1>2, <1>3 DEF ReadPermit, PhaseOK
  <2>2. CASE req' = [req EXCEPT ![w] = r]
    <3>1. r \in Requests
      BY <1>1, <1>2, <2>1 DEF Requests, Phases
    <3>2. r.pc = "locate" /\ r.op = q.op /\ r.inst = q.inst /\ r.target = q.target
      BY <1>2 DEF Requests
    <3>3. PhaseOK(w)'
      BY <1>1, <1>2, <2>1, <2>2, <3>2 DEF PhaseOK
    <3> QED BY <2>2, <3>1, <3>2, <3>3, OneRequest
  <2>3. CASE req' = [req EXCEPT ![w] = Idle]
    BY <2>3, EndRequest
  <2> QED BY <1>3, <2>2, <2>3 DEF ReadPermit, Advance
<1>4. CASE ReadLocate(w)
  <2> DEFINE r == [q EXCEPT !.pc = "resolve", !.read = row[q.inst]]
  <2>1. q.pc = "locate" /\ q.inst \in Instances /\ q.op \in FlowActions \cup ReadOps
    BY <1>2, <1>4 DEF ReadLocate, PhaseOK
  <2>2. CASE Live(q.inst)
    <3>1. req' = [req EXCEPT ![w] = r] /\ row' = row
      BY <1>4, <2>2 DEF ReadLocate, Advance
    <3>2. r \in Requests
      BY <1>1, <1>2, <2>1 DEF Requests, Phases
    <3>3. r.pc = "resolve" /\ r.op = q.op /\ r.inst = q.inst /\ r.target = q.target
      BY <1>2 DEF Requests
    <3>4. PhaseOK(w)'
      BY <1>1, <1>2, <2>1, <2>2, <3>1, <3>3 DEF PhaseOK, Live
    <3> QED BY <3>1, <3>2, <3>3, <3>4, OneRequest
  <2>3. CASE ~Live(q.inst)
    BY <1>4, <2>3, EndRequest DEF ReadLocate, Advance
  <2> QED BY <2>2, <2>3
<1>5. ASSUME NEW s \in StepRecords, NEW p \in Requests,
             p.step = s, p.op = q.op, p.inst = q.inst, p.target = q.target,
             q.pc \in {"resolve", "backfill"},
             req' = [req EXCEPT ![w] = AfterCurrentStep(p)]
      PROVE  req' \in [Workers -> Requests] /\ \A v \in Workers : PhaseOK(v)'
  <2> DEFINE r == AfterCurrentStep(p)
  <2>1. /\ q.inst \in Instances /\ q.op \in FlowActions \cup ReadOps
        /\ row[q.inst].life # "absent" /\ (q.op = "assign" => q.target # NoUser)
    BY <1>2, <1>5 DEF PhaseOK
  <2>2. CASE r = Idle
    BY <1>5, <2>2, EndRequest
  <2>3. CASE r # Idle
    <3>1. /\ r \in Requests /\ r.pc \in {"plan", "locate", "write"}
          /\ r.op = q.op /\ r.inst = q.inst /\ r.target = q.target /\ q.op \notin ReadOps
          /\ (r.pc = "plan" => q.op \in {"submit", "approve"})
      BY <1>5, <2>3, AfterCurrentStepType
    <3> HIDE DEF r
    <3>2. row'[q.inst].life # "absent"
      BY <2>1, NextKeepsRows DEF RowsKept, Kept
    <3>3. req'[w] = r
      BY <1>1, <1>5 DEF r
    <3>4. PhaseOK(w)'
      BY <2>1, <3>1, <3>2, <3>3 DEF PhaseOK
    <3> QED BY <1>5, <3>1, <3>4, OneRequest DEF r
  <2> QED BY <2>2, <2>3
<1>6. CASE Resolve(w)
  <2> DEFINE s == LocateStep(process.def, q.read.step, q.read.status)
             p == [q EXCEPT !.step = s]
             b == [p EXCEPT !.pc = "backfill"]
  <2>1. s \in StepRecords
    BY <1>1, LocateStepFound
  <2>2. p \in Requests /\ b \in Requests
    BY <1>2, <2>1 DEF Requests, Phases
  <2>3. /\ p.step = s /\ p.op = q.op /\ p.inst = q.inst /\ p.target = q.target
        /\ b.step = s /\ b.op = q.op /\ b.inst = q.inst /\ b.target = q.target /\ b.pc = "backfill"
        /\ p.pc = q.pc
    BY <1>2 DEF Requests
  <2>4. q.pc = "resolve" /\ row' = row
    BY <1>6, <2>3 DEF Resolve
  <2>5. req' = [req EXCEPT ![w] = b] \/ req' = [req EXCEPT ![w] = AfterCurrentStep(p)]
    BY <1>6 DEF Resolve, Advance
  <2> HIDE DEF s, p, b
  <2>6. CASE req' = [req EXCEPT ![w] = b]
    <3>1. req'[w] = b
      BY <1>1, <2>6
    <3>2. PhaseOK(w)'
      BY <1>2, <2>1, <2>3, <2>4, <3>1 DEF PhaseOK
    <3> QED BY <2>2, <2>3, <2>6, <3>2, OneRequest
  <2>7. CASE req' = [req EXCEPT ![w] = AfterCurrentStep(p)]
    BY <1>5, <2>1, <2>2, <2>3, <2>4, <2>7
  <2> QED BY <2>5, <2>6, <2>7
<1>7. CASE Backfill(w)
  <2>1. q.pc = "backfill" /\ q.step \in StepRecords
    BY <1>2, <1>7 DEF Backfill, PhaseOK
  <2>2. req' = [req EXCEPT ![w] = AfterCurrentStep(q)]
    BY <1>7 DEF Backfill, Advance
  <2> QED BY <1>2, <1>5, <2>1, <2>2
<1>8. CASE Plan(w)
  <2> DEFINE r == Planned(q)
  <2>1. /\ q.pc = "plan" /\ row' = row /\ req' = [req EXCEPT ![w] = r]
    BY <1>8 DEF Plan, Advance
  <2>2. q.inst \in Instances /\ q.op \in {"submit", "approve"} /\ row[q.inst].life # "absent"
        /\ (q.op = "assign" => q.target # NoUser)
    BY <1>2, <2>1 DEF PhaseOK
  <2>3. PlannedType(q)
    BY <1>1, <1>2, PlannedTyped
  <2>4. req'[w] = r
    BY <1>1, <2>1
  <2> HIDE DEF r
  <2>5. PhaseOK(w)'
    BY <2>1, <2>2, <2>3, <2>4 DEF PhaseOK, PlannedType, r, FlowActions
  <2> QED BY <2>1, <2>3, <2>5, OneRequest DEF PlannedType, r
<1> QED BY <1>3, <1>4, <1>6, <1>7, <1>8

\* The insert, the writes, the records and the ways a request ends.
LEMMA WriteStep ==
  ASSUME Core, [Next]_vars, NEW w \in Workers,
         Insert(w) \/ WriteRow(w) \/ WriteAssignee(w) \/ WriteStatus(w)
           \/ Delete(w) \/ Record(w) \/ Abort(w)
  PROVE  req' \in [Workers -> Requests] /\ \A v \in Workers : PhaseOK(v)'
<1> DEFINE q == req[w]
<1>1. req \in [Workers -> Requests] /\ row \in [Instances -> Rows]
  BY DEF Core, TypeOK
<1>2. q \in Requests /\ PhaseOK(w)
  BY RequestFacts
<1>3. RowsKept
  BY NextKeepsRows
<1>4. CASE Insert(w)
  <2> DEFINE r == [q EXCEPT !.pc = "record"]
  <2>1. /\ q.pc = "insert" /\ q.inst \in Instances /\ q.op \in CreateOps /\ q.snap \in Rows
    BY <1>2, <1>4 DEF Insert, PhaseOK
  <2>2. req' = [req EXCEPT ![w] = r] /\ row' = [row EXCEPT ![q.inst] = q.snap]
    BY <1>4 DEF Insert, Advance
  <2>3. r \in Requests /\ r.pc = "record" /\ r.op = q.op /\ r.inst = q.inst
    BY <1>2 DEF Requests, Phases
  <2>4. row'[q.inst].life = "live"
    <3>1. q.snap.life = "live"
      BY <1>2, <2>1 DEF PhaseOK
    <3> QED BY <1>1, <2>1, <2>2, <3>1
  <2>5. req'[w] = r
    BY <1>1, <2>2
  <2> HIDE DEF r
  <2>6. PhaseOK(w)'
    BY <2>1, <2>3, <2>4, <2>5 DEF PhaseOK, CreateOps
  <2> QED BY <2>2, <2>3, <2>6, OneRequest
<1>5. ASSUME q.op \in FlowActions, q.inst \in Instances, row[q.inst].life # "absent",
             \/ q.op \in {"submit", "approve"}
             \/ q.op \in {"assign", "reject", "cancel", "complete", "return"},
             NEW r, r = [q EXCEPT !.pc = "record", !.snap = NoRow, !.target = NoUser,
                           !.to = IF q.op \in {"submit", "approve"} THEN @ ELSE TargetStatus(q.op)],
             req' = [req EXCEPT ![w] = r]
      PROVE  req' \in [Workers -> Requests] /\ \A v \in Workers : PhaseOK(v)'
  <2>1. q.op \notin {"submit", "approve"} => TargetStatus(q.op) \in Statuses
    BY <1>5 DEF TargetStatus, Statuses
  <2>2. NoRow \in Snapshots
    BY IdleType DEF Snapshots
  <2>3. r \in Requests
    BY <1>2, <1>5, <2>1, <2>2 DEF Requests, Phases
  <2>4. r.pc = "record" /\ r.op = q.op /\ r.inst = q.inst
    BY <1>2, <1>5 DEF Requests
  <2>5. row'[q.inst].life # "absent" /\ req'[w] = r
    BY <1>1, <1>3, <1>5 DEF RowsKept, Kept
  <2>6. PhaseOK(w)'
    BY <1>5, <2>4, <2>5 DEF PhaseOK
  <2> QED BY <1>5, <2>3, <2>4, <2>6, OneRequest
<1>6. CASE WriteRow(w)
  <2>1. /\ q.pc = "write" /\ q.op \in RowWriteOps
        /\ q.inst \in Instances /\ row[q.inst].life # "absent"
        /\ req' = [req EXCEPT ![w] = AfterWrite(q)]
    BY <1>2, <1>6 DEF WriteRow, PhaseOK, Advance
  <2>2. CASE AfterWrite(q) = Idle
    BY <2>1, <2>2, EndRequest
  <2>3. CASE AfterWrite(q) # Idle
    BY <1>5, <2>1, <2>3 DEF AfterWrite, RowWriteOps, FlowActions
  <2> QED BY <2>2, <2>3
<1>7. CASE WriteStatus(w)
  <2>1. /\ q.op \in {"assign", "reject", "cancel"}
        /\ q.inst \in Instances /\ row[q.inst].life # "absent"
        /\ req' = [req EXCEPT ![w] = AfterWrite(q)]
    BY <1>2, <1>7 DEF WriteStatus, PhaseOK, Advance
  <2>2. CASE AfterWrite(q) = Idle
    BY <2>1, <2>2, EndRequest
  <2>3. CASE AfterWrite(q) # Idle
    BY <1>5, <2>1, <2>3 DEF AfterWrite, FlowActions
  <2> QED BY <2>2, <2>3
<1>8. CASE WriteAssignee(w)
  <2> DEFINE r == [q EXCEPT !.pc = "writeStatus"]
  <2>1. /\ q.pc = "write" /\ q.op = "assign" /\ q.target # NoUser
        /\ q.inst \in Instances /\ row[q.inst].life # "absent"
    BY <1>2, <1>8 DEF WriteAssignee, PhaseOK
  <2>2. CASE Live(q.inst)
    <3>1. /\ req' = [req EXCEPT ![w] = r]
          /\ row' = [row EXCEPT ![q.inst].assignee = q.target]
      BY <1>8, <2>2 DEF WriteAssignee, Advance
    <3>2. r \in Requests /\ r.pc = "writeStatus" /\ r.op = "assign" /\ r.inst = q.inst /\ r.target = q.target
      BY <1>2, <2>1 DEF Requests, Phases
    <3>3. /\ row'[q.inst].assignee # NoUser /\ row'[q.inst].life # "absent" /\ req'[w] = r
      BY <1>1, <2>1, <3>1 DEF Rows
    <3> HIDE DEF r
    <3>4. PhaseOK(w)'
      BY <2>1, <3>2, <3>3 DEF PhaseOK
    <3> QED BY <3>1, <3>2, <3>4, OneRequest
  <2>3. CASE ~Live(q.inst)
    BY <1>8, <2>3, EndRequest DEF WriteAssignee, Advance
  <2> QED BY <2>2, <2>3
<1>9. CASE Delete(w) \/ Record(w) \/ Abort(w)
  BY <1>9, EndRequest DEF Delete, Record, Abort, Advance
<1> QED BY <1>4, <1>6, <1>7, <1>8, <1>9

\* Record appends one typed record; nothing else touches the trail.
LEMMA TrailStep ==
  ASSUME Core, [Next]_vars
  PROVE  trail' \in [Instances -> [flow : Seq(FlowRecords), timeline : Nat, comments : Nat]]
<1> USE DEF Core, TypeOK
<1>1. ASSUME NEW w \in Workers, Record(w)
      PROVE  trail' \in [Instances -> [flow : Seq(FlowRecords), timeline : Nat, comments : Nat]]
  <2> DEFINE q == req[w]
             i == req[w].inst
  <2>1. q \in Requests /\ i \in Instances /\ q.op \in FlowActions \cup CreateOps
    BY <1>1, RequestFacts DEF Record, PhaseOK
  <2>2. FlowOf(q) \in FlowRecords
    BY <2>1 DEF FlowOf, FlowRecords, FlowAction, Requests, FlowActions
  <2>3. PICK flowed \in LogOutcomes, timed \in LogOutcomes, comment \in Comments(q.op) :
          trail' = [trail EXCEPT ![i] =
                     [flow     |-> IF flowed THEN Append(@.flow, FlowOf(q)) ELSE @.flow,
                      timeline |-> @.timeline + (IF timed THEN 1 ELSE 0),
                      comments |-> @.comments + comment]]
    BY <1>1 DEF Record
  <2>4. comment \in Nat
    BY DEF Comments
  <2>5. trail[i] \in [flow : Seq(FlowRecords), timeline : Nat, comments : Nat]
    BY <2>1
  <2>6. Append(trail[i].flow, FlowOf(q)) \in Seq(FlowRecords)
    BY <2>2, <2>5
  <2> QED BY <2>1, <2>3, <2>4, <2>5, <2>6
<1>2. ASSUME NEW w \in Workers, NEW i \in Instances,
             PrepareCreate(w, i) \/ Load(w, i) \/ LoadForUpdate(w, i) \/ LoadForDelete(w, i) \/ Query(w, i)
      PROVE  UNCHANGED trail
  BY <1>2 DEF PrepareCreate, Load, LoadForUpdate, LoadForDelete, Query, Begin
<1>3. ASSUME NEW w \in Workers,
             \/ Insert(w) \/ ReadPermit(w) \/ ReadLocate(w) \/ Resolve(w) \/ Backfill(w) \/ Plan(w)
             \/ WriteRow(w) \/ WriteAssignee(w) \/ WriteStatus(w) \/ Delete(w) \/ Abort(w)
      PROVE  UNCHANGED trail
  BY <1>3 DEF Insert, ReadPermit, ReadLocate, Resolve, Backfill, Plan, WriteRow, WriteAssignee,
              WriteStatus, Delete, Abort
<1>4. CASE UpdateProcess \/ UNCHANGED vars
  BY <1>4 DEF UpdateProcess, vars
<1> QED BY <1>1, <1>2, <1>3, <1>4 DEF Next, Step

\* The process and the request counter.
LEMMA ScalarStep ==
  ASSUME Core, [Next]_vars
  PROVE  process' \in [def : Definitions, published : BOOLEAN] /\ calls' \in Nat
<1> USE DEF Core, TypeOK
<1>1. ASSUME NEW w \in Workers, NEW i \in Instances,
             PrepareCreate(w, i) \/ Load(w, i) \/ LoadForUpdate(w, i) \/ LoadForDelete(w, i) \/ Query(w, i)
      PROVE  process' = process /\ calls' = calls + 1
  BY <1>1 DEF PrepareCreate, Load, LoadForUpdate, LoadForDelete, Query, Begin
<1>2. ASSUME NEW w \in Workers, Step(w) \/ Abort(w)
      PROVE  process' = process /\ calls' = calls
  BY <1>2 DEF Step, Insert, ReadPermit, ReadLocate, Resolve, Backfill, Plan, WriteRow, WriteAssignee,
              WriteStatus, Delete, Record, Abort, Advance
<1>3. CASE UpdateProcess \/ UNCHANGED vars
  BY <1>3 DEF UpdateProcess, vars
<1> QED BY <1>1, <1>2, <1>3 DEF Next

(***************************************************************************)
(* The theorems.                                                            *)
(***************************************************************************)
\* Types and phase facts hold initially and are kept by every step.
THEOREM CoreInvariant == Spec => []Core
<1>1. Init => Core
  <2> SUFFICES ASSUME Init PROVE Core
    OBVIOUS
  <2>1. TypeOK
    <3>1. process \in [def : Definitions, published : BOOLEAN]
      BY DEF Init
    <3>2. EmptyTrail \in [flow : Seq(FlowRecords), timeline : Nat, comments : Nat]
      <4>1. <<>> \in Seq(FlowRecords)
        OBVIOUS
      <4> QED BY <4>1 DEF EmptyTrail
    <3>3. row \in [Instances -> Rows] /\ req \in [Workers -> Requests] /\ calls \in Nat
      BY IdleType DEF Init
    <3> QED BY <3>1, <3>2, <3>3 DEF Init, TypeOK
  <2>2. \A w \in Workers : PhaseOK(w)
    BY DEF Init, PhaseOK, Idle
  <2> QED BY <2>1, <2>2 DEF Core
<1>2. Core /\ [Next]_vars => Core'
  <2> SUFFICES ASSUME Core, [Next]_vars PROVE Core'
    OBVIOUS
  <2>1. row' \in [Instances -> Rows]
    BY NextKeepsRows DEF RowsKept
  <2>2. req' \in [Workers -> Requests] /\ \A v \in Workers : PhaseOK(v)'
    <3>1. CASE \E w \in Workers, i \in Instances :
                 PrepareCreate(w, i) \/ Load(w, i) \/ LoadForUpdate(w, i) \/ LoadForDelete(w, i) \/ Query(w, i)
      BY <3>1, BeginStep
    <3>2. CASE \E w \in Workers : Step(w) \/ Abort(w)
      BY <3>2, ReadStep, WriteStep DEF Step
    <3>3. CASE UpdateProcess \/ UNCHANGED vars
      <4>1. req' = req /\ row' = row
        BY <3>3 DEF UpdateProcess, vars
      <4> QED BY <4>1 DEF Core, TypeOK, PhaseOK
    <3> QED BY <3>1, <3>2, <3>3 DEF Next
  <2> QED BY <2>1, <2>2, TrailStep, ScalarStep DEF Core, TypeOK
<1> QED BY <1>1, <1>2, PTL DEF Spec

\* Every reachable state is typed.
THEOREM TypeCorrect == Spec => []TypeOK
<1>1. Core => TypeOK
  BY DEF Core
<1> QED BY <1>1, CoreInvariant, PTL

\* However requests overlap, and however old the rows they write back, only a
\* return takes away a stored assignee, only the end of the flow a stored step,
\* and nothing a completion time.
THEOREM OnlyThoseWhoMeanToClear == Spec => ClearedOnPurpose
<1> DEFINE A == \A i \in Instances : row[i].life # "absent" =>
                  /\ row[i].assignee # NoUser /\ row'[i].assignee = NoUser =>
                       \E w \in Workers : Writes(w, i, "return")
                  /\ row[i].step # NoStep /\ row'[i].step = NoStep =>
                       \E w \in Workers : Writes(w, i, "approve") /\ req[w].to = "Completed"
                  /\ row[i].completed => row'[i].completed
<1>1. Core /\ [Next]_vars => A
  BY NextKeepsRows DEF RowsKept, Kept
<1>2. Core /\ [Next]_vars => [A]_vars
  BY <1>1
<1>3. Spec => [][A]_vars
  BY <1>2, CoreInvariant, PTL DEF Spec
<1> QED BY <1>3 DEF ClearedOnPurpose

\* However requests overlap, a deleted row stays as it was.
THEOREM DeletedStays == Spec => DeletedIsFrozen
<1> DEFINE A == \A i \in Instances : row[i].life = "deleted" => row'[i] = row[i]
<1>1. Core /\ [Next]_vars => A
  BY NextKeepsRows DEF RowsKept, Kept
<1>2. Core /\ [Next]_vars => [A]_vars
  BY <1>1
<1>3. Spec => [][A]_vars
  BY <1>2, CoreInvariant, PTL DEF Spec
<1> QED BY <1>3 DEF DeletedIsFrozen

\* However requests overlap, Assign never makes an unassigned order Processing.
THEOREM AssignKeepsOrder == Spec => []AssignedBeforeProcessing
<1>1. Core => AssignedBeforeProcessing
  BY DEF Core, PhaseOK, AssignedBeforeProcessing
<1> QED BY <1>1, CoreInvariant, PTL

(***************************************************************************)
(* Completed orders carry their completion time, if no request creates or   *)
(* edits an order into Completed without one.                               *)
(***************************************************************************)
StampedRequests ==
  /\ "Completed" \notin CreateStatuses
  /\ \A e \in Edits : e.status = "Completed" => e.completed

Stamped(r) == r.status = "Completed" => r.completed

\* The rows, and every copy of a row a request may still write back.
AllStamped ==
  /\ \A i \in Instances : Stamped(row[i])
  /\ \A w \in Workers : Stamped(req[w].snap) /\ Stamped(req[w].read)

\* A step of w that keeps the rows stamped and leaves w with stamped copies.
LEMMA StampedFrame ==
  ASSUME Core, AllStamped, NEW w \in Workers, NEW r, req' = [req EXCEPT ![w] = r],
         Stamped(r.snap), Stamped(r.read), \A i \in Instances : Stamped(row'[i])
  PROVE  AllStamped'
BY DEF Core, TypeOK, AllStamped, Stamped

LEMMA StampedIdle == Stamped(Idle.snap) /\ Stamped(Idle.read) /\ Stamped(NoRow)
BY DEF Stamped, Idle, NoRow

\* dao.UpdateInstance with a stamped snapshot leaves a stamped row.
LEMMA StampedUpdate ==
  ASSUME Core, AllStamped, NEW i \in Instances, NEW new \in Snapshots, Stamped(new),
         UpdateInstance(i, new)
  PROVE  \A j \in Instances : Stamped(row'[j])
<1>1. row \in [Instances -> Rows] /\ row[i] \in Rows
  BY DEF Core, TypeOK
<1>2. Stamped(MergeNonZero(row[i], new))
  BY <1>1, SentinelAssumption DEF AllStamped, Stamped, MergeNonZero, Rows, Snapshots
<1> QED BY <1>1, <1>2 DEF UpdateInstance, AllStamped

LEMMA StampedStep ==
  ASSUME StampedRequests, Core, AllStamped, [Next]_vars
  PROVE  AllStamped'
<1>1. /\ req \in [Workers -> Requests] /\ row \in [Instances -> Rows]
      /\ process.def \in Definitions
      /\ \A i \in Instances : Stamped(row[i])
      /\ \A w \in Workers : Stamped(req[w].snap) /\ Stamped(req[w].read)
  BY DEF Core, TypeOK, AllStamped
<1>2. ASSUME NEW w \in Workers, NEW i \in Instances,
             PrepareCreate(w, i) \/ Load(w, i) \/ LoadForUpdate(w, i) \/ LoadForDelete(w, i) \/ Query(w, i)
      PROVE  AllStamped'
  <2>1. row' = row
    BY <1>2 DEF PrepareCreate, Load, LoadForUpdate, LoadForDelete, Query, Begin
  <2> DEFINE OK(r) == req' = [req EXCEPT ![w] = r] /\ Stamped(r.snap) /\ Stamped(r.read)
  <2>2. \E r : OK(r)
    <3>1. CASE PrepareCreate(w, i)
      <4> DEFINE R(op, u, target, status) ==
                   [Idle EXCEPT !.pc = "insert", !.op = op, !.inst = i, !.user = u, !.to = status,
                      !.snap = [life |-> "live", status |-> status,
                                step |-> InitialStepId(op, status),
                                assignee |-> target, completed |-> FALSE]]
      <4>1. PICK op \in CreateOps, u \in Operators, target \in UserIds \cup {NoUser},
                 status \in CreateStatuses : Begin(w, R(op, u, target, status))
        BY <3>1, Zenon DEF PrepareCreate
      <4> DEFINE r == R(op, u, target, status)
      <4>2. Stamped(r.snap) /\ Stamped(r.read)
        BY DEF StampedRequests, Idle, NoRow, Stamped
      <4> HIDE DEF r
      <4>3. OK(r)
        BY <4>1, <4>2 DEF Begin, r
      <4> HIDE DEF OK
      <4> QED BY <4>3
    <3>2. CASE Load(w, i)
      <4>1. PICK op \in FlowActions, u \in Operators, target \in UserIds \cup {NoUser} :
              req' = [req EXCEPT ![w] =
                [Idle EXCEPT !.pc = "permit", !.op = op, !.inst = i, !.user = u,
                   !.target = target, !.snap = row[i], !.from = row[i].status]]
        BY <3>2 DEF Load, Begin
      <4> DEFINE r == [Idle EXCEPT !.pc = "permit", !.op = op, !.inst = i, !.user = u,
                        !.target = target, !.snap = row[i], !.from = row[i].status]
      <4>2. Stamped(r.snap) /\ Stamped(r.read)
        BY <1>1 DEF Idle, NoRow, Stamped
      <4>3. OK(r)
        BY <4>1, <4>2
      <4> HIDE DEF r, OK
      <4> QED BY <4>3
    <3>3. CASE LoadForUpdate(w, i)
      <4>1. PICK e \in Edits, assignee \in UserIds \cup {NoUser} :
              req' = [req EXCEPT ![w] =
                [Idle EXCEPT !.pc = "write", !.op = "update", !.inst = i,
                   !.snap = [life |-> "live", status |-> e.status, step |-> NoStep,
                             assignee |-> assignee, completed |-> e.completed]]]
        BY <3>3 DEF LoadForUpdate, Begin
      <4> DEFINE r == [Idle EXCEPT !.pc = "write", !.op = "update", !.inst = i,
                        !.snap = [life |-> "live", status |-> e.status, step |-> NoStep,
                                  assignee |-> assignee, completed |-> e.completed]]
      <4>2. Stamped(r.snap) /\ Stamped(r.read)
        BY DEF StampedRequests, Idle, NoRow, Stamped
      <4>3. OK(r)
        BY <4>1, <4>2
      <4> HIDE DEF r, OK
      <4> QED BY <4>3
    <3>4. CASE LoadForDelete(w, i)
      <4> DEFINE r == [Idle EXCEPT !.pc = "write", !.op = "delete", !.inst = i]
      <4>1. OK(r)
        BY <3>4 DEF LoadForDelete, Begin, Idle, NoRow, Stamped
      <4> HIDE DEF r, OK
      <4> QED BY <4>1
    <3>5. CASE Query(w, i)
      <4>1. PICK op \in ReadOps, u \in Operators :
              req' = [req EXCEPT ![w] =
                [Idle EXCEPT !.pc = IF op = "actions" THEN "permit" ELSE "locate",
                             !.op = op, !.inst = i, !.user = u]]
        BY <3>5 DEF Query, Begin
      <4> DEFINE r == [Idle EXCEPT !.pc = IF op = "actions" THEN "permit" ELSE "locate",
                        !.op = op, !.inst = i, !.user = u]
      <4>2. OK(r)
        BY <4>1 DEF Idle, NoRow, Stamped
      <4> HIDE DEF r, OK
      <4> QED BY <4>2
    <3> QED BY <1>2, <3>1, <3>2, <3>3, <3>4, <3>5
  <2> QED BY <1>1, <2>1, <2>2, StampedFrame
<1>3. ASSUME NEW w \in Workers, Step(w) \/ Abort(w)
      PROVE  AllStamped'
  <2> DEFINE q == req[w]
  <2>1. q \in Requests /\ PhaseOK(w)
    BY RequestFacts
  <2>2. CASE ReadPermit(w) \/ ReadLocate(w) \/ Delete(w) \/ Record(w) \/ Abort(w)
    <3>1. CASE Delete(w) \/ Record(w) \/ Abort(w)
      <4>1. req' = [req EXCEPT ![w] = Idle]
        BY <3>1 DEF Delete, Record, Abort, Advance
      <4>2. q.pc # "idle" => q.inst \in Instances
        BY <2>1 DEF PhaseOK
      <4>3. \A i \in Instances : Stamped(row'[i])
        <5>1. CASE Delete(w)
          <6>1. /\ q.inst \in Instances
                /\ row' = [row EXCEPT ![q.inst].life = IF Live(q.inst) THEN "deleted" ELSE @]
            BY <4>2, <5>1 DEF Delete
          <6>2. \A i \in Instances : row'[i].status = row[i].status /\ row'[i].completed = row[i].completed
            BY <1>1, <6>1 DEF Rows
          <6> QED BY <1>1, <6>2 DEF Stamped
        <5>2. CASE Record(w) \/ Abort(w)
          BY <1>1, <5>2 DEF Record, Abort
        <5> QED BY <3>1, <5>1, <5>2
      <4> QED BY <4>1, <4>3, StampedIdle, StampedFrame
    <3>2. CASE ReadPermit(w) \/ ReadLocate(w)
      <4>1. row' = row /\ q.pc # "idle"
        BY <3>2 DEF ReadPermit, ReadLocate
      <4>2. q.inst \in Instances
        BY <2>1, <4>1 DEF PhaseOK
      <4> DEFINE a == [q EXCEPT !.pc = "locate", !.seen = row[q.inst]]
                 b == [q EXCEPT !.pc = "resolve", !.read = row[q.inst]]
      <4>3. \/ req' = [req EXCEPT ![w] = Idle]
            \/ req' = [req EXCEPT ![w] = a]
            \/ req' = [req EXCEPT ![w] = b]
        BY <3>2 DEF ReadPermit, ReadLocate, Advance
      <4>4. Stamped(a.snap) /\ Stamped(a.read) /\ Stamped(b.snap) /\ Stamped(b.read)
        BY <1>1, <2>1, <4>2 DEF Requests
      <4> HIDE DEF a, b
      <4> QED BY <1>1, <4>1, <4>3, <4>4, StampedIdle, StampedFrame
    <3> QED BY <2>2, <3>1, <3>2
  <2>3. CASE Insert(w)
    <3> DEFINE p == [q EXCEPT !.pc = "record"]
    <3>1. req' = [req EXCEPT ![w] = p]
      BY <2>3 DEF Insert, Advance
    <3>2. \A i \in Instances : Stamped(row'[i])
      BY <1>1, <2>3 DEF Insert
    <3>3. Stamped(p.snap) /\ Stamped(p.read)
      BY <1>1, <2>1 DEF Requests
    <3> HIDE DEF p
    <3> QED BY <3>1, <3>2, <3>3, StampedFrame
  <2>4. CASE Resolve(w)
    <3> DEFINE p == [q EXCEPT !.step = LocateStep(process.def, q.read.step, q.read.status)]
    <3>1. p \in Requests /\ p.step \in StepRecords /\ p.snap = q.snap /\ p.read = q.read
      BY <1>1, <2>1, LocateStepFound DEF Requests
    <3>2. \E r : /\ req' = [req EXCEPT ![w] = r]
                 /\ \/ r = AfterCurrentStep(p)
                    \/ r = [p EXCEPT !.pc = "backfill"]
      BY <2>4 DEF Resolve, Advance
    <3>3. row' = row
      BY <2>4 DEF Resolve
    <3> HIDE DEF p
    <3>4. Stamped([p EXCEPT !.pc = "backfill"].snap) /\ Stamped([p EXCEPT !.pc = "backfill"].read)
      BY <1>1, <3>1 DEF Requests
    <3>5. Stamped(AfterCurrentStep(p).snap) /\ Stamped(AfterCurrentStep(p).read)
      BY <1>1, <3>1, StampedIdle, AfterCurrentStepType
    <3> QED BY <1>1, <3>2, <3>3, <3>4, <3>5, StampedFrame
  <2>5. CASE Backfill(w)
    <3>1. q.step \in StepRecords /\ q.inst \in Instances
      BY <2>1, <2>5 DEF Backfill, PhaseOK
    <3>2. req' = [req EXCEPT ![w] = AfterCurrentStep(q)]
      BY <2>5 DEF Backfill, Advance
    <3>3. Stamped(AfterCurrentStep(q).snap) /\ Stamped(AfterCurrentStep(q).read)
      BY <1>1, <2>1, <3>1, StampedIdle, AfterCurrentStepType
    <3> DEFINE n == [q.read EXCEPT !.step = q.step.id]
    <3>4. n \in Snapshots /\ Stamped(n)
      <4>1. q.read \in Rows /\ q.step.id \in AllStepIds
        BY <2>1, <3>1, StepRecordFacts DEF Requests
      <4> QED BY <1>1, <4>1 DEF Rows, Snapshots, Stamped
    <3>5. UNCHANGED row \/ UpdateInstance(q.inst, n)
      BY <2>5 DEF Backfill
    <3> HIDE DEF n
    <3>6. \A i \in Instances : Stamped(row'[i])
      BY <1>1, <3>1, <3>4, <3>5, StampedUpdate
    <3> QED BY <3>2, <3>3, <3>6, StampedFrame
  <2>6. CASE Plan(w)
    <3>1. q.op \in {"submit", "approve"} /\ row' = row /\ req' = [req EXCEPT ![w] = Planned(q)]
      BY <2>1, <2>6 DEF Plan, Advance, PhaseOK
    <3>2. PlannedType(q)
      BY <1>1, <2>1, PlannedTyped
    <3>3. Stamped(Planned(q).snap) /\ Stamped(Planned(q).read)
      BY <1>1, <3>1, <3>2 DEF PlannedType, Stamped
    <3> QED BY <1>1, <3>1, <3>3, StampedFrame
  <2>7. Stamped(AfterWrite(q).snap) /\ Stamped(AfterWrite(q).read)
    BY <1>1, <2>1, StampedIdle DEF AfterWrite, Requests
  <2>8. CASE WriteRow(w)
    <3>1. /\ q.inst \in Instances /\ UpdateInstance(q.inst, RowToWrite(q))
          /\ req' = [req EXCEPT ![w] = AfterWrite(q)]
      BY <2>1, <2>8 DEF WriteRow, PhaseOK, Advance
    <3>2. RowToWrite(q) \in Snapshots
      BY <2>1, RowToWriteType
    <3>3. Stamped(RowToWrite(q))
      BY <1>1, <2>1 DEF RowToWrite, Stamped, Requests, Snapshots, Rows
    <3>4. \A i \in Instances : Stamped(row'[i])
      BY <3>1, <3>2, <3>3, StampedUpdate
    <3> QED BY <2>7, <3>1, <3>4, StampedFrame
  <2>9. CASE WriteAssignee(w)
    <3>1. /\ q.inst \in Instances
          /\ row' = [row EXCEPT ![q.inst].assignee = IF Live(q.inst) THEN q.target ELSE @]
          /\ req' = [req EXCEPT ![w] = IF Live(q.inst) THEN [q EXCEPT !.pc = "writeStatus"] ELSE Idle]
      BY <2>1, <2>9 DEF WriteAssignee, PhaseOK, Advance
    <3>2. \A i \in Instances : Stamped(row'[i])
      BY <1>1, <3>1 DEF Stamped, Rows
    <3>3. Stamped([q EXCEPT !.pc = "writeStatus"].snap) /\ Stamped([q EXCEPT !.pc = "writeStatus"].read)
      BY <1>1, <2>1 DEF Requests
    <3> QED BY <3>1, <3>2, <3>3, StampedIdle, StampedFrame
  <2>10. CASE WriteStatus(w)
    <3>1. /\ q.inst \in Instances /\ q.op \in {"assign", "reject", "cancel"}
          /\ row' = [row EXCEPT ![q.inst].status = IF Live(q.inst) THEN TargetStatus(q.op) ELSE @]
          /\ req' = [req EXCEPT ![w] = AfterWrite(q)]
      BY <2>1, <2>10 DEF WriteStatus, PhaseOK, Advance
    <3>2. TargetStatus(q.op) # "Completed"
      BY <3>1 DEF TargetStatus
    <3>3. \A i \in Instances : Stamped(row'[i])
      BY <1>1, <3>1, <3>2 DEF Stamped, Rows
    <3> QED BY <2>7, <3>1, <3>3, StampedFrame
  <2> QED BY <1>3, <2>2, <2>3, <2>4, <2>5, <2>6, <2>8, <2>9, <2>10 DEF Step
<1>4. CASE UpdateProcess \/ UNCHANGED vars
  <2>1. req' = req /\ row' = row
    BY <1>4 DEF UpdateProcess, vars
  <2> QED BY <2>1 DEF AllStamped, Stamped
<1> QED BY <1>2, <1>3, <1>4 DEF Next

\* However requests overlap, an order that is Completed has its time.
THEOREM CompletedIsStamped ==
  ASSUME StampedRequests
  PROVE  Spec => []CompletedHasTime
<1>1. Init => AllStamped
  BY StampedIdle DEF Init, AllStamped
<1>2. Core /\ AllStamped /\ [Next]_vars => AllStamped'
  BY StampedStep
<1>3. AllStamped => CompletedHasTime
  BY DEF AllStamped, Stamped, CompletedHasTime
<1> QED BY <1>1, <1>2, <1>3, CoreInvariant, PTL DEF Spec

(***************************************************************************)
(* Who is shut out of an order that is not finished.                        *)
(***************************************************************************)
\* A step turns away every user there is in one case only.
LEMMA WhoCanOperate ==
  ASSUME Operators # {}, NEW s \in StepRecords, NEW assignee
  PROVE  (\E u \in Operators : canUserOperate(s, u, assignee)) <=>
           ~(/\ s.assigneeType = "user" /\ s.assigneeIds # {}
             /\ (s.assigneeIds \cup {assignee}) \cap Operators = {})
<1>1. PICK v \in Operators : TRUE
  OBVIOUS
<1>2. CASE s.assigneeType = "user" /\ s.assigneeIds # {}
  <2>1. \A u \in Operators : canUserOperate(s, u, assignee) <=>
                               u \in s.assigneeIds \cup {assignee}
    BY <1>2 DEF canUserOperate
  <2> QED BY <1>2, <2>1
<1>3. CASE ~(s.assigneeType = "user" /\ s.assigneeIds # {})
  <2>1. canUserOperate(s, v, assignee)
    BY <1>3 DEF canUserOperate
  <2> QED BY <1>1, <1>3, <2>1
<1> QED BY <1>2, <1>3

\* However requests overlap, fail or edit the process: while there is a user at
\* all, an order that is not finished is stuck if, and only if, its step names
\* users and neither they nor the assignee exist.
THEOREM StuckExactlyOnMissingUsers ==
  ASSUME Operators # {}
  PROVE  Spec => []StuckOnMissingUsersOnly
<1>1. Core => StuckOnMissingUsersOnly
  <2> SUFFICES ASSUME Core, NEW i \in Instances, Live(i),
                      row[i].status \in {"Draft"} \cup OpenStatuses
               PROVE  LET s == LocateStep(process.def, row[i].step, row[i].status) IN
                      ~SomebodyCanAct(i, s) <=>
                        /\ s.assigneeType = "user" /\ s.assigneeIds # {}
                        /\ (s.assigneeIds \cup {row[i].assignee}) \cap Operators = {}
    BY DEF StuckOnMissingUsersOnly
  <2> DEFINE s == LocateStep(process.def, row[i].step, row[i].status)
             op == IF row[i].status = "Draft" THEN "submit" ELSE "cancel"
  <2>1. s \in StepRecords
    BY LocateStepFound DEF Core, TypeOK
  <2>2. op \in FlowActions /\ StatusAllows(op, row[i].status)
        /\ op \in getActionsForStep(s, row[i].status)
    <3> HIDE DEF s
    <3> QED BY DEF FlowActions, OpenStatuses, StatusAllows, getActionsForStep
  <2> HIDE DEF s, op
  <2>3. SomebodyCanAct(i, s) <=> \E u \in Operators : canUserOperate(s, u, row[i].assignee)
    BY <2>2 DEF SomebodyCanAct
  <2>4. ~SomebodyCanAct(i, s) <=>
          /\ s.assigneeType = "user" /\ s.assigneeIds # {}
          /\ (s.assigneeIds \cup {row[i].assignee}) \cap Operators = {}
    BY <2>1, <2>3, WhoCanOperate
  <2> QED BY <2>4 DEF s
<1> QED BY <1>1, CoreInvariant, PTL
====
