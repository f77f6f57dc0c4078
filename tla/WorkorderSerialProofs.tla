---- MODULE WorkorderSerialProofs ----
(***************************************************************************)
(* Theorems of WorkorderInstance when requests do not overlap: the final    *)
(* statuses are final, the flow records tell the life of an instance, and   *)
(* the engine implements WorkorderLifecycle.                                *)
(*                                                                         *)
(* InTurn is what a request that is alone knows of its row: it is live with *)
(* the status that was checked, whatever the request's own reads and        *)
(* backfills did since.  It holds when DAO calls fail and when the process  *)
(* is edited.  AllRecorded and AllFaithful add what the tail of a handler   *)
(* records and what its write will store.                                   *)
(***************************************************************************)
EXTENDS WorkorderInstanceProofs

\* Requests do not overlap.
OneWorker == \A v, w \in Workers : v = w

\* The phases of a request between its status guard and its last write.
Moving == {"permit", "locate", "resolve", "backfill", "plan", "write", "writeStatus"}

Turn(q, r) ==
  /\ q.op \in FlowActions /\ q.pc \in Moving =>
       r.life = "live" /\ r.status = q.from /\ StatusAllows(q.op, q.from)
  /\ q.pc = "write" /\ q.op \in {"update", "delete"} =>
       r.life = "live" /\ StatusAllows(q.op, r.status)
  /\ q.pc \in {"resolve", "backfill"} => q.read = r

InTurn == \A w \in Workers : req[w].pc # "idle" => Turn(req[w], row[req[w].inst])

(***************************************************************************)
(* What each action does to the request that takes it.                      *)
(***************************************************************************)
Becomes(w, r) == req' = [req EXCEPT ![w] = r]

LEMMA BecomesIs ==
  ASSUME Core, NEW w \in Workers, NEW r, Becomes(w, r)
  PROVE  req'[w] = r
BY DEF Core, TypeOK, Becomes

\* A request that is begun.
Created(r, i) ==
  /\ r.pc = "insert" /\ r.op \in CreateOps /\ r.inst = i /\ ~r.second
  /\ r.from = "Draft" /\ r.to = r.snap.status
  /\ r.snap.life = "live" /\ r.snap.status \in CreateStatuses
  /\ r.snap.step = InitialStepId(r.op, r.snap.status)
  /\ r.op = "create-from-template" => r.snap.status = "Draft"
  /\ row[i].life = "absent"

Loaded(r, i) ==
  /\ r.pc = "permit" /\ r.op \in FlowActions /\ r.inst = i /\ ~r.second
  /\ Live(i) /\ StatusAllows(r.op, row[i].status)
  /\ r.snap = row[i] /\ r.from = row[i].status

Updating(r, i) ==
  /\ r.pc = "write" /\ r.op = "update" /\ r.inst = i /\ ~r.second
  /\ Live(i) /\ StatusAllows("update", row[i].status)
  /\ r.snap.step = NoStep
  /\ \E e \in Edits : r.snap.status = e.status

Deleting(r, i) ==
  /\ r.pc = "write" /\ r.op = "delete" /\ r.inst = i /\ ~r.second
  /\ Live(i) /\ StatusAllows("delete", row[i].status)

Querying(r, i) == r.pc \in {"permit", "locate"} /\ r.op \in ReadOps /\ r.inst = i /\ ~r.second

Begun(r, i) == Created(r, i) \/ Loaded(r, i) \/ Updating(r, i) \/ Deleting(r, i) \/ Querying(r, i)

LEMMA BeginFacts ==
  ASSUME Core, NEW w \in Workers, NEW i \in Instances,
         PrepareCreate(w, i) \/ Load(w, i) \/ LoadForUpdate(w, i)
           \/ LoadForDelete(w, i) \/ Query(w, i)
  PROVE  /\ UNCHANGED <<process, row, trail>> /\ req[w].pc = "idle"
         /\ \E r : Becomes(w, r) /\ Begun(r, i)
<1>1. UNCHANGED <<process, row, trail>> /\ req[w].pc = "idle"
  BY DEF PrepareCreate, Load, LoadForUpdate, LoadForDelete, Query, Begin
<1>2. CASE PrepareCreate(w, i)
  <2> DEFINE R(op, u, target, status) ==
               [Idle EXCEPT !.pc = "insert", !.op = op, !.inst = i, !.user = u, !.to = status,
                  !.snap = [life |-> "live", status |-> status,
                            step |-> InitialStepId(op, status),
                            assignee |-> target, completed |-> FALSE]]
  <2>1. PICK op \in CreateOps, u \in Operators, target \in UserIds \cup {NoUser},
             status \in CreateStatuses :
          /\ Begin(w, R(op, u, target, status)) /\ row[i].life = "absent"
          /\ op = "create-from-template" => status = "Draft"
    BY <1>2, Zenon DEF PrepareCreate
  <2> DEFINE r == R(op, u, target, status)
  <2>2. /\ r.pc = "insert" /\ r.op = op /\ r.inst = i /\ r.second = FALSE
        /\ r.from = "Draft" /\ r.to = status /\ r.snap.life = "live" /\ r.snap.status = status
        /\ r.snap.step = InitialStepId(op, status)
    BY DEF Idle
  <2>3. Becomes(w, r) BY <2>1 DEF Begin, Becomes
  <2> HIDE DEF r
  <2>4. Created(r, i) BY <2>1, <2>2 DEF Created
  <2> QED BY <1>1, <2>3, <2>4 DEF Begun
<1>3. CASE Load(w, i)
  <2>1. PICK op \in FlowActions, u \in Operators, target \in UserIds \cup {NoUser} :
          /\ Live(i) /\ StatusAllows(op, row[i].status)
          /\ Begin(w, [Idle EXCEPT !.pc = "permit", !.op = op, !.inst = i, !.user = u,
                         !.target = target, !.snap = row[i], !.from = row[i].status])
    BY <1>3 DEF Load
  <2> DEFINE r == [Idle EXCEPT !.pc = "permit", !.op = op, !.inst = i, !.user = u,
                     !.target = target, !.snap = row[i], !.from = row[i].status]
  <2>2. /\ r.pc = "permit" /\ r.op = op /\ r.inst = i /\ r.second = FALSE
        /\ r.snap = row[i] /\ r.from = row[i].status
    BY DEF Idle
  <2>3. Becomes(w, r) BY <2>1 DEF Begin, Becomes
  <2> HIDE DEF r
  <2>4. Loaded(r, i) BY <2>1, <2>2 DEF Loaded
  <2> QED BY <1>1, <2>3, <2>4 DEF Begun
<1>4. CASE LoadForUpdate(w, i)
  <2>1. PICK e \in Edits, assignee \in UserIds \cup {NoUser} :
          /\ Live(i) /\ StatusAllows("update", row[i].status)
          /\ Begin(w, [Idle EXCEPT !.pc = "write", !.op = "update", !.inst = i,
                         !.snap = [life |-> "live", status |-> e.status, step |-> NoStep,
                                   assignee |-> assignee, completed |-> e.completed]])
    BY <1>4 DEF LoadForUpdate
  <2> DEFINE r == [Idle EXCEPT !.pc = "write", !.op = "update", !.inst = i,
                     !.snap = [life |-> "live", status |-> e.status, step |-> NoStep,
                               assignee |-> assignee, completed |-> e.completed]]
  <2>2. /\ r.pc = "write" /\ r.op = "update" /\ r.inst = i /\ r.second = FALSE
        /\ r.snap.step = NoStep /\ r.snap.status = e.status
    BY DEF Idle
  <2>3. Becomes(w, r) BY <2>1 DEF Begin, Becomes
  <2> HIDE DEF r
  <2>4. Updating(r, i) BY <2>1, <2>2 DEF Updating
  <2> QED BY <1>1, <2>3, <2>4 DEF Begun
<1>5. CASE LoadForDelete(w, i)
  <2> DEFINE r == [Idle EXCEPT !.pc = "write", !.op = "delete", !.inst = i]
  <2>1. r.pc = "write" /\ r.op = "delete" /\ r.inst = i /\ r.second = FALSE BY DEF Idle
  <2>2. Becomes(w, r) BY <1>5 DEF LoadForDelete, Begin, Becomes
  <2> HIDE DEF r
  <2>3. Deleting(r, i) BY <1>5, <2>1 DEF LoadForDelete, Deleting
  <2> QED BY <1>1, <2>2, <2>3 DEF Begun
<1>6. CASE Query(w, i)
  <2>1. PICK op \in ReadOps, u \in Operators :
          Begin(w, [Idle EXCEPT !.pc = IF op = "actions" THEN "permit" ELSE "locate",
                                !.op = op, !.inst = i, !.user = u])
    BY <1>6 DEF Query
  <2> DEFINE r == [Idle EXCEPT !.pc = IF op = "actions" THEN "permit" ELSE "locate",
                               !.op = op, !.inst = i, !.user = u]
  <2>2. r.pc \in {"permit", "locate"} /\ r.op = op /\ r.inst = i /\ r.second = FALSE BY DEF Idle
  <2>3. Becomes(w, r) BY <2>1 DEF Begin, Becomes
  <2> HIDE DEF r
  <2>4. Querying(r, i) BY <2>2 DEF Querying
  <2> QED BY <1>1, <2>3, <2>4 DEF Begun
<1> QED BY <1>2, <1>3, <1>4, <1>5, <1>6

\* A request goes on with what it was about.
Same(r, q) == /\ r.op = q.op /\ r.inst = q.inst /\ r.from = q.from /\ r.to = q.to /\ r.snap = q.snap

\* What GetCurrentStep leads to.
Located(r, q) ==
  \/ r = Idle
  \/ /\ Same(r, q) /\ q.op \notin ReadOps
     /\ \/ /\ r.pc = "plan" /\ r.second = q.second /\ r.step = q.step
           /\ q.op = "submit" \/ (q.op = "approve" /\ q.second)
        \/ r.pc = "locate" /\ q.op = "approve" /\ ~q.second /\ r.second
        \/ r.pc = "write" /\ q.op \notin {"submit", "approve"} /\ r.second = q.second

LEMMA AfterStepFacts ==
  ASSUME NEW q \in Requests
  PROVE  Located(AfterCurrentStep(q), q)
<1> DEFINE r == [q EXCEPT !.seen = NoRow, !.read = NoRow]
           p == [r EXCEPT !.pc = "plan"]
           l == [r EXCEPT !.pc = "locate", !.second = TRUE]
           t == [r EXCEPT !.pc = "write", !.step = NoStep]
<1>1. /\ Same(p, q) /\ p.pc = "plan" /\ p.second = q.second /\ p.step = q.step
      /\ Same(l, q) /\ l.pc = "locate" /\ l.second
      /\ Same(t, q) /\ t.pc = "write" /\ t.second = q.second
  BY DEF Requests, Same
<1>2. \/ AfterCurrentStep(q) = Idle
      \/ /\ AfterCurrentStep(q) = p /\ q.op \notin ReadOps
         /\ q.op = "submit" \/ (q.op = "approve" /\ q.second)
      \/ AfterCurrentStep(q) = l /\ q.op = "approve" /\ ~q.second /\ q.op \notin ReadOps
      \/ AfterCurrentStep(q) = t /\ q.op \notin {"submit", "approve"} /\ q.op \notin ReadOps
  BY DEF AfterCurrentStep
<1> HIDE DEF r, p, l, t
<1> QED BY <1>1, <1>2 DEF Located

\* The two reads and the resolution of the current step.
LEMMA ReadFacts ==
  ASSUME Core, NEW w \in Workers, ReadPermit(w) \/ ReadLocate(w)
  PROVE  /\ UNCHANGED <<process, row, trail>>
         /\ req[w].pc \in {"permit", "locate"} /\ req[w].inst \in Instances
         /\ \E r : /\ Becomes(w, r)
                   /\ \/ r = Idle
                      \/ /\ Same(r, req[w]) /\ r.second = req[w].second
                         /\ \/ r.pc = "locate" /\ req[w].pc = "permit"
                            \/ r.pc = "resolve" /\ r.read = row[req[w].inst] /\ Live(req[w].inst)
<1> DEFINE q == req[w]
<1>1. q \in Requests /\ PhaseOK(w) BY RequestFacts
<1>2. q.pc \in {"permit", "locate"} /\ UNCHANGED <<process, row, trail>>
  BY DEF ReadPermit, ReadLocate
<1>3. q.inst \in Instances BY <1>1, <1>2 DEF PhaseOK
<1> DEFINE a == [q EXCEPT !.pc = "locate", !.seen = row[q.inst]]
           b == [q EXCEPT !.pc = "resolve", !.read = row[q.inst]]
<1>4. /\ Same(a, q) /\ a.pc = "locate" /\ a.second = q.second
      /\ Same(b, q) /\ b.pc = "resolve" /\ b.second = q.second /\ b.read = row[q.inst]
  BY <1>1 DEF Requests, Same
<1>5. \/ Becomes(w, Idle)
      \/ Becomes(w, a) /\ q.pc = "permit"
      \/ Becomes(w, b) /\ Live(q.inst)
  BY DEF ReadPermit, ReadLocate, Advance, Becomes
<1> HIDE DEF a, b
<1> QED BY <1>2, <1>3, <1>4, <1>5

LEMMA ResolveFacts ==
  ASSUME Core, NEW w \in Workers, Resolve(w)
  PROVE  /\ UNCHANGED <<process, row, trail>>
         /\ req[w].pc = "resolve" /\ req[w].inst \in Instances
         /\ \E p \in Requests : \E r :
              /\ Becomes(w, r)
              /\ Same(p, req[w]) /\ p.second = req[w].second /\ p.read = req[w].read
              /\ p.step = LocateStep(process.def, req[w].read.step, req[w].read.status)
              /\ IF req[w].read.step = NoStep
                 THEN r.pc = "backfill" /\ Same(r, p) /\ r.second = p.second /\ r.read = p.read
                      /\ r.step = p.step
                 ELSE Located(r, p)
<1> DEFINE q == req[w]
           s == LocateStep(process.def, q.read.step, q.read.status)
           p == [q EXCEPT !.step = s]
           b == [p EXCEPT !.pc = "backfill"]
<1>1. q \in Requests /\ PhaseOK(w) BY RequestFacts
<1>2. process.def \in Definitions BY DEF Core, TypeOK
<1>3. s \in StepRecords BY <1>2, LocateStepFound
<1>4. p \in Requests /\ Same(p, q) /\ p.second = q.second /\ p.read = q.read /\ p.step = s
      /\ p.pc = q.pc
  BY <1>1, <1>3 DEF Requests, Same
<1>5. b.pc = "backfill" /\ Same(b, p) /\ b.second = p.second /\ b.read = p.read /\ b.step = p.step
  BY <1>4 DEF Requests, Same
<1>6. UNCHANGED <<process, row, trail>> /\ q.pc = "resolve"
      /\ Becomes(w, IF q.read.step = NoStep THEN b ELSE AfterCurrentStep(p))
  BY <1>4 DEF Resolve, Advance, Becomes
<1>7. q.inst \in Instances BY <1>1, <1>6 DEF PhaseOK
<1>8. Located(AfterCurrentStep(p), p) BY <1>4, AfterStepFacts
<1> HIDE DEF b, p, s
<1>9. CASE q.read.step = NoStep
  <2>1. Becomes(w, b) BY <1>6, <1>9
  <2> QED BY <1>4, <1>5, <1>6, <1>7, <1>9, <2>1 DEF s
<1>10. CASE q.read.step # NoStep
  <2>1. Becomes(w, AfterCurrentStep(p)) BY <1>6, <1>10
  <2> QED BY <1>4, <1>6, <1>7, <1>8, <1>10, <2>1 DEF s
<1> QED BY <1>9, <1>10

\* dao.UpdateInstance of the row q is about.
Merged(q, new) ==
  /\ row'[q.inst] = IF Live(q.inst) THEN MergeNonZero(row[q.inst], new) ELSE row[q.inst]
  /\ \A j \in Instances : j # q.inst => row'[j] = row[j]

LEMMA UpdateFacts ==
  ASSUME Core, NEW q, q.inst \in Instances, NEW new, UpdateInstance(q.inst, new)
  PROVE  Merged(q, new)
BY DEF Core, TypeOK, UpdateInstance, Merged

\* Where dao.UpdateInstance leaves the columns the handlers decide by.
LEMMA MergeColumns ==
  ASSUME NEW old \in Rows, NEW new
  PROVE  /\ MergeNonZero(old, new).life = old.life
         /\ MergeNonZero(old, new).status = IF new.status = Unset THEN old.status ELSE new.status
         /\ MergeNonZero(old, new).step = IF new.step = NoStep THEN old.step ELSE new.step
BY DEF MergeNonZero, Rows

LEMMA BackfillFacts ==
  ASSUME Core, NEW w \in Workers, Backfill(w)
  PROVE  /\ UNCHANGED <<process, trail>> /\ req[w].pc = "backfill" /\ req[w].inst \in Instances
         /\ \E r : Becomes(w, r) /\ Located(r, req[w])
         /\ \/ Failures /\ UNCHANGED row
            \/ Merged(req[w], [req[w].read EXCEPT !.step = req[w].step.id])
         /\ [req[w].read EXCEPT !.step = req[w].step.id].status = req[w].read.status
         /\ [req[w].read EXCEPT !.step = req[w].step.id].step = req[w].step.id
<1> DEFINE q == req[w]
           n == [q.read EXCEPT !.step = q.step.id]
<1>1. q \in Requests /\ PhaseOK(w) BY RequestFacts
<1>2. UNCHANGED <<process, trail>> /\ q.pc = "backfill" BY DEF Backfill
<1>3. q.inst \in Instances BY <1>1, <1>2 DEF PhaseOK
<1>4. (Failures /\ UNCHANGED row) \/ UpdateInstance(q.inst, n) BY DEF Backfill, LogOutcomes
<1>5. Becomes(w, AfterCurrentStep(q)) BY DEF Backfill, Advance, Becomes
<1>6. n.status = q.read.status /\ n.step = q.step.id BY <1>1 DEF Requests, Rows
<1> HIDE DEF n
<1>7. (Failures /\ UNCHANGED row) \/ Merged(q, n) BY <1>3, <1>4, UpdateFacts
<1>8. Located(AfterCurrentStep(q), q) BY <1>1, AfterStepFacts
<1> QED BY <1>2, <1>3, <1>5, <1>6, <1>7, <1>8 DEF n

LEMMA PlanFacts ==
  ASSUME Core, NEW w \in Workers, Plan(w)
  PROVE  /\ UNCHANGED <<process, row, trail>> /\ req[w].pc = "plan" /\ req[w].inst \in Instances
         /\ req[w].op \in {"submit", "approve"}
         /\ \E r : LET next == IF req[w].op = "submit" THEN FirstRealStep(process.def)
                               ELSE getNextStep(process.def, req[w].step)
                       to == IF req[w].op = "submit" THEN "Pending" ELSE ApproveStatus(next)
                   IN
                   /\ Becomes(w, r) /\ r.pc = "write"
                   /\ r.op = req[w].op /\ r.inst = req[w].inst /\ r.from = req[w].from
                   /\ r.second = req[w].second
                   /\ r.to = to /\ r.snap.status = to
                   /\ r.snap.step = IF next = NoStep THEN NoStep ELSE next.id
<1> DEFINE q == req[w]
           next == IF q.op = "submit" THEN FirstRealStep(process.def)
                   ELSE getNextStep(process.def, q.step)
           to == IF q.op = "submit" THEN "Pending" ELSE ApproveStatus(next)
           id == IF next = NoStep THEN NoStep ELSE next.id
           r == Planned(q)
<1>1. q \in Requests /\ PhaseOK(w) BY RequestFacts
<1>2. UNCHANGED <<process, row, trail>> /\ q.pc = "plan" /\ Becomes(w, r)
  BY DEF Plan, Advance, Becomes
<1>3. q.inst \in Instances /\ q.op \in {"submit", "approve"} BY <1>1, <1>2 DEF PhaseOK
<1>4. /\ r.pc = "write" /\ r.op = q.op /\ r.inst = q.inst /\ r.from = q.from /\ r.second = q.second
      /\ r.to = to /\ r.snap.status = to /\ r.snap.step = id
  <2>1. r = [q EXCEPT !.pc = "write", !.step = NoStep, !.to = to, !.snap.status = to,
                      !.snap.step = id, !.snap.completed = @ \/ (q.op = "approve" /\ to = "Completed")]
    BY DEF Planned
  <2> HIDE DEF r, to, id, next
  <2>2. /\ r.pc = "write" /\ r.op = q.op /\ r.inst = q.inst /\ r.from = q.from
        /\ r.second = q.second /\ r.to = to
    BY <1>1, <2>1 DEF Requests
  <2>3. q.snap \in Snapshots BY <1>1 DEF Requests
  <2>4. r.snap.status = to /\ r.snap.step = id BY <1>1, <2>1, <2>3 DEF Requests, Snapshots, Rows
  <2> QED BY <2>2, <2>4
<1> HIDE DEF r
<1> QED BY <1>2, <1>3, <1>4

\* A request after its last write.
Written(r, q) ==
  \/ r = Idle /\ (~Live(q.inst) \/ q.op \in {"update", "delete"})
  \/ /\ r.pc = "record" /\ r.op = q.op /\ r.inst = q.inst /\ r.from = q.from /\ ~(q.op \in {"update", "delete"})
     /\ Live(q.inst)
     /\ r.to = IF q.op \in {"submit", "approve"} THEN q.to ELSE TargetStatus(q.op)

LEMMA AfterWriteFacts ==
  ASSUME NEW q \in Requests
  PROVE  Written(AfterWrite(q), q)
BY DEF AfterWrite, Written, Requests

LEMMA WriteRowFacts ==
  ASSUME Core, NEW w \in Workers, WriteRow(w)
  PROVE  /\ UNCHANGED <<process, trail>> /\ req[w].pc = "write" /\ req[w].inst \in Instances
         /\ req[w].op \in RowWriteOps
         /\ \E r : Becomes(w, r) /\ Written(r, req[w])
         /\ \E new : /\ Merged(req[w], new)
                     /\ new.step = req[w].snap.step
                     /\ new.status = CASE req[w].op = "complete" -> "Completed"
                                       [] req[w].op = "return" -> "Draft"
                                       [] OTHER -> req[w].snap.status
<1> DEFINE q == req[w]
           new == RowToWrite(q)
<1>1. q \in Requests /\ PhaseOK(w) BY RequestFacts
<1>2. /\ UNCHANGED <<process, trail>> /\ q.pc = "write" /\ q.op \in RowWriteOps
      /\ UpdateInstance(q.inst, new) /\ Becomes(w, AfterWrite(q))
  BY DEF WriteRow, Advance, Becomes
<1>3. q.inst \in Instances BY <1>1, <1>2 DEF PhaseOK
<1>4. q.snap \in Snapshots BY <1>1 DEF Requests
<1>5. /\ new.step = q.snap.step
      /\ new.status = CASE q.op = "complete" -> "Completed" [] q.op = "return" -> "Draft"
                        [] OTHER -> q.snap.status
  BY <1>4 DEF RowToWrite, Snapshots, Rows
<1> HIDE DEF new
<1>6. Merged(q, new) BY <1>2, <1>3, UpdateFacts
<1>7. Written(AfterWrite(q), q) BY <1>1, AfterWriteFacts
<1> QED BY <1>2, <1>3, <1>5, <1>6, <1>7

LEMMA AssigneeFacts ==
  ASSUME Core, NEW w \in Workers, WriteAssignee(w)
  PROVE  /\ UNCHANGED <<process, trail>> /\ req[w].pc = "write" /\ req[w].inst \in Instances
         /\ req[w].op = "assign"
         /\ \E r : /\ Becomes(w, r)
                   /\ \/ r = Idle
                      \/ r.pc = "writeStatus" /\ Same(r, req[w]) /\ r.second = req[w].second
         /\ \A j \in Instances : /\ row'[j].life = row[j].life /\ row'[j].status = row[j].status
                                 /\ row'[j].step = row[j].step
<1> DEFINE q == req[w]
           r == [q EXCEPT !.pc = "writeStatus"]
<1>1. q \in Requests /\ PhaseOK(w) BY RequestFacts
<1>2. /\ UNCHANGED <<process, trail>> /\ q.pc = "write" /\ q.op = "assign"
      /\ row' = [row EXCEPT ![q.inst].assignee = IF Live(q.inst) THEN q.target ELSE @]
      /\ Becomes(w, r) \/ Becomes(w, Idle)
  BY DEF WriteAssignee, Advance, Becomes
<1>3. q.inst \in Instances BY <1>1, <1>2 DEF PhaseOK
<1>4. \A j \in Instances : /\ row'[j].life = row[j].life /\ row'[j].status = row[j].status
                           /\ row'[j].step = row[j].step
  BY <1>2, <1>3 DEF Core, TypeOK, Rows
<1>5. r.pc = "writeStatus" /\ Same(r, q) /\ r.second = q.second BY <1>1 DEF Requests, Same
<1> HIDE DEF r
<1> QED BY <1>2, <1>3, <1>4, <1>5

LEMMA StatusFacts ==
  ASSUME Core, NEW w \in Workers, WriteStatus(w)
  PROVE  /\ UNCHANGED <<process, trail>> /\ req[w].inst \in Instances
         /\ \/ req[w].pc = "write" /\ req[w].op \in {"reject", "cancel"}
            \/ req[w].pc = "writeStatus" /\ req[w].op = "assign"
         /\ \E r : Becomes(w, r) /\ Written(r, req[w])
         /\ row'[req[w].inst].status = IF Live(req[w].inst) THEN TargetStatus(req[w].op)
                                       ELSE row[req[w].inst].status
         /\ \A j \in Instances : j # req[w].inst => row'[j].status = row[j].status
         /\ \A j \in Instances : row'[j].life = row[j].life /\ row'[j].step = row[j].step
<1> DEFINE q == req[w]
<1>1. q \in Requests /\ PhaseOK(w) BY RequestFacts
<1>2. /\ UNCHANGED <<process, trail>>
      /\ (q.pc = "write" /\ q.op \in {"reject", "cancel"}) \/ (q.pc = "writeStatus" /\ q.op = "assign")
      /\ row' = [row EXCEPT ![q.inst].status = IF Live(q.inst) THEN TargetStatus(q.op) ELSE @]
      /\ Becomes(w, AfterWrite(q))
  BY DEF WriteStatus, Advance, Becomes
<1>3. q.inst \in Instances BY <1>1, <1>2 DEF PhaseOK
<1>4. Written(AfterWrite(q), q) BY <1>1, AfterWriteFacts
<1>5. /\ row'[q.inst].status = IF Live(q.inst) THEN TargetStatus(q.op) ELSE row[q.inst].status
      /\ \A j \in Instances : j # q.inst => row'[j].status = row[j].status
      /\ \A j \in Instances : row'[j].life = row[j].life /\ row'[j].step = row[j].step
  BY <1>2, <1>3 DEF Core, TypeOK, Rows
<1> QED BY <1>2, <1>3, <1>4, <1>5

\* The actions after which the request is over, and what they leave of the rows.
LEMMA EndFacts ==
  ASSUME Core, NEW w \in Workers, Delete(w) \/ Record(w) \/ Abort(w)
  PROVE  /\ UNCHANGED process /\ Becomes(w, Idle) /\ req[w].inst \in Instances /\ req[w].pc # "idle"
         /\ Record(w) \/ Abort(w) => row' = row
         /\ Delete(w) => /\ req[w].pc = "write" /\ req[w].op = "delete"
                         /\ row'[req[w].inst].life = IF Live(req[w].inst) THEN "deleted"
                                                     ELSE row[req[w].inst].life
                         /\ \A j \in Instances : j # req[w].inst => row'[j] = row[j]
                         /\ \A j \in Instances : /\ row'[j].status = row[j].status
                                                 /\ row'[j].step = row[j].step
         /\ Delete(w) \/ Abort(w) => trail' = trail
<1> DEFINE q == req[w]
<1>1. q \in Requests /\ PhaseOK(w) BY RequestFacts
<1>2. UNCHANGED process /\ Becomes(w, Idle) /\ q.pc # "idle"
      /\ (Record(w) \/ Abort(w) => row' = row)
      /\ (Delete(w) \/ Abort(w) => trail' = trail)
  BY DEF Delete, Record, Abort, Advance, Becomes
<1>3. q.inst \in Instances BY <1>1, <1>2 DEF PhaseOK
<1>4. CASE Delete(w)
  <2>1. /\ q.pc = "write" /\ q.op = "delete"
        /\ row' = [row EXCEPT ![q.inst].life = IF Live(q.inst) THEN "deleted" ELSE @]
    BY <1>4 DEF Delete
  <2> QED BY <1>2, <1>3, <2>1 DEF Core, TypeOK, Rows
<1> QED BY <1>2, <1>3, <1>4

LEMMA InsertFacts ==
  ASSUME Core, NEW w \in Workers, Insert(w)
  PROVE  /\ UNCHANGED <<process, trail>> /\ req[w].pc = "insert" /\ req[w].inst \in Instances
         /\ req[w].op \in CreateOps /\ row[req[w].inst].life = "absent"
         /\ req[w].snap.life = "live"
         /\ row'[req[w].inst] = req[w].snap /\ \A j \in Instances : j # req[w].inst => row'[j] = row[j]
         /\ \E r : Becomes(w, r) /\ Same(r, req[w]) /\ r.pc = "record" /\ r.second = req[w].second
<1> DEFINE q == req[w]
           r == [q EXCEPT !.pc = "record"]
<1>1. q \in Requests /\ PhaseOK(w) BY RequestFacts
<1>2. /\ UNCHANGED <<process, trail>> /\ q.pc = "insert"
      /\ row' = [row EXCEPT ![q.inst] = q.snap] /\ Becomes(w, r)
  BY DEF Insert, Advance, Becomes
<1>3. q.inst \in Instances /\ q.op \in CreateOps /\ row[q.inst].life = "absent" /\ q.snap.life = "live"
  BY <1>1, <1>2 DEF PhaseOK
<1>4. row'[q.inst] = q.snap /\ \A j \in Instances : j # q.inst => row'[j] = row[j]
  BY <1>2, <1>3 DEF Core, TypeOK
<1>5. Same(r, q) /\ r.pc = "record" /\ r.second = q.second BY <1>1 DEF Requests, Same
<1> HIDE DEF r
<1> QED BY <1>2, <1>3, <1>4, <1>5

(***************************************************************************)
(* InTurn, and that the final statuses are final.                           *)
(***************************************************************************)
\* With one worker it is enough to look at the request that moved.
LEMMA TurnFrame ==
  ASSUME OneWorker, Core, NEW w \in Workers, NEW r, Becomes(w, r),
         r.pc # "idle" => Turn(r, row'[r.inst])
  PROVE  InTurn'
<1>1. req'[w] = r BY BecomesIs
<1>2. \A v \in Workers : v = w BY DEF OneWorker
<1> QED BY <1>1, <1>2 DEF InTurn

LEMMA TurnIdle == Idle.pc = "idle"
BY DEF Idle

\* A request before its write whose row did not change in life and status, and still is the copy
\* the request read, if it read one.
LEMMA TurnGoesOn ==
  ASSUME NEW q, NEW r, NEW old, NEW new, Turn(q, old), Same(r, q),
         q.op \in FlowActions => q.pc \in Moving,
         r.pc = "write" => q.op \notin {"update", "delete"},
         new.life = old.life, new.status = old.status,
         r.pc \in {"resolve", "backfill"} => r.read = new
  PROVE  Turn(r, new)
BY DEF Turn, Same

LEMMA TurnBegins ==
  ASSUME OneWorker, Core, NEW w \in Workers, NEW i \in Instances,
         PrepareCreate(w, i) \/ Load(w, i) \/ LoadForUpdate(w, i)
           \/ LoadForDelete(w, i) \/ Query(w, i)
  PROVE  InTurn'
<1>1. PICK r : Becomes(w, r) /\ Begun(r, i) BY BeginFacts
<1>2. row' = row BY BeginFacts
<1>3. Turn(r, row[i])
  BY <1>1 DEF Begun, Created, Loaded, Updating, Deleting, Querying, Turn, Live, CreateOps, ReadOps,
              FlowActions, Moving
<1>4. r.inst = i BY <1>1 DEF Begun, Created, Loaded, Updating, Deleting, Querying
<1> QED BY <1>1, <1>2, <1>3, <1>4, TurnFrame

LEMMA TurnReads ==
  ASSUME OneWorker, Core, InTurn, NEW w \in Workers,
         ReadPermit(w) \/ ReadLocate(w) \/ Resolve(w) \/ Backfill(w) \/ Plan(w)
  PROVE  InTurn'
<1> DEFINE q == req[w]
<1>1. q \in Requests /\ PhaseOK(w) BY RequestFacts
<1>2. CASE ReadPermit(w) \/ ReadLocate(w)
  <2>1. /\ row' = row /\ q.pc \in {"permit", "locate"} /\ q.inst \in Instances
    BY <1>2, ReadFacts
  <2>2. PICK r : /\ Becomes(w, r)
                 /\ \/ r = Idle
                    \/ /\ Same(r, q)
                       /\ r.pc = "locate" \/ (r.pc = "resolve" /\ r.read = row[q.inst])
    BY <1>2, ReadFacts
  <2>3. CASE r = Idle BY <2>2, <2>3, TurnIdle, TurnFrame
  <2>4. CASE r # Idle
    <3>1. Turn(q, row[q.inst]) BY <2>1 DEF InTurn
    <3>2. Turn(r, row[q.inst]) BY <2>1, <2>2, <2>4, <3>1, TurnGoesOn DEF Moving
    <3> QED BY <2>1, <2>2, <2>4, <3>2, TurnFrame DEF Same
  <2> QED BY <2>3, <2>4
<1>3. ASSUME NEW p, NEW r, q.pc \in {"resolve", "backfill"}, Same(p, q), Located(r, p), Becomes(w, r),
             row'[q.inst].life = row[q.inst].life, row'[q.inst].status = row[q.inst].status
      PROVE  InTurn'
  <2>1. CASE r = Idle BY <1>3, <2>1, TurnIdle, TurnFrame
  <2>2. CASE r # Idle
    <3>1. Turn(q, row[q.inst]) BY <1>3 DEF InTurn
    <3>2. Same(r, q) /\ r.pc \in {"plan", "locate", "write"}
      BY <1>3, <2>2 DEF Located, Same
    <3>3. q.op \notin {"update", "delete"} BY <1>1, <1>3 DEF PhaseOK, FlowActions, ReadOps
    <3>4. Turn(r, row'[q.inst]) BY <1>3, <3>1, <3>2, <3>3, TurnGoesOn DEF Moving
    <3> QED BY <1>3, <3>2, <3>4, TurnFrame DEF Same
  <2> QED BY <2>1, <2>2
<1>4. CASE Resolve(w)
  <2>1. row' = row /\ q.pc = "resolve" BY <1>4, ResolveFacts
  <2>2. PICK p, r : /\ Becomes(w, r) /\ Same(p, q) /\ p.read = q.read
                    /\ (r.pc = "backfill" /\ Same(r, p) /\ r.read = p.read) \/ Located(r, p)
    BY <1>4, ResolveFacts
  <2>3. CASE Located(r, p) BY <1>3, <2>1, <2>2, <2>3
  <2>4. CASE r.pc = "backfill" /\ Same(r, p) /\ r.read = p.read
    <3>1. Turn(q, row[q.inst]) BY <2>1 DEF InTurn
    <3>2. q.read = row[q.inst] BY <2>1, <3>1 DEF Turn
    <3>3. Same(r, q) BY <2>2, <2>4 DEF Same
    <3>4. Turn(r, row[q.inst])
      BY <2>1, <2>2, <2>4, <3>1, <3>2, <3>3, TurnGoesOn DEF Moving
    <3> QED BY <2>1, <2>2, <3>3, <3>4, TurnFrame DEF Same
  <2> QED BY <2>2, <2>3, <2>4
<1>5. CASE Backfill(w)
  <2> DEFINE n == [q.read EXCEPT !.step = q.step.id]
  <2>1. /\ q.pc = "backfill" /\ q.inst \in Instances
        /\ UNCHANGED row \/ Merged(q, n)
        /\ n.status = q.read.status
    BY <1>5, BackfillFacts
  <2>2. PICK r : Becomes(w, r) /\ Located(r, q) BY <1>5, BackfillFacts
  <2>3. q.read = row[q.inst] BY <2>1 DEF InTurn, Turn
  <2>4. row[q.inst] \in Rows BY <2>1 DEF Core, TypeOK
  <2>5. row'[q.inst].life = row[q.inst].life /\ row'[q.inst].status = row[q.inst].status
    <3> HIDE DEF n
    <3>1. CASE UNCHANGED row BY <3>1
    <3>2. CASE Merged(q, n)
      <4>1. MergeNonZero(row[q.inst], n).life = row[q.inst].life
            /\ MergeNonZero(row[q.inst], n).status = row[q.inst].status
        BY <2>1, <2>3, <2>4, MergeColumns
      <4> QED BY <3>2, <4>1 DEF Merged
    <3> QED BY <2>1, <3>1, <3>2
  <2> QED BY <1>3, <2>1, <2>2, <2>5 DEF Same
<1>6. CASE Plan(w)
  <2>1. row' = row /\ q.pc = "plan" /\ q.op \in {"submit", "approve"} BY <1>6, PlanFacts
  <2>2. PICK r : /\ Becomes(w, r) /\ r.pc = "write" /\ r.op = q.op /\ r.inst = q.inst /\ r.from = q.from
    BY <1>6, PlanFacts
  <2>3. Turn(q, row[q.inst]) BY <2>1 DEF InTurn
  <2>4. Turn(r, row[q.inst]) BY <2>1, <2>2, <2>3 DEF Turn, Moving, FlowActions
  <2> QED BY <2>1, <2>2, <2>4, TurnFrame
<1> QED BY <1>2, <1>4, <1>5, <1>6

LEMMA TurnWrites ==
  ASSUME OneWorker, Core, InTurn, NEW w \in Workers,
         Insert(w) \/ WriteRow(w) \/ WriteAssignee(w) \/ WriteStatus(w)
           \/ Delete(w) \/ Record(w) \/ Abort(w)
  PROVE  InTurn'
<1> DEFINE q == req[w]
<1>1. ASSUME NEW r, r.pc = "record" PROVE Turn(r, row'[r.inst])
  BY <1>1 DEF Turn, Moving
<1>2. CASE Insert(w)
  <2>1. PICK r : Becomes(w, r) /\ r.pc = "record" BY <1>2, InsertFacts
  <2> QED BY <1>1, <2>1, TurnFrame
<1>3. CASE WriteRow(w) \/ WriteStatus(w)
  <2>1. PICK r : Becomes(w, r) /\ Written(r, q) BY <1>3, WriteRowFacts, StatusFacts
  <2>2. r.pc \in {"idle", "record"} BY <2>1, TurnIdle DEF Written
  <2> QED BY <1>1, <2>1, <2>2, TurnFrame
<1>4. CASE WriteAssignee(w)
  <2>1. /\ q.pc = "write" /\ q.op = "assign" /\ q.inst \in Instances
        /\ row'[q.inst].life = row[q.inst].life /\ row'[q.inst].status = row[q.inst].status
    BY <1>4, AssigneeFacts
  <2>2. PICK r : Becomes(w, r) /\ (r = Idle \/ (r.pc = "writeStatus" /\ Same(r, q)))
    BY <1>4, AssigneeFacts
  <2>3. CASE r = Idle BY <2>2, <2>3, TurnIdle, TurnFrame
  <2>4. CASE r # Idle
    <3>1. Turn(q, row[q.inst]) BY <2>1 DEF InTurn
    <3>2. Turn(r, row'[q.inst]) BY <2>1, <2>2, <2>4, <3>1, TurnGoesOn DEF Moving
    <3> QED BY <2>2, <2>4, <3>2, TurnFrame DEF Same
  <2> QED BY <2>3, <2>4
<1>5. CASE Delete(w) \/ Record(w) \/ Abort(w)
  BY <1>5, EndFacts, TurnIdle, TurnFrame
<1> QED BY <1>2, <1>3, <1>4, <1>5

LEMMA TurnNext ==
  ASSUME OneWorker, Core, InTurn, [Next]_vars
  PROVE  InTurn'
<1>1. CASE UpdateProcess \/ UNCHANGED vars
  <2>1. req' = req /\ row' = row BY <1>1 DEF UpdateProcess, vars
  <2> QED BY <2>1 DEF InTurn
<1> QED BY <1>1, TurnBegins, TurnReads, TurnWrites DEF Next, Step

THEOREM TurnInvariant ==
  ASSUME OneWorker
  PROVE  Spec => []InTurn
<1>1. Init => InTurn BY TurnIdle DEF Init, InTurn
<1>2. Core /\ InTurn /\ [Next]_vars => InTurn' BY TurnNext
<1> QED BY <1>1, <1>2, CoreInvariant, PTL DEF Spec

\* Where one step may take the status of a row.
StatusKept(i) ==
  Live(i) =>
    /\ row[i].status \in {"Completed", "Cancelled"} => row'[i].status = row[i].status
    /\ row[i].status = "Rejected" => row'[i].status \in {"Rejected", "Cancelled"}

LEMMA StatusStep ==
  ASSUME OneWorker, Core, InTurn, [Next]_vars, NEW i \in Instances
  PROVE  StatusKept(i)
<1>1. CASE row'[i].status = row[i].status BY <1>1 DEF StatusKept
<1>2. ASSUME NEW w \in Workers, NEW j \in Instances,
             PrepareCreate(w, j) \/ Load(w, j) \/ LoadForUpdate(w, j) \/ LoadForDelete(w, j) \/ Query(w, j)
      PROVE  row' = row
  BY <1>2, BeginFacts
<1>3. ASSUME NEW w \in Workers,
             ReadPermit(w) \/ ReadLocate(w) \/ Resolve(w) \/ Plan(w) \/ Record(w) \/ Abort(w)
      PROVE  row' = row
  BY <1>3, ReadFacts, ResolveFacts, PlanFacts, EndFacts
<1>4. ASSUME NEW w \in Workers, Insert(w) PROVE StatusKept(i)
  BY <1>4, InsertFacts DEF StatusKept, Live
<1>5. ASSUME NEW w \in Workers, Backfill(w) PROVE StatusKept(i)
  <2> DEFINE q == req[w]
             n == [q.read EXCEPT !.step = q.step.id]
  <2>1. /\ q.pc = "backfill" /\ q.inst \in Instances
        /\ UNCHANGED row \/ Merged(q, n)
        /\ n.status = q.read.status
    BY <1>5, BackfillFacts
  <2> HIDE DEF n
  <2>2. q.read = row[q.inst] BY <2>1 DEF InTurn, Turn
  <2>3. row[q.inst] \in Rows BY <2>1 DEF Core, TypeOK
  <2>4. MergeNonZero(row[q.inst], n).status = row[q.inst].status BY <2>1, <2>2, <2>3, MergeColumns
  <2> QED BY <1>1, <2>1, <2>4 DEF Merged
<1>6. ASSUME NEW w \in Workers, WriteRow(w) PROVE StatusKept(i)
  <2> DEFINE q == req[w]
  <2>1. /\ q.pc = "write" /\ q.inst \in Instances /\ q.op \in RowWriteOps
        /\ \A j \in Instances : j # q.inst => row'[j] = row[j]
    BY <1>6, WriteRowFacts DEF Merged
  <2>2. Turn(q, row[q.inst]) BY <2>1 DEF InTurn
  <2>3. row[q.inst].status \in {"Draft"} \cup OpenStatuses
    BY <2>1, <2>2 DEF Turn, RowWriteOps, FlowActions, Moving, StatusAllows, OpenStatuses
  <2> QED BY <1>1, <2>1, <2>3 DEF StatusKept, OpenStatuses
<1>7. ASSUME NEW w \in Workers, WriteAssignee(w) PROVE StatusKept(i)
  BY <1>1, <1>7, AssigneeFacts
<1>8. ASSUME NEW w \in Workers, WriteStatus(w) PROVE StatusKept(i)
  <2> DEFINE q == req[w]
  <2>1. /\ q.inst \in Instances
        /\ (q.pc = "write" /\ q.op \in {"reject", "cancel"}) \/ (q.pc = "writeStatus" /\ q.op = "assign")
        /\ row'[q.inst].status = IF Live(q.inst) THEN TargetStatus(q.op) ELSE row[q.inst].status
        /\ \A j \in Instances : j # q.inst => row'[j].status = row[j].status
    BY <1>8, StatusFacts
  <2>2. Turn(q, row[q.inst]) BY <2>1 DEF InTurn
  <2>3. StatusAllows(q.op, row[q.inst].status)
    BY <2>1, <2>2 DEF Turn, FlowActions, Moving
  <2> QED BY <1>1, <2>1, <2>3 DEF StatusKept, StatusAllows, OpenStatuses, TargetStatus
<1>9. ASSUME NEW w \in Workers, Delete(w) PROVE StatusKept(i)
  BY <1>1, <1>9, EndFacts
<1>10. CASE UpdateProcess \/ UNCHANGED vars
  BY <1>1, <1>10 DEF UpdateProcess, vars
<1> QED BY <1>1, <1>2, <1>3, <1>4, <1>5, <1>6, <1>7, <1>8, <1>9, <1>10 DEF Next, Step

\* When requests do not overlap nothing leaves Completed and Cancelled, and a rejected order can only
\* be cancelled: whatever the process is edited to, and whatever DAO calls fail.
THEOREM StatusesAreFinal ==
  ASSUME OneWorker
  PROVE  Spec => TerminalIsFinal
<1> DEFINE A == \A i \in Instances : Live(i) =>
                  /\ row[i].status \in {"Completed", "Cancelled"} => row'[i].status = row[i].status
                  /\ row[i].status = "Rejected" => row'[i].status \in {"Rejected", "Cancelled"}
<1>1. Core /\ InTurn /\ [Next]_vars => A BY StatusStep DEF StatusKept
<1>2. Core /\ InTurn /\ [Next]_vars => [A]_vars BY <1>1
<1>3. Spec => [][A]_vars BY <1>2, CoreInvariant, TurnInvariant, PTL DEF Spec
<1> QED BY <1>3 DEF TerminalIsFinal

(***************************************************************************)
(* The flow records tell the life of an instance.                           *)
(***************************************************************************)
\* Updates leave the status out.
KeepStatus == \A e \in Edits : e.status = Unset

\* A chain of legal moves from Draft.
Chain(f) ==
  /\ f # <<>> => f[1].from = "Draft"
  /\ \A k \in 2..Len(f) : f[k].from = f[k - 1].to /\ StatusAllows(f[k].action, f[k].from)

\* The records f end in the status.
Told(f, status) == f # <<>> /\ f[Len(f)].to = status

LEMMA ChainGrows ==
  ASSUME NEW f \in Seq(FlowRecords), NEW e \in FlowRecords, Chain(f),
         \/ f = <<>> /\ e.from = "Draft"
         \/ Told(f, e.from) /\ StatusAllows(e.action, e.from)
  PROVE  Chain(Append(f, e)) /\ Told(Append(f, e), e.to)
<1> DEFINE g == Append(f, e)
<1>1. Len(f) \in Nat /\ Len(g) = Len(f) + 1 /\ g[Len(f) + 1] = e
  OBVIOUS
<1>2. \A k \in 1..Len(f) : g[k] = f[k]
  OBVIOUS
<1>3. f = <<>> <=> Len(f) = 0
  OBVIOUS
<1>4. g # <<>> BY <1>1
<1> HIDE DEF g
<1>5. g[1].from = "Draft" BY <1>1, <1>2, <1>3 DEF Chain, Told
<1>6. ASSUME NEW k \in 2..Len(g)
      PROVE  g[k].from = g[k - 1].to /\ StatusAllows(g[k].action, g[k].from)
  <2>1. CASE k = Len(f) + 1
    <3>1. f # <<>> BY <1>1, <1>3, <2>1
    <3>2. g[k - 1] = f[Len(f)] BY <1>1, <1>2, <1>3, <2>1, <3>1
    <3> QED BY <1>1, <2>1, <3>1, <3>2 DEF Told
  <2>2. CASE k # Len(f) + 1
    <3>1. k \in 2..Len(f) /\ k - 1 \in 1..Len(f) /\ k \in 1..Len(f) BY <1>1, <2>2
    <3> QED BY <1>2, <3>1 DEF Chain
  <2> QED BY <2>1, <2>2
<1>7. Told(g, e.to) BY <1>1, <1>4 DEF Told
<1> QED BY <1>4, <1>5, <1>6, <1>7 DEF Chain, g

\* What a request knows of the records of its instance, f, and will add to them.
Recorded(q, r, f) ==
  /\ q.pc = "insert" => q.from = "Draft" /\ q.to = q.snap.status /\ f = <<>>
  /\ q.pc = "write" /\ q.op \in {"submit", "approve"} => q.to = q.snap.status
  /\ q.pc = "write" /\ q.op = "update" => q.snap.status = Unset
  /\ q.pc = "record" => r.status = q.to /\ r.life # "absent"
  /\ q.pc = "record" /\ q.op \in CreateOps => f = <<>> /\ q.from = "Draft"
  /\ q.pc = "record" /\ q.op \notin CreateOps => Told(f, q.from) /\ StatusAllows(q.op, q.from)

\* An instance whose last move is recorded.
Complete(r, f) == IF r.life = "absent" THEN f = <<>> ELSE Told(f, r.status)

AllRecorded ==
  /\ \A w \in Workers : req[w].pc # "idle" =>
       Recorded(req[w], row[req[w].inst], trail[req[w].inst].flow)
  /\ \A i \in Instances :
       /\ Chain(trail[i].flow)
       /\ \/ \E w \in Workers : req[w].pc = "record" /\ req[w].inst = i
          \/ Complete(row[i], trail[i].flow)

\* With one worker it is enough to look at the request that moved.
LEMMA RecordedFrame ==
  ASSUME OneWorker, Core, NEW w \in Workers, NEW r, Becomes(w, r),
         r.pc # "idle" => Recorded(r, row'[r.inst], trail'[r.inst].flow),
         \A i \in Instances :
           /\ Chain(trail'[i].flow)
           /\ (r.pc = "record" /\ r.inst = i) \/ Complete(row'[i], trail'[i].flow)
  PROVE  AllRecorded'
<1>1. req'[w] = r BY BecomesIs
<1>2. \A v \in Workers : v = w BY DEF OneWorker
<1> QED BY <1>1, <1>2 DEF AllRecorded

\* The common case: no record, and every row's life and status told as before.
LEMMA RecordedQuietly ==
  ASSUME OneWorker, Core, AllRecorded, NEW w \in Workers, NEW r, Becomes(w, r),
         req[w].pc # "record", trail' = trail,
         \A i \in Instances : /\ row'[i].status = row[i].status
                              /\ row'[i].life = "absent" <=> row[i].life = "absent",
         r.pc \notin {"idle", "record"} => Recorded(r, row'[r.inst], trail[r.inst].flow),
         r.pc # "record"
  PROVE  AllRecorded'
<1>1. \A v \in Workers : v = w BY DEF OneWorker
<1>2. \A i \in Instances : Complete(row[i], trail[i].flow) /\ Chain(trail[i].flow)
  BY <1>1 DEF AllRecorded
<1>3. \A i \in Instances : Complete(row'[i], trail'[i].flow) /\ Chain(trail'[i].flow)
  BY <1>2 DEF Complete
<1> QED BY <1>3, RecordedFrame

LEMMA RecordedBegins ==
  ASSUME OneWorker, KeepStatus, Core, AllRecorded, NEW w \in Workers, NEW i \in Instances,
         PrepareCreate(w, i) \/ Load(w, i) \/ LoadForUpdate(w, i)
           \/ LoadForDelete(w, i) \/ Query(w, i)
  PROVE  AllRecorded'
<1>1. PICK r : Becomes(w, r) /\ Begun(r, i) BY BeginFacts
<1>2. row' = row /\ trail' = trail /\ req[w].pc = "idle" BY BeginFacts
<1>3. \A v \in Workers : v = w BY DEF OneWorker
<1>4. row[i].life = "absent" => trail[i].flow = <<>> BY <1>2, <1>3 DEF AllRecorded, Complete
<1>5. Recorded(r, row[i], trail[i].flow) /\ r.inst = i /\ r.pc # "record"
  BY <1>1, <1>4
  DEF Begun, Created, Loaded, Updating, Deleting, Querying, Recorded, KeepStatus, ReadOps, CreateOps
<1> QED BY <1>1, <1>2, <1>5, RecordedQuietly

LEMMA RecordedReads ==
  ASSUME OneWorker, ~Failures, Core, InTurn, AllRecorded, NEW w \in Workers,
         ReadPermit(w) \/ ReadLocate(w) \/ Resolve(w) \/ Backfill(w) \/ Plan(w)
  PROVE  AllRecorded'
<1> DEFINE q == req[w]
<1>1. q \in Requests /\ PhaseOK(w) BY RequestFacts
<1>2. \A j \in Instances : /\ row'[j].status = row[j].status
                           /\ row'[j].life = "absent" <=> row[j].life = "absent"
  <2>1. CASE ReadPermit(w) \/ ReadLocate(w) \/ Resolve(w) \/ Plan(w)
    BY <2>1, ReadFacts, ResolveFacts, PlanFacts
  <2>2. CASE Backfill(w)
    <3> DEFINE n == [q.read EXCEPT !.step = q.step.id]
    <3>1. /\ q.pc = "backfill" /\ q.inst \in Instances
          /\ UNCHANGED row \/ Merged(q, n)
          /\ n.status = q.read.status
      BY <2>2, BackfillFacts
    <3> HIDE DEF n
    <3>2. q.read = row[q.inst] BY <3>1 DEF InTurn, Turn
    <3>3. row[q.inst] \in Rows BY <3>1 DEF Core, TypeOK
    <3>4. /\ MergeNonZero(row[q.inst], n).status = row[q.inst].status
          /\ MergeNonZero(row[q.inst], n).life = row[q.inst].life
      BY <3>1, <3>2, <3>3, MergeColumns
    <3> QED BY <3>1, <3>4 DEF Merged
  <2> QED BY <2>1, <2>2
<1>3. trail' = trail /\ q.pc # "record"
  BY ReadFacts, ResolveFacts, BackfillFacts, PlanFacts
<1>4. CASE ReadPermit(w) \/ ReadLocate(w)
  <2>1. PICK r : Becomes(w, r) /\ (r = Idle \/ r.pc \in {"locate", "resolve"})
    BY <1>4, ReadFacts
  <2>2. r.pc \notin {"idle", "record"} => Recorded(r, row'[r.inst], trail[r.inst].flow)
    BY <2>1, TurnIdle DEF Recorded
  <2> QED BY <1>2, <1>3, <2>1, <2>2, TurnIdle, RecordedQuietly
<1>5. ASSUME NEW p, NEW r, p.op = q.op, Located(r, p), Becomes(w, r), q.pc \in {"resolve", "backfill"}
      PROVE  AllRecorded'
  <2>1. q.op # "update" BY <1>1, <1>5 DEF PhaseOK, FlowActions, ReadOps
  <2>2. r.pc \in {"idle", "plan", "locate", "write"} BY <1>5, TurnIdle DEF Located
  <2>3. r.pc = "write" => r.op \notin {"submit", "approve", "update"}
    BY <1>5, <2>1, TurnIdle DEF Located, Same
  <2>4. r.pc \notin {"idle", "record"} => Recorded(r, row'[r.inst], trail[r.inst].flow)
    BY <2>2, <2>3 DEF Recorded
  <2> QED BY <1>2, <1>3, <1>5, <2>2, <2>4, RecordedQuietly
<1>6. CASE Resolve(w)
  <2>1. q.pc = "resolve" BY <1>6, ResolveFacts
  <2>2. PICK p, r : Becomes(w, r) /\ Same(p, q) /\ (r.pc = "backfill" \/ Located(r, p))
    BY <1>6, ResolveFacts
  <2>3. CASE r.pc = "backfill"
    <3>1. Recorded(r, row'[r.inst], trail[r.inst].flow) BY <2>3 DEF Recorded
    <3> QED BY <1>2, <1>3, <2>2, <2>3, <3>1, RecordedQuietly
  <2>4. CASE Located(r, p) BY <1>5, <2>1, <2>2, <2>4 DEF Same
  <2> QED BY <2>2, <2>3, <2>4
<1>7. CASE Backfill(w)
  <2>1. PICK r : Becomes(w, r) /\ Located(r, q) BY <1>7, BackfillFacts
  <2> QED BY <1>5, <1>7, <2>1, BackfillFacts
<1>8. CASE Plan(w)
  <2>1. PICK r : Becomes(w, r) /\ r.pc = "write" /\ r.op = q.op /\ r.to = r.snap.status
    BY <1>8, PlanFacts
  <2>2. q.op \in {"submit", "approve"} BY <1>8, PlanFacts
  <2>3. Recorded(r, row'[r.inst], trail[r.inst].flow) BY <2>1, <2>2 DEF Recorded
  <2> QED BY <1>2, <1>3, <2>1, <2>3, RecordedQuietly
<1> QED BY <1>4, <1>6, <1>7, <1>8

\* The last write of a request that stores the status it will record.
LEMMA RecordedWrite ==
  ASSUME OneWorker, Core, InTurn, AllRecorded, NEW w \in Workers, NEW r, Becomes(w, r),
         req[w].pc \in {"write", "writeStatus"}, req[w].op \in FlowActions, req[w].inst \in Instances,
         trail' = trail, Written(r, req[w]),
         row'[req[w].inst].status = r.to, row'[req[w].inst].life = row[req[w].inst].life,
         \A j \in Instances : j # req[w].inst => /\ row'[j].status = row[j].status
                                                 /\ row'[j].life = row[j].life
  PROVE  AllRecorded'
<1> DEFINE q == req[w]
<1>1. \A v \in Workers : v = w BY DEF OneWorker
<1>2. \A j \in Instances : Complete(row[j], trail[j].flow) /\ Chain(trail[j].flow)
  BY <1>1 DEF AllRecorded
<1>3. /\ row[q.inst].life = "live" /\ row[q.inst].status = q.from /\ StatusAllows(q.op, q.from)
  BY DEF InTurn, Turn, Moving
<1>4. r.pc = "record" /\ r.op = q.op /\ r.inst = q.inst /\ r.from = q.from
  BY <1>3 DEF Written, Live, FlowActions
<1>5. Told(trail[q.inst].flow, q.from) BY <1>2, <1>3 DEF Complete
<1>6. r.op \notin CreateOps BY <1>4 DEF CreateOps, FlowActions
<1>7. Recorded(r, row'[r.inst], trail'[r.inst].flow)
  BY <1>3, <1>4, <1>5, <1>6 DEF Recorded
<1>8. \A j \in Instances : /\ Chain(trail'[j].flow)
                           /\ (r.pc = "record" /\ r.inst = j) \/ Complete(row'[j], trail'[j].flow)
  BY <1>2, <1>4 DEF Complete
<1> QED BY <1>7, <1>8, RecordedFrame

LEMMA RecordedWrites ==
  ASSUME OneWorker, ~Failures, Core, InTurn, AllRecorded, NEW w \in Workers,
         Insert(w) \/ WriteRow(w) \/ WriteAssignee(w) \/ WriteStatus(w)
           \/ Delete(w) \/ Record(w) \/ Abort(w)
  PROVE  AllRecorded'
<1> DEFINE q == req[w]
<1>1. q \in Requests /\ PhaseOK(w) BY RequestFacts
<1>2. \A v \in Workers : v = w BY DEF OneWorker
<1>3. q.pc # "idle" => Recorded(q, row[q.inst], trail[q.inst].flow) BY DEF AllRecorded
<1>4. q.pc # "record" => \A j \in Instances : Complete(row[j], trail[j].flow) /\ Chain(trail[j].flow)
  BY <1>2 DEF AllRecorded
<1>5. CASE Insert(w)
  <2>1. /\ trail' = trail /\ q.pc = "insert" /\ q.inst \in Instances /\ q.op \in CreateOps
        /\ row'[q.inst] = q.snap /\ q.snap.life = "live"
        /\ \A j \in Instances : j # q.inst => row'[j] = row[j]
    BY <1>5, InsertFacts
  <2>2. PICK r : Becomes(w, r) /\ Same(r, q) /\ r.pc = "record" BY <1>5, InsertFacts
  <2>3. Recorded(r, row'[r.inst], trail'[r.inst].flow)
    BY <1>3, <2>1, <2>2 DEF Recorded, Same
  <2>4. \A j \in Instances : /\ Chain(trail'[j].flow)
                             /\ (r.pc = "record" /\ r.inst = j) \/ Complete(row'[j], trail'[j].flow)
    BY <1>4, <2>1, <2>2 DEF Same
  <2> QED BY <2>2, <2>3, <2>4, RecordedFrame
<1>6. CASE WriteRow(w)
  <2>1. /\ trail' = trail /\ q.pc = "write" /\ q.inst \in Instances /\ q.op \in RowWriteOps
    BY <1>6, WriteRowFacts
  <2>2. PICK r : Becomes(w, r) /\ Written(r, q) BY <1>6, WriteRowFacts
  <2>3. PICK new : /\ Merged(q, new)
                   /\ new.status = CASE q.op = "complete" -> "Completed"
                                     [] q.op = "return" -> "Draft"
                                     [] OTHER -> q.snap.status
    BY <1>6, WriteRowFacts
  <2>4. Turn(q, row[q.inst]) /\ Recorded(q, row[q.inst], trail[q.inst].flow)
    BY <1>3, <2>1 DEF InTurn
  <2>5. row[q.inst] \in Rows /\ Live(q.inst)
    BY <2>1, <2>4 DEF Core, TypeOK, Turn, RowWriteOps, FlowActions, Moving, Live
  <2>6. /\ row'[q.inst].life = row[q.inst].life
        /\ row'[q.inst].status = IF new.status = Unset THEN row[q.inst].status ELSE new.status
        /\ \A j \in Instances : j # q.inst => row'[j] = row[j]
    BY <2>3, <2>5, MergeColumns DEF Merged
  <2>7. CASE q.op = "update"
    <3>1. r = Idle /\ new.status = Unset
      BY <2>1, <2>2, <2>3, <2>4, <2>7 DEF Written, Recorded
    <3>2. \A j \in Instances : /\ row'[j].status = row[j].status
                               /\ row'[j].life = "absent" <=> row[j].life = "absent"
      BY <2>6, <3>1
    <3> QED BY <2>1, <2>2, <3>1, <3>2, TurnIdle, RecordedQuietly
  <2>8. CASE q.op # "update"
    <3>1. q.op \in FlowActions BY <2>1, <2>8 DEF RowWriteOps, FlowActions
    <3>2. r.to = new.status
      BY <2>1, <2>2, <2>3, <2>4, <2>5, <2>8 DEF Written, Recorded, RowWriteOps, TargetStatus
    <3>3. new.status # Unset
      <4>1. q.to \in Statuses BY <1>1 DEF Requests
      <4>2. new.status \in Statuses
        BY <2>1, <2>3, <2>4, <2>8, <4>1 DEF Recorded, RowWriteOps, Statuses
      <4> QED BY <4>2, SentinelAssumption
    <3> QED BY <2>1, <2>2, <2>6, <3>1, <3>2, <3>3, RecordedWrite
  <2> QED BY <2>7, <2>8
<1>7. CASE WriteAssignee(w)
  <2>1. /\ trail' = trail /\ q.pc = "write" /\ q.op = "assign"
        /\ \A j \in Instances : row'[j].life = row[j].life /\ row'[j].status = row[j].status
    BY <1>7, AssigneeFacts
  <2>2. PICK r : Becomes(w, r) /\ (r = Idle \/ r.pc = "writeStatus")
    BY <1>7, AssigneeFacts
  <2>3. r.pc \notin {"idle", "record"} => Recorded(r, row'[r.inst], trail[r.inst].flow)
    BY <2>2, TurnIdle DEF Recorded
  <2> QED BY <2>1, <2>2, <2>3, TurnIdle, RecordedQuietly
<1>8. CASE WriteStatus(w)
  <2>1. /\ trail' = trail /\ q.inst \in Instances
        /\ (q.pc = "write" /\ q.op \in {"reject", "cancel"}) \/ (q.pc = "writeStatus" /\ q.op = "assign")
        /\ row'[q.inst].status = IF Live(q.inst) THEN TargetStatus(q.op) ELSE row[q.inst].status
        /\ \A j \in Instances : j # q.inst => row'[j].status = row[j].status
        /\ \A j \in Instances : row'[j].life = row[j].life
    BY <1>8, StatusFacts
  <2>2. PICK r : Becomes(w, r) /\ Written(r, q) BY <1>8, StatusFacts
  <2>3. q.op \in FlowActions /\ q.pc \in {"write", "writeStatus"} BY <2>1 DEF FlowActions
  <2>4. Live(q.inst) BY <2>1, <2>3 DEF InTurn, Turn, Moving, Live
  <2>5. row'[q.inst].status = r.to BY <2>1, <2>2, <2>4 DEF Written
  <2> QED BY <2>1, <2>2, <2>3, <2>5, RecordedWrite
<1>9. CASE Delete(w)
  <2>1. /\ Becomes(w, Idle) /\ q.inst \in Instances /\ trail' = trail /\ q.pc = "write"
        /\ row'[q.inst].life = IF Live(q.inst) THEN "deleted" ELSE row[q.inst].life
        /\ \A j \in Instances : j # q.inst => row'[j] = row[j]
        /\ \A j \in Instances : row'[j].status = row[j].status
    BY <1>9, EndFacts
  <2>2. \A j \in Instances : row'[j].life = "absent" <=> row[j].life = "absent"
    BY <2>1 DEF Live
  <2> QED BY <2>1, <2>2, TurnIdle, RecordedQuietly
<1>10. CASE Record(w)
  <2> DEFINE i == q.inst
             f == trail[i].flow
  <2>1. q.pc = "record" /\ Becomes(w, Idle) /\ row' = row /\ i \in Instances
    BY <1>10, EndFacts DEF Record
  <2>2. q.op \in FlowActions \cup CreateOps BY <1>1, <2>1 DEF PhaseOK
  <2>3. FlowOf(q) \in FlowRecords
    BY <1>1, <2>2 DEF FlowOf, FlowRecords, FlowAction, Requests, FlowActions
  <2>4. trail \in [Instances -> [flow : Seq(FlowRecords), timeline : Nat, comments : Nat]]
    BY DEF Core, TypeOK
  <2>5. f \in Seq(FlowRecords) BY <2>1, <2>4
  <2>6. trail'[i].flow = Append(f, FlowOf(q)) /\ \A j \in Instances : j # i => trail'[j] = trail[j]
    <3>1. LogOutcomes = {TRUE} BY DEF LogOutcomes
    <3>2. PICK timed \in LogOutcomes, comment \in Comments(q.op) :
            trail' = [trail EXCEPT ![i] =
                       [flow     |-> Append(@.flow, FlowOf(q)),
                        timeline |-> @.timeline + (IF timed THEN 1 ELSE 0),
                        comments |-> @.comments + comment]]
      BY <1>10, <3>1 DEF Record
    <3> HIDE DEF f
    <3> QED BY <2>1, <2>4, <3>2 DEF f
  <2>7. Recorded(q, row[i], f) BY <1>3, <2>1
  <2>8. /\ FlowOf(q).from = q.from /\ FlowOf(q).to = q.to
        /\ q.op \notin CreateOps => FlowOf(q).action = q.op
    BY DEF FlowOf, FlowAction
  <2>9. \/ f = <<>> /\ q.from = "Draft"
        \/ Told(f, q.from) /\ StatusAllows(q.op, q.from) /\ q.op \notin CreateOps
    BY <2>1, <2>7 DEF Recorded
  <2>10. Chain(f) BY <2>1 DEF AllRecorded
  <2>11. Chain(Append(f, FlowOf(q))) /\ Told(Append(f, FlowOf(q)), q.to)
    <3> HIDE DEF f
    <3> QED BY <2>3, <2>5, <2>8, <2>9, <2>10, ChainGrows
  <2>12. row[i].status = q.to /\ row[i].life # "absent" BY <2>1, <2>7 DEF Recorded
  <2>13. \A j \in Instances : j # i => Complete(row[j], trail[j].flow) /\ Chain(trail[j].flow)
    BY <1>2 DEF AllRecorded
  <2>14. \A j \in Instances : Chain(trail'[j].flow) /\ Complete(row'[j], trail'[j].flow)
    <3> HIDE DEF f, i
    <3>1. Chain(trail'[i].flow) /\ Complete(row'[i], trail'[i].flow)
      BY <2>1, <2>6, <2>11, <2>12 DEF Complete
    <3> QED BY <2>1, <2>6, <2>13, <3>1
  <2> QED BY <2>1, <2>14, TurnIdle, RecordedFrame
<1>11. CASE Abort(w) BY <1>11 DEF Abort
<1> QED BY <1>5, <1>6, <1>7, <1>8, <1>9, <1>10, <1>11

\* When requests do not overlap, no DAO call fails and updates leave the status alone, the flow records
\* of an instance nobody works on are a chain of legal moves from Draft to its status: also when the
\* process is edited under way.
THEOREM FlowTellsStatus ==
  ASSUME OneWorker, ~Failures, KeepStatus
  PROVE  Spec => []TrailExplainsStatus
<1>1. Init => AllRecorded
  <2> SUFFICES ASSUME Init PROVE AllRecorded
    OBVIOUS
  <2>1. \A w \in Workers : req[w].pc = "idle" BY TurnIdle DEF Init
  <2>2. \A i \in Instances : row[i].life = "absent" /\ trail[i].flow = <<>>
    BY DEF Init, NoRow, EmptyTrail
  <2>3. Chain(<<>>) BY DEF Chain
  <2> QED BY <2>1, <2>2, <2>3 DEF AllRecorded, Complete
<1>2. Core /\ InTurn /\ AllRecorded /\ [Next]_vars => AllRecorded'
  <2> SUFFICES ASSUME Core, InTurn, AllRecorded, [Next]_vars PROVE AllRecorded'
    OBVIOUS
  <2>1. CASE UpdateProcess \/ UNCHANGED vars
    <3>1. req' = req /\ row' = row /\ trail' = trail BY <2>1 DEF UpdateProcess, vars
    <3> QED BY <3>1 DEF AllRecorded
  <2> QED BY <2>1, RecordedBegins, RecordedReads, RecordedWrites DEF Next, Step
<1>3. AllRecorded => TrailExplainsStatus
  <2> SUFFICES ASSUME AllRecorded, NEW i \in Instances, row[i].life # "absent", Quiet(i)
               PROVE  LET f == trail[i].flow IN
                      /\ f # <<>>
                      /\ f[1].from = "Draft" /\ f[Len(f)].to = row[i].status
                      /\ \A k \in 2..Len(f) : /\ f[k].from = f[k - 1].to
                                              /\ StatusAllows(f[k].action, f[k].from)
    BY DEF TrailExplainsStatus
  <2> QED BY DEF AllRecorded, Quiet, Complete, Told, Chain
<1> QED BY <1>1, <1>2, <1>3, CoreInvariant, TurnInvariant, PTL DEF Spec

(***************************************************************************)
(* The engine implements the lifecycle of whole operations.                 *)
(***************************************************************************)
\* The steps the searches return are steps of the definition itself.
LEMMA OwnSteps ==
  ASSUME NEW d \in Definitions
  PROVE  /\ StartStep(d).id \in StepIds(d) /\ FirstRealStep(d).id \in StepIds(d)
         /\ StartStep(d).id # FirstRealStep(d).id
         /\ \A status : findStepByStatus(d, status).id \in StepIds(d)
         /\ \A x \in StepIds(d) : StepById(d, x) # NoStep
         /\ \A x : getNextStep(d, x) # NoStep => getNextStep(d, x).id \in StepIds(d)
<1>1. ValidDefinition(d) BY DefinitionsAssumption
<1> DEFINE S == StepsOfType(d, {"start"})
           R == {k \in DOMAIN d.steps : d.steps[k].type # "start"}
<1>2. S # {} /\ S \subseteq DOMAIN d.steps BY <1>1 DEF ValidDefinition, StepsOfType
<1>3. R # {} /\ R \subseteq DOMAIN d.steps
  <2>1. PICK k \in DOMAIN d.steps : d.steps[k].type = "end" BY <1>1 DEF ValidDefinition
  <2> QED BY <2>1
<1>4. ASSUME NEW K \in SUBSET DOMAIN d.steps, K # {} PROVE FirstStep(d, K).id \in StepIds(d)
  BY <1>4, FirstStepFound DEF StepIds
<1>5. PICK a \in S : StartStep(d) = d.steps[a] BY <1>2, FirstStepFound DEF StartStep
<1>6. PICK b \in R : FirstRealStep(d) = d.steps[b] BY <1>3, FirstStepFound DEF FirstRealStep
<1>7. d.steps[a].id # d.steps[b].id
  <2>1. d.steps[a].type = "start" /\ d.steps[b].type # "start" BY <1>2 DEF StepsOfType
  <2>2. a \in DOMAIN d.steps /\ b \in DOMAIN d.steps BY <1>2, <1>3
  <2> QED BY <1>1, <2>1, <2>2 DEF ValidDefinition
<1>8. ASSUME NEW status PROVE findStepByStatus(d, status).id \in StepIds(d)
  <2> DEFINE K == StepsOfType(d, TypesForStatus(status))
  <2>1. K \subseteq DOMAIN d.steps BY DEF StepsOfType
  <2>2. CASE K = {}
    <3>1. 1 \in DOMAIN d.steps BY <1>1, DefinitionsAssumption DEF ValidDefinition
    <3> QED BY <2>2, <3>1 DEF findStepByStatus, StepIds
  <2>3. CASE K # {} BY <1>4, <2>1, <2>3 DEF findStepByStatus
  <2> QED BY <2>2, <2>3
<1>9. ASSUME NEW x \in StepIds(d) PROVE StepById(d, x) # NoStep
  <2> DEFINE K == {k \in DOMAIN d.steps : d.steps[k].id = x}
  <2>1. K # {} /\ K \subseteq DOMAIN d.steps BY DEF StepIds
  <2>2. FirstStep(d, K) \in StepRecords BY <2>1, FirstStepFound
  <2> QED BY <2>2, StepRecordFacts DEF StepById
<1>10. ASSUME NEW x, StepById(d, x) # NoStep PROVE StepById(d, x).id \in StepIds(d)
  <2> DEFINE K == {k \in DOMAIN d.steps : d.steps[k].id = x}
  <2>1. K # {} BY <1>10 DEF StepById, FirstStep
  <2> QED BY <1>4, <2>1 DEF StepById
<1>11. ASSUME NEW x, getNextStep(d, x) # NoStep PROVE getNextStep(d, x).id \in StepIds(d)
  BY <1>10, <1>11 DEF getNextStep
<1> QED BY <1>2, <1>3, <1>4, <1>5, <1>6, <1>7, <1>8, <1>9, <1>11 DEF StartStep, FirstRealStep

\* A row that CreateInstance or CreateInstanceFromTemplate may insert.
Opening(s, d) ==
  /\ s.status \in Statuses /\ s.step \in {NoStep, StartStep(d).id, FirstRealStep(d).id}
  /\ s.status = "Draft" <=> s.step # FirstRealStep(d).id

\* What a request that is alone will write, in terms of its row r.
Faithful(q, r, d) ==
  /\ q.pc = "insert" => Opening(q.snap, d)
  /\ q.pc \in {"resolve", "backfill"} => r.life = "live"
  /\ q.pc = "backfill" => q.read.step = NoStep /\ q.step = findStepByStatus(d, r.status)
  /\ q.second /\ q.pc \in Moving => r.step # NoStep
  /\ q.pc = "plan" /\ q.op = "approve" => q.second /\ q.step = StepById(d, r.step)
  /\ q.pc = "write" /\ q.op = "submit" =>
       q.snap.status = "Pending" /\ q.snap.step = FirstRealStep(d).id
  /\ q.pc = "write" /\ q.op = "approve" =>
       LET next == getNextStep(d, StepById(d, r.step)) IN
       /\ q.second /\ q.snap.status = ApproveStatus(next)
       /\ q.snap.step = IF next = NoStep THEN NoStep ELSE next.id
  /\ q.pc \in Moving /\ q.op \in {"complete", "return"} => q.snap.step \in {NoStep, r.step}
  /\ q.pc = "write" /\ q.op = "update" => q.snap.status = Unset /\ q.snap.step = NoStep

AllFaithful ==
  /\ \A w \in Workers : req[w].pc # "idle" => Faithful(req[w], row[req[w].inst], process.def)
  /\ \A i \in Instances : row[i].step \in StepIds(process.def) \cup {NoStep}

LEMMA FaithfulFrame ==
  ASSUME OneWorker, Core, NEW w \in Workers, NEW r, Becomes(w, r), process' = process,
         r.pc # "idle" => Faithful(r, row'[r.inst], process.def),
         \A i \in Instances : row'[i].step \in StepIds(process.def) \cup {NoStep}
  PROVE  AllFaithful'
<1>1. req'[w] = r BY BecomesIs
<1>2. \A v \in Workers : v = w BY DEF OneWorker
<1> QED BY <1>1, <1>2 DEF AllFaithful

LEMMA FaithfulBegins ==
  ASSUME OneWorker, KeepStatus, Core, AllFaithful, NEW w \in Workers, NEW i \in Instances,
         PrepareCreate(w, i) \/ Load(w, i) \/ LoadForUpdate(w, i)
           \/ LoadForDelete(w, i) \/ Query(w, i)
  PROVE  AllFaithful'
<1>1. PICK r : Becomes(w, r) /\ Begun(r, i) BY BeginFacts
<1>2. row' = row /\ process' = process BY BeginFacts
<1>3. process.def \in Definitions BY DEF Core, TypeOK
<1>4. r.inst = i BY <1>1 DEF Begun, Created, Loaded, Updating, Deleting, Querying
<1>5. Faithful(r, row[i], process.def)
  <2>1. CASE Created(r, i)
    <3>1. FirstRealStep(process.def).id # NoStep BY <1>3, EntrySteps, StepRecordFacts
    <3>2. Opening(r.snap, process.def)
      BY <1>3, <2>1, <3>1, OwnSteps, ParameterAssumption
      DEF Created, Opening, InitialStepId
    <3> QED BY <2>1, <3>2 DEF Created, Faithful, Moving
  <2>2. CASE Loaded(r, i) BY <2>2 DEF Loaded, Faithful
  <2>3. CASE Updating(r, i) BY <2>3 DEF Updating, Faithful, KeepStatus
  <2>4. CASE Deleting(r, i) BY <2>4 DEF Deleting, Faithful
  <2>5. CASE Querying(r, i) BY <2>5 DEF Querying, Faithful, ReadOps
  <2> QED BY <1>1, <2>1, <2>2, <2>3, <2>4, <2>5 DEF Begun
<1> QED BY <1>1, <1>2, <1>4, <1>5, FaithfulFrame DEF AllFaithful

\* A request that GetCurrentStep lets go on, its row having a step now.
LEMMA FaithfulLocated ==
  ASSUME NEW q, NEW p, NEW r, NEW old, NEW new, NEW d,
         Faithful(q, old, d), q.pc \in {"resolve", "backfill"}, q.op \in FlowActions \cup ReadOps,
         Same(p, q), p.second = q.second, Located(r, p), r.pc # "idle",
         p.step = StepById(d, new.step) \/ old.step = NoStep,
         new.step # NoStep, old.step \in {NoStep, new.step}
  PROVE  Faithful(r, new, d) /\ r.inst = q.inst
<1>1. Same(r, q) /\ q.op \notin ReadOps /\ r.pc \in {"plan", "locate", "write"}
  BY TurnIdle DEF Located, Same
<1>2. q.op \in FlowActions /\ q.pc \in Moving BY <1>1 DEF Moving
<1>3. r.pc = "plan" /\ r.op = "approve" => r.second /\ r.step = StepById(d, new.step)
  <2>1. CASE old.step = NoStep
    <3>1. ~q.second BY <1>2, <2>1 DEF Faithful
    <3> QED BY <1>1, <3>1, TurnIdle DEF Located, Same
  <2>2. CASE p.step = StepById(d, new.step) BY <1>1, <2>2, TurnIdle DEF Located, Same
  <2> QED BY <2>1, <2>2
<1>4. r.pc = "write" => r.op \notin {"submit", "approve", "update"}
  BY <1>1, <1>2, TurnIdle DEF Located, Same, FlowActions
<1>5. r.op \in {"complete", "return"} => r.snap.step \in {NoStep, new.step}
  BY <1>1, <1>2 DEF Faithful, Same
<1> QED BY <1>1, <1>3, <1>4, <1>5 DEF Faithful, Same

LEMMA FaithfulReads ==
  ASSUME OneWorker, ~Failures, Core, InTurn, AllFaithful, NEW w \in Workers,
         ReadPermit(w) \/ ReadLocate(w) \/ Resolve(w) \/ Backfill(w) \/ Plan(w)
  PROVE  AllFaithful'
<1> DEFINE q == req[w]
           d == process.def
<1>1. q \in Requests /\ PhaseOK(w) BY RequestFacts
<1>2. d \in Definitions /\ row \in [Instances -> Rows] BY DEF Core, TypeOK
<1>3. process' = process BY ReadFacts, ResolveFacts, BackfillFacts, PlanFacts
<1>4. CASE ReadPermit(w) \/ ReadLocate(w)
  <2>1. row' = row /\ q.pc \in {"permit", "locate"} /\ q.inst \in Instances BY <1>4, ReadFacts
  <2>2. PICK r : /\ Becomes(w, r)
                 /\ \/ r = Idle
                    \/ /\ Same(r, q) /\ r.second = q.second
                       /\ \/ r.pc = "locate" /\ q.pc = "permit"
                          \/ r.pc = "resolve" /\ r.read = row[q.inst] /\ Live(q.inst)
    BY <1>4, ReadFacts
  <2>3. Faithful(q, row[q.inst], d) BY <2>1 DEF AllFaithful
  <2>4. r.pc # "idle" => Faithful(r, row[q.inst], d) /\ r.inst = q.inst
    BY <2>1, <2>2, <2>3, TurnIdle DEF Faithful, Same, Moving, Live
  <2> QED BY <1>3, <2>1, <2>2, <2>4, FaithfulFrame DEF AllFaithful
<1>5. CASE Resolve(w)
  <2>1. row' = row /\ q.pc = "resolve" /\ q.inst \in Instances BY <1>5, ResolveFacts
  <2>2. PICK p, r :
          /\ Becomes(w, r) /\ Same(p, q) /\ p.second = q.second /\ p.read = q.read
          /\ p.step = LocateStep(d, q.read.step, q.read.status)
          /\ IF q.read.step = NoStep
             THEN r.pc = "backfill" /\ Same(r, p) /\ r.second = p.second /\ r.read = p.read
                  /\ r.step = p.step
             ELSE Located(r, p)
    BY <1>5, ResolveFacts
  <2>3. Faithful(q, row[q.inst], d) /\ Turn(q, row[q.inst]) BY <2>1 DEF AllFaithful, InTurn
  <2>4. q.read = row[q.inst] BY <2>1, <2>3 DEF Turn
  <2>5. q.op \in FlowActions \cup ReadOps BY <1>1, <2>1 DEF PhaseOK
  <2>6. CASE q.read.step = NoStep
    <3>1. r.pc = "backfill" /\ Same(r, q) /\ r.second = q.second /\ r.read = q.read
      BY <2>2, <2>6 DEF Same
    <3>2. r.step = findStepByStatus(d, row[q.inst].status)
      BY <2>2, <2>4, <2>6 DEF LocateStep
    <3>3. Faithful(r, row[q.inst], d)
      BY <2>1, <2>3, <2>4, <2>6, <3>1, <3>2 DEF Faithful, Same, Moving
    <3> QED BY <1>3, <2>1, <2>2, <3>1, <3>3, FaithfulFrame DEF AllFaithful, Same
  <2>7. CASE q.read.step # NoStep
    <3>1. row[q.inst].step \in StepIds(d) BY <2>1, <2>4, <2>7 DEF AllFaithful
    <3>2. p.step = StepById(d, row[q.inst].step)
      BY <1>2, <2>2, <2>4, <2>7, <3>1, OwnSteps DEF LocateStep
    <3>3. r.pc # "idle" => Faithful(r, row[q.inst], d) /\ r.inst = q.inst
      BY <2>1, <2>2, <2>3, <2>4, <2>5, <2>7, <3>2, FaithfulLocated
    <3> QED BY <1>3, <2>1, <2>2, <3>3, FaithfulFrame DEF AllFaithful
  <2> QED BY <2>6, <2>7
<1>6. CASE Backfill(w)
  <2> DEFINE n == [q.read EXCEPT !.step = q.step.id]
  <2>1. /\ q.pc = "backfill" /\ q.inst \in Instances /\ Merged(q, n)
        /\ n.status = q.read.status /\ n.step = q.step.id
    BY <1>6, BackfillFacts
  <2> HIDE DEF n
  <2>2. PICK r : Becomes(w, r) /\ Located(r, q) BY <1>6, BackfillFacts
  <2>3. Faithful(q, row[q.inst], d) /\ Turn(q, row[q.inst]) BY <2>1 DEF AllFaithful, InTurn
  <2>4. q.read = row[q.inst] /\ row[q.inst].step = NoStep /\ Live(q.inst)
        /\ q.step = findStepByStatus(d, row[q.inst].status)
    BY <2>1, <2>3 DEF Turn, Faithful, Live
  <2>5. q.step.id \in StepIds(d) /\ q.step.id # NoStep
    <3>1. q.step \in StepRecords BY <1>1, <2>1 DEF PhaseOK
    <3> QED BY <1>2, <2>4, <3>1, OwnSteps, StepRecordFacts
  <2>6. row'[q.inst].step = q.step.id
    <3>1. row[q.inst] \in Rows BY <1>2, <2>1
    <3> QED BY <2>1, <2>4, <2>5, <3>1, MergeColumns DEF Merged
  <2>7. q.op \in FlowActions \cup ReadOps BY <1>1, <2>1 DEF PhaseOK
  <2>8. r.pc # "idle" => Faithful(r, row'[q.inst], d) /\ r.inst = q.inst
    BY <2>1, <2>2, <2>3, <2>4, <2>5, <2>6, <2>7, FaithfulLocated DEF Same
  <2>9. \A i \in Instances : row'[i].step \in StepIds(d) \cup {NoStep}
    BY <2>1, <2>5, <2>6 DEF Merged, AllFaithful
  <2> QED BY <1>3, <2>2, <2>8, <2>9, FaithfulFrame
<1>7. CASE Plan(w)
  <2> DEFINE next == IF q.op = "submit" THEN FirstRealStep(d) ELSE getNextStep(d, q.step)
             to == IF q.op = "submit" THEN "Pending" ELSE ApproveStatus(next)
  <2>1. row' = row /\ q.pc = "plan" /\ q.inst \in Instances /\ q.op \in {"submit", "approve"}
    BY <1>7, PlanFacts
  <2>2. PICK r : /\ Becomes(w, r) /\ r.pc = "write"
                 /\ r.op = q.op /\ r.inst = q.inst /\ r.second = q.second
                 /\ r.snap.status = to /\ r.snap.step = IF next = NoStep THEN NoStep ELSE next.id
    BY <1>7, PlanFacts
  <2>3. Faithful(q, row[q.inst], d) BY <2>1 DEF AllFaithful
  <2>4. FirstRealStep(d) # NoStep BY <1>2, EntrySteps, StepRecordFacts
  <2>5. Faithful(r, row[q.inst], d)
    <3>1. CASE q.op = "submit" BY <2>1, <2>2, <2>3, <2>4, <3>1 DEF Faithful, Moving
    <3>2. CASE q.op = "approve"
      <4>1. q.second /\ q.step = StepById(d, row[q.inst].step) BY <2>1, <2>3, <3>2 DEF Faithful
      <4> QED BY <2>1, <2>2, <2>3, <3>2, <4>1 DEF Faithful, Moving
    <3> QED BY <2>1, <3>1, <3>2
  <2> QED BY <1>3, <2>1, <2>2, <2>5, FaithfulFrame DEF AllFaithful
<1> QED BY <1>4, <1>5, <1>6, <1>7

LEMMA FaithfulWrites ==
  ASSUME OneWorker, Core, AllFaithful, NEW w \in Workers,
         Insert(w) \/ WriteRow(w) \/ WriteAssignee(w) \/ WriteStatus(w)
           \/ Delete(w) \/ Record(w) \/ Abort(w)
  PROVE  AllFaithful'
<1> DEFINE q == req[w]
           d == process.def
<1>1. q \in Requests /\ PhaseOK(w) BY RequestFacts
<1>2. d \in Definitions /\ row \in [Instances -> Rows] BY DEF Core, TypeOK
<1>3. process' = process BY InsertFacts, WriteRowFacts, AssigneeFacts, StatusFacts, EndFacts
<1>4. q.pc # "idle" => Faithful(q, row[q.inst], d) BY DEF AllFaithful
<1>5. ASSUME NEW r, NEW x, r.pc = "record" PROVE Faithful(r, x, d)
  BY <1>5 DEF Faithful, Moving
<1>6. CASE Insert(w)
  <2>1. /\ q.pc = "insert" /\ q.inst \in Instances
        /\ row'[q.inst] = q.snap /\ \A j \in Instances : j # q.inst => row'[j] = row[j]
    BY <1>6, InsertFacts
  <2>2. PICK r : Becomes(w, r) /\ r.pc = "record" BY <1>6, InsertFacts
  <2>3. q.snap.step \in StepIds(d) \cup {NoStep}
    BY <1>2, <1>4, <2>1, OwnSteps DEF Faithful, Opening
  <2>4. \A i \in Instances : row'[i].step \in StepIds(d) \cup {NoStep}
    BY <2>1, <2>3 DEF AllFaithful
  <2> QED BY <1>3, <1>5, <2>2, <2>4, FaithfulFrame
<1>7. CASE WriteRow(w)
  <2>1. q.pc = "write" /\ q.inst \in Instances /\ q.op \in RowWriteOps BY <1>7, WriteRowFacts
  <2>2. PICK r : Becomes(w, r) /\ Written(r, q) BY <1>7, WriteRowFacts
  <2>3. PICK new : Merged(q, new) /\ new.step = q.snap.step BY <1>7, WriteRowFacts
  <2>4. q.snap.step \in StepIds(d) \cup {NoStep, row[q.inst].step}
    BY <1>2, <1>4, <2>1, OwnSteps DEF Faithful, RowWriteOps, Moving
  <2>5. row[q.inst] \in Rows BY <1>2, <2>1
  <2>6. \A i \in Instances : row'[i].step \in StepIds(d) \cup {NoStep}
    BY <2>1, <2>3, <2>4, <2>5, MergeColumns DEF Merged, AllFaithful
  <2>7. r.pc \in {"idle", "record"} BY <2>2, TurnIdle DEF Written
  <2> QED BY <1>3, <1>5, <2>2, <2>6, <2>7, FaithfulFrame
<1>8. CASE WriteAssignee(w)
  <2>1. /\ q.pc = "write" /\ q.op = "assign" /\ q.inst \in Instances
        /\ \A j \in Instances : row'[j].step = row[j].step
    BY <1>8, AssigneeFacts
  <2>2. PICK r : /\ Becomes(w, r)
                 /\ \/ r = Idle
                    \/ r.pc = "writeStatus" /\ Same(r, q) /\ r.second = q.second
    BY <1>8, AssigneeFacts
  <2>3. r.pc # "idle" => Faithful(r, row'[q.inst], d) /\ r.inst = q.inst
    BY <1>4, <2>1, <2>2, TurnIdle DEF Faithful, Same, Moving
  <2> QED BY <1>3, <2>1, <2>2, <2>3, FaithfulFrame DEF AllFaithful
<1>9. CASE WriteStatus(w)
  <2>1. \A j \in Instances : row'[j].step = row[j].step BY <1>9, StatusFacts
  <2>2. PICK r : Becomes(w, r) /\ Written(r, q) BY <1>9, StatusFacts
  <2>3. r.pc \in {"idle", "record"} BY <2>2, TurnIdle DEF Written
  <2> QED BY <1>3, <1>5, <2>1, <2>2, <2>3, FaithfulFrame DEF AllFaithful
<1>10. CASE Delete(w) \/ Record(w) \/ Abort(w)
  <2>1. Becomes(w, Idle) /\ \A j \in Instances : row'[j].step = row[j].step BY <1>10, EndFacts
  <2> QED BY <1>3, <2>1, TurnIdle, FaithfulFrame DEF AllFaithful
<1> QED BY <1>6, <1>7, <1>8, <1>9, <1>10

THEOREM FaithfulInvariant ==
  ASSUME OneWorker, ~Failures, ~ProcessUpdates, KeepStatus
  PROVE  Spec => []AllFaithful
<1>1. Init => AllFaithful
  BY TurnIdle DEF Init, NoRow, AllFaithful
<1>2. Core /\ InTurn /\ AllFaithful /\ [Next]_vars => AllFaithful'
  <2> SUFFICES ASSUME Core, InTurn, AllFaithful, [Next]_vars PROVE AllFaithful'
    OBVIOUS
  <2>1. CASE UpdateProcess \/ UNCHANGED vars
    <3>1. UNCHANGED <<req, row, process>> BY <2>1 DEF UpdateProcess, vars
    <3> QED BY <3>1 DEF AllFaithful
  <2> QED BY <2>1, FaithfulBegins, FaithfulReads, FaithfulWrites DEF Next, Step
<1> QED BY <1>1, <1>2, CoreInvariant, TurnInvariant, PTL DEF Spec

\* A row as the lifecycle shows it.
Shown(r) ==
  [status |-> CASE r.life = "absent" -> "None"
                [] r.life = "live"   -> r.status
                [] OTHER             -> "Gone",
   step |-> r.step]

Orders == [i \in Instances |-> Shown(row[i])]

\* The searches of the lifecycle are those of the engine.
LEMMA SameSearches ==
  ASSUME NEW d
  PROVE  /\ Lifecycle!StartStep(d) = StartStep(d)
         /\ Lifecycle!FirstRealStep(d) = FirstRealStep(d)
         /\ \A status : Lifecycle!findStepByStatus(d, status) = findStepByStatus(d, status)
         /\ \A x : Lifecycle!StepById(d, x) = StepById(d, x)
         /\ \A s : Lifecycle!getNextStep(d, s) = getNextStep(d, s)
         /\ \A s : Lifecycle!getStatusForStep(s) = getStatusForStep(s)
         /\ Lifecycle!ValidDefinition(d) <=> ValidDefinition(d)
         /\ Lifecycle!Statuses = Statuses /\ Lifecycle!OpenStatuses = OpenStatuses
<1>1. \A K : Lifecycle!FirstStep(d, K) = FirstStep(d, K)
  BY DEF Lifecycle!FirstStep, FirstStep
<1>2. \A t : Lifecycle!StepsOfType(d, t) = StepsOfType(d, t)
  BY DEF Lifecycle!StepsOfType, StepsOfType
<1>3. Lifecycle!OpenStatuses = OpenStatuses BY DEF Lifecycle!OpenStatuses, OpenStatuses
<1>4. \A status : Lifecycle!TypesForStatus(status) = TypesForStatus(status)
  BY <1>3 DEF Lifecycle!TypesForStatus, TypesForStatus
<1>5. Lifecycle!StartStep(d) = StartStep(d)
  BY <1>1, <1>2 DEF Lifecycle!StartStep, StartStep
<1>6. Lifecycle!FirstRealStep(d) = FirstRealStep(d)
  BY <1>1 DEF Lifecycle!FirstRealStep, FirstRealStep
<1>7. \A status : Lifecycle!findStepByStatus(d, status) = findStepByStatus(d, status)
  BY <1>1, <1>2, <1>4 DEF Lifecycle!findStepByStatus, findStepByStatus
<1>8. \A x : Lifecycle!StepById(d, x) = StepById(d, x)
  BY <1>1 DEF Lifecycle!StepById, StepById
<1>9. \A s : Lifecycle!getNextStep(d, s) = getNextStep(d, s)
  BY <1>8 DEF Lifecycle!getNextStep, getNextStep
<1>10. \A s : Lifecycle!getStatusForStep(s) = getStatusForStep(s)
  BY DEF Lifecycle!getStatusForStep, getStatusForStep
<1>11. Lifecycle!ValidDefinition(d) <=> ValidDefinition(d)
  BY DEF Lifecycle!ValidDefinition, ValidDefinition, Lifecycle!StepIds, StepIds
<1>12. Lifecycle!Statuses = Statuses BY DEF Lifecycle!Statuses, Statuses
<1> QED BY <1>3, <1>5, <1>6, <1>7, <1>8, <1>9, <1>10, <1>11, <1>12

\* A step that takes one row from one of the sources to a status and step.
Becoming(i, sources, status, step) ==
  /\ Orders[i].status \in sources
  /\ Orders' = [Orders EXCEPT ![i] = [status |-> status, step |-> step]]
  /\ process.def' = process.def

LEMMA MoveIs ==
  ASSUME NEW i \in Instances, process' = process,
         \A j \in Instances : j # i => Shown(row'[j]) = Shown(row[j])
  PROVE  /\ Orders[i] = Shown(row[i])
         /\ Orders' = [Orders EXCEPT ![i] = Shown(row'[i])]
         /\ process.def' = process.def
BY DEF Orders

LEMMA NoMove ==
  ASSUME process' = process, \A j \in Instances : Shown(row'[j]) = Shown(row[j])
  PROVE  UNCHANGED <<process.def, Orders>>
BY DEF Orders

\* Every step is one operation of the lifecycle, or shows nothing.
Refined == Lifecycle!Next \/ UNCHANGED <<process.def, Orders>>

LEMMA ReadsRefine ==
  ASSUME OneWorker, ~Failures, Core, InTurn, AllFaithful, NEW w \in Workers,
         Insert(w) \/ Backfill(w)
  PROVE  Refined
<1> DEFINE q == req[w]
           d == process.def
<1>0. PICK i \in Instances : i = q.inst BY InsertFacts, BackfillFacts
<1>1. CASE Insert(w)
  <2>1. /\ process' = process /\ q.pc = "insert" /\ i \in Instances /\ row[i].life = "absent"
        /\ q.snap.life = "live" /\ row'[i] = q.snap /\ \A j \in Instances : j # i => row'[j] = row[j]
    BY <1>0, <1>1, InsertFacts
  <2>2. Opening(q.snap, d) BY <2>1 DEF AllFaithful, Faithful
  <2>3. Becoming(i, {"None"}, q.snap.status, q.snap.step)
    <3>1. Shown(row[i]).status = "None"
          /\ Shown(row'[i]) = [status |-> q.snap.status, step |-> q.snap.step]
      BY <2>1 DEF Shown
    <3> QED BY <2>1, <3>1, MoveIs DEF Becoming
  <2>4. Lifecycle!Open(i)
    <3>1. /\ q.snap.status \in Lifecycle!Statuses
          /\ q.snap.step \in {NoStep, Lifecycle!StartStep(d).id, Lifecycle!FirstRealStep(d).id}
          /\ q.snap.status = "Draft" <=> q.snap.step # Lifecycle!FirstRealStep(d).id
      BY <2>2, SameSearches DEF Opening
    <3>2. Lifecycle!Move(i, {"None"}, q.snap.status, q.snap.step)
      BY <2>3 DEF Lifecycle!Move, Becoming, Orders, Shown
    <3> QED BY <3>1, <3>2 DEF Lifecycle!Open, Lifecycle!Move
  <2> QED BY <2>1, <2>4 DEF Refined, Lifecycle!Next
<1>2. CASE Backfill(w)
  <2> DEFINE n == [q.read EXCEPT !.step = q.step.id]
  <2>1. /\ process' = process /\ q.pc = "backfill" /\ i \in Instances /\ Merged(q, n)
        /\ n.status = q.read.status /\ n.step = q.step.id
    BY <1>0, <1>2, BackfillFacts
  <2> HIDE DEF n
  <2>2. Faithful(q, row[i], d) /\ Turn(q, row[i]) BY <1>0, <2>1 DEF AllFaithful, InTurn
  <2>3. row[i] \in Rows BY <2>1 DEF Core, TypeOK
  <2>4. row[i].life = "live" /\ row[i].step = NoStep /\ q.read = row[i]
        /\ q.step = findStepByStatus(d, row[i].status)
    BY <2>1, <2>2 DEF Turn, Faithful
  <2>5. q.step.id # NoStep
    BY <2>1, StepRecordFacts DEF Core, PhaseOK
  <2>6. MergeNonZero(row[i], n).life = "live" /\ MergeNonZero(row[i], n).status = row[i].status
        /\ MergeNonZero(row[i], n).step = q.step.id
    BY <2>1, <2>3, <2>4, <2>5, MergeColumns
  <2>7. row'[i] = MergeNonZero(row[i], n) /\ \A j \in Instances : j # i => row'[j] = row[j]
    BY <1>0, <2>1, <2>4 DEF Merged, Live
  <2>8. row[i].status \in Statuses BY <2>3 DEF Rows
  <2>9. Becoming(i, Statuses, row[i].status, q.step.id)
    <3>1. Shown(row[i]).status = row[i].status
          /\ Shown(row'[i]) = [status |-> row[i].status, step |-> q.step.id]
      BY <2>4, <2>6, <2>7 DEF Shown
    <3> QED BY <2>1, <2>7, <2>8, <3>1, MoveIs DEF Becoming
  <2>10. Orders[i].step = NoStep /\ Orders[i].status = row[i].status
    BY <2>1, <2>4 DEF Orders, Shown
  <2>11. /\ q.step.id = Lifecycle!findStepByStatus(d, Orders[i].status).id
         /\ Orders[i].status \in Lifecycle!Statuses /\ Lifecycle!Statuses = Statuses
    BY <2>4, <2>8, <2>10, SameSearches
  <2>12. Becoming(i, Lifecycle!Statuses, Orders[i].status,
                  Lifecycle!findStepByStatus(d, Orders[i].status).id)
    BY <2>9, <2>10, <2>11 DEF Becoming
  <2>13. Lifecycle!Fill(i)
    BY <2>10, <2>11, <2>12 DEF Lifecycle!Fill, Lifecycle!Move, Becoming, Orders, Shown
  <2> QED BY <2>1, <2>13 DEF Refined, Lifecycle!Next
<1> QED BY <1>1, <1>2

LEMMA RowWritesRefine ==
  ASSUME OneWorker, Core, InTurn, AllFaithful, NEW w \in Workers, WriteRow(w)
  PROVE  Refined
<1> DEFINE q == req[w]
           d == process.def
<1>0. PICK i \in Instances : i = q.inst BY WriteRowFacts
<1>1. process' = process /\ q.pc = "write" /\ q.op \in RowWriteOps
  BY WriteRowFacts
<1>2. PICK new : /\ Merged(q, new) /\ new.step = q.snap.step
                 /\ new.status = CASE q.op = "complete" -> "Completed"
                                   [] q.op = "return" -> "Draft"
                                   [] OTHER -> q.snap.status
  BY WriteRowFacts
<1>3. Faithful(q, row[i], d) /\ Turn(q, row[i]) BY <1>0, <1>1 DEF AllFaithful, InTurn
<1>4. row[i] \in Rows /\ d \in Definitions BY <1>1 DEF Core, TypeOK
<1>5. row[i].life = "live" /\ StatusAllows(q.op, row[i].status)
  BY <1>1, <1>3 DEF Turn, RowWriteOps, FlowActions, Moving
<1>6. /\ row'[i] = MergeNonZero(row[i], new) /\ row'[i].life = "live"
      /\ row'[i].status = IF new.status = Unset THEN row[i].status ELSE new.status
      /\ row'[i].step = IF new.step = NoStep THEN row[i].step ELSE new.step
      /\ \A j \in Instances : j # i => row'[j] = row[j]
  BY <1>0, <1>2, <1>4, <1>5, MergeColumns DEF Merged, Live
<1>7. Shown(row[i]) = [status |-> row[i].status, step |-> row[i].step]
      /\ Shown(row'[i]) = [status |-> row'[i].status, step |-> row'[i].step]
  BY <1>5, <1>6 DEF Shown
<1>8. \A j \in Instances : j # i => Shown(row'[j]) = Shown(row[j]) BY <1>6
<1>9. ASSUME NEW sources, NEW status, NEW step,
             row[i].status \in sources, row'[i].status = status, row'[i].step = step
      PROVE  Becoming(i, sources, status, step)
  BY <1>1, <1>7, <1>8, <1>9, MoveIs DEF Becoming
<1>10. Orders[i] = Shown(row[i]) BY <1>1 DEF Orders
<1>11. \A status \in Statuses : status # Unset BY SentinelAssumption
<1>12. CASE q.op = "update"
  <2>1. new.status = Unset /\ new.step = NoStep BY <1>1, <1>2, <1>3, <1>12 DEF Faithful
  <2>2. \A j \in Instances : Shown(row'[j]) = Shown(row[j]) BY <1>6, <1>7, <1>8, <2>1
  <2> QED BY <1>1, <2>2, NoMove DEF Refined
<1>13. CASE q.op = "submit"
  <2>1. new.status = "Pending" /\ new.step = FirstRealStep(d).id
    BY <1>1, <1>2, <1>3, <1>13 DEF Faithful
  <2>2. FirstRealStep(d).id # NoStep BY <1>4, EntrySteps, StepRecordFacts
  <2>3. row[i].status = "Draft" BY <1>5, <1>13 DEF StatusAllows
  <2>4. row'[i].status = "Pending" /\ row'[i].step = FirstRealStep(d).id
    BY <1>6, <1>11, <2>1, <2>2 DEF Statuses
  <2>5. Lifecycle!Submit(i)
    <3>1. FirstRealStep(d).id = Lifecycle!FirstRealStep(d).id BY SameSearches
    <3>2. Becoming(i, {"Draft"}, "Pending", Lifecycle!FirstRealStep(d).id)
      BY <1>1, <1>7, <1>8, <2>3, <2>4, <3>1, MoveIs DEF Becoming
    <3> QED BY <3>2 DEF Lifecycle!Submit, Lifecycle!Move, Becoming, Orders, Shown
  <2> QED BY <1>1, <2>5 DEF Refined, Lifecycle!Next
<1>14. CASE q.op = "approve"
  <2> DEFINE next == getNextStep(d, StepById(d, row[i].step))
  <2>1. /\ new.status = ApproveStatus(next)
        /\ new.step = IF next = NoStep THEN NoStep ELSE next.id
        /\ row[i].step # NoStep
    BY <1>1, <1>2, <1>3, <1>14 DEF Faithful, Moving
  <2>2. row[i].status \in OpenStatuses BY <1>5, <1>14 DEF StatusAllows
  <2>3. next # NoStep => next.id # NoStep
    BY <1>4, SearchResults, StepRecordFacts
  <2>4. row'[i].status = ApproveStatus(next)
    BY <1>6, <1>11, <2>1, StepStatus
  <2>5. row'[i].step = IF next = NoStep THEN row[i].step ELSE next.id
    BY <1>6, <2>1, <2>3
  <2>6. Orders[i].step = row[i].step BY <1>7, <1>10
  <2>7. Lifecycle!getNextStep(d, Lifecycle!StepById(d, Orders[i].step)) = next
    BY <2>6, SameSearches
  <2> HIDE DEF next
  <2>8. IF next = NoStep
        THEN Becoming(i, OpenStatuses, "Completed", Orders[i].step)
        ELSE Becoming(i, OpenStatuses, getStatusForStep(next), next.id)
    BY <1>9, <2>2, <2>4, <2>5, <2>6 DEF ApproveStatus, Becoming
  <2>9. Lifecycle!Approve(i)
    <3> DEFINE n == Lifecycle!getNextStep(d, Lifecycle!StepById(d, Orders[i].step))
    <3>1. Orders[i].step # NoStep BY <2>1, <2>6
    <3>2. OpenStatuses = Lifecycle!OpenStatuses
          /\ getStatusForStep(next) = Lifecycle!getStatusForStep(next)
      BY SameSearches
    <3>3. IF n = NoStep
          THEN Becoming(i, Lifecycle!OpenStatuses, "Completed", Orders[i].step)
          ELSE Becoming(i, Lifecycle!OpenStatuses, Lifecycle!getStatusForStep(n), n.id)
      BY <2>7, <2>8, <3>2 DEF Becoming
    <3> QED BY <3>1, <3>3 DEF Lifecycle!Approve, Lifecycle!Move, Becoming, Orders, Shown
  <2> QED BY <1>1, <2>9 DEF Refined, Lifecycle!Next
<1>15. ASSUME NEW to \in Statuses, new.status = to, q.op \in {"complete", "return"}
       PROVE  row'[i].status = to /\ row'[i].step = Orders[i].step
  BY <1>1, <1>2, <1>3, <1>6, <1>7, <1>10, <1>11, <1>15 DEF Faithful, Moving
<1>16. CASE q.op = "complete"
  <2>1. new.status = "Completed" BY <1>2, <1>16
  <2>2. row[i].status = "Processing" BY <1>5, <1>16 DEF StatusAllows
  <2>3. Lifecycle!Complete(i)
    <3>1. row'[i].status = "Completed" /\ row'[i].step = Orders[i].step
      BY <1>15, <1>16, <2>1 DEF Statuses
    <3>2. Becoming(i, {"Processing"}, "Completed", Orders[i].step)
      BY <1>1, <1>7, <1>8, <2>2, <3>1, MoveIs DEF Becoming
    <3> QED BY <3>2 DEF Lifecycle!Complete, Lifecycle!Move, Becoming, Orders, Shown
  <2> QED BY <1>1, <2>3 DEF Refined, Lifecycle!Next
<1>17. CASE q.op = "return"
  <2>1. new.status = "Draft" BY <1>2, <1>17
  <2>2. row[i].status \in OpenStatuses BY <1>5, <1>17 DEF StatusAllows
  <2>3. Lifecycle!Return(i)
    <3>1. row'[i].status = "Draft" /\ row'[i].step = Orders[i].step
      BY <1>15, <1>17, <2>1 DEF Statuses
    <3>2. OpenStatuses = Lifecycle!OpenStatuses BY SameSearches
    <3>3. Becoming(i, Lifecycle!OpenStatuses, "Draft", Orders[i].step)
      BY <1>9, <2>2, <3>1, <3>2 DEF Becoming
    <3> QED BY <3>3 DEF Lifecycle!Return, Lifecycle!Move, Becoming, Orders, Shown
  <2> QED BY <1>1, <2>3 DEF Refined, Lifecycle!Next
<1> QED BY <1>1, <1>12, <1>13, <1>14, <1>16, <1>17 DEF RowWriteOps

LEMMA StatusWritesRefine ==
  ASSUME OneWorker, Core, InTurn, NEW w \in Workers, WriteStatus(w) \/ Delete(w)
  PROVE  Refined
<1> DEFINE q == req[w]
<1>0. PICK i \in Instances : i = q.inst BY StatusFacts, EndFacts
<1>1. process' = process /\ q.pc # "idle" BY StatusFacts, EndFacts
<1>2. Turn(q, row[i]) BY <1>0, <1>1 DEF InTurn
<1>3. Orders[i] = Shown(row[i]) BY <1>1 DEF Orders
<1>4. CASE WriteStatus(w)
  <2>1. /\ (q.pc = "write" /\ q.op \in {"reject", "cancel"}) \/ (q.pc = "writeStatus" /\ q.op = "assign")
        /\ row'[i].status = IF Live(i) THEN TargetStatus(q.op) ELSE row[i].status
        /\ \A j \in Instances : j # i => row'[j].status = row[j].status
        /\ \A j \in Instances : row'[j].life = row[j].life /\ row'[j].step = row[j].step
    BY <1>0, <1>4, StatusFacts
  <2>2. row[i].life = "live" /\ StatusAllows(q.op, row[i].status)
    BY <1>2, <2>1 DEF Turn, FlowActions, Moving
  <2>3. /\ Shown(row[i]).status = row[i].status /\ Orders[i].step = row[i].step
        /\ Shown(row'[i]) = [status |-> TargetStatus(q.op), step |-> Orders[i].step]
    BY <1>1, <1>3, <2>1, <2>2 DEF Shown, Live
  <2>4. \A j \in Instances : j # i => Shown(row'[j]) = Shown(row[j]) BY <2>1 DEF Shown
  <2>5. ASSUME NEW sources, row[i].status \in sources
        PROVE  Becoming(i, sources, TargetStatus(q.op), Orders[i].step)
    BY <1>1, <2>3, <2>4, <2>5, MoveIs DEF Becoming
  <2>6. row[i].status \in Statuses BY <1>1 DEF Core, TypeOK, Rows
  <2>7. CASE q.op = "assign"
    <3>1. row[i].status = "Pending" /\ TargetStatus(q.op) = "Processing"
      BY <2>2, <2>7 DEF StatusAllows, TargetStatus
    <3>2. Lifecycle!Assign(i) BY <2>5, <3>1 
      DEF Lifecycle!Assign, Lifecycle!Move, Becoming, Orders, Shown
    <3> QED BY <1>1, <3>2 DEF Refined, Lifecycle!Next
  <2>8. CASE q.op = "reject"
    <3>1. row[i].status \in OpenStatuses /\ TargetStatus(q.op) = "Rejected"
      BY <2>2, <2>8 DEF StatusAllows, TargetStatus
    <3>2. Lifecycle!Reject(i) BY <2>5, <3>1, SameSearches 
      DEF Lifecycle!Reject, Lifecycle!Move, Becoming, Orders, Shown
    <3> QED BY <1>1, <3>2 DEF Refined, Lifecycle!Next
  <2>9. CASE q.op = "cancel"
    <3>1. row[i].status \in {"Draft", "Rejected"} \cup OpenStatuses /\ TargetStatus(q.op) = "Cancelled"
      BY <2>2, <2>6, <2>9 DEF StatusAllows, TargetStatus, Statuses, OpenStatuses
    <3>2. Lifecycle!Cancel(i) BY <2>5, <3>1, SameSearches 
      DEF Lifecycle!Cancel, Lifecycle!Move, Becoming, Orders, Shown
    <3> QED BY <1>1, <3>2 DEF Refined, Lifecycle!Next
  <2> QED BY <2>1, <2>7, <2>8, <2>9
<1>5. CASE Delete(w)
  <2>1. /\ q.pc = "write" /\ q.op = "delete"
        /\ row'[i].life = IF Live(i) THEN "deleted" ELSE row[i].life
        /\ \A j \in Instances : j # i => row'[j] = row[j]
        /\ \A j \in Instances : row'[j].status = row[j].status /\ row'[j].step = row[j].step
    BY <1>0, <1>5, EndFacts
  <2>2. row[i].life = "live" /\ row[i].status \in {"Draft", "Completed", "Rejected"}
    BY <1>2, <2>1 DEF Turn, StatusAllows
  <2>3. /\ Shown(row[i]).status = row[i].status /\ Orders[i].step = row[i].step
        /\ Shown(row'[i]) = [status |-> "Gone", step |-> Orders[i].step]
    BY <1>1, <1>3, <2>1, <2>2 DEF Shown, Live
  <2>4. \A j \in Instances : j # i => Shown(row'[j]) = Shown(row[j]) BY <2>1
  <2>5. Becoming(i, {"Draft", "Completed", "Rejected"}, "Gone", Orders[i].step)
    BY <1>1, <2>2, <2>3, <2>4, MoveIs DEF Becoming
  <2>6. Lifecycle!Delete(i)
    BY <2>5 DEF Lifecycle!Delete, Lifecycle!Move, Becoming, Orders, Shown
  <2> QED BY <1>1, <2>6 DEF Refined, Lifecycle!Next
<1> QED BY <1>4, <1>5

LEMMA StepRefines ==
  ASSUME OneWorker, ~Failures, ~ProcessUpdates, Core, InTurn, AllFaithful, [Next]_vars
  PROVE  Refined
<1>1. ASSUME process' = process, \A j \in Instances : Shown(row'[j]) = Shown(row[j])
      PROVE  Refined
  BY <1>1, NoMove DEF Refined
<1>2. ASSUME NEW w \in Workers, NEW i \in Instances,
             PrepareCreate(w, i) \/ Load(w, i) \/ LoadForUpdate(w, i) \/ LoadForDelete(w, i) \/ Query(w, i)
      PROVE  Refined
  BY <1>1, <1>2, BeginFacts
<1>3. ASSUME NEW w \in Workers,
             ReadPermit(w) \/ ReadLocate(w) \/ Resolve(w) \/ Plan(w) \/ Record(w) \/ Abort(w)
      PROVE  Refined
  BY <1>1, <1>3, ReadFacts, ResolveFacts, PlanFacts, EndFacts
<1>4. ASSUME NEW w \in Workers, WriteAssignee(w) PROVE Refined
  BY <1>1, <1>4, AssigneeFacts DEF Shown
<1>5. CASE UpdateProcess \/ UNCHANGED vars
  BY <1>1, <1>5 DEF UpdateProcess, vars
<1> QED BY <1>2, <1>3, <1>4, <1>5, ReadsRefine, RowWritesRefine, StatusWritesRefine DEF Next, Step

\* When requests do not overlap, no DAO call fails, the process stays as it is and updates leave the
\* status alone, every behaviour of the engine's handlers, cut at their DAO calls, is a behaviour of the
\* lifecycle in which an operation is one step.
THEOREM ImplementsLifecycle ==
  ASSUME OneWorker, ~Failures, ~ProcessUpdates, KeepStatus
  PROVE  Spec => RefinesLifecycle
<1>1. Init => Lifecycle!Init
  <2> SUFFICES ASSUME Init PROVE Lifecycle!Init
    OBVIOUS
  <2>1. ValidDefinition(process.def) BY DefinitionsAssumption DEF Init
  <2>2. Orders = [i \in Instances |-> [status |-> "None", step |-> NoStep]]
    BY DEF Init, NoRow, Orders, Shown
  <2> QED BY <2>1, <2>2, SameSearches DEF Lifecycle!Init, Orders, Shown
<1>2. Core /\ InTurn /\ AllFaithful /\ [Next]_vars => [Lifecycle!Next]_<<process.def, Orders>>
  BY StepRefines DEF Refined
<1> QED BY <1>1, <1>2, CoreInvariant, TurnInvariant, FaithfulInvariant, PTL
        DEF Spec, RefinesLifecycle, Lifecycle!Spec, Orders, Shown
====
