---- MODULE WorkorderLifecycle ----
(***************************************************************************)
(* What the instance engine promises when requests on an instance do not    *)
(* overlap: every operation is one step that looks at the current status    *)
(* and step and moves both.  Nothing leaves Completed or Cancelled except   *)
(* deletion of a completed instance, and an approval follows the            *)
(* connection that leaves the current step.                                 *)
(***************************************************************************)
EXTENDS WorkorderProcess

CONSTANTS Instances

VARIABLES
  def,    \* the process definition, fixed
  order   \* order[i]: [status, step], status "None" before and "Gone" after

Move(i, sources, status, step) ==
  /\ order[i].status \in sources
  /\ order' = [order EXCEPT ![i] = [status |-> status, step |-> step]]
  /\ UNCHANGED def

Open(i) ==
  \E status \in Statuses, step \in {NoStep, StartStep(def).id, FirstRealStep(def).id} :
    /\ status = "Draft" <=> step # FirstRealStep(def).id
    /\ Move(i, {"None"}, status, step)

Fill(i) ==
  /\ order[i].step = NoStep /\ order[i].status \in Statuses
  /\ Move(i, Statuses, order[i].status, findStepByStatus(def, order[i].status).id)

Submit(i) == Move(i, {"Draft"}, "Pending", FirstRealStep(def).id)

Assign(i) == Move(i, {"Pending"}, "Processing", order[i].step)

Approve(i) ==
  LET next == getNextStep(def, StepById(def, order[i].step)) IN
  /\ order[i].step # NoStep
  /\ IF next = NoStep THEN Move(i, OpenStatuses, "Completed", order[i].step)
     ELSE Move(i, OpenStatuses, getStatusForStep(next), next.id)

Reject(i) == Move(i, OpenStatuses, "Rejected", order[i].step)

Cancel(i) == Move(i, {"Draft", "Rejected"} \cup OpenStatuses, "Cancelled", order[i].step)

Complete(i) == Move(i, {"Processing"}, "Completed", order[i].step)

Return(i) == Move(i, OpenStatuses, "Draft", order[i].step)

Delete(i) == Move(i, {"Draft", "Completed", "Rejected"}, "Gone", order[i].step)

Init ==
  /\ ValidDefinition(def)
  /\ order = [i \in Instances |-> [status |-> "None", step |-> NoStep]]

Next == \E i \in Instances :
  \/ Open(i)   \/ Fill(i)   \/ Submit(i)   \/ Assign(i) \/ Approve(i)
  \/ Reject(i) \/ Cancel(i) \/ Complete(i) \/ Return(i) \/ Delete(i)

Spec == Init /\ [][Next]_<<def, order>>

====
