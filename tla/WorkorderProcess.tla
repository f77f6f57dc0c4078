---- MODULE WorkorderProcess ----
(***************************************************************************)
(* The process definition of a work order and the functions the instance   *)
(* engine computes from it (internal/workorder/service/instance_service.go, *)
(* internal/workorder/dao/process_dao.go).  No state: everything here is a  *)
(* pure function of a definition, a step, a status or a user.              *)
(*                                                                         *)
(* A definition is [steps, connections].  The order of both lists matters:  *)
(* the code always takes the first match.  A step keeps the fields that     *)
(* decide something: id, type, assigneeType, assigneeIds, actions.          *)
(***************************************************************************)
EXTENDS Integers, Sequences

CONSTANTS NoStep   \* the nil *string / *ProcessStep of the source

\* Status of an instance, in the order of the source's constants 1..6.
Statuses == {"Draft", "Pending", "Processing", "Completed", "Rejected", "Cancelled"}

OpenStatuses == {"Pending", "Processing"}

\* Actions a flow record can name.
FlowActions == {"submit", "approve", "reject", "assign", "cancel", "complete", "return"}

StepIds(d) == {d.steps[k].id : k \in DOMAIN d.steps}

(***************************************************************************)
(* What ValidateProcessDefinition accepts.  Types outside the four         *)
(* constants are accepted, and so are several connections out of a step,   *)
(* loops, and steps no connection leaves.                                  *)
(***************************************************************************)
ValidDefinition(d) ==
  /\ Len(d.steps) > 0 /\ Len(d.connections) > 0
  /\ \A j, k \in DOMAIN d.steps : d.steps[j].id = d.steps[k].id => j = k
  /\ \E k \in DOMAIN d.steps :
       /\ d.steps[k].type = "start"
       /\ \A j \in DOMAIN d.steps : d.steps[j].type = "start" => j = k
  /\ \E k \in DOMAIN d.steps : d.steps[k].type = "end"
  /\ \A c \in DOMAIN d.connections :
       {d.connections[c].from, d.connections[c].to} \subseteq StepIds(d)

\* The first step of the list whose index is in K, or NoStep.
FirstStep(d, K) ==
  IF K = {} THEN NoStep ELSE d.steps[CHOOSE k \in K : \A m \in K : k <= m]

StepsOfType(d, types) == {k \in DOMAIN d.steps : d.steps[k].type \in types}

StepById(d, id) == FirstStep(d, {k \in DOMAIN d.steps : d.steps[k].id = id})

StartStep(d) == FirstStep(d, StepsOfType(d, {"start"}))

FirstRealStep(d) ==
  FirstStep(d, {k \in DOMAIN d.steps : d.steps[k].type # "start"})

\* The types that stand for a status; the step list is searched for the first.
TypesForStatus(status) ==
  CASE status = "Draft"          -> {"start"}
    [] status \in OpenStatuses   -> {"approval", "task"}
    [] OTHER                     -> {"end"}

findStepByStatus(d, status) ==
  LET K == StepsOfType(d, TypesForStatus(status))
  IN  IF K = {} THEN d.steps[1] ELSE FirstStep(d, K)

\* The step GetCurrentStep returns for a row whose current_step_id is stepId.
LocateStep(d, stepId, status) ==
  LET found == IF stepId = NoStep THEN NoStep ELSE StepById(d, stepId)
  IN  IF found = NoStep THEN findStepByStatus(d, status) ELSE found

\* Target of the first connection that leaves the step, or NoStep.
getNextStep(d, step) ==
  LET out == {c \in DOMAIN d.connections : d.connections[c].from = step.id}
  IN  IF out = {} THEN NoStep
      ELSE StepById(d, d.connections[CHOOSE c \in out : \A m \in out : c <= m].to)

getStatusForStep(step) ==
  CASE step.type = "start" -> "Draft"
    [] step.type = "task"  -> "Processing"
    [] step.type = "end"   -> "Completed"
    [] OTHER               -> "Pending"

\* Mutant: an empty list of users lets nobody through.
canUserOperateListed(step, operator, assignee) ==
  assignee = operator \/ (step.assigneeType = "user" => operator \in step.assigneeIds)

canUserOperate(step, operator, assignee) ==
  \/ assignee = operator
  \/ step.assigneeType = "user" => operator \in step.assigneeIds \/ step.assigneeIds = {}

getActionsForStep(step, status) ==
  step.actions \cup
  CASE status = "Draft"      -> {"submit", "cancel"}
    [] status = "Pending"    -> {"assign", "approve", "reject", "cancel"}
    [] status = "Processing" -> {"complete", "return", "approve", "reject", "cancel"}
    [] OTHER                 -> {}

\* Mutant: a finished order can be cancelled.
StatusAllowsCancelFinished(op, status) ==
  CASE op = "submit"                          -> status = "Draft"
    [] op = "assign"                          -> status = "Pending"
    [] op \in {"approve", "reject", "return"} -> status \in OpenStatuses
    [] op = "complete"                        -> status = "Processing"
    [] op = "cancel"                          -> status # "Cancelled"
    [] op = "update"                          -> status \in {"Draft", "Pending"}
    [] op = "delete"                          -> status \in {"Draft", "Completed", "Rejected"}
    [] OTHER                                  -> TRUE

\* The status guard at the head of each handler.
StatusAllows(op, status) ==
  CASE op = "submit"                            -> status = "Draft"
    [] op = "assign"                            -> status = "Pending"
    [] op \in {"approve", "reject", "return"}   -> status \in OpenStatuses
    [] op = "complete"                          -> status = "Processing"
    [] op = "cancel"                            -> status \notin {"Completed", "Cancelled"}
    [] op = "update"                            -> status \in {"Draft", "Pending"}
    [] op = "delete"                            -> status \in {"Draft", "Completed", "Rejected"}
    [] OTHER                                    -> TRUE

====
