\* One request at a time.
SPECIFICATION Spec
CONSTANTS
  Instances = {"i1"}
  Workers = {w1}
  u1 = u1
  u2 = u2
  u3 = u3
  Operators = {u1, u2}
  UserIds = {u1, u2}
  Definitions <- mcOnlyLinear
  CreateStatuses <- mcNotCompleted
  Edits <- mcKeepStatus
  Failures = FALSE
  ProcessUpdates = FALSE
  MaxCalls = 4
  NoUser = NoUser
  Unset = Unset
  NoStep = NoStep
PROPERTIES
  ReturnClearsAssignee
CHECK_DEADLOCK FALSE
