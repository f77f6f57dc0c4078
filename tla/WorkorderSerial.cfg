\* One request at a time, nothing fails, the process is fixed.
SPECIFICATION Spec
CONSTANTS
  Instances = {"i1"}
  Workers = {w1}
  u1 = u1
  u2 = u2
  u3 = u3
  Operators = {u1, u2}
  UserIds = {u1, u3}
  Definitions <- mcBoth
  CreateStatuses <- mcNotCompleted
  Edits <- mcKeepStatus
  Failures = FALSE
  ProcessUpdates = FALSE
  MaxCalls = 6
  NoUser = NoUser
  Unset = Unset
  NoStep = NoStep
INVARIANTS
  TypeOK
  TrailExplainsStatus
PROPERTIES
  TerminalIsFinal
  RefinesLifecycle
CHECK_DEADLOCK FALSE
