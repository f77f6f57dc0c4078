\* Two overlapping requests. Any DAO call can fail, a request can be cut short,
\* the process can be edited at any time, users can have been removed.
SPECIFICATION Spec
CONSTANTS
  Instances = {"i1"}
  Workers = {w1, w2}
  u1 = u1
  u2 = u2
  u3 = u3
  Operators = {u1, u2}
  UserIds = {u1, u3}
  Definitions <- mcBoth
  CreateStatuses <- mcFresh
  Edits <- mcOpenEdit
  Failures = TRUE
  ProcessUpdates = TRUE
  MaxCalls = 3
  NoUser = NoUser
  Unset = Unset
  NoStep = NoStep
INVARIANTS
  CompletedHasTime
  AssignedBeforeProcessing
  StuckOnMissingUsersOnly
PROPERTIES
  ClearedOnPurpose
  DeletedIsFrozen
SYMMETRY mcSymmetry
CHECK_DEADLOCK FALSE
