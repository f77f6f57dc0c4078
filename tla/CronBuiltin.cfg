\* A built-in job, one request at a time.
SPECIFICATION Spec
CONSTANTS
  Jobs = {j1}
  Builtin = {j1}
  Workers = {w1, w2}
  Admins = {a1}
  Triggers = {k1}
  MaxRetry = 1
  MaxEvents = 4
  NoTask = NoTask
  NoJob = NoJob
INVARIANTS
  BuiltinNeverDeleted
SYMMETRY mcSymmetry
CHECK_DEADLOCK FALSE
