\* Disabling a job while it runs.
SPECIFICATION Spec
CONSTANTS
  Jobs = {j1}
  Builtin = {}
  Workers = {w1, w2}
  Admins = {a1}
  Triggers = {k1}
  MaxRetry = 1
  MaxEvents = 4
  NoTask = NoTask
  NoJob = NoJob
PROPERTIES
  DisabledUntilEnabled
SYMMETRY mcSymmetry
CHECK_DEADLOCK FALSE
