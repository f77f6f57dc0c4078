\* Two workers, one API goroutine: scheduled and manual runs of a job, with
\* failing calls, time limits and restarts.
SPECIFICATION FairSpec
CONSTANTS
  Jobs = {j1}
  Builtin = {}
  Workers = {w1, w2}
  Admins = {a1}
  Triggers = {k1}
  MaxRetry = 1
  MaxEvents = 4
  NoTask = NoTask
  NoJob = NoJob
INVARIANTS
  TypeOK
  OneWorkerPerTask
  RunningHasWorker
  CountersAgree
PROPERTIES
  RunEnds
  TasksSettle
CHECK_DEADLOCK FALSE
