\* Handlers end before StaleAfter: one holder per job.
SPECIFICATION QueueSpec
CONSTANTS
  Jobs = {j1, j2}
  Unknown = {j2}
  NoJob = NoJob
  NoWorker = NoWorker
  Workers = {w1, w2}
  Embedded = {w1}
  OneShot = {w2}
  Batch = 1
  StaleAfter = 2
  HandlerLimit = 1
  RestartDelay = 0
  MaxTime = 3
  MaxFaults = 2
INVARIANTS QueueTypeOK ExclusiveExecution
PROPERTIES SettledOnce ImplementsLease
CHECK_DEADLOCK FALSE
