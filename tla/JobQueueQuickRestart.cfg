\* A supervisor that restarts a worker at once.
SPECIFICATION FairQueueSpec
CONSTANTS
  Jobs = {j1, j2}
  Unknown = {}
  NoJob = NoJob
  NoWorker = NoWorker
  Workers = {w1}
  Embedded = {}
  OneShot = {}
  Batch = 1
  StaleAfter = 2
  HandlerLimit = 3
  RestartDelay = 0
  MaxTime = 4
  MaxFaults = 1
PROPERTIES EnqueuedIsSettled
CHECK_DEADLOCK FALSE
