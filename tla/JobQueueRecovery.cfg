\* A supervisor that waits StaleAfter before it restarts a worker.
SPECIFICATION FairQueueSpec
CONSTANTS
  Jobs = {j1, j2}
  Unknown = {}
  NoJob = NoJob
  NoWorker = NoWorker
  Workers = {w1, w2}
  Embedded = {}
  OneShot = {}
  Batch = 1
  StaleAfter = 2
  HandlerLimit = 3
  RestartDelay = 2
  MaxTime = 5
  MaxFaults = 1
INVARIANTS TakeoverOnlyWhenStale
PROPERTIES EnqueuedIsSettled
CHECK_DEADLOCK FALSE
