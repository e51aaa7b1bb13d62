\* One API process that may fail between the run and its job.
SPECIFICATION IngestSpec
CONSTANTS
  u = u
  v = v
  m = m
  k1 = k1
  k2 = k2
  Requests = {u, v}
  Jobs = {u, v}
  KeyOf <- SomeKeys
  NoKey = NoKey
  NoRequest = NoRequest
  Api = {a1}
  Unknown = {}
  NoJob = NoJob
  Workers = {w1}
  Embedded = {w1}
  OneShot = {}
  Batch = 1
  StaleAfter = 2
  HandlerLimit = 1
  RestartDelay = 0
  MaxTime = 1
  MaxFaults = 0
  MaxErrors = 1
INVARIANTS AcceptedUrlHasJob
CHECK_DEADLOCK FALSE
