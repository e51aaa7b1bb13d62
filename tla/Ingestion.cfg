\* One API process and two workers; handlers end before StaleAfter.
SPECIFICATION IngestSpec
CONSTANTS
  u = u
  v = v
  m = m
  k1 = k1
  k2 = k2
  Requests = {u, v, m}
  Jobs = {u, v}
  KeyOf <- SomeKeys
  NoKey = NoKey
  NoRequest = NoRequest
  Api = {a1}
  Unknown = {}
  NoJob = NoJob
  Workers = {w1, w2}
  Embedded = {w1}
  OneShot = {}
  Batch = 1
  StaleAfter = 2
  HandlerLimit = 1
  RestartDelay = 0
  MaxTime = 3
  MaxFaults = 1
  MaxErrors = 1
INVARIANTS IngestTypeOK SucceededIsStored StoredOncePerAttempt JobAndRunAgree OneRunPerKey
PROPERTIES SettledRunIsFinal QueueSpec
CHECK_DEADLOCK FALSE
