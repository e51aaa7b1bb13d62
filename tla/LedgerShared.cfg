\* Two processes on one database file.
SPECIFICATION LedgerSpec
CONSTANTS
  e1 = e1
  e2 = e2
  e3 = e3
  tokyo = tokyo
  kyoto = kyoto
  cafe = cafe
  alice = alice
  dana = dana
  Episodes = {e1, e2}
  Claims = {tokyo, kyoto, cafe}
  Key <- SomeKeys
  Functional = {alice}
  Says <- SomeText
  Actors = {p1, p2}
  NoActor = NoActor
  NoEpisode = NoEpisode
  Reviews = FALSE
  EpisodeLimit = 3
  FactLimit = 1
  ForgetLimit = 4
  MaxOps = 5
  MaxFaults = 1
INVARIANTS LedgerTypeOK
PROPERTIES HistoryIsKept
CHECK_DEADLOCK FALSE
