\* One process that consolidates again.
SPECIFICATION LedgerSpec
CONSTANTS
  e1 = e1
  e2 = e2
  e3 = e3
  tokyo = tokyo
  kyoto = kyoto
  cafe = cafe
  alice = alice
  dana = dana
  Episodes = {e1, e2}
  Claims = {tokyo, kyoto, cafe}
  Key <- SomeKeys
  Functional = {alice}
  Says <- SomeText
  Actors = {p1}
  NoActor = NoActor
  NoEpisode = NoEpisode
  Reviews = FALSE
  EpisodeLimit = 3
  FactLimit = 4
  ForgetLimit = 4
  MaxOps = 5
  MaxFaults = 0
PROPERTIES NothingNewNothingWritten
CHECK_DEADLOCK FALSE
