\* One process: operations do not overlap, but may stop half way.
SPECIFICATION LedgerSpec
CONSTANTS
  e1 = e1
  e2 = e2
  e3 = e3
  tokyo = tokyo
  kyoto = kyoto
  cafe = cafe
  alice = alice
  dana = dana
  Episodes = {e1, e2, e3}
  Claims = {tokyo, kyoto, cafe}
  Key <- SomeKeys
  Functional = {alice}
  Says <- SomeText
  Actors = {p1}
  NoActor = NoActor
  NoEpisode = NoEpisode
  Reviews = TRUE
  EpisodeLimit = 3
  FactLimit = 3
  ForgetLimit = 3
  MaxOps = 6
  MaxFaults = 1
INVARIANTS ActiveFactsAgree
PROPERTIES HistoryIsFrozen LatestSaidIsActive ForgottenIsSilent PurgedIsGone ImplementsBeliefs
CHECK_DEADLOCK FALSE
