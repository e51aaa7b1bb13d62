\* Two spaces, one episode stored and two more, four more requests.
SPECIFICATION SpacesSpec
CONSTANTS
  plain = plain
  other = other
  dana = dana
  atCafe = atCafe
  cafe = cafe
  both = both
  hush = hush
  home = home
  work = work
  Spaces = {home, work}
  Default = home
  Stored <- SomeStored
  Contents = {plain, other}
  Claims = {atCafe}
  Subject <- SomeSubject
  Queries = {cafe, both, hush}
  Tokens <- SomeTokens
  Words <- SomeWords
  Parts <- SomeParts
  Holds <- SomeHolds
  Says <- SomeSays
  NoClaim = NoClaim
  Documents <- SomeDocuments
  Profiles = {}
  ListLimit = 2
  EpisodeLimit = 10
  FactLimit = 10
  ForgetLimit = 10
  MaxEpisodes = 3
  MaxOps = 4
INVARIANTS NoOrphans SubjectsAreKnown AdaptersAgree SearchesAgree PreviewTellsTheFuture
PROPERTIES SpacesAreApart
CHECK_DEADLOCK FALSE
