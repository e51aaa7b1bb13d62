\* Seven small machines, one at a time.
SPECIFICATION KernelsSpec
CONSTANTS
  a = a
  b = b
  c = c
  d = d
  note = note
  memo = memo
  essay = essay
  small = small
  wide = wide
  Tuples <- SomeTuples
  Programs <- SomePrograms
  MaxInferences = 2
  Nodes = {a, b, c, d}
  Questions <- SomeQuestions
  Undefined = Undefined
  Keys = {livesIn, likes}
  Functional = {livesIn}
  Objects = {a, b}
  Unset = Unset
  MaxTime = 2
  MaxFacts = 3
  Texts = {note, memo, essay}
  Length <- SomeLength
  Mentions <- SomeMentions
  Shares <- SomeShares
  Calls <- SomeCalls
  MaxTokens = 4
  ContextTokens = 3
  Hosts <- SomeHosts
  Urls <- SomeUrls
  Answers <- SomeAnswers
  Cap = 2
  Buffer = 3
  MaxBody = 4
  Nowhere = Nowhere
  Pages = {1, 2}
  MaxContents = 2
  MaxKills = 1
  Graphs <- SomeGraphs
  Sizes = {small, wide}
  Far = 1
  MaxPaints = 2
  Nothing = Nothing
  Moved = Moved
INVARIANTS DatalogIsLeastModel PathIsShortest OnePlaceAtATime RecallFitsTheBudget BackupIsASnapshot CanvasSettles
PROPERTIES IntakesEnd
CHECK_DEADLOCK FALSE
