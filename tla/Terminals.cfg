SPECIFICATION MCSpec
CHECK_DEADLOCK FALSE
CONSTANTS
  None = None
  Nil = Nil
  e1 = e1
  e2 = e2
  e3 = e3
  o1 = o1
  o2 = o2
  Elections = {e1, e2, e3}
  Unknown = {"ghost"}
  Eligible = {e1, e2}
  MaxConns = 2
  MaxVersion = 2
  MaxFaults = 2
  Operators = {o1, o2}
  Configs <- FiveConfigs
  Typed <- FiveIds
  First = 5
  IntMax = 7
  Attempts = 2
  MaxRows = 3
  MaxFailures = 2
  MaxMethod = 3
  MaxPath = 8
  MaxKey = 3
  MaxValue = 4
  MaxHeaders = 2
  UintMax = 600
  Size <- SmallSizes
  BodyMax = 90
  CiphertextMax = 6
  MaxOptions = 2
  MaxVoters = 2
  FrameMax = 110
  LongMax = 63
  TokenMax = 78
  NameMax = 2
  Name <- LoggedIn
  Requests <- PlainRequests
  Responses <- SomeResponses
  Frames <- SomeFrames
  Tables <- SomeTables
  Caps <- SomeCaps
  Texts <- SomeTexts
  Claims <- SomeClaims
  Secrets <- SomeSecrets
  Times = {1, 2, 30}
SYMMETRY Either
INVARIANTS
  RequestArrives AnswerArrives TextsExact
  VotesAsShown NoFalseAlarm OneRowPerElection CreationTrue
PROPERTY AnswersItsRequest
