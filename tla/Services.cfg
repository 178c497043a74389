SPECIFICATION MCSpec
CONSTANTS
  w1 = w1
  w2 = w2
  None = None
  Workers = {w1, w2}
  Asks <- FewAsks
  Earlier <- Zoe
  Slots = 1
  DefaultTries = 2
  ConfTries = 2
  Attempts = 2
  MaxConns = 2
  MaxAsks = 2
  MaxFaults = 2
  QueueCap = 1
  RespawnMax = 1
  MaxFailures = 2
  Threads = {"t1", "t2"}
  SockCap = 2
  MaxAttempts = 2
  DropClaimMax = 1
  DrainMax = 3
INVARIANTS
  RecordsAccounted
  UniqueAccounts AnswerTrue
PROPERTIES
  TurnComesBack ServicesEnd
CHECK_DEADLOCK FALSE
