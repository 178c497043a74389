SPECIFICATION FairSpec
CONSTANTS
    e1 = e1
    v1 = v1
    v2 = v2
    v3 = v3
    n1 = n1
    NoRow = NoRow
    NoVote = NoVote
    Ctxs = {c1, c2}
    AdminCtxs = {c2}
    RecordCtxs = {c1}
    Nonces = {n1, n2}
    Elections <- MCElections
    Voters <- MCVoters
    Options <- MCOptions
    OptionCount <- MCOptionCount
    Requests <- DaemonRequests
    Eligible <- MCEligible
    Hash <- MCHash
    MaxVoters = 2
    MaxVersion = 2
    MaxAttempts = 2
INVARIANTS OneLiveBallotPerVoter NonceSpentOnce ReceiptsTraceable AnswerHonest ResultsAgree
PROPERTIES RecordedWhileOpen LifecycleForward ImplementsLedger EveryRequestEnds
