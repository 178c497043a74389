SPECIFICATION Spec
CONSTANTS
    e1 = e1
    v1 = v1
    v2 = v2
    v3 = v3
    n1 = n1
    NoRow = NoRow
    NoVote = NoVote
    Ctxs = {c1}
    AdminCtxs = {c1}
    RecordCtxs = {c1}
    Nonces = {n1}
    Elections <- MCElections
    Voters <- MCVoters
    Options <- MCOptions
    OptionCount <- MCOptionCount
    Requests <- WriterRequests
    Eligible <- MCEligible
    Hash <- MCHash
    MaxVoters = 2
    MaxVersion = 1
    MaxAttempts = 3
INVARIANT RetryNeverEscapes
