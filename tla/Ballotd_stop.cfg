CONSTANTS
    Voters = {v1, v2}
    Operators = {o1}
    None = None
    MAX_WORKERS = 1
    Tried <- OneEach
    Claims = {v2}
    MaxRequests <- FirstAsks
    v1 = v1
    v2 = v2
    o1 = o1
    MaxFaults = 1
    MaxClients = 2
SPECIFICATION FairSpec
INVARIANTS WorkersAccounted ActsAsItself
PROPERTIES StopsWhenAsked EveryoneHearsBack
