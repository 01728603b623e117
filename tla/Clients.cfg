CONSTANTS
    None = None
    Timer = Timer
    c1 = c1
    c2 = c2
    i1 = i1
    i2 = i2
    r1 = r1
    r2 = r2
    r3 = r3
    Clients = {c1, c2}
    Ips = {i1, i2}
    Ranges = {1, 2}
    Requests = {r1, r2, r3}
    Scenarios <- ClientScenarios
    MaxFaults = 1
SPECIFICATION FairSpec
CHECK_DEADLOCK FALSE
INVARIANT TypeOK
INVARIANT AddsDecideOnce
INVARIANT DefaultBlockKept
INVARIANT UntouchedStayListed
PROPERTY RemovalCleans
PROPERTY AnsweredOnTop
PROPERTY CacheSettles
PROPERTY RequestsEnd
