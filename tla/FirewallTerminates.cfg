CONSTANTS
    None = None
    a = a
    c1 = c1
    c2 = c2
    w1 = w1
    w2 = w2
    Addrs = {a}
    Clients = {c1, c2}
    Unit = 8
    Workers = {w1, w2}
    InitTables <- AnyTables
    Requests <- AnyRequests
    ManualRules <- AnyManual
    MaxRequests = 2
    MaxManual = 1
    MaxLosses = 1
    MaxCrashes = 1
    IptablesFails = TRUE
SPECIFICATION FairSpec
CHECK_DEADLOCK FALSE
PROPERTY EveryRequestEnds
