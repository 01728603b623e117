CONSTANTS
    None = None
    a = a
    c1 = c1
    c2 = c2
    w1 = w1
    w2 = w2
    Addrs = {a}
    Clients = {c1, c2}
    Unit = 8
    Workers = {w1, w2}
    InitTables <- AccessTables
    Requests <- AccessRequests
    ManualRules <- Empty
    MaxRequests = 3
    MaxManual = 0
    MaxLosses = 0
    MaxCrashes = 1
    IptablesFails = FALSE
SPECIFICATION Spec
CHECK_DEADLOCK FALSE
INVARIANT AccessKept
INVARIANT AtMostOneBlockRow
INVARIANT UnblockedIsClear
