CONSTANTS
    None = None
    a = a
    c1 = c1
    c2 = c2
    w1 = w1
    w2 = w2
    Addrs = {a}
    Clients = {c1, c2}
    Unit = 8
    Workers = {w1, w2}
    InitTables <- RebuildTables
    Requests <- RebuildRequests
    ManualRules <- RebuildManual
    MaxRequests = 2
    MaxManual = 2
    MaxLosses = 0
    MaxCrashes = 0
    IptablesFails = FALSE
SPECIFICATION Spec
CHECK_DEADLOCK FALSE
INVARIANT OneLiveCopy
INVARIANT SettledChains
INVARIANT ManualRulesConserved
PROPERTY AdoptsOnlyUntracked
PROPERTY ReorderLandsNextToTarget
