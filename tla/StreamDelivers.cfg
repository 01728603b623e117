CONSTANTS
    Keyed <- AllEntries
    InitCursor = 1
    MaxBatch = 2
    MaxEntries = 4
    MaxConns = 3
    MaxSends = 9
    MaxFaults <- StreamFaults
    MaxFetches = 0
SPECIFICATION FairSpec
CHECK_DEADLOCK FALSE
PROPERTY EveryEntryStored
