CONSTANTS
    Keyed <- AllEntries
    InitCursor = 1
    MaxBatch = 2
    MaxEntries = 3
    MaxConns = 3
    MaxSends = 3
    MaxFaults <- SafetyFaults
    MaxFetches = 1
SPECIFICATION Spec
CHECK_DEADLOCK FALSE
INVARIANT TypeOK
INVARIANT ResumeIsSafe
PROPERTY ImplementsLog
