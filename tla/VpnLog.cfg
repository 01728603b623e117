CONSTANTS
    None = None
    c1 = c1
    c2 = c2
    p1 = p1
    p2 = p2
    Clients = {c1, c2}
    Addresses = {p1, p2}
    MinGap = 2
    BucketSize = 2
    MaxTime = 4
    MaxLog = 4
SPECIFICATION Spec
SYMMETRY MCVpnLogSymmetry
CHECK_DEADLOCK FALSE
INVARIANT EveryConnectionOnce
INVARIANT DurationsAreTrue
INVARIANT ChartIsHonest
