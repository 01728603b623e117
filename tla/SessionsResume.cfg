CONSTANTS
    None = None
    Keep = Keep
    Drop = Drop
    a = a
    d = d
    m = m
    b1 = b1
    b2 = b2
    b3 = b3
    r1 = r1
    r2 = r2
    r3 = r3
    r4 = r4
    Users = {a, d, m}
    Browsers = {b1, b2, b3}
    Requests = {r1, r2, r3, r4}
    Scenarios <- ResumeScenario
    MaxAttempts = 1
    MaxQueue = 2
SPECIFICATION Spec
CHECK_DEADLOCK FALSE
INVARIANT OneSessionPerAccount
