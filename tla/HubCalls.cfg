CONSTANTS
    None = None
    k1 = k1
    k2 = k2
    Calls = {k1, k2}
    Scenarios <- HubScenarios
    MaxConns = 3
    MaxVpn = 1
    MaxFaults <- HubFaults
SPECIFICATION FairSpec
CHECK_DEADLOCK FALSE
INVARIANT TypeOK
INVARIANT NoFutureLeaks
INVARIANT NewestIsRegistered
PROPERTY ImplementsCall
PROPERTY EveryCallEnds
PROPERTY SessionsSettle
