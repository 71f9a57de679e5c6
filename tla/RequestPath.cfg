SPECIFICATION PathSpec
CONSTANTS
    ip1 = ip1
    ip2 = ip2
    ip3 = ip3
    cid1 = cid1
    noCid = noCid
    Ips <- MCIps
    Cids <- MCCids
    NoCid = noCid
    Callers <- MCCallers
    Limit <- MCLimit
    Window = 2
    Second = 2
    MaxNow = 4
    Allowed <- MCAllowed
    DevIps <- MCDevIps
    AccessTtl = 2
    RefreshTtl = 4
    Hour = 2
    Changes <- MCChanges
INVARIANTS PathTypeOK WindowRespected RetryAfterExact LifetimesKept OnlyCrashesSlip ForbiddenCostsNothing
CHECK_DEADLOCK FALSE
