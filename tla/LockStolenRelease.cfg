SPECIFICATION LockSafety
CONSTANTS
    p1 = p1
    p2 = p2
    k1 = k1
    k2 = k2
    r1 = r1
    r2 = r2
    r3 = r3
    r4 = r4
    NoToken = NoToken
    Procs <- MCProcs
    Keys <- MCKeys
    Requests <- MCRequests
    ProcOf <- MCProcOf
    KeyOf <- MCKeyOf
    MaxOverruns = 1
    MaxFaults = 0
PROPERTIES
    ReleasesOwnLock
CHECK_DEADLOCK FALSE
