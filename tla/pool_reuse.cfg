CONSTANTS
    r1 = r1
    r2 = r2
    r3 = r3
    t1 = t1
    t2 = t2
    Requests <- ThreeRequests
    Targets <- TwoTargets
    Worlds <- TwoServers
    MaxCon = 2
    MaxFd = 4
    MaxPort = 1
    MaxDeaths = 1
    MaxOutages = 1
SPECIFICATION Spec
INVARIANTS
    UsedSlotsHaveUsers
