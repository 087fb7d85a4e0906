CONSTANTS
    r1 = r1
    r2 = r2
    r3 = r3
    r4 = r4
    Requests <- TwoRequests
    PrePages <- NoPrePages
    PoolSize = 2
    Gateways = {"mapache"}
    Visits <- TwoRequests
    MaxBusy = 2
SPECIFICATION Spec
PROPERTIES
    PicksAvailable
CHECK_DEADLOCK FALSE
