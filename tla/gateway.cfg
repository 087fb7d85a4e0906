CONSTANTS
    r1 = r1
    r2 = r2
    r3 = r3
    r4 = r4
    Requests <- FourRequests
    PrePages <- OnePrePage
    PoolSize = 2
    Gateways = {"ewdGateway", "mapache"}
    Visits <- ThreeRequests
    MaxBusy = 1
SPECIFICATION Spec
INVARIANTS
    TypeOK
    NoIdleWhileQueued
    OneRequestPerConnection
    OwnAnswer
    WholeAnswer
PROPERTIES
    EveryoneAnswered
    PoolSpec
CHECK_DEADLOCK FALSE
