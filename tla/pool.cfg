CONSTANTS
    r1 = r1
    r2 = r2
    r3 = r3
    t1 = t1
    t2 = t2
    Requests <- TwoRequests
    Targets <- FirstTarget
    Worlds <- OneServer
    MaxCon = 1
    MaxFd = 3
    MaxPort = 2
    MaxDeaths = 1
    MaxOutages = 1
SPECIFICATION Spec
INVARIANTS
    TypeOK
    OneUserPerSlot
    UsedSlotsHaveUsers
    RequestOwnsItsSocket
    IdleConnectionsInStep
    OwnAnswer
    TwiceOnlyUngreeted
PROPERTIES
    RequestsEnd
