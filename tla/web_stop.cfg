\* Two listeners, one of them without globals: does a stop end the other?
SPECIFICATION FairSpec
CONSTANTS
    l1 = l1
    l2 = l2
    l3 = l3
    c1 = c1
    c2 = c2
    Listeners = {l1, l3}
    NoGbl = {l3}
    Conns = {c1, c2}
    MaxStarts = 2
    MaxStops = 2
    MaxRequests = 2
    MaxKills = 1
PROPERTY
    StopBringsAllDown
CHECK_DEADLOCK FALSE
