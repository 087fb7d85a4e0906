\* Two listeners and two connections: starts, stops, requests, kills.
SPECIFICATION Spec
CONSTANTS
    l1 = l1
    l2 = l2
    l3 = l3
    c1 = c1
    c2 = c2
    Listeners = {l1, l2}
    NoGbl = {}
    Conns = {c1, c2}
    MaxStarts = 3
    MaxStops = 2
    MaxRequests = 2
    MaxKills = 1
INVARIANTS
    TypeOK
    RunningMeansListening
    OneMoreRequestAtMost
    LogIdsDiffer
CHECK_DEADLOCK FALSE
