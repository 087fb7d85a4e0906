\* Two processes start on a database of an older build.
SPECIFICATION Spec
CONSTANTS
    o1 = o1
    o2 = o2
    r1 = r1
    Procs = {o1, o2}
    Rocto = {}
    Databases = {"old"}
    MaxStarts = 2
    MaxStatements = 0
    MaxFaults = 0
INVARIANT NoLockLeftAfterStart
CHECK_DEADLOCK FALSE
