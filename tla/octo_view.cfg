\* One process creates a view while another drops its table.
SPECIFICATION Spec
CONSTANTS
    o1 = o1
    o2 = o2
    r1 = r1
    Procs = {o1, o2}
    Rocto = {}
    Databases = {"now"}
    MaxStarts = 2
    MaxStatements = 2
    MaxFaults = 0
INVARIANT ViewHasItsTable
CHECK_DEADLOCK FALSE
