\* Two overlapping runs over disjoint subdirs; clones fail, runs are killed.
SPECIFICATION Spec
CONSTANTS
    a = a
    b = b
    unknown = unknown
    p1 = p1
    p2 = p2
    Subdirs = {a, b}
    Names = {a, b, unknown}
    Table <- TwoSubdirs
    ArgLists <- OneName
    Procs = {p1, p2}
    Owns <- SplitTree
    Parts = {"f1", "f2"}
    Faults = {"clone", "revparse", "stripgit", "mv", "write", "kill"}
    MaxHead = 2
    MaxRuns = 3
    MaxFaults = 1
INVARIANTS
    NeverMixed
    LockNeverAhead
CHECK_DEADLOCK FALSE
