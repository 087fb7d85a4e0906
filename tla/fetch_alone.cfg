\* One run at a time, every command may fail and any run may be killed.
SPECIFICATION FairSpec
CONSTANTS
    a = a
    b = b
    unknown = unknown
    p1 = p1
    p2 = p2
    Subdirs = {a, b}
    Names = {a, b, unknown}
    Table <- TwoSubdirs
    ArgLists <- TypedArgs
    Procs = {p1}
    Owns <- SharedTree
    Parts = {"f1", "f2"}
    Faults = {"clone", "revparse", "stripgit", "rm", "mv", "write", "kill"}
    MaxHead = 2
    MaxRuns = 3
    MaxFaults = 2
INVARIANTS
    TypeOK
    RunRecordsWhatItInstalled
    RunDoesWhatItIsAskedTo
PROPERTIES
    FetchLeavesPresentAlone
    RunsEnd
CHECK_DEADLOCK FALSE
