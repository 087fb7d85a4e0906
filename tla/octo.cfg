\* Two octo processes and a rocto listener start on every kind of database and
\* run statements; one of them is killed, or a statement fails half way.
SPECIFICATION Spec
CONSTANTS
    o1 = o1
    o2 = o2
    r1 = r1
    Procs = {o1, o2, r1}
    Rocto = {r1}
    Databases = {"fresh", "unmarked", "pre929", "old", "now", "newer"}
    MaxStarts = 3
    MaxStatements = 3
    MaxFaults = 1
SYMMETRY Symmetry
INVARIANTS
    TypeOK
    MarksTellTheTruth
    ReadersSeeUpgraded
    SelectsUseCurrentTable
PROPERTIES
    AccessSpec
    StatementsReturnLocks
CHECK_DEADLOCK FALSE
