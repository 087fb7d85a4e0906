\* A maintainer's edits, generator runs, commits and CI jobs.
SPECIFICATION Spec
CONSTANTS
    a = a
    b = b
    small = small
    large = large
    empty = empty
    Names <- SortedNames
    Licenses = {"Apache-2.0", "AGPL-3.0"}
    Snapshots = {small, large, empty}
    Routines <- RoutineCounts
    Loc <- LineCounts
    MaxEdits = 3
INVARIANTS
    TypeOK
    GateDecides
    StatsMatchManifest
CHECK_DEADLOCK FALSE
