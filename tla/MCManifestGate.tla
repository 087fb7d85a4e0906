--------------------------- MODULE MCManifestGate ---------------------------
(***************************************************************************)
(* Instance of ManifestGate for TLC: two subdirs, two licenses, and three  *)
(* snapshots one of which has no .m file.                                  *)
(***************************************************************************)
EXTENDS ManifestGate

CONSTANTS a, b, small, large, empty

SortedNames == <<a, b>>
RoutineCounts == [v \in Snapshots |-> CASE v = small -> 1 [] v = large -> 2 [] v = empty -> 0]
LineCounts == [v \in Snapshots |-> CASE v = small -> 3 [] v = large -> 5 [] v = empty -> 0]

=============================================================================
