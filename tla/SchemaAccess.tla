---------------------------- MODULE SchemaAccess ----------------------------
(***************************************************************************)
(* What the locking of Octo promises: many processes may read the schema   *)
(* at once, and one that changes it is alone with it.                      *)
(***************************************************************************)
CONSTANT Procs
VARIABLE mode       \* mode[p]: what p does with the schema

Init == mode = [p \in Procs |-> "away"]

Becomes(p, m) == mode' = [mode EXCEPT ![p] = m]

Read(p) ==
    /\ mode[p] = "away"
    /\ \A q \in Procs \ {p} : mode[q] # "changes"
    /\ Becomes(p, "reads")
Change(p) ==
    /\ mode[p] = "away"
    /\ \A q \in Procs \ {p} : mode[q] = "away"
    /\ Becomes(p, "changes")
Leave(p) == Becomes(p, "away")

Next == \E p \in Procs : Read(p) \/ Change(p) \/ Leave(p)
Spec == Init /\ [][Next]_mode
==============================================================================
