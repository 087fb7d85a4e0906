----------------------------- MODULE RequestPool -----------------------------
(***************************************************************************)
(* What ewdGateway.js promises: requests are taken in the order in which   *)
(* they come, at most Size of them are worked on at a time, and none waits *)
(* while there is room.                                                    *)
(***************************************************************************)
EXTENDS Naturals, FiniteSets, Sequences

CONSTANTS Requests, Size

VARIABLES waiting, running

Init == waiting = <<>> /\ running = {}

Room(run) == Size - Cardinality(run)

(* The first requests of q fill the room that is left.                     *)
Fill(q, run) ==
    LET n == IF Len(q) <= Room(run) THEN Len(q) ELSE Room(run)
    IN  /\ waiting' = SubSeq(q, n + 1, Len(q))
        /\ running' = run \cup {q[i] : i \in 1 .. n}

Arrive(r) == Fill(Append(waiting, r), running)

Finish(r) == r \in running /\ Fill(waiting, running \ {r})

Next == \E r \in Requests : Arrive(r) \/ Finish(r)

Spec == Init /\ [][Next]_<<waiting, running>>
=============================================================================
