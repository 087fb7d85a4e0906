------------------------------ MODULE DdlLock ------------------------------
(***************************************************************************)
(* The M lock that guards the schema of an Octo database                   *)
(* (ydbocto-aux/src).  A process takes ^%ydboctoocto("ddl") when it is     *)
(* going to change the schema and ^%ydboctoocto("ddl",<its pid>), a        *)
(* descendant of it, when it only reads.  YottaDB lets nobody lock a node  *)
(* while another process holds it or an ancestor or a descendant of it,    *)
(* so the first is exclusive and the second shared.                        *)
(*                                                                         *)
(* The engine is not part of the repository: this module states what       *)
(* ydb_lock_incr_s and ydb_lock_decr_s do as far as Octo uses them.  Locks *)
(* count, and a decrement of a lock that is not held does nothing.         *)
(***************************************************************************)
EXTENDS Integers

CONSTANT Procs

VARIABLES
    shared,     \* shared[p]: times p holds ^%ydboctoocto("ddl",<pid of p>)
    excl        \* excl[p]: times p holds ^%ydboctoocto("ddl")

lockVars == <<shared, excl>>

NoLocks == [p \in Procs |-> 0]
LockInit == shared = NoLocks /\ excl = NoLocks
LockTypeOK == shared \in [Procs -> Nat] /\ excl \in [Procs -> Nat]

Shareable(p) == \A q \in Procs \ {p} : excl[q] = 0
Excludable(p) == \A q \in Procs \ {p} : excl[q] = 0 /\ shared[q] = 0

GrabShared(p) ==
    /\ Shareable(p)
    /\ shared' = [shared EXCEPT ![p] = @ + 1]
    /\ UNCHANGED excl
GrabExclusive(p) ==
    /\ Excludable(p)
    /\ excl' = [excl EXCEPT ![p] = @ + 1]
    /\ UNCHANGED shared

LessAlways(n) == n - 1
Less(n) == IF n > 0 THEN n - 1 ELSE n
DropShared(p) == shared' = [shared EXCEPT ![p] = Less(@)] /\ UNCHANGED excl
DropExclusive(p) == excl' = [excl EXCEPT ![p] = Less(@)] /\ UNCHANGED shared

\* A process that ends holds no lock any more.
DropAll(p) == shared' = [shared EXCEPT ![p] = 0] /\ excl' = [excl EXCEPT ![p] = 0]
==============================================================================
