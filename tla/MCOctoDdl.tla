----------------------------- MODULE MCOctoDdl -----------------------------
(***************************************************************************)
(* Instances of OctoDdl for TLC: octo processes, and a rocto listener.     *)
(***************************************************************************)
EXTENDS OctoDdl, TLC

CONSTANTS o1, o2, r1

\* octo processes do not differ.
Symmetry == Permutations({o1, o2})
==============================================================================
