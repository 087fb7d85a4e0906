--------------------------- MODULE MCFetchCorpus ---------------------------
(***************************************************************************)
(* Instances of FetchCorpus for TLC: two subdirs of two files each.        *)
(***************************************************************************)
EXTENDS FetchCorpus

CONSTANTS a, b, unknown,    \* subdirs, and a name sources.tsv does not have
          p1, p2            \* runs

TwoSubdirs == <<a, b>>

\* What is typed after `refresh' or `verify': nothing, a name twice,
\* a name that is not in the table.
TypedArgs == {<<>>, <<a, a>>, <<a, unknown>>}
OneName == {<<a>>, <<b>>}

\* Every run may fetch everything.
SharedTree == [p \in Procs |-> Subdirs]

\* Two users who refresh different subdirs of one tree.
SplitTree == [p \in Procs |-> IF p = p1 THEN {a} ELSE {b}]

=============================================================================
