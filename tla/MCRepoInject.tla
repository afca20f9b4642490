---------------------------- MODULE MCRepoInject ----------------------------
(***************************************************************************)
(* RepoInject for TLC: two binaries, of which one or none is named like the *)
(* source, a version without an epoch and one whose epoch is lost, so that  *)
(* it looks like the other; upstream publishes a version between them.      *)
(***************************************************************************)
EXTENDS RepoInject, TLC

CONSTANTS lib, doc

MCBinaries == {lib, doc}
MCStripped == [v \in Versions |-> 1]

\* The binaries are alike but for the name that named gives to one of them.
Symmetry == Permutations(MCBinaries)
=============================================================================
