---------------------------- MODULE MCArtifacts -----------------------------
(***************************************************************************)
(* Artifacts for TLC: pipelines differ in nothing but their names, uploads *)
(* in their signatures.                                                     *)
(***************************************************************************)
EXTENDS Artifacts, TLC

Symmetry == Permutations(Pipelines)
=============================================================================
