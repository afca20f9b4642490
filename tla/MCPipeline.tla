----------------------------- MODULE MCPipeline -----------------------------
(***************************************************************************)
(* Pipeline for TLC: one builder and one repo worker (the deployment of    *)
(* README.md), with the sets given by the configurations.                  *)
(***************************************************************************)
EXTENDS Pipeline, TLC

CONSTANTS b1, r1

MCRegistered == (b1 :> "build") @@ (r1 :> "repo")

\* Readers differ in nothing but their names; neither do pipelines.
Symmetry == Permutations(Readers) \cup Permutations(Pipelines)
=============================================================================
