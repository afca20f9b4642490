------------------------- MODULE MCInstanceRegistry -------------------------
(***************************************************************************)
(* InstanceRegistry for TLC: two repo workers on one host, called           *)
(* a-builder, share the id a-builder-repo, from which the cleanup reads      *)
(* that they are builders.                                                  *)
(***************************************************************************)
EXTENDS InstanceRegistry, TLC

CONSTANTS host, w1, w2

MCHostOf == [w \in Workers |-> host]
MCTypeOf == [w \in Workers |-> "repo"]
MCClocks == [w \in Workers |-> IF w = w1 THEN {-1} ELSE {1}]
MCSecondPart == host :> "builder"

=============================================================================
