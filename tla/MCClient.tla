------------------------------ MODULE MCClient ------------------------------
(* Two submissions of one repository, given for source and package, and a retry. *)
EXTENDS Client
=============================================================================
