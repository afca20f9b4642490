---------------------------- MODULE MCFollowers ----------------------------
(* An ISO submission after one of the past, one row, and a package pipeline. *)
EXTENDS Followers
=============================================================================
