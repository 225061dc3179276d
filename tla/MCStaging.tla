------------------------------ MODULE MCStaging ------------------------------
(* Calls of functions with up to two declared arguments, one inside another. *)
EXTENDS Staging
=============================================================================
