------------------------------- MODULE MCAmxxpc -------------------------------
(* Three inputs, whose images may share a path.                             *)
EXTENDS Amxxpc
=============================================================================
