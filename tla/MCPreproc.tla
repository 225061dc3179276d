------------------------------ MODULE MCPreproc ------------------------------
(* Three levels of #if and two of #include.                                 *)
EXTENDS Preproc
=============================================================================
