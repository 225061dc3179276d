------------------------------ MODULE MCWarnings ------------------------------
(* Every source of up to five items.                                         *)
EXTENDS Warnings

MCSources == UNION {[1 .. n -> Items] : n \in 0 .. 5}
=============================================================================
