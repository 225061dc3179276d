--------------------------- MODULE MCPawnCompile ---------------------------
(* Instances of PawnCompile small enough for TLC.                           *)
EXTENDS PawnCompile

MCModes == OutputModes
ImageOnly == {"image"}
=============================================================================
