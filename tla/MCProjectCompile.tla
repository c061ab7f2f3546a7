-------------------------- MODULE MCProjectCompile --------------------------
(* Small instances of ProjectCompile for TLC. *)
EXTENDS ProjectCompile
=============================================================================
