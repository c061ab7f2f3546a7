--------------------------- MODULE MCUserLogQueue ---------------------------
(* Small instances of UserLogQueue for TLC. *)
EXTENDS UserLogQueue
=============================================================================
