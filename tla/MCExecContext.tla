--------------------------- MODULE MCExecContext ----------------------------
(* Small instances of ExecContext for TLC: a millisecond is the unit, and    *)
(* MaxDelay stands for 2^31 - 1.                                             *)
EXTENDS ExecContext
=============================================================================
