-------------------------- MODULE MCMagnetoManager --------------------------
(* Small instances of MagnetoManager. *)
EXTENDS MagnetoManager

CONSTANTS t1, t2

TwoThreads == {t1, t2}

LmOps == {"connect_lm", "disconnect_lm", "send_command"}

\* The page is open in one browser; the printer's macros use the motor board too.
MCOps == [t \in Threads |-> IF t = t1 THEN AllOps ELSE LmOps]
=============================================================================
