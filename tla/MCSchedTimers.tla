--------------------------- MODULE MCSchedTimers ---------------------------
(* Two driver timers on a clock of ten values. *)
EXTENDS SchedTimers

CONSTANTS t1, t2
TwoTimers == {t1, t2}
=============================================================================
