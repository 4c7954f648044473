---------------------------- MODULE MCHomingSync ----------------------------
(* Instances of HomingSync for TLC. *)
EXTENDS HomingSync, TLC

CONSTANTS m1, m2
TwoMcus == {m1, m2}

\* The endstop is on m1, the steppers are on m2.
Toolhead == {m2}
=============================================================================
