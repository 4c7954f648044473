--------------------------- MODULE MCButtonEvents ---------------------------
(* Small instances of ButtonEvents. *)
EXTENDS ButtonEvents

Both == <<"load", "runout">>
=============================================================================
