--------------------------- MODULE MCHeaterGuard ---------------------------
(* A heater with the ratios of heaters.py: the renewal at three quarters of *)
(* the maximal duration, reports and delays of one eighth.                  *)
EXTENDS HeaterGuard
=============================================================================
