---------------------------- MODULE MCOtaEngine ----------------------------
(* Instances of OtaEngine: one config file, the engine's own unit and the  *)
(* per-printer file; two invocations of the script.                        *)
EXTENDS OtaEngine, TLC

CONSTANTS cfg, ota, id, p1, p2

MCPath == {cfg, ota, id}
MCProcs == {p1, p2}
\* Two releases shipping the same files.
MCPayload == <<{cfg, ota}, {cfg, ota}>>
\* Releases shipping different files, and one that names printer.cfg.
MCPayloadMixed == <<{cfg, ota}, {ota}, {cfg, id}>>
\* The unit is new to the printer.
MCFactory == (cfg :> 1) @@ (ota :> Absent) @@ (id :> 1)
Symmetry == Permutations(MCProcs)
====
