--------------------------- MODULE MCPrintSession ---------------------------
(* Instances of PrintSession for TLC. *)
EXTENDS PrintSession

CONSTANTS c1, c2

TwoClients == {c1, c2}

\* A preheating line of the slicer, the start macro, one move and the end macro.
Job == << <<"M190", PrintTemp>>, <<"PRINT_START">>, <<"G1">>, <<"PRINT_END">> >>

Printing == {"SDCARD_PRINT_FILE", "PAUSE", "RESUME", "CANCEL_PRINT"}
All == Printing \cup {"LOAD_FILAMENT", "BED_MESH_CALIBRATE"}
NoFaults == {}

\* What it takes to resume a print from a second page while filament is loaded.
Loading == {"SDCARD_PRINT_FILE", "PAUSE", "RESUME", "LOAD_FILAMENT"}
AllFaults == {"G1", "HOME", "SHELL"}
=============================================================================
