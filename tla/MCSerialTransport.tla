------------------------- MODULE MCSerialTransport -------------------------
(* Instances of SerialTransport for TLC. *)
EXTENDS SerialTransport

\* A micro-controller that was not reset may expect any number.
AnyStart == 0 .. SeqRange - 1
=============================================================================
