--------------------------- MODULE MCDispatchGate ---------------------------
(* Instance of DispatchGate for TLC. *)
EXTENDS DispatchGate
=============================================================================
