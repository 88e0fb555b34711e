------------------------------ MODULE MCDeadMan ------------------------------
(* Instances of DeadMan for TLC. *)
EXTENDS DeadMan
=============================================================================
