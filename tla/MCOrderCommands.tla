--------------------------- MODULE MCOrderCommands ---------------------------
(* An instance of OrderCommands for TLC.                                   *)
EXTENDS OrderCommands
==============================================================================
