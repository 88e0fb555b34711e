--------------------------- MODULE MCDemoPrograms ---------------------------
(* An instance of DemoPrograms for TLC: all the programs.                  *)
EXTENDS DemoPrograms

MCPrograms == PostOnly \cup Taking
=============================================================================
