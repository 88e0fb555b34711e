----------------------------- MODULE MCStrategy -----------------------------
(***************************************************************************)
(* Model values for StrategyProps.                                         *)
(***************************************************************************)
EXTENDS StrategyProps

EveryEvent == Dispatchable
TickEvents == {"candle", "private", "timer"}
FillEvents == {"candle", "private", "shutdown"}

(* Everything that goes wrong and is noticed.                              *)
NoticedFaults == {"error", "timeout", "lag"}

(* Calls fail and leave the exchange as it was. *)
Refusals == {"error"}

=============================================================================
