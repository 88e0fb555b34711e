------------------------- MODULE MCTradingAuthority -------------------------
(* Terms of which one needs a USD conversion; two price bands that exclude  *)
(* each other's prices, and none.                                          *)
EXTENDS TradingAuthority

MCBands == {[on |-> TRUE, buy |-> 1, sell |-> 1], [on |-> TRUE, buy |-> 2, sell |-> 2],
            [on |-> FALSE, buy |-> 0, sell |-> 0]}
=============================================================================
