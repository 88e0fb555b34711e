---------------------------- MODULE MCLevel2Book ----------------------------
(* Five prices, two levels deep: additions, removals, changes of quantity   *)
(* and levels pushed out on either side, and one book of each bad kind.     *)
EXTENDS Level2Book

MCPrices == 1 .. 5
B(bids, asks) == [bids |-> bids, asks |-> asks]
MCBooks == { B(<<1, 1, 0, 0, 0>>, <<0, 0, 0, 1, 1>>),
             B(<<0, 1, 1, 0, 0>>, <<0, 0, 0, 0, 1>>),
             B(<<1, 2, 0, 0, 0>>, <<0, 0, 1, 1, 0>>) }
MCBadBooks == { B(<<0, 0, 1, 0, 0>>, <<0, 0, 1, 0, 0>>),
                B(<<0, 0, 0, 0, 0>>, <<0, 0, 0, 1, 1>>),
                B(<<1, 1, 1, 0, 0>>, <<0, 0, 0, 0, 1>>) }
=============================================================================
