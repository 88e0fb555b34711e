-------------------------- MODULE MCStreamSession --------------------------
EXTENDS StreamSession

MCKeys == [c \in Channels |->
              CASE c = "instruments" -> 1 .. 3
                [] c = "candle"      -> 1 .. 3
                [] c = "orders-algo" -> 1 .. 2
                [] OTHER             -> {1}]
============================================================================
