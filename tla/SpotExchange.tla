---------------------------- MODULE SpotExchange ----------------------------
(***************************************************************************)
(* The part of OKX SPOT the runtime talks to, as far as one strategy       *)
(* instance on one instrument can tell.  It is external code: what is here *)
(* is taken from how okx/client.rs and the strategy use it.                *)
(*                                                                         *)
(* Quantities are whole lots, so quantize_decimal_down(q, lot) is q.  An   *)
(* order lives in a slot of its purpose; a slot is recycled once its order is closed and  *)
(* nobody refers to it, so client order ids never run out.                 *)
(*   size, filled   sz and accFillSz                                       *)
(*   shape          the ATR the price (take-profit) or the trigger price   *)
(*                  (stop-loss algo) was computed from                     *)
(*   cxl            a cancel was accepted and is not yet effective         *)
(***************************************************************************)
EXTENDS Integers, FiniteSets, FiniteSetsExt, Sequences

CONSTANTS
    PerKind,    \* bound: orders of one purpose that are open or referred to
    Baseline    \* base currency in the account that the operator owns

ASSUME PerKindAssumption == PerKind \in Nat \ {0}
ASSUME BaselineAssumption == Baseline \in Nat

Kind == {"entry", "tp", "sl", "exit"}
Slot == Kind \X (1 .. PerKind)
NoId == <<"none", 0>>

NoOrder == [kind |-> "none", state |-> "none", size |-> 0, filled |-> 0,
            shape |-> 0, cxl |-> FALSE]

NewOrder(kind, size, shape) ==
    [kind |-> kind, state |-> "live", size |-> size, filled |-> 0,
     shape |-> shape, cxl |-> FALSE]

(* is_live / is_terminal / is_effective of OkxOrder and OkxAlgoOrder: a    *)
(* "partially_filled" order is live here with filled > 0, "pause" is live, *)
(* "mmp_canceled" and "order_failed" are canceled.                         *)
IsLive(o) == o.state = "live"
IsCanceled(o) == o.state = "canceled"

Live(os, kind) == {i \in {kind} \X (1 .. PerKind) : IsLive(os[i])}

Unfilled(o) == o.size - o.filled

(* Base currency frozen by resting sell orders; a trigger algo freezes     *)
(* nothing until it fires.                                                 *)
Frozen(os) ==
    MapThenSumSet(LAMBDA i : Unfilled(os[i]), Live(os, "tp") \cup Live(os, "exit"))

Available(os, held) == Baseline + held - Frozen(os)

(* The slot a new order of this purpose takes, if there is one.            *)
FreeSlot(os, kind, used) ==
    LET free == {n \in 1 .. PerKind : <<kind, n>> \notin used /\ ~IsLive(os[<<kind, n>>])}
    IN  IF free = {} THEN {} ELSE {<<kind, Min(free)>>}

(* A lookup by client order id of an order canceled without a fill may     *)
(* come back empty: OKX purges those.                                      *)
LookupMayMiss(o) == IsCanceled(o) /\ o.filled = 0

(* One more lot of a resting order trades.                                 *)
FilledBy(o, lots) ==
    [o EXCEPT !.filled = @ + lots,
              !.state = IF o.filled + lots = o.size THEN "filled" ELSE @]

(* What an accepted cancel does to an order: nothing unless it still rests. *)
CancelAccepted(o) == [o EXCEPT !.cxl = IsLive(o)]
=============================================================================
