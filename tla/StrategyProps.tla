---------------------------- MODULE StrategyProps ----------------------------
(***************************************************************************)
(* What the strategy runner promises.  "Idle" is the moment between two    *)
(* handlers, the last of which returned Ok; "done" is a shutdown that      *)
(* returned Ok, after which the engine disarms Cancel-All-After.           *)
(***************************************************************************)
EXTENDS Strategy

Lots == 0 .. 2 * MaxEntries * EntrySize

TrackedType == [id : Slot \cup {NoId}, last : Lots, cxl : BOOLEAN]
AlgoType == [id : Slot \cup {NoId}, size : Lots, shape : 0 .. MaxAtr, cxl : BOOLEAN]
OrderType == [kind : Kind, state : {"live", "filled", "canceled", "effective"},
              size : Lots, filled : Lots, shape : 0 .. MaxAtr, cxl : BOOLEAN]

(* The types of the runner's ExchangeState, and an open position of zero   *)
(* lots (Some(OpenPosition) that should be None) does not exist.           *)
TypeOK ==
    /\ orders \in [Slot -> OrderType \cup {NoOrder}]
    /\ \A i \in Slot : orders[i].filled <= orders[i].size
    /\ held \in Int /\ entries \in 0 .. MaxEntries /\ atr \in 0 .. MaxAtr
    /\ st \in [entry : TrackedType, tp : TrackedType, sl : AlgoType, exit : TrackedType,
               pos : {NoPos} \cup [qty : Lots \ {0}, shape : 0 .. MaxAtr],
               pending : {"none", "local", "exit"}]
    /\ handler \in Handlers /\ todo \in Seq(STRING)
    /\ (todo = <<>>) = (handler \notin Running)

-----------------------------------------------------------------------------
(* Base sold or bought by a tracked order that the runner has not counted. *)
Uncounted(t) == IF t.id = NoId THEN 0 ELSE orders[t.id].filled - t.last

Resting(kind) == {i \in Live(orders, kind) : ~orders[i].cxl}

Tracked == {st.entry.id, st.tp.id, st.sl.id, st.exit.id}

(* enforce_tick_exit_protection, ensure_stop_loss_order: whenever a        *)
(* handler has returned Ok with a position open, that position is covered  *)
(* by a stop-loss algo of its size and trigger (or one being replaced), a  *)
(* market exit in flight, or a breach the next tick acts on.               *)
ProtectedWhenIdle ==
    handler = "idle" /\ HasPos(st) =>
        \/ st.sl.id # NoId /\ (st.sl.cxl \/ StopMatches(st.sl, st.pos))
        \/ st.exit.id # NoId
        \/ Pending(st)

(* No handler that returns Ok loses sight of an order that can still       *)
(* trade: it is tracked or its cancel has been accepted.  It holds as long *)
(* as no remainder is below minSz: Reduce turns one into no position, and  *)
(* clear_position_state then forgets whatever is live.                     *)
NoOrphans ==
    handler = "idle" =>
        \A i \in Slot : IsLive(orders[i]) => i \in Tracked \/ orders[i].cxl

(* Across failed calls, dropped handlers and restarts there are never two  *)
(* resting orders for one purpose (find_live_strategy_order and            *)
(* find_live_strategy_stop_loss_algo refuse to reconstruct such a state).  *)
OneLivePerPurpose == \A k \in Kind : Cardinality(Resting(k)) <= 1

(* The base the strategy holds is in the position it protects, or is a     *)
(* fill of the tracked entry that it is about to count, or is dust below   *)
(* minSz.  It holds of entries that fill at once: when the take-profit of  *)
(* a partly filled entry closes, clear_position_state forgets the entry    *)
(* and what it still buys.                                                 *)
HeldIsAccounted ==
    handler = "idle" => held <= st.pos.qty + Uncounted(st.entry) + (MinSize - 1)

(* entry_preconditions_met: what is held plus what resting entries may     *)
(* still buy never exceeds one entry and the dust of an earlier one.       *)
BoundedExposure ==
    held + MapThenSumSet(LAMBDA i : Unfilled(orders[i]), Live(orders, "entry"))
        <= EntrySize + (MinSize - 1)

(* The runner never submits an order for a purpose for which it tracks     *)
(* one, no protection once an exit is decided, and no market exit beside a *)
(* protection order it tracks: although the early returns that see to it   *)
(* are calls away, in evaluate_stop_loss before its balance is read, in    *)
(* enforce_tick_exit_protection before a lookup pushed another step.       *)
SubmitsAlone ==
    [][\A i \in Slot : IsLive(orders'[i]) /\ ~IsLive(orders[i]) =>
          /\ st[i[1]].id = NoId
          /\ i[1] \in {"tp", "sl"} => st.exit.id = NoId /\ ~Pending(st)
          /\ i[1] = "exit" => st.tp.id = NoId /\ st.sl.id = NoId]_vars

(* A market exit is sent only when no take-profit and no stop-loss algo    *)
(* rests that could sell the same base again.                              *)
ExitAlone ==
    [][\A i \in Live(orders', "exit") \ Live(orders, "exit") :
          Resting("tp") = {} /\ Resting("sl") = {}]_vars

(* cancel_shutdown_entry_order: a shutdown that returns Ok leaves no entry *)
(* order live, not even one whose cancel is pending.  It holds of entries  *)
(* that fill at once, for the reason given at HeldIsAccounted.             *)
ShutdownLeavesNoEntry == handler = "done" => Live(orders, "entry") = {}

(* shutdown_without_position: a shutdown that returns Ok without a         *)
(* position leaves nothing resting.                                        *)
FlatShutdownLeavesNothing ==
    handler = "done" /\ ~HasPos(st) => \A k \in Kind : Resting(k) = {}

(* What a shutdown that returns Ok may leave at OKX, with the disarming of *)
(* Cancel-All-After to follow: protection of an open position, no more.    *)
ShutdownIsClean == ShutdownLeavesNoEntry /\ FlatShutdownLeavesNothing

-----------------------------------------------------------------------------
(* Every fill is noticed: base that is held comes to be covered by a       *)
(* stop-loss algo or a market exit, or is sold, or the runtime stops.      *)
FillsGetProtected ==
    held >= MinSize ~> \/ held < MinSize \/ handler = "halted"
                       \/ Live(orders, "sl") # {} \/ Live(orders, "exit") # {}

(* A stop-loss exit that was decided is carried through, however often its *)
(* market order is cancelled by OKX.                                       *)
ExitsComplete == st.pending = "exit" ~> st.pending # "exit" \/ handler = "halted"

-----------------------------------------------------------------------------
(* What the code's own error texts promise and TLC refutes; no run checks  *)
(* these, the README tells how to reproduce each counterexample.           *)

(* reconstruct_exchange_state calls a stop-loss algo without a position an *)
(* error, but evaluate_stop_loss leaves one when the take-profit filled.   *)
FlatHasNoStop ==
    handler = "idle" /\ ~HasPos(st) => Resting("sl") = {} /\ Resting("exit") = {}

(* strategy_balance_after_operator_baseline refuses to consume operator    *)
(* inventory, but take-profit and stop-loss may both sell (Baseline = 1).  *)
OperatorInventoryUntouched == held >= 0

(* shutdown_with_position calls unprotected base ambiguous, but an entry   *)
(* that fills between two lookups of the shutdown leaves some.             *)
FlatShutdownHoldsNothing == handler = "done" /\ ~HasPos(st) => held < MinSize
=============================================================================
