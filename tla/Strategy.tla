------------------------------ MODULE Strategy ------------------------------
(***************************************************************************)
(* One OkxEmaAtrMakerTrend strategy instance trading against OKX SPOT      *)
(* (strategies/okx_ema_atr_maker_trend.rs and its submodules).             *)
(*                                                                         *)
(* A handler of the runner is an async function: a list of steps, each of  *)
(* which makes one exchange call and then computes until its next call.    *)
(* `todo` is what is left of the running handler (a call that needs more   *)
(* calls pushes them in front), and between any two steps the exchange     *)
(* fills, cancels and triggers orders.  A step that makes no call is       *)
(* skipped together with the step before it (NoCall, Advance).             *)
(*                                                                         *)
(* Any call may fail and any handler may be cut off by the engine's tick   *)
(* timeout, before the call reached OKX or after.  Prices are not          *)
(* modelled: a ticker read may find the price on either side of the        *)
(* trigger, the signal may or may not allow an entry, and the price a      *)
(* protection order is built from is identified by the ATR of the moment.  *)
(***************************************************************************)
EXTENDS SpotExchange

CONSTANTS
    EntrySize,   \* lots of an entry order (entry_quantity)
    MinSize,     \* minSz of the instrument
    MaxAtr,      \* ATR values are 0 .. MaxAtr
    MaxEntries,  \* bound: entry orders submitted in one behaviour
    Faults,      \* what goes wrong with calls, a subset of FaultKinds
    Events       \* the handlers the engine dispatches, a subset of Dispatchable

ASSUME SizeAssumption ==
    /\ EntrySize \in Nat /\ MinSize \in Nat \ {0} /\ EntrySize >= MinSize
    /\ MaxAtr \in Nat /\ MaxEntries \in Nat

VARIABLES
    orders,    \* the strategy's orders at OKX, by slot
    held,      \* base bought minus base sold by the strategy's orders
    entries,   \* entry orders submitted so far
    atr,       \* signal.last_atr()
    st,        \* ExchangeState of the runner
    handler,   \* the running handler, or why none is running
    todo,      \* the steps left of it
    loc,       \* locals of it that live across a call
    rec        \* locals of reconstruct_exchange_state

vars == <<orders, held, entries, atr, st, handler, todo, loc, rec>>

-----------------------------------------------------------------------------
(* The runner's state.  An Option is None exactly when its id is NoId (or  *)
(* its quantity is 0).                                                       *)

NoTracked == [id |-> NoId, last |-> 0, cxl |-> FALSE]
NoAlgo    == [id |-> NoId, size |-> 0, shape |-> 0, cxl |-> FALSE]
NoPos     == [qty |-> 0, shape |-> 0]

Fresh == [entry |-> NoTracked, tp |-> NoTracked, sl |-> NoAlgo,
          exit |-> NoTracked, pos |-> NoPos, pending |-> "none"]

Track(i)         == [id |-> i, last |-> 0, cxl |-> FALSE]
TrackAlgo(i, o, c) == [id |-> i, size |-> o.size, shape |-> o.shape, cxl |-> c]

NoLoc == [entry |-> [id |-> NoId, live |-> FALSE, filled |-> 0],
          tp |-> [order |-> NoOrder, grew |-> FALSE, cxl |-> FALSE],
          wasPending |-> FALSE, shutEntry |-> NoId]

NoRec == [entry |-> NoTracked, tp |-> NoTracked,
          exit |-> NoTracked, sl |-> NoAlgo, total |-> 0]

HasPos(s)  == s.pos.qty > 0
Pending(s) == s.pending # "none"

(* stop_loss_order_matches_position, take_profit_order_matches_position:   *)
(* the trigger is fixed when the position is opened or enlarged, the       *)
(* take-profit price follows the current ATR.                              *)
StopMatches(sl, pos) == sl.size = pos.qty /\ sl.shape = pos.shape
ProfitMatches(o, pos) == o.size = pos.qty /\ o.shape = atr

(* apply_position_reducing_fill                                            *)
Reduce(pos, lots) == IF pos.qty - lots < MinSize THEN NoPos
                     ELSE [pos EXCEPT !.qty = @ - lots]

(* next_open_position                                                      *)
Enlarge(pos, lots) == [qty |-> pos.qty + lots, shape |-> atr]

(* strategy_balance_after_operator_baseline: what is tradeable of the      *)
(* account's balance once the operator's share is taken out.               *)
Tradeable(total) == IF total < MinSize THEN 0 ELSE total

-----------------------------------------------------------------------------
(* Handlers as lists of steps.                                             *)

RefreshTracked == <<"refresh_entry_order", "refresh_take_profit_order",
                    "refresh_stop_loss_order", "refresh_stop_loss_exit_order">>
EnsureProtection == <<"ensure_take_profit_order", "ensure_stop_loss_order">>

(* Mutant: the breach check runs, the missing orders are not replaced.     *)
EnforceProtectionChecksOnly == <<"evaluate_stop_loss">>

EnforceProtection == <<"ensure_stop_loss_order", "evaluate_stop_loss">> \o EnsureProtection

Program(h) ==
    CASE h = "candle"      -> <<"refresh_bars">> \o RefreshTracked \o EnforceProtection
                                \o <<"evaluate_entry">>
      [] h = "private"     -> RefreshTracked \o EnforceProtection
      [] h = "timer"       -> <<"refresh_bars">> \o RefreshTracked \o EnforceProtection
      [] h = "instrument"  -> <<"reconstruct_open_orders">> \o EnsureProtection
      [] h = "init"        -> <<"reconstruct_open_orders">> \o EnsureProtection
      [] h \in {"stream", "interrupted"} ->
            <<"reconstruct_open_orders">> \o RefreshTracked
              \o <<"evaluate_stop_loss">> \o EnsureProtection
      [] h = "shutdown"    -> RefreshTracked \o <<"cancel_shutdown_entry_order",
                                "reconcile_shutdown_position">>

Dispatchable == {"candle", "private", "timer", "instrument", "stream", "shutdown"}
Running == Dispatchable \cup {"init", "interrupted"}
Handlers == Running \cup {"idle", "retry", "halted", "done"}

ASSUME EventsAssumption == Events \subseteq Dispatchable

(* Mutant: only a position keeps the strategy from entering again.         *)
EntryBlockedByPosition(s) == HasPos(s)

(* entry_preconditions_met, the signal aside                               *)
EntryBlocked(s) == \/ s.entry.id # NoId \/ HasPos(s) \/ s.tp.id # NoId
                   \/ s.exit.id # NoId \/ Pending(s)

(* Does this step return without an exchange call in state s?  These are   *)
(* the early returns at the top of each function.                          *)
NoCall(step, s) ==
    CASE step = "refresh_entry_order"          -> s.entry.id = NoId
      [] step = "refresh_take_profit_order"    -> s.tp.id = NoId
      [] step = "refresh_stop_loss_order"      -> s.sl.id = NoId
      [] step = "refresh_stop_loss_exit_order" -> s.exit.id = NoId
      [] step = "ensure_take_profit_order"     ->
            ~HasPos(s) \/ s.tp.id # NoId \/ s.exit.id # NoId \/ Pending(s)
      [] step = "ensure_stop_loss_order"       ->
            ~HasPos(s) \/ s.exit.id # NoId \/ Pending(s)
              \/ (s.sl.id # NoId /\ (s.sl.cxl \/ StopMatches(s.sl, s.pos)))
      [] step = "evaluate_stop_loss"           -> ~HasPos(s)
      [] step = "evaluate_entry"               -> EntryBlocked(s)
      [] step = "cancel_tracked_entry_order"   -> s.entry.id = NoId \/ s.entry.cxl
      [] step = "cancel_take_profit_order"     -> s.tp.id = NoId \/ s.tp.cxl
      [] step = "amend_take_profit_order"      -> ~HasPos(s) \/ s.tp.id = NoId \/ s.tp.cxl
      [] step = "cancel_stop_loss_order"       -> s.sl.id = NoId \/ s.sl.cxl
      [] step = "cancel_stop_loss_exit_order"  -> s.exit.id = NoId \/ s.exit.cxl
      [] step = "cancel_shutdown_entry_order"  -> s.entry.id = NoId
      [] OTHER                                 -> FALSE

Advance(t, s) ==
    LET calls == {i \in 1 .. Len(t) : ~NoCall(t[i], s)}
    IN  IF calls = {} THEN <<>> ELSE SubSeq(t, Min(calls), Len(t))

-----------------------------------------------------------------------------
(* How a step ends.                                                        *)

Used(s, r) == {s.entry.id, s.tp.id, s.sl.id, s.exit.id,
               r.entry.id, r.tp.id, r.sl.id, r.exit.id, loc.shutEntry}

(* Closed orders nobody refers to any more give their slot back.           *)
Retired(os, s, r) ==
    [i \in Slot |-> IF IsLive(os[i]) \/ i \in Used(s, r) THEN os[i] ELSE NoOrder]

(* How many entry orders os has that were not there before (at most one).  *)
Submitted(os) == Cardinality(Live(os, "entry") \ Live(orders, "entry"))

Rest == Tail(todo)
At(step) == handler \in Running /\ todo # <<>> /\ Head(todo) = step

(* The step leaves the orders as os and the runner in s; the steps t are   *)
(* next.  When none is left the handler has returned Ok.                   *)
Then(os, s, l, t) ==
    LET next == Advance(t, s)
    IN  /\ st' = s
        /\ todo' = next
        /\ handler' = IF next # <<>> THEN handler
                      ELSE IF handler = "shutdown" THEN "done" ELSE "idle"
        /\ loc' = IF next # <<>> THEN l ELSE NoLoc
        /\ rec' = NoRec
        /\ orders' = Retired(os, s, NoRec)
        /\ entries' = entries + Submitted(os)
        /\ UNCHANGED <<held, atr>>

(* Only the runner's own state changes.                                    *)
Local(s, t) == Then(orders, s, loc, t)

(* The engine's answer to a handler that did not return Ok.  An error is   *)
(* retried by the next dispatch until it is the third in a row; a timeout  *)
(* is followed by reconcile_after_interrupted_tick.  Startup, shutdown and *)
(* that reconciliation have no second chance: the runtime stops.           *)
Retryable == handler \notin {"init", "interrupted", "shutdown"}
AfterError   == IF Retryable THEN {"retry", "halted"} ELSE {"halted"}

(* Mutant: a timeout is treated like an error, nothing is reconciled.      *)
AfterTimeoutRetries == AfterError

AfterTimeout == IF Retryable THEN {"interrupted", "halted"} ELSE {"halted"}

Ends(os, s, h) ==
    /\ handler' = h
    /\ todo' = IF h = "interrupted" THEN Program(h) ELSE <<>>
    /\ st' = s
    /\ loc' = NoLoc
    /\ rec' = NoRec
    /\ orders' = Retired(os, s, NoRec)
    /\ entries' = entries + Submitted(os)
    /\ UNCHANGED <<held, atr>>

(* The handler returns an error after the runner's state became s.         *)
FailsIn(s) == \E h \in AfterError : Ends(orders, s, h)
Fails == FailsIn(st)

(* "error": a call fails and had no effect; "timeout": the engine drops    *)
(* the handler while it waits for a call, which may or may not take        *)
(* effect; "lost": a call takes effect and is reported as an error;        *)
(* "lag": the algo history does not list a closed algo yet.                *)
FaultKinds == {"error", "timeout", "lost", "lag"}

ASSUME FaultsAssumption == Faults \subseteq FaultKinds

Outcomes(kinds) ==
    UNION {IF k = "timeout" THEN AfterTimeout ELSE AfterError : k \in kinds \cap Faults}

(* A call fails, or the handler is dropped, before anything happened.      *)
Abort == /\ handler \in Running /\ todo # <<>>
         /\ \E h \in Outcomes({"error", "timeout"}) : Ends(orders, st, h)

(* A mutating call reached OKX but the runner never learned the outcome:   *)
(* the handler was dropped while waiting, or the submission failed and so  *)
(* did the lookup that reconciles it (reconcile_order_submit_failure).     *)
Unanswered(os) ==
    \E h \in Outcomes({"timeout", "lost"}) : Ends(os, st, h)

Set(i, o) == [orders EXCEPT ![i] = o]

(* A call that leaves order i as o at OKX; if it is answered, the runner   *)
(* goes on in s.                                                           *)
Call(i, o, s, t) == Then(Set(i, o), s, loc, t) \/ Unanswered(Set(i, o))

(* The runner tracks the order o it has placed as order i, under the field *)
(* of its purpose; a market exit is pending until it is filled.            *)
Placed(i, o) ==
    [st EXCEPT ![o.kind] = IF o.kind = "sl" THEN TrackAlgo(i, o, FALSE) ELSE Track(i),
               !.pending = IF o.kind = "exit" THEN "exit" ELSE @]

(* A submission takes a free slot; sell orders OKX cannot cover are        *)
(* rejected, and so is one below minSz before it is even sent.             *)
Submit(o, t) ==
    \E i \in FreeSlot(orders, o.kind, Used(st, rec)) : Call(i, o, Placed(i, o), t)

(* clear_position_state                                                    *)
Cleared == Fresh

-----------------------------------------------------------------------------
(* Entry order.                                                            *)

(* New confirmed bars move the ATR or leave it alone.                      *)
refresh_bars ==
    /\ At("refresh_bars")
    /\ \E a \in 0 .. MaxAtr :
          /\ atr' = a
          /\ LET next == Advance(Rest, st) IN
             /\ todo' = next
             /\ handler' = IF next = <<>> THEN "idle" ELSE handler
    /\ UNCHANGED <<orders, held, entries, st, loc, rec>>

(* Mutant: an order whose cancel is requested is forgotten at once.        *)
EntryTailForgets(s, seen, l, t) == Then(orders, [s EXCEPT !.entry = NoTracked], l, t)

(* The end of refresh_entry_order, on the order as it was looked up: a     *)
(* live order is cancelled if it traded, the signal is gone or it is too   *)
(* old; a closed one is forgotten.                                         *)
EntryTail(s, seen, l, t) ==
    IF seen.live
    THEN \E stale \in BOOLEAN :
            Then(orders, s, l, IF (seen.filled > 0 \/ stale) /\ s.entry.id = seen.id
                               THEN <<"cancel_tracked_entry_order">> \o t ELSE t)
    ELSE Then(orders, [s EXCEPT !.entry = NoTracked], l, t)

refresh_entry_order ==
    /\ At("refresh_entry_order")
    /\ LET id == st.entry.id
           o  == orders[id]
           delta == o.filled - st.entry.last
           seen == [id |-> id, live |-> IsLive(o), filled |-> o.filled]
           opened == [st EXCEPT !.pos = Enlarge(@, delta), !.entry.last = o.filled]
       IN  \/ LookupMayMiss(o) /\ Local(st, Rest)
           \/ /\ delta > 0
              /\ Then(orders, opened, [loc EXCEPT !.entry = seen],
                      <<"ensure_stop_loss_order">>
                        \o (IF HasPos(st) THEN <<"refresh_take_profit_order">> ELSE <<>>)
                        \o <<"ensure_take_profit_order", "refresh_entry_order_tail">> \o Rest)
           \/ delta = 0 /\ EntryTail(st, seen, loc, Rest)

refresh_entry_order_tail ==
    /\ At("refresh_entry_order_tail")
    /\ EntryTail(st, loc.entry, [loc EXCEPT !.entry = NoLoc.entry], Rest)

cancel_tracked_entry_order ==
    /\ At("cancel_tracked_entry_order")
    /\ Call(st.entry.id, CancelAccepted(orders[st.entry.id]),
            [st EXCEPT !.entry.cxl = TRUE], Rest)

(* evaluate_entry: the preconditions hold, the signal may still say no.    *)
evaluate_entry ==
    /\ At("evaluate_entry")
    /\ \/ Local(st, Rest)
       \/ entries < MaxEntries /\ Submit(NewOrder("entry", EntrySize, 0), Rest)

-----------------------------------------------------------------------------
(* Take-profit order.                                                      *)

cancel_take_profit_order ==
    /\ At("cancel_take_profit_order")
    /\ Call(st.tp.id, CancelAccepted(orders[st.tp.id]), [st EXCEPT !.tp.cxl = TRUE], Rest)

(* A partially filled take-profit is cancelled instead of amended; an      *)
(* amend of an order that no longer rests, or that OKX cannot cover, is an *)
(* error.                                                                  *)
amend_take_profit_order ==
    /\ At("amend_take_profit_order")
    /\ LET o == orders[st.tp.id]
           amended == [o EXCEPT !.size = st.pos.qty, !.shape = atr]
       IN  \/ st.tp.last > 0 /\ Local(st, <<"cancel_take_profit_order">> \o Rest)
           \/ /\ st.tp.last = 0
              /\ IF /\ IsLive(o)
                    /\ st.pos.qty > o.filled
                    /\ st.pos.qty - o.size <= Available(orders, held)
                 THEN Call(st.tp.id, amended, st, Rest)
                 ELSE Fails

ensure_take_profit_order ==
    /\ At("ensure_take_profit_order")
    /\ IF st.pos.qty >= MinSize /\ st.pos.qty <= Available(orders, held)
       THEN Submit(NewOrder("tp", st.pos.qty, atr), Rest)
       ELSE Fails

(* The end of refresh_take_profit_order, on the order as it was looked up. *)
ProfitTail(s, seen, l, t) ==
    LET o == seen.order
        gone == [s EXCEPT !.tp = NoTracked]
    IN  IF IsLive(o)
        THEN IF seen.cxl THEN Then(orders, s, l, t)
             ELSE IF ~HasPos(s)
                  THEN Then(orders, s, l, <<"cancel_take_profit_order">> \o t)
             ELSE IF ~ProfitMatches(o, s.pos)
                  THEN Then(orders, s, l, <<"amend_take_profit_order">> \o t)
             ELSE Then(orders, s, l, t)
        ELSE IF ~HasPos(s)
             THEN Then(orders, gone, l,
                       <<"cancel_stop_loss_order", "clear_position_state">> \o t)
        ELSE IF IsCanceled(o) \/ seen.grew
             THEN Then(orders, gone, l, EnsureProtection \o t)
        ELSE Then(orders, gone, l, t)

refresh_take_profit_order ==
    /\ At("refresh_take_profit_order")
    /\ LET o == orders[st.tp.id]
           delta == o.filled - st.tp.last
           seen == [order |-> o, grew |-> delta > 0, cxl |-> st.tp.cxl]
           counted == [st EXCEPT !.pos = IF HasPos(st) THEN Reduce(@, delta) ELSE @,
                                 !.tp.last = o.filled]
       IN  \/ /\ LookupMayMiss(o)
              /\ Local([st EXCEPT !.tp = NoTracked], <<"ensure_take_profit_order">> \o Rest)
           \/ /\ delta > 0 /\ HasPos(st)
              /\ Then(orders, counted, [loc EXCEPT !.tp = seen],
                      <<"cancel_stop_loss_order", "ensure_stop_loss_order",
                        "refresh_take_profit_order_tail">> \o Rest)
           \/ ~(delta > 0 /\ HasPos(st)) /\ ProfitTail([st EXCEPT !.tp.last = o.filled], seen, loc, Rest)

refresh_take_profit_order_tail ==
    /\ At("refresh_take_profit_order_tail")
    /\ ProfitTail(st, loc.tp, [loc EXCEPT !.tp = NoLoc.tp], Rest)

clear_position_state ==
    /\ At("clear_position_state")
    /\ Local(Cleared, Rest)

-----------------------------------------------------------------------------
(* Stop-loss trigger algo.                                                 *)

(* Mutant: the algo is marked cancel_requested and no cancel is sent.      *)
cancel_stop_loss_order_unsent ==
    /\ At("cancel_stop_loss_order")
    /\ Local([st EXCEPT !.sl.cxl = TRUE], Rest)

cancel_stop_loss_order ==
    /\ At("cancel_stop_loss_order")
    /\ Call(st.sl.id, CancelAccepted(orders[st.sl.id]), [st EXCEPT !.sl.cxl = TRUE], Rest)

(* Mutant: a mismatched algo is replaced without being cancelled first.    *)
ensure_stop_loss_order_replaces ==
    /\ At("ensure_stop_loss_order")
    /\ Submit(NewOrder("sl", st.pos.qty, st.pos.shape), Rest)

(* Mutant: no stop-loss is placed.                                         *)
ensure_stop_loss_order_skips == At("ensure_stop_loss_order") /\ Local(st, Rest)

(* A mismatched algo is cancelled (the replacement comes with a later      *)
(* tick), a missing one is placed.                                         *)
ensure_stop_loss_order ==
    /\ At("ensure_stop_loss_order")
    /\ IF st.sl.id # NoId THEN Local(st, <<"cancel_stop_loss_order">> \o Rest)
       ELSE IF st.pos.qty >= MinSize
       THEN Submit(NewOrder("sl", st.pos.qty, st.pos.shape), Rest)
       ELSE Fails

(* The algo is looked for among the open ones.  While a locally noticed    *)
(* breach waits for it, a price back above the trigger restores the        *)
(* take-profit.                                                            *)
refresh_stop_loss_order ==
    /\ At("refresh_stop_loss_order")
    /\ LET o == orders[st.sl.id]
           seen == [st EXCEPT !.sl = TrackAlgo(@.id, o, @.cxl)]
       IN  IF IsLive(o)
           THEN \/ Local(seen, Rest)
                \/ /\ HasPos(st) /\ st.pending = "local" /\ st.exit.id = NoId /\ st.tp.id = NoId
                   /\ Local([seen EXCEPT !.pending = "none"],
                            <<"ensure_take_profit_order">> \o Rest)
           ELSE IF ~HasPos(st) THEN Local([st EXCEPT !.sl = NoAlgo], Rest)
           ELSE Local(st, <<"stop_loss_history">> \o Rest)

(* It is not open any more: the algo history (which may lag) and the       *)
(* ticker decide whether it fired.                                         *)
stop_loss_history ==
    /\ At("stop_loss_history")
    /\ LET o == orders[st.sl.id]
           none == [st EXCEPT !.sl = NoAlgo]
           fired == <<"triggered_cancel_take_profit", "triggered_balance">> \o Rest
       IN  \E missing \in {FALSE, "lag" \in Faults}, below \in BOOLEAN :
             IF ~missing /\ o.state = "effective" THEN Local(st, fired)
             ELSE IF Pending(st) \/ below
                  THEN Local(IF missing THEN st ELSE none, fired)
             ELSE Local(none, Rest)

(* reconcile_triggered_stop_loss_order: cancel_if_live on the take-profit, *)
(* whose failure is only logged, ...                                       *)
triggered_cancel_take_profit ==
    /\ At("triggered_cancel_take_profit")
    /\ IF st.tp.id = NoId THEN Local(st, Rest)
       ELSE \/ Call(st.tp.id, CancelAccepted(orders[st.tp.id]),
                    [st EXCEPT !.tp.cxl = TRUE], Rest)
            \/ "error" \in Faults /\ Local(st, Rest)

(* reconcile_position_quantity_from_balance.  The account total below the  *)
(* operator's share is an error.                                           *)
BalanceCaps(s) ==
    LET qty == Min({Tradeable(held), s.pos.qty})
    IN  IF qty = 0 THEN Cleared ELSE [s EXCEPT !.pos.qty = qty]

(* ... then whatever base is left is sold by a fallback exit.              *)
triggered_balance ==
    /\ At("triggered_balance")
    /\ IF held < 0 THEN Fails
       ELSE LET s == BalanceCaps(st) IN
            Local(IF HasPos(s) THEN [s EXCEPT !.sl = NoAlgo, !.pending = "exit"] ELSE Cleared, Rest)

-----------------------------------------------------------------------------
(* Stop-loss market exit.                                                  *)

refresh_stop_loss_exit_order ==
    /\ At("refresh_stop_loss_exit_order")
    /\ LET o == orders[st.exit.id]
           delta == o.filled - st.exit.last
           counted == [st EXCEPT !.pos = IF delta > 0 /\ HasPos(st) THEN Reduce(@, delta) ELSE @]
       IN  \/ /\ LookupMayMiss(o)
              /\ Local([st EXCEPT !.exit = NoTracked], <<"exit_balance">> \o Rest)
           \/ IsLive(o) /\ Local([counted EXCEPT !.exit.last = o.filled], Rest)
           \/ /\ ~IsLive(o)
              /\ Local(IF HasPos(counted)
                       THEN [counted EXCEPT !.exit = NoTracked, !.pending = "exit"]
                       ELSE Cleared, Rest)

exit_balance ==
    /\ At("exit_balance")
    /\ IF ~HasPos(st) THEN Local(st, Rest)
       ELSE IF held < 0 THEN Fails
       ELSE LET s == BalanceCaps(st) IN
            Local(IF HasPos(s) THEN [s EXCEPT !.pending = "exit"] ELSE s, Rest)

cancel_stop_loss_exit_order ==
    /\ At("cancel_stop_loss_exit_order")
    /\ Call(st.exit.id, CancelAccepted(orders[st.exit.id]), [st EXCEPT !.exit.cxl = TRUE], Rest)

(* Mutant: a live stop-loss algo does not suppress the market exit.        *)
ExitStepsBesideAlgo(s, wasPending) ==
    IF s.exit.id # NoId \/ ~HasPos(s) THEN <<>> ELSE <<"place_market_exit">>

(* Mutant: the exit is attempted only when the breach is first noticed.    *)
ExitStepsOnce(s, wasPending) ==
    IF wasPending \/ s.sl.id # NoId \/ s.exit.id # NoId \/ ~HasPos(s) THEN <<>>
    ELSE <<"place_market_exit">>

(* After the take-profit is out of the way: a tracked algo or exit order   *)
(* suppresses the local market exit; a breach noticed in an earlier tick   *)
(* trusts the balance rather than the tracked quantity.                    *)
ExitSteps(s, wasPending) ==
    IF s.sl.id # NoId \/ s.exit.id # NoId \/ ~HasPos(s) THEN <<>>
    ELSE (IF wasPending THEN <<"evaluate_balance">> ELSE <<>>) \o <<"place_market_exit">>

(* evaluate_stop_loss                                                      *)
evaluate_stop_loss ==
    /\ At("evaluate_stop_loss")
    /\ LET was == Pending(st)
           s == [st EXCEPT !.pending = IF was THEN @ ELSE "local"]
       IN  \/ ~was /\ Local(st, Rest)
           \/ IF st.tp.id # NoId
              THEN Then(orders, s, [loc EXCEPT !.wasPending = was],
                        <<"evaluate_take_profit">> \o Rest)
              ELSE Local(s, ExitSteps(s, was) \o Rest)

evaluate_take_profit ==
    /\ At("evaluate_take_profit")
    /\ LET o == orders[st.tp.id]
           delta == o.filled - st.tp.last
           s == [st EXCEPT !.tp = NoTracked,
                           !.pos = IF delta > 0 /\ ~loc.wasPending THEN Reduce(@, delta) ELSE @]
           l == [loc EXCEPT !.wasPending = FALSE]
       IN  \/ /\ LookupMayMiss(o)
              /\ \E c \in {st.tp.cxl, TRUE} : Then(orders, [st EXCEPT !.tp.cxl = c], l, Rest)
           \/ IsLive(o) /\ Then(orders, st, l, <<"cancel_take_profit_order">> \o Rest)
           \/ ~IsLive(o) /\ Then(orders, s, l, ExitSteps(s, loc.wasPending) \o Rest)

evaluate_balance ==
    /\ At("evaluate_balance")
    /\ IF held < 0 THEN Fails
       ELSE LET s == BalanceCaps(st) IN
            Local(s, IF HasPos(s) THEN Rest ELSE Tail(Rest))

place_market_exit ==
    /\ At("place_market_exit")
    /\ IF st.pos.qty >= MinSize /\ st.pos.qty <= Available(orders, held)
       THEN Submit(NewOrder("exit", st.pos.qty, 0), Rest)
       ELSE Fails

-----------------------------------------------------------------------------
(* reconstruct_exchange_state: open orders, open algos, balance and order  *)
(* evidence are read by separate calls, one after the other.               *)

Reads(r, t) ==
    /\ rec' = r
    /\ todo' = t
    /\ orders' = Retired(orders, st, r)
    /\ UNCHANGED <<held, entries, atr, st, handler, loc>>

(* find_live_strategy_order: at most one live order per purpose, tracked   *)
(* with the fill it has now and no memory of a requested cancel.           *)
Found(kind) ==
    LET live == Live(orders, kind)
    IN  IF live = {} THEN NoTracked
        ELSE LET i == CHOOSE i \in live : TRUE IN [id |-> i, last |-> orders[i].filled, cxl |-> FALSE]

reconstruct_open_orders ==
    /\ At("reconstruct_open_orders")
    /\ IF \E k \in {"entry", "tp", "exit"} : Cardinality(Live(orders, k)) > 1
       THEN Fails
       ELSE Reads([NoRec EXCEPT !.entry = Found("entry"),
                                !.tp = Found("tp"), !.exit = Found("exit")],
                  <<"reconstruct_open_algos">> \o Rest)

reconstruct_open_algos ==
    /\ At("reconstruct_open_algos")
    /\ LET live == Live(orders, "sl")
       IN  IF Cardinality(live) > 1 THEN Fails
           ELSE Reads([rec EXCEPT !.sl = IF live = {} THEN NoAlgo
                                         ELSE LET i == CHOOSE i \in live : TRUE
                                              IN  TrackAlgo(i, orders[i], FALSE)],
                      <<"reconstruct_balance">> \o Rest)

reconstruct_balance ==
    /\ At("reconstruct_balance")
    /\ IF held < 0 THEN Fails
       ELSE Reads([rec EXCEPT !.total = held], <<"reconstruct_evidence">> \o Rest)

(* append_targeted_strategy_order_evidence looks up the tracked orders     *)
(* that were not open; the open ones count as they were read.              *)
Evidence(tracked, found) ==
    IF tracked.id = NoId \/ tracked.id = found.id \/ rec.total = 0 THEN found.last
    ELSE found.last + orders[tracked.id].filled

(* The end of the reconstruction once a quantity is agreed: a protection   *)
(* order without a position, or one that does not match it, is an error;   *)
(* otherwise everything tracked so far is replaced.                        *)
Reconstructed(qty) ==
    LET pos == IF qty = 0 THEN NoPos ELSE [qty |-> qty, shape |-> atr]
        s == [entry |-> rec.entry, tp |-> rec.tp, sl |-> rec.sl, exit |-> rec.exit,
              pos |-> pos, pending |-> IF rec.exit.id # NoId THEN "exit" ELSE "none"]
    IN  IF \/ qty = 0 /\ (rec.tp.id # NoId \/ rec.sl.id # NoId \/ rec.exit.id # NoId)
           \/ qty > 0 /\ rec.tp.id # NoId /\ ~ProfitMatches(orders[rec.tp.id], pos)
           \/ qty > 0 /\ rec.sl.id # NoId /\ ~StopMatches(rec.sl, pos)
        THEN Fails
        ELSE Local(s, Rest)

(* reconstruct_position_from_evidence: evidence that does not explain the  *)
(* balance to the lot, or has no entry fill for a position's cost, is not  *)
(* enough.                                                                 *)
Explains(bought, sold) ==
    /\ rec.total = Max({bought - sold, 0})
    /\ Tradeable(rec.total) > 0 => bought > 0

reconstruct_evidence ==
    /\ At("reconstruct_evidence")
    /\ LET bought == Evidence(st.entry, rec.entry)
           sold == Evidence(st.tp, rec.tp) + Evidence(st.exit, rec.exit)
       IN  IF Explains(bought, sold) THEN Reconstructed(Tradeable(rec.total))
           ELSE Reads(rec, <<"reconstruct_history">> \o Rest)

(* append_broad_history_fallback_evidence: every tagged fill there is.     *)
(* The order a triggered algo places need not carry the strategy's client  *)
(* id; then the tagged fills claim more than the account holds.            *)
reconstruct_history ==
    /\ At("reconstruct_history")
    /\ \/ rec.total = held /\ Reconstructed(Tradeable(rec.total))
       \/ Fails

-----------------------------------------------------------------------------
(* shutdown                                                                *)

cancel_shutdown_entry_order ==
    /\ At("cancel_shutdown_entry_order")
    /\ Then(orders, st, [loc EXCEPT !.shutEntry = st.entry.id],
            <<"cancel_tracked_entry_order", "refresh_entry_order",
              "shutdown_entry_closed">> \o Rest)

(* Mutant: the cancelled entry is taken to be closed.                      *)
shutdown_entry_closed_unchecked ==
    /\ At("shutdown_entry_closed")
    /\ Then(orders, [st EXCEPT !.entry = NoTracked], [loc EXCEPT !.shutEntry = NoId], Rest)

shutdown_entry_closed ==
    /\ At("shutdown_entry_closed")
    /\ LET id == loc.shutEntry
           s == IF ~HasPos(st) /\ st.entry.id = id THEN [st EXCEPT !.entry = NoTracked] ELSE st
       IN  IF IsLive(orders[id]) THEN Fails
           ELSE Then(orders, s, [loc EXCEPT !.shutEntry = NoId], Rest)

ShutdownWithoutPosition ==
    <<"cancel_take_profit_order", "shutdown_take_profit_closed",
      "cancel_stop_loss_order", "refresh_stop_loss_order", "shutdown_stop_loss_closed",
      "cancel_stop_loss_exit_order", "shutdown_exit_closed", "clear_position_state">>

reconcile_shutdown_position ==
    /\ At("reconcile_shutdown_position")
    /\ Local(st, IF HasPos(st)
                 THEN <<"refresh_take_profit_order", "refresh_stop_loss_order",
                        "refresh_stop_loss_exit_order", "evaluate_stop_loss",
                        "reconcile_shutdown_pending_stop_loss",
                        "shutdown_with_position">> \o Rest
                 ELSE ShutdownWithoutPosition \o Rest)

shutdown_take_profit_closed ==
    /\ At("shutdown_take_profit_closed")
    /\ IF st.tp.id # NoId /\ IsLive(orders[st.tp.id]) THEN Fails
       ELSE Local([st EXCEPT !.tp = NoTracked], Rest)

shutdown_stop_loss_closed ==
    /\ At("shutdown_stop_loss_closed")
    /\ IF st.sl.id # NoId THEN Fails ELSE Local(st, Rest)

shutdown_exit_closed ==
    /\ At("shutdown_exit_closed")
    /\ IF st.exit.id # NoId /\ IsLive(orders[st.exit.id]) THEN Fails
       ELSE Local([st EXCEPT !.exit = NoTracked], Rest)

(* A breach with neither algo nor exit order: the take-profit must be out  *)
(* of the way before the market exit is tried once more.                   *)
reconcile_shutdown_pending_stop_loss ==
    /\ At("reconcile_shutdown_pending_stop_loss")
    /\ IF ~HasPos(st) \/ ~Pending(st) \/ st.sl.id # NoId \/ st.exit.id # NoId THEN Local(st, Rest)
       ELSE IF st.tp.id # NoId /\ IsLive(orders[st.tp.id])
       THEN Local(st, <<"cancel_take_profit_order", "shutdown_ambiguous">> \o Rest)
       ELSE Local(st, <<"refresh_take_profit_order", "shutdown_retry_exit">> \o Rest)

shutdown_ambiguous == At("shutdown_ambiguous") /\ Fails

shutdown_retry_exit ==
    /\ At("shutdown_retry_exit")
    /\ Local(st, IF ~HasPos(st) \/ st.sl.id # NoId \/ st.exit.id # NoId THEN Rest
                 ELSE <<"evaluate_stop_loss">> \o Rest)

shutdown_with_position ==
    /\ At("shutdown_with_position")
    /\ Local(st, (IF HasPos(st) THEN EnsureProtection \o <<"shutdown_protected">>
                  ELSE ShutdownWithoutPosition) \o Rest)

shutdown_protected ==
    /\ At("shutdown_protected")
    /\ IF /\ st.sl.id # NoId \/ st.exit.id # NoId
          /\ st.tp.id # NoId \/ st.exit.id # NoId
       THEN Local(st, Rest)
       ELSE Fails

-----------------------------------------------------------------------------
(* The engine and the exchange.                                            *)

(* execute_strategy_dispatch and the engine's operator shutdown start a    *)
(* handler only when none is running.                                      *)
Dispatch(h) ==
    /\ handler \in {"idle", "retry"}
    /\ LET next == Advance(Program(h), st) IN
       /\ next # <<>>
       /\ todo' = next
    /\ handler' = h
    /\ UNCHANGED <<orders, held, entries, atr, st, loc, rec>>

(* The process is started again: nothing is persisted, initialize          *)
(* reconstructs everything from OKX with an ATR of its own warm-up.        *)
Restart ==
    /\ handler \in {"halted", "done"}
    /\ handler' = "init"
    /\ todo' = Program("init")
    /\ st' = Fresh
    /\ orders' = Retired(orders, Fresh, NoRec)
    /\ atr' \in 0 .. MaxAtr
    /\ UNCHANGED <<held, entries, loc, rec>>

ExchangeMoves(i, o, lots) ==
    /\ orders' = Retired(Set(i, o), st, rec)
    /\ held' = held + lots
    /\ UNCHANGED <<entries, atr, st, handler, todo, loc, rec>>

(* A resting order trades one more lot.                                    *)
Fill(i) ==
    /\ IsLive(orders[i]) /\ orders[i].kind # "sl"
    /\ ExchangeMoves(i, FilledBy(orders[i], 1), IF orders[i].kind = "entry" THEN 1 ELSE -1)

(* A requested cancel takes effect; a regular order may also be cancelled  *)
(* by OKX itself (post-only that would take, expired Cancel-All-After).    *)
Canceled(i) ==
    /\ IsLive(orders[i])
    /\ orders[i].kind = "sl" => orders[i].cxl
    /\ ExchangeMoves(i, [orders[i] EXCEPT !.state = "canceled"], 0)

(* The stop-loss algo fires: its market order sells some or all of its     *)
(* size, or is refused when the free balance does not cover it.            *)
Trigger(i) ==
    /\ IsLive(orders[i]) /\ orders[i].kind = "sl"
    /\ LET o == orders[i] IN
       IF o.size <= Available(orders, held)
       THEN \E lots \in 1 .. o.size :
               ExchangeMoves(i, [o EXCEPT !.state = "effective", !.filled = lots], -lots)
       ELSE ExchangeMoves(i, [o EXCEPT !.state = "canceled"], 0)

Exchange == \E i \in Slot : Fill(i) \/ Canceled(i) \/ Trigger(i)

-----------------------------------------------------------------------------
EntrySteps == \/ refresh_bars \/ refresh_entry_order \/ refresh_entry_order_tail
              \/ cancel_tracked_entry_order \/ evaluate_entry

ProfitSteps == \/ refresh_take_profit_order \/ refresh_take_profit_order_tail
               \/ cancel_take_profit_order \/ amend_take_profit_order
               \/ ensure_take_profit_order \/ clear_position_state

StopSteps == \/ refresh_stop_loss_order \/ stop_loss_history \/ cancel_stop_loss_order
             \/ ensure_stop_loss_order \/ triggered_cancel_take_profit \/ triggered_balance

ExitStepsNext == \/ refresh_stop_loss_exit_order \/ exit_balance
                 \/ cancel_stop_loss_exit_order \/ evaluate_stop_loss
                 \/ evaluate_take_profit \/ evaluate_balance \/ place_market_exit

ReconstructSteps == \/ reconstruct_open_orders \/ reconstruct_open_algos
                    \/ reconstruct_balance \/ reconstruct_evidence \/ reconstruct_history

ShutdownSteps == \/ cancel_shutdown_entry_order \/ shutdown_entry_closed
                 \/ reconcile_shutdown_position \/ shutdown_take_profit_closed
                 \/ shutdown_stop_loss_closed \/ shutdown_exit_closed
                 \/ reconcile_shutdown_pending_stop_loss \/ shutdown_ambiguous
                 \/ shutdown_retry_exit \/ shutdown_with_position \/ shutdown_protected

Steps == \/ EntrySteps \/ ProfitSteps \/ StopSteps \/ ExitStepsNext
         \/ ReconstructSteps \/ ShutdownSteps

Init ==
    /\ orders = [i \in Slot |-> NoOrder]
    /\ held = 0
    /\ entries = 0
    /\ atr = 0
    /\ st = Fresh
    /\ handler = "init"
    /\ todo = Program("init")
    /\ loc = NoLoc
    /\ rec = NoRec

Next == \/ Steps
        \/ Abort
        \/ \E h \in Events : Dispatch(h)
        \/ Restart
        \/ Exchange

Spec == Init /\ [][Next]_vars

(* tokio drives a handler to its next call (Steps), the engine's reconcile *)
(* timer and candles never cease, a requested cancel takes effect or the   *)
(* order closes before it does, and a market order that is placed again    *)
(* and again is executed some time.  OKX owes the strategy no other fill.  *)
FairSpec ==
    /\ Spec
    /\ WF_vars(Steps)
    /\ WF_vars(\E h \in Events : Dispatch(h))
    /\ \A i \in Slot : WF_vars(orders[i].cxl /\ (Fill(i) \/ Canceled(i) \/ Trigger(i)))
    /\ \A n \in 1 .. PerKind : SF_vars(Fill(<<"exit", n>>))
=============================================================================
