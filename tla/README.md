# TLA+ verification of okx-rust-trading

The repository is a trading runtime for OKX SPOT: one async engine task, a set of WebSocket
stream tasks, a heartbeat task for OKX's Cancel-All-After dead-man switch, a task that refreshes
the server time, and one strategy runner per configured instrument that talks to OKX over REST and a
WebSocket command session. Paths below are relative to `src/crates/okx-trading-runtime/src/` unless
they start with `crates/`.

The parts worth modelling are those where two clocks run: the strategy computes while the
exchange fills, cancels and triggers its orders; the engine awaits a dispatch while streams break
and the dead-man switch counts down; a command is acknowledged after its caller gave up; evidence
grows old while an order waits for its turn. Those are hard to test, and they are what this project
checks.

## The system

| Component | State | Operations | Hard because |
|---|---|---|---|
| Strategy runner (`strategies/okx_ema_atr_maker_trend.rs`, `.../{entry_submission,inventory,shutdown}.rs`) | `ExchangeState`: tracked entry, take-profit, stop-loss algo, market exit, position, pending stop-loss | handlers for candles, private events, the reconcile timer, instrument updates, stream changes, interrupted ticks, shutdown; reconstruction from REST | every `await` is a point where orders trade, calls fail, or the engine drops the handler; nothing is persisted |
| Engine loop (`app/live.rs`) | stream readiness, reconcile request, deferred candles, failure counters | one biased `select!` over heartbeat, server time, Ctrl-C, account observation, private events, timer, health, candles, public events, Level-2 | while it awaits a dispatch it looks at nothing else |
| Dispatch (`app/strategy_tick_execution.rs`, `app/strategy_tick_failure.rs`) | consecutive failures per strategy | run the matching strategies in order under a timeout; reconcile after a timeout; stop at the limit | partial failure of a dispatch |
| Health (`app/websocket_health_tracker.rs`, `okx/websocket/health.rs`) | ready / ever ready / failed-first sets, a bounded channel | record, startup readiness, supervision of tasks | reports are delayed and, on a full channel, dropped |
| Streams (`okx/websocket.rs`, `okx/websocket/private.rs`, `.../runtime_event.rs`) | connection, pending subscriptions, back-off, hint caches, event channel | connect, log in, subscribe, keep alive, receive, evict, report, reconnect | run concurrently with everything; rows repeat and arrive late |
| Level-2 book (`crates/okx-market-model`, `crates/okx-public-protocol`) | levels, sequence, epoch, generation, rolling window; a replay book | snapshot, update, invalidate, trim; coalesced delivery | gaps, repetition, reconnects |
| Candle feed (`okx/client.rs`, `okx/websocket.rs`, `.../signal.rs`) | candle hints, a kept REST answer, the last bar fed | merge, feed, evaluate | REST is late and slow, hints expire, the timer is polled first |
| Cancel-All-After (`app/cancel_all_after_heartbeat.rs`, `app/live.rs`) | the switch at OKX, the heartbeat task | arm, refresh, report a failure, stop, disarm | real time; requests dropped on their way may still arrive |
| Order commands (`okx/trading_client.rs`, `okx/websocket/{trading,trading_session}.rs`, `okx/client.rs`) | a WebSocket command session, the tracker of acknowledged ids | place, amend, cancel; fall back to REST; reconcile a failed call | ambiguous acknowledgements, dropped calls |
| REST client (`okx/client.rs`) | rate-limit windows and cooldowns, the server-time snapshot | reserve a slot, synchronize, sign, refresh | shared by concurrent tasks |
| Trading authority (`app/okx_startup_preflight.rs`, `okx/{capability,trading_instrument,client}.rs`, `app/live.rs`) | account level, capability generations, remembered rows, latches | preflight, observe the account, check hints and price limits, latch, revoke | OKX changes between any two calls |
| Demo programs (`okx/demo_*`) | own order ids, a balance baseline, the dead-man timer | place, observe, amend, sell, clean up, disarm | lost answers, late placements, the operator's own funds |
| Configuration, instruments, protocol parsing | none that changes | validation, decimals | stateless |

The engine calls the strategies; the strategies call the client; streams send events and health
reports through channels to the engine; the heartbeat and the server-time refresher report failures
through channels of their own. The heartbeat shares nothing with the loop but the exchange.

What makes each part correct: a strategy never has an open position without protection, never
loses sight of a live order, never has two orders for one purpose, and shuts down leaving nothing
behind that it does not report. The engine lets no strategy act on a stale picture after a stream
had a gap, and reconciles every gap it has heard of. A stream never changes its state without a report,
loses nothing critical without ending its run, and comes back. A valid book is a book OKX
published. The signal gets every bar once, in order. The switch stays armed as long as the
runtime is healthy and is disarmed only by a clean shutdown. A call makes at most one order, and its
Ok is true. Limits and cooldowns are kept by all tasks together. No order goes out on evidence that
was contradicted or is too old, while cancels always can.

## Modules

| Module | Models |
|---|---|
| `SpotExchange` | OKX as one strategy sees it (external): orders, fills, cancels, triggers, frozen balance |
| `Strategy`, `StrategyProps` | one runner: its handlers as lists of steps, one exchange call per step; its properties |
| `StreamLife` | abstract: what a stream promises the engine |
| `StreamSession` | one public or private stream task in detail |
| `DispatchGate` | all streams seen from the engine, health channel, tracker, gate, deferred candles, dispatch, failure counting |
| `DeadMan` | startup, heartbeat, loop, shutdown and death of the runtime around the switch, with discrete time |
| `Level2Book` | what OKX publishes, the book of the stream, the watch channel, the replay book |
| `CandleFeed` | candle hints, REST answers, their merge, the feed of the signal, with discrete time |
| `OrderCommands` | the calls that change orders: command session, REST fallback, reconciliation |
| `RestClient` | pacer, server-time clock and refresher, with discrete time |
| `TradingAuthority` | preflight, generations, account observation, hints, latches, price limits |
| `DemoPrograms` | nine of the programs that exercise the order path against the demo service |
| `MarketDataProofs` | the proofs about `Level2Book` and `CandleFeed` |
| `CancelAllAfterProofs` | the proofs about `DeadMan` and about `DemoPrograms`, whose programs rely on the switch |
| `StrategyProofs`, `DispatchGateProofs`, `StreamSessionProofs`, `OrderCommandsProofs`, `RestClientProofs`, `TradingAuthorityProofs` | the proofs about the module of that name |
| `MC...` | values for TLC |

How they compose: `StreamSession` implements `StreamLife` (refinement by `Life`, `KeepsPromise`), and
the streams of `DispatchGate` take the steps of `StreamLife` by construction, so the guarantees of the
gate rest on what the detailed stream was shown to do. `CandleFeed` takes from `DispatchGate` that a
candle is deferred while the gate is closed; `DispatchGate` takes up the failed refreshes that
`RestClient` reports. `Strategy` takes the outcome of a call from what `OrderCommands` allows, with the
exceptions under "Known defects".

Two modules whose proofs share a file are extended by it together, which is why the initial states
and steps of `CandleFeed` and `DemoPrograms` are called `FeedInit`, `FeedNext`, `DemoInit`,
`DemoNext` and so on.

Operators whose comment starts with "Bug" or "Mutant" are wrong versions of the definition that
follows them, as a plausible bug would have it. Each property of a run was shown to fail when the
definition is replaced by one of them; `PROJECT.json` lists the pairs.

### Strategy

A handler of the runner is an async function; its awaits are the only points where anything
else can happen. `handler` is the one that runs, `todo` the steps left of it, and a step is the
stretch from one exchange call to the next. `st` is the runner's `ExchangeState`; `loc` and `rec`
are locals that live across an await. Early returns that make no call are skipped together with
the step before (`NoCall`, `Advance`). Between two steps `Fill`, `Canceled` and `Trigger` move the
exchange.

Each step that mutates the exchange has, next to its answer, an outcome in which OKX did it and
the runner does not know (`Unanswered`); `Abort` is the outcome in which nothing happened. Which of
them a run allows is the constant `Faults`: `error` (the call fails without effect), `timeout` (the
engine drops the handler and then runs `reconcile_after_interrupted_tick`), `lost` (the call took
effect but its answer and its reconciling lookup both failed), `lag` (the algo history does not yet
list a closed algo). An error is followed by a retry or, since the failure counter is abstracted
here, by the end of the runtime; from there `Restart` starts a process that knows nothing.

Abstracted: a quantity is a number of lots; prices are not represented, so a ticker may be found
on either side of the trigger and the signal may say yes or no at any time; the price of a
protection order is identified by the ATR it was computed from (`shape`), since that is what
`take_profit_order_matches_position` and `stop_loss_order_matches_position` compare; fees are zero.

### StreamLife, StreamSession, DispatchGate

`StreamLife` has the connection (`down`, `up`, `dead`) and the report under way. `StreamSession`
details it: connecting, login, pending subscriptions, idle pings, rows that are parsed, refused,
ignored because they are older than the cached hint, cached with eviction, and sent to the engine
over a bounded channel with a timeout; every failure ends the run, is reported, and is followed
by the back-off. A hint is a key, a timestamp and a confirm flag. `owed` and `told` are history: what the
cache has seen and the engine must hear of, and the bars it has heard of.

In `DispatchGate`, `outbox` is the report a stream is waiting to deliver. `Deliver` and `GiveUp` are
the two ends of `report_critical` and `report_best_effort`. The thirteen event kinds of the code are
grouped into the five the tracker and the engine tell apart. The engine is a phase (`startup`, in
`select!`, draining the health channel, in a dispatch, gone) and a job: which strategies of the
dispatch are left. The arms of the biased `select!` keep their order: `ahead` holds what is ready in
those polled before the health channel (a server-time failure or private event, the timer). A
dispatch may take longer than the poll, which `config/validation.rs:71` even asks for, so `Arrives` can make
these arms ready again whenever one ends, and the arms behind them wait. History: `missed` holds the strategies that have not read the exchange over REST
since a stream last had a gap; `dropped` says that a critical report was given up.

### DeadMan

`phase` is where `TradingEngine::run` is, `switch` and `left` are the exchange's, `heartbeat`,
`since` and `landed` the heartbeat task's. `Tick` advances time by one unit but never past a
deadline: the heartbeat's period and refresh deadline (late by `Lag` at most), the end of a
dispatch (`Budget`, up to the whole window as `config/validation.rs:158` admits; the shipped poll of
2 s and timeout of 5 s give both 10 s), the acknowledgement of the arming (`ArmLag`). With `LateRequests` a request
whose caller was dropped may take effect at any later time.

### Level2Book

OKX publishes books 1, 2, ...; whatever it ever sent may arrive at any time, again or never, and
some messages are defective. `InOrder`, `OutOfOrder` and `Defective` are the arrivals; `Accept`
and `Refuse` what `apply_level2` does with them; a refusal ends the stream, `InvalidateForReconnect`
and `Reconnect` follow. `Take` is the engine reading the watch channel. The replay book listens
to what was accepted. An update lists the changed prices; OKX may leave out the levels that fell
out of its depth (`tell`), which `trim_to_depth` must then remove.

### CandleFeed

Bar `k` opens at `k * Period`. The stream announces each newly confirmed bar and caches hints that
expire; REST answers with the newest `Limit` bars as of any moment of the call or up to `Lag` before
it, and the answer is kept for `MaxStale` from its arrival. A timer or candle dispatch merges both and
feeds the bars newer than `last_bar_ts_ms`. Both then refresh their orders and see to the exit
protection over REST (`orders`), whether the candles were cached or not, and a candle dispatch goes
on to evaluate an entry (`entry`). All of a handler together takes `TickTimeout` at most; after a
timeout the engine awaits a reconciliation as long again. The other strategies of a timer dispatch,
before and after this one, and dispatches that read no candles take any time. The timer is polled
before the candle arm and missed ticks are skipped, as in the biased `select!`.

### OrderCommands

A call goes through the places of `pc`: session, command, acknowledgement, REST request,
reconciling lookup. `wire` holds requests under way, over either transport, also those whose caller
was dropped or gave up; `Execute` and `Lost` end them. Acknowledgements arrive in `inbox` and are
matched by request id, with a bounded tracker against repetition. A session on which anything went
wrong is closed; `soiled` remembers it.

### RestClient

Ages stand for `Instant`s. `requests` is the pacer's window per bucket; a task that finds no room
sleeps (`nap`) and tries again. `snapshot` is the server-time snapshot, kept as its error against
the true time; `WallClockStep` steps the local wall clock. `sync` is a refresh under way: it begins
when `refresh_server_time` reads the local time (client.rs:3463), which is before `public_get` waits
for its slot (client.rs:3159), so the midpoint is taken over that wait and the round trip, while OKX
reads its clock during the round trip. `recent`, `limited`, `stepAge` and the `span` of a snapshot,
how long its refresh took, are history.

### TradingAuthority

A `job` is what the engine is awaiting: a step of the preflight, a refresh, an order. `Serve` is
OKX's answer, true at that moment, absent, stale, or contradictory; `AccountChanges` and
`MetadataChanges` happen between any two calls. Orders with a price reserve a rate-limit slot
before hint and price limit are checked; others are checked before.

### DemoPrograms

The programs share their placements, lookups and cleanup loops, and each is a sequence of these
stages (`run.pc`). OKX may lose any answer and may carry out a placement later, until the expiry
the request carries; the operator may deposit base meanwhile.

## Runs

| Run | Bounds | Shows |
|---|---|---|
| `StrategyLifecycle` | entries of 1 lot, 2 entries, 2 ATR values, every event, `error`, `timeout`, `lag` | no order is submitted beside one tracked for its purpose, nor an exit beside tracked protection; no live order is forgotten; never two resting orders of one purpose; held base is accounted for; exposure is one entry; what a shutdown that returned Ok may leave |
| `StrategyPartialFills` | one entry of 3 lots, minSz 2; candles, private events and the shutdown; refused calls | a position is protected whenever a handler has returned Ok, and exits are alone, while orders fill in parts and leave dust |
| `StrategyLiveness` | fair, 2 entries of 1 lot, no faults | fills come to be protected; a stop-loss exit completes although OKX may cancel its market order |
| `Gate` | fair, 2 streams, 2 strategies, channel of 1, limit 3, 1 fault | no action through an open gate before a gap is reconciled, dropped reports or not; open means subscribed; a gap whose reports are out of the way is reconciled, by the timer alone; deferred candles run if dispatches breathe |
| `Switch` | fair, window 15, dispatches up to 15, 2 strategies, other delays 1, late requests | the switch is held; only a dispatch of at least `Margin` outlives it; exits fail closed; a switch left armed fires |
| `Level2` | fair, 3 books published of 3, 5 prices, depth 2, 2 faults | a valid book and a trusted replay book are published books; the engine never goes backwards; the book recovers |
| `Stream` | fair, public or private, 3 instruments and bars, caches of 2, channel of 1, 2 timestamps, 2 faults | nothing critical is lost silently; hints never step back; `StreamLife` is implemented; the stream recovers |
| `Orders` | 2 regular, 1 trigger, 1 OCO id, 2 terms, 2 calls, 3 faults, tracker of 1 | a call makes at most one order; Ok is true; a cancelled order stays so |
| `Rest` | 2 clients and the refresher, 1 slot per window, a refresh waits 3 for its slot at most, 1 fault | limit per window and cooldown are kept under concurrency; a request is signed with a time that is off by half of what the refresh took |
| `Authority` | 1 instrument, 2 levels, 2 versions of terms, 3 price bands, 2 changes, 1 fault | cancels stay possible; a contradiction is final; prices respect a current limit |
| `Candles` | bars of 4, tick timeout 2, hints live 1, REST late by 1, 1 outage, 1 failed call or timeout | every bar is fed once and in order; a refresh feeds every bar closed long enough before; an entry sees its bar unless a slow answer hid it |
| `Demo` | all programs, lots of 2, 3 and 4 attempts, 1 deposit | nothing rests unguarded; success means clean |

The modules state more than the runs name: each `TypeOK`, and `HeartbeatFailureExits`
(`DeadMan`), `BookOfThisSession`, `OneEpochPoints`, `EventsAddUp` (`Level2Book`), `ConfirmedOnce`,
`ConfiguredStay`, `BackoffSchedule` (`StreamSession`), `NoSoiledSession`, `CallsReturn`
(`OrderCommands`), `EveryoneServed` (`RestClient`), `OneLevel`, `SnapshotsAgree`,
`ChangeIsNoticed`, `PreflightEnds` (`TradingAuthority`), `SellsOnlyItsOwn`, `BaselineKept`, `ProgramEnds`, `NothingRests` (`DemoPrograms`).
They hold on the instance of the module's run under its fair specification; to check one, add its
name to the configuration. They are left out to keep the configurations to the properties whose
failure would cost most. Of these `SellsOnlyItsOwn`, `BaselineKept`, `NoSoiledSession`, `OneLevel` and `ConfiguredStay` are proved as well (below).

Why the bounds are enough: two orders per purpose are one more than the code ever intends, so a
duplicate has room to appear; two entries give a second round on what a first one left behind; two
ATR values are a changed and an unchanged price; three lots with a minimum of two make an order partially filled and
its remainder dust. Two
strategies make a dispatch fail in part; two streams make one ready while the other is not; a
channel of one event is always nearly full. The window of 15 gives a period of 5, so every order of
sending, landing and expiring within and between periods occurs. Three books give a gap, a
repetition and an old update; depth 2 of 5 prices pushes levels out and brings them back. Three keys
in a cache of two evict. Two calls with three faults give a command that times out, its REST
fallback that fails, and a second call that meets the late effects of the first. One slot per
window is always contended; a refresh that waits as long as its round trip, and longer, shows what the
wait does to the midpoint. A hint that lives for 1 while a call may take 2 can expire with the answer
still under way. Two changes are a change and its reversal. Four bars with an outage
give a bar seen only by the stream, one seen only by REST, and one seen by neither in time. The
exchange moves at every point of every handler, the reads of a reconstruction included. What is
proved (below) does not depend on the bounds.

Deadlock is not checked where the bounds end the run (the programs end; calls, books and time
are bounded).

## Known defects

TLC refutes these intents, which the code states in its own error texts and docs or hopes for
silently. They are not properties of any run; setting the constants of a run as shown, or stating the
formula instead of the property it is derived from, reproduces each counterexample.

| Statement | Reproduce with | What happens |
|---|---|---|
| `FlatShutdownHoldsNothing` (`shutdown.rs:122` "final state is ambiguous") | `StrategyLifecycle` constants, `MaxEntries = 1`, `MaxAtr = 0`, `Events = {"candle", "shutdown"}`, `Faults = {}` | the entry fills between its refresh and the check that it is closed (`shutdown.rs:43`); shutdown succeeds with unprotected base |
| `OperatorInventoryUntouched` (`inventory.rs:25` "refusing to consume operator-owned inventory") | the same with `Baseline = 1`, `Events = {"candle", "private"}` | take-profit and stop-loss both sell (`okx_ema_atr_maker_trend.rs:435`); the second sells base of the operator |
| `OneLivePerPurpose` (`strategy_tick_execution.rs:172` "Reconcile through REST before allowing a later tick ...") | the same with `MaxEntries = 2`, `Events = {"candle"}`, `Faults = {"lost"}` | a submission whose answer and reconciling lookup both failed (`client.rs:2888`) is only counted as an error and repeated: two live entries |
| `FlatHasNoStop` (`okx_ema_atr_maker_trend.rs:552` calls it an error) | the same with `MaxEntries = 1`, `Events = {"candle", "private"}`, `Faults = {}` | `evaluate_stop_loss` (line 1881) finds the take-profit filled and leaves the stop-loss algo without a position |
| `phase = "busy" => switch = "armed"` (`config/validation.rs:160` "exceeds the OKX Cancel-All-After safety window") | `Switch`, or it with `T = 9`, `N = 1`, `Lag = 0`, `Budget = 9` | a dispatch as long as the validation admits outlives the switch when the heartbeat fails during it |
| `EntrySeesItsBar` without `TooSlowFor` (`okx_ema_atr_maker_trend.rs:269` "without a newly delivered confirmed-candle event") | `Candles` as it is | OKX reads the rows before the bar closes, the answer comes after the bar's hint has expired (`client.rs:519`): the dispatch of that candle evaluates an entry without it. The timeout of a call is 5 s, a hint lives for 1 s in `config/example.toml` and 3 s by default |
| `DeferredCandleRuns` without `Breathes`, and that every gap is reconciled (`missed # {} ~> missed = {} \/ dropped \/ ~AllUp \/ phase = "exited"`) | `Gate`; the second with 1 stream, `N = 1`, `Capacity = 3`, `MaxStrikes = 2` | dispatches that outlast `poll_interval_ms` (`config/validation.rs:71` asks for a timeout that long) leave the timer ready whenever one ends; the biased `select!` (`live.rs:378`) then never polls the health channel, the deferred or the public candles: a report of a lost stream is not read and the gate stays open |
| `SignedInTime` with the round trip for `span` | `Rest` as it is | the local time is read before the wait for a slot (`client.rs:3463`, `3159`), so half of that wait, up to a window or a cooldown, is added to the error of every signature until the next refresh |

The third needs an unlucky network, the fifth to seventh slow calls, the eighth a contended limit, the
others only an unlucky order of events.

The bounds and conditions of the passing runs matter in these places.

| Property | Change | What happens |
|---|---|---|
| `HeldIsAccounted` | `EntrySize = 2` | the take-profit of a partial entry fills first; `clear_position_state` forgets the entry and its later fills |
| `ShutdownLeavesNoEntry` | `EntrySize = 2` | the same in a shutdown, while the entry's cancel is pending: shutdown succeeds with it live |
| `NoOrphans` | `EntrySize = 4`, `MinSize = 2` | the take-profit leaves less than minSz, which counts as no position; the live entry is forgotten |
| `NoOrphans` | `EntrySize = MinSize = 2` | a failed take-profit cancel is only logged, then the state is cleared with it live |
| `BoundedExposure` | `EntrySize = 3`, `MinSize = 2`, 2 entries | a new entry beside a forgotten one whose cancel is pending |
| `SwitchHeld` | `ArmLag = T` | the first arming is acknowledged after its own window: the heartbeat starts with a fired switch |
| `OpenGateMeansUp`, `DeferredCandleRuns` | without `~dropped` | a critical report that found no room is dropped; the gate is wrong, or stays closed, until the stream reconnects |
| `CanceledStays` | without the condition on placements under way | a cancel that OKX answers with "unknown order" counts as success; the placement that is still under way makes the order live afterwards |
| `NoBarSkipped` | `excused` ignored | after an outage of about two bars the three bars asked for do not reach back to the last one fed; the missing bars are skipped silently |
| `NoBarSkipped` | `MaxStale + Lag + TickTimeout > Period`, as with `MaxStale = 2` and the assumption dropped | a bar can be fed behind a newer one; the shipped values satisfy the assumption, validation does not enforce it |
| `SignedInTime` | without `stepAge` | a step of the wall clock is noticed only when the snapshot is renewed |
| `RestingIsGuarded`, `NothingRests` for `oco` | exclusion dropped | the timer is armed once for four scenarios and may have fired when the later ones trade |
| `RestingIsGuarded`, `NothingRests` for `fill` | exclusion dropped | with the buy under way, a failed lookup and a failed balance read the program disarms, and the order may arrive afterwards |

Also in the models, and forbidden by no property: a fill between the reads of a reconstruction is
counted twice until the balance is looked at again; a refresh dropped by `stop()` may arm the switch
again after a clean shutdown; a Ctrl-C during a dispatch is seen by nobody, since `ctrl_c()` is made
anew by every `select!`; a limit order that may have left over the WebSocket, and whose REST fallback
is refused before it is sent, returns an error without a reconciling lookup; an ambiguous OCO sale
followed by the cleanup's can sell twice; a slow second refresh can let the server-time snapshot
expire for a moment, which the order path covers by synchronizing itself; the pacer spaces
reservations, not arrivals at OKX; the account observation is looked at between dispatches only; the
hint check of a market order precedes its wait for a slot.

## Fairness

- Strategy: tokio drives a handler to its next call (WF of the steps); the timer and candles never
  cease (WF of dispatch); a cancel that was accepted takes effect or the order closes (WF); a market
  exit that is placed again and again is executed at some time (SF). OKX owes no other fill.
- DispatchGate: every call is bounded by a timeout, so a dispatch ends (WF); streams retry for ever
  (WF of attempts, not of their success); the loop polls (WF of every arm). No arm has strong
  fairness: those behind the timer may starve, since nothing bounds a dispatch below the poll.
  `GapsGetReconciled` holds all the same, from the moment the reports were read, because the timer
  reconciles too. `DeferredCandleRuns` has a premise, `Breathes`: again and again a dispatch ends
  before the timer is due and a private event has arrived.
- DeadMan: time passes, tasks run, each call ends. No fairness of landing requests.
- StreamSession: OKX answers, the engine drains its channels, timers fire (WF); an
  acknowledgement comes over the same socket as the data before it, so its turn comes (SF).
  Failures are bounded by `MaxFaults`.
- Level2Book: the stream task goes on and OKX delivers on a subscribed connection (WF).
- OrderCommands: every wait of a call has a timeout (WF of the call's own steps; none of OKX).
- RestClient: time passes, tasks run, requests are answered or time out (WF).
- TradingAuthority: calls are answered or time out, the observer's timer fires (WF); nothing makes a
  strategy act.
- CandleFeed: none; it has no liveness property, since its candle may starve as above.
- DemoPrograms: programs run, OKX's timer and a placement's expiry run out (WF).

## Proofs

TLAPS proves, for every value of the constants that the named ASSUMEs of the modules admit, the
theorems below. The assumptions say that the constants are the numbers, sets and subsets their
comments call them (`SizeAssumption`, `EventsAssumption` and `FaultsAssumption` of `Strategy`,
`KeysAssumption` of `StreamSession`, `BooksAssumption` of `Level2Book` and so on); TLC evaluates them
in every run. The conditions on timing are hypotheses of the theorems that need them.

Strategy:

- `PositionsAreProtected`: `Spec => []ProtectedWhenIdle`, for all sizes, minima, events and faults,
  partial fills and dust included. Nothing in one state says why the property holds: the position
  may be exposed for many steps of a handler. `StepsInv` is therefore about `todo`, the list of what
  the handler still has to do: `Guarded` says that `ensure_stop_loss_order` is in it with nothing but
  the evaluation of an entry behind, or that the position is covered already, or that the algo that
  does not fit is about to be cancelled. The lemmas follow a list through what a step can do to it:
  lose its head, get steps pushed in front, have the calls that are not needed skipped.
- `SubmissionsAreAlone`: `Spec => SubmitsAlone`, from the other half of `StepsInv`. `SellsFirst`: a
  market exit is the next step or behind the read of the balance that sizes it, and while it is
  there no protection and no exit is tracked, although whether it may be sent was decided calls
  before. The remaining submissions are covered by the early return of the step that makes them.

Streams and market data:

- `NothingIsLostSilently` (`Spec => []NothingLostSilently`), `HintsNeverStepBack`,
  `ConfiguredInstrumentsStay`: for any set of keys, timestamps, capacities and faults. `CacheInv`
  says that a cache has one hint per key, `OwedInv` that what the engine must still hear of is
  among the events being sent, whose failure ends the run.
- `BooksAreTrue` (`Spec => []TrustedBooksAreTrue`) and `EngineNeverGoesBack`: `BookInv` says that a
  valid book of the stream is the one OKX published under its sequence id, and that a trusted replay
  book equals it; `WatchInv` orders the counters along the path to the engine, and says why a valid
  book cannot hide behind an older report. OKX leaves out of an update the removals that the depth implies;
  the lemma `TrimRestores` shows that `trim_to_depth` makes up for exactly those. `BooksAssumption` (a
  published book fits the depth and is not crossed, a corrupt one does not pass the check) is needed
  there.

Candle feed:

- `BarsAreFedInOrder` (`FeedSpec => []NoBarSkipped`), `EntriesSeeTheirBar`
  (`FeedSpec => []EntrySeesItsBar`), `RefreshesFeedBarsOnTime` (`FeedSpec => BarsOnTime`): for any length
  of bar, lateness, retention, timeout and number of outages and failures, as long as the age of a kept
  answer, the lateness of REST and the tick timeout together fit in a bar (`FeedAssumption`; 1 or 3 s and
  5 s against bars of a minute). A hint may expire during a call. Whether a bar is skipped depends on what three
  sources knew, each at its own moment. `FeedInv` says what each can know: a hint is of the bar
  that was open when it was cached, or of one that was closed at that moment, and there is one per
  bar (`HintsInv`); the kept answer has the rows of a moment at most `Lag + TickTimeout` before it was kept
  (`KeptInv`); the last bar fed is not behind the newest one that was closed
  `MaxStale + Lag + TickTimeout` before the last refresh (`LastInv`); what was fed is an interval (`FedInv`). The central lemmas are about
  the merge: its rows, newest `Limit` first, reach back without a hole to the bar after the last one
  fed, unless the refreshes were too far apart.
  `AnnouncedInv` follows an announcement through the deferral and the dispatch: while it is young its
  confirmed hint is cached, and an answer kept in that time has been fed together with that hint; an
  answer kept later either has its bar or was under way from before the bar closed (`TooSlowFor`).
- `FeedTypes` (`FeedSpec => []FeedTypeOK`).

Engine and streams:

- `GateTypes`: `Spec => []TypeOK`, which includes that no strategy of a running engine has reached
  the failure limit.
- `GateIsSafe`: `Spec => []GapsReachTheGate`, for any set of streams, number of strategies, channel
  capacity and number of faults. The property is not inductive: it speaks of the moment when all
  reports are out of the way, and a gap is on its way for many steps. `GateInv` says where it is:
  a strategy with a missed gap is explained by a report still in an outbox or in the channel, a
  stream that is not ready, a reconcile request, a dispatch of reconciliations that has not
  reached it, or a failure the dispatch will turn into a new request. The drop of a report
  is harmless because the reports that precede every new subscription make the stream unready,
  and the tracker needs an acknowledgement to make it ready again.
- `OpenGateIsUp`: `Spec => []OpenGateMeansUp`. `TrackerInv` says that, while no critical report was
  dropped, a stream that is ready but not up has its loss in its outbox or in the channel, with
  no acknowledgement after it.
- `StreamImplementsLife` (`Spec => KeepsPromise`): the detailed stream implements `StreamLife`. It
  needs `SendingInv`: events wait to be sent only while no report is under way, so that a full channel
  can be reported as a failure.

The switch:

- `DeadManTypes`, and `ExitsFailClosed`: `Spec => []FailClosed` with no assumption on timing.
  `ControlInv` ties the phase to what the heartbeat and the switch can be.
- `HeartbeatHoldsSwitch`: `Spec => []SwitchHeld` under `RefreshInTime`,
  `ArmLag + 2 * (Period + Lag) < T`. `TimeInv` bounds the age of the last refresh by the time since
  the last interval tick, plus a whole period while the refresh sent at that tick is on its way.
- `DispatchesBeginUnderTheSwitch`: `Spec => []OnlyLongDispatchesOutliveSwitch`, under `RefreshInTime`
  and for every `Budget`: a dispatch that the switch does not outlive has taken at least
  `Margin`, the window less the left side of `RefreshInTime`. The biased `select!` never begins one
  with a failure pending, and `BusyInv` bounds what can have passed of the window by then. A check of
  the configuration that asked for `Budget < Margin` would suffice; the one in `config/validation.rs`
  asks for `Budget <= T` (Known defects).

Demo programs:

- `RestingOrdersAreGuarded` (`DemoSpec => []RestingIsGuarded`) and `SuccessIsClean`
  (`DemoSpec => []OkIsClean`): for all lots, fees, numbers of attempts and deposits, as long as a
  placement expires before the cleanup's attempts run out and a fee is less than a lot
  (`DemoAssumption`). The first is not about `fill` and `oco`, which break it (Known defects); the second is about all programs. `DemoInv` consists of
  the places each program can be at (`PlaceInv`); the balance, which is what the
  operator deposited plus what was bought minus what was sold (`BalanceInv`); what a program knows of
  its entry order although answers were lost (`EntryInv`: in the probe's cleanup, what is left of
  the placement's life plus the attempts made is at most its lifetime, so that the last attempt sees
  it gone); the timer (`GuardInv`); what holds as long as nothing failed (`FineInv`), place by
  place; and what holds once a program has reported success (`DoneInv`). The world's steps are
  treated once for all places: what is settled stays settled, what rests fills or goes, and what is
  under way arrives or lapses.
- `HoldingsAreKept` (`DemoSpec => []BaselineKept`) and `SalesAreOfItsOwn`
  (`DemoSpec => []SellsOnlyItsOwn`): `SaleInv` says that the amount a program is about to sell, weighed
  some calls earlier, is still no more than there is, or, for the probe, than it bought: no fill of its
  own takes any away, and a deposit only adds.
- `DemoTypesHold` (`DemoSpec => []DemoTypeOK`).

Orders, REST and authority:

- `SessionsAreClean`: `Spec => []NoSoiledSession`, which is why a late acknowledgement of a failed
  command cannot be taken for that of the next. `SessionInv`: connections are numbered, and only
  earlier ones, or the one just closed, are soiled.
- `CallsOwnOneOrder`: `Spec => []OneOrderPerCall`. `OwnershipInv`: all requests under way and the
  order of one call carry one client id, and those of the call at hand carry its id; a retry that
  made a new id would break it. `CallInv` supplies the numbering of calls.
- `CanceledOrdersStay` (`Spec => []CanceledStays`) and `OkMeansDone` (`Spec => []OkIsTrue`), for any
  number of calls, faults and lost connections. `RightInv`: a good acknowledgement
  or REST answer to the call at hand, however late it is read, is about something OKX carried out
  (`AckInv`, `ReplyInv`); every request of the call that is still under way asks for what the call
  asks for (`PathInv`); no placement of a settled id is under way or about to be (`SettledInv`). What
  was carried out is never taken back, so the answer is still right when the call returns.
- `RequestsArePaced`, `CooldownsAreKept`, `RequestsAreSignedInTime`: for any number of
  clients, windows and limits. `PaceInv`: what the pacer still counts is what happened within the last
  window. `CoolInv`: a cooldown and the time since the last 429 add up to the whole cooldown. `ClockInv`:
  a snapshot that may still be used is off by half of what its refresh took at most, the wait for a slot
  included, or was taken around a step of the wall clock (`HalfARefresh`, `ClockReset`).
- `LevelsAgree` (`Spec => []OneLevel`) and `CancelsAreRouted` (`Spec => []CancelPossible`).
  `AuthorityInv` = `JobInv /\ LevelInv`: which jobs a phase has, that nothing is validated before the
  level is known, and that a running engine has every generation.
- `ContradictionsAreFinal` (`Spec => []ContradictionIsFinal`) and `PricesAreCurrent`
  (`Spec => []PriceIsCurrent`): `OrderInv`: once the hint of an order is checked, the latch of its
  instrument stays open until the order ends; at its last call an order with a price lies within a
  limit no older than when it was accepted plus the wait since.

The proofs of safety do not use fairness. TLC checks the two timing conditions' consequences only
for the values of the runs.

Only model-checked:

- All liveness, which is out of the prover's reach, as are properties that use ENABLED and what a
  recursive definition computes for every input. `BackoffSchedule` of `StreamSession` is of that
  kind: the delay is a power of two.
- `NoOrphans`, `OneLivePerPurpose`, `HeldIsAccounted`, `BoundedExposure`, `ShutdownIsClean` and
  `ExitAlone` of `Strategy`. They have no general theorem because they are not true in general: each
  holds for the sizes and faults of its run. Known defects lists constants that refute the first
  four; `ShutdownIsClean` fails with entries of two lots, it and `ExitAlone` with `lost` calls.
  What is left of them for all constants is `SubmitsAlone`: the runner never doubles what it tracks,
  it can only double what it has lost track of.
- `ConfirmedOnce` of `StreamSession`: an action property about every bar ever told, which needs
  an invariant that ties that history to two caches with eviction.

## Not modelled, and why

- Decimal and float arithmetic, the EMA/ATR signal, the Level-2 features, order-id encoding: pure
  functions whose values the control does not depend on beyond a yes or no.
- Parsing (apart from what makes a message refused), signing, query strings, logging, latency metrics,
  the table of rate-limit rules, selection of zero-fee pairs, loading of the configuration.
- The economics preflight: a one-shot measuring command.
- `demo_private_stream_soak.rs` and the harness of the demo smoke tests.
- Several strategies on one account are independent except for the balance, and each has an
  instrument of its own (validation refuses two on one); the strategy model has one.
- In `Strategy` a call dropped by a timeout takes effect at once or never; its later effects are
  the subject of `OrderCommands`. OKX's cancel is synchronous there, asynchronous in `SpotExchange`.
- The preflight has no stream hints yet, so `TradingAuthority` has none in that phase.
- The programs of `DemoPrograms` are assumed to place within the ten seconds of the timer they armed,
  and a placement expires (2 s) before the cleanup's attempts (20 times 250 ms) run out.

## Plan

1. Proofs: `OneLivePerPurpose` of `Strategy` under `"lost" \notin Faults` and orders that fill at once;
   `ConfirmedOnce` of `StreamSession`.
2. Composition: the outcome of a call in `Strategy` as a refinement of `OrderCommands`, so that late
   effects reach the reconciliation; the outcome of a dispatch in `DispatchGate` refined by `Strategy`.
3. Two strategies that share a quote balance.
