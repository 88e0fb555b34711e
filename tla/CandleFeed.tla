----------------------------- MODULE CandleFeed -----------------------------
(***************************************************************************)
(* How the candles of one instrument reach its strategy's signal.  The     *)
(* public stream caches candle hints and announces each newly confirmed    *)
(* one; REST serves the last Limit candles, a little late; the client      *)
(* merges fresh hints into a REST answer it keeps for a while; the         *)
(* strategy feeds every confirmed bar newer than the last one to its       *)
(* signal, on the reconciliation timer and on each announced candle, and   *)
(* evaluates an entry on the latter only.  The engine runs one dispatch at *)
(* a time.  It polls the timer before the announced candle, skips the      *)
(* timer's missed ticks, and is taken up by other strategies and by other  *)
(* kinds of dispatch, which read no candles, for as long as they run.      *)
(*                                                                         *)
(* Bar k opens at k * Period and closes at (k + 1) * Period.  Time passes  *)
(* while the engine awaits a call and while it has nothing to do.          *)
(***************************************************************************)
EXTENDS Integers, FiniteSets, FiniteSetsExt

CONSTANTS
  Period,      \* length of a bar
  Poll,        \* poll_interval_ms
  MaxStale,    \* max_staleness_ms
  Lag,         \* how far a REST answer may trail the stream
  TickTimeout, \* tick_timeout_ms: the longest a strategy's handler runs
  Limit,       \* bars the strategy asks for
  Start,       \* the moment the strategy is initialized
  MaxTime, MaxOutages, MaxFailures   \* bounds

\* The shipped values: bars of a minute, a tick timeout of five seconds, hints
\* and kept answers used for one second (three by default), three candles asked
\* for.  Configuration does not enforce that they fit in a bar.
ASSUME FeedAssumption ==
  /\ {Period, Poll, MaxStale, Lag, TickTimeout, Limit, Start, MaxTime, MaxOutages, MaxFailures} \subseteq Nat
  /\ Period > 0 /\ Poll > 0 /\ MaxStale + Lag + TickTimeout <= Period
  /\ Limit >= 3 /\ Start >= 3 * Period /\ MaxTime >= Start

VARIABLES
  now,
  stream,      \* "up" or "down": the public stream and with it the gate
  hints,       \* cached candle hints: {[ts, confirm, at]}
  fallback,    \* the REST answer kept: [asof, at]
  pending,     \* the announced bars not yet dispatched
  timer,       \* when the reconciliation timer ticks next
  job,         \* the dispatch under way: [kind, ts, step, since]
  last,        \* last_bar_ts_ms
  fed,         \* history: the bars fed to the signal
  refreshed,   \* history: when refresh_bars last completed
  excused,     \* history: two refreshes were too far apart
  outages, failures

feedVars == <<now, stream, hints, fallback, pending, timer, job, last, fed, refreshed, excused,
          outages, failures>>

----------------------------------------------------------------------------
ClosesAt(k) == (k + 1) * Period
ClosedBy(k, t) == ClosesAt(k) <= t
Newest(t) == t \div Period - 1                  \* the newest bar closed by t

\* OKX's last n candles at a moment, the open one included.
RowsAt(t, n) == {[ts |-> k, confirm |-> ClosedBy(k, t)] : k \in (t \div Period - n + 1)..(t \div Period)}

NoRest == [asof |-> -1, at |-> -1]
NoJob == [kind |-> "none", ts |-> -1, step |-> "none", since |-> -1]

\* fresh_candles and recent_live_candle_rest_fallback
FreshHints == {h \in hints : now - h.at <= MaxStale}

\* Bug: a kept answer is served whatever its age.
FreshForEver(f) == f # NoRest
Fresh(f) == f # NoRest /\ now - f.at <= MaxStale

\* merge_live_candle_hints: a hint replaces the REST row of its bar, and the
\* newest Limit bars remain.
Bare(hs) == {[ts |-> h.ts, confirm |-> h.confirm] : h \in hs}
NewestBars(rows) == {r \in rows : Cardinality({q \in rows : q.ts > r.ts}) < Limit}

\* Bug: the hints are left out.
MergeRestOnly(rows, hs) == NewestBars(rows)
Merge(rows, hs) ==
  NewestBars({r \in rows : \A h \in hs : h.ts # r.ts} \cup Bare(hs))

\* Bug: only the newest confirmed bar is fed.
ToFeedNewest(rows) ==
  LET c == {q.ts : q \in {r \in rows : r.confirm}} IN IF c # {} /\ Max(c) > last THEN {Max(c)} ELSE {}

\* refresh_bars: every confirmed bar newer than the last one is fed, oldest
\* first.
ToFeed(rows) == {r.ts : r \in {q \in rows : q.confirm /\ q.ts > last}}

\* Two completed refreshes this far apart can lose a bar to the limit.
SafeGap == 2 * Period - MaxStale - Lag - TickTimeout

Feed(rows) ==
  /\ fed' = fed \cup ToFeed(rows)
  /\ last' = Max(ToFeed(rows) \cup {last})
  /\ refreshed' = now
  /\ excused' = (excused \/ now - refreshed > SafeGap)

----------------------------------------------------------------------------
\* The warm-up reads confirmed candles over REST, no longer before the loop
\* than a refresh may; the interval's first tick is due at once.
FeedInit ==
  /\ now = Start /\ stream = "up"
  /\ hints = {} /\ fallback = NoRest /\ pending = {}
  /\ timer = Start /\ job = NoJob
  /\ \E asof \in (Start - Lag - TickTimeout)..Start : last = Newest(asof)
  /\ fed = {last} /\ refreshed = Start /\ excused = FALSE
  /\ outages = 0 /\ failures = 0

\* A bar closes: while the stream is up its confirmation is cached and, being
\* new, announced.
Closing(t) == t % Period = 0
Insert(ts, confirm, t) ==
  {h \in hints : h.ts # ts /\ t - h.at <= MaxStale} \cup {[ts |-> ts, confirm |-> confirm, at |-> t]}

TimerReady == job = NoJob /\ now >= timer
EventReady == job = NoJob /\ stream = "up" /\ pending # {}

\* The strategy's handler, and the reconciliation after it timed out, are each
\* given up after TickTimeout; nothing bounds the other strategies together.
InTime == job.step \in {"rest", "orders", "entry", "reconcile"} => now - job.since < TickTimeout

Tick ==
  /\ now < MaxTime /\ ~TimerReady /\ ~EventReady
  /\ InTime
  /\ job.step # "candles"
  /\ now' = now + 1
  /\ IF Closing(now + 1) /\ stream = "up"
     THEN LET k == Newest(now + 1) IN
          /\ hints' = Insert(k, TRUE, now + 1)
          /\ pending' = pending \cup {k}
     ELSE /\ hints' = {h \in hints : now + 1 - h.at <= MaxStale}
          /\ UNCHANGED pending
  /\ UNCHANGED <<stream, fallback, timer, job, last, fed, refreshed, excused, outages, failures>>

\* An update of the open candle.
UpdateCandle ==
  /\ stream = "up" /\ hints' = Insert(now \div Period, FALSE, now)
  /\ UNCHANGED <<now, stream, fallback, pending, timer, job, last, fed, refreshed, excused,
                 outages, failures>>

\* The stream goes down, with what OKX publishes meanwhile, and comes back.
Down ==
  /\ stream = "up" /\ outages < MaxOutages
  /\ stream' = "down" /\ outages' = outages + 1
  /\ UNCHANGED <<now, hints, fallback, pending, timer, job, last, fed, refreshed, excused, failures>>

Up ==
  /\ stream = "down" /\ stream' = "up"
  /\ UNCHANGED <<now, hints, fallback, pending, timer, job, last, fed, refreshed, excused,
                 outages, failures>>

----------------------------------------------------------------------------
\* tokio's interval with MissedTickBehavior::Skip: the next multiple.
NextTick == Start + ((now - Start) \div Poll + 1) * Poll

OtherWork == [kind |-> "other", ts |-> -1, step |-> "others", since |-> -1]

\* The timer's tick: the strategies run one after another; with the gate closed
\* the dispatch is skipped.
OnTimer ==
  /\ TimerReady
  /\ timer' = NextTick
  /\ job' = IF stream = "up" THEN [kind |-> "timer", ts |-> -1, step |-> "ahead", since |-> now] ELSE NoJob
  /\ UNCHANGED <<now, stream, hints, fallback, pending, last, fed, refreshed, excused, outages, failures>>

\* The strategies before this one are done.
TurnComes ==
  /\ job.step = "ahead"
  /\ job' = [kind |-> job.kind, ts |-> job.ts, step |-> "candles", since |-> now]
  /\ UNCHANGED <<now, stream, hints, fallback, pending, timer, last, fed, refreshed, excused,
                 outages, failures>>

\* The oldest bar announced, polled after the timer; its dispatch is this
\* strategy's alone.
OnConfirmedCandle ==
  /\ EventReady /\ ~TimerReady
  /\ \E k \in pending :
       /\ \A j \in pending : k <= j
       /\ job' = [kind |-> "candle", ts |-> k, step |-> "candles", since |-> now]
       /\ pending' = pending \ {k}
  /\ UNCHANGED <<now, stream, hints, fallback, timer, last, fed, refreshed, excused, outages, failures>>

\* Behind the closed gate the newest bar announced replaces the older ones.
DeferNewest ==
  /\ job = NoJob /\ stream = "down"
  /\ \E k \in pending : (\A j \in pending : j <= k) /\ pending # {k} /\ pending' = {k}
  /\ UNCHANGED <<now, stream, hints, fallback, timer, job, last, fed, refreshed, excused, outages, failures>>

\* A private event, or a reconciliation after a report of a stream or of the
\* clock: some of them are polled before the timer.
OnOtherEvent ==
  /\ job = NoJob /\ stream = "up" /\ job' = OtherWork
  /\ UNCHANGED <<now, stream, hints, fallback, pending, timer, last, fed, refreshed, excused,
                 outages, failures>>

OthersEnd ==
  /\ job = OtherWork /\ job' = NoJob
  /\ UNCHANGED <<now, stream, hints, fallback, pending, timer, last, fed, refreshed, excused,
                 outages, failures>>

\* The strategy's handler is over: the timer's dispatch goes on to the
\* strategies after it.
Ended == IF job.kind = "timer" THEN OtherWork ELSE NoJob

\* After refresh_bars, from the cache or not, both handlers refresh their orders
\* and see to the exit protection over REST.
AfterRefresh == [job EXCEPT !.step = "orders"]

\* live_candles: enough fresh hints, or the kept answer with the hints merged
\* in, or REST.
Enough == Cardinality(FreshHints) >= Limit

FromCache ==
  /\ job.step = "candles" /\ (Enough \/ Fresh(fallback))
  /\ Feed(IF Enough THEN Merge({}, FreshHints) ELSE Merge(RowsAt(fallback.asof, Limit), FreshHints))
  /\ job' = AfterRefresh
  /\ UNCHANGED <<now, stream, hints, fallback, pending, timer, outages, failures>>

AskRest ==
  /\ job.step = "candles" /\ ~Enough /\ ~Fresh(fallback)
  /\ job' = [job EXCEPT !.step = "rest"]
  /\ fallback' = NoRest
  /\ UNCHANGED <<now, stream, hints, pending, timer, last, fed, refreshed, excused, outages, failures>>

\* OKX read the rows at any moment of the call; the answer is kept from its
\* arrival.
RestAnswers ==
  /\ job.step = "rest"
  /\ \E asof \in (job.since - Lag)..now :
       /\ fallback' = [asof |-> asof, at |-> now]
       /\ Feed(Merge(RowsAt(asof, Limit), FreshHints))
  /\ job' = AfterRefresh
  /\ UNCHANGED <<now, stream, hints, pending, timer, outages, failures>>

\* A call fails: the handler is over.
CallFails ==
  /\ job.step \in {"rest", "orders"} /\ failures < MaxFailures /\ failures' = failures + 1
  /\ job' = Ended
  /\ UNCHANGED <<now, stream, hints, fallback, pending, timer, last, fed, refreshed, excused, outages>>

\* The handler times out: the engine first reconciles over REST, in bounded
\* time.
TimesOut ==
  /\ job.step \in {"rest", "orders", "entry"} /\ now - job.since = TickTimeout
  /\ failures < MaxFailures /\ failures' = failures + 1
  /\ job' = [kind |-> job.kind, ts |-> job.ts, step |-> "reconcile", since |-> now]
  /\ UNCHANGED <<now, stream, hints, fallback, pending, timer, last, fed, refreshed, excused, outages>>

\* A timer's handler ends with its orders; a candle's goes on to evaluate_entry.
OrdersDone ==
  /\ job.step = "orders"
  /\ job' = IF job.kind = "candle" THEN [job EXCEPT !.step = "entry"] ELSE Ended
  /\ UNCHANGED <<now, stream, hints, fallback, pending, timer, last, fed, refreshed, excused,
                 outages, failures>>

\* The entry is evaluated, or the reconciliation done.
HandlerEnds ==
  /\ job.step \in {"entry", "reconcile"} /\ job' = Ended
  /\ UNCHANGED <<now, stream, hints, fallback, pending, timer, last, fed, refreshed, excused,
                 outages, failures>>

Engine == OnTimer \/ TurnComes \/ OnConfirmedCandle \/ DeferNewest \/ OnOtherEvent \/ OthersEnd
          \/ FromCache \/ AskRest \/ RestAnswers \/ CallFails \/ TimesOut \/ OrdersDone \/ HandlerEnds
FeedNext == Tick \/ UpdateCandle \/ Down \/ Up \/ Engine

FeedSpec == FeedInit /\ [][FeedNext]_feedVars

----------------------------------------------------------------------------
\* Type invariant: one hint per bar, none older than MaxStale; no handler runs
\* longer than TickTimeout.
FeedTypeOK ==
  /\ now \in Start..MaxTime /\ stream \in {"up", "down"}
  /\ \A h \in hints : now - h.at <= MaxStale
  /\ Cardinality({h.ts : h \in hints}) = Cardinality(hints)
  /\ fallback = NoRest \/ fallback.at - fallback.asof <= Lag + TickTimeout
  /\ job.kind \in {"none", "timer", "candle", "other"}
  /\ job.step \in {"none", "ahead", "candles", "rest", "orders", "entry", "reconcile", "others"}
  /\ job.step \in {"rest", "orders", "entry", "reconcile"} => now - job.since <= TickTimeout
  /\ last \in fed /\ excused \in BOOLEAN

\* The signal is fed every bar exactly once and in order, none left out, as
\* long as refreshes are never further apart than SafeGap: no combination of
\* a kept REST answer, late REST rows and fresh hints hides a bar behind a
\* newer one.
NoBarSkipped == ~excused => fed = Min(fed)..last

\* The kept answer was read before bar k closed and came when the bar's hint
\* had expired.
TooSlowFor(k) ==
  fallback # NoRest /\ fallback.asof < ClosesAt(k) /\ fallback.at > ClosesAt(k) + MaxStale

\* An entry is evaluated for an announced candle only after that candle has
\* reached the signal, however long its dispatch was deferred, except on an
\* answer under way from before the bar closed until its hint had expired.
EntrySeesItsBar == job.step = "entry" => last >= job.ts \/ TooSlowFor(job.ts)

\* A completed refresh has fed every bar closed this long before: an answer as
\* old as a hint may be, after a call of the longest kind, late by Lag.
BarsOnTime ==
  [][refreshed' # refreshed \/ last' # last
     => last' >= Newest(now - MaxStale - Lag - TickTimeout)]_feedVars
=============================================================================
