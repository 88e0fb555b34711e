---------------------------- MODULE StreamSession ----------------------------
(***************************************************************************)
(* One WebSocket stream task: run_public_market_stream (okx/websocket.rs)  *)
(* or run_private_stream (okx/websocket/private.rs), its connection, login *)
(* and subscription handshakes, the keepalive, the hint cache it fills,    *)
(* and the runtime events it sends to the engine over a bounded channel    *)
(* (okx/websocket/runtime_event.rs).                                       *)
(*                                                                         *)
(* The books channel takes part in the handshake only: its data is the     *)
(* subject of Level2Book.  A hint is [key, ts, confirm], its payload left  *)
(* out; NoTs stands for a missing source_ts_ms.                            *)
(***************************************************************************)
EXTENDS Integers, Sequences, FiniteSets, SequencesExt

CONSTANTS
    MinBackoff,     \* reconnect_initial_backoff_ms
    MaxBackoff,     \* reconnect_max_backoff_ms
    Limit,          \* hints kept per kind, and bars per candle series
    QueueCapacity,  \* capacity of the runtime event channel
    Configured,     \* instruments with an enabled strategy
    Keys,           \* what the hints of each channel are about
    MaxTs,          \* bound: source timestamps
    MaxFaults       \* bound: failures, defective messages and dead tasks

ASSUME BackoffAssumption == MinBackoff \in Nat \ {0} /\ MaxBackoff \in Nat /\ MinBackoff <= MaxBackoff
ASSUME LimitAssumption == Limit \in Nat \ {0} /\ Cardinality(Configured) <= Limit
ASSUME CapacityAssumption == QueueCapacity \in Nat \ {0}
ASSUME SessionBounds == MaxTs \in Nat \ {0} /\ MaxFaults \in Nat

VARIABLES
    kind,       \* which of the four streams this is
    phase,      \* where the task is, see Phase
    said,       \* the health report it is waiting to deliver
    backoff,    \* the delay before the next attempt
    failedRuns, \* history: runs in a row that were never subscribed
    subscribed, \* outcome.subscribed of the current or the last run
    pending,    \* pending_subscription_acks
    idle,       \* a ping was sent and not answered
    cache,      \* per channel, the hints kept, least recently received first
    outgoing,   \* runtime events of the message at hand still to be sent
    queue,      \* runtime events in the channel to the engine
    owed,       \* history: changes of the cache the engine has not been told of
    told,       \* history: bars whose confirmation was reported
    candle,     \* OKX: the newest bar, and whether it is closed
    faults      \* faults so far

vars == <<kind, phase, said, backoff, failedRuns, subscribed, pending, idle, cache,
          outgoing, queue, owed, told, candle, faults>>
dataVars == <<cache, outgoing, queue, owed, told, candle>>

Kinds == {"public", "candles", "trading", "algos"}
Phase == {"start", "connecting", "login", "subscribing", "up", "closing", "ended",
          "sleeping", "dead"}
Reports == {"none", "trying", "ack", "failed", "lost", "dead"}
NoTs == 0

IsPrivate(k) == k \in {"trading", "algos"}

(* public_market_subscription_acks, private_stream_subscription_acks *)
PublicSubscriptions == [public |-> {"instruments", "tickers", "books"}, candles |-> {"candle"}]
PrivateSubscriptions == [trading |-> {"orders", "account", "fills"}, algos |-> {"orders-algo"}]

Subscriptions(k) == IF IsPrivate(k) THEN PrivateSubscriptions[k] ELSE PublicSubscriptions[k]

Channels == (UNION {Subscriptions(k) : k \in Kinds}) \ {"books"}

(* Bars are known by the time they open, which is never NoTs.             *)
ASSUME KeysAssumption ==
    /\ IsFiniteSet(Configured) /\ \A c \in Channels : IsFiniteSet(Keys[c])
    /\ Keys["candle"] \subseteq Nat \ {0}

NoHints == [c \in Channels |-> <<>>]

-----------------------------------------------------------------------------
(* The caches.                                                             *)

Hint(key, ts, confirm) == [key |-> key, ts |-> ts, confirm |-> confirm]
Cached(hints, key) == \E i \in DOMAIN hints : hints[i].key = key
Place(hints, key) == CHOOSE i \in DOMAIN hints : hints[i].key = key
HintOf(hints, key) == hints[Place(hints, key)]

(* Bug: the newest message wins, whatever its timestamp. *)
ShouldIgnoreNone(hints, row) == row.ts = NoTs

(* should_ignore_hint *)
ShouldIgnore(hints, row) ==
    \/ row.ts = NoTs
    \/ Cached(hints, row.key) /\ row.ts < HintOf(hints, row.key).ts

(* The hint to evict: the bar that opened first; otherwise the one that was *)
(* received first, of the instruments one that is not configured if there  *)
(* is one (evict_oldest_market_data_hints, ..._except,                     *)
(* evict_oldest_private_hints).                                            *)
Victim(channel, hints) ==
    LET spared == {i \in DOMAIN hints : hints[i].key \notin Configured}
        eldest(S) == CHOOSE i \in S : \A j \in S : i <= j
    IN CASE channel = "candle" ->
              CHOOSE i \in DOMAIN hints : \A j \in DOMAIN hints : hints[i].key <= hints[j].key
         [] channel = "instruments" /\ spared # {} -> eldest(spared)
         [] OTHER -> 1

Evicted(channel, hints) ==
    IF Len(hints) > Limit THEN RemoveAt(hints, Victim(channel, hints)) ELSE hints

Without(hints, key) ==
    IF Cached(hints, key) THEN RemoveAt(hints, Place(hints, key)) ELSE hints

Inserted(channel, hints, row) == Evicted(channel, Append(Without(hints, row.key), row))

NewlyConfirmed(hints, row) ==
    row.confirm /\ ~(Cached(hints, row.key) /\ HintOf(hints, row.key).confirm)

(* Whether the row makes a runtime event. *)
MakesEvent(channel, hints, row) ==
    CASE channel = "tickers"     -> FALSE
      [] channel = "candle"      -> ~ShouldIgnore(hints, row) /\ NewlyConfirmed(hints, row)
      [] channel = "instruments" -> row.ts = NoTs \/ ~ShouldIgnore(hints, row)
      [] OTHER                   -> ~ShouldIgnore(hints, row)

Applied(channel, hints, row) ==
    IF ShouldIgnore(hints, row) THEN hints ELSE Inserted(channel, hints, row)

(* The rows of a message that are applied: a row that does not parse stops *)
(* a public message before its first row, one that an update_* function    *)
(* refuses stops a private message where it stands.                        *)
ParsedPublic(rows, bad) == IF bad = 0 THEN rows ELSE <<>>
ParsedPrivate(rows, bad) == IF bad = 0 THEN rows ELSE SubSeq(rows, 1, bad - 1)

Effective(k, rows, bad) ==
    IF IsPrivate(k) THEN ParsedPrivate(rows, bad) ELSE ParsedPublic(rows, bad)

(* One row of a message. *)
HandleRow(channel, now, row) ==
    [hints  |-> Applied(channel, now.hints, row),
     events |-> IF MakesEvent(channel, now.hints, row)
                THEN Append(now.events, <<channel, row.key>>) ELSE now.events]

(* The hints, and the events made, after the first i rows. *)
Trail(channel, hints, rows) ==
    LET after[i \in 0 .. Len(rows)] ==
            IF i = 0 THEN [hints |-> hints, events |-> <<>>]
            ELSE HandleRow(channel, after[i - 1], rows[i])
    IN after

Handled(channel, hints, rows) == Trail(channel, hints, rows)[Len(rows)]

(* What the engine has to hear of: any change of an order, a fill, an algo  *)
(* order, the account or an instrument, and a bar known to be closed.      *)
ToTell(channel, before, after, rows) ==
    {<<channel, rows[i].key>> :
        i \in {j \in DOMAIN rows :
                 CASE channel = "tickers" -> FALSE
                   [] channel = "candle"  -> rows[j].confirm /\ rows[j].key \notin told
                   [] OTHER -> \/ channel = "instruments" /\ rows[j].ts = NoTs
                               \/ /\ after # before /\ Cached(after, rows[j].key)
                                  /\ HintOf(after, rows[j].key) = rows[j]}}

-----------------------------------------------------------------------------
(* What OKX may send.                                                      *)

Times(channel) == IF channel \in {"tickers", "account"} THEN 1 .. MaxTs ELSE NoTs .. MaxTs

BarRows == {Hint(b, b, c) : b \in Keys["candle"], c \in BOOLEAN}
OtherRows(channel) == [key : Keys[channel], ts : Times(channel), confirm : {FALSE}]

Rows(channel) == IF channel = "candle" THEN BarRows ELSE OtherRows(channel)

(* Bars come in order, and a closed bar stays closed. *)
Possible(channel, row) ==
    channel = "candle" =>
        \/ row.key = candle.bar /\ (candle.closed => row.confirm)
        \/ row.key = candle.bar + 1

(* One row, or two where the rows of a message can fare differently. *)
Messages(channel) ==
    {<<r>> : r \in Rows(channel)}
        \cup (IF channel \in {"candle", "tickers", "account", "instruments"} THEN {}
              ELSE {<<r, q>> : r \in Rows(channel), q \in Rows(channel)})

-----------------------------------------------------------------------------
(* The task.  It waits for a report to be delivered before it goes on.     *)

Ready == said = "none" /\ outgoing = <<>>
MayFail == faults < MaxFaults /\ faults' = faults + 1

Fine == UNCHANGED faults

Doubled(b) == IF 2 * b <= MaxBackoff THEN 2 * b ELSE MaxBackoff

(* backoff_after_stream_run *)
NextBackoff(b) == IF subscribed THEN MinBackoff ELSE Doubled(b)

Init ==
    /\ kind \in Kinds
    /\ phase = "start" /\ said = "none"
    /\ backoff = MinBackoff /\ failedRuns = 0
    /\ subscribed = FALSE /\ pending = {} /\ idle = FALSE
    /\ cache = NoHints /\ outgoing = <<>> /\ queue = 0 /\ owed = {} /\ told = {}
    /\ candle = [bar |-> 0, closed |-> TRUE]
    /\ faults = 0

(* A new run: ConnectAttempt is reported. *)
Attempt ==
    /\ phase = "start" /\ Ready
    /\ phase' = "connecting" /\ said' = "trying"
    /\ subscribed' = FALSE /\ pending' = Subscriptions(kind) /\ idle' = FALSE
    /\ UNCHANGED <<kind, backoff, failedRuns, dataVars>> /\ Fine

PublicConnected ==
    /\ phase = "connecting" /\ Ready /\ ~IsPrivate(kind)
    /\ phase' = "subscribing" /\ said' = "trying"
    /\ UNCHANGED <<kind, backoff, failedRuns, subscribed, pending, idle, dataVars>> /\ Fine

(* A private stream logs in first. *)
PrivateConnected ==
    /\ phase = "connecting" /\ Ready /\ IsPrivate(kind)
    /\ phase' = "login" /\ said' = "trying"
    /\ UNCHANGED <<kind, backoff, failedRuns, subscribed, pending, idle, dataVars>> /\ Fine

(* wait_for_private_login got the acknowledgement. *)
LoggedIn ==
    /\ phase = "login" /\ Ready
    /\ phase' = "subscribing" /\ said' = "trying" /\ idle' = FALSE
    /\ UNCHANGED <<kind, backoff, failedRuns, subscribed, pending, dataVars>> /\ Fine

(* An acknowledgement that is awaited; the last makes the stream ready.  *)
Acknowledged(channel) ==
    /\ phase = "subscribing" /\ Ready /\ channel \in pending
    /\ pending' = pending \ {channel} /\ idle' = FALSE
    /\ IF pending' = {}
       THEN phase' = "up" /\ said' = "ack" /\ subscribed' = TRUE
       ELSE UNCHANGED <<phase, said, subscribed>>
    /\ UNCHANGED <<kind, backoff, failedRuns, dataVars>> /\ Fine

PublicAcknowledged == \E c \in pending : ~IsPrivate(kind) /\ Acknowledged(c)

(* A fills channel the account may not use (64003) counts as acknowledged. *)
PrivateAcknowledged == \E c \in pending : IsPrivate(kind) /\ Acknowledged(c)

(* The run ends; a login or a subscription that failed is reported before  *)
(* the outcome of the run is.  Either way the engine is told, and reads    *)
(* the exchange anew once the stream is back: nothing is owed.             *)
FailsIn(p) ==
    /\ owed' = {}
    /\ CASE p = "up"         -> phase' = "ended" /\ said' = "lost"
         [] p = "connecting" -> phase' = "ended" /\ said' = "failed"
         [] OTHER            -> phase' = "closing" /\ said' = "failed"

(* Refused, malformed, a notice, an error event, an unexpected or repeated *)
(* acknowledgement, data of a channel not yet acknowledged, text that is   *)
(* neither, a closed socket, an unanswered ping, a timeout.                *)
Fails ==
    /\ phase \in {"connecting", "subscribing", "up"} /\ Ready
    /\ MayFail /\ FailsIn(phase)
    /\ UNCHANGED <<kind, backoff, failedRuns, subscribed, pending, idle, cache, outgoing, queue,
                   told, candle>>

(* The login is refused, or not answered in time. *)
LoginFails ==
    /\ phase = "login" /\ Ready
    /\ MayFail /\ FailsIn(phase)
    /\ UNCHANGED <<kind, backoff, failedRuns, subscribed, pending, idle, cache, outgoing, queue,
                   told, candle>>

(* The server time for the login is not known, or a request could not be   *)
(* sent: the step reports nothing of its own.                              *)
CannotSend ==
    /\ phase \in {"login", "subscribing"} /\ Ready
    /\ MayFail /\ phase' = "ended" /\ said' = "failed" /\ owed' = {}
    /\ UNCHANGED <<kind, backoff, failedRuns, subscribed, pending, idle, cache, outgoing, queue,
                   told, candle>>

(* StreamFailedBeforeSubscription *)
ReportOutcome ==
    /\ phase = "closing" /\ Ready
    /\ phase' = "ended" /\ said' = "failed"
    /\ UNCHANGED <<kind, backoff, failedRuns, subscribed, pending, idle, dataVars>> /\ Fine

(* The idle timer fires and a ping is sent. *)
Ping ==
    /\ phase \in {"login", "subscribing", "up"} /\ Ready /\ ~idle
    /\ idle' = TRUE
    /\ UNCHANGED <<kind, phase, said, backoff, failedRuns, subscribed, pending, dataVars>> /\ Fine

Pong ==
    /\ idle /\ Ready /\ phase \in {"login", "subscribing", "up"}
    /\ idle' = FALSE
    /\ UNCHANGED <<kind, phase, said, backoff, failedRuns, subscribed, pending, dataVars>> /\ Fine

-----------------------------------------------------------------------------
(* Data.                                                                   *)

(* A message of an acknowledged channel; bad: the first row that is        *)
(* refused, 0 if none is.                                                  *)
Receive(channel, rows, bad) ==
    LET used  == Effective(kind, rows, bad)
        done  == Handled(channel, cache[channel], used)
    IN /\ phase \in {"subscribing", "up"} /\ Ready
       /\ channel \in Subscriptions(kind) \ pending
       /\ \A i \in DOMAIN rows : Possible(channel, rows[i])
       /\ cache' = [cache EXCEPT ![channel] = done.hints]
       /\ candle' = IF channel # "candle" THEN candle
                    ELSE [bar |-> rows[1].key, closed |-> rows[1].confirm]
       /\ IF bad = 0
          THEN /\ outgoing' = done.events
               /\ owed' = owed \cup ToTell(channel, cache[channel], done.hints, used)
               /\ told' = told \cup {e[2] : e \in {x \in Range(done.events) : x[1] = "candle"}}
               /\ Fine /\ UNCHANGED <<phase, said>>
          ELSE /\ MayFail /\ FailsIn(phase)
               /\ UNCHANGED <<outgoing, told>>
       /\ idle' = FALSE
       /\ UNCHANGED <<kind, backoff, failedRuns, subscribed, pending, queue>>

(* send_non_lossy *)
Send ==
    /\ outgoing # <<>> /\ queue < QueueCapacity
    /\ queue' = queue + 1
    /\ outgoing' = Tail(outgoing) /\ owed' = owed \ {Head(outgoing)}
    /\ UNCHANGED <<kind, phase, said, backoff, failedRuns, subscribed, pending, idle, cache,
                   told, candle>> /\ Fine

(* Bug: an event the channel has no room for is dropped. *)
SendTimesOutLossy ==
    /\ outgoing # <<>> /\ queue = QueueCapacity
    /\ MayFail /\ outgoing' = Tail(outgoing)
    /\ UNCHANGED <<kind, phase, said, backoff, failedRuns, subscribed, pending, idle, cache,
                   queue, owed, told, candle>>

(* The engine does not make room in time: the stream fails.                *)
SendTimesOut ==
    /\ outgoing # <<>> /\ queue = QueueCapacity
    /\ MayFail /\ FailsIn(phase) /\ outgoing' = <<>>
    /\ UNCHANGED <<kind, backoff, failedRuns, subscribed, pending, idle, cache,
                   queue, told, candle>>

EngineTakes ==
    /\ queue > 0 /\ queue' = queue - 1
    /\ UNCHANGED <<kind, phase, said, backoff, failedRuns, subscribed, pending, idle, cache,
                   outgoing, owed, told, candle>> /\ Fine

-----------------------------------------------------------------------------
(* Between runs.                                                           *)

(* Bug: the task gives up when a run was never subscribed. *)
ScheduleReconnectOnce ==
    /\ phase = "ended" /\ Ready /\ subscribed
    /\ phase' = "sleeping" /\ said' = "trying" /\ failedRuns' = 0
    /\ UNCHANGED <<kind, backoff, subscribed, pending, idle, dataVars>> /\ Fine

(* ReconnectScheduled, then the sleep. *)
ScheduleReconnect ==
    /\ phase = "ended" /\ Ready
    /\ phase' = "sleeping" /\ said' = "trying"
    /\ failedRuns' = IF subscribed THEN 0 ELSE failedRuns + 1
    /\ UNCHANGED <<kind, backoff, subscribed, pending, idle, dataVars>> /\ Fine

Wake ==
    /\ phase = "sleeping" /\ Ready
    /\ phase' = "start" /\ backoff' = NextBackoff(backoff)
    /\ UNCHANGED <<kind, said, failedRuns, subscribed, pending, idle, dataVars>> /\ Fine

(* Delivered to the engine, or dropped. *)
Heard ==
    /\ said # "none" /\ said' = "none"
    /\ UNCHANGED <<kind, phase, backoff, failedRuns, subscribed, pending, idle, dataVars>> /\ Fine

(* Bug: a task that ends says nothing. *)
DiesSilently ==
    /\ phase # "dead" /\ MayFail
    /\ phase' = "dead" /\ outgoing' = <<>>
    /\ UNCHANGED <<kind, said, backoff, failedRuns, subscribed, pending, idle, cache, queue, owed, told,
                   candle>>

(* supervise_websocket_task *)
Dies ==
    /\ phase # "dead" /\ MayFail
    /\ phase' = "dead" /\ said' = "dead" /\ outgoing' = <<>> /\ owed' = {}
    /\ UNCHANGED <<kind, backoff, failedRuns, subscribed, pending, idle, cache, queue, told,
                   candle>>

Arrives(channel) ==
    \E rows \in Messages(channel) : \E bad \in 0 .. Len(rows) : Receive(channel, rows, bad)

PublicData == \E c \in {"instruments", "tickers", "candle"} : Arrives(c)
PrivateData == \E c \in {"orders", "account", "fills", "orders-algo"} : Arrives(c)

Next ==
    \/ Attempt \/ PublicConnected \/ PrivateConnected \/ LoggedIn
    \/ PublicAcknowledged \/ PrivateAcknowledged
    \/ Fails \/ LoginFails \/ CannotSend \/ ReportOutcome \/ Ping \/ Pong
    \/ PublicData \/ PrivateData \/ Send \/ SendTimesOut \/ EngineTakes
    \/ ScheduleReconnect \/ Wake \/ Heard \/ Dies

Spec == Init /\ [][Next]_vars

(* OKX answers, the engine drains its channels and timers fire.  An        *)
(* acknowledgement comes over the same socket as the data before it, so    *)
(* its turn comes however often data keeps the task busy.                  *)
Fairness ==
    /\ WF_vars(Attempt) /\ WF_vars(PublicConnected) /\ WF_vars(PrivateConnected)
    /\ WF_vars(LoggedIn)
    /\ SF_vars(PublicAcknowledged) /\ SF_vars(PrivateAcknowledged)
    /\ WF_vars(ReportOutcome) /\ WF_vars(Send) /\ WF_vars(EngineTakes)
    /\ WF_vars(ScheduleReconnect) /\ WF_vars(Wake) /\ WF_vars(Heard)

FairSpec == Spec /\ Fairness

-----------------------------------------------------------------------------
(* Properties.                                                             *)

(* Type invariant. *)
TypeOK ==
    /\ kind \in Kinds /\ phase \in Phase /\ said \in Reports
    /\ backoff \in MinBackoff .. MaxBackoff /\ failedRuns \in 0 .. MaxFaults
    /\ subscribed \in BOOLEAN /\ idle \in BOOLEAN
    /\ pending \subseteq Subscriptions(kind)
    /\ \A c \in Channels : Len(cache[c]) <= Limit
    /\ queue \in 0 .. QueueCapacity
    /\ faults \in 0 .. MaxFaults

(* While the stream counts as subscribed, every change of an order, a fill, *)
(* an algo order, the account or an instrument, and every closed bar, that *)
(* the cache has seen is on its way to the engine: a message of which one  *)
(* row is refused, or a full channel, ends the run instead of losing it.   *)
NothingLostSilently == phase = "up" => owed \subseteq Range(outgoing)

(* A cached hint is never replaced by an older one: not by a late row, not *)
(* by a second row of the same message, not after a reconnect.  Only an    *)
(* eviction forgets how old a hint was, and it spares the instruments the  *)
(* bot trades and whatever the cache has room for.                         *)
NoStepBack ==
    [][\A c \in Channels : \A i \in DOMAIN cache[c], j \in DOMAIN cache'[c] :
          /\ cache[c][i].key = cache'[c][j].key
          /\ \/ Cardinality(Keys[c]) <= Limit
             \/ c = "instruments" /\ cache[c][i].key \in Configured
          => cache[c][i].ts <= cache'[c][j].ts]_vars

(* The engine hears of the close of a bar once, although OKX repeats the   *)
(* closed bar after every reconnect.                                       *)
ConfirmedOnce ==
    [][\A b \in told : outgoing = <<>> => <<"candle", b>> \notin Range(outgoing')]_vars

(* The instruments channel pushes every SPOT instrument of OKX, yet the    *)
(* hint of an instrument the bot trades is never evicted.                  *)
ConfiguredStay ==
    [][\A k \in Configured :
          Cached(cache["instruments"], k) => Cached(cache'["instruments"], k)]_vars

(* The delay before the next attempt doubles from MinBackoff with every    *)
(* run in a row that was never subscribed, up to MaxBackoff.               *)
BackoffSchedule ==
    phase \in {"start", "connecting", "login", "subscribing", "up"} =>
        \/ backoff = MinBackoff * 2 ^ failedRuns
        \/ backoff = MaxBackoff /\ MinBackoff * 2 ^ failedRuns > MaxBackoff

(* The stream as the engine sees it. *)
Conn ==
    CASE phase = "up"   -> "up"
      [] phase = "dead" -> "dead"
      [] OTHER          -> "down"

Life == INSTANCE StreamLife WITH conn <- Conn, said <- said

(* The task keeps the promise of StreamLife: it never gains or loses its   *)
(* subscription, and never ends, without the report that says so.          *)
KeepsPromise == Life!Spec

(* However often it fails, the stream is subscribed again in the end,      *)
(* unless its task died.                                                   *)
Recovers == []<>(phase \in {"up", "dead"})
==============================================================================
