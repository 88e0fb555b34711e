---------------------------- MODULE DispatchGate ----------------------------
(***************************************************************************)
(* The part of the runtime loop (app/live.rs) that decides when a strategy *)
(* may act: the WebSocket stream tasks and their health reporter           *)
(* (okx/websocket.rs, okx/websocket/{private,health}.rs) as far as         *)
(* StreamLife tells, the bounded health channel, WebsocketHealthTracker,   *)
(* the deferred candles, the dispatch of one event to the strategies one   *)
(* after the other under runtime.tick_timeout_ms                           *)
(* (app/strategy_tick_execution.rs) and the consecutive-failure policy     *)
(* (app/strategy_tick_failure.rs).                                         *)
(*                                                                         *)
(* The stream tasks run concurrently with the engine; the engine is one    *)
(* task, so while it waits for a strategy nothing drains the channel.      *)
(* What a strategy does inside a dispatch is the subject of Strategy; here *)
(* only its outcome matters.  Every enabled strategy has an instrument of  *)
(* its own, so an instrument is named by its strategy.                     *)
(***************************************************************************)
EXTENDS Integers, Sequences, FiniteSets, FiniteSetsExt

CONSTANTS
    Streams,    \* identities of the mandatory WebSocket streams
    N,          \* enabled strategies, 1 .. N in configuration order
    Capacity,   \* WEBSOCKET_HEALTH_CHANNEL_CAPACITY
    MaxStrikes, \* MAX_CONSECUTIVE_STRATEGY_TICK_FAILURES
    MaxFaults   \* bound: failed attempts, lost subscriptions and dead tasks

ASSUME StreamsAssumption == Streams # {}
ASSUME NAssumption == N \in Nat \ {0}
ASSUME CapacityAssumption == Capacity \in Nat \ {0}
ASSUME MaxStrikesAssumption == MaxStrikes \in Nat \ {0}
ASSUME MaxFaultsAssumption == MaxFaults \in Nat

VARIABLES
    conn,       \* per stream: "down", "up" (subscribed) or "dead"
    outbox,     \* per stream: the health report its task is waiting to deliver
    health,     \* the health channel
    faults,     \* failed attempts, lost subscriptions and dead tasks so far
    phase,      \* "startup", "idle" (in select!), "drain", "job", "exited"
    drained,    \* events taken by this run of process_websocket_health_events
    lifecycle,  \* fatal_task_lifecycle_error.is_some()
    ready,      \* tracker.ready_streams
    everReady,  \* tracker.ever_ready_streams
    failedFirst,\* tracker.failed_before_ready_streams
    reconcile,  \* websocket_reconcile_requested
    pending,    \* pending_confirmed_candles, by instrument
    failures,   \* StrategyTickFailureTracker.consecutive_failures
    job,        \* the dispatch under way
    ahead,      \* what is ready in an arm polled before the health arm:
                \* an "event" (server-time failure or private event), the "timer"
    missed,     \* history: strategies that have not read the exchange over
                \* REST since a stream last had a gap
    dropped     \* history: a critical report was given up

streamVars == <<conn, outbox, faults, dropped>>
trackerVars == <<ready, everReady, failedFirst, reconcile>>
vars == <<conn, outbox, health, faults, phase, drained, lifecycle, ready, everReady,
          failedFirst, reconcile, pending, failures, job, ahead, missed, dropped>>

Strategies == 1 .. N

(* OkxWebsocketHealthEventKind, by what the tracker and the engine do with *)
(* it: "trying" (ConnectAttempt, Connected, LoginAckSucceeded,             *)
(* ReconnectScheduled), "ack" (SubscriptionAckSucceeded), "failed"         *)
(* (LoginFailed, SubscriptionAckFailed, StreamFailedBeforeSubscription),   *)
(* "lost" (StreamDisconnected-/StreamFailedAfterSubscription), "dead"      *)
(* (StreamTaskPanicked, StreamTaskExitedUnexpectedly).                     *)
EventKind == {"trying", "ack", "failed", "lost", "dead"}

JobKind == {"none", "tick", "time", "stream"}
NoJob == [kind |-> "none", left |-> {}]

(* all_mandatory_streams_ready *)
AllReady == Streams \subseteq ready

(* websocket_strategy_dispatch_ready *)
GateOpen == AllReady /\ ~reconcile

-----------------------------------------------------------------------------
(* The stream tasks.  A task waits for its report to be delivered or given *)
(* up before it goes on.                                                   *)

Silent(s) == outbox[s] = "none"

Says(s, state, kind) ==
    /\ conn' = [conn EXCEPT ![s] = state]
    /\ outbox' = [outbox EXCEPT ![s] = kind]

EngineUnchanged ==
    UNCHANGED <<phase, drained, lifecycle, ready, everReady, failedFirst,
                reconcile, pending, failures, job, ahead>>

(* A step towards the subscription, or back to the next attempt:           *)
(* ConnectAttempt, Connected, LoginAckSucceeded, ReconnectScheduled.       *)
Attempt(s) ==
    /\ conn[s] = "down" /\ Silent(s)
    /\ Says(s, "down", "trying")
    /\ UNCHANGED <<health, faults, missed, dropped>> /\ EngineUnchanged

(* Every subscription is acknowledged.  What the exchange sent before that *)
(* never arrives.                                                          *)
Subscribed(s) ==
    /\ conn[s] = "down" /\ Silent(s)
    /\ Says(s, "up", "ack")
    /\ missed' = Strategies
    /\ UNCHANGED <<health, faults, dropped>> /\ EngineUnchanged

AttemptFails(s) ==
    /\ conn[s] = "down" /\ Silent(s) /\ faults < MaxFaults
    /\ Says(s, "down", "failed")
    /\ faults' = faults + 1
    /\ UNCHANGED <<health, missed, dropped>> /\ EngineUnchanged

Lost(s) ==
    /\ conn[s] = "up" /\ Silent(s) /\ faults < MaxFaults
    /\ Says(s, "down", "lost")
    /\ faults' = faults + 1
    /\ missed' = Strategies
    /\ UNCHANGED <<health, dropped>> /\ EngineUnchanged

(* supervise_websocket_task: the task panicked or returned, perhaps while  *)
(* it was waiting to report something else.                                *)
Dies(s) ==
    /\ conn[s] # "dead" /\ faults < MaxFaults
    /\ Says(s, "dead", "dead")
    /\ faults' = faults + 1
    /\ missed' = Strategies
    /\ UNCHANGED <<health, dropped>> /\ EngineUnchanged

Deliver(s) ==
    /\ ~Silent(s)
    /\ Len(health) < Capacity
    /\ health' = Append(health, [stream |-> s, kind |-> outbox[s]])
    /\ outbox' = [outbox EXCEPT ![s] = "none"]
    /\ UNCHANGED <<conn, faults, missed, dropped>> /\ EngineUnchanged

(* The channel is full: a best-effort report is dropped at once, a critical *)
(* one when it has waited for its delivery timeout.                        *)
GiveUp(s) ==
    /\ ~Silent(s)
    /\ Len(health) >= Capacity
    /\ outbox' = [outbox EXCEPT ![s] = "none"]
    /\ dropped' = (dropped \/ outbox[s] # "trying")
    /\ UNCHANGED <<conn, health, faults, missed>> /\ EngineUnchanged

Stream(s) ==
    \/ Attempt(s) \/ Subscribed(s) \/ AttemptFails(s)
    \/ Lost(s) \/ Dies(s) \/ Deliver(s) \/ GiveUp(s)

-----------------------------------------------------------------------------
(* The engine.                                                             *)

Exit ==
    /\ phase' = "exited"
    /\ job' = NoJob

Start(kind, strategies) ==
    /\ phase' = "job"
    /\ job' = [kind |-> kind, left |-> strategies]

(* The streams run while the strategies are initialized from REST.  The    *)
(* first tick of the timer is due at once.                                 *)
Startup ==
    /\ phase = "startup"
    /\ \/ phase' = "idle" /\ ahead' \in {{"timer"}, {"event", "timer"}} /\ UNCHANGED job
       \/ Exit /\ UNCHANGED ahead
    /\ UNCHANGED <<streamVars, trackerVars, health, drained, lifecycle, pending,
                   failures, missed>>

(* The select! of the loop is biased.  Polled first are server-time        *)
(* failures and private events, then the timer, the health channel, the    *)
(* deferred candles and the public events.  Nothing bounds a dispatch      *)
(* below runtime.poll_interval_ms, so the first arms may be ready again    *)
(* whenever a dispatch ends.                                               *)
FirstArms == phase = "idle" /\ ahead = {}
CandleArm == FirstArms /\ health = <<>>
PublicArm == CandleArm /\ ~(GateOpen /\ pending # {})

(* A server-time failure or a private event arrives, or the timer is due:  *)
(* at any time during a dispatch, and else before select! takes something  *)
(* up.  (That an event which a closed gate drops is followed by more of    *)
(* them, with the timer due all the while, is left out.)                   *)
Arrives(arm) ==
    /\ \/ phase \in {"drain", "job"}
       \/ PublicArm
       \/ phase = "idle" /\ ahead = {"event"}
    /\ arm \notin ahead
    /\ ahead' = ahead \cup {arm}
    /\ UNCHANGED <<streamVars, trackerVars, health, phase, drained, lifecycle, pending,
                   failures, job, missed>>

(* Bug: the tracker keeps a stream ready through a reconnect, and only a   *)
(* stream that becomes ready asks for a reconciliation.                    *)
RecordReadyOnly(e) ==
    /\ reconcile' = (reconcile \/ (e.kind = "ack" /\ e.stream \notin ready))
    /\ ready' = IF e.kind = "ack" THEN ready \cup {e.stream}
                ELSE IF e.kind \in {"trying", "lost"} THEN ready ELSE ready \ {e.stream}
    /\ UNCHANGED <<everReady, failedFirst>>

(* handle_websocket_health_event, then WebsocketHealthTracker::record *)
Record(e) ==
    /\ reconcile' = (reconcile \/ e.kind \in {"ack", "lost"})
    /\ ready' = IF e.kind = "ack" THEN ready \cup {e.stream} ELSE ready \ {e.stream}
    /\ everReady' = IF e.kind = "ack" THEN everReady \cup {e.stream} ELSE everReady
    /\ failedFirst' =
          IF e.kind = "ack" THEN failedFirst \ {e.stream}
          ELSE IF e.kind \in {"failed", "dead"} /\ e.stream \notin everReady
               THEN failedFirst \cup {e.stream}
               ELSE failedFirst

Take ==
    /\ health # <<>>
    /\ Record(Head(health))
    /\ health' = Tail(health)
    /\ lifecycle' = (lifecycle \/ Head(health).kind = "dead")
    /\ drained' = drained + 1
    /\ phase' = "drain"
    /\ UNCHANGED <<streamVars, pending, failures, job, ahead, missed>>

(* websocket_health_decision: the first event arrives ... *)
HealthEvent == FirstArms /\ Take

(* ... and process_websocket_health_events takes what is queued, at most   *)
(* the capacity of the channel, while the streams may be adding to it.     *)
DrainNext == phase = "drain" /\ drained <= Capacity /\ Take

StartupReadinessError == failedFirst \ ready # {}

(* websocket_reconciliation_decision *)
StartReconciliation ==
    /\ reconcile /\ AllReady
    /\ reconcile' = FALSE
    /\ Start("stream", Strategies)

Continue == phase' = "idle" /\ UNCHANGED <<job, reconcile>>

DrainEnd ==
    /\ phase = "drain"
    /\ health = <<>> \/ drained > Capacity
    /\ IF lifecycle \/ StartupReadinessError THEN Exit /\ UNCHANGED reconcile
       ELSE StartReconciliation \/ (~(reconcile /\ AllReady) /\ Continue)
    /\ drained' = 0
    /\ UNCHANGED <<streamVars, health, lifecycle, ready, everReady, failedFirst,
                   pending, failures, ahead, missed>>

LoopUnchanged ==
    UNCHANGED <<streamVars, health, drained, lifecycle, ready, everReady,
                failedFirst, failures, missed>>

(* Bug: only a health event starts a reconciliation. *)
TimerTicksOnly ==
    /\ phase = "idle" /\ ahead = {"timer"}
    /\ \/ GateOpen /\ Start("tick", Strategies) /\ UNCHANGED reconcile
       \/ ~GateOpen /\ UNCHANGED <<phase, job, reconcile>>
    /\ ahead' = {}
    /\ UNCHANGED pending /\ LoopUnchanged

(* reconciliation_timer_decision: behind a closed gate with a stream that  *)
(* is not ready it does nothing.                                           *)
Timer ==
    /\ phase = "idle" /\ ahead = {"timer"}
    /\ \/ StartReconciliation
       \/ GateOpen /\ Start("tick", Strategies) /\ UNCHANGED reconcile
       \/ ~AllReady /\ UNCHANGED <<phase, job, reconcile>>
    /\ ahead' = {}
    /\ UNCHANGED pending /\ LoopUnchanged

(* private_runtime_event_decision, for one instrument or for all           *)
(* (Account), and server_time_refresh_failure_decision.                    *)
Event(kind, strategies) ==
    /\ phase = "idle" /\ "event" \in ahead
    /\ GateOpen
    /\ Start(kind, strategies)
    /\ ahead' = ahead \ {"event"}
    /\ UNCHANGED <<reconcile, pending>> /\ LoopUnchanged

PrivateEvent == \E S \in {{s} : s \in Strategies} \cup {Strategies} : Event("tick", S)

ServerTimeFailure == Event("time", Strategies)

(* strategy_dispatch_decision: behind a closed gate both are dropped.      *)
EventDropped ==
    /\ phase = "idle" /\ "event" \in ahead
    /\ ~GateOpen
    /\ ahead' = ahead \ {"event"}
    /\ UNCHANGED <<phase, job, reconcile, pending>> /\ LoopUnchanged

(* public_runtime_event_decision and defer_confirmed_candle *)
ConfirmedCandle(s) ==
    /\ PublicArm
    /\ \/ GateOpen /\ Start("tick", {s}) /\ UNCHANGED pending
       \/ ~GateOpen /\ pending' = pending \cup {s} /\ UNCHANGED <<phase, job>>
    /\ UNCHANGED <<reconcile, ahead>> /\ LoopUnchanged

(* public_runtime_event_decision for InstrumentUpdated *)
InstrumentUpdated(s) ==
    /\ PublicArm
    /\ GateOpen
    /\ Start("tick", {s})
    /\ UNCHANGED <<reconcile, pending, ahead>> /\ LoopUnchanged

(* pending_confirmed_candle_decision: pop_first of the map *)
PendingCandle ==
    /\ CandleArm
    /\ GateOpen
    /\ \E s \in pending :
          /\ \A t \in pending : s <= t
          /\ pending' = pending \ {s}
          /\ Start("tick", {s})
    /\ UNCHANGED <<reconcile, ahead>> /\ LoopUnchanged

-----------------------------------------------------------------------------
(* One dispatch: execute_strategy_dispatch over the matching strategies.   *)

Current == Min(job.left)

Done(s) == job' = [job EXCEPT !.left = @ \ {s}] /\ UNCHANGED phase

Strike(s) == failures' = [failures EXCEPT ![s] = @ + 1]

(* The next strategy of the dispatch returns Ok.  StreamStateChanged calls *)
(* reconcile_after_interrupted_tick, which reads everything from REST.     *)
StrategyOk ==
    /\ phase = "job" /\ job.left # {}
    /\ failures' = [failures EXCEPT ![Current] = 0]
    /\ missed' = IF job.kind = "tick" THEN missed ELSE missed \ {Current}
    /\ Done(Current)
    /\ UNCHANGED <<streamVars, trackerVars, health, drained, lifecycle, pending, ahead>>

(* ... or fails: record_strategy_tick_failure. *)
StrategyError ==
    /\ phase = "job" /\ job.left # {}
    /\ Strike(Current)
    /\ IF failures[Current] + 1 >= MaxStrikes THEN Exit ELSE Done(Current)
    /\ UNCHANGED <<streamVars, trackerVars, health, drained, lifecycle, pending, ahead, missed>>

(* ... or exceeds the tick timeout: it is counted and, below the limit,    *)
(* reconciled at once; if that fails or is late too, the runtime stops.    *)
StrategyTimeout ==
    /\ phase = "job" /\ job.left # {}
    /\ Strike(Current)
    /\ \/ Exit /\ UNCHANGED missed
       \/ /\ ~(failures[Current] + 1 >= MaxStrikes)
          /\ missed' = missed \ {Current}
          /\ Done(Current)
    /\ UNCHANGED <<streamVars, trackerVars, health, drained, lifecycle, pending, ahead>>

HasFailures == \E s \in Strategies : failures[s] > 0

(* Bug: a failed reconciliation is not asked for again. *)
JobEndForgets ==
    /\ phase = "job" /\ job.left = {}
    /\ phase' = "idle"
    /\ job' = NoJob
    /\ UNCHANGED <<streamVars, trackerVars, health, drained, lifecycle, pending, ahead,
                   failures, missed>>

(* Bug: every reconciliation is asked for again. *)
JobEndRepeats ==
    /\ phase = "job" /\ job.left = {}
    /\ phase' = "idle"
    /\ job' = NoJob
    /\ reconcile' = (reconcile \/ job.kind = "stream")
    /\ UNCHANGED <<streamVars, health, drained, lifecycle, ready, everReady,
                   failedFirst, pending, failures, ahead, missed>>

(* What the engine does when every matching strategy has been called. *)
JobEnd ==
    /\ phase = "job" /\ job.left = {}
    /\ phase' = "idle"
    /\ job' = NoJob
    /\ reconcile' = IF job.kind = "stream" /\ HasFailures THEN TRUE ELSE reconcile
    /\ UNCHANGED <<streamVars, health, drained, lifecycle, ready, everReady,
                   failedFirst, pending, failures, ahead, missed>>

(* Another fatal decision of the loop, or the operator's Ctrl-C. *)
Stop ==
    /\ phase = "idle"
    /\ Exit
    /\ UNCHANGED <<trackerVars, pending, streamVars, health, drained, lifecycle, failures,
                   ahead, missed>>

Terminated == phase = "exited" /\ UNCHANGED vars

Engine ==
    \/ Startup \/ HealthEvent \/ DrainNext \/ DrainEnd
    \/ Arrives("timer") \/ Arrives("event")
    \/ Timer \/ PrivateEvent \/ ServerTimeFailure \/ EventDropped \/ PendingCandle
    \/ \E s \in Strategies : ConfirmedCandle(s) \/ InstrumentUpdated(s)
    \/ StrategyOk \/ StrategyError \/ StrategyTimeout \/ JobEnd

Init ==
    /\ conn = [s \in Streams |-> "down"]
    /\ outbox = [s \in Streams |-> "none"]
    /\ health = <<>>
    /\ faults = 0
    /\ phase = "startup"
    /\ drained = 0
    /\ lifecycle = FALSE
    /\ ready = {} /\ everReady = {} /\ failedFirst = {}
    /\ reconcile = FALSE
    /\ pending = {}
    /\ failures = [s \in Strategies |-> 0]
    /\ job = NoJob
    /\ ahead = {}
    /\ missed = {}
    /\ dropped = FALSE

(* When the engine is gone the stream tasks are aborted. *)
Next ==
    \/ phase # "exited" /\ \E s \in Streams : Stream(s)
    \/ Engine
    \/ Stop
    \/ Terminated

Spec == Init /\ [][Next]_vars

(* The loop never stops polling its channels and timers and every call it  *)
(* waits for is bounded by a timeout; a stream task retries for ever.      *)
(* There is no strong fairness: nothing in the code makes sure that an arm *)
(* behind the timer ever gets its turn.                                    *)
Fairness ==
    /\ WF_vars(Startup) /\ WF_vars(HealthEvent) /\ WF_vars(DrainNext) /\ WF_vars(DrainEnd)
    /\ WF_vars(Arrives("timer")) /\ WF_vars(Timer)
    /\ WF_vars(PrivateEvent \/ ServerTimeFailure \/ EventDropped) /\ WF_vars(PendingCandle)
    /\ WF_vars(StrategyOk \/ StrategyError \/ StrategyTimeout) /\ WF_vars(JobEnd)
    /\ \A s \in Streams : WF_vars(Deliver(s) \/ GiveUp(s)) /\ WF_vars(Attempt(s))

FairSpec == Spec /\ Fairness

-----------------------------------------------------------------------------
(* Properties.                                                             *)

Quiet == health = <<>> /\ \A s \in Streams : Silent(s)

(* Types, and the failure counters stay below the limit as long as the     *)
(* runtime runs (StrategyTickFailureTracker).                              *)
TypeOK ==
    /\ conn \in [Streams -> {"down", "up", "dead"}]
    /\ outbox \in [Streams -> EventKind \cup {"none"}]
    /\ health \in Seq([stream : Streams, kind : EventKind])
    /\ Len(health) <= Capacity
    /\ faults \in 0 .. MaxFaults
    /\ phase \in {"startup", "idle", "drain", "job", "exited"}
    /\ drained \in 0 .. Capacity + 1
    /\ phase # "drain" => drained = 0
    /\ lifecycle \in BOOLEAN /\ reconcile \in BOOLEAN
    /\ ready \subseteq everReady /\ everReady \subseteq Streams
    /\ failedFirst \subseteq Streams \ everReady
    /\ pending \subseteq Strategies
    /\ failures \in [Strategies -> 0 .. MaxStrikes]
    /\ job \in [kind : JobKind, left : SUBSET Strategies]
    /\ ahead \subseteq {"event", "timer"}
    /\ missed \subseteq Strategies /\ dropped \in BOOLEAN
    /\ phase # "exited" => \A s \in Strategies : failures[s] < MaxStrikes

(* After every gap of a stream - a subscription that was lost or made, a   *)
(* task that died - no strategy is dispatched through an open gate before  *)
(* it has read the exchange over REST, once the report of the gap is out   *)
(* of the way: neither in its task, nor in the channel.  It holds even if  *)
(* reports were dropped because the channel was full, and across failed    *)
(* and repeated reconciliations (websocket_health_decision,                *)
(* websocket_reconciliation_decision).                                     *)
GapsReachTheGate ==
    phase = "idle" /\ GateOpen /\ Quiet => missed = {}

(* When nothing is left to be reported, the gate is open only if every     *)
(* stream really is subscribed, as long as report_critical never had to    *)
(* give a report up because the channel was full.                          *)
OpenGateMeansUp ==
    ~dropped /\ phase = "idle" /\ GateOpen /\ Quiet => \A s \in Streams : conn[s] = "up"

AllUp == \A s \in Streams : conn[s] = "up"

(* Once nothing is left to be reported, a gap is reconciled by every       *)
(* strategy, however often a reconciliation fails and however long the     *)
(* dispatches take, unless a stream is not ready or has something new to   *)
(* report, or the runtime stops: the timer arm is enough for it            *)
(* (reconciliation_timer_decision, websocket_reconciliation_decision).     *)
GapsGetReconciled ==
    missed # {} /\ Quiet ~> missed = {} \/ ~Quiet \/ ~AllReady \/ phase = "exited"

(* What the code hopes for of its dispatches: again and again one ends     *)
(* before the timer is due and a private event has arrived.                *)
Breathes == []<>FirstArms

(* If so, a candle that was deferred behind the closed gate is dispatched, *)
(* unless a critical report is dropped, a stream goes down again, a        *)
(* strategy keeps failing or the runtime stops (defer_confirmed_candle,    *)
(* take_ready_confirmed_candle).  Without the premise it may never be.     *)
DeferredCandleRuns ==
    Breathes =>
        \A s \in Strategies :
            s \in pending ~> s \notin pending \/ dropped \/ ~AllUp \/ HasFailures
                                \/ phase = "exited"
=============================================================================
