------------------------------ MODULE DeadMan ------------------------------
(***************************************************************************)
(* The life of the runtime (TradingEngine::run in app/live.rs) around the  *)
(* OKX Cancel-All-After dead-man switch: arming it before anything trades, *)
(* the independent heartbeat task that refreshes it                        *)
(* (app/cancel_all_after_heartbeat.rs), dispatches during which the loop   *)
(* looks at nothing else, operator shutdown, fatal exit, and the death of  *)
(* the process.                                                            *)
(*                                                                         *)
(* Time is discrete.  Tick may not skip a deadline the code sets, so a     *)
(* timer is late by at most Lag.  The exchange cancels every order of the  *)
(* account when the switch has not been refreshed for T.                   *)
(***************************************************************************)
EXTENDS Integers

CONSTANTS
    T,              \* the Cancel-All-After window
    N,              \* enabled strategies
    ArmLag,         \* longest delay of the acknowledgement of the first arming
    Lag,            \* how late a due timer of the heartbeat is served
    Budget,         \* longest dispatch: twice tick_timeout_ms per strategy
    LateRequests    \* may a request whose caller gave up still take effect?

(* OkxCancelAllAfterTimeout::new; the unit is free, three of them at least. *)
ASSUME TAssumption == T \in Nat /\ T >= 3
ASSUME DeadManNAssumption == N \in Nat \ {0}
ASSUME LagAssumption == ArmLag \in Nat /\ Lag \in Nat /\ Budget \in Nat
ASSUME LateRequestsAssumption == LateRequests \in BOOLEAN

VARIABLES
    phase,      \* where run() is
    exit,       \* how it ended
    switch,     \* at the exchange: "off", "armed" or "fired"
    left,       \* at the exchange: time until an armed switch fires
    heartbeat,  \* the heartbeat task
    since,      \* time since the heartbeat's last interval tick; while arming,
                \* since the switch was armed
    landed,     \* the request of the heartbeat (or the arming) has taken effect
    late,       \* a request whose caller gave up is still on its way
    attempted,  \* cancel_all_after_armed or cancel_all_after_arm_attempted
    work,       \* time the dispatch under way has taken
    togo,       \* strategies whose shutdown has not been called
    err         \* shutdown_error.is_some()

vars == <<phase, exit, switch, left, heartbeat, since, landed, late, attempted, work,
          togo, err>>

(* Bug: no refresh margin. *)
WholeWindow == T

(* cancel_all_after_heartbeat_period, also the deadline of one refresh *)
Period == T \div 3

Alive == heartbeat \in {"waiting", "refreshing"}

-----------------------------------------------------------------------------
(* The exchange.                                                           *)

ArmSwitch == switch' = "armed" /\ left' = T

SwitchUnchanged == UNCHANGED <<switch, left>>

(* A request whose caller is dropped may still be on its way. *)
Abandon == late' = (late \/ (LateRequests /\ heartbeat = "refreshing" /\ ~landed))

LateLands ==
    /\ late
    /\ ArmSwitch
    /\ late' = FALSE
    /\ UNCHANGED <<phase, exit, heartbeat, since, landed, attempted, work, togo, err>>

-----------------------------------------------------------------------------
(* The ways out of run().                                                  *)

(* Bug: the heartbeat goes on. *)
LeaveRefreshing(reason) ==
    /\ phase' = "exited"
    /\ exit' = reason
    /\ late' = late
    /\ UNCHANGED <<heartbeat, switch, left, since, landed, attempted, work, togo, err>>

(* run() returns, or the process ends: the heartbeat is aborted, and the   *)
(* switch is left as it is.                                                *)
Leave(reason) ==
    /\ phase' = "exited"
    /\ exit' = reason
    /\ heartbeat' = IF Alive THEN "stopped" ELSE heartbeat
    /\ Abandon
    /\ UNCHANGED <<switch, left, since, landed, attempted, work, togo, err>>

(* The process is killed. *)
Crash == phase # "exited" /\ Leave("killed")

-----------------------------------------------------------------------------
(* startup()                                                               *)

(* preflight_strategy_enabled_account and the building of the strategies;  *)
(* then refresh_cancel_all_after sends its request.                        *)
Preflight ==
    /\ phase = "preflight"
    /\ \/ Leave("fatal")
       \/ /\ phase' = "arming"
          /\ attempted' = TRUE
          /\ UNCHANGED <<exit, switch, left, heartbeat, since, landed, late, work, togo, err>>

ArmLands ==
    /\ phase = "arming" /\ ~landed
    /\ ArmSwitch
    /\ landed' = TRUE
    /\ since' = 0
    /\ UNCHANGED <<phase, exit, heartbeat, late, attempted, work, togo, err>>

(* The acknowledgement arrives and start_cancel_all_after_heartbeat runs. *)
ArmAcked ==
    /\ phase = "arming" /\ landed
    /\ phase' = "initializing"
    /\ heartbeat' = "waiting"
    /\ since' = 0
    /\ UNCHANGED <<exit, switch, left, landed, late, attempted, work, togo, err>>

ArmFails ==
    /\ phase = "arming"
    /\ phase' = "exited"
    /\ exit' = "fatal"
    /\ late' = (LateRequests /\ ~landed)
    /\ UNCHANGED <<switch, left, heartbeat, since, landed, attempted, work, togo, err>>

(* Streams start and every strategy is initialized. *)
Initialize ==
    /\ phase = "initializing"
    /\ \/ Leave("fatal")
       \/ /\ phase' = "idle"
          /\ UNCHANGED <<exit, switch, left, heartbeat, since, landed, late, attempted, work, togo, err>>

-----------------------------------------------------------------------------
(* The heartbeat task.                                                     *)

(* The interval is due. *)
RefreshSend ==
    /\ heartbeat = "waiting"
    /\ since >= Period
    /\ heartbeat' = "refreshing"
    /\ since' = 0
    /\ landed' = FALSE
    /\ UNCHANGED <<phase, exit, switch, left, late, attempted, work, togo, err>>

RefreshLands ==
    /\ heartbeat = "refreshing" /\ ~landed
    /\ ArmSwitch
    /\ landed' = TRUE
    /\ UNCHANGED <<phase, exit, heartbeat, since, late, attempted, work, togo, err>>

RefreshAcked ==
    /\ heartbeat = "refreshing" /\ landed
    /\ heartbeat' = "waiting"
    /\ UNCHANGED <<phase, exit, switch, left, since, landed, late, attempted, work, togo, err>>

(* An error, or the refresh deadline: the failure is put in the channel    *)
(* and the task ends.                                                      *)
RefreshFails ==
    /\ heartbeat = "refreshing"
    /\ heartbeat' = "reported"
    /\ Abandon
    /\ UNCHANGED <<phase, exit, switch, left, since, landed, attempted, work, togo, err>>

(* The task panics: its failure channel closes without a failure. *)
HeartbeatPanics ==
    /\ Alive
    /\ heartbeat' = "gone"
    /\ Abandon
    /\ UNCHANGED <<phase, exit, switch, left, since, landed, attempted, work, togo, err>>

-----------------------------------------------------------------------------
(* run_loop().  The first arm of the biased select! is the heartbeat's.    *)

HeartbeatFailure ==
    /\ phase = "idle"
    /\ \/ heartbeat = "reported" /\ Leave("fatal")
       \/ heartbeat = "gone" /\ Leave("error")

Selectable == phase = "idle" /\ heartbeat \notin {"reported", "gone"}

(* Bug: any arm of the select! may win. *)
BeginDispatchUnbiased ==
    /\ phase = "idle"
    /\ phase' = "busy"
    /\ work' = 0
    /\ UNCHANGED <<exit, switch, left, heartbeat, since, landed, late, attempted, togo, err>>

BeginDispatch ==
    /\ Selectable
    /\ phase' = "busy"
    /\ work' = 0
    /\ UNCHANGED <<exit, switch, left, heartbeat, since, landed, late, attempted, togo, err>>

(* The dispatch ends, within its budget: the loop goes on or a strategy    *)
(* failure is fatal.                                                       *)
EndDispatch ==
    /\ phase = "busy"
    /\ \/ Leave("fatal")
       \/ /\ phase' = "idle"
          /\ UNCHANGED <<exit, switch, left, heartbeat, since, landed, late, attempted, work, togo, err>>

(* Another decision of the loop is fatal: account configuration, health,   *)
(* a closed channel.                                                       *)
FatalDecision == Selectable /\ Leave("fatal")

(* tokio::signal::ctrl_c() is made anew by every select!: a signal that    *)
(* comes during a dispatch is seen by nobody and changes nothing.  Before  *)
(* the first poll SIGINT has its default effect.                           *)
CtrlC ==
    \/ /\ phase \in {"preflight", "arming", "initializing"}
       /\ Leave("killed")
    \/ /\ Selectable
       /\ phase' = "cleanup"
       /\ UNCHANGED <<exit, switch, left, heartbeat, since, landed, late, attempted, work, togo, err>>

-----------------------------------------------------------------------------
(* shutdown_for_operator()                                                 *)

(* Every strategy is shut down, also after one has failed. *)
Cleanup ==
    /\ phase = "cleanup" /\ togo > 0
    /\ togo' = togo - 1
    /\ err' \in {err, TRUE}
    /\ UNCHANGED <<phase, exit, switch, left, heartbeat, since, landed, late, attempted, work>>

(* The server-time refresher and the heartbeat are stopped; a task that    *)
(* panicked is an error.                                                   *)
StopTasks ==
    /\ phase = "cleanup" /\ togo = 0
    /\ heartbeat' = IF Alive THEN "stopped" ELSE heartbeat
    /\ Abandon
    /\ err' \in {err \/ heartbeat = "gone", TRUE}
    /\ phase' = "disarm"
    /\ UNCHANGED <<exit, switch, left, since, landed, attempted, work, togo>>

(* Bug: the result of the cleanup is not looked at. *)
DisarmAlways ==
    /\ phase = "disarm"
    /\ switch' = "off" /\ left' = 0
    /\ attempted' = FALSE
    /\ phase' = "exited" /\ exit' = "clean"
    /\ UNCHANGED <<heartbeat, since, landed, late, work, togo, err>>

(* disarm_cancel_all_after: acknowledged ... *)
Disarm ==
    /\ phase = "disarm" /\ ~err
    /\ switch' = "off" /\ left' = 0
    /\ attempted' = FALSE
    /\ phase' = "exited" /\ exit' = "clean"
    /\ UNCHANGED <<heartbeat, since, landed, late, work, togo, err>>

(* ... or not, whatever became of it ... *)
DisarmFails ==
    /\ phase = "disarm" /\ ~err
    /\ \/ switch' = "off" /\ left' = 0
       \/ SwitchUnchanged
    /\ phase' = "exited" /\ exit' = "ambiguous"
    /\ UNCHANGED <<attempted, heartbeat, since, landed, late, work, togo, err>>

(* ... or skipped, because something went wrong before. *)
SkipDisarm ==
    /\ phase = "disarm" /\ err
    /\ Leave("ambiguous")

-----------------------------------------------------------------------------
(* Time.                                                                   *)

Tick ==
    /\ Alive => since < Period + Lag
    /\ phase = "arming" /\ landed => since < ArmLag
    /\ phase = "busy" => work < Budget
    /\ phase = "idle" => heartbeat \notin {"reported", "gone"}
    /\ since' = IF Alive \/ (phase = "arming" /\ landed) THEN since + 1 ELSE since
    /\ work' = IF phase = "busy" THEN work + 1 ELSE work
    /\ left' = IF switch = "armed" THEN left - 1 ELSE left
    /\ switch' = IF switch = "armed" /\ left = 1 THEN "fired" ELSE switch
    /\ UNCHANGED <<phase, exit, heartbeat, landed, late, attempted, togo, err>>

Init ==
    /\ phase = "preflight" /\ exit = "none"
    /\ switch = "off" /\ left = 0
    /\ heartbeat = "none" /\ since = 0 /\ landed = FALSE /\ late = FALSE
    /\ attempted = FALSE
    /\ work = 0
    /\ togo = N /\ err = FALSE

Startup == Preflight \/ ArmLands \/ ArmAcked \/ ArmFails \/ Initialize
Heartbeat == RefreshSend \/ RefreshLands \/ RefreshAcked \/ RefreshFails \/ HeartbeatPanics
Loop == HeartbeatFailure \/ BeginDispatch \/ EndDispatch \/ FatalDecision
Shutdown == Cleanup \/ StopTasks \/ Disarm \/ DisarmFails \/ SkipDisarm

Next == Startup \/ Heartbeat \/ Loop \/ CtrlC \/ Shutdown \/ LateLands \/ Crash \/ Tick

Spec == Init /\ [][Next]_vars

(* Time passes, tasks are scheduled, and every call ends: the REST client  *)
(* has a request timeout and a dispatch a tick timeout.                    *)
Fairness ==
    /\ WF_vars(Tick)
    /\ WF_vars(Preflight) /\ WF_vars(ArmAcked \/ ArmFails) /\ WF_vars(Initialize)
    /\ WF_vars(RefreshSend) /\ WF_vars(RefreshAcked \/ RefreshFails)
    /\ WF_vars(HeartbeatFailure) /\ WF_vars(EndDispatch)
    /\ WF_vars(Shutdown)

FairSpec == Spec /\ Fairness

-----------------------------------------------------------------------------
(* Properties.                                                             *)

(* Types: the strategies left to shut down and the time of a dispatch stay *)
(* within their bounds, and an armed switch has time left.                 *)
TypeOK ==
    /\ phase \in {"preflight", "arming", "initializing", "idle", "busy", "cleanup",
                  "disarm", "exited"}
    /\ exit \in {"none", "clean", "ambiguous", "fatal", "error", "killed"}
    /\ switch \in {"off", "armed", "fired"}
    /\ left \in 0 .. T
    /\ heartbeat \in {"none", "waiting", "refreshing", "reported", "gone", "stopped"}
    /\ since \in Nat
    /\ landed \in BOOLEAN /\ late \in BOOLEAN /\ attempted \in BOOLEAN
    /\ work \in 0 .. Budget
    /\ togo \in 0 .. N
    /\ err \in BOOLEAN
    /\ switch = "armed" <=> left > 0

(* The worst case of a refresh that arrives late follows one that arrived  *)
(* early: period and deadline are a third of the window each.              *)
RefreshInTime == ArmLag + 2 * (Period + Lag) < T

(* As long as the heartbeat task lives the switch is armed: it never fires *)
(* under a healthy runtime, whatever the loop is doing                     *)
(* (run_cancel_all_after_heartbeat).                                       *)
SwitchHeld == Alive => switch = "armed"

(* What is left of the window when a heartbeat fails at the worst moment. *)
Margin == T - (ArmLag + 2 * (Period + Lag))

(* A dispatch under way when the exchange has canceled the account's       *)
(* orders has been under way for that long: none begins after the switch   *)
(* fired or shortly before (run_loop, the biased heartbeat arm), and one   *)
(* that is shorter ends under an armed switch.                             *)
OnlyLongDispatchesOutliveSwitch == phase = "busy" /\ switch # "armed" => work >= Margin

(* Once the heartbeat was started the switch is off only after every       *)
(* strategy and both tasks were shut down without an error: fatal exits,   *)
(* failed cleanups and dead processes leave it to the exchange             *)
(* (fail_closed_for_fatal_error, shutdown_for_operator).                   *)
FailClosed ==
    heartbeat # "none" /\ switch = "off" =>
        phase = "exited" /\ togo = 0 /\ ~err /\ ~Alive /\ exit \in {"clean", "ambiguous"}

(* A failure the heartbeat reports ends the runtime, whatever it is doing. *)
HeartbeatFailureExits == heartbeat = "reported" ~> phase = "exited"

(* When the runtime is gone, an armed switch fires unless the shutdown was *)
(* clean.                                                                  *)
UncleanExitFires ==
    phase = "exited" /\ exit # "clean" /\ switch = "armed" ~> switch = "fired"
=============================================================================
