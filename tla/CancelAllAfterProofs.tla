--------------------------- MODULE CancelAllAfterProofs ----------------------
(***************************************************************************)
(* Proofs about DeadMan for every window, every number of strategies and   *)
(* every delay, and about DemoPrograms for every instrument, every number  *)
(* of attempts and every number of deposits.                               *)
(***************************************************************************)
EXTENDS DeadMan, DemoPrograms, TLAPS

(* Where run() is fixes what the heartbeat and the switch can be.  It      *)
(* holds whatever the delays are.                                          *)
ControlInv ==
    /\ phase \in {"preflight", "arming"} => heartbeat = "none"
    /\ phase = "preflight" => ~landed
    /\ phase = "arming" /\ landed => switch # "off"
    /\ phase \in {"initializing", "idle", "busy", "cleanup", "disarm"} =>
          heartbeat # "none" /\ switch # "off"
    /\ phase \in {"initializing", "idle", "busy", "cleanup"} => heartbeat # "stopped"
    /\ phase = "disarm" => togo = 0
    /\ phase \in {"disarm", "exited"} => ~Alive
    /\ FailClosed

(* The age of the last refresh never exceeds what the heartbeat's timers   *)
(* allow: the time since its last interval tick, plus one whole period if  *)
(* the refresh sent at that tick has not arrived yet.                      *)
Age == T - left

TimeInv ==
    /\ phase = "arming" /\ landed => switch = "armed" /\ since <= ArmLag /\ Age <= since
    /\ Alive => /\ switch = "armed"
                /\ since <= Period + Lag
                /\ Age <= ArmLag + since
                            + (IF heartbeat = "refreshing" /\ ~landed THEN Period + Lag ELSE 0)

(* A dispatch starts under a living heartbeat, so the last refresh is as   *)
(* old as a failure can make it plus the time the dispatch has taken, or   *)
(* the switch has fired by then.                                           *)
BusyInv ==
    phase = "busy" => Age <= ArmLag + 2 * (Period + Lag) + work

-----------------------------------------------------------------------------

(* The heartbeat's period is a number. *)
LEMMA PeriodNat == Period \in Nat
BY TAssumption DEF Period

(* The initial state satisfies all of them. *)
LEMMA InitEstablishes == Init => TypeOK /\ ControlInv /\ TimeInv /\ BusyInv
<1> SUFFICES ASSUME Init PROVE TypeOK /\ ControlInv /\ TimeInv /\ BusyInv
  OBVIOUS
<1>1. left \in 0 .. T /\ since \in Nat /\ work \in 0 .. Budget /\ togo \in 0 .. N
  BY TAssumption, DeadManNAssumption, LagAssumption DEF Init
<1>2. switch = "armed" <=> left > 0
  BY DEF Init
<1>3. TypeOK
  BY <1>1, <1>2 DEF Init, TypeOK
<1>4. ControlInv /\ TimeInv /\ BusyInv
  BY DEF Init, ControlInv, TimeInv, BusyInv, FailClosed, Alive
<1> QED BY <1>3, <1>4

(* The type invariant in two halves: the flags ... *)
Flags ==
    landed \in BOOLEAN /\ late \in BOOLEAN /\ attempted \in BOOLEAN
    /\ err \in BOOLEAN

(* ... and the rest. *)
States ==
    /\ phase \in {"preflight", "arming", "initializing", "idle", "busy", "cleanup",
                  "disarm", "exited"}
    /\ exit \in {"none", "clean", "ambiguous", "fatal", "error", "killed"}
    /\ switch \in {"off", "armed", "fired"}
    /\ heartbeat \in {"none", "waiting", "refreshing", "reported", "gone", "stopped"}
    /\ since \in Nat
    /\ work \in 0 .. Budget
    /\ togo \in 0 .. N
    /\ left \in 0 .. T
    /\ switch = "armed" <=> left > 0

(* The type invariant is about flags and about states. *)
LEMMA TypeHalves == TypeOK <=> Flags /\ States
BY DEF TypeOK, Flags, States

(* Every step keeps the flags Boolean. *)
LEMMA FlagsPreserved == Flags /\ [Next]_vars => Flags'
<1> SUFFICES ASSUME Flags, [Next]_vars PROVE Flags'
  OBVIOUS
<1> USE DEF Flags
<1>1. ASSUME NEW reason, Leave(reason) PROVE Flags'
  BY <1>1 DEF Leave, Abandon
<1>2. CASE Preflight \/ Initialize
  BY <1>1, <1>2 DEF Preflight, Initialize
<1>3. CASE ArmLands \/ ArmAcked \/ ArmFails
  BY <1>3 DEF ArmLands, ArmAcked, ArmFails
<1>4. CASE Heartbeat
  BY <1>4 DEF Heartbeat, RefreshSend, RefreshLands, RefreshAcked, RefreshFails,
              HeartbeatPanics, Abandon
<1>5. CASE Loop
  BY <1>1, <1>5 DEF Loop, HeartbeatFailure, FatalDecision, BeginDispatch, EndDispatch
<1>6. CASE CtrlC
  BY <1>1, <1>6 DEF CtrlC
<1>7. CASE Cleanup \/ StopTasks
  BY <1>7 DEF Cleanup, StopTasks, Abandon
<1>8. CASE Disarm \/ DisarmFails
  BY <1>8 DEF Disarm, DisarmFails
<1>9. CASE SkipDisarm \/ Crash
  BY <1>1, <1>9 DEF SkipDisarm, Crash
<1>10. CASE LateLands
  BY <1>10 DEF LateLands
<1>11. CASE Tick
  BY <1>11 DEF Tick
<1>12. CASE UNCHANGED vars
  BY <1>12 DEF vars
<1> QED
  BY <1>2, <1>3, <1>4, <1>5, <1>6, <1>7, <1>8, <1>9, <1>10, <1>11, <1>12
     DEF Next, Startup, Shutdown

(* Every step keeps the types of the rest. *)
LEMMA StatesPreserved == States /\ [Next]_vars => States'
<1> SUFFICES ASSUME States, [Next]_vars PROVE States'
  OBVIOUS
<1> USE TAssumption, DeadManNAssumption, LagAssumption DEF States
<1>1. ASSUME NEW reason \in {"fatal", "error", "killed", "ambiguous"}, Leave(reason)
      PROVE  States'
  BY <1>1 DEF Leave
<1>2. CASE Preflight \/ Initialize
  BY <1>1, <1>2 DEF Preflight, Initialize
<1>3. CASE ArmLands \/ RefreshLands \/ LateLands
  BY <1>3 DEF ArmLands, RefreshLands, LateLands, ArmSwitch
<1>4. CASE ArmAcked \/ ArmFails
  BY <1>4 DEF ArmAcked, ArmFails
<1>5. CASE RefreshSend \/ RefreshAcked \/ RefreshFails \/ HeartbeatPanics
  BY <1>5 DEF RefreshSend, RefreshAcked, RefreshFails, HeartbeatPanics
<1>6. CASE HeartbeatFailure \/ FatalDecision \/ SkipDisarm \/ Crash
  BY <1>1, <1>6 DEF HeartbeatFailure, FatalDecision, SkipDisarm, Crash
<1>7. CASE BeginDispatch
  BY <1>7 DEF BeginDispatch
<1>8. CASE EndDispatch
  BY <1>1, <1>8 DEF EndDispatch
<1>9. CASE CtrlC
  BY <1>1, <1>9 DEF CtrlC
<1>10. CASE Cleanup
  BY <1>10 DEF Cleanup
<1>11. CASE StopTasks
  BY <1>11 DEF StopTasks
<1>12. CASE Disarm \/ DisarmFails
  BY <1>12 DEF Disarm, DisarmFails, SwitchUnchanged
<1>13. CASE Tick
  BY <1>13 DEF Tick
<1>14. CASE UNCHANGED vars
  BY <1>14 DEF vars
<1> QED
  BY <1>2, <1>3, <1>4, <1>5, <1>6, <1>7, <1>8, <1>9, <1>10, <1>11, <1>12, <1>13, <1>14
     DEF Next, Startup, Heartbeat, Loop, Shutdown

(* Every step keeps the types. *)
LEMMA TypePreserved == TypeOK /\ [Next]_vars => TypeOK'
<1>1. TypeOK' <=> Flags' /\ States'
  BY DEF TypeOK, Flags, States
<1> QED BY <1>1, TypeHalves, FlagsPreserved, StatesPreserved

(* Every step keeps the control invariant. *)
LEMMA ControlPreserved == TypeOK /\ ControlInv /\ [Next]_vars => ControlInv'
<1> SUFFICES ASSUME TypeOK, ControlInv, [Next]_vars PROVE ControlInv'
  OBVIOUS
<1> USE DEF ControlInv, FailClosed, Alive
<1>1. ASSUME NEW reason, Leave(reason), phase # "exited"
      PROVE  ControlInv'
  BY <1>1 DEF Leave, Abandon, TypeOK
<1>2. CASE Startup
  BY <1>1, <1>2 DEF Startup, Preflight, ArmLands, ArmAcked, ArmFails, Initialize, ArmSwitch,
                    TypeOK
<1>3. CASE Heartbeat
  BY <1>3 DEF Heartbeat, RefreshSend, RefreshLands, RefreshAcked, RefreshFails,
              HeartbeatPanics, ArmSwitch, Abandon, TypeOK
<1>4. CASE Loop
  BY <1>1, <1>4 DEF Loop, HeartbeatFailure, FatalDecision, BeginDispatch, EndDispatch,
                    Selectable, TypeOK
<1>5. CASE CtrlC
  BY <1>1, <1>5 DEF CtrlC, Selectable, TypeOK
<1>6. CASE Shutdown
  <2>1. CASE Cleanup
    BY <2>1 DEF Cleanup
  <2>2. CASE StopTasks
    <3>1. /\ phase = "cleanup" /\ phase' = "disarm" /\ togo' = 0
          /\ heartbeat # "none" /\ switch # "off" /\ exit' = exit /\ switch' = switch
          /\ heartbeat' = IF Alive THEN "stopped" ELSE heartbeat
      BY <2>2 DEF StopTasks
    <3> QED BY <2>2, <3>1 DEF StopTasks
  <2>3. CASE Disarm
    BY <2>3 DEF Disarm
  <2>4. CASE DisarmFails
    BY <2>4 DEF DisarmFails, SwitchUnchanged
  <2>5. CASE SkipDisarm
    BY <1>1, <2>5 DEF SkipDisarm
  <2> QED BY <1>6, <2>1, <2>2, <2>3, <2>4, <2>5 DEF Shutdown
<1>7. CASE LateLands
  BY <1>7 DEF LateLands, ArmSwitch
<1>8. CASE Crash
  BY <1>1, <1>8 DEF Crash
<1>9. CASE Tick
  BY <1>9 DEF Tick, TypeOK
<1>10. CASE UNCHANGED vars
  BY <1>10 DEF vars
<1> QED
  BY <1>2, <1>3, <1>4, <1>5, <1>6, <1>7, <1>8, <1>9, <1>10 DEF Next

(* With a window of more than two periods, every step keeps the bound on   *)
(* the age of the last refresh.                                            *)
LEMMA TimePreserved ==
    ASSUME RefreshInTime
    PROVE  TypeOK /\ ControlInv /\ TimeInv /\ [Next]_vars => TimeInv'
<1> SUFFICES ASSUME TypeOK, ControlInv, TimeInv, [Next]_vars PROVE TimeInv'
  OBVIOUS
<1> DEFINE P == Period
<1>0. P \in Nat /\ T \in Nat /\ ArmLag \in Nat /\ Lag \in Nat /\ ArmLag + 2 * (P + Lag) < T
  BY PeriodNat, TAssumption, LagAssumption DEF RefreshInTime
<1> HIDE DEF P
<1> USE DEF TypeOK, TimeInv, Age, Alive, P
<1>1. ASSUME NEW reason, Leave(reason)
      PROVE  TimeInv'
  BY <1>1 DEF Leave
<1>2. CASE Startup
  <2>1. CASE ArmLands
    BY <1>0, <2>1 DEF ArmLands, ArmSwitch, ControlInv
  <2>2. CASE ArmAcked
    BY <1>0, <2>2 DEF ArmAcked
  <2>3. CASE Preflight
    BY <1>1, <2>3 DEF Preflight, ControlInv
  <2>4. CASE ArmFails
    BY <2>4 DEF ArmFails, ControlInv
  <2>5. CASE Initialize
    BY <1>1, <2>5 DEF Initialize
  <2> QED BY <1>2, <2>1, <2>2, <2>3, <2>4, <2>5 DEF Startup
<1>3. CASE Heartbeat
  <2>1. CASE RefreshSend
    BY <1>0, <2>1 DEF RefreshSend, ControlInv
  <2>2. CASE RefreshLands
    BY <1>0, <2>2 DEF RefreshLands, ArmSwitch, ControlInv
  <2>3. CASE RefreshAcked
    BY <1>0, <2>3 DEF RefreshAcked
  <2>4. CASE RefreshFails \/ HeartbeatPanics
    BY <2>4 DEF RefreshFails, HeartbeatPanics, ControlInv
  <2> QED BY <1>3, <2>1, <2>2, <2>3, <2>4 DEF Heartbeat
<1>4. CASE Loop
  BY <1>1, <1>4 DEF Loop, HeartbeatFailure, FatalDecision, BeginDispatch, EndDispatch
<1>5. CASE CtrlC
  BY <1>1, <1>5 DEF CtrlC
<1>6. CASE Shutdown
  <2>1. CASE Cleanup
    BY <2>1 DEF Cleanup
  <2>2. CASE StopTasks
    <3>1. phase' = "disarm" /\ heartbeat' = IF Alive THEN "stopped" ELSE heartbeat
      BY <2>2 DEF StopTasks
    <3> QED BY <3>1
  <2>3. CASE Disarm \/ DisarmFails
    <3>1. phase' = "exited" /\ heartbeat' = heartbeat /\ ~Alive
      BY <2>3 DEF Disarm, DisarmFails, ControlInv
    <3> QED BY <3>1
  <2>4. CASE SkipDisarm
    BY <1>1, <2>4 DEF SkipDisarm
  <2> QED BY <1>6, <2>1, <2>2, <2>3, <2>4 DEF Shutdown
<1>7. CASE LateLands
  BY <1>0, <1>7 DEF LateLands, ArmSwitch
<1>8. CASE Crash
  BY <1>1, <1>8 DEF Crash
<1>9. CASE Tick
  <2>1. CASE phase = "arming" /\ landed
    BY <1>0, <1>9, <2>1 DEF Tick, ControlInv
  <2>2. CASE Alive
    BY <1>0, <1>9, <2>2 DEF Tick, ControlInv
  <2>3. CASE ~Alive /\ ~(phase = "arming" /\ landed)
    BY <1>9, <2>3 DEF Tick
  <2> QED BY <2>1, <2>2, <2>3
<1>10. CASE UNCHANGED vars
  BY <1>10 DEF vars
<1> QED
  BY <1>2, <1>3, <1>4, <1>5, <1>6, <1>7, <1>8, <1>9, <1>10 DEF Next

(* Every step keeps the bound on the age of the last refresh in a          *)
(* dispatch, however long the dispatch.                                    *)
LEMMA BusyPreserved ==
    ASSUME RefreshInTime
    PROVE  TypeOK /\ ControlInv /\ TimeInv /\ BusyInv /\ [Next]_vars => BusyInv'
<1> SUFFICES ASSUME TypeOK, ControlInv, TimeInv, BusyInv, [Next]_vars, phase' = "busy"
             PROVE  (Age <= ArmLag + 2 * (Period + Lag) + work)'
  BY DEF BusyInv
<1>0. /\ Period \in Nat /\ T \in Nat /\ ArmLag \in Nat /\ Lag \in Nat /\ Budget \in Nat
      /\ ArmLag + 2 * (Period + Lag) < T
  BY PeriodNat, TAssumption, LagAssumption DEF RefreshInTime
<1>1. CASE BeginDispatch
  <2>1. Alive
    BY <1>1 DEF BeginDispatch, Selectable, ControlInv, TypeOK, Alive
  <2>2. switch = "armed" /\ Age <= ArmLag + 2 * (Period + Lag)
    BY <1>0, <2>1 DEF TimeInv, Age, TypeOK
  <2> QED
    BY <1>0, <1>1, <2>2 DEF BeginDispatch, Age, TypeOK
<1>2. CASE Tick
  BY <1>0, <1>2 DEF Tick, BusyInv, Age, TypeOK
<1>3. CASE RefreshLands \/ LateLands
  BY <1>0, <1>3 DEF RefreshLands, LateLands, ArmSwitch, BusyInv, Age, TypeOK
<1>4. CASE ~BeginDispatch /\ ~Tick /\ ~RefreshLands /\ ~LateLands
  <2>1. UNCHANGED <<switch, left, work>> /\ phase = "busy"
    BY <1>4
       DEF Next, vars, Startup, Preflight, ArmLands, ArmAcked, ArmFails, Initialize, Heartbeat,
           RefreshSend, RefreshAcked, RefreshFails, HeartbeatPanics, Loop, HeartbeatFailure,
           FatalDecision, EndDispatch, CtrlC, Shutdown, Cleanup, StopTasks, Disarm,
           DisarmFails, SkipDisarm, Crash, Leave
  <2> QED BY <2>1 DEF BusyInv, Age
<1> QED BY <1>1, <1>2, <1>3, <1>4

-----------------------------------------------------------------------------

(* The state always has its type. *)
THEOREM DeadManTypes == Spec => []TypeOK
<1>1. Init => TypeOK
  BY InitEstablishes
<1> QED BY <1>1, TypePreserved, PTL DEF Spec

(* Every exit but a clean one, and every failed cleanup, leaves the switch *)
(* to the exchange: it is off only after every strategy was shut down      *)
(* without an error.  No assumption on timing is needed.                   *)
THEOREM ExitsFailClosed == Spec => []FailClosed
<1>1. Init => TypeOK /\ ControlInv
  BY InitEstablishes
<1>2. TypeOK /\ ControlInv /\ [Next]_vars => TypeOK' /\ ControlInv'
  BY TypePreserved, ControlPreserved
<1>3. ControlInv => FailClosed
  BY DEF ControlInv
<1> QED BY <1>1, <1>2, <1>3, PTL DEF Spec

(* If the first acknowledgement and two late periods fit in the window,    *)
(* the switch never fires while the heartbeat task lives.                  *)
THEOREM HeartbeatHoldsSwitch ==
    ASSUME RefreshInTime PROVE Spec => []SwitchHeld
<1>1. Init => TypeOK /\ ControlInv /\ TimeInv
  BY InitEstablishes
<1>2. TypeOK /\ ControlInv /\ TimeInv /\ [Next]_vars => TypeOK' /\ ControlInv' /\ TimeInv'
  BY TypePreserved, ControlPreserved, TimePreserved
<1>3. TimeInv => SwitchHeld
  BY DEF TimeInv, SwitchHeld
<1> QED BY <1>1, <1>2, <1>3, PTL DEF Spec

(* A dispatch the switch fires under has been under way for as long as     *)
(* what the first acknowledgement and two late periods leave of the        *)
(* window: no dispatch begins after that, whatever its length.             *)
THEOREM DispatchesBeginUnderTheSwitch ==
    ASSUME RefreshInTime PROVE Spec => []OnlyLongDispatchesOutliveSwitch
<1>1. Init => TypeOK /\ ControlInv /\ TimeInv /\ BusyInv
  BY InitEstablishes
<1>2. TypeOK /\ ControlInv /\ TimeInv /\ BusyInv /\ [Next]_vars
        => TypeOK' /\ ControlInv' /\ TimeInv' /\ BusyInv'
  BY TypePreserved, ControlPreserved, TimePreserved, BusyPreserved
<1>3. TypeOK /\ BusyInv => OnlyLongDispatchesOutliveSwitch
  <2> SUFFICES ASSUME TypeOK, BusyInv, phase = "busy", switch # "armed" PROVE work >= Margin
    BY DEF OnlyLongDispatchesOutliveSwitch
  <2>1. left = 0 /\ work \in Nat /\ Age <= ArmLag + 2 * (Period + Lag) + work
    BY LagAssumption DEF TypeOK, BusyInv
  <2>2. Period \in Nat /\ T \in Nat /\ ArmLag \in Nat /\ Lag \in Nat
    BY PeriodNat, TAssumption, LagAssumption
  <2> QED BY <2>1, <2>2 DEF Age, Margin
<1> QED BY <1>1, <1>2, <1>3, PTL DEF Spec

-----------------------------------------------------------------------------
(* DemoPrograms: where a program is, and what its variables hold.          *)

PostOnlyPlaces ==
    {"prepare", "observe", "login", "arm", "place", "watchPlaced", "amend", "watchAmended",
     "confirm", "wsCancel", "watchCanceled", "fallback", "cancel", "settle", "survey", "absent",
     "reconnect", "disarm", "end"}
FillPlaces ==
    {"prepare", "arm", "place", "cancel", "settle", "acquired", "quote", "sell", "settleSale",
     "evidence", "verify", "residual", "disarm", "end"}
SaleOfProbe == {"weigh", "sell", "settleSale", "survey"}
ProbePlaces ==
    {"prepare", "arm", "place", "cancel", "settle", "delta", "cleanup", "disarm", "end"} \cup SaleOfProbe
OcoCleanup ==
    {"cancelOco", "canceled", "liquidate", "sell", "settleSale", "drained"}
OcoOwned ==
    {"delta", "prices", "placeOco", "pending", "execute", "amendOco", "confirmOco", "finish",
     "cleanup", "survey", "disarm"} \cup OcoCleanup
OcoPlaces ==
    {"prepare", "arm", "clean", "plan", "place", "cancel", "settle", "end"} \cup OcoOwned

DemoPlaces == PostOnlyPlaces \cup FillPlaces \cup ProbePlaces \cup OcoPlaces

OrderRecord == [state : OrderStates, size : Nat, filled : Nat, life : Nat, repriced : BOOLEAN]
RunRecord == [pc : DemoPlaces, tries : Nat, failures : BOOLEAN, flag : BOOLEAN,
              stage : {"run", "cleanup"}, scenario : Scenarios, amount : Nat, floor : Nat,
              result : {"none", "ok", "err"}]

(* An order that has not reached OKX has no fill, and its time runs out.   *)
OrderFits(r) ==
    /\ r \in OrderRecord /\ r.filled <= r.size
    /\ r.state \in {"none", "transit"} => r.filled = 0
    /\ r.life <= Lifetime /\ (r.state = "transit" => r.life >= 1)

DemoTypes ==
    /\ program \in Programs
    /\ run \in RunRecord /\ (run.tries < TerminalAttempts \/ run.tries < CleanupAttempts)
    /\ order \in [Ids -> OrderRecord] /\ \A o \in Ids : OrderFits(order[o])
    /\ order["oco"].state = "live" => order["oco"].filled = 0
    /\ leg \in {"none", "tp", "sl"} /\ base \in Int
    /\ caa \in {"off", "armed", "fired"} /\ deposits \in 0 .. MaxDeposits

(* Every program keeps to its own part of the code.                        *)
PlaceInv ==
    /\ program \in PostOnly => run.pc \in PostOnlyPlaces
    /\ program = "fill" => run.pc \in FillPlaces
    /\ program = "probe" => run.pc \in ProbePlaces
    /\ program = "oco" => run.pc \in OcoPlaces
    /\ At("absent") => program = "expired"
    /\ run.result # "none" <=> At("end")
    /\ program = "oco" /\ run.stage = "cleanup" =>
         run.pc \in {"cleanup", "survey", "disarm", "end"} \cup OcoCleanup
    /\ program = "oco" /\ run.stage = "cleanup" /\ run.pc \in OcoCleanup => run.floor = 0

(* The balance of the programs that buy and sell once, and that the sale   *)
(* is of no more than there is: of no more than the program's own purchase *)
(* if it is the probe.                                                     *)
Have == deposits * Lot + Bought

BalanceInv ==
    program # "oco" =>
      /\ base = Have - order["exit"].filled
      /\ order["oco"] = NoOrder /\ order["final"] = NoOrder
      /\ program \in PostOnly => order["exit"] = NoOrder
      /\ order["entry"].filled = 0 \/ order["entry"].filled >= Lot
      /\ order["entry"].state = "transit" => order["entry"].size >= Lot
      /\ program = "fill" => order["exit"].size <= Have
      /\ program = "probe" => order["exit"].size <= Bought

(* The size of the sale is settled when it is placed.                      *)
Before == {"prepare", "observe", "login", "arm", "place"}

SaleInv ==
    program # "oco" =>
      /\ run.pc \in Before => order["entry"].state = "none"
      /\ program = "fill" /\ run.pc \in {"quote", "sell"} => run.amount <= Have
      /\ program = "probe" /\ At("sell") => run.amount <= Bought

(* What the programs know of their entry order.                            *)
EntryInv ==
    /\ program = "expired" => order["entry"].state # "transit"
    /\ program \in PostOnly =>
         /\ At("survey") /\ run.flag => order["entry"].state = "done" /\ order["entry"].filled = 0
         /\ run.pc \in {"reconnect", "disarm"} =>
              order["entry"].state \in {"none", "done"} /\ order["entry"].filled = 0
    /\ program = "probe" =>
         /\ At("cleanup") /\ order["entry"].state = "transit" =>
              order["entry"].life + run.tries <= Lifetime
         /\ run.pc \in SaleOfProbe \cup {"disarm"} => order["entry"].state \in {"none", "done"}

GuardInv ==
    program \notin {"fill", "oco"} =>
      /\ At("place") => caa = "armed"
      /\ Underway("entry") => caa = "armed"

-----------------------------------------------------------------------------
(* Nothing has failed so far.                                              *)
Fine == ~run.failures /\ run.result # "err"

NothingUnderway == \A o \in Ids : order[o].state \in {"none", "done"}
Drained == base - deposits * Lot < Lot

FineInv ==
    Fine =>
      /\ ~(At("cancel") /\ ~run.flag /\ program \in {"probe", "oco"}) =>
           \A o \in Ids : order[o].state # "transit"
      /\ program = "wsAmend" =>
           /\ ~At("fallback")
           /\ At("confirm") => run.flag
           /\ run.pc \in {"wsCancel", "watchCanceled", "settle", "survey", "reconnect", "disarm"} =>
                order["entry"].repriced /\ order["entry"].state \in {"live", "done"}
      /\ program = "fill" =>
           /\ run.pc \in {"verify", "residual", "disarm"} => order["exit"].filled > 0
           /\ run.pc \in {"residual", "disarm"} => NothingUnderway
           /\ At("disarm") => Drained /\ base >= 0
      /\ program = "probe" =>
           /\ run.pc \in SaleOfProbe \cup {"delta", "cleanup", "disarm"} =>
                order["entry"].state = "done"
           /\ run.pc \in SaleOfProbe \cup {"cleanup"} => Bought >= Lot
           /\ At("disarm") => /\ NothingUnderway /\ order["exit"].filled > 0
                              /\ Drained /\ base >= 0
      /\ program = "oco" =>
           /\ run.pc \in OcoOwned => order["entry"].state = "done"
           /\ run.pc \in {"survey", "disarm"} => Drained
           /\ At("disarm") => NothingUnderway /\ base >= 0

DoneInv ==
    run.result = "ok" =>
      /\ NothingUnderway /\ Drained /\ base >= 0 /\ caa = "off"
      /\ program = "wsAmend" => order["entry"].repriced
      /\ program \in {"fill", "probe"} => order["exit"].filled > 0

DemoInv ==
    /\ DemoTypes /\ PlaceInv /\ BalanceInv /\ SaleInv /\ EntryInv /\ GuardInv /\ FineInv /\ DoneInv

(* The places of the programs, one by one.                                 *)
LEMMA PlacesAre ==
    /\ "absent" \in DemoPlaces /\ "acquired" \in DemoPlaces /\ "amend" \in DemoPlaces
    /\ "amendOco" \in DemoPlaces /\ "arm" \in DemoPlaces /\ "cancel" \in DemoPlaces
    /\ "cancelOco" \in DemoPlaces /\ "canceled" \in DemoPlaces /\ "clean" \in DemoPlaces
    /\ "cleanup" \in DemoPlaces /\ "confirm" \in DemoPlaces /\ "confirmOco" \in DemoPlaces
    /\ "delta" \in DemoPlaces /\ "disarm" \in DemoPlaces /\ "drained" \in DemoPlaces
    /\ "end" \in DemoPlaces /\ "evidence" \in DemoPlaces /\ "execute" \in DemoPlaces
    /\ "fallback" \in DemoPlaces /\ "finish" \in DemoPlaces /\ "liquidate" \in DemoPlaces
    /\ "login" \in DemoPlaces /\ "observe" \in DemoPlaces /\ "pending" \in DemoPlaces
    /\ "place" \in DemoPlaces /\ "placeOco" \in DemoPlaces /\ "plan" \in DemoPlaces
    /\ "prepare" \in DemoPlaces /\ "prices" \in DemoPlaces /\ "quote" \in DemoPlaces
    /\ "reconnect" \in DemoPlaces /\ "residual" \in DemoPlaces /\ "sell" \in DemoPlaces
    /\ "settle" \in DemoPlaces /\ "settleSale" \in DemoPlaces /\ "survey" \in DemoPlaces
    /\ "verify" \in DemoPlaces /\ "watchAmended" \in DemoPlaces /\ "watchCanceled" \in DemoPlaces
    /\ "watchPlaced" \in DemoPlaces /\ "weigh" \in DemoPlaces /\ "wsCancel" \in DemoPlaces
BY DEF DemoPlaces, PostOnlyPlaces, FillPlaces, ProbePlaces, SaleOfProbe, OcoPlaces, OcoOwned, OcoCleanup

(* A program's own record after a step.                                    *)
Kept(r, q) ==
    /\ r.failures = q.failures /\ r.flag = q.flag /\ r.stage = q.stage /\ r.scenario = q.scenario
    /\ r.amount = q.amount /\ r.floor = q.floor /\ r.result = q.result

(* A program that goes on keeps everything but its place and its count of  *)
(* attempts.                                                               *)
LEMMA ToIs ==
    ASSUME run \in RunRecord, NEW p \in DemoPlaces
    PROVE  To(p) \in RunRecord /\ To(p).pc = p /\ To(p).tries = 0 /\ Kept(To(p), run)
BY DEF To, RunRecord, Kept

(* A program that notes a failure changes nothing else.                    *)
LEMMA FailingIs ==
    ASSUME NEW r \in RunRecord
    PROVE  /\ Failing(r) \in RunRecord /\ Failing(r).failures = TRUE
           /\ Failing(r).pc = r.pc /\ Failing(r).tries = r.tries /\ Failing(r).flag = r.flag
           /\ Failing(r).stage = r.stage /\ Failing(r).scenario = r.scenario
           /\ Failing(r).amount = r.amount /\ Failing(r).floor = r.floor /\ Failing(r).result = r.result
BY DEF Failing, RunRecord

(* What a program that ends keeps.                                         *)
LEMMA EndedIs ==
    ASSUME run \in RunRecord, NEW res \in {"none", "ok", "err"}
    PROVE  /\ Ended(res) \in RunRecord /\ Ended(res).pc = "end" /\ Ended(res).result = res
           /\ Ended(res).tries = 0 /\ Ended(res).failures = run.failures /\ Ended(res).flag = run.flag
           /\ Ended(res).stage = run.stage /\ Ended(res).floor = run.floor
BY PlacesAre DEF Ended, RunRecord

-----------------------------------------------------------------------------
(* What happens to the orders at OKX short of a placement: what is settled *)
(* stays, what rests may fill and go, what is under way arrives or lapses. *)
OrdersMove ==
    \A o \in Ids :
      /\ o # "oco" => order'[o] = NoOrder \/ order'[o].size = order[o].size
      /\ order[o].state \in {"none", "done"} => order'[o] = order[o]
      /\ order[o].state = "live" =>
           /\ order'[o].state \in {"live", "done"} /\ order'[o].filled >= order[o].filled
           /\ order[o].repriced => order'[o].repriced
      /\ order'[o].state = "transit" =>
           order[o].state = "transit" /\ order'[o].life <= order[o].life

OrdersFit ==
    /\ order \in [Ids -> OrderRecord] /\ \A o \in Ids : OrderFits(order[o])
    /\ order["oco"].state = "live" => order["oco"].filled = 0

Mild ==
    /\ program' = program /\ OrdersFit' /\ leg' \in {"none", "tp", "sl"} /\ base' \in Int
    /\ deposits' \in 0 .. MaxDeposits /\ BalanceInv' /\ OrdersMove
    /\ order["entry"].state \in {"none", "done"} /\ Drained => Drained'
    /\ NothingUnderway => base' >= base
    /\ deposits' >= deposits

(* The constants, from their assumption.                                   *)
LEMMA Sizes ==
    /\ Lot \in Nat /\ MinSize \in Nat /\ Fee \in Nat /\ TerminalAttempts \in Nat
    /\ CleanupAttempts \in Nat /\ Lifetime \in Nat /\ MaxDeposits \in Nat
    /\ Lot > 0 /\ MinSize >= Lot /\ Fee < Lot /\ Lifetime > 0 /\ CleanupAttempts > Lifetime
    /\ TerminalAttempts > 0
BY DemoAssumption

(* What is known of every order.                                           *)
LEMMA OrdersAre ==
    ASSUME DemoTypes
    PROVE  /\ OrdersFit /\ NoOrder \in OrderRecord /\ OrderFits(NoOrder)
           /\ NoOrder.state = "none" /\ NoOrder.filled = 0 /\ NoOrder.size = 0 /\ NoOrder.life = 0
           /\ \A o \in Ids : /\ order[o].state \in OrderStates /\ order[o].size \in Nat
                             /\ order[o].filled \in Nat /\ order[o].life \in Nat
                             /\ order[o].repriced \in BOOLEAN
BY Sizes DEF DemoTypes, OrdersFit, OrderFits, NoOrder, OrderRecord, OrderStates

(* A buy that fills nothing receives nothing.                              *)
LEMMA NetIs ==
    ASSUME NEW n \in Nat
    PROVE  Net(n) \in Int /\ (n = 0 => Net(n) = 0)
BY Sizes DEF Net

(* A larger fill leaves no less, since the fee is less than a lot.         *)
LEMMA NetGrows ==
    ASSUME NEW n \in Nat, NEW m \in Nat, n <= m, m = 0 \/ m >= Lot
    PROVE  Net(n) <= Net(m) /\ Net(m) >= 0
BY Sizes DEF Net

(* A part of an order is nothing or at least a lot.                        *)
LEMMA PartsAre ==
    ASSUME NEW n \in Nat, NEW k \in Parts(n)
    PROVE  k \in Nat /\ k <= n /\ (k = 0 \/ k >= Lot)
<1>1. k \in Nat /\ k <= n /\ k % Lot = 0
  BY DEF Parts
<1>2. k \div Lot \in Nat /\ k = Lot * (k \div Lot) + (k % Lot)
  BY <1>1, Sizes
<1>3. CASE k \div Lot = 0
  BY <1>1, <1>2, <1>3, Sizes
<1>4. CASE k \div Lot >= 1
  <2>1. Lot * (k \div Lot) >= Lot
    BY <1>2, <1>4, Sizes
  <2> QED BY <1>1, <1>2, <2>1, Sizes
<1> QED BY <1>1, <1>2, <1>3, <1>4

(* The quantities of the balance are numbers.                              *)
LEMMA HaveIs ==
    ASSUME DemoTypes
    PROVE  /\ "entry" \in Ids /\ "exit" \in Ids /\ deposits * Lot \in Nat /\ Bought \in Int /\ Have \in Int
           /\ order["entry"].filled \in Nat /\ order["exit"].filled \in Nat
           /\ order["exit"].size \in Nat /\ order["entry"].size \in Nat
           /\ order["exit"].filled <= order["exit"].size
<1>1. "entry" \in Ids /\ "exit" \in Ids
  BY DEF Ids
<1>2. deposits * Lot \in Nat
  BY Sizes DEF DemoTypes
<1>3. /\ order["entry"].filled \in Nat /\ order["exit"].filled \in Nat
      /\ order["exit"].size \in Nat /\ order["entry"].size \in Nat
  BY <1>1, OrdersAre
<1>4. Bought \in Int
  BY <1>3, NetIs DEF Bought
<1>5. Have \in Int
  BY <1>2, <1>4 DEF Have
<1>6. order["exit"].filled <= order["exit"].size
  BY <1>1 DEF DemoTypes, OrderFits
<1> QED BY <1>1, <1>2, <1>3, <1>4, <1>5, <1>6

(* Nothing happens to the orders.                                          *)
LEMMA StillIsMild ==
    ASSUME DemoTypes, BalanceInv, program' = program, order' = order, base' = base,
           deposits' = deposits, leg' = leg
    PROVE  Mild
<1>1. OrdersFit'
  BY OrdersAre DEF OrdersFit, OrderFits
<1>2. OrdersMove
  BY OrdersAre DEF OrdersMove
<1>3. BalanceInv'
  BY DEF BalanceInv, Bought, Have
<1>4. /\ base' \in Int /\ deposits' \in 0 .. MaxDeposits /\ leg' \in {"none", "tp", "sl"}
      /\ base' >= base /\ deposits' >= deposits
  BY DEF DemoTypes
<1> QED BY <1>1, <1>2, <1>3, <1>4 DEF Mild, Drained

(* One order moves, and the balance follows it.                            *)
LEMMA BecomesIsMild ==
    ASSUME DemoTypes, BalanceInv, NEW o \in Ids, NEW r \in OrderRecord, OrderFits(r), Becomes(o, r),
           order[o].state \in {"live", "transit"}, r.state \in {"live", "done"},
           r.filled >= order[o].filled, order[o].state = "live" /\ order[o].repriced => r.repriced,
           o = "oco" /\ r.state = "live" => r.filled = 0, o # "oco" => r.size = order[o].size,
           program # "oco" /\ o = "entry" => r.filled = 0 \/ r.filled >= Lot,
           program' = program, deposits' = deposits, leg' \in {"none", "tp", "sl"}
    PROVE  Mild
<1>0. order' = [order EXCEPT ![o] = r] /\ base' = base + Gain(o, r)
  BY DEF Becomes
<1>1. order \in [Ids -> OrderRecord] /\ base \in Int /\ deposits \in 0 .. MaxDeposits
  BY DEF DemoTypes
<1>2. order'[o] = r /\ \A q \in Ids : q # o => order'[q] = order[q]
  BY <1>0, <1>1
<1>3. OrdersFit'
  <2>1. order' \in [Ids -> OrderRecord]
    BY <1>0, <1>1
  <2>2. \A q \in Ids : OrderFits(order'[q])
    BY <1>2 DEF DemoTypes
  <2>3. order'["oco"].state = "live" => order'["oco"].filled = 0
    BY <1>2, OrdersAre DEF OrdersFit, Ids
  <2> QED BY <2>1, <2>2, <2>3 DEF OrdersFit, OrderFits
<1>4. OrdersMove
  <2>1. ASSUME NEW q \in Ids
        PROVE  /\ q # "oco" => order'[q] = NoOrder \/ order'[q].size = order[q].size
               /\ order[q].state \in {"none", "done"} => order'[q] = order[q]
               /\ order[q].state = "live" =>
                    /\ order'[q].state \in {"live", "done"} /\ order'[q].filled >= order[q].filled
                    /\ order[q].repriced => order'[q].repriced
               /\ order'[q].state = "transit" =>
                    order[q].state = "transit" /\ order'[q].life <= order[q].life
    <3>1. CASE q = o
      BY <1>2, <3>1
    <3>2. CASE q # o
      BY <1>2, <3>2, OrdersAre
    <3> QED BY <3>1, <3>2
  <2> QED BY <2>1 DEF OrdersMove
<1>5. /\ r.filled \in Nat /\ order[o].filled \in Nat /\ Net(r.filled) \in Int
      /\ Net(order[o].filled) \in Int
  BY OrdersAre, NetIs DEF OrderRecord
<1>6. Gain(o, r) \in Int /\ (o # "entry" => Gain(o, r) <= 0)
  BY <1>5 DEF Gain
<1>7. base' \in Int
  BY <1>0, <1>1, <1>6
<1>8. ASSUME program # "oco"
      PROVE  /\ o \in {"entry", "exit"} /\ (program \in PostOnly => o = "entry")
             /\ base' = deposits' * Lot + Bought' - order'["exit"].filled
  <2>1. o \in {"entry", "exit"} /\ (program \in PostOnly => o = "entry")
    BY <1>8, OrdersAre DEF BalanceInv, Ids
  <2>2. base = deposits * Lot + Bought - order["exit"].filled
    <3>1. base = Have - order["exit"].filled
      BY <1>8 DEF BalanceInv
    <3> QED BY <3>1, HaveIs DEF Have
  <2>3. deposits * Lot \in Int /\ Bought = Net(order["entry"].filled)
        /\ Bought' = Net(order'["entry"].filled)
    BY <1>1, Sizes DEF Bought
  <2>4. "entry" \in Ids /\ "exit" \in Ids
    BY DEF Ids
  <2>5. CASE o = "entry"
    <3>1. order'["exit"] = order["exit"] /\ order'["entry"] = r
      BY <1>2, <2>4, <2>5
    <3>2. Gain(o, r) = Net(r.filled) - Net(order["entry"].filled)
      BY <2>5 DEF Gain
    <3>3. order["exit"].filled \in Nat
      BY <2>4, OrdersAre
    <3> QED BY <1>0, <1>1, <1>5, <2>1, <2>2, <2>3, <2>5, <3>1, <3>2, <3>3
  <2>6. CASE o = "exit"
    <3>1. order'["entry"] = order["entry"] /\ order'["exit"] = r
      BY <1>2, <2>4, <2>6
    <3>2. Gain(o, r) = order["exit"].filled - r.filled
      BY <2>6 DEF Gain
    <3>3. Net(order["entry"].filled) \in Int
      BY <2>4, OrdersAre, NetIs
    <3> QED BY <1>0, <1>1, <1>5, <2>1, <2>2, <2>3, <2>6, <3>1, <3>2, <3>3
  <2> QED BY <2>1, <2>5, <2>6
<1>9. BalanceInv'
  <2>1. ASSUME program # "oco"
        PROVE  /\ order'["oco"] = NoOrder /\ order'["final"] = NoOrder
               /\ program \in PostOnly => order'["exit"] = NoOrder
    BY <1>2, <1>8, <2>1 DEF BalanceInv, Ids
  <2>2. ASSUME program # "oco"
        PROVE  /\ order'["entry"].filled = 0 \/ order'["entry"].filled >= Lot
               /\ order'["entry"].state = "transit" => order'["entry"].size >= Lot
               /\ Bought <= Bought' /\ order'["exit"].size = order["exit"].size
    <3>1. o \in {"entry", "exit"} /\ "entry" \in Ids /\ "exit" \in Ids /\ r.state # "transit"
      BY <1>8, <2>2 DEF Ids
    <3>2. /\ order["entry"].filled = 0 \/ order["entry"].filled >= Lot
          /\ order["entry"].state = "transit" => order["entry"].size >= Lot
      BY <2>2 DEF BalanceInv
    <3>3. order'["exit"].size = order["exit"].size
      BY <1>2, <3>1
    <3>4. /\ order'["entry"].filled = 0 \/ order'["entry"].filled >= Lot
          /\ order'["entry"].state = "transit" => order'["entry"].size >= Lot
          /\ order["entry"].filled \in Nat /\ order'["entry"].filled \in Nat
          /\ order["entry"].filled <= order'["entry"].filled
      <4>1. CASE o = "entry"
        BY <1>2, <1>5, <2>2, <3>1, <4>1
      <4>2. CASE o # "entry"
        BY <1>2, <3>1, <3>2, <4>2, HaveIs
      <4> QED BY <4>1, <4>2
    <3> QED BY <3>3, <3>4, NetGrows DEF Bought
  <2>3. ASSUME program # "oco"
        PROVE  /\ base' = Have' - order'["exit"].filled
               /\ program = "fill" => order'["exit"].size <= Have'
               /\ program = "probe" => order'["exit"].size <= Bought'
    <3>1. deposits * Lot \in Int /\ Bought \in Int /\ order["exit"].size \in Int
      BY HaveIs
    <3>2. Bought' \in Int
      <4>1. order'["entry"].filled \in Nat
        BY <1>3 DEF OrdersFit, OrderRecord, Ids
      <4> QED BY <4>1, NetIs DEF Bought
    <3>3. Have <= Have' /\ Have' = deposits' * Lot + Bought'
      BY <2>2, <2>3, <3>1, <3>2 DEF Have
    <3>4. /\ program = "fill" => order["exit"].size <= Have
          /\ program = "probe" => order["exit"].size <= Bought
      BY <2>3 DEF BalanceInv
    <3>5. Have \in Int /\ Have' \in Int
      <4>1. deposits' * Lot \in Int
        BY <3>1
      <4> QED BY <3>1, <3>2, <3>3, <4>1 DEF Have
    <3>6. base' = Have' - order'["exit"].filled
      <4>1. base' = deposits' * Lot + Bought' - order'["exit"].filled
        BY <1>8, <2>3
      <4>2. order'["exit"].filled \in Nat /\ deposits' * Lot \in Int
        BY <1>3, <3>1 DEF OrdersFit, OrderRecord, Ids
      <4> QED BY <3>2, <3>3, <4>1, <4>2
    <3>7. order'["exit"].size = order["exit"].size /\ Bought <= Bought'
      BY <2>2, <2>3
    <3>8. program = "fill" => order'["exit"].size <= Have'
      BY <3>1, <3>3, <3>4, <3>5, <3>7
    <3>9. program = "probe" => order'["exit"].size <= Bought'
      BY <3>1, <3>2, <3>4, <3>7
    <3> QED BY <3>6, <3>8, <3>9
  <2> QED BY <1>8, <2>1, <2>2, <2>3 DEF BalanceInv
<1>10. order["entry"].state \in {"none", "done"} /\ Drained => Drained'
  <2> SUFFICES ASSUME order["entry"].state \in {"none", "done"}, Drained PROVE Drained'
    OBVIOUS
  <2>1. o # "entry"
    OBVIOUS
  <2>2. deposits * Lot \in Int
    BY <1>1, Sizes
  <2> QED BY <1>0, <1>1, <1>6, <2>1, <2>2, Sizes DEF Drained
<1>11. ~NothingUnderway
  BY DEF NothingUnderway
<1>12. deposits' >= deposits
  BY <1>1
<1> QED BY <1>1, <1>3, <1>4, <1>7, <1>9, <1>10, <1>11, <1>12 DEF Mild

(* The orders do not change, except that their time runs out.              *)
LEMMA SameFillsAreMild ==
    ASSUME DemoTypes, BalanceInv, program' = program, base' = base, deposits' = deposits, leg' = leg,
           order' \in [Ids -> OrderRecord], OrdersMove,
           \A o \in Ids : /\ OrderFits(order'[o]) /\ order'[o].filled = order[o].filled
                          /\ order[o] = NoOrder => order'[o] = NoOrder,
           order'["oco"].state = "live" => order["oco"].state = "live"
    PROVE  Mild
<1>1. OrdersFit'
  <2>1. "oco" \in Ids
    BY DEF Ids
  <2> QED BY <2>1, OrdersAre DEF OrdersFit, OrderFits
<1>2. BalanceInv'
  <2>1. {"entry", "exit", "oco", "final"} \subseteq Ids
    BY DEF Ids
  <2>2. Bought' = Bought /\ Have' = Have /\ order'["exit"].filled = order["exit"].filled
    BY <2>1 DEF Bought, Have
  <2>3. order'["exit"].size <= order["exit"].size
    BY <2>1, HaveIs, OrdersAre DEF OrdersMove
  <2>4. order'["entry"].state = "transit" =>
          order["entry"].state = "transit" /\ order'["entry"].size = order["entry"].size
    BY <2>1, OrdersAre DEF OrdersMove
  <2>5. order'["exit"].size \in Nat
    BY <2>1 DEF OrderRecord
  <2>6. \A n \in Int : order["exit"].size <= n => order'["exit"].size <= n
    BY <2>3, <2>5, HaveIs
  <2>7. program = "fill" \/ program = "probe" => program # "oco"
    OBVIOUS
  <2> QED BY <2>1, <2>2, <2>4, <2>6, HaveIs DEF BalanceInv
<1>3. /\ base' \in Int /\ deposits' \in 0 .. MaxDeposits /\ leg' \in {"none", "tp", "sl"}
      /\ base' >= base /\ deposits' >= deposits
  BY DEF DemoTypes
<1> QED BY <1>1, <1>2, <1>3 DEF Mild, Drained

(* What accepting an order of size n can make of it.                       *)
LEMMA AcceptedIs ==
    ASSUME NEW o \in Ids, NEW n \in Nat, NEW r \in Accepted(o, n)
    PROVE  /\ r \in OrderRecord /\ OrderFits(r) /\ r.state \in {"live", "done"}
           /\ o = "oco" => r.state = "live" /\ r.filled = 0
           /\ program = "cross" /\ o = "entry" => r.filled = 0
           /\ r.size = n
           /\ n >= Lot => r.filled = 0 \/ r.filled >= Lot
<1> DEFINE done(k) == [NoOrder EXCEPT !.state = "done", !.size = n, !.filled = k]
           live(k) == [NoOrder EXCEPT !.state = "live", !.size = n, !.filled = k]
<1>1. ASSUME NEW k \in 0 .. n
      PROVE  /\ done(k) \in OrderRecord /\ OrderFits(done(k)) /\ done(k).state = "done"
             /\ live(k) \in OrderRecord /\ OrderFits(live(k)) /\ live(k).state = "live"
             /\ done(k).filled = k /\ live(k).filled = k /\ done(k).size = n /\ live(k).size = n
  <2>1. /\ NoOrder \in OrderRecord /\ NoOrder.life = 0 /\ n \in Nat /\ k \in Nat /\ k <= n
        /\ "live" \in OrderStates /\ "done" \in OrderStates
    BY Sizes DEF NoOrder, OrderRecord, OrderStates
  <2>2. /\ done(k) \in OrderRecord /\ done(k).state = "done" /\ done(k).filled = k
        /\ done(k).size = n /\ done(k).life = 0
    BY <2>1 DEF OrderRecord
  <2>3. /\ live(k) \in OrderRecord /\ live(k).state = "live" /\ live(k).filled = k
        /\ live(k).size = n /\ live(k).life = 0
    BY <2>1 DEF OrderRecord
  <2> HIDE DEF done, live
  <2>4. OrderFits(done(k)) /\ OrderFits(live(k))
    BY <2>1, <2>2, <2>3, Sizes DEF OrderFits
  <2> QED BY <2>2, <2>3, <2>4
<1>2. /\ Parts(n) \subseteq 0 .. n /\ 0 \in 0 .. n /\ n \in 0 .. n
      /\ \A k \in Parts(n) : k = 0 \/ k >= Lot
  BY PartsAre DEF Parts
<1>3. CASE o = "oco"
  <2>1. r = live(0)
    BY <1>3 DEF Accepted
  <2> HIDE DEF done, live
  <2> QED BY <1>1, <1>2, <1>3, <2>1
<1>4. CASE o \in {"exit", "final"}
  <2>1. r = live(0) \/ \E k \in Parts(n) : r = done(k)
    BY <1>4 DEF Accepted
  <2> HIDE DEF done, live
  <2> QED BY <1>1, <1>2, <1>4, <2>1
<1>5. CASE o = "entry"
  <2>1. CASE program = "cross"
    <3>1. r = done(0) \/ r = live(0)
      BY <1>5, <2>1 DEF Accepted
    <3> HIDE DEF done, live
    <3> QED BY <1>1, <1>2, <1>5, <3>1
  <2>2. CASE program \in PostOnly \ {"cross"}
    <3>1. r = live(0)
      BY <1>5, <2>2 DEF Accepted
    <3> HIDE DEF done, live
    <3> QED BY <1>1, <1>2, <1>5, <3>1
  <2>3. CASE program # "cross" /\ program \notin PostOnly \ {"cross"}
    <3>1. r = done(n) \/ \E k \in Parts(n) \ {n} : r = live(k)
      BY <1>5, <2>3 DEF Accepted
    <3> HIDE DEF done, live
    <3> QED BY <1>1, <1>2, <1>5, <2>3, <3>1
  <2> QED BY <2>1, <2>2, <2>3
<1> QED BY <1>3, <1>4, <1>5 DEF Ids

(* A cancel, carried out or not.                                           *)
LEMMA CanceledIsMild ==
    ASSUME DemoTypes, BalanceInv, NEW o \in Ids, Canceled(o),
           program' = program, deposits' = deposits, leg' = leg
    PROVE  Mild
<1>1. leg' \in {"none", "tp", "sl"}
  BY DEF DemoTypes
<1>2. CASE order' = order /\ base' = base
  BY <1>2, StillIsMild
<1>3. CASE order[o].state = "live" /\ Becomes(o, Gone(order[o]))
  <2> DEFINE r == Gone(order[o])
  <2>1. order[o] \in OrderRecord /\ OrderFits(order[o])
    BY DEF DemoTypes
  <2>2. /\ r \in OrderRecord /\ OrderFits(r) /\ r.state = "done" /\ r.filled = order[o].filled
        /\ r.repriced = order[o].repriced /\ r.size = order[o].size
    BY <2>1 DEF Gone, OrderRecord, OrderStates, OrderFits
  <2>3. order[o].filled \in Nat
    BY OrdersAre
  <2> HIDE DEF r
  <2>4. r.filled >= order[o].filled /\ r.state \in {"live", "done"} /\ r.state # "live"
    BY <2>2, <2>3
  <2>5. Becomes(o, r) /\ order[o].state \in {"live", "transit"}
    BY <1>3 DEF r
  <2>6. r \in OrderRecord /\ OrderFits(r) /\ (order[o].state = "live" /\ order[o].repriced => r.repriced)
    BY <2>2
  <2>7. program # "oco" /\ o = "entry" => r.filled = 0 \/ r.filled >= Lot
    BY <2>2 DEF BalanceInv
  <2>8. r.size = order[o].size
    BY <2>2
  <2> QED BY <1>1, <2>4, <2>5, <2>6, <2>7, <2>8, BecomesIsMild
<1> QED BY <1>2, <1>3 DEF Canceled

(* A placement under way arrives.                                          *)
LEMMA ArrivesIsMild ==
    ASSUME DemoTypes, BalanceInv, NEW o \in Ids, Arrives(o)
    PROVE  Mild
<1>1. PICK r \in Accepted(o, order[o].size) : Becomes(o, r)
  BY DEF Arrives
<1>2. order[o].size \in Nat /\ order[o].filled = 0
  BY OrdersAre DEF DemoTypes, OrderFits, Arrives
<1>3. /\ r \in OrderRecord /\ OrderFits(r) /\ r.state \in {"live", "done"} /\ r.filled \in Nat
      /\ o = "oco" => r.state = "live" /\ r.filled = 0
      /\ r.size = order[o].size
      /\ order[o].size >= Lot => r.filled = 0 \/ r.filled >= Lot
  BY <1>2, AcceptedIs DEF OrderRecord
<1>4. leg' \in {"none", "tp", "sl"} /\ order[o].state = "transit" /\ program' = program /\ deposits' = deposits
  BY DEF DemoTypes, Arrives
<1>5. program # "oco" /\ o = "entry" => order[o].size >= Lot
  BY <1>4 DEF BalanceInv
<1> QED BY <1>1, <1>2, <1>3, <1>4, <1>5, BecomesIsMild

(* A regular order trades.                                                 *)
LEMMA TradesIsMild ==
    ASSUME DemoTypes, BalanceInv, NEW o \in Ids, Trades(o)
    PROVE  Mild
<1>1. PICK k \in Parts(order[o].size) :
        k > order[o].filled /\
        Becomes(o, [order[o] EXCEPT !.filled = k,
                      !.state = IF o # "entry" \/ k = order[o].size THEN "done" ELSE "live"])
  BY DEF Trades
<1> DEFINE s == IF o # "entry" \/ k = order[o].size THEN "done" ELSE "live"
           r == [order[o] EXCEPT !.filled = k, !.state = s]
<1>2. order[o] \in OrderRecord /\ OrderFits(order[o]) /\ order[o].state = "live" /\ o # "oco"
  BY DEF DemoTypes, Trades
<1>3. k \in Nat /\ k <= order[o].size /\ k >= order[o].filled /\ (k = 0 \/ k >= Lot)
  BY <1>1, <1>2, PartsAre DEF OrderRecord
<1>4. s \in {"live", "done"}
  OBVIOUS
<1>5. /\ r \in OrderRecord /\ OrderFits(r) /\ r.state = s /\ r.filled = k
      /\ r.repriced = order[o].repriced /\ r.size = order[o].size
  <2> HIDE DEF s
  <2> QED BY <1>2, <1>3, <1>4 DEF OrderRecord, OrderStates, OrderFits
<1>6. leg' \in {"none", "tp", "sl"} /\ program' = program /\ deposits' = deposits
  BY DEF DemoTypes, Trades
<1>7. Becomes(o, r)
  BY <1>1
<1> HIDE DEF r, s
<1> QED BY <1>2, <1>3, <1>4, <1>5, <1>6, <1>7, BecomesIsMild

(* A side of the OCO order executes.                                       *)
LEMMA TriggersIsMild ==
    ASSUME DemoTypes, BalanceInv, Triggers
    PROVE  Mild
<1> DEFINE r == [order["oco"] EXCEPT !.state = "done", !.filled = order["oco"].size]
<1>1. "oco" \in Ids
  BY DEF Ids
<1>2. order["oco"] \in OrderRecord /\ OrderFits(order["oco"]) /\ order["oco"].state = "live"
  BY <1>1 DEF DemoTypes, Triggers
<1>3. /\ r \in OrderRecord /\ r.state = "done" /\ r.filled = order["oco"].size
      /\ r.size = order["oco"].size /\ r.life = order["oco"].life
      /\ r.repriced = order["oco"].repriced
  BY <1>2 DEF OrderRecord, OrderStates
<1>5. order["oco"].size \in Nat /\ order["oco"].filled \in Nat
  BY <1>2 DEF OrderRecord
<1>4. leg' \in {"none", "tp", "sl"} /\ program' = program /\ deposits' = deposits /\ Becomes("oco", r)
  BY DEF Triggers
<1> HIDE DEF r
<1>6. OrderFits(r) /\ r.filled >= order["oco"].filled
  BY <1>2, <1>3, <1>5 DEF OrderFits
<1>7. r.state \in {"live", "done"} /\ r.state # "live" /\ order["oco"].state # "transit"
  BY <1>2, <1>3
<1> QED BY <1>1, <1>2, <1>3, <1>4, <1>6, <1>7, BecomesIsMild

(* The timer runs out.                                                     *)
LEMMA FiresIsMild ==
    ASSUME DemoTypes, BalanceInv, Fires
    PROVE  Mild
<1> DEFINE new(o) == IF o \in OpenOrders THEN Gone(order[o]) ELSE order[o]
<1>1. order' = [o \in Ids |-> new(o)]
  BY DEF Fires
<1>2. ASSUME NEW o \in Ids
      PROVE  /\ new(o) \in OrderRecord /\ OrderFits(new(o)) /\ new(o).filled = order[o].filled
             /\ order[o].state = "live" \/ new(o) = order[o]
             /\ new(o) = order[o] \/ (new(o).state = "done" /\ new(o).repriced = order[o].repriced)
             /\ o = "oco" => new(o) = order[o]
             /\ new(o).size = order[o].size
  <2>1. order[o] \in OrderRecord /\ OrderFits(order[o])
    BY DEF DemoTypes
  <2>2. CASE o \in OpenOrders
    <3>1. new(o) = [order[o] EXCEPT !.state = "done"] /\ order[o].state = "live" /\ o # "oco"
      BY <2>2 DEF OpenOrders, Gone
    <3>2. /\ new(o) \in OrderRecord /\ OrderFits(new(o)) /\ new(o).filled = order[o].filled
          /\ new(o).state = "done" /\ new(o).repriced = order[o].repriced
          /\ new(o).size = order[o].size
      BY <2>1, <3>1 DEF OrderRecord, OrderStates, OrderFits
    <3> QED BY <3>1, <3>2
  <2>3. CASE o \notin OpenOrders
    BY <2>1, <2>3
  <2> QED BY <2>2, <2>3
<1>3. \A o \in Ids : order'[o] = new(o)
  BY <1>1
<1> HIDE DEF new
<1>4. order' \in [Ids -> OrderRecord]
  BY <1>1, <1>2
<1>5. \A o \in Ids : /\ OrderFits(order'[o]) /\ order'[o].filled = order[o].filled
                     /\ order[o] = NoOrder => order'[o] = NoOrder
  BY <1>2, <1>3, OrdersAre
<1>6. OrdersMove
  BY <1>2, <1>3, OrdersAre DEF OrdersMove
<1>7. order'["oco"].state = "live" => order["oco"].state = "live"
  BY <1>2, <1>3 DEF Ids
<1> QED BY <1>4, <1>5, <1>6, <1>7, SameFillsAreMild DEF Fires

(* A placement under way is too late.                                      *)
LEMMA LapsesIsMild ==
    ASSUME DemoTypes, BalanceInv, NEW o \in Ids, Lapses(o)
    PROVE  Mild
<1>1. order' = [order EXCEPT ![o] = NoOrder] /\ order \in [Ids -> OrderRecord] /\ order[o].state = "transit"
  BY DEF Lapses, DemoTypes
<1>2. order'[o] = NoOrder /\ \A q \in Ids : q # o => order'[q] = order[q]
  BY <1>1
<1>3. order' \in [Ids -> OrderRecord]
  BY <1>1, OrdersAre
<1>4. \A q \in Ids : /\ OrderFits(order'[q]) /\ order'[q].filled = order[q].filled
                     /\ order[q] = NoOrder => order'[q] = NoOrder
  BY <1>1, <1>2, OrdersAre DEF DemoTypes, OrderFits
<1>5. OrdersMove
  BY <1>1, <1>2, OrdersAre DEF OrdersMove
<1>6. order'["oco"].state = "live" => order["oco"].state = "live"
  BY <1>2, OrdersAre DEF Ids
<1> QED BY <1>3, <1>4, <1>5, <1>6, SameFillsAreMild DEF Lapses

(* The operator deposits a lot.                                            *)
LEMMA DepositIsMild ==
    ASSUME DemoTypes, BalanceInv, Deposit
    PROVE  Mild
<1>1. /\ program' = program /\ order' = order /\ leg' = leg /\ base' = base + Lot
      /\ deposits' = deposits + 1 /\ deposits < MaxDeposits
  BY DEF Deposit
<1>2. base \in Int /\ deposits \in 0 .. MaxDeposits /\ leg \in {"none", "tp", "sl"}
  BY DEF DemoTypes
<1>3. /\ deposits' \in 0 .. MaxDeposits /\ base' \in Int /\ base' >= base /\ deposits' >= deposits
      /\ deposits' * Lot = deposits * Lot + Lot /\ deposits * Lot \in Int
  BY <1>1, <1>2, Sizes
<1>4. OrdersFit'
  BY <1>1, OrdersAre DEF OrdersFit, OrderFits
<1>5. OrdersMove
  BY <1>1, OrdersAre DEF OrdersMove
<1>6. BalanceInv'
  <2>1. "entry" \in Ids /\ "exit" \in Ids
    BY DEF Ids
  <2>2. Bought \in Int /\ order["exit"].filled \in Int /\ Bought' = Bought
    BY <1>1, <2>1, OrdersAre, NetIs DEF Bought
  <2>3. Have' = Have + Lot /\ Have \in Int /\ order["exit"].size \in Int
    BY <1>3, <2>2, HaveIs, Sizes DEF Have
  <2>4. base = Have - order["exit"].filled => base' = Have' - order'["exit"].filled
    BY <1>1, <1>2, <2>2, <2>3, Sizes
  <2>5. order["exit"].size <= Have => order'["exit"].size <= Have'
    BY <1>1, <2>3, Sizes
  <2> QED BY <1>1, <2>2, <2>4, <2>5 DEF BalanceInv
<1>7. Drained => Drained'
  BY <1>1, <1>2, <1>3, Sizes DEF Drained
<1> QED BY <1>1, <1>2, <1>3, <1>4, <1>5, <1>6, <1>7 DEF Mild

(* An attempt in vain: the placements under way grow old.                  *)
LEMMA SleepsIsMild ==
    ASSUME DemoTypes, BalanceInv, NEW n \in {TerminalAttempts, CleanupAttempts}, Sleeps(n)
    PROVE  /\ Mild
           /\ order'["entry"].state = "transit" => order'["entry"].life + 1 <= order["entry"].life
           /\ run' \in RunRecord /\ run'.pc = run.pc /\ run'.tries = run.tries + 1 /\ Kept(run', run)
           /\ run'.tries < n /\ caa' = caa
<1>1. /\ order' = [o \in Ids |-> Aged(order[o])] /\ run' = [run EXCEPT !.tries = @ + 1]
      /\ run.tries + 1 < n /\ program' = program /\ leg' = leg /\ base' = base /\ caa' = caa
      /\ deposits' = deposits
  BY DEF Sleeps
<1>2. ASSUME NEW o \in Ids
      PROVE  /\ Aged(order[o]) \in OrderRecord /\ OrderFits(Aged(order[o]))
             /\ Aged(order[o]).filled = order[o].filled
             /\ order[o].state # "transit" => Aged(order[o]) = order[o]
             /\ Aged(order[o]).state = "transit" =>
                  order[o].state = "transit" /\ Aged(order[o]).life + 1 <= order[o].life
             /\ Aged(order[o]).state = "live" => order[o].state = "live"
             /\ Aged(order[o]) = NoOrder \/ Aged(order[o]).size = order[o].size
  <2>1. order[o] \in OrderRecord /\ OrderFits(order[o])
    BY DEF DemoTypes
  <2>2. CASE order[o].state # "transit"
    BY <2>1, <2>2 DEF Aged
  <2>3. CASE order[o].state = "transit" /\ order[o].life = 1
    <3>1. Aged(order[o]) = NoOrder
      BY <2>3 DEF Aged
    <3> QED BY <2>1, <2>3, <3>1, OrdersAre DEF OrderFits
  <2>4. CASE order[o].state = "transit" /\ order[o].life # 1
    <3>1. Aged(order[o]) = [order[o] EXCEPT !.life = order[o].life - 1]
      BY <2>4 DEF Aged
    <3>2. order[o].life \in Nat /\ order[o].life >= 1 /\ order[o].life <= Lifetime
      BY <2>1, <2>4 DEF OrderRecord, OrderFits
    <3>3. order[o].life - 1 \in Nat /\ order[o].life - 1 >= 1 /\ order[o].life - 1 <= Lifetime
      BY <2>4, <3>2, Sizes
    <3>4. /\ Aged(order[o]) \in OrderRecord /\ Aged(order[o]).state = order[o].state
          /\ Aged(order[o]).size = order[o].size /\ Aged(order[o]).filled = order[o].filled
          /\ Aged(order[o]).life = order[o].life - 1
      BY <2>1, <3>1, <3>3 DEF OrderRecord
    <3>5. OrderFits(Aged(order[o]))
      BY <2>1, <3>3, <3>4 DEF OrderFits
    <3> QED BY <2>4, <3>2, <3>4, <3>5
  <2> QED BY <2>2, <2>3, <2>4
<1>3. \A o \in Ids : order'[o] = Aged(order[o])
  BY <1>1
<1>4. order' \in [Ids -> OrderRecord]
  BY <1>1, <1>2
<1>5. \A o \in Ids : /\ OrderFits(order'[o]) /\ order'[o].filled = order[o].filled
                     /\ order[o] = NoOrder => order'[o] = NoOrder
  BY <1>2, <1>3, OrdersAre
<1>6. OrdersMove
  <2>1. \A o \in Ids : order[o].life \in Nat /\ order'[o].life \in Nat
    BY <1>4, OrdersAre DEF OrderRecord
  <2> QED BY <1>2, <1>3, <2>1, OrdersAre DEF OrdersMove
<1>7. order'["oco"].state = "live" => order["oco"].state = "live"
  BY <1>2, <1>3 DEF Ids
<1>8. Mild
  BY <1>1, <1>4, <1>5, <1>6, <1>7, SameFillsAreMild
<1>9. order'["entry"].state = "transit" => order'["entry"].life + 1 <= order["entry"].life
  BY <1>2, <1>3 DEF Ids
<1>10. /\ run' \in RunRecord /\ run'.pc = run.pc /\ run'.tries = run.tries + 1 /\ Kept(run', run)
       /\ run'.tries < n
  BY <1>1, Sizes DEF DemoTypes, RunRecord, Kept
<1> QED BY <1>1, <1>8, <1>9, <1>10

(* What a placement leaves behind, whatever its caller was told.           *)
PlacedAs(o, ok) ==
    /\ OrdersFit' /\ base' \in Int /\ BalanceInv'
    /\ \A q \in Ids \ {o} : order'[q] = order[q]
    /\ ok => order'[o].state \in {"live", "done"}
    /\ order'[o] = order[o] \/ order'[o].state \in {"live", "done", "transit"}
    /\ program = "expired" => order'[o] = order[o] \/ order'[o].state # "transit"

(* The placement of an order that the balance allows.                      *)
LEMMA PlacedIs ==
    ASSUME DemoTypes, BalanceInv, NEW o \in Ids, NEW n \in Nat, NEW ok \in BOOLEAN, Placed(o, n, ok),
           program' = program, deposits' = deposits,
           program # "oco" => o \in {"entry", "exit"}, program \in PostOnly => o = "entry",
           program # "oco" /\ o = "entry" => n >= Lot /\ order["entry"].filled = 0,
           program = "fill" /\ o = "exit" => n <= Have,
           program = "probe" /\ o = "exit" => n <= Bought
    PROVE  PlacedAs(o, ok)
<1>1. order \in [Ids -> OrderRecord] /\ base \in Int /\ deposits \in 0 .. MaxDeposits
  BY DEF DemoTypes
<1>2. ASSUME NEW r \in OrderRecord, OrderFits(r), Becomes(o, r), o = "oco" /\ r.state = "live" => r.filled = 0,
             r.size = n, n >= Lot => r.filled = 0 \/ r.filled >= Lot
      PROVE  /\ OrdersFit' /\ base' \in Int /\ BalanceInv' /\ order'[o] = r
             /\ \A q \in Ids \ {o} : order'[q] = order[q]
  <2>1. order' = [order EXCEPT ![o] = r] /\ base' = base + Gain(o, r)
    BY <1>2 DEF Becomes
  <2>2. order'[o] = r /\ \A q \in Ids : q # o => order'[q] = order[q]
    BY <1>1, <2>1
  <2>3. OrdersFit'
    <3>1. order' \in [Ids -> OrderRecord]
      BY <1>1, <1>2, <2>1
    <3>2. \A q \in Ids : OrderFits(order'[q])
      BY <1>2, <2>2 DEF DemoTypes
    <3>3. order'["oco"].state = "live" => order'["oco"].filled = 0
      BY <1>2, <2>2, OrdersAre DEF OrdersFit, Ids
    <3> QED BY <3>1, <3>2, <3>3 DEF OrdersFit, OrderFits
  <2>4. {"entry", "exit", "oco", "final"} \subseteq Ids
    BY DEF Ids
  <2>5. /\ r.filled \in Nat /\ order[o].filled \in Nat /\ Net(r.filled) \in Int
        /\ Net(order[o].filled) \in Int /\ order["exit"].filled \in Nat
        /\ Net(order["entry"].filled) \in Int /\ deposits * Lot \in Int
    BY <1>1, <1>2, <2>4, OrdersAre, NetIs, Sizes DEF OrderRecord
  <2>6. Gain(o, r) \in Int
    BY <2>5 DEF Gain
  <2>7. ASSUME program # "oco"
        PROVE  base' = deposits' * Lot + Bought' - order'["exit"].filled
    <3>1. base = deposits * Lot + Bought - order["exit"].filled
      <4>1. base = Have - order["exit"].filled
        BY <2>7 DEF BalanceInv
      <4> QED BY <4>1, HaveIs DEF Have
    <3>2. Bought = Net(order["entry"].filled) /\ Bought' = Net(order'["entry"].filled)
      BY DEF Bought
    <3>3. CASE o = "entry"
      <4>1. order'["exit"] = order["exit"] /\ order'["entry"] = r
        BY <2>2, <2>4, <3>3
      <4>2. Gain(o, r) = Net(r.filled) - Net(order["entry"].filled)
        BY <3>3 DEF Gain
      <4> QED BY <1>1, <2>1, <2>5, <3>1, <3>2, <4>1, <4>2
    <3>4. CASE o = "exit"
      <4>1. order'["entry"] = order["entry"] /\ order'["exit"] = r
        BY <2>2, <2>4, <3>4
      <4>2. Gain(o, r) = order["exit"].filled - r.filled
        BY <3>4 DEF Gain
      <4> QED BY <1>1, <2>1, <2>5, <3>1, <3>2, <3>4, <4>1, <4>2
    <3> QED BY <2>7, <3>3, <3>4
  <2>8. program # "oco" => /\ order'["oco"] = NoOrder /\ order'["final"] = NoOrder
                           /\ program \in PostOnly => order'["exit"] = NoOrder
    BY <2>2, <2>4 DEF BalanceInv
  <2>9. BalanceInv'
    <3> SUFFICES ASSUME program # "oco" PROVE BalanceInv'
      BY DEF BalanceInv
    <3>1. /\ order["entry"].filled = 0 \/ order["entry"].filled >= Lot
          /\ order["entry"].state = "transit" => order["entry"].size >= Lot
          /\ program = "fill" => order["exit"].size <= Have
          /\ program = "probe" => order["exit"].size <= Bought
      BY DEF BalanceInv
    <3>2. /\ order'["entry"].filled = 0 \/ order'["entry"].filled >= Lot
          /\ order'["entry"].state = "transit" => order'["entry"].size >= Lot
      BY <1>2, <2>2, <2>4, <3>1
    <3>3. Bought <= Bought' /\ Bought' \in Int
      <4>1. order'["entry"].filled \in Nat
        BY <2>3, <2>4 DEF OrdersFit, OrderRecord
      <4>2. order["entry"].filled \in Nat
        BY <2>4, OrdersAre
      <4>3. order["entry"].filled <= order'["entry"].filled
        <5>1. CASE o = "entry"
          BY <4>1, <5>1
        <5>2. CASE o # "entry"
          <6>1. order'["entry"] = order["entry"]
            BY <2>2, <2>4, <5>2
          <6> QED BY <4>2, <6>1
        <5> QED BY <5>1, <5>2
      <4> QED BY <3>2, <4>1, <4>2, <4>3, NetGrows, NetIs DEF Bought
    <3>4. Have <= Have' /\ Have \in Int /\ Have' \in Int /\ Have' = deposits' * Lot + Bought' /\ Bought \in Int
      BY <3>3, HaveIs DEF Have
    <3>5. /\ program = "fill" => order'["exit"].size <= Have
          /\ program = "probe" => order'["exit"].size <= Bought
      BY <1>2, <2>2, <2>4, <3>1
    <3>6. order'["exit"].size \in Nat
      BY <2>3, <2>4 DEF OrdersFit, OrderRecord
    <3>7. /\ program = "fill" => order'["exit"].size <= Have'
          /\ program = "probe" => order'["exit"].size <= Bought'
      BY <3>3, <3>4, <3>5, <3>6
    <3>8. base' = Have' - order'["exit"].filled
      <4>1. base' = deposits' * Lot + Bought' - order'["exit"].filled
        BY <2>7
      <4>2. order'["exit"].filled \in Nat /\ deposits' * Lot \in Int
        BY <2>3, <2>4, <2>5 DEF OrdersFit, OrderRecord
      <4> QED BY <3>3, <3>4, <4>1, <4>2
    <3> QED BY <2>8, <3>2, <3>7, <3>8 DEF BalanceInv
  <2> QED BY <1>1, <2>1, <2>2, <2>3, <2>6, <2>9
<1>3. CASE \E r \in Accepted(o, n) : Becomes(o, r)
  <2>1. PICK r \in Accepted(o, n) : Becomes(o, r)
    BY <1>3
  <2>2. /\ r \in OrderRecord /\ OrderFits(r) /\ r.state \in {"live", "done"}
        /\ o = "oco" => r.filled = 0
        /\ r.size = n
        /\ n >= Lot => r.filled = 0 \/ r.filled >= Lot
    BY AcceptedIs
  <2>3. /\ OrdersFit' /\ base' \in Int /\ BalanceInv' /\ order'[o] = r
        /\ \A q \in Ids \ {o} : order'[q] = order[q]
    BY <1>2, <2>1, <2>2
  <2> QED BY <2>2, <2>3 DEF PlacedAs
<1>4. CASE ~ok /\ order' = order /\ base' = base
  <2>1. OrdersFit' /\ BalanceInv'
    BY <1>4, OrdersAre DEF OrdersFit, OrderFits, BalanceInv, Bought, Have
  <2> QED BY <1>1, <1>4, <2>1 DEF PlacedAs
<1>5. CASE /\ ~ok /\ program # "expired"
           /\ Becomes(o, [NoOrder EXCEPT !.state = "transit", !.size = n, !.life = Lifetime])
  <2> DEFINE r == [NoOrder EXCEPT !.state = "transit", !.size = n, !.life = Lifetime]
  <2>1. NoOrder \in OrderRecord /\ NoOrder.filled = 0 /\ Lifetime \in Nat /\ "transit" \in OrderStates
    BY Sizes DEF NoOrder, OrderRecord, OrderStates
  <2>2. /\ r \in OrderRecord /\ r.state = "transit" /\ r.filled = 0 /\ r.size = n /\ r.life = Lifetime
    BY <2>1 DEF OrderRecord
  <2>3. Becomes(o, r)
    BY <1>5
  <2> HIDE DEF r
  <2>4. OrderFits(r)
    BY <2>1, <2>2, Sizes DEF OrderFits
  <2>5. /\ OrdersFit' /\ base' \in Int /\ BalanceInv' /\ order'[o] = r
        /\ \A q \in Ids \ {o} : order'[q] = order[q]
    BY <1>2, <2>2, <2>3, <2>4
  <2> QED BY <1>5, <2>2, <2>5 DEF PlacedAs
<1> QED BY <1>3, <1>4, <1>5 DEF Placed

(* Rounding to lots, and the size of every entry order.                    *)
LEMMA SizesOfOrders ==
    ASSUME DemoTypes
    PROVE  /\ EntrySize \in Nat /\ EntrySize >= Lot
           /\ \A n \in Nat : DownToLot(n) \in Nat /\ DownToLot(n) <= n
<1>1. \A n \in Nat : DownToLot(n) \in Nat /\ DownToLot(n) <= n
  <2>1. ASSUME NEW n \in Nat PROVE DownToLot(n) \in Nat /\ DownToLot(n) <= n
    <3>1. n % Lot \in 0 .. Lot - 1 /\ n = Lot * (n \div Lot) + (n % Lot) /\ n \div Lot \in Nat
      BY Sizes
    <3>2. Lot * (n \div Lot) \in Nat
      BY <3>1, Sizes
    <3> QED BY <3>1, <3>2, Sizes DEF DownToLot
  <2> QED BY <2>1
<1>2. ASSUME NEW n \in Nat PROVE UpToLot(n) \in Nat /\ UpToLot(n) >= n
  <2>1. n + Lot - 1 \in Nat /\ (n + Lot - 1) % Lot \in 0 .. Lot - 1
    BY Sizes
  <2>2. UpToLot(n) = (n + Lot - 1) - ((n + Lot - 1) % Lot)
    BY DEF UpToLot, DownToLot
  <2> QED BY <2>1, <2>2, Sizes
<1>3. /\ SmokeSize \in Nat /\ FillSize \in Nat /\ AcquisitionSize \in Nat
      /\ SmokeSize >= Lot /\ FillSize >= Lot /\ AcquisitionSize >= Lot
  BY <1>2, Sizes DEF SmokeSize, FillSize, AcquisitionSize
<1> QED BY <1>1, <1>3 DEF EntrySize

(* An amendment of the entry order's price, or of the OCO order's size.    *)
LEMMA ChangesAreMild ==
    ASSUME DemoTypes, BalanceInv, program' = program, deposits' = deposits, leg' = leg
    PROVE  /\ order["entry"].state = "live"
              /\ Becomes("entry", [order["entry"] EXCEPT !.repriced = TRUE]) =>
                Mild /\ order'["entry"].repriced
           /\ \A n \in Nat : order["oco"].state = "live"
                             /\ Becomes("oco", [order["oco"] EXCEPT !.size = n]) => Mild
<1>0. "entry" \in Ids /\ "oco" \in Ids /\ leg' \in {"none", "tp", "sl"}
  BY DEF Ids, DemoTypes
<1>1. ASSUME order["entry"].state = "live",
             Becomes("entry", [order["entry"] EXCEPT !.repriced = TRUE])
      PROVE  Mild /\ order'["entry"].repriced
  <2> DEFINE r == [order["entry"] EXCEPT !.repriced = TRUE]
  <2>1. order["entry"] \in OrderRecord /\ OrderFits(order["entry"]) /\ order["entry"].filled \in Nat
    BY <1>0, OrdersAre DEF DemoTypes
  <2>2. /\ r \in OrderRecord /\ r.state = order["entry"].state /\ r.filled = order["entry"].filled
        /\ r.repriced = TRUE /\ r.life = order["entry"].life /\ r.size = order["entry"].size
    BY <2>1 DEF OrderRecord
  <2>3. Becomes("entry", r)
    BY <1>1
  <2> HIDE DEF r
  <2>4. OrderFits(r)
    BY <2>1, <2>2 DEF OrderFits
  <2>5. r.filled >= order["entry"].filled /\ r.state \in {"live", "done"}
    BY <1>1, <2>1, <2>2
  <2>6. order'["entry"] = r
    BY <1>0, <2>3 DEF Becomes, DemoTypes
  <2>7. program # "oco" => r.filled = 0 \/ r.filled >= Lot
    BY <2>2 DEF BalanceInv
  <2> QED BY <1>0, <1>1, <2>2, <2>3, <2>4, <2>5, <2>6, <2>7, BecomesIsMild
<1>2. ASSUME NEW n \in Nat, order["oco"].state = "live", Becomes("oco", [order["oco"] EXCEPT !.size = n])
      PROVE  Mild
  <2> DEFINE r == [order["oco"] EXCEPT !.size = n]
  <2>1. order["oco"] \in OrderRecord /\ OrderFits(order["oco"]) /\ order["oco"].filled = 0
    BY <1>0, <1>2 DEF DemoTypes
  <2>2. /\ r \in OrderRecord /\ r.state = order["oco"].state /\ r.filled = 0
        /\ r.repriced = order["oco"].repriced /\ r.life = order["oco"].life /\ r.size = n
    BY <2>1 DEF OrderRecord
  <2>3. Becomes("oco", r)
    BY <1>2
  <2> HIDE DEF r
  <2>4. OrderFits(r)
    BY <2>1, <2>2 DEF OrderFits
  <2>5. r.filled >= order["oco"].filled /\ r.state \in {"live", "done"}
    BY <1>2, <2>1, <2>2
  <2> QED BY <1>0, <1>2, <2>1, <2>2, <2>3, <2>4, <2>5, BecomesIsMild
<1> QED BY <1>1, <1>2

-----------------------------------------------------------------------------
(* The shapes of a step: what OKX holds afterwards, and where the program  *)
(* stands.                                                                 *)
OkxHolds ==
    /\ program' = program /\ OrdersFit' /\ leg' \in {"none", "tp", "sl"} /\ base' \in Int
    /\ deposits' \in 0 .. MaxDeposits /\ caa' \in {"off", "armed", "fired"} /\ BalanceInv'
    /\ program \notin {"fill", "oco"} /\ Underway("entry")' => caa' = "armed"

WentTo(p) ==
    /\ run' \in RunRecord /\ run'.pc = p /\ run'.tries = 0 /\ run'.stage = run.stage
    /\ run'.floor = run.floor /\ run'.result = run.result

(* Each way a program goes on, read off its new record.                    *)
LEMMA WentToIs ==
    ASSUME DemoTypes, NEW p \in DemoPlaces
    PROVE  /\ run' = To(p) =>
                WentTo(p) /\ run'.flag = run.flag /\ run'.failures = run.failures /\ run'.amount = run.amount
           /\ run' = Failing(To(p)) => WentTo(p) /\ run'.flag = run.flag /\ run'.failures = TRUE
           /\ \A b \in BOOLEAN : run' = [To(p) EXCEPT !.flag = b] =>
                WentTo(p) /\ run'.flag = b /\ run'.failures = run.failures
           /\ \A b \in BOOLEAN : run' = [Failing(To(p)) EXCEPT !.flag = b] =>
                WentTo(p) /\ run'.flag = b /\ run'.failures = TRUE
           /\ \A n \in Nat : run' = [To(p) EXCEPT !.amount = n] =>
                WentTo(p) /\ run'.flag = run.flag /\ run'.failures = run.failures /\ run'.amount = n
<1> DEFINE r == To(p)
           f == Failing(r)
<1>1. run \in RunRecord
  BY DEF DemoTypes
<1>2. r \in RunRecord /\ r.pc = p /\ r.tries = 0 /\ Kept(r, run)
  BY <1>1, ToIs
<1> HIDE DEF r
<1>3. /\ f \in RunRecord /\ f.pc = p /\ f.tries = 0 /\ f.failures = TRUE
      /\ f.flag = r.flag /\ f.stage = r.stage /\ f.floor = r.floor /\ f.result = r.result
  BY <1>2, FailingIs
<1> HIDE DEF f
<1>4. \A b \in BOOLEAN : LET q == [r EXCEPT !.flag = b]
                             g == [f EXCEPT !.flag = b]
                         IN  /\ q \in RunRecord /\ q.flag = b /\ q.pc = r.pc /\ q.tries = r.tries
                             /\ q.stage = r.stage /\ q.floor = r.floor /\ q.result = r.result
                             /\ q.failures = r.failures
                             /\ g \in RunRecord /\ g.flag = b /\ g.pc = f.pc /\ g.tries = f.tries
                             /\ g.stage = f.stage /\ g.floor = f.floor /\ g.result = f.result
                             /\ g.failures = f.failures
  BY <1>2, <1>3 DEF RunRecord
<1>5. \A n \in Nat : LET q == [r EXCEPT !.amount = n]
                     IN  /\ q \in RunRecord /\ q.amount = n /\ q.pc = r.pc /\ q.tries = r.tries
                         /\ q.stage = r.stage /\ q.floor = r.floor /\ q.result = r.result
                         /\ q.failures = r.failures /\ q.flag = r.flag
  BY <1>2 DEF RunRecord
<1>6. run' = r => WentTo(p) /\ run'.flag = run.flag /\ run'.failures = run.failures /\ run'.amount = run.amount
  BY <1>2 DEF WentTo, Kept
<1>7. run' = f => WentTo(p) /\ run'.flag = run.flag /\ run'.failures = TRUE
  BY <1>2, <1>3 DEF WentTo, Kept
<1>8. ASSUME NEW b \in BOOLEAN, run' = [r EXCEPT !.flag = b]
      PROVE  WentTo(p) /\ run'.flag = b /\ run'.failures = run.failures
  BY <1>2, <1>4, <1>8 DEF WentTo, Kept
<1>9. ASSUME NEW b \in BOOLEAN, run' = [f EXCEPT !.flag = b]
      PROVE  WentTo(p) /\ run'.flag = b /\ run'.failures = TRUE
  BY <1>2, <1>3, <1>4, <1>9 DEF WentTo, Kept
<1>10. ASSUME NEW n \in Nat, run' = [r EXCEPT !.amount = n]
       PROVE  WentTo(p) /\ run'.flag = run.flag /\ run'.failures = run.failures /\ run'.amount = n
  BY <1>2, <1>5, <1>10 DEF WentTo, Kept
<1> QED BY <1>6, <1>7, <1>8, <1>9, <1>10 DEF r, f

(* What the invariant asks when a post-only program goes to p.             *)
LEMMA PostOnlyMoves ==
    ASSUME DemoInv, OkxHolds, program \in PostOnly, NEW p \in PostOnlyPlaces \ {"end"}, WentTo(p),
           run.result = "none",
           p = "absent" => program = "expired",
           p = "place" => caa' = "armed",
           p \in {"prepare", "observe", "login", "arm", "place"} => order'["entry"].state = "none",
           program = "expired" => order'["entry"].state # "transit",
           p = "survey" /\ run'.flag => order'["entry"].state = "done" /\ order'["entry"].filled = 0,
           p \in {"reconnect", "disarm"} =>
             order'["entry"].state \in {"none", "done"} /\ order'["entry"].filled = 0,
           ~run'.failures =>
             /\ order'["entry"].state # "transit"
             /\ program = "wsAmend" =>
                  /\ p # "fallback" /\ (p = "confirm" => run'.flag)
                  /\ p \in {"wsCancel", "watchCanceled", "settle", "survey", "reconnect", "disarm"} =>
                       order'["entry"].repriced /\ order'["entry"].state \in {"live", "done"}
    PROVE  DemoInv'
<1>1. program \notin {"fill", "probe", "oco"} /\ program' = program
  BY DEF PostOnly, OkxHolds
<1>2. run'.pc = p /\ run'.result = "none" /\ p # "end"
  BY DEF WentTo
<1>3. DemoTypes'
  <2>1. 0 < CleanupAttempts /\ run'.tries = 0 /\ run' \in RunRecord
    BY Sizes DEF WentTo
  <2> QED BY <1>1, <2>1 DEF DemoInv, DemoTypes, OkxHolds, OrdersFit
<1>4. PlaceInv'
  BY <1>1, <1>2 DEF PlaceInv, At
<1>5. EntryInv'
  BY <1>1, <1>2 DEF EntryInv, At
<1>6. GuardInv'
  BY <1>1, <1>2 DEF GuardInv, At, OkxHolds
<1>7. FineInv'
  <2>1. Fine' => \A o \in Ids : order'[o].state # "transit"
    <3>1. /\ order'["exit"] = NoOrder /\ order'["oco"] = NoOrder /\ order'["final"] = NoOrder
          /\ NoOrder.state = "none"
      BY <1>1 DEF OkxHolds, BalanceInv, NoOrder
    <3>2. Fine' => order'["entry"].state # "transit"
      BY DEF Fine
    <3> QED BY <3>1, <3>2 DEF Ids
  <2>2. Fine' => ~run'.failures
    BY DEF Fine
  <2> QED BY <1>1, <1>2, <2>1, <2>2 DEF FineInv, At
<1>8. DoneInv'
  BY <1>2 DEF DoneInv
<1>9. SaleInv'
  BY <1>1, <1>2 DEF SaleInv, Before
<1> QED BY <1>3, <1>4, <1>5, <1>6, <1>7, <1>8, <1>9 DEF DemoInv, OkxHolds

(* Likewise for the fill life cycle.                                       *)
LEMMA FillMoves ==
    ASSUME DemoInv, OkxHolds, program = "fill", NEW p \in FillPlaces \ {"end"}, WentTo(p),
           run.result = "none",
           p \in {"prepare", "arm", "place"} => order'["entry"].state = "none",
           p \in {"quote", "sell"} => run'.amount <= Have',
           ~run'.failures =>
             /\ \A o \in Ids : order'[o].state # "transit"
             /\ p \in {"verify", "residual", "disarm"} => order'["exit"].filled > 0
             /\ p \in {"residual", "disarm"} => NothingUnderway'
             /\ p = "disarm" => Drained' /\ base' >= 0
    PROVE  DemoInv'
<1>1. program' = "fill" /\ program' = program /\ program' \notin PostOnly
  BY DEF PostOnly, OkxHolds
<1>2. run'.pc = p /\ run'.result = "none" /\ p # "end" /\ p # "absent"
  BY DEF WentTo, FillPlaces
<1>3. DemoTypes'
  <2>1. 0 < CleanupAttempts /\ run'.tries = 0 /\ run' \in RunRecord
    BY Sizes DEF WentTo
  <2> QED BY <1>1, <2>1 DEF DemoInv, DemoTypes, OkxHolds, OrdersFit
<1>4. PlaceInv'
  BY <1>1, <1>2 DEF PlaceInv, At
<1>5. EntryInv'
  BY <1>1, <1>2 DEF EntryInv, At
<1>6. GuardInv'
  BY <1>1 DEF GuardInv
<1>7. FineInv'
  <2>1. Fine' => ~run'.failures
    BY DEF Fine
  <2> QED BY <1>1, <1>2, <2>1 DEF FineInv, At
<1>8. DoneInv'
  BY <1>2 DEF DoneInv
<1>9. SaleInv'
  <2>1. p \in Before => p \in {"prepare", "arm", "place"}
    BY DEF Before, FillPlaces
  <2>2. run'.pc \in Before => order'["entry"].state = "none"
    BY <1>2, <2>1
  <2> QED BY <1>1, <1>2, <2>2 DEF SaleInv, At
<1> QED BY <1>3, <1>4, <1>5, <1>6, <1>7, <1>8, <1>9 DEF DemoInv, OkxHolds

(* Likewise for the probe.                                                 *)
LEMMA ProbeMoves ==
    ASSUME DemoInv, OkxHolds, program = "probe", NEW p \in ProbePlaces \ {"end"},
           run' \in RunRecord, run'.pc = p, run'.result = "none",
           \/ run'.tries = 0
           \/ run'.tries < CleanupAttempts /\ order'["entry"].state # "transit",
           p = "place" => caa' = "armed",
           p \in {"prepare", "arm", "place"} => order'["entry"].state = "none",
           p = "sell" => run'.amount <= Bought',
           p \in SaleOfProbe \cup {"disarm"} => order'["entry"].state \in {"none", "done"},
           ~run'.failures =>
             /\ (p = "cancel" /\ ~run'.flag) \/ \A o \in Ids : order'[o].state # "transit"
             /\ p \in SaleOfProbe \cup {"delta", "cleanup", "disarm"} => order'["entry"].state = "done"
             /\ p \in SaleOfProbe \cup {"cleanup"} => Bought' >= Lot
             /\ p = "disarm" =>
                  NothingUnderway' /\ order'["exit"].filled > 0 /\ Drained' /\ base' >= 0
    PROVE  DemoInv'
<1>1. program' = "probe" /\ program' = program /\ program' \notin PostOnly
  BY DEF PostOnly, OkxHolds
<1>2. p # "end" /\ p # "absent"
  BY DEF ProbePlaces, SaleOfProbe
<1>3. DemoTypes'
  <2>1. 0 < CleanupAttempts
    BY Sizes
  <2> QED BY <1>1, <2>1 DEF DemoInv, DemoTypes, OkxHolds, OrdersFit
<1>4. PlaceInv'
  BY <1>1, <1>2 DEF PlaceInv, At
<1>5. EntryInv'
  <2>1. order'["entry"].life <= Lifetime /\ order'["entry"].life \in Nat
    BY DEF OkxHolds, OrdersFit, OrderFits, OrderRecord, Ids
  <2>2. order'["entry"].state = "transit" => order'["entry"].life + run'.tries <= Lifetime
    BY <2>1
  <2> QED BY <1>1, <1>2, <2>2 DEF EntryInv, At
<1>6. GuardInv'
  BY <1>1 DEF GuardInv, At, OkxHolds
<1>7. FineInv'
  <2>1. Fine' => ~run'.failures
    BY DEF Fine
  <2> QED BY <1>1, <1>2, <2>1 DEF FineInv, At
<1>8. DoneInv'
  BY <1>2 DEF DoneInv
<1>9. SaleInv'
  <2>1. p \in Before => p \in {"prepare", "arm", "place"}
    BY DEF Before, ProbePlaces, SaleOfProbe
  <2>2. run'.pc \in Before => order'["entry"].state = "none"
    BY <2>1
  <2> QED BY <1>1, <1>2, <2>2 DEF SaleInv, At
<1> QED BY <1>3, <1>4, <1>5, <1>6, <1>7, <1>8, <1>9 DEF DemoInv, OkxHolds

(* Likewise for the OCO life cycle.                                        *)
LEMMA OcoMoves ==
    ASSUME DemoInv, OkxHolds, program = "oco", NEW p \in OcoPlaces \ {"end"},
           run' \in RunRecord, run'.pc = p, run'.tries = 0, run'.result = "none",
           run'.stage = "cleanup" =>
             /\ p \in {"cleanup", "survey", "disarm"} \cup OcoCleanup
             /\ p \in OcoCleanup => run'.floor = 0,
           ~run'.failures =>
             /\ (p = "cancel" /\ ~run'.flag) \/ \A o \in Ids : order'[o].state # "transit"
             /\ p \in OcoOwned => order'["entry"].state = "done"
             /\ p \in {"survey", "disarm"} => Drained'
             /\ p = "disarm" => NothingUnderway' /\ base' >= 0
    PROVE  DemoInv'
<1>1. program' = "oco" /\ program' = program /\ program' \notin PostOnly
  BY DEF PostOnly, OkxHolds
<1>2. p # "end" /\ p # "absent"
  BY DEF OcoPlaces, OcoOwned, OcoCleanup
<1>3. DemoTypes'
  <2>1. 0 < CleanupAttempts
    BY Sizes
  <2> QED BY <1>1, <2>1 DEF DemoInv, DemoTypes, OkxHolds, OrdersFit
<1>4. PlaceInv'
  BY <1>1, <1>2 DEF PlaceInv, At
<1>5. EntryInv'
  BY <1>1, <1>2 DEF EntryInv, At
<1>6. GuardInv'
  BY <1>1 DEF GuardInv
<1>7. FineInv'
  <2>1. Fine' => ~run'.failures
    BY DEF Fine
  <2> QED BY <1>1, <1>2, <2>1 DEF FineInv, At
<1>8. DoneInv'
  BY <1>2 DEF DoneInv
<1>9. SaleInv'
  BY <1>1 DEF SaleInv
<1> QED BY <1>3, <1>4, <1>5, <1>6, <1>7, <1>8, <1>9 DEF DemoInv, OkxHolds

(* A program that ends with an error promises nothing but the timer.       *)
LEMMA EndsBadly ==
    ASSUME DemoInv, OkxHolds, run' = Ended("err"),
           program = "expired" => order'["entry"].state # "transit"
    PROVE  DemoInv'
<1>1. program' = program
  BY DEF OkxHolds
<1>2. run' \in RunRecord /\ run'.pc = "end" /\ run'.result = "err" /\ run'.tries = 0
  BY EndedIs DEF DemoInv, DemoTypes
<1>3. DemoTypes'
  <2>1. 0 < CleanupAttempts
    BY Sizes
  <2> QED BY <1>1, <1>2, <2>1 DEF DemoInv, DemoTypes, OkxHolds, OrdersFit
<1>4. PlaceInv'
  BY <1>1, <1>2 DEF PlaceInv, At, PostOnlyPlaces, FillPlaces, ProbePlaces, OcoPlaces, OcoCleanup
<1>5. EntryInv'
  BY <1>1, <1>2 DEF EntryInv, At, SaleOfProbe
<1>6. GuardInv'
  BY <1>1, <1>2 DEF GuardInv, At, OkxHolds
<1>7. FineInv' /\ DoneInv'
  BY <1>2 DEF FineInv, DoneInv, Fine
<1>8. SaleInv'
  BY <1>2 DEF SaleInv, Before, At
<1> QED BY <1>3, <1>4, <1>5, <1>6, <1>7, <1>8 DEF DemoInv, OkxHolds

(* A program that gives up goes to its cleanup, or fails there.            *)
LEMMA GivingUp ==
    ASSUME DemoInv, OkxHolds, run' = GivesUp, program \in {"probe", "oco"}, run.result = "none"
    PROVE  DemoInv'
<1>1. CASE run.stage = "run"
  <2> DEFINE r == To("cleanup")
             q == [r EXCEPT !.stage = "cleanup"]
  <2>1. r \in RunRecord /\ r.pc = "cleanup" /\ r.tries = 0 /\ r.result = "none"
    BY ToIs, PlacesAre DEF DemoInv, DemoTypes, Kept
  <2> HIDE DEF r
  <2>2. q \in RunRecord /\ q.pc = "cleanup" /\ q.tries = 0 /\ q.result = "none" /\ q.stage = "cleanup"
    BY <2>1 DEF RunRecord
  <2>3. run' = Failing(q)
    BY <1>1 DEF GivesUp, r
  <2> HIDE DEF q
  <2>4. /\ run' \in RunRecord /\ run'.pc = "cleanup" /\ run'.tries = 0 /\ run'.result = "none"
        /\ run'.stage = "cleanup" /\ run'.failures = TRUE
    BY <2>2, <2>3, FailingIs, ZenonT(60)
  <2>5. CASE program = "probe"
    <3>1. "cleanup" \in ProbePlaces \ {"end"} /\ "cleanup" \notin SaleOfProbe
      BY DEF ProbePlaces, SaleOfProbe
    <3> QED BY <2>4, <2>5, <3>1, ProbeMoves
  <2>6. CASE program = "oco"
    <3>1. "cleanup" \in OcoPlaces \ {"end"} /\ "cleanup" \notin OcoCleanup
      BY DEF OcoPlaces, OcoOwned, OcoCleanup
    <3> QED BY <2>4, <2>6, <3>1, OcoMoves
  <2> QED BY <2>5, <2>6
<1>2. CASE run.stage # "run"
  BY <1>2, EndsBadly DEF GivesUp
<1> QED BY <1>1, <1>2

(* What is there to be sold does not shrink while the program waits.       *)
LEMMA HoldingsGrow ==
    ASSUME DemoTypes, BalanceInv, Mild, program # "oco"
    PROVE  /\ Bought \in Int /\ Bought' \in Int /\ Have \in Int /\ Have' \in Int
           /\ Bought <= Bought' /\ Have <= Have'
<1>1. "entry" \in Ids /\ program' = program
  BY DEF Ids, Mild
<1>2. order'["entry"].filled \in Nat /\ deposits' \in Nat /\ deposits \in Nat /\ deposits' >= deposits
  BY <1>1 DEF Mild, OrdersFit, OrderRecord, DemoTypes
<1>3. /\ order["entry"].filled \in Nat /\ order["entry"].state \in OrderStates
      /\ order["entry"].state = "transit" => order["entry"].filled = 0
  BY <1>1, OrdersAre DEF DemoTypes, OrderFits
<1>4. order["entry"].filled <= order'["entry"].filled
  BY <1>1, <1>2, <1>3 DEF Mild, OrdersMove, OrderStates
<1>5. order'["entry"].filled = 0 \/ order'["entry"].filled >= Lot
  BY <1>1 DEF Mild, BalanceInv
<1>6. Bought \in Int /\ Bought' \in Int /\ Bought <= Bought'
  BY <1>2, <1>3, <1>4, <1>5, NetGrows, NetIs DEF Bought
<1>7. deposits * Lot \in Int /\ deposits' * Lot \in Int /\ deposits * Lot <= deposits' * Lot
  <2>1. PICK d \in Nat : deposits' = deposits + d
    BY <1>2
  <2>2. deposits' * Lot = deposits * Lot + d * Lot /\ d * Lot \in Nat
    BY <1>2, <2>1, Sizes
  <2>3. deposits * Lot \in Int
    BY <1>2, Sizes
  <2> QED BY <2>2, <2>3
<1>8. Have = deposits * Lot + Bought /\ Have' = deposits' * Lot + Bought'
  BY DEF Have
<1> QED BY <1>6, <1>7, <1>8

(* Nothing but time passes for the program.                                *)
LEMMA WaitingKeeps ==
    ASSUME DemoInv, Mild, run' \in RunRecord, run'.pc = run.pc, Kept(run', run),
           run'.tries < TerminalAttempts \/ run'.tries < CleanupAttempts,
           \/ caa' = caa
           \/ caa = "armed" /\ caa' = "fired" /\ (At("place") => program = "oco")
              /\ order'["entry"].state \in {"none", "done"},
           program = "probe" /\ order'["entry"].state = "transit" =>
             order'["entry"].life + run'.tries <= order["entry"].life + run.tries
    PROVE  DemoInv'
<1>1. program' = program /\ "entry" \in Ids
  BY DEF Mild, Ids
<1>2. run'.failures = run.failures /\ run'.flag = run.flag /\ run'.stage = run.stage
      /\ run'.floor = run.floor /\ run'.result = run.result
  BY DEF Kept
<1>3. DemoTypes'
  BY <1>1 DEF DemoInv, DemoTypes, Mild, OrdersFit
<1>4. PlaceInv'
  BY <1>1, <1>2 DEF DemoInv, PlaceInv, At
<1>5. \A o \in Ids : /\ order[o].state \in {"none", "done"} => order'[o] = order[o]
                     /\ order'[o].state = "transit" => order[o].state = "transit"
                     /\ order[o].state \in OrderStates
  BY OrdersAre DEF Mild, OrdersMove, DemoInv
<1>6. EntryInv'
  <2>1. order["entry"].life + run.tries \in Int /\ order'["entry"].life + run'.tries \in Int
    BY <1>1 DEF DemoInv, DemoTypes, Mild, OrdersFit, OrderRecord, RunRecord
  <2>2. program = "probe" /\ At("cleanup")' /\ order'["entry"].state = "transit" =>
          order'["entry"].life + run'.tries <= Lifetime
    BY <1>1, <1>5, <2>1, Sizes DEF DemoInv, EntryInv, At
  <2> QED BY <1>1, <1>2, <1>5, <2>2 DEF DemoInv, EntryInv, At
<1>7. GuardInv'
  <2>1. Underway("entry")' => Underway("entry")
    BY <1>1, <1>5 DEF Underway, OrderStates
  <2>2. order'["entry"].state \in {"none", "done"} => ~Underway("entry")'
    BY DEF Underway
  <2> QED BY <1>1, <2>1, <2>2 DEF DemoInv, GuardInv, At
<1>8. NothingUnderway => order' = order /\ NothingUnderway' /\ base' >= base
  <2>1. NothingUnderway => order' = order
    BY <1>5 DEF NothingUnderway, DemoInv, DemoTypes, Mild, OrdersFit
  <2> QED BY <2>1 DEF NothingUnderway, Mild
<1>9. order["entry"].state = "done" =>
        Bought' = Bought /\ order'["entry"].state = "done" /\ (Drained => Drained')
  BY <1>1, <1>5 DEF Bought, Mild
<1>10. order["exit"].filled > 0 => order'["exit"].filled > 0
  <2>1. "exit" \in Ids
    BY DEF Ids
  <2>2. order["exit"].filled \in Nat /\ order'["exit"].filled \in Nat
    BY <2>1 DEF DemoInv, DemoTypes, Mild, OrdersFit, OrderRecord
  <2>3. order["exit"].state \in {"none", "done"} \/ order["exit"].state = "live" \/ order["exit"].filled = 0
    BY <2>1 DEF DemoInv, DemoTypes, OrderFits, OrderRecord, OrderStates
  <2>4. order'["exit"].filled >= order["exit"].filled \/ order["exit"].filled = 0
    BY <2>1, <2>2, <2>3 DEF Mild, OrdersMove
  <2> QED BY <2>2, <2>4
<1>11. order["entry"].repriced /\ order["entry"].state \in {"live", "done"} =>
         order'["entry"].repriced /\ order'["entry"].state \in {"live", "done"}
  BY <1>1, <1>5 DEF Mild, OrdersMove
<1>12. base \in Int /\ base' \in Int /\ Bought \in Int
  <2>1. order["entry"].filled \in Nat
    BY <1>1, OrdersAre DEF DemoInv
  <2> QED BY <2>1, NetIs DEF DemoInv, DemoTypes, Mild, Bought
<1>13. NothingUnderway /\ base >= 0 => base' >= 0
  BY <1>8, <1>12
<1>14. NothingUnderway /\ Drained => Drained'
  BY <1>1 DEF NothingUnderway, Mild
<1>15. FineInv'
  <2> SUFFICES ASSUME Fine' PROVE FineInv'
    BY DEF FineInv
  <2>1. Fine
    BY <1>2 DEF Fine
  <2>2. ~(At("cancel")' /\ ~run'.flag /\ program \in {"probe", "oco"}) =>
          \A o \in Ids : order'[o].state # "transit"
    BY <1>2, <1>5, <2>1 DEF DemoInv, FineInv, At
  <2>3. program = "wsAmend" =>
           /\ ~At("fallback")'
           /\ At("confirm")' => run'.flag
           /\ run'.pc \in {"wsCancel", "watchCanceled", "settle", "survey", "reconnect", "disarm"} =>
                order'["entry"].repriced /\ order'["entry"].state \in {"live", "done"}
    BY <1>2, <1>11, <2>1 DEF DemoInv, FineInv, At
  <2>4. program = "fill" =>
           /\ run'.pc \in {"verify", "residual", "disarm"} => order'["exit"].filled > 0
           /\ run'.pc \in {"residual", "disarm"} => NothingUnderway'
           /\ At("disarm")' => Drained' /\ base' >= 0
    BY <1>8, <1>10, <1>13, <1>14, <2>1 DEF DemoInv, FineInv, At
  <2>5. program = "probe" =>
           /\ run'.pc \in SaleOfProbe \cup {"delta", "cleanup", "disarm"} => order'["entry"].state = "done"
           /\ run'.pc \in SaleOfProbe \cup {"cleanup"} => Bought' >= Lot
           /\ At("disarm")' => /\ NothingUnderway' /\ order'["exit"].filled > 0
                               /\ Drained' /\ base' >= 0
    BY <1>8, <1>9, <1>10, <1>13, <1>14, <2>1 DEF DemoInv, FineInv, At
  <2>6. program = "oco" =>
           /\ run'.pc \in OcoOwned => order'["entry"].state = "done"
           /\ run'.pc \in {"survey", "disarm"} => Drained'
           /\ At("disarm")' => NothingUnderway' /\ base' >= 0
    <3>1. "survey" \in OcoOwned /\ "disarm" \in OcoOwned
      BY DEF OcoOwned
    <3> QED BY <1>8, <1>9, <1>13, <1>14, <2>1, <3>1 DEF DemoInv, FineInv, At
  <2> QED BY <1>1, <2>2, <2>3, <2>4, <2>5, <2>6 DEF FineInv
<1>16. DoneInv'
  <2>1. caa = "off" => caa' = "off"
    OBVIOUS
  <2> QED BY <1>1, <1>2, <1>8, <1>10, <1>13, <1>14, <2>1 DEF DemoInv, DoneInv
<1>17. SaleInv'
  <2> SUFFICES ASSUME program # "oco" PROVE SaleInv'
    BY <1>1 DEF SaleInv
  <2>1. run'.amount = run.amount /\ run'.pc = run.pc /\ run.amount \in Nat
    BY DEF Kept, DemoInv, DemoTypes, RunRecord
  <2>2. run.pc \in Before => order'["entry"].state = "none"
    BY <1>1, <1>5 DEF DemoInv, SaleInv
  <2>3. /\ Bought \in Int /\ Bought' \in Int /\ Have \in Int /\ Have' \in Int
        /\ Bought <= Bought' /\ Have <= Have'
    BY HoldingsGrow DEF DemoInv
  <2>4. program = "fill" /\ run.pc \in {"quote", "sell"} => run'.amount <= Have'
    BY <2>1, <2>3 DEF DemoInv, SaleInv
  <2>5. program = "probe" /\ At("sell") => run'.amount <= Bought'
    BY <2>1, <2>3 DEF DemoInv, SaleInv
  <2> QED BY <1>1, <2>1, <2>2, <2>4, <2>5 DEF SaleInv, At
<1> QED BY <1>3, <1>4, <1>6, <1>7, <1>15, <1>16, <1>17 DEF DemoInv, Mild

(* Sleeping between two attempts keeps the invariant.                      *)
LEMMA SleepsKeeps ==
    ASSUME DemoInv, NEW n \in {TerminalAttempts, CleanupAttempts}, Sleeps(n)
    PROVE  DemoInv'
<1>1. DemoTypes /\ BalanceInv /\ "entry" \in Ids
  BY DEF DemoInv, Ids
<1>2. /\ Mild
      /\ order'["entry"].state = "transit" => order'["entry"].life + 1 <= order["entry"].life
      /\ run' \in RunRecord /\ run'.pc = run.pc /\ run'.tries = run.tries + 1 /\ Kept(run', run)
      /\ run'.tries < n /\ caa' = caa
  BY <1>1, SleepsIsMild
<1>3. order["entry"].life \in Nat
  BY <1>1, OrdersAre
<1>4. order'["entry"].life \in Nat
  <2>1. order'["entry"] \in OrderRecord
    BY <1>1, <1>2 DEF Mild, OrdersFit
  <2> QED BY <2>1 DEF OrderRecord
<1>5. run.tries \in Nat
  BY <1>1 DEF DemoTypes, RunRecord
<1>6. order'["entry"].state = "transit" =>
        order'["entry"].life + run'.tries <= order["entry"].life + run.tries
  <2>1. run'.tries = run.tries + 1
        /\ (order'["entry"].state = "transit" => order'["entry"].life + 1 <= order["entry"].life)
    BY <1>2
  <2> QED BY <1>3, <1>4, <1>5, <2>1
<1>7. run'.tries < TerminalAttempts \/ run'.tries < CleanupAttempts
  BY <1>2
<1>8. Mild /\ run' \in RunRecord /\ run'.pc = run.pc /\ Kept(run', run) /\ caa' = caa
  BY <1>2
<1> QED BY <1>6, <1>7, <1>8, WaitingKeeps

(* Whatever happens at OKX between two steps of a program keeps it.        *)
LEMMA WorldKeeps ==
    ASSUME DemoInv, World
    PROVE  DemoInv'
<1>1. DemoTypes /\ BalanceInv /\ "entry" \in Ids
  BY DEF DemoInv, Ids
<1>2. run \in RunRecord /\ (run.tries < TerminalAttempts \/ run.tries < CleanupAttempts)
      /\ run.tries \in Nat
  BY <1>1 DEF DemoTypes, RunRecord
<1>3. ASSUME Mild, run' = run,
             \/ caa' = caa
             \/ caa = "armed" /\ caa' = "fired" /\ (At("place") => program = "oco")
                /\ order'["entry"].state \in {"none", "done"}
      PROVE  DemoInv'
  <2>1. order'["entry"].state = "transit" => order'["entry"].life <= order["entry"].life
    BY <1>1, <1>3 DEF Mild, OrdersMove
  <2>2. order["entry"].life \in Nat /\ order'["entry"].life \in Nat
    BY <1>1, <1>3 DEF DemoTypes, Mild, OrdersFit, OrderRecord
  <2>3. order'["entry"].state = "transit" =>
          order'["entry"].life + run'.tries <= order["entry"].life + run.tries
    BY <1>2, <1>3, <2>1, <2>2
  <2>4. Kept(run', run)
    BY <1>3 DEF Kept
  <2> QED BY <1>2, <1>3, <2>3, <2>4, WaitingKeeps
<1>4. CASE Triggers
  <2>1. Mild
    BY <1>1, <1>4, TriggersIsMild
  <2>2. run' = run /\ caa' = caa
    BY <1>4 DEF Triggers
  <2> QED BY <1>3, <2>1, <2>2
<1>5. CASE Fires
  <2>1. order'["entry"].state \in {"none", "done"}
    <3>1. order'["entry"] = IF "entry" \in OpenOrders THEN Gone(order["entry"]) ELSE order["entry"]
      BY <1>1, <1>5 DEF Fires
    <3>2. CASE "entry" \in OpenOrders
      <4>1. order'["entry"].state = "done"
        BY <1>1, <3>1, <3>2 DEF Gone, DemoTypes, OrderRecord
      <4> QED BY <4>1
    <3>3. CASE "entry" \notin OpenOrders
      BY <1>1, <1>5, <3>1, <3>3, OrdersAre DEF OpenOrders, OrderStates, Ids, Fires
    <3> QED BY <3>2, <3>3
  <2>2. Mild
    BY <1>1, <1>5, FiresIsMild
  <2> QED BY <1>3, <1>5, <2>1, <2>2 DEF Fires
<1>6. CASE Deposit
  <2>1. Mild
    BY <1>1, <1>6, DepositIsMild
  <2>2. run' = run /\ caa' = caa
    BY <1>6 DEF Deposit
  <2> QED BY <1>3, <2>1, <2>2
<1>7. ASSUME NEW o \in Ids, Arrives(o) \/ Trades(o) \/ Lapses(o)
      PROVE  DemoInv'
  <2>1. CASE Arrives(o)
    <3>1. Mild
      BY <1>1, <2>1, ArrivesIsMild
    <3>2. run' = run /\ caa' = caa
      BY <2>1 DEF Arrives
    <3> QED BY <1>3, <3>1, <3>2
  <2>2. CASE Trades(o)
    <3>1. Mild
      BY <1>1, <2>2, TradesIsMild
    <3>2. run' = run /\ caa' = caa
      BY <2>2 DEF Trades
    <3> QED BY <1>3, <3>1, <3>2
  <2>3. CASE Lapses(o)
    <3>1. Mild
      BY <1>1, <2>3, LapsesIsMild
    <3>2. run' = run /\ caa' = caa
      BY <2>3 DEF Lapses
    <3> QED BY <1>3, <3>1, <3>2
  <2> QED BY <1>7, <2>1, <2>2, <2>3
<1> QED BY <1>4, <1>5, <1>6, <1>7 DEF World

-----------------------------------------------------------------------------
(* The orders after a step of a program.                                   *)
Quiet == UNCHANGED <<program, okx>>

(* A step that leaves OKX alone.                                           *)
LEMMA QuietHolds ==
    ASSUME DemoInv, Quiet
    PROVE  OkxHolds /\ order' = order /\ base' = base /\ deposits' = deposits /\ caa' = caa
<1>1. DemoTypes /\ BalanceInv /\ GuardInv
  BY DEF DemoInv
<1>2. /\ program' = program /\ order' = order /\ base' = base /\ deposits' = deposits
      /\ leg' = leg /\ caa' = caa
  BY DEF Quiet, okx
<1>3. Mild
  BY <1>1, <1>2, StillIsMild
<1>4. caa' \in {"off", "armed", "fired"}
  BY <1>1, <1>2 DEF DemoTypes
<1>5. program \notin {"fill", "oco"} /\ Underway("entry")' => caa' = "armed"
  BY <1>1, <1>2 DEF GuardInv, Underway
<1> QED BY <1>2, <1>3, <1>4, <1>5 DEF OkxHolds, Mild

(* A mild step that leaves the timer alone.                                *)
LEMMA MildHolds ==
    ASSUME DemoInv, Mild, caa' = caa
    PROVE  OkxHolds
<1>1. caa' \in {"off", "armed", "fired"} /\ "entry" \in Ids
  BY DEF DemoInv, DemoTypes, Ids
<1>2. Underway("entry")' => Underway("entry")
  <2>1. order["entry"].state \in OrderStates
    BY <1>1, OrdersAre DEF DemoInv
  <2> QED BY <1>1, <2>1 DEF Mild, OrdersMove, Underway, OrderStates
<1>3. program \notin {"fill", "oco"} /\ Underway("entry")' => caa' = "armed"
  BY <1>2 DEF DemoInv, GuardInv
<1> QED BY <1>1, <1>3 DEF OkxHolds, Mild

(* The cancellation of the entry order.                                    *)
LEMMA EntryIsCanceled ==
    ASSUME DemoInv, NEW place, NEW next, NEW otherwise, CancelEntry(place, next, otherwise)
    PROVE  /\ OkxHolds /\ At(place) /\ run' \in {next, otherwise}
           /\ \A o \in Ids : order'[o].state = "transit" => order[o].state = "transit"
           /\ order["entry"].repriced /\ order["entry"].state \in {"live", "done"} =>
                order'["entry"].repriced /\ order'["entry"].state \in {"live", "done"}
           /\ order["entry"].state \in {"none", "done"} => order'["entry"] = order["entry"]
<1>1. PICK ok \in BOOLEAN : Canceled("entry") /\ run' = IF ok THEN next ELSE otherwise
  BY DEF CancelEntry
<1>2. /\ program' = program /\ leg' = leg /\ caa' = caa /\ deposits' = deposits /\ At(place)
      /\ "entry" \in Ids
  BY DEF CancelEntry, Ids
<1>3. Mild
  BY <1>1, <1>2, CanceledIsMild DEF DemoInv
<1>4. OkxHolds
  BY <1>2, <1>3, MildHolds
<1> QED BY <1>1, <1>2, <1>3, <1>4 DEF Mild, OrdersMove

(* The placement of the entry order.                                       *)
LEMMA EntryIsPlaced ==
    ASSUME DemoInv, NEW after, NEW ok \in BOOLEAN, PlaceEntry(after, ok)
    PROVE  /\ OkxHolds /\ At("place") /\ run' = after /\ PlacedAs("entry", ok)
           /\ caa' = caa
           /\ program = "expired" => order'["entry"].state # "transit"
<1>1. /\ At("place") /\ Placed("entry", EntrySize, ok) /\ run' = after
      /\ program' = program /\ leg' = leg /\ caa' = caa /\ deposits' = deposits /\ "entry" \in Ids
  BY DEF PlaceEntry, Ids
<1>2. PlacedAs("entry", ok)
  <2>1. DemoTypes /\ BalanceInv /\ EntrySize \in Nat /\ EntrySize >= Lot
    BY SizesOfOrders DEF DemoInv
  <2>2. program # "oco" => order["entry"].filled = 0
    <3>1. program # "oco" => order["entry"].state = "none"
      BY <1>1 DEF DemoInv, SaleInv, Before, At
    <3> QED BY <1>1, <2>1, <3>1 DEF DemoTypes, OrderFits
  <2> QED BY <1>1, <2>1, <2>2, PlacedIs
<1>3. OkxHolds
  <2>1. /\ leg' \in {"none", "tp", "sl"} /\ deposits' \in 0 .. MaxDeposits
        /\ caa' \in {"off", "armed", "fired"}
    BY <1>1 DEF DemoInv, DemoTypes
  <2>2. program \notin {"fill", "oco"} => caa' = "armed"
    BY <1>1 DEF DemoInv, GuardInv
  <2> QED BY <1>1, <1>2, <2>1, <2>2 DEF OkxHolds, PlacedAs
<1>4. program = "expired" => order'["entry"].state # "transit"
  BY <1>2 DEF PlacedAs, DemoInv, EntryInv
<1> QED BY <1>1, <1>2, <1>3, <1>4

(* The placement of any other order.                                       *)
LEMMA OtherIsPlaced ==
    ASSUME DemoInv, NEW o \in Ids \ {"entry"}, NEW ok \in BOOLEAN, Placed(o, run.amount, ok),
           program' = program, leg' = leg, caa' = caa, deposits' = deposits,
           program # "oco" => o = "exit" /\ At("sell"), program \notin PostOnly
    PROVE  OkxHolds /\ PlacedAs(o, ok) /\ order'["entry"] = order["entry"]
<1>1. run.amount \in Nat /\ "entry" \in Ids
  BY DEF DemoInv, DemoTypes, RunRecord, Ids
<1>2. PlacedAs(o, ok)
  <2>1. DemoTypes /\ BalanceInv
    BY DEF DemoInv
  <2>2. /\ program = "fill" => run.amount <= Have
        /\ program = "probe" => run.amount <= Bought
    BY DEF DemoInv, SaleInv, At
  <2>3. o # "entry"
    OBVIOUS
  <2> QED BY <1>1, <2>1, <2>2, <2>3, PlacedIs
<1>3. order'["entry"] = order["entry"]
  BY <1>1, <1>2 DEF PlacedAs
<1>4. OkxHolds
  <2>1. /\ leg' \in {"none", "tp", "sl"} /\ deposits' \in 0 .. MaxDeposits
        /\ caa' \in {"off", "armed", "fired"}
    BY DEF DemoInv, DemoTypes
  <2>2. program \notin {"fill", "oco"} /\ Underway("entry")' => caa' = "armed"
    BY <1>3 DEF DemoInv, GuardInv, Underway
  <2> QED BY <1>2, <2>1, <2>2 DEF OkxHolds, PlacedAs
<1> QED BY <1>2, <1>3, <1>4

-----------------------------------------------------------------------------
(* The steps of the post-only programs.                                    *)
LEMMA Running ==
    ASSUME DemoInv
    PROVE  /\ DemoTypes /\ run \in RunRecord /\ run.failures \in BOOLEAN /\ run.flag \in BOOLEAN
           /\ run.pc # "end" => run.result = "none"
           /\ run.pc # "end" /\ ~run.failures => Fine
           /\ program \in PostOnly \cup {"fill", "probe", "oco"}
BY DemoAssumption DEF DemoInv, DemoTypes, PlaceInv, At, Fine, RunRecord, Taking

(* The places that only the post-only programs reach.                      *)
LEMMA PostOnlyAt ==
    ASSUME DemoInv,
           run.pc \in {"observe", "login", "watchPlaced", "amend", "watchAmended", "confirm",
                       "wsCancel", "watchCanceled", "fallback", "absent", "reconnect"}
    PROVE  program \in PostOnly
BY Running DEF DemoInv, PlaceInv, At, FillPlaces, ProbePlaces, SaleOfProbe, OcoPlaces, OcoOwned, OcoCleanup

(* A step that only moves the program on.                                  *)
LEMMA GoesIs ==
    ASSUME NEW r, Goes(r), DemoInv
    PROVE  /\ run' = r /\ OkxHolds /\ order' = order /\ base' = base /\ deposits' = deposits
           /\ program = "expired" => order'["entry"].state # "transit"
BY QuietHolds DEF Goes, Quiet, DemoInv, EntryInv

(* Before its placement the entry order does not exist.                    *)
LEMMA EntryIsUnplaced ==
    ASSUME DemoInv, program # "oco", run.pc \in {"prepare", "observe", "login", "arm", "place"}
    PROVE  order["entry"].state = "none"
BY DEF DemoInv, SaleInv, Before

(* Every step of the post-only programs keeps the invariant.               *)
LEMMA PostOnlySteps ==
    ASSUME DemoInv, program \in PostOnly,
           \/ PrepareOrder \/ ConnectObserver \/ ConnectSession \/ PlaceRest \/ PlaceWebsocket
           \/ PlaceGuarded \/ PlaceCrossing \/ PlaceExpired \/ WatchPlaced \/ AmendOrder \/ WatchAmended
           \/ ConfirmAmend \/ CancelWebsocket \/ WatchCanceled \/ CancelFallback \/ CancelRest
           \/ FinishLifecycle \/ SurveyOpenOrders \/ VerifyAbsent \/ ReconnectObserver
    PROVE  DemoInv'
<1>1. /\ program \notin {"fill", "probe", "oco"}
      /\ {"observe", "login", "arm", "watchPlaced", "amend", "watchAmended", "confirm", "wsCancel",
          "watchCanceled", "fallback", "cancel", "settle", "survey", "absent", "reconnect", "disarm"}
           \subseteq PostOnlyPlaces \ {"end"}
  BY DEF PostOnly, PostOnlyPlaces
<1>2. "entry" \in Ids
  BY DEF Ids
<1>3. run.pc # "end" /\ ~run.failures => order["entry"].state # "transit"
  BY <1>1, <1>2, Running DEF DemoInv, FineInv
<1>4. \A r : Goes(r) => /\ run' = r /\ OkxHolds /\ order' = order
                        /\ program = "expired" => order'["entry"].state # "transit"
  BY GoesIs
<1>5. \A r : Goes(r) /\ r = Ended("err") => DemoInv'
  BY <1>4, EndsBadly
<1>6. CASE PrepareOrder
  <2>1. run.pc = "prepare"
    BY <1>6 DEF PrepareOrder, At
  <2>2. CASE Goes(Ended("err"))
    BY <1>5, <2>2
  <2>3. ASSUME NEW p \in {"arm", "login", "observe"}, Goes(To(p))
        PROVE  DemoInv'
    <3>1. WentTo(p) /\ run'.failures = run.failures
      BY <2>3, PlacesAre, WentToIs, Running DEF Goes
    <3> QED BY <1>1, <1>3, <1>4, <2>1, <2>3, <3>1, EntryIsUnplaced, Running, PostOnlyMoves
  <2> QED BY <1>6, <2>2, <2>3 DEF PrepareOrder
<1>7. CASE ConnectObserver
  <2>1. run.pc = "observe"
    BY <1>7 DEF ConnectObserver, At
  <2>2. CASE Goes(Ended("err"))
    BY <1>5, <2>2
  <2>3. ASSUME NEW p \in {"arm", "login"}, Goes(To(p))
        PROVE  DemoInv'
    <3>1. WentTo(p) /\ run'.failures = run.failures
      BY <2>3, PlacesAre, WentToIs, Running DEF Goes
    <3> QED BY <1>1, <1>3, <1>4, <2>1, <2>3, <3>1, EntryIsUnplaced, Running, PostOnlyMoves
  <2> QED BY <1>7, <2>2, <2>3 DEF ConnectObserver
<1>8. CASE ConnectSession
  <2>1. run.pc = "login"
    BY <1>8 DEF ConnectSession, At
  <2>2. CASE Goes(Ended("err"))
    BY <1>5, <2>2
  <2>3. CASE Goes(To("arm"))
    <3>1. WentTo("arm") /\ run'.failures = run.failures
      BY <2>3, PlacesAre, WentToIs, Running DEF Goes
    <3> QED BY <1>1, <1>3, <1>4, <2>1, <2>3, <3>1, EntryIsUnplaced, Running, PostOnlyMoves
  <2> QED BY <1>8, <2>2, <2>3 DEF ConnectSession
<1>9. ASSUME NEW p \in {"cancel", "wsCancel", "watchPlaced", "watchCanceled"}, PlaceEntry(To(p), TRUE),
             program = "wsAmend" => p = "watchPlaced"
      PROVE  DemoInv'
  <2>1. OkxHolds /\ At("place") /\ run' = To(p) /\ PlacedAs("entry", TRUE)
    BY <1>9, EntryIsPlaced
  <2>2. WentTo(p) /\ run'.failures = run.failures
    BY <2>1, PlacesAre, WentToIs, Running, ZenonT(60)
  <2>3. order'["entry"].state # "transit" /\ run.pc = "place"
    BY <2>1 DEF PlacedAs, At
  <2> QED BY <1>1, <1>9, <2>1, <2>2, <2>3, Running, PostOnlyMoves
<1>10. ASSUME NEW p \in {"cancel", "fallback", "absent"}, NEW ok \in BOOLEAN, PlaceEntry(Failing(To(p)), ok),
              p = "absent" => program = "expired"
       PROVE  DemoInv'
  <2>1. /\ OkxHolds /\ At("place") /\ run' = Failing(To(p))
        /\ program = "expired" => order'["entry"].state # "transit"
    BY <1>10, EntryIsPlaced
  <2>2. WentTo(p) /\ run'.failures = TRUE
    BY <2>1, PlacesAre, WentToIs, Running
  <2>3. run.pc = "place"
    BY <2>1 DEF At
  <2> QED BY <1>1, <1>10, <2>1, <2>2, <2>3, Running, PostOnlyMoves
<1>11. CASE PlaceRest
  <2>1. PICK ok \in BOOLEAN : PlaceEntry(Noting(ok, To("cancel")), ok)
    BY <1>11 DEF PlaceRest
  <2>2. CASE ok
    <3>1. PlaceEntry(To("cancel"), TRUE)
      BY <2>1, <2>2 DEF Noting, PlaceEntry
    <3> QED BY <1>9, <1>11, <3>1 DEF PlaceRest
  <2>3. CASE ~ok
    <3>1. PlaceEntry(Failing(To("cancel")), FALSE)
      BY <2>1, <2>3 DEF Noting, PlaceEntry
    <3> QED BY <1>10, <3>1
  <2> QED BY <2>2, <2>3
<1>12. CASE PlaceWebsocket
  BY <1>9, <1>10, <1>12 DEF PlaceWebsocket
<1>13. CASE PlaceGuarded
  BY <1>9, <1>10, <1>13 DEF PlaceGuarded
<1>14. CASE PlaceCrossing
  BY <1>9, <1>10, <1>14 DEF PlaceCrossing
<1>15. CASE PlaceExpired
  <2>1. program = "expired"
    BY <1>15 DEF PlaceExpired
  <2>2. CASE At("place") /\ Goes(To("absent"))
    <3>1. WentTo("absent") /\ run'.failures = run.failures /\ run.pc = "place"
      BY <2>2, PlacesAre, WentToIs, Running DEF At, Goes
    <3> QED BY <1>1, <1>3, <1>4, <2>1, <2>2, <3>1, Running, PostOnlyMoves
  <2> QED BY <1>10, <1>15, <2>1, <2>2 DEF PlaceExpired
<1>16. CASE WatchPlaced
  <2>1. run.pc = "watchPlaced"
    BY <1>16 DEF WatchPlaced, At
  <2>2. ASSUME NEW p \in {"watchCanceled", "amend"}, Goes(To(p)), program = "wsAmend" => p = "amend"
        PROVE  DemoInv'
    <3>1. WentTo(p) /\ run'.failures = run.failures
      BY <2>2, PlacesAre, WentToIs, Running DEF Goes
    <3> QED BY <1>1, <1>3, <1>4, <2>1, <2>2, <3>1, Running, PostOnlyMoves
  <2>3. CASE Goes(Failing(To("fallback")))
    <3>1. WentTo("fallback") /\ run'.failures = TRUE
      BY <2>3, PlacesAre, WentToIs, Running DEF Goes
    <3> QED BY <1>1, <1>4, <2>1, <2>3, <3>1, Running, PostOnlyMoves
  <2> QED BY <1>16, <2>2, <2>3 DEF WatchPlaced
<1>17. CASE AmendOrder
  <2>1. PICK ok \in BOOLEAN :
          /\ \/ /\ order["entry"].state = "live"
                /\ Becomes("entry", [order["entry"] EXCEPT !.repriced = TRUE])
             \/ ~ok /\ UNCHANGED <<order, base>>
          /\ run' = IF ok THEN To("watchAmended") ELSE Failing(To("fallback"))
    BY <1>17 DEF AmendOrder
  <2>2. program' = program /\ leg' = leg /\ caa' = caa /\ deposits' = deposits /\ run.pc = "amend"
    BY <1>17 DEF AmendOrder, At
  <2>3. Mild
    <3>1. CASE order["entry"].state = "live" /\ Becomes("entry", [order["entry"] EXCEPT !.repriced = TRUE])
      BY <2>2, <3>1, ChangesAreMild DEF DemoInv
    <3>2. CASE UNCHANGED <<order, base>>
      BY <2>2, <3>2, StillIsMild DEF DemoInv
    <3> QED BY <2>1, <3>1, <3>2
  <2>4. OkxHolds
    BY <2>2, <2>3, MildHolds
  <2>5. order'["entry"].state = "transit" => order["entry"].state = "transit"
    BY <1>2, <2>3 DEF Mild, OrdersMove
  <2>6. program = "expired" => order'["entry"].state # "transit"
    BY <2>5 DEF DemoInv, EntryInv
  <2>7. CASE run' = To("watchAmended")
    <3>1. WentTo("watchAmended") /\ run'.failures = run.failures
      BY <2>7, PlacesAre, WentToIs, Running
    <3> QED BY <1>1, <1>3, <2>2, <2>4, <2>5, <2>6, <3>1, Running, PostOnlyMoves
  <2>8. CASE run' = Failing(To("fallback"))
    <3>1. WentTo("fallback") /\ run'.failures = TRUE
      BY <2>8, PlacesAre, WentToIs, Running
    <3> QED BY <1>1, <2>2, <2>4, <2>6, <3>1, Running, PostOnlyMoves
  <2> QED BY <2>1, <2>7, <2>8
<1>18. CASE WatchAmended
  <2>1. PICK seen \in BOOLEAN : Goes([Noting(seen, To("confirm")) EXCEPT !.flag = seen])
    BY <1>18 DEF WatchAmended
  <2>2. run.pc = "watchAmended"
    BY <1>18 DEF WatchAmended, At
  <2>3. /\ WentTo("confirm") /\ run'.flag = seen
        /\ seen => run'.failures = run.failures
        /\ ~seen => run'.failures = TRUE
    BY <2>1, PlacesAre, WentToIs, Running DEF Noting, Goes
  <2> QED BY <1>1, <1>3, <1>4, <2>1, <2>2, <2>3, Running, PostOnlyMoves
<1>19. CASE ConfirmAmend
  <2>1. PICK ok \in BOOLEAN :
          /\ ok => order["entry"].state = "live" /\ order["entry"].repriced
          /\ Goes(Noting(ok, To(IF run.flag THEN "wsCancel" ELSE "fallback")))
    BY <1>19 DEF ConfirmAmend
  <2>2. run.pc = "confirm"
    BY <1>19 DEF ConfirmAmend, At
  <2>3. PICK p \in {"wsCancel", "fallback"} :
          p = (IF run.flag THEN "wsCancel" ELSE "fallback") /\ Goes(Noting(ok, To(p)))
    BY <2>1
  <2>4. /\ WentTo(p)
        /\ ok => run'.failures = run.failures
        /\ ~ok => run'.failures = TRUE
    BY <2>3, PlacesAre, WentToIs, Running DEF Noting, Goes
  <2>5. ~run.failures /\ program = "wsAmend" => p = "wsCancel"
    BY <2>2, <2>3, Running DEF DemoInv, FineInv, At
  <2> QED BY <1>1, <1>3, <1>4, <2>1, <2>2, <2>3, <2>4, <2>5, Running, PostOnlyMoves
<1>20. CASE CancelWebsocket
  <2>1. PICK p \in {"settle", "watchCanceled"} :
          CancelEntry("wsCancel", To(p), Failing(To("fallback")))
    BY <1>20 DEF CancelWebsocket
  <2>2. run.pc = "wsCancel"
    BY <2>1 DEF CancelEntry, At
  <2>3. /\ OkxHolds /\ run' \in {To(p), Failing(To("fallback"))}
        /\ order'["entry"].state = "transit" => order["entry"].state = "transit"
        /\ order["entry"].repriced /\ order["entry"].state \in {"live", "done"} =>
             order'["entry"].repriced /\ order'["entry"].state \in {"live", "done"}
    BY <1>2, <2>1, EntryIsCanceled
  <2>4. program = "expired" => order'["entry"].state # "transit"
    BY <2>3 DEF DemoInv, EntryInv
  <2>5. CASE run' = To(p)
    <3>1. WentTo(p) /\ run'.failures = run.failures
      BY <2>5, PlacesAre, WentToIs, Running
    <3>2. ~run.failures /\ program = "wsAmend" =>
            order'["entry"].repriced /\ order'["entry"].state \in {"live", "done"}
      BY <2>2, <2>3, Running DEF DemoInv, FineInv
    <3> QED BY <1>1, <1>3, <2>2, <2>3, <2>4, <3>1, <3>2, Running, PostOnlyMoves
  <2>6. CASE run' = Failing(To("fallback"))
    <3>1. WentTo("fallback") /\ run'.failures = TRUE
      BY <2>6, PlacesAre, WentToIs, Running
    <3> QED BY <1>1, <2>2, <2>3, <2>4, <3>1, Running, PostOnlyMoves
  <2> QED BY <2>3, <2>5, <2>6
<1>21. CASE WatchCanceled
  <2>1. run.pc = "watchCanceled"
    BY <1>21 DEF WatchCanceled, At
  <2>2. CASE /\ order["entry"].state = "done" /\ (program = "wsAmend" => order["entry"].repriced)
             /\ Goes(To("settle"))
    <3>1. WentTo("settle") /\ run'.failures = run.failures
      BY <2>2, PlacesAre, WentToIs, Running DEF Goes
    <3> QED BY <1>1, <1>3, <1>4, <2>1, <2>2, <3>1, Running, PostOnlyMoves
  <2>3. ASSUME NEW p \in {"settle", "fallback"}, Goes(Failing(To(p)))
        PROVE  DemoInv'
    <3>1. WentTo(p) /\ run'.failures = TRUE
      BY <2>3, PlacesAre, WentToIs, Running DEF Goes
    <3> QED BY <1>1, <1>4, <2>1, <2>3, <3>1, Running, PostOnlyMoves
  <2> QED BY <1>21, <2>2, <2>3 DEF WatchCanceled
<1>22. ASSUME NEW q \in {"fallback", "cancel"}, CancelEntry(q, To("settle"), Failing(To("settle"))),
              q = "cancel" => program = "rest"
       PROVE  DemoInv'
  <2>1. run.pc = q
    BY <1>22 DEF CancelEntry, At
  <2>2. /\ OkxHolds /\ run' \in {To("settle"), Failing(To("settle"))}
        /\ order'["entry"].state = "transit" => order["entry"].state = "transit"
    BY <1>2, <1>22, EntryIsCanceled
  <2>3. program = "expired" => order'["entry"].state # "transit"
    BY <2>2 DEF DemoInv, EntryInv
  <2>4. WentTo("settle") /\ (run'.failures = TRUE \/ run'.failures = run.failures)
    BY <2>2, PlacesAre, WentToIs, Running
  <2>5. ~run.failures => program # "wsAmend"
    BY <1>22, <2>1, Running DEF DemoInv, FineInv, At
  <2> QED BY <1>1, <1>3, <2>1, <2>2, <2>3, <2>4, <2>5, Running, PostOnlyMoves
<1>23. CASE CancelFallback
  BY <1>22, <1>23 DEF CancelFallback
<1>24. CASE CancelRest
  BY <1>1, <1>22, <1>24 DEF CancelRest
<1>25. CASE FinishLifecycle
  <2>1. run.pc = "settle"
    BY <1>25 DEF FinishLifecycle, At
  <2>2. CASE NotTerminal("entry")
    BY <2>2, SleepsKeeps DEF NotTerminal
  <2>3. ASSUME NEW quiet \in BOOLEAN, quiet = (order["entry"].filled = 0), order["entry"].state = "done",
               Goes([Noting(quiet, To("survey")) EXCEPT !.flag = quiet])
        PROVE  DemoInv'
    <3>1. /\ WentTo("survey") /\ run'.flag = quiet
          /\ run'.failures = run.failures \/ run'.failures = TRUE
      BY <2>3, PlacesAre, WentToIs, Running DEF Noting, Goes
    <3>2. ~run.failures /\ program = "wsAmend" => order["entry"].repriced
      BY <2>1, Running DEF DemoInv, FineInv
    <3> QED BY <1>1, <1>4, <2>1, <2>3, <3>1, <3>2, Running, PostOnlyMoves
  <2>4. CASE Goes([Failing(To("survey")) EXCEPT !.flag = FALSE])
    <3>1. WentTo("survey") /\ run'.flag = FALSE /\ run'.failures = TRUE
      BY <2>4, PlacesAre, WentToIs, Running DEF Goes
    <3> QED BY <1>1, <1>4, <2>1, <2>4, <3>1, Running, PostOnlyMoves
  <2> QED BY <1>25, <2>2, <2>3, <2>4 DEF FinishLifecycle
<1>26. ASSUME NEW p \in {"reconnect", "disarm"}, run.pc \in {"survey", "absent", "reconnect"},
              Goes(To(p)) \/ (Goes(Failing(To(p))) /\ run.pc = "reconnect"),
              order["entry"].state \in {"none", "done"}, order["entry"].filled = 0,
              program = "wsAmend" => run.pc # "absent"
       PROVE  DemoInv'
  <2>1. WentTo(p) /\ (run'.failures = run.failures \/ run'.failures = TRUE)
    BY <1>26, PlacesAre, WentToIs, Running DEF Goes
  <2>2. ~run.failures /\ program = "wsAmend" =>
          order["entry"].repriced /\ order["entry"].state \in {"live", "done"}
    BY <1>26, Running DEF DemoInv, FineInv
  <2> QED BY <1>1, <1>4, <1>26, <2>1, <2>2, Running, PostOnlyMoves
<1>27. CASE SurveyOpenOrders
  <2>1. run.pc = "survey" /\ At("survey")
    BY <1>27 DEF SurveyOpenOrders, At
  <2>2. CASE Goes(Ended("err"))
    BY <1>5, <2>2
  <2>3. ASSUME NEW p \in {"reconnect", "disarm"}, run.flag, Goes(To(p))
        PROVE  DemoInv'
    <3>1. order["entry"].state = "done" /\ order["entry"].filled = 0
      BY <2>1, <2>3 DEF DemoInv, EntryInv
    <3> QED BY <1>26, <2>1, <2>3, <3>1
  <2> QED BY <1>27, <2>2, <2>3 DEF SurveyOpenOrders
<1>28. CASE VerifyAbsent
  <2>1. run.pc = "absent" /\ program = "expired"
    BY <1>28 DEF VerifyAbsent, At, DemoInv, PlaceInv
  <2>2. CASE Goes(Ended("err"))
    BY <1>5, <2>2
  <2>3. CASE order["entry"].state \notin {"live", "done"} /\ Goes(To("disarm"))
    <3>1. order["entry"].state = "none" /\ order["entry"].filled = 0
      BY <1>2, <2>1, <2>3, OrdersAre DEF DemoInv, DemoTypes, EntryInv, OrderFits, OrderStates
    <3> QED BY <1>26, <2>1, <2>3, <3>1
  <2> QED BY <1>28, <2>2, <2>3 DEF VerifyAbsent
<1>29. CASE ReconnectObserver
  <2>1. run.pc = "reconnect"
    BY <1>29 DEF ReconnectObserver, At
  <2>2. Goes(To("disarm")) \/ Goes(Failing(To("disarm")))
    BY <1>29 DEF ReconnectObserver, Noting
  <2>3. order["entry"].state \in {"none", "done"} /\ order["entry"].filled = 0
    BY <2>1 DEF DemoInv, EntryInv
  <2> QED BY <1>26, <2>1, <2>2, <2>3
<1> QED BY <1>6, <1>7, <1>8, <1>11, <1>12, <1>13, <1>14, <1>15, <1>16, <1>17, <1>18, <1>19, <1>20,
          <1>21, <1>23, <1>24, <1>25, <1>27, <1>28, <1>29

-----------------------------------------------------------------------------
(* The timer is armed, and disarmed.                                       *)
LEMMA ArmKeeps ==
    ASSUME DemoInv, Arm
    PROVE  DemoInv'
<1>1. PICK ok \in BOOLEAN :
        /\ caa' = "armed" \/ (~ok /\ UNCHANGED caa)
        /\ run' = IF ok THEN To(IF program = "oco" THEN "clean" ELSE "place") ELSE Ended("err")
  BY DEF Arm
<1>2. /\ program' = program /\ order' = order /\ leg' = leg /\ base' = base /\ deposits' = deposits
      /\ run.pc = "arm"
  BY DEF Arm, At
<1>3. Mild
  BY <1>2, StillIsMild DEF DemoInv
<1>4. OkxHolds
  <2>1. caa \in {"off", "armed", "fired"}
    BY DEF DemoInv, DemoTypes
  <2>2. program \notin {"fill", "oco"} /\ Underway("entry") => caa = "armed"
    BY DEF DemoInv, GuardInv
  <2> QED BY <1>1, <1>2, <1>3, <2>1, <2>2 DEF OkxHolds, Mild, Underway
<1>5. program = "expired" => order'["entry"].state # "transit"
  BY <1>2 DEF DemoInv, EntryInv
<1>6. CASE run' = Ended("err")
  BY <1>4, <1>5, <1>6, EndsBadly
<1>7. CASE run' = To(IF program = "oco" THEN "clean" ELSE "place") /\ caa' = "armed"
  <2>1. ~run.failures => \A o \in Ids : order'[o].state # "transit"
    BY <1>2, Running DEF DemoInv, FineInv, At
  <2>2. "entry" \in Ids /\ (program # "oco" => order'["entry"].state = "none")
    BY <1>2, EntryIsUnplaced DEF Ids
  <2>3. CASE program \in PostOnly
    <3>1. program # "oco" /\ "place" \in PostOnlyPlaces \ {"end"}
      BY <2>3 DEF PostOnly, PostOnlyPlaces
    <3>2. WentTo("place") /\ run'.failures = run.failures
      BY <1>7, <3>1, PlacesAre, WentToIs, Running
    <3> QED BY <1>2, <1>4, <1>5, <1>7, <2>1, <2>2, <2>3, <3>1, <3>2, Running, PostOnlyMoves
  <2>4. CASE program = "fill"
    <3>1. "place" \in FillPlaces \ {"end"}
      BY DEF FillPlaces
    <3>2. WentTo("place") /\ run'.failures = run.failures
      BY <1>7, <2>4, PlacesAre, WentToIs, Running
    <3> QED BY <1>2, <1>4, <2>1, <2>2, <2>4, <3>1, <3>2, Running, FillMoves
  <2>5. CASE program = "probe"
    <3>1. "place" \in ProbePlaces \ {"end"} /\ "place" \notin SaleOfProbe
      BY DEF ProbePlaces, SaleOfProbe
    <3>2. WentTo("place") /\ run'.failures = run.failures
      BY <1>7, <2>5, PlacesAre, WentToIs, Running
    <3>3. run' \in RunRecord /\ run'.pc = "place" /\ run'.tries = 0 /\ run'.result = "none"
      BY <1>2, <3>2, Running DEF WentTo
    <3> QED BY <1>4, <1>7, <2>1, <2>2, <2>5, <3>1, <3>2, <3>3, ProbeMoves
  <2>6. CASE program = "oco"
    <3>1. "clean" \in OcoPlaces \ {"end"} /\ "clean" \notin OcoOwned
      BY DEF OcoPlaces, OcoOwned, OcoCleanup
    <3>2. WentTo("clean") /\ run'.failures = run.failures
      BY <1>7, <2>6, PlacesAre, WentToIs, Running
    <3>3. run' \in RunRecord /\ run'.pc = "clean" /\ run'.tries = 0 /\ run'.result = "none"
      BY <1>2, <3>2, Running DEF WentTo
    <3>4. run'.stage # "cleanup"
      BY <1>2, <2>6, <3>2 DEF WentTo, DemoInv, PlaceInv, OcoCleanup
    <3> QED BY <1>4, <2>1, <2>6, <3>1, <3>2, <3>3, <3>4, OcoMoves
  <2> QED BY <2>3, <2>4, <2>5, <2>6, Running
<1> QED BY <1>1, <1>6, <1>7

(* Disarming keeps the invariant: a program comes here only when its own   *)
(* look at OKX allows it.                                                  *)
LEMMA DisarmKeeps ==
    ASSUME DemoInv, DisarmTimer
    PROVE  DemoInv'
<1>1. PICK ok \in BOOLEAN :
        /\ caa' = "off" \/ (~ok /\ UNCHANGED caa)
        /\ run' = Ended(IF ok THEN Verdict ELSE "err")
  BY DEF DisarmTimer
<1>2. /\ program' = program /\ order' = order /\ leg' = leg /\ base' = base /\ deposits' = deposits
      /\ run.pc = "disarm" /\ At("disarm")
  BY DEF DisarmTimer, At
<1>3. Mild
  BY <1>2, StillIsMild DEF DemoInv
<1>4. program \notin {"fill", "oco"} => ~Underway("entry") /\ ~Underway("entry")'
  <2>1. program \notin {"fill", "oco"} => order["entry"].state \in {"none", "done"}
    BY <1>2, Running DEF DemoInv, EntryInv
  <2>2. order'["entry"] = order["entry"]
    BY <1>2
  <2> QED BY <2>1, <2>2 DEF Underway
<1>5. OkxHolds
  <2>1. caa' \in {"off", "armed", "fired"}
    BY <1>1 DEF DemoInv, DemoTypes
  <2> QED BY <1>2, <1>3, <1>4, <2>1 DEF OkxHolds, Mild
<1>6. program = "expired" => order'["entry"].state # "transit"
  BY <1>2 DEF DemoInv, EntryInv
<1>7. CASE run' = Ended("err")
  BY <1>5, <1>6, <1>7, EndsBadly
<1>8. CASE ok /\ ~run.failures /\ run' = Ended("ok")
  <2>1. caa' = "off" /\ Fine
    BY <1>1, <1>2, <1>8, Running
  <2>2. /\ run' \in RunRecord /\ run'.pc = "end" /\ run'.result = "ok" /\ run'.tries = 0
    BY <1>8, EndedIs, Running
  <2>3. base \in Int /\ deposits * Lot \in Int /\ "entry" \in Ids
    <3>1. base \in Int /\ deposits \in Int
      BY DEF DemoInv, DemoTypes
    <3> QED BY <3>1, Sizes DEF Ids
  <2>4. /\ NothingUnderway /\ Drained /\ base >= 0
        /\ program = "wsAmend" => order["entry"].repriced
        /\ program \in {"fill", "probe"} => order["exit"].filled > 0
    <3>1. CASE program \in PostOnly
      <4>1. program \notin {"fill", "probe", "oco"}
        BY <3>1 DEF PostOnly
      <4>2. order["entry"].state \in {"none", "done"} /\ order["entry"].filled = 0
        BY <1>2, <3>1 DEF DemoInv, EntryInv
      <4>3. /\ order["exit"] = NoOrder /\ order["oco"] = NoOrder /\ order["final"] = NoOrder
            /\ base = Have - order["exit"].filled
        BY <3>1, <4>1 DEF DemoInv, BalanceInv
      <4>4. NoOrder.state = "none" /\ NoOrder.filled = 0
        BY DEF NoOrder
      <4>5. NothingUnderway
        BY <4>2, <4>3, <4>4 DEF NothingUnderway, Ids
      <4>6. Bought = 0
        BY <4>2, NetIs DEF Bought
      <4>7. base = deposits * Lot /\ deposits * Lot >= 0
        <5>1. deposits \in Nat
          BY DEF DemoInv, DemoTypes
        <5>2. deposits * Lot \in Nat
          BY <5>1, Sizes
        <5>3. Have = deposits * Lot + Bought
          BY DEF Have
        <5> QED BY <2>3, <4>3, <4>4, <4>6, <5>2, <5>3
      <4>8. Drained /\ base >= 0
        BY <2>3, <4>7, Sizes DEF Drained
      <4>9. program = "wsAmend" => order["entry"].repriced
        BY <1>2, <2>1 DEF DemoInv, FineInv
      <4> QED BY <4>1, <4>5, <4>8, <4>9
    <3>2. CASE program \in {"fill", "probe"}
      BY <1>2, <2>1, <3>2 DEF DemoInv, FineInv
    <3>3. CASE program = "oco"
      BY <1>2, <2>1, <3>3 DEF DemoInv, FineInv
    <3> QED BY <3>1, <3>2, <3>3, Running
  <2>5. DemoTypes'
    <3>1. 0 < CleanupAttempts
      BY Sizes
    <3> QED BY <1>5, <2>2, <3>1 DEF DemoInv, DemoTypes, OkxHolds, OrdersFit
  <2>6. PlaceInv'
    BY <1>2, <2>2 DEF PlaceInv, At, PostOnlyPlaces, FillPlaces, ProbePlaces, OcoPlaces, OcoCleanup
  <2>7. EntryInv'
    BY <1>2, <1>6, <2>2 DEF EntryInv, At, SaleOfProbe
  <2>8. GuardInv'
    BY <1>2, <1>4, <2>2 DEF GuardInv, At
  <2>9. DoneInv'
    BY <1>2, <2>1, <2>4 DEF DoneInv, NothingUnderway, Drained
  <2>10. FineInv'
    <3>1. \A o \in Ids : order'[o].state # "transit"
      BY <1>2, <2>4 DEF NothingUnderway
    <3>2. /\ run'.pc \notin OcoOwned \cup SaleOfProbe
          /\ run'.pc \notin {"fallback", "confirm", "wsCancel", "watchCanceled", "settle", "survey",
                             "reconnect", "disarm", "verify", "residual", "delta", "cleanup"}
      BY <2>2 DEF OcoOwned, OcoCleanup, SaleOfProbe
    <3> QED BY <3>1, <3>2 DEF FineInv, At
  <2>11. SaleInv'
    BY <2>2 DEF SaleInv, Before, At
  <2> QED BY <1>5, <2>5, <2>6, <2>7, <2>8, <2>9, <2>10, <2>11 DEF DemoInv, OkxHolds
<1> QED BY <1>1, <1>7, <1>8 DEF Verdict

-----------------------------------------------------------------------------
(* The steps of the fill life cycle.                                       *)
LEMMA FillSteps ==
    ASSUME DemoInv, program = "fill", RoundTrip \/ CancelRest
    PROVE  DemoInv'
<1>1. {"arm", "cancel", "settle", "acquired", "quote", "sell", "settleSale", "evidence", "verify",
       "residual", "disarm"} \subseteq FillPlaces \ {"end"}
  BY DEF FillPlaces
<1>2. {"entry", "exit", "oco", "final"} = Ids /\ program \notin PostOnly
  BY DEF Ids, PostOnly
<1>3. run.pc # "end" /\ ~run.failures => \A o \in Ids : order[o].state # "transit"
  BY <1>2, Running DEF DemoInv, FineInv
<1>4. \A r : Goes(r) => /\ run' = r /\ OkxHolds /\ order' = order /\ base' = base /\ deposits' = deposits
  BY GoesIs
<1>5. CASE Goes(Ended("err"))
  BY <1>4, <1>5, EndsBadly
<1>6. ASSUME NEW p \in FillPlaces \ {"end", "verify", "residual", "disarm"}, run.pc # "end",
             p \in {"prepare", "arm", "place"} => run.pc \in {"prepare", "arm", "place"},
             \/ Goes(Failing(To(p))) /\ p \notin {"quote", "sell"}
             \/ Goes(To(p)) /\ (p \in {"quote", "sell"} => run.amount <= Have)
             \/ p # "sell" /\ \E n \in Nat : n <= Have /\ Goes([To(p) EXCEPT !.amount = n])
      PROVE  DemoInv'
  <2>1. p \in DemoPlaces
    BY DEF DemoPlaces
  <2>2. WentTo(p) /\ (run'.failures = run.failures \/ run'.failures = TRUE)
    BY <1>6, <2>1, WentToIs, Running DEF Goes
  <2>3. OkxHolds /\ order' = order /\ deposits' = deposits
    BY <1>6, GoesIs
  <2>4. p \in {"prepare", "arm", "place"} => order'["entry"].state = "none"
    BY <1>6, <2>3, EntryIsUnplaced
  <2>5. Have' = Have
    BY <2>3 DEF Have, Bought
  <2>6. p \in {"quote", "sell"} => run'.amount <= Have
    <3>1. CASE Goes(Failing(To(p))) /\ p \notin {"quote", "sell"}
      BY <3>1
    <3>2. CASE Goes(To(p)) /\ (p \in {"quote", "sell"} => run.amount <= Have)
      BY <2>1, <3>2, WentToIs, Running DEF Goes
    <3>3. ASSUME NEW n \in Nat, n <= Have, Goes([To(p) EXCEPT !.amount = n]) PROVE run'.amount <= Have
      BY <2>1, <3>3, WentToIs, Running DEF Goes
    <3> QED BY <1>6, <3>1, <3>2, <3>3
  <2> QED BY <1>3, <1>6, <2>2, <2>3, <2>4, <2>5, <2>6, Running, FillMoves
<1>7. CASE PrepareFill
  <2>1. run.pc = "prepare"
    BY <1>7 DEF PrepareFill, At
  <2> QED BY <1>1, <1>5, <1>6, <1>7, <2>1 DEF PrepareFill
<1>8. CASE BuyFill
  <2>1. PICK ok \in BOOLEAN : PlaceEntry(Noting(ok, To("cancel")), ok)
    BY <1>8 DEF BuyFill
  <2>2. OkxHolds /\ At("place") /\ run' = Noting(ok, To("cancel")) /\ PlacedAs("entry", ok)
    BY <2>1, EntryIsPlaced
  <2>3. /\ WentTo("cancel") /\ run.pc = "place"
        /\ ok => run'.failures = run.failures
        /\ ~ok => run'.failures = TRUE
    BY <2>2, PlacesAre, WentToIs, Running DEF Noting, At
  <2>4. ok /\ ~run.failures => \A o \in Ids : order'[o].state # "transit"
    BY <1>3, <2>2, <2>3 DEF PlacedAs
  <2> QED BY <1>1, <2>2, <2>3, <2>4, Running, FillMoves
<1>9. CASE CancelRest
  <2>1. CancelEntry("cancel", To("settle"), Failing(To("settle")))
    BY <1>9 DEF CancelRest
  <2>2. /\ OkxHolds /\ At("cancel") /\ run' \in {To("settle"), Failing(To("settle"))}
        /\ \A o \in Ids : order'[o].state = "transit" => order[o].state = "transit"
    BY <2>1, EntryIsCanceled
  <2>3. WentTo("settle") /\ (run'.failures = run.failures \/ run'.failures = TRUE) /\ run.pc = "cancel"
    BY <2>2, PlacesAre, WentToIs, Running DEF At
  <2> QED BY <1>1, <1>3, <2>2, <2>3, Running, FillMoves
<1>10. CASE SettleFill
  <2>1. run.pc = "settle"
    BY <1>10 DEF SettleFill, At
  <2>2. CASE NotTerminal("entry")
    BY <2>2, SleepsKeeps DEF NotTerminal
  <2> QED BY <1>1, <1>6, <1>10, <2>1, <2>2 DEF SettleFill
<1>11. CASE WaitForAcquired
  <2>1. run.pc = "acquired"
    BY <1>11 DEF WaitForAcquired, At
  <2>2. CASE Sleeps(TerminalAttempts)
    BY <2>2, SleepsKeeps
  <2>3. CASE base >= MinSize /\ Goes([To("quote") EXCEPT !.amount = DownToLot(base)])
    <3>1. base \in Nat
      BY <2>3, Sizes DEF DemoInv, DemoTypes
    <3>2. DownToLot(base) \in Nat /\ DownToLot(base) <= base
      BY <3>1, SizesOfOrders, Running
    <3>3. base <= Have /\ Have \in Int
      <4>1. base = Have - order["exit"].filled
        BY <1>2 DEF DemoInv, BalanceInv
      <4> QED BY <3>1, <4>1, HaveIs, Running
    <3>4. DownToLot(base) <= Have
      BY <3>1, <3>2, <3>3
    <3> QED BY <1>1, <1>6, <2>1, <2>3, <3>2, <3>4
  <2> QED BY <1>1, <1>6, <1>11, <2>1, <2>2, <2>3 DEF WaitForAcquired
<1>12. CASE QuoteFill
  <2>1. run.pc = "quote" /\ run.amount <= Have
    BY <1>2, <1>12 DEF QuoteFill, At, DemoInv, SaleInv
  <2> QED BY <1>1, <1>5, <1>6, <1>12, <2>1 DEF QuoteFill
<1>13. CASE SellFill
  <2>1. PICK ok \in BOOLEAN :
          /\ Placed("exit", run.amount, ok)
          /\ run' = IF ok THEN To("settleSale") ELSE Failing(To("settleSale"))
    BY <1>13 DEF SellFill, Sell
  <2>2. /\ program' = program /\ leg' = leg /\ caa' = caa /\ deposits' = deposits /\ run.pc = "sell"
    BY <1>13 DEF SellFill, Sell, At
  <2>3. OkxHolds /\ PlacedAs("exit", ok)
    BY <1>2, <2>1, <2>2, OtherIsPlaced DEF At
  <2>4. /\ WentTo("settleSale")
        /\ ok => run'.failures = run.failures
        /\ ~ok => run'.failures = TRUE
    BY <2>1, PlacesAre, WentToIs, Running
  <2>5. ok /\ ~run.failures => \A o \in Ids : order'[o].state # "transit"
    BY <1>3, <2>2, <2>3 DEF PlacedAs
  <2> QED BY <1>1, <2>2, <2>3, <2>4, <2>5, Running, FillMoves
<1>14. CASE SettleFillSale
  <2>1. run.pc = "settleSale"
    BY <1>14 DEF SettleFillSale, At
  <2>2. CASE NotTerminal("exit")
    BY <2>2, SleepsKeeps DEF NotTerminal
  <2> QED BY <1>1, <1>6, <1>14, <2>1, <2>2 DEF SettleFillSale
<1>15. CASE FillEvidence
  <2>1. run.pc = "evidence"
    BY <1>15 DEF FillEvidence, At
  <2>2. CASE Goes(Failing(To("verify")))
    <3>1. WentTo("verify") /\ run'.failures = TRUE
      BY <2>2, PlacesAre, WentToIs, Running DEF Goes
    <3> QED BY <1>1, <1>4, <2>1, <2>2, <3>1, Running, FillMoves
  <2>3. CASE order["exit"].filled > 0 /\ Goes(To("verify"))
    <3>1. WentTo("verify") /\ run'.failures = run.failures
      BY <2>3, PlacesAre, WentToIs, Running DEF Goes
    <3> QED BY <1>1, <1>3, <1>4, <2>1, <2>3, <3>1, Running, FillMoves
  <2> QED BY <1>15, <2>2, <2>3 DEF FillEvidence
<1>16. CASE NoOpenOrders
  <2>1. run.pc = "verify"
    BY <1>16 DEF NoOpenOrders, At
  <2>2. CASE OpenOrders = {} /\ Goes(To("residual"))
    <3>1. WentTo("residual") /\ run'.failures = run.failures
      BY <2>2, PlacesAre, WentToIs, Running DEF Goes
    <3>2. ~run.failures => order["exit"].filled > 0
      BY <2>1, Running DEF DemoInv, FineInv
    <3>3. ~run.failures => NothingUnderway
      <4>1. order["oco"].state = "none"
        BY DEF DemoInv, BalanceInv, NoOrder
      <4>2. \A o \in Ids \ {"oco"} : order[o].state # "live"
        BY <2>2 DEF OpenOrders
      <4>3. \A o \in Ids : order[o].state \in OrderStates
        BY OrdersAre DEF DemoInv
      <4> QED BY <1>3, <2>1, <4>1, <4>2, <4>3 DEF NothingUnderway, OrderStates
    <3>4. ~run.failures => NothingUnderway'
      BY <1>4, <2>2, <3>3 DEF NothingUnderway
    <3> QED BY <1>1, <1>3, <1>4, <2>1, <2>2, <3>1, <3>2, <3>4, Running, FillMoves
  <2> QED BY <1>5, <1>16, <2>2 DEF NoOpenOrders
<1>17. CASE VerifyResidual
  <2>1. run.pc = "residual"
    BY <1>17 DEF VerifyResidual, At
  <2>2. CASE Sleeps(TerminalAttempts)
    BY <2>2, SleepsKeeps
  <2>3. ASSUME NEW cost \in BOOLEAN, base \in 0 .. (Lot - 1), Goes(Noting(cost, To("disarm")))
        PROVE  DemoInv'
    <3>1. WentTo("disarm") /\ (run'.failures = run.failures \/ run'.failures = TRUE)
      BY <2>3, PlacesAre, WentToIs, Running DEF Noting, Goes
    <3>2. ~run.failures => order["exit"].filled > 0 /\ NothingUnderway
      BY <2>1, Running DEF DemoInv, FineInv
    <3>3. ~run.failures => NothingUnderway'
      BY <1>4, <2>3, <3>2 DEF NothingUnderway
    <3>4. Drained' /\ base' >= 0
      <4>1. base' = base /\ deposits' = deposits /\ deposits \in Nat
        BY <1>4, <2>3 DEF DemoInv, DemoTypes
      <4>2. deposits * Lot \in Nat
        BY <4>1, Sizes
      <4> QED BY <2>3, <4>1, <4>2, Sizes DEF Drained
    <3> QED BY <1>1, <1>3, <1>4, <2>1, <2>3, <3>1, <3>2, <3>3, <3>4, Running, FillMoves
  <2> QED BY <1>5, <1>17, <2>2, <2>3 DEF VerifyResidual
<1> QED BY <1>7, <1>8, <1>9, <1>10, <1>11, <1>12, <1>13, <1>14, <1>15, <1>16, <1>17 DEF RoundTrip

-----------------------------------------------------------------------------
(* The steps that acquire a disposable amount, and the probe's cleanup.    *)
LEMMA BothMove ==
    ASSUME DemoInv, OkxHolds, program \in {"probe", "oco"}, NEW p \in {"arm", "cancel", "settle", "delta"},
           run.pc \in {"prepare", "place", "cancel", "settle"}, WentTo(p),
           ~run'.failures =>
             /\ (p = "cancel" /\ ~run'.flag) \/ \A o \in Ids : order'[o].state # "transit"
             /\ p = "delta" => order'["entry"].state = "done",
           p = "arm" /\ program = "probe" => order'["entry"].state = "none"
    PROVE  DemoInv'
<1>1. run' \in RunRecord /\ run'.pc = p /\ run'.tries = 0 /\ run'.result = "none" /\ run'.stage = run.stage
  BY Running DEF WentTo
<1>2. CASE program = "probe"
  <2>1. p \in ProbePlaces \ {"end", "place", "cleanup", "disarm"} /\ p \notin SaleOfProbe
    BY DEF ProbePlaces, SaleOfProbe
  <2>2. p # "sell" /\ (p \in {"prepare", "arm", "place"} => order'["entry"].state = "none")
    BY <1>2
  <2> QED BY <1>1, <1>2, <2>1, <2>2, ProbeMoves
<1>3. CASE program = "oco"
  <2>1. p \in OcoPlaces \ {"end", "survey", "disarm"} /\ (p \in OcoOwned => p = "delta")
    BY DEF OcoPlaces, OcoOwned, OcoCleanup
  <2>2. run'.stage # "cleanup"
    BY <1>1, <1>3 DEF DemoInv, PlaceInv, OcoCleanup
  <2> QED BY <1>1, <1>3, <2>1, <2>2, OcoMoves
<1> QED BY <1>2, <1>3

(* What the acquisition takes for its own was bought.                      *)
LEMMA DeltaIs ==
    ASSUME DemoInv, NEW n \in ProtectedSize
    PROVE  n \in Nat /\ Bought \in Int /\ Bought >= Lot
<1>1. Above \in Int
  BY Running DEF Above, DemoInv, DemoTypes, RunRecord
<1>2. DownToLot(Above) \in Int
  BY <1>1, Sizes DEF DownToLot
<1>3. n = DownToLot(Above) /\ n >= MinSize /\ n <= Bought
  BY DEF ProtectedSize
<1>4. Bought \in Int
  <2>1. order["entry"].filled \in Nat
    BY OrdersAre DEF DemoInv, Ids
  <2> QED BY <2>1, NetIs DEF Bought
<1> QED BY <1>2, <1>3, <1>4, Sizes

(* Every step of an acquisition keeps the invariant.                       *)
LEMMA AcquisitionSteps ==
    ASSUME DemoInv,
           \/ PrepareAcquisition \/ Acquire \/ CancelAcquisition \/ SettleAcquisition \/ WaitForDelta
    PROVE  DemoInv'
<1>1. Ids = {"entry", "exit", "oco", "final"}
  BY DEF Ids
<1>2. run.pc # "end" /\ ~run.failures /\ ~(run.pc = "cancel" /\ ~run.flag) =>
        \A o \in Ids : order[o].state # "transit"
  BY Running DEF DemoInv, FineInv, At
<1>3. \A r : Goes(r) => /\ run' = r /\ OkxHolds /\ order' = order /\ base' = base /\ deposits' = deposits
                        /\ program = "expired" => order'["entry"].state # "transit"
  BY GoesIs
<1>4. CASE PrepareAcquisition
  <2>1. run.pc = "prepare" /\ program \in {"probe", "oco"}
    BY <1>4 DEF PrepareAcquisition, At
  <2>2. CASE Goes(Ended("err"))
    BY <1>3, <2>2, EndsBadly
  <2>3. CASE Goes(To("arm"))
    <3>1. WentTo("arm") /\ run'.failures = run.failures
      BY <2>3, PlacesAre, WentToIs, Running DEF Goes
    <3> QED BY <1>2, <1>3, <2>1, <2>3, <3>1, EntryIsUnplaced, BothMove
  <2> QED BY <1>4, <2>2, <2>3 DEF PrepareAcquisition
<1>5. CASE Acquire
  <2>1. PICK ok \in BOOLEAN : PlaceEntry([To("cancel") EXCEPT !.flag = ok], ok)
    BY <1>5 DEF Acquire
  <2>2. /\ OkxHolds /\ At("place") /\ run' = [To("cancel") EXCEPT !.flag = ok]
        /\ PlacedAs("entry", ok)
    BY <2>1, EntryIsPlaced
  <2>3. WentTo("cancel") /\ run'.failures = run.failures /\ run'.flag = ok /\ run.pc = "place"
    BY <2>2, PlacesAre, WentToIs, Running DEF At
  <2>4. ok /\ ~run.failures => \A o \in Ids : order'[o].state # "transit"
    BY <1>1, <1>2, <2>2, <2>3 DEF PlacedAs
  <2>5. program \in {"probe", "oco"}
    BY <1>5 DEF Acquire
  <2> QED BY <2>2, <2>3, <2>4, <2>5, BothMove
<1>6. CASE CancelAcquisition
  <2>1. /\ CancelEntry("cancel", IF run.flag THEN To("settle") ELSE GivesUp, GivesUp)
        /\ program \in {"probe", "oco"}
    BY <1>6 DEF CancelAcquisition
  <2>2. /\ OkxHolds /\ At("cancel")
        /\ run' \in {IF run.flag THEN To("settle") ELSE GivesUp, GivesUp}
        /\ \A o \in Ids : order'[o].state = "transit" => order[o].state = "transit"
    BY <2>1, EntryIsCanceled
  <2>3. run.pc = "cancel"
    BY <2>2 DEF At
  <2>4. CASE run' = GivesUp
    BY <2>1, <2>2, <2>3, <2>4, Running, GivingUp
  <2>5. CASE run.flag /\ run' = To("settle")
    <3>1. WentTo("settle") /\ run'.failures = run.failures
      BY <2>5, PlacesAre, WentToIs, Running
    <3> QED BY <1>2, <2>1, <2>2, <2>3, <2>5, <3>1, BothMove
  <2> QED BY <2>2, <2>4, <2>5
<1>7. CASE SettleAcquisition
  <2>1. run.pc = "settle" /\ program \in {"probe", "oco"}
    BY <1>7 DEF SettleAcquisition, At
  <2>2. CASE NotTerminal("entry")
    BY <2>2, SleepsKeeps DEF NotTerminal
  <2>3. CASE Goes(GivesUp)
    BY <1>3, <2>1, <2>3, Running, GivingUp
  <2>4. CASE order["entry"].state = "done" /\ Goes(To("delta"))
    <3>1. WentTo("delta") /\ run'.failures = run.failures
      BY <2>4, PlacesAre, WentToIs, Running DEF Goes
    <3> QED BY <1>2, <1>3, <2>1, <2>4, <3>1, BothMove
  <2> QED BY <1>7, <2>2, <2>3, <2>4 DEF SettleAcquisition
<1>8. CASE WaitForDelta
  <2>1. run.pc = "delta" /\ program \in {"probe", "oco"}
    BY <1>8, Running
       DEF WaitForDelta, At, DemoInv, PlaceInv, PostOnlyPlaces, FillPlaces
  <2>2. CASE Sleeps(CleanupAttempts)
    BY <2>2, SleepsKeeps
  <2>3. CASE Goes(GivesUp)
    BY <1>3, <2>1, <2>3, Running, GivingUp
  <2>4. ~run.failures => order["entry"].state = "done"
    <3>1. "delta" \in OcoOwned
      BY DEF OcoOwned
    <3> QED BY <2>1, <3>1, Running DEF DemoInv, FineInv
  <2>5. ASSUME NEW n \in ProtectedSize, program = "probe",
               Goes([To("cleanup") EXCEPT !.stage = "cleanup", !.flag = FALSE])
        PROVE  DemoInv'
    <3> DEFINE r == To("cleanup")
    <3>1. r \in RunRecord /\ r.pc = "cleanup" /\ r.tries = 0 /\ Kept(r, run)
      BY PlacesAre, ToIs, Running
    <3>2. run' = [r EXCEPT !.stage = "cleanup", !.flag = FALSE]
      BY <2>5 DEF Goes
    <3> HIDE DEF r
    <3>3. /\ run' \in RunRecord /\ run'.pc = "cleanup" /\ run'.tries = 0 /\ run'.result = "none"
          /\ run'.failures = run.failures
      BY <2>1, <3>1, <3>2, Running DEF RunRecord, Kept
    <3>4. OkxHolds /\ order' = order
      BY <2>5, GoesIs
    <3>5. Bought' >= Lot
      BY <2>5, <3>4, DeltaIs DEF Bought
    <3>6. "cleanup" \in ProbePlaces \ {"end"} /\ "cleanup" \notin SaleOfProbe
      BY DEF ProbePlaces, SaleOfProbe
    <3> QED BY <1>2, <2>1, <2>4, <2>5, <3>3, <3>4, <3>5, <3>6, ProbeMoves
  <2>6. ASSUME NEW n \in ProtectedSize, program = "oco", Goes([To("prices") EXCEPT !.amount = n])
        PROVE  DemoInv'
    <3>1. WentTo("prices") /\ run'.failures = run.failures
      BY <2>6, PlacesAre, WentToIs, Running, DeltaIs DEF Goes
    <3>2. /\ run' \in RunRecord /\ run'.pc = "prices" /\ run'.tries = 0 /\ run'.result = "none"
          /\ run'.stage = run.stage
      BY <2>1, <3>1, Running DEF WentTo
    <3>3. run'.stage # "cleanup"
      BY <2>1, <2>6, <3>2 DEF DemoInv, PlaceInv, OcoCleanup
    <3>4. "prices" \in OcoPlaces \ {"end"}
      BY DEF OcoPlaces, OcoOwned
    <3>5. OkxHolds /\ order' = order
      BY <2>6, GoesIs
    <3> QED BY <1>2, <2>1, <2>4, <2>6, <3>1, <3>2, <3>3, <3>4, <3>5, OcoMoves
  <2> QED BY <1>8, <2>1, <2>2, <2>3, <2>5, <2>6 DEF WaitForDelta
<1> QED BY <1>4, <1>5, <1>6, <1>7, <1>8

(* The probe sells no more than it bought.                                 *)
LEMMA SaleSizeIs ==
    ASSUME DemoInv
    PROVE  SaleSize \in Nat /\ (SaleSize > 0 => SaleSize <= Bought)
<1>1. order["entry"].filled \in Nat /\ order["oco"].size \in Nat
  BY OrdersAre DEF DemoInv, Ids
<1>2. Bought \in Int /\ base \in Int /\ Frozen \in Nat
  BY <1>1, NetIs DEF Bought, Frozen, DemoInv, DemoTypes
<1> DEFINE m == Min({Bought, base, base - Frozen})
<1>3. m \in Int /\ m <= Bought
  <2>1. PICK a, b, c \in Int : a = Bought /\ b = base /\ c = base - Frozen
    BY <1>2
  <2>2. \E x \in {a, b, c} : \A y \in {a, b, c} : x <= y
    OBVIOUS
  <2>3. m = CHOOSE x \in {a, b, c} : \A y \in {a, b, c} : x <= y
    BY <2>1 DEF Min
  <2> HIDE DEF m
  <2>4. m \in {a, b, c} /\ \A y \in {a, b, c} : m <= y
    BY <2>2, <2>3
  <2> QED BY <2>1, <2>4
<1> HIDE DEF m
<1>4. DownToLot(m) \in Int /\ DownToLot(m) <= m
  <2>1. m % Lot \in 0 .. Lot - 1
    BY <1>3, Sizes
  <2> QED BY <1>3, <2>1, Sizes DEF DownToLot
<1>5. SaleSize = IF DownToLot(m) < MinSize THEN 0 ELSE DownToLot(m)
  BY DEF SaleSize, m
<1>6. DownToLot(m) <= Bought
  BY <1>2, <1>3, <1>4
<1> QED BY <1>4, <1>5, <1>6, Sizes

(* Every step of the probe's cleanup keeps the invariant.                  *)
LEMMA ProbeSteps ==
    ASSUME DemoInv, program = "probe",
           \/ ReconcileAcquisition \/ WeighSale \/ SellAcquired \/ SettleAcquiredSale \/ SurveyAcquisition
    PROVE  DemoInv'
<1>1. /\ Ids = {"entry", "exit", "oco", "final"} /\ program \notin PostOnly
      /\ {"weigh", "sell", "settleSale", "survey"} = SaleOfProbe
      /\ {"weigh", "sell", "settleSale", "survey", "cleanup", "disarm"} \subseteq ProbePlaces \ {"end"}
  BY DEF Ids, PostOnly, ProbePlaces, SaleOfProbe
<1>2. run.pc \notin {"end", "cancel"} /\ ~run.failures => \A o \in Ids : order[o].state # "transit"
  BY Running DEF DemoInv, FineInv, At
<1>3. ~run.failures /\ run.pc \in SaleOfProbe \cup {"cleanup"} =>
        order["entry"].state = "done" /\ Bought >= Lot
  BY <1>1, Running DEF DemoInv, FineInv
<1>4. \A o \in Ids : order[o].state \in OrderStates /\ order[o].filled \in Nat
  BY OrdersAre DEF DemoInv
<1>5. ASSUME Goes(GivesUp), run.pc # "end" PROVE DemoInv'
  BY <1>5, GoesIs, Running, GivingUp
<1>6. ASSUME NEW p \in SaleOfProbe, order["entry"].state \in {"none", "done"},
             run.pc \in SaleOfProbe \cup {"cleanup"},
             \/ Goes(To(p)) /\ p # "sell"
             \/ \E n \in Nat : n <= Bought /\ Goes([To(p) EXCEPT !.amount = n])
      PROVE  DemoInv'
  <2>0. p \in DemoPlaces
    BY <1>1, PlacesAre
  <2>1. WentTo(p) /\ run'.failures = run.failures
    <3>1. CASE Goes(To(p))
      BY <2>0, <3>1, WentToIs, Running DEF Goes
    <3>2. ASSUME NEW n \in Nat, Goes([To(p) EXCEPT !.amount = n])
          PROVE  WentTo(p) /\ run'.failures = run.failures
      BY <2>0, <3>2, WentToIs, Running DEF Goes
    <3> QED BY <1>6, <3>1, <3>2
  <2>2. OkxHolds /\ order' = order
    BY <1>6, GoesIs
  <2>3. run' \in RunRecord /\ run'.pc = p /\ run'.tries = 0 /\ run'.result = "none"
    BY <1>1, <1>6, <2>1, Running DEF WentTo
  <2>4. Bought' = Bought
    BY <2>2 DEF Bought
  <2>5. p = "sell" => run'.amount <= Bought
    <3>1. ASSUME NEW n \in Nat, n <= Bought, Goes([To(p) EXCEPT !.amount = n]) PROVE run'.amount <= Bought
      BY <2>0, <3>1, WentToIs, Running DEF Goes
    <3> QED BY <1>6, <3>1
  <2>6. p \notin {"prepare", "arm", "place"}
    BY DEF SaleOfProbe
  <2> QED BY <1>1, <1>2, <1>3, <1>6, <2>1, <2>2, <2>3, <2>4, <2>5, <2>6, ProbeMoves
<1>7. CASE ReconcileAcquisition
  <2>1. run.pc = "cleanup" /\ At("cleanup")
    BY <1>7 DEF ReconcileAcquisition, At
  <2>2. CASE Sleeps(CleanupAttempts)
    BY <2>2, SleepsKeeps
  <2>3. CASE Goes(GivesUp)
    BY <1>5, <2>1, <2>3
  <2>4. CASE order["entry"].state = "done" /\ Goes(To("weigh"))
    BY <1>1, <1>6, <2>1, <2>4
  <2>5. CASE /\ order["entry"].state \in {"none", "transit"} /\ LastTry(CleanupAttempts)
             /\ Goes(To("weigh"))
    <3>1. run.tries \in Nat /\ order["entry"].life \in Nat
      BY <1>1, Running, OrdersAre DEF RunRecord
    <3>2. order["entry"].state = "transit" =>
            order["entry"].life + run.tries <= Lifetime /\ order["entry"].life >= 1
      BY <1>1, <2>1 DEF DemoInv, EntryInv, DemoTypes, OrderFits
    <3>3. run.tries + 1 >= CleanupAttempts
      BY <2>5 DEF LastTry
    <3>4. order["entry"].state # "transit"
      BY <3>1, <3>2, <3>3, Sizes
    <3> QED BY <1>1, <1>6, <2>1, <2>5, <3>4
  <2>6. CASE /\ order["entry"].state = "live"
             /\ \E ok \in BOOLEAN :
                  /\ Canceled("entry")
                  /\ run' = IF ok /\ ~LastTry(CleanupAttempts)
                            THEN [run EXCEPT !.flag = TRUE, !.tries = @ + 1] ELSE GivesUp
             /\ UNCHANGED <<program, leg, caa, deposits>>
    <3>1. Mild
      BY <1>1, <2>6, CanceledIsMild DEF DemoInv
    <3>2. OkxHolds
      BY <2>6, <3>1, MildHolds
    <3>3. CASE run' = GivesUp
      BY <2>1, <3>2, <3>3, Running, GivingUp
    <3>4. CASE ~LastTry(CleanupAttempts) /\ run' = [run EXCEPT !.flag = TRUE, !.tries = @ + 1]
      <4>1. run.failures
        BY <1>3, <2>1, <2>6
      <4>2. /\ run' \in RunRecord /\ run'.pc = run.pc /\ run'.result = run.result
            /\ run'.failures = run.failures /\ run'.tries = run.tries + 1
        <5>1. run' = [run EXCEPT !.flag = TRUE, !.tries = run.tries + 1]
          BY <3>4
        <5>2. run \in RunRecord /\ run.tries + 1 \in Nat /\ TRUE \in BOOLEAN
          BY Running DEF RunRecord
        <5>3. run' \in RunRecord
          BY <5>1, <5>2 DEF RunRecord
        <5> QED BY <5>1, <5>2, <5>3 DEF RunRecord
      <4>3. run'.tries < CleanupAttempts
        <5>1. run.tries \in Nat
          BY Running DEF RunRecord
        <5> QED BY <3>4, <4>2, <5>1, Sizes DEF LastTry
      <4>4. order'["entry"].state # "transit"
        BY <1>1, <2>6, <3>1 DEF Mild, OrdersMove
      <4>5. "cleanup" \notin SaleOfProbe /\ run'.pc = "cleanup" /\ run'.result = "none" /\ run'.failures
        BY <1>1, <2>1, <4>1, <4>2, Running
      <4> QED BY <1>1, <3>2, <4>2, <4>3, <4>4, <4>5, ProbeMoves
    <3> QED BY <2>6, <3>3, <3>4
  <2> QED BY <1>7, <2>2, <2>3, <2>4, <2>5, <2>6 DEF ReconcileAcquisition
<1>8. CASE WeighSale
  <2>1. run.pc = "weigh" /\ SaleSize \in Nat /\ (SaleSize > 0 => SaleSize <= Bought)
    BY <1>8, SaleSizeIs DEF WeighSale, At
  <2>2. order["entry"].state \in {"none", "done"}
    BY <1>1, <2>1 DEF DemoInv, EntryInv
  <2>3. CASE Goes(GivesUp)
    BY <1>5, <2>1, <2>3
  <2>4. CASE Goes(To("survey"))
    BY <1>1, <1>6, <2>1, <2>2, <2>4
  <2>5. CASE SaleSize > 0 /\ Goes([To("sell") EXCEPT !.amount = SaleSize])
    BY <1>1, <1>6, <2>1, <2>2, <2>5
  <2> QED BY <1>8, <2>3, <2>4, <2>5 DEF WeighSale
<1>9. CASE SellAcquired
  <2>1. PICK ok \in BOOLEAN :
          Placed("exit", run.amount, ok) /\ run' = IF ok THEN To("settleSale") ELSE GivesUp
    BY <1>9 DEF SellAcquired, Sell
  <2>2. /\ program' = program /\ leg' = leg /\ caa' = caa /\ deposits' = deposits /\ run.pc = "sell"
    BY <1>9 DEF SellAcquired, Sell, At
  <2>3. OkxHolds /\ PlacedAs("exit", ok) /\ order'["entry"] = order["entry"]
    BY <1>1, <2>1, <2>2, OtherIsPlaced DEF At
  <2>4. CASE run' = GivesUp
    BY <2>2, <2>3, <2>4, Running, GivingUp
  <2>5. CASE ok /\ run' = To("settleSale")
    <3>1. WentTo("settleSale") /\ run'.failures = run.failures
      BY <2>5, PlacesAre, WentToIs, Running
    <3>2. /\ run' \in RunRecord /\ run'.pc = "settleSale" /\ run'.tries = 0 /\ run'.result = "none"
      BY <2>2, <3>1, Running DEF WentTo
    <3>3. ~run.failures => \A o \in Ids : order'[o].state # "transit"
      BY <1>1, <1>2, <2>2, <2>3, <2>5 DEF PlacedAs
    <3>4. order'["entry"].state \in {"none", "done"} /\ Bought' = Bought
      BY <1>1, <2>2, <2>3 DEF DemoInv, EntryInv, Bought
    <3> QED BY <1>1, <1>3, <2>2, <2>3, <3>1, <3>2, <3>3, <3>4, ProbeMoves
  <2> QED BY <2>1, <2>4, <2>5
<1>10. CASE SettleAcquiredSale
  <2>1. run.pc = "settleSale" /\ SettleSale("exit", To("survey"))
    BY <1>10 DEF SettleAcquiredSale, SettleSale, At
  <2>2. CASE NotTerminal("exit")
    BY <2>2, SleepsKeeps DEF NotTerminal
  <2>3. CASE Goes(GivesUp)
    BY <1>5, <2>1, <2>3
  <2>4. CASE Goes(To("survey"))
    <3>1. order["entry"].state \in {"none", "done"}
      BY <1>1, <2>1 DEF DemoInv, EntryInv
    <3> QED BY <1>1, <1>6, <2>1, <2>4, <3>1
  <2> QED BY <2>1, <2>2, <2>3, <2>4 DEF SettleSale
<1>11. CASE SurveyAcquisition
  <2>1. run.pc = "survey"
    BY <1>11 DEF SurveyAcquisition, At
  <2>2. CASE Goes(GivesUp)
    BY <1>5, <2>1, <2>2
  <2>3. CASE /\ Bought - order["exit"].filled \in 0 .. (Lot - 1) /\ NothingOpen /\ base >= 0
             /\ Goes(To("disarm"))
    <3>1. WentTo("disarm") /\ run'.failures = run.failures
      BY <2>3, PlacesAre, WentToIs, Running DEF Goes
    <3>2. OkxHolds /\ order' = order /\ base' = base /\ deposits' = deposits
      BY <2>3, GoesIs
    <3>3. /\ run' \in RunRecord /\ run'.pc = "disarm" /\ run'.tries = 0 /\ run'.result = "none"
      BY <2>1, <3>1, Running DEF WentTo
    <3>4. order["entry"].state \in {"none", "done"}
      BY <1>1, <2>1 DEF DemoInv, EntryInv
    <3>5. ~run.failures => NothingUnderway
      <4>1. \A o \in Ids : order[o].state # "live"
        BY <1>1, <2>3 DEF NothingOpen, OpenOrders
      <4> QED BY <1>2, <1>4, <2>1, <4>1 DEF NothingUnderway, OrderStates
    <3>6. base \in Int /\ deposits * Lot \in Int /\ Bought \in Int /\ order["exit"].filled \in Nat
      <4>1. base \in Int /\ deposits \in Nat
        BY DEF DemoInv, DemoTypes
      <4> QED BY <1>1, <1>4, <4>1, NetIs, Sizes DEF Bought
    <3>7. Drained
      <4>1. base = deposits * Lot + Bought - order["exit"].filled
        <5>1. base = Have - order["exit"].filled
          BY DEF DemoInv, BalanceInv
        <5> QED BY <5>1, HaveIs, Running DEF Have
      <4>2. Bought - order["exit"].filled < Lot
        BY <2>3, <3>6, Sizes
      <4> QED BY <3>6, <4>1, <4>2, Sizes DEF Drained
    <3>8. ~run.failures => order["exit"].filled > 0
      <4>1. ~run.failures => Bought >= Lot
        BY <1>1, <1>3, <2>1
      <4>2. Bought - order["exit"].filled <= Lot - 1
        BY <2>3, <3>6, Sizes
      <4> QED BY <3>6, <4>1, <4>2, Sizes
    <3>9. (~run.failures => NothingUnderway') /\ Drained'
      BY <3>2, <3>5, <3>7 DEF NothingUnderway, Drained
    <3>10. "disarm" \notin SaleOfProbe
      BY <1>1
    <3> QED BY <1>1, <1>2, <1>3, <2>1, <2>3, <3>1, <3>2, <3>3, <3>4, <3>8, <3>9, <3>10, ProbeMoves
  <2> QED BY <1>11, <2>2, <2>3 DEF SurveyAcquisition
<1> QED BY <1>7, <1>8, <1>9, <1>10, <1>11

-----------------------------------------------------------------------------
(* The steps of the OCO life cycle.                                        *)
LEMMA OcoAt ==
    ASSUME DemoInv,
           \/ run.pc \in {"clean", "plan", "prices", "placeOco", "pending", "execute", "amendOco",
                          "confirmOco", "cancelOco", "canceled", "liquidate", "drained", "finish"}
           \/ program = "oco" /\ run.pc \in {"sell", "settleSale", "cleanup", "survey"}
    PROVE  /\ program = "oco" /\ run.pc \in OcoPlaces \ {"end", "cancel"}
           /\ run.pc \in {"clean", "plan"} \/ run.pc \in OcoOwned
           /\ run.stage = "cleanup" =>
                /\ run.pc \in {"cleanup", "survey"} \cup OcoCleanup
                /\ run.pc \in OcoCleanup => run.floor = 0
BY Running DEF DemoInv, PlaceInv, PostOnlyPlaces, FillPlaces, ProbePlaces, SaleOfProbe, OcoPlaces, OcoOwned, OcoCleanup

(* An OCO step that changes nothing the invariant speaks of but the        *)
(* place.                                                                  *)
LEMMA OcoPasses ==
    ASSUME DemoInv, OkxHolds, program = "oco", run.pc \in OcoPlaces \ {"end", "cancel"},
           NEW p \in OcoPlaces \ {"end", "cancel", "survey", "disarm"},
           run' \in RunRecord, run'.pc = p, run'.tries = 0, run'.result = run.result,
           run'.stage = run.stage, run'.floor = run.floor, run'.failures = run.failures,
           ~run.failures => \A o \in Ids : order'[o].state # "transit",
           order["entry"].state = "done" => order'["entry"].state = "done",
           p \in OcoOwned => run.pc \in OcoOwned,
           run.stage = "cleanup" => p \in OcoCleanup /\ run.pc \in OcoCleanup
    PROVE  DemoInv'
<1>1. run'.result = "none"
  BY Running
<1>2. run'.stage = "cleanup" => run'.floor = 0
  BY DEF DemoInv, PlaceInv
<1>3. ~run.failures /\ p \in OcoOwned => order'["entry"].state = "done"
  BY Running DEF DemoInv, FineInv
<1> QED BY <1>1, <1>2, <1>3, OcoMoves

(* Every step of the OCO life cycle keeps the invariant.                   *)
LEMMA OcoSteps ==
    ASSUME DemoInv, Oco
    PROVE  DemoInv'
<1>1. /\ Ids = {"entry", "exit", "oco", "final"}
      /\ {"prices", "placeOco", "pending", "execute", "amendOco", "confirmOco", "finish", "cleanup",
          "survey", "disarm"} \subseteq OcoOwned
      /\ {"cancelOco", "canceled", "liquidate", "sell", "settleSale", "drained"} = OcoCleanup
      /\ OcoCleanup \subseteq OcoOwned /\ "clean" \notin OcoOwned /\ "plan" \notin OcoOwned
      /\ "place" \notin OcoOwned
      /\ {"clean", "plan", "place", "prices", "placeOco", "pending", "execute", "amendOco",
          "confirmOco", "finish", "cleanup"} \cup OcoCleanup
            \subseteq OcoPlaces \ {"end", "cancel", "survey", "disarm"}
      /\ {"survey", "disarm"} \subseteq OcoPlaces \ {"end"}
  BY DEF Ids, OcoPlaces, OcoOwned, OcoCleanup
<1>2. run.pc \notin {"end", "cancel"} /\ ~run.failures => \A o \in Ids : order[o].state # "transit"
  BY Running DEF DemoInv, FineInv, At
<1>3. ~run.failures /\ program = "oco" /\ run.pc \in OcoOwned => order["entry"].state = "done"
  <2>1. "end" \notin OcoOwned
    BY DEF OcoOwned, OcoCleanup
  <2> QED BY <2>1, Running DEF DemoInv, FineInv
<1>4. ASSUME Goes(GivesUp), program = "oco", run.pc # "end" PROVE DemoInv'
  BY <1>4, GoesIs, Running, GivingUp
<1>5. ASSUME NEW p \in OcoPlaces \ {"end", "cancel", "survey", "disarm"}, program = "oco",
             run.pc \in OcoPlaces \ {"end", "cancel"},
             Goes(To(p)) \/ \E n \in Nat : Goes([To(p) EXCEPT !.amount = n]),
             p \in OcoOwned => run.pc \in OcoOwned,
             run.stage = "cleanup" => p \in OcoCleanup /\ run.pc \in OcoCleanup
      PROVE  DemoInv'
  <2>1. p \in DemoPlaces
    BY DEF DemoPlaces
  <2>2. WentTo(p) /\ run'.failures = run.failures
    <3>1. CASE Goes(To(p))
      BY <2>1, <3>1, WentToIs, Running DEF Goes
    <3>2. ASSUME NEW n \in Nat, Goes([To(p) EXCEPT !.amount = n])
          PROVE  WentTo(p) /\ run'.failures = run.failures
      BY <2>1, <3>2, WentToIs, Running DEF Goes
    <3> QED BY <1>5, <3>1, <3>2
  <2>3. OkxHolds /\ order' = order
    BY <1>5, GoesIs
  <2>4. /\ run' \in RunRecord /\ run'.pc = p /\ run'.tries = 0 /\ run'.result = run.result
        /\ run'.stage = run.stage /\ run'.floor = run.floor
    BY <2>2 DEF WentTo
  <2> QED BY <1>2, <1>5, <2>2, <2>3, <2>4, OcoPasses
<1>6. CASE BeginScenario
  <2>1. run.pc = "clean" /\ program = "oco" /\ run.stage # "cleanup"
    <3>1. run.pc = "clean"
      BY <1>6 DEF BeginScenario, At
    <3>2. "clean" \notin {"cleanup", "survey"} \cup OcoCleanup
      BY DEF OcoCleanup
    <3> QED BY <3>1, <3>2, OcoAt
  <2>2. CASE Goes(GivesUp)
    BY <1>4, <2>1, <2>2
  <2>3. CASE /\ base >= 0 /\ order' = [o \in Ids |-> NoOrder] /\ leg' = "none"
             /\ run' = [To("plan") EXCEPT !.floor = base]
             /\ UNCHANGED <<program, base, caa, deposits>>
    <3> DEFINE r == To("plan")
    <3>1. r \in RunRecord /\ r.pc = "plan" /\ r.tries = 0 /\ Kept(r, run)
      BY PlacesAre, ToIs, Running
    <3>2. base \in Nat
      BY <2>3 DEF DemoInv, DemoTypes
    <3>3. run' = [r EXCEPT !.floor = base]
      BY <2>3
    <3> HIDE DEF r
    <3>4. /\ run' \in RunRecord /\ run'.pc = "plan" /\ run'.tries = 0 /\ run'.result = "none"
          /\ run'.stage # "cleanup"
      BY <2>1, <3>1, <3>2, <3>3, Running DEF RunRecord, Kept
    <3>5. \A o \in Ids : order'[o] = NoOrder
      BY <2>3
    <3>6. OkxHolds
      <4>1. order' \in [Ids -> OrderRecord] /\ \A o \in Ids : OrderFits(order'[o])
        BY <2>3, <3>5, OrdersAre, Running
      <4>2. order'["oco"].state # "live"
        BY <1>1, <3>5, OrdersAre, Running
      <4>3. OrdersFit'
        BY <4>1, <4>2 DEF OrdersFit, OrderFits
      <4>4. /\ program' = program /\ base' \in Int /\ deposits' \in 0 .. MaxDeposits
            /\ caa' \in {"off", "armed", "fired"} /\ leg' \in {"none", "tp", "sl"}
        BY <2>3 DEF DemoInv, DemoTypes
      <4> QED BY <2>1, <4>3, <4>4 DEF OkxHolds, BalanceInv
    <3>7. \A o \in Ids : order'[o].state # "transit"
      BY <3>5, OrdersAre, Running
    <3> QED BY <1>1, <2>1, <3>4, <3>6, <3>7, OcoMoves
  <2> QED BY <1>6, <2>2, <2>3 DEF BeginScenario
<1>7. CASE PlanAcquisition
  <2>1. run.pc = "plan"
    BY <1>7 DEF PlanAcquisition, At
  <2> QED BY <1>1, <1>4, <1>5, <1>7, <2>1, OcoAt DEF PlanAcquisition
<1>8. CASE OcoPrices
  <2>1. run.pc = "prices"
    BY <1>8 DEF OcoPrices, At
  <2> QED BY <1>1, <1>4, <1>5, <1>8, <2>1, OcoAt DEF OcoPrices
<1>9. ASSUME NEW o \in Ids \ {"entry"}, NEW ok \in BOOLEAN, Placed(o, run.amount, ok),
             NEW p \in {"execute", "pending", "settleSale"}, run' = IF ok THEN To(p) ELSE GivesUp,
             UNCHANGED <<program, leg, caa, deposits>>, program = "oco",
             run.pc \in OcoPlaces \ {"end", "cancel"}, run.pc \in OcoOwned,
             run.stage = "cleanup" => p \in OcoCleanup /\ run.pc \in OcoCleanup
      PROVE  DemoInv'
  <2>1. OkxHolds /\ PlacedAs(o, ok) /\ order'["entry"] = order["entry"]
    <3>1. program \notin PostOnly
      BY <1>9 DEF PostOnly
    <3> QED BY <1>9, <3>1, OtherIsPlaced
  <2>2. CASE run' = GivesUp
    BY <1>9, <2>1, <2>2, Running, GivingUp
  <2>3. CASE ok /\ run' = To(p)
    <3>1. WentTo(p) /\ run'.failures = run.failures
      BY <2>3, PlacesAre, WentToIs, Running, ZenonT(60)
    <3>2. /\ run' \in RunRecord /\ run'.pc = p /\ run'.tries = 0 /\ run'.result = run.result
          /\ run'.stage = run.stage /\ run'.floor = run.floor
      BY <3>1 DEF WentTo
    <3>3. ~run.failures => \A q \in Ids : order'[q].state # "transit"
      BY <1>2, <1>9, <2>1, <2>3 DEF PlacedAs
    <3> QED BY <1>1, <1>9, <2>1, <3>1, <3>2, <3>3, OcoPasses
  <2> QED BY <1>9, <2>2, <2>3
<1>10. CASE PlaceOco
  <2>1. run.pc = "placeOco"
    BY <1>10 DEF PlaceOco, At
  <2>2. "placeOco" \notin {"cleanup", "survey"} \cup OcoCleanup
    BY DEF OcoCleanup
  <2> QED BY <1>1, <1>9, <1>10, <2>1, <2>2, OcoAt DEF PlaceOco
<1>11. CASE WaitForPending
  <2>1. run.pc = "pending"
    BY <1>11 DEF WaitForPending, At
  <2>2. CASE Sleeps(CleanupAttempts)
    BY <2>2, SleepsKeeps
  <2>3. "pending" \notin {"cleanup", "survey"} \cup OcoCleanup
    BY DEF OcoCleanup
  <2> QED BY <1>1, <1>4, <1>5, <1>11, <2>1, <2>2, <2>3, OcoAt DEF WaitForPending
<1>12. CASE WaitForExecution
  <2>1. run.pc = "execute"
    BY <1>12 DEF WaitForExecution, At
  <2>2. CASE Sleeps(CleanupAttempts)
    BY <2>2, SleepsKeeps
  <2>3. "execute" \notin {"cleanup", "survey"} \cup OcoCleanup
    BY DEF OcoCleanup
  <2> QED BY <1>1, <1>4, <1>5, <1>12, <2>1, <2>2, <2>3, OcoAt DEF WaitForExecution
<1>13. CASE AmendOco
  <2>1. run.pc = "amendOco"
    BY <1>13 DEF AmendOco, At
  <2>2. "amendOco" \notin {"cleanup", "survey"} \cup OcoCleanup
    BY DEF OcoCleanup
  <2>3. CASE Goes(GivesUp)
    BY <1>4, <2>1, <2>3, OcoAt
  <2>4. ASSUME NEW ok \in BOOLEAN, run.amount - Lot >= MinSize,
               \/ /\ order["oco"].state = "live"
                  /\ Becomes("oco", [order["oco"] EXCEPT !.size = run.amount - Lot])
               \/ ~ok /\ UNCHANGED <<order, base>>,
               run' = IF ok THEN [To("confirmOco") EXCEPT !.amount = @ - Lot] ELSE GivesUp,
               UNCHANGED <<program, leg, caa, deposits>>
        PROVE  DemoInv'
    <3>1. run.amount - Lot \in Nat
      BY <2>4, Sizes, Running DEF RunRecord
    <3>2. Mild
      <4>1. CASE order["oco"].state = "live" /\ Becomes("oco", [order["oco"] EXCEPT !.size = run.amount - Lot])
        BY <2>4, <3>1, <4>1, ChangesAreMild DEF DemoInv
      <4>2. CASE UNCHANGED <<order, base>>
        BY <2>4, <4>2, StillIsMild DEF DemoInv
      <4> QED BY <2>4, <4>1, <4>2
    <3>3. OkxHolds
      BY <2>4, <3>2, MildHolds
    <3>4. \A o \in Ids : /\ order'[o].state = "transit" => order[o].state = "transit"
                         /\ order[o].state = "done" => order'[o].state = "done"
      BY <3>2 DEF Mild, OrdersMove
    <3>5. CASE run' = GivesUp
      BY <2>1, <3>3, <3>5, OcoAt, Running, GivingUp
    <3>6. CASE run' = [To("confirmOco") EXCEPT !.amount = @ - Lot]
      <4>1. To("confirmOco").amount = run.amount
        BY PlacesAre, ToIs, Running DEF Kept
      <4>2. run' = [To("confirmOco") EXCEPT !.amount = run.amount - Lot]
        BY <3>6, <4>1
      <4>3. WentTo("confirmOco") /\ run'.failures = run.failures
        BY <3>1, <4>2, PlacesAre, WentToIs, Running
      <4>4. /\ run' \in RunRecord /\ run'.pc = "confirmOco" /\ run'.tries = 0 /\ run'.result = run.result
            /\ run'.stage = run.stage /\ run'.floor = run.floor
        BY <4>3 DEF WentTo
      <4> QED BY <1>1, <1>2, <2>1, <2>2, <3>3, <3>4, <4>3, <4>4, OcoAt, OcoPasses
    <3> QED BY <2>4, <3>5, <3>6
  <2> QED BY <1>13, <2>3, <2>4 DEF AmendOco
<1>14. CASE ConfirmOco
  <2>1. run.pc = "confirmOco"
    BY <1>14 DEF ConfirmOco, At
  <2>2. CASE Sleeps(CleanupAttempts)
    BY <2>2, SleepsKeeps
  <2>3. "confirmOco" \notin {"cleanup", "survey"} \cup OcoCleanup
    BY DEF OcoCleanup
  <2> QED BY <1>1, <1>4, <1>5, <1>14, <2>1, <2>2, <2>3, OcoAt DEF ConfirmOco
<1>15. CASE CancelOco
  <2>1. PICK ok \in BOOLEAN : Canceled("oco") /\ run' = IF ok THEN To("canceled") ELSE GivesUp
    BY <1>15 DEF CancelOco
  <2>2. /\ program' = program /\ leg' = leg /\ caa' = caa /\ deposits' = deposits
        /\ run.pc = "cancelOco" /\ program = "oco"
    BY <1>15, OcoAt DEF CancelOco, At
  <2>3. Mild
    BY <1>1, <2>1, <2>2, CanceledIsMild DEF DemoInv
  <2>4. OkxHolds
    BY <2>2, <2>3, MildHolds
  <2>5. \A o \in Ids : /\ order'[o].state = "transit" => order[o].state = "transit"
                       /\ order[o].state = "done" => order'[o].state = "done"
    BY <2>3 DEF Mild, OrdersMove
  <2>6. CASE run' = GivesUp
    BY <2>2, <2>4, <2>6, Running, GivingUp
  <2>7. CASE run' = To("canceled")
    <3>1. WentTo("canceled") /\ run'.failures = run.failures
      BY <2>7, PlacesAre, WentToIs, Running
    <3>2. /\ run' \in RunRecord /\ run'.pc = "canceled" /\ run'.tries = 0 /\ run'.result = run.result
          /\ run'.stage = run.stage /\ run'.floor = run.floor
      BY <3>1 DEF WentTo
    <3> QED BY <1>1, <1>2, <2>2, <2>4, <2>5, <3>1, <3>2, OcoAt, OcoPasses
  <2> QED BY <2>1, <2>6, <2>7
<1>16. CASE WaitForCanceled
  <2>1. run.pc = "canceled"
    BY <1>16 DEF WaitForCanceled, At
  <2>2. CASE Sleeps(CleanupAttempts)
    BY <2>2, SleepsKeeps
  <2> QED BY <1>1, <1>4, <1>5, <1>16, <2>1, <2>2, OcoAt DEF WaitForCanceled
<1>17. CASE Liquidate
  <2>1. run.pc = "liquidate"
    BY <1>17 DEF Liquidate, At
  <2>2. CASE Above >= MinSize /\ Goes([To("sell") EXCEPT !.amount = DownToLot(Above)])
    <3>1. Above \in Int
      BY Running DEF Above, DemoInv, DemoTypes, RunRecord
    <3>2. DownToLot(Above) \in Nat
      BY <2>2, <3>1, Sizes, SizesOfOrders, Running
    <3> QED BY <1>1, <1>5, <2>1, <2>2, <3>2, OcoAt
  <2> QED BY <1>1, <1>4, <1>5, <1>17, <2>1, <2>2, OcoAt DEF Liquidate
<1>18. CASE SellDisposable
  <2>1. run.pc = "sell" /\ program = "oco"
    BY <1>18 DEF SellDisposable, Sell, At
  <2>2. PICK o \in Ids \ {"entry"} : Sell(o, To("settleSale"), GivesUp)
    BY <1>1, <1>18 DEF SellDisposable
  <2> QED BY <1>1, <1>9, <2>1, <2>2, OcoAt DEF Sell
<1>19. CASE SettleDisposable
  <2>1. program = "oco" /\ \E o \in Ids : SettleSale(o, To("drained"))
    BY <1>1, <1>19 DEF SettleDisposable
  <2>2. run.pc = "settleSale"
    BY <2>1 DEF SettleSale, At
  <2>3. ASSUME NEW o \in Ids, NotTerminal(o) PROVE DemoInv'
    BY <2>3, SleepsKeeps DEF NotTerminal
  <2> QED BY <1>1, <1>4, <1>5, <2>1, <2>2, <2>3, OcoAt DEF SettleSale
<1>20. CASE WaitForDrained
  <2>1. run.pc = "drained" /\ program = "oco"
    BY <1>20, OcoAt DEF WaitForDrained, At
  <2>2. CASE Sleeps(CleanupAttempts)
    BY <2>2, SleepsKeeps
  <2>3. CASE Goes(GivesUp)
    BY <1>4, <2>1, <2>3
  <2>4. CASE run.stage = "run" /\ Goes(To("finish"))
    BY <1>1, <1>5, <2>1, <2>4, OcoAt
  <2>5. CASE run.stage # "run" /\ Above \in 0 .. (Lot - 1) /\ Goes(To("survey"))
    <3>1. WentTo("survey") /\ run'.failures = run.failures
      BY <2>5, PlacesAre, WentToIs, Running DEF Goes
    <3>2. OkxHolds /\ order' = order /\ base' = base /\ deposits' = deposits
      BY <2>5, GoesIs
    <3>3. /\ run' \in RunRecord /\ run'.pc = "survey" /\ run'.tries = 0 /\ run'.result = "none"
      BY <2>1, <3>1, Running DEF WentTo
    <3>4. run.stage = "cleanup" /\ run.floor = 0
      BY <1>1, <2>1, <2>5, OcoAt, Running DEF RunRecord
    <3>5. Drained'
      <4>1. base \in Int /\ deposits \in Nat
        BY DEF DemoInv, DemoTypes
      <4>2. deposits * Lot \in Nat
        BY <4>1, Sizes
      <4> QED BY <2>5, <3>2, <3>4, <4>1, <4>2, Sizes DEF Drained, Above
    <3>6. "survey" \notin OcoCleanup
      BY DEF OcoCleanup
    <3> QED BY <1>1, <1>2, <1>3, <2>1, <3>1, <3>2, <3>3, <3>5, <3>6, OcoMoves
  <2> QED BY <1>20, <2>2, <2>3, <2>4, <2>5 DEF WaitForDrained
<1>21. CASE FinishScenario
  <2>1. run.pc = "finish" /\ program = "oco" /\ run.stage # "cleanup"
    <3>1. run.pc = "finish"
      BY <1>21 DEF FinishScenario, At
    <3>2. "finish" \notin {"cleanup", "survey"} \cup OcoCleanup
      BY DEF OcoCleanup
    <3> QED BY <3>1, <3>2, OcoAt
  <2>2. CASE Goes(GivesUp)
    BY <1>4, <2>1, <2>2
  <2>3. CASE Goes([To("cleanup") EXCEPT !.stage = "cleanup"])
    <3> DEFINE r == To("cleanup")
    <3>1. r \in RunRecord /\ r.pc = "cleanup" /\ r.tries = 0 /\ Kept(r, run)
      BY PlacesAre, ToIs, Running
    <3>2. run' = [r EXCEPT !.stage = "cleanup"]
      BY <2>3 DEF Goes
    <3> HIDE DEF r
    <3>3. /\ run' \in RunRecord /\ run'.pc = "cleanup" /\ run'.tries = 0 /\ run'.result = "none"
          /\ run'.failures = run.failures
      BY <2>1, <3>1, <3>2, Running DEF RunRecord, Kept
    <3>4. OkxHolds /\ order' = order
      BY <2>3, GoesIs
    <3>5. "cleanup" \notin OcoCleanup
      BY DEF OcoCleanup
    <3> QED BY <1>1, <1>2, <1>3, <2>1, <3>3, <3>4, <3>5, OcoMoves
  <2>4. CASE run.scenario # "R" /\ Goes([To("clean") EXCEPT !.scenario = Following[@]])
    <3> DEFINE r == To("clean")
    <3>1. r \in RunRecord /\ r.pc = "clean" /\ r.tries = 0 /\ Kept(r, run)
      BY PlacesAre, ToIs, Running
    <3>2. run' = [r EXCEPT !.scenario = Following[r.scenario]]
      BY <2>4 DEF Goes
    <3> HIDE DEF r
    <3>3. Following[r.scenario] \in Scenarios
      BY <2>4, <3>1, Running DEF Kept, RunRecord, Scenarios, Following
    <3>4. /\ run' \in RunRecord /\ run'.pc = "clean" /\ run'.tries = 0 /\ run'.result = "none"
          /\ run'.failures = run.failures /\ run'.stage = run.stage
      BY <2>1, <3>1, <3>2, <3>3, Running DEF RunRecord, Kept
    <3>5. OkxHolds /\ order' = order
      BY <2>4, GoesIs
    <3> QED BY <1>1, <1>2, <2>1, <3>4, <3>5, OcoMoves
  <2> QED BY <1>21, <2>2, <2>3, <2>4 DEF FinishScenario
<1>22. CASE CleanupOco
  <2>1. run.pc = "cleanup" /\ program = "oco"
    BY <1>22 DEF CleanupOco, At
  <2>2. CASE Goes(GivesUp)
    BY <1>4, <2>1, <2>2
  <2>3. ASSUME NEW p \in {"cancelOco", "liquidate"}, Goes([To(p) EXCEPT !.floor = 0])
        PROVE  DemoInv'
    <3> DEFINE r == To(p)
    <3>1. r \in RunRecord /\ r.pc = p /\ r.tries = 0 /\ Kept(r, run)
      BY PlacesAre, ToIs, Running
    <3>2. run' = [r EXCEPT !.floor = 0]
      BY <2>3 DEF Goes
    <3> HIDE DEF r
    <3>3. /\ run' \in RunRecord /\ run'.pc = p /\ run'.tries = 0 /\ run'.result = "none"
          /\ run'.failures = run.failures /\ run'.floor = 0
      BY <2>1, <3>1, <3>2, Running DEF RunRecord, Kept
    <3>4. OkxHolds /\ order' = order
      BY <2>3, GoesIs
    <3> QED BY <1>1, <1>2, <1>3, <2>1, <3>3, <3>4, OcoMoves
  <2> QED BY <1>22, <2>2, <2>3 DEF CleanupOco
<1>23. CASE SurveyOco
  <2>1. run.pc = "survey" /\ program = "oco"
    BY <1>23 DEF SurveyOco, At
  <2>2. CASE Goes(GivesUp)
    BY <1>4, <2>1, <2>2
  <2>3. CASE NothingOpen /\ base >= 0 /\ Goes(To("disarm"))
    <3>1. WentTo("disarm") /\ run'.failures = run.failures
      BY <2>3, PlacesAre, WentToIs, Running DEF Goes
    <3>2. OkxHolds /\ order' = order /\ base' = base /\ deposits' = deposits
      BY <2>3, GoesIs
    <3>3. /\ run' \in RunRecord /\ run'.pc = "disarm" /\ run'.tries = 0 /\ run'.result = "none"
      BY <2>1, <3>1, Running DEF WentTo
    <3>4. ~run.failures => NothingUnderway /\ Drained
      <4>1. \A o \in Ids : order[o].state # "live"
        BY <1>1, <2>3 DEF NothingOpen, OpenOrders
      <4>2. \A o \in Ids : order[o].state \in OrderStates
        BY OrdersAre, Running
      <4>3. ~run.failures => NothingUnderway
        BY <1>2, <2>1, <4>1, <4>2 DEF NothingUnderway, OrderStates
      <4>4. ~run.failures => Drained
        BY <2>1, Running DEF DemoInv, FineInv
      <4> QED BY <4>3, <4>4
    <3>5. ~run.failures => NothingUnderway' /\ Drained'
      BY <3>2, <3>4 DEF NothingUnderway, Drained
    <3>6. "disarm" \notin OcoCleanup
      BY DEF OcoCleanup
    <3> QED BY <1>1, <1>2, <1>3, <2>1, <2>3, <3>1, <3>2, <3>3, <3>5, <3>6, OcoMoves
  <2> QED BY <1>23, <2>2, <2>3 DEF SurveyOco
<1> QED BY <1>6, <1>7, <1>8, <1>10, <1>11, <1>12, <1>13, <1>14, <1>15, <1>16, <1>17, <1>18, <1>19,
          <1>20, <1>21, <1>22, <1>23 DEF Oco

-----------------------------------------------------------------------------
(* The invariant holds at the start.                                       *)
LEMMA DemoInitially == DemoInit => DemoInv
<1> SUFFICES ASSUME DemoInit PROVE DemoInv
  OBVIOUS
<1>1. /\ program \in Programs /\ run = Start /\ order = [o \in Ids |-> NoOrder] /\ leg = "none"
      /\ base = 0 /\ caa = "off" /\ deposits = 0
  BY DEF DemoInit
<1>2. /\ Start \in RunRecord /\ run.pc = "prepare" /\ run.result = "none" /\ run.stage = "run"
      /\ run.tries = 0
  BY <1>1, PlacesAre DEF Start, RunRecord, Scenarios
<1>3. /\ NoOrder \in OrderRecord /\ NoOrder.state = "none" /\ NoOrder.filled = 0 /\ NoOrder.size = 0
      /\ NoOrder.life = 0
  BY DEF NoOrder, OrderRecord, OrderStates
<1>4. OrderFits(NoOrder)
  BY <1>3, Sizes DEF OrderFits
<1>5. \A o \in Ids : order[o] = NoOrder
  BY <1>1
<1>6. DemoTypes
  <2>1. order \in [Ids -> OrderRecord] /\ \A o \in Ids : OrderFits(order[o])
    BY <1>1, <1>3, <1>4, <1>5
  <2>2. order["oco"].state # "live"
    BY <1>3, <1>5 DEF Ids
  <2> QED BY <1>1, <1>2, <2>1, <2>2, Sizes DEF DemoTypes
<1>7. PlaceInv
  BY <1>2 DEF PlaceInv, At, PostOnlyPlaces, FillPlaces, ProbePlaces, OcoPlaces
<1>8. BalanceInv
  <2>1. Bought = 0
    BY <1>3, <1>5, NetIs DEF Bought, Ids
  <2>2. deposits * Lot = 0
    BY <1>1, Sizes
  <2>3. Have = 0
    BY <2>1, <2>2 DEF Have
  <2>4. /\ order["entry"] = NoOrder /\ order["exit"] = NoOrder /\ order["oco"] = NoOrder
        /\ order["final"] = NoOrder
    BY <1>5 DEF Ids
  <2> QED BY <1>1, <1>3, <2>1, <2>3, <2>4 DEF BalanceInv
<1>9. EntryInv
  BY <1>2, <1>3, <1>5 DEF EntryInv, At, SaleOfProbe, Ids
<1>10. GuardInv
  BY <1>2, <1>3, <1>5 DEF GuardInv, At, Underway, Ids
<1>11. FineInv
  <2>1. run.pc \notin OcoOwned \cup SaleOfProbe
    BY <1>2 DEF OcoOwned, OcoCleanup, SaleOfProbe
  <2> QED BY <1>2, <1>3, <1>5, <2>1 DEF FineInv, At
<1>12. DoneInv
  BY <1>2 DEF DoneInv
<1>13. SaleInv
  BY <1>2, <1>3, <1>5 DEF SaleInv, At, Ids
<1> QED BY <1>6, <1>7, <1>8, <1>9, <1>10, <1>11, <1>12, <1>13 DEF DemoInv

(* It survives a stuttering step.                                          *)
LEMMA DemoStutters ==
    ASSUME DemoInv, UNCHANGED demoVars
    PROVE  DemoInv'
<1>1. Mild /\ "entry" \in Ids
  BY StillIsMild DEF DemoInv, demoVars, okx, Ids
<1>2. /\ run' = run /\ caa' = caa /\ order' = order
  BY DEF demoVars, okx
<1>3. run' \in RunRecord /\ run'.pc = run.pc /\ Kept(run', run)
      /\ (run'.tries < TerminalAttempts \/ run'.tries < CleanupAttempts)
  BY <1>2 DEF Kept, DemoInv, DemoTypes
<1>4. order["entry"].life + run.tries \in Int
  BY <1>1, OrdersAre DEF DemoInv, DemoTypes, RunRecord
<1> QED BY <1>1, <1>2, <1>3, <1>4, WaitingKeeps

(* It survives every step.                                                 *)
LEMMA DemoKeeps == DemoInv /\ [DemoNext]_demoVars => DemoInv'
<1> SUFFICES ASSUME DemoInv, [DemoNext]_demoVars PROVE DemoInv'
  OBVIOUS
<1>1. CASE World
  BY <1>1, WorldKeeps
<1>2. CASE Entry
  <2>1. CASE Arm
    BY <2>1, ArmKeeps
  <2>2. CASE DisarmTimer
    BY <2>2, DisarmKeeps
  <2>3. CASE CancelRest /\ program = "fill"
    BY <2>3, FillSteps
  <2>4. CASE /\ ~Arm /\ ~DisarmTimer /\ ~(CancelRest /\ program = "fill")
    <3>1. program \in PostOnly
      <4>1. CASE PrepareOrder \/ FinishLifecycle \/ SurveyOpenOrders
        BY <4>1 DEF PrepareOrder, FinishLifecycle, SurveyOpenOrders
      <4>2. CASE PlaceRest \/ PlaceWebsocket \/ PlaceGuarded \/ PlaceCrossing \/ PlaceExpired \/ CancelRest
        BY <2>4, <4>2 DEF PlaceRest, PlaceWebsocket, PlaceGuarded, PlaceCrossing, PlaceExpired, CancelRest, PostOnly
      <4>3. CASE \/ ConnectObserver \/ ConnectSession \/ WatchPlaced \/ AmendOrder \/ WatchAmended
                 \/ ConfirmAmend \/ WatchCanceled \/ VerifyAbsent \/ ReconnectObserver
        BY <4>3, PostOnlyAt
           DEF ConnectObserver, ConnectSession, WatchPlaced, AmendOrder, WatchAmended,
               ConfirmAmend, WatchCanceled, VerifyAbsent, ReconnectObserver, At
      <4>4. CASE CancelWebsocket \/ CancelFallback
        BY <4>4, PostOnlyAt DEF CancelWebsocket, CancelFallback, CancelEntry, At
      <4> QED BY <1>2, <2>4, <4>1, <4>2, <4>3, <4>4 DEF Entry
    <3> QED BY <1>2, <2>4, <3>1, PostOnlySteps DEF Entry
  <2> QED BY <2>1, <2>2, <2>3, <2>4
<1>3. CASE RoundTrip
  <2>1. program = "fill"
    BY <1>3 DEF RoundTrip, PrepareFill, BuyFill, SettleFill, WaitForAcquired, QuoteFill, SellFill,
                SettleFillSale, FillEvidence, NoOpenOrders, VerifyResidual
  <2> QED BY <1>3, <2>1, FillSteps
<1>4. CASE Acquisition
  <2>1. CASE PrepareAcquisition \/ Acquire \/ CancelAcquisition \/ SettleAcquisition \/ WaitForDelta
    BY <2>1, AcquisitionSteps
  <2>2. CASE \/ ReconcileAcquisition \/ WeighSale \/ SellAcquired \/ SettleAcquiredSale
             \/ SurveyAcquisition
    <3>1. program = "probe"
      BY <2>2 DEF ReconcileAcquisition, WeighSale, SellAcquired, SettleAcquiredSale, SurveyAcquisition
    <3> QED BY <2>2, <3>1, ProbeSteps
  <2> QED BY <1>4, <2>1, <2>2 DEF Acquisition
<1>5. CASE Oco
  BY <1>5, OcoSteps
<1>6. CASE UNCHANGED demoVars
  BY <1>6, DemoStutters
<1> QED BY <1>1, <1>2, <1>3, <1>4, <1>5, <1>6 DEF DemoNext, Steps

(* It always holds.                                                        *)
LEMMA DemoInvariant == DemoSpec => []DemoInv
BY DemoInitially, DemoKeeps, PTL DEF DemoSpec

(* The variables keep their types, and no attempt is made beyond the last  *)
(* one (RECONCILE_ATTEMPTS of demo_order_smoke and demo_oco_smoke).        *)
THEOREM DemoTypesHold == DemoSpec => []DemoTypeOK
<1>1. DemoInv => DemoTypeOK
  <2> SUFFICES ASSUME DemoInv PROVE DemoTypeOK
    OBVIOUS
  <2>1. /\ run.tries \in Nat /\ {run.failures, run.flag} \subseteq BOOLEAN
        /\ run.stage \in {"run", "cleanup"} /\ run.scenario \in Scenarios
        /\ run.amount \in Nat /\ run.floor \in Nat /\ run.result \in {"none", "ok", "err"}
    BY Running DEF RunRecord
  <2>2. \A o \in Ids : /\ order[o].state \in OrderStates /\ order[o].filled \in 0 .. order[o].size
                       /\ order[o].life \in 0 .. Lifetime /\ order[o].repriced \in BOOLEAN
    BY OrdersAre, Sizes, Running DEF DemoTypes, OrderFits
  <2>3. run.tries >= 0
    BY <2>1
  <2> QED BY <2>1, <2>2, <2>3, Running DEF DemoTypes, DemoTypeOK
<1> QED BY <1>1, DemoInvariant, PTL

(* As long as the order of a post-only program or of the probe rests at    *)
(* OKX, or may still reach it, Cancel-All-After is armed: finish_order_    *)
(* lifecycle, finalize_order_lifecycle, verify_rejected_order_absent and   *)
(* cleanup_acquisition_probe let nobody disarm it before.                  *)
THEOREM RestingOrdersAreGuarded == DemoSpec => []RestingIsGuarded
<1>1. DemoInv => RestingIsGuarded
  BY DEF DemoInv, GuardInv, RestingIsGuarded
<1> QED BY <1>1, DemoInvariant, PTL

(* A program that buys and sells once never sells what the operator held   *)
(* before it (base_delta_from_baseline, total_delta_from_baseline): the    *)
(* sale is of no more than there is, and fills at most once.               *)
THEOREM HoldingsAreKept == DemoSpec => []BaselineKept
<1>1. DemoInv => BaselineKept
  <2> SUFFICES ASSUME DemoInv, program # "oco" PROVE base >= 0
    BY DEF BaselineKept
  <2>1. /\ base = Have - order["exit"].filled
        /\ program \in PostOnly => order["exit"] = NoOrder
        /\ program = "fill" => order["exit"].size <= Have
        /\ program = "probe" => order["exit"].size <= Bought
        /\ order["entry"].filled = 0 \/ order["entry"].filled >= Lot
    BY DEF DemoInv, BalanceInv
  <2>2. /\ deposits * Lot \in Nat /\ Bought \in Int /\ Have \in Int /\ order["exit"].filled \in Nat
        /\ order["exit"].size \in Nat /\ order["exit"].filled <= order["exit"].size
        /\ order["entry"].filled \in Nat /\ Have = deposits * Lot + Bought
    BY HaveIs, Running DEF Have
  <2>3. Bought >= 0
    BY <2>1, <2>2, NetGrows DEF Bought
  <2>4. order["exit"].filled <= Have
    <3>1. CASE program \in PostOnly
      BY <2>1, <2>2, <2>3, <3>1 DEF NoOrder
    <3>2. CASE program \in {"fill", "probe"}
      BY <2>1, <2>2, <2>3, <3>2
    <3> QED BY <3>1, <3>2, Running
  <2> QED BY <2>1, <2>2, <2>4
<1> QED BY <1>1, DemoInvariant, PTL

(* The probe never sells more than its own order bought, whatever the      *)
(* operator deposits meanwhile (acquisition_cleanup_sale_size).            *)
THEOREM SalesAreOfItsOwn == DemoSpec => []SellsOnlyItsOwn
<1>1. DemoInv => SellsOnlyItsOwn
  BY HaveIs, Running DEF DemoInv, BalanceInv, SellsOnlyItsOwn
<1> QED BY <1>1, DemoInvariant, PTL

(* A program that reports success has left no order behind, has sold what  *)
(* it bought down to less than a lot and has disarmed the timer            *)
(* (verify_cleanup, finish_order_lifecycle, cleanup_acquisition_probe,     *)
(* cleanup_test_owned_state).                                              *)
THEOREM SuccessIsClean == DemoSpec => []OkIsClean
<1>1. DemoInv => OkIsClean
  BY DEF DemoInv, DoneInv, OkIsClean, NothingUnderway, Drained, Underway
<1> QED BY <1>1, DemoInvariant, PTL
=============================================================================
