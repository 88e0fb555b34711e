------------------------- MODULE DispatchGateProofs -------------------------
(***************************************************************************)
(* Proofs about DispatchGate for every set of streams, every number of     *)
(* strategies and every capacity of the health channel.                    *)
(***************************************************************************)
EXTENDS DispatchGate, TLAPS

(* What makes GapsReachTheGate inductive: every event taken from the       *)
(* channel closes the gate, a dispatch that is not a reconciliation starts *)
(* with nothing missed, and a reconciliation leaves behind only the        *)
(* strategies it has not called yet or that failed.                        *)
GateInv ==
    /\ phase = "drain" => ~GateOpen
    /\ phase = "startup" /\ Quiet => missed = {}
    /\ GapsReachTheGate
    /\ phase = "job" /\ job.kind # "stream" /\ Quiet => missed = {}
    /\ phase = "job" /\ job.kind = "stream" /\ Quiet =>
          missed \subseteq job.left \cup {s \in Strategies : failures[s] > 0}

-----------------------------------------------------------------------------

(* What is left when the head of a queue is taken. *)
LEMMA TakeHead ==
    ASSUME NEW S, NEW q \in Seq(S), q # <<>>
    PROVE  /\ Head(q) \in S
           /\ Tail(q) \in Seq(S)
           /\ Len(Tail(q)) = Len(q) - 1
           /\ Len(q) \in Nat
OBVIOUS

(* The initial state satisfies the invariant. *)
LEMMA InitEstablishes == Init => TypeOK /\ GateInv
<1> SUFFICES ASSUME Init PROVE TypeOK /\ GateInv
  OBVIOUS
<1>1. TypeOK
  <2>1. health \in Seq([stream : Streams, kind : EventKind]) /\ Len(health) <= Capacity
    BY CapacityAssumption DEF Init
  <2>2. faults \in 0 .. MaxFaults /\ drained \in 0 .. Capacity + 1
    BY CapacityAssumption, MaxFaultsAssumption DEF Init
  <2>3. failures \in [Strategies -> 0 .. MaxStrikes] /\ \A s \in Strategies : failures[s] < MaxStrikes
    BY MaxStrikesAssumption DEF Init
  <2>4. job \in [kind : JobKind, left : SUBSET Strategies]
    BY DEF Init, NoJob, JobKind
  <2> QED BY <2>1, <2>2, <2>3, <2>4 DEF Init, TypeOK
<1>2. GateInv
  BY DEF Init, GateInv, GapsReachTheGate
<1> QED BY <1>1, <1>2

(* A step of a stream task keeps the types. *)
LEMMA StreamType ==
    ASSUME TypeOK, NEW s \in Streams, Stream(s)
    PROVE  TypeOK'
<1> USE CapacityAssumption, MaxFaultsAssumption
<1>1. CASE Attempt(s)
  BY <1>1 DEF TypeOK, Attempt, Says, EngineUnchanged, EventKind, Strategies
<1>2. CASE Subscribed(s)
  BY <1>2 DEF TypeOK, Subscribed, Says, EngineUnchanged, EventKind, Strategies
<1>3. CASE AttemptFails(s)
  BY <1>3 DEF TypeOK, AttemptFails, Says, EngineUnchanged, EventKind, Strategies
<1>4. CASE Lost(s) \/ Dies(s)
  <2>1. faults' \in 0 .. MaxFaults
    BY <1>4 DEF TypeOK, Lost, Dies
  <2>2. outbox' \in [Streams -> EventKind \cup {"none"}]
    BY <1>4 DEF TypeOK, Lost, Dies, Says, EventKind
  <2>3. conn' \in [Streams -> {"down", "up", "dead"}]
    BY <1>4 DEF TypeOK, Lost, Dies, Says
  <2> QED
    BY <1>4, <2>1, <2>2, <2>3 DEF TypeOK, Lost, Dies, EngineUnchanged, Strategies
<1>5. CASE Deliver(s)
  <2>1. outbox[s] \in EventKind
    BY <1>5 DEF Deliver, Silent, TypeOK
  <2>2. health' \in Seq([stream : Streams, kind : EventKind]) /\ Len(health') = Len(health) + 1
    BY <1>5, <2>1 DEF Deliver, TypeOK
  <2> QED
    BY <1>5, <2>2 DEF TypeOK, Deliver, EngineUnchanged, Strategies
<1>6. CASE GiveUp(s)
  BY <1>6 DEF TypeOK, GiveUp, EngineUnchanged, Strategies
<1> QED BY <1>1, <1>2, <1>3, <1>4, <1>5, <1>6 DEF Stream

(* While the engine does not take from the channel, what the streams do    *)
(* leaves something to be reported whenever they add to missed.            *)
LEMMA StreamKeepsReports ==
    ASSUME TypeOK, NEW s \in Streams, Stream(s)
    PROVE  Quiet' => Quiet /\ missed' = missed
<1> USE CapacityAssumption
<1>1. CASE Attempt(s) \/ Subscribed(s) \/ AttemptFails(s) \/ Lost(s) \/ Dies(s)
  <2>1. outbox'[s] # "none"
    BY <1>1 DEF TypeOK, Attempt, Subscribed, AttemptFails, Lost, Dies, Says
  <2> QED BY <2>1 DEF Quiet, Silent
<1>2. CASE Deliver(s)
  <2>1. outbox[s] \in EventKind
    BY <1>2 DEF Deliver, Silent, TypeOK
  <2>2. Len(health') = Len(health) + 1 /\ Len(health) \in Nat
    BY <1>2, <2>1 DEF Deliver, TypeOK
  <2>3. health' # <<>>
    BY <2>2
  <2> QED BY <2>3 DEF Quiet
<1>3. CASE GiveUp(s)
  <2>1. health' # <<>>
    BY <1>3 DEF GiveUp, TypeOK
  <2> QED BY <2>1 DEF Quiet
<1> QED BY <1>1, <1>2, <1>3 DEF Stream

(* A step of a stream task keeps the gate invariant. *)
LEMMA StreamGate ==
    ASSUME TypeOK, GateInv, NEW s \in Streams, Stream(s)
    PROVE  GateInv'
<1>1. Quiet' => Quiet /\ missed' = missed
  BY StreamKeepsReports
<1>2. UNCHANGED <<phase, ready, reconcile, failures, job>>
  BY DEF Stream, Attempt, Subscribed, AttemptFails, Lost, Dies, Deliver,
         GiveUp, EngineUnchanged
<1> QED
  BY <1>1, <1>2 DEF GateInv, GapsReachTheGate, GateOpen, AllReady

-----------------------------------------------------------------------------

(* Taking an event from the health channel keeps the types and closes the  *)
(* gate: an acknowledgement or a loss asks for a reconciliation, any other *)
(* event makes its stream unready.                                         *)
LEMMA TakeStep ==
    ASSUME TypeOK, Take, phase \in {"idle", "drain"},
           drained <= Capacity,
           phase = "drain" => ~GateOpen
    PROVE  TypeOK' /\ GateInv'
<1> DEFINE e == Head(health)
<1>1. /\ e \in [stream : Streams, kind : EventKind]
      /\ health' \in Seq([stream : Streams, kind : EventKind])
      /\ Len(health') <= Capacity
  <2>1. /\ health # <<>> /\ health' = Tail(health)
        /\ health \in Seq([stream : Streams, kind : EventKind]) /\ Len(health) <= Capacity
    BY DEF TypeOK, Take
  <2>2. Len(Tail(health)) <= Capacity
    BY <2>1, TakeHead, CapacityAssumption
  <2> QED BY <2>1, <2>2, TakeHead
<1>2. /\ ready' \subseteq everReady' /\ everReady' \subseteq Streams
      /\ failedFirst' \subseteq Streams \ everReady'
      /\ reconcile' \in BOOLEAN
  <2>1. CASE e.kind = "ack"
    BY <1>1, <2>1 DEF TypeOK, Take, Record
  <2>2. CASE e.kind # "ack"
    BY <1>1, <2>2 DEF TypeOK, Take, Record
  <2> QED BY <2>1, <2>2
<1>3. TypeOK'
  BY <1>1, <1>2, CapacityAssumption DEF TypeOK, Take, streamVars, Strategies
<1>4. ~GateOpen'
  <2>1. CASE e.kind \in {"ack", "lost"}
    BY <2>1 DEF Take, Record, GateOpen
  <2>2. CASE e.kind \notin {"ack", "lost"}
    BY <1>1, <2>2 DEF Take, Record, GateOpen, AllReady
  <2> QED BY <2>1, <2>2
<1>5. phase' = "drain"
  BY DEF Take
<1> QED BY <1>3, <1>4, <1>5 DEF GateInv, GapsReachTheGate

(* Ending the drain keeps the invariant. *)
LEMMA DrainEndStep ==
    ASSUME TypeOK, GateInv, DrainEnd
    PROVE  TypeOK' /\ GateInv'
<1> USE DEF streamVars
<1>1. TypeOK'
  <2>1. job' \in [kind : JobKind, left : SUBSET Strategies]
    BY DEF TypeOK, DrainEnd, Exit, StartReconciliation, Start, Continue, NoJob, JobKind
  <2>2. phase' \in {"idle", "job", "exited"} /\ reconcile' \in BOOLEAN /\ drained' = 0
    BY DEF TypeOK, DrainEnd, Exit, StartReconciliation, Start, Continue
  <2>3. \A s \in Strategies : failures[s] < MaxStrikes
    BY DEF TypeOK, DrainEnd
  <2> QED
    BY <2>1, <2>2, <2>3, CapacityAssumption DEF TypeOK, DrainEnd, Strategies
<1>2. CASE phase' = "exited"
  BY <1>1, <1>2 DEF GateInv, GapsReachTheGate
<1>3. CASE StartReconciliation
  BY <1>1, <1>3 DEF StartReconciliation, Start, GateInv, GapsReachTheGate, TypeOK
<1>4. CASE Continue
  BY <1>1, <1>4 DEF DrainEnd, Continue, GateInv, GapsReachTheGate, GateOpen, AllReady
<1> QED
  BY <1>1, <1>2, <1>3, <1>4 DEF DrainEnd, Exit

(* So does every other decision of the idle loop, which starts a dispatch, *)
(* defers a candle or exits.                                               *)
LEMMA LoopStep ==
    ASSUME TypeOK, GateInv,
           \/ Startup \/ Timer \/ PendingCandle \/ Stop
           \/ \E arm \in {"event", "timer"} : Arrives(arm)
           \/ PrivateEvent \/ ServerTimeFailure \/ EventDropped
           \/ \E s \in Strategies : ConfirmedCandle(s) \/ InstrumentUpdated(s)
    PROVE  TypeOK' /\ GateInv'
<1> USE DEF streamVars, trackerVars, LoopUnchanged, FirstArms, CandleArm, PublicArm
<1>1. UNCHANGED <<health, outbox, missed, ready, failures>>
  BY DEF Startup, Timer, PendingCandle, PrivateEvent, ServerTimeFailure, EventDropped, Stop,
         Arrives, ConfirmedCandle, InstrumentUpdated, Event
<1>2. CASE Startup
  <2>1. ahead' \subseteq {"event", "timer"}
    BY <1>2 DEF Startup, TypeOK
  <2>2. /\ phase' \in {"idle", "exited"} /\ job' \in [kind : JobKind, left : SUBSET Strategies]
        /\ phase' = "exited" \/ UNCHANGED job
    BY <1>2 DEF Startup, Exit, TypeOK, NoJob, JobKind
  <2>3. TypeOK'
    BY <1>2, <2>1, <2>2 DEF Startup, TypeOK, Strategies
  <2> QED
    BY <1>1, <1>2, <2>2, <2>3 DEF Startup, GateInv, GapsReachTheGate, Quiet, Silent
<1>3. CASE Stop
  BY <1>3 DEF Stop, Exit, TypeOK, NoJob, JobKind, GateInv, GapsReachTheGate, Strategies
<1>4. CASE Timer
  <2>1. CASE StartReconciliation
    <3>1. TypeOK'
      BY <1>4, <2>1 DEF Timer, StartReconciliation, Start, TypeOK, JobKind, Strategies
    <3> QED
      BY <1>4, <2>1, <3>1 DEF StartReconciliation, Start, GateInv, GapsReachTheGate, TypeOK
  <2>2. CASE GateOpen /\ Start("tick", Strategies) /\ UNCHANGED reconcile
    BY <1>1, <1>4, <2>2 DEF Timer, Start, TypeOK, JobKind, GateInv, GapsReachTheGate, Quiet,
                            Silent, Strategies
  <2>3. CASE ~AllReady /\ UNCHANGED <<phase, job, reconcile>>
    BY <1>1, <1>4, <2>3 DEF Timer, TypeOK, GateInv, GapsReachTheGate, GateOpen, AllReady, Quiet,
                            Silent, Strategies
  <2> QED BY <1>4, <2>1, <2>2, <2>3 DEF Timer
<1>5. CASE PendingCandle
  BY <1>1, <1>5 DEF PendingCandle, Start, TypeOK, JobKind, GateInv, GapsReachTheGate, Quiet,
                    Silent, Strategies
<1>6. CASE EventDropped \/ \E arm \in {"event", "timer"} : Arrives(arm)
  <2>1. UNCHANGED <<phase, job, reconcile>> /\ ahead' \subseteq {"event", "timer"}
    BY <1>6 DEF EventDropped, Arrives, TypeOK
  <2> QED
    BY <1>1, <1>6, <2>1 DEF EventDropped, Arrives, TypeOK, GateInv, GapsReachTheGate, GateOpen,
                            AllReady, Quiet, Silent, Strategies
<1>7. ASSUME NEW s \in Strategies, ConfirmedCandle(s)
      PROVE  TypeOK' /\ GateInv'
  <2>1. CASE GateOpen
    <3>1. phase = "idle" /\ Start("tick", {s}) /\ UNCHANGED pending
      BY <1>7, <2>1 DEF ConfirmedCandle
    <3>2. TypeOK'
      BY <1>1, <1>7, <3>1 DEF ConfirmedCandle, Start, TypeOK, JobKind, Strategies
    <3> QED
      BY <1>1, <2>1, <3>1, <3>2 DEF Start, GateInv, GapsReachTheGate, Quiet, Silent
  <2>2. CASE ~GateOpen
    BY <1>1, <1>7, <2>2 DEF ConfirmedCandle, TypeOK, GateInv, GapsReachTheGate, GateOpen,
                            AllReady, Strategies
  <2> QED BY <2>1, <2>2
<1>8. ASSUME NEW s \in Strategies, InstrumentUpdated(s)
      PROVE  TypeOK' /\ GateInv'
  BY <1>1, <1>8 DEF InstrumentUpdated, Start, TypeOK, JobKind, GateInv, GapsReachTheGate, Quiet,
                    Silent, Strategies
<1>9. ASSUME NEW kind \in {"tick", "time"}, NEW S \in SUBSET Strategies, Event(kind, S)
      PROVE  TypeOK' /\ GateInv'
  <2>1. TypeOK'
    BY <1>1, <1>9 DEF Event, Start, TypeOK, JobKind, Strategies
  <2> QED
    BY <1>1, <1>9, <2>1 DEF Event, Start, GateInv, GapsReachTheGate, Quiet, Silent
<1>10. CASE PrivateEvent \/ ServerTimeFailure
  <2>1. \E kind \in {"tick", "time"}, S \in SUBSET Strategies : Event(kind, S)
    BY <1>10 DEF PrivateEvent, ServerTimeFailure
  <2> QED BY <1>9, <2>1
<1> QED BY <1>2, <1>3, <1>4, <1>5, <1>6, <1>7, <1>8, <1>10

(* And every outcome of a strategy call, with the end of the dispatch. *)
LEMMA DispatchStep ==
    ASSUME TypeOK, GateInv, StrategyOk \/ StrategyError \/ StrategyTimeout \/ JobEnd
    PROVE  TypeOK' /\ GateInv'
<1> USE DEF streamVars, trackerVars
<1>1. CASE StrategyOk
  <2>1. TypeOK'
    <3>1. /\ failures' \in [Strategies -> 0 .. MaxStrikes]
          /\ \A s \in Strategies : failures'[s] < MaxStrikes
      <4>1. failures' = [s \in Strategies |-> IF s = Current THEN 0 ELSE failures[s]]
        BY <1>1 DEF StrategyOk, TypeOK
      <4>2. \A s \in Strategies : failures[s] \in 0 .. MaxStrikes /\ failures[s] < MaxStrikes
        BY <1>1 DEF StrategyOk, TypeOK
      <4> QED BY <4>1, <4>2, MaxStrikesAssumption
    <3>2. job' \in [kind : JobKind, left : SUBSET Strategies]
      BY <1>1 DEF StrategyOk, Done, TypeOK
    <3> QED BY <1>1, <3>1, <3>2 DEF StrategyOk, Done, TypeOK, Strategies
  <2> QED
    BY <1>1, <2>1 DEF StrategyOk, Done, GateInv, GapsReachTheGate, Quiet, Silent, TypeOK
<1>2. CASE StrategyError
  <2>1. TypeOK'
    <3>1. /\ failures' \in [Strategies -> 0 .. MaxStrikes]
          /\ phase' # "exited" => \A s \in Strategies : failures'[s] < MaxStrikes
      <4>1. failures' = [s \in Strategies |->
                            IF s = Current THEN failures[s] + 1 ELSE failures[s]]
        BY <1>2 DEF StrategyError, Strike, TypeOK
      <4>2. \A s \in Strategies : failures[s] \in 0 .. MaxStrikes /\ failures[s] < MaxStrikes
        BY <1>2 DEF StrategyError, TypeOK
      <4>3. phase' # "exited" => ~(failures[Current] + 1 >= MaxStrikes)
        BY <1>2, MaxStrikesAssumption DEF StrategyError, Exit
      <4> QED BY <4>1, <4>2, <4>3, MaxStrikesAssumption
    <3>2. /\ job' \in [kind : JobKind, left : SUBSET Strategies]
          /\ phase' \in {"job", "exited"}
      BY <1>2 DEF StrategyError, Done, Exit, NoJob, JobKind, TypeOK
    <3> QED BY <1>2, <3>1, <3>2 DEF StrategyError, TypeOK, Strategies
  <2> QED
    BY <1>2, <2>1 DEF StrategyError, Strike, Done, Exit, GateInv, GapsReachTheGate, Quiet,
                      Silent, TypeOK
<1>3. CASE StrategyTimeout
  <2>1. TypeOK'
    <3>1. /\ failures' \in [Strategies -> 0 .. MaxStrikes]
          /\ phase' # "exited" => \A s \in Strategies : failures'[s] < MaxStrikes
      <4>1. failures' = [s \in Strategies |->
                            IF s = Current THEN failures[s] + 1 ELSE failures[s]]
        BY <1>3 DEF StrategyTimeout, Strike, TypeOK
      <4>2. \A s \in Strategies : failures[s] \in 0 .. MaxStrikes /\ failures[s] < MaxStrikes
        BY <1>3 DEF StrategyTimeout, TypeOK
      <4>3. phase' # "exited" => ~(failures[Current] + 1 >= MaxStrikes)
        BY <1>3, MaxStrikesAssumption DEF StrategyTimeout, Exit
      <4> QED BY <4>1, <4>2, <4>3, MaxStrikesAssumption
    <3>2. /\ job' \in [kind : JobKind, left : SUBSET Strategies]
          /\ phase' \in {"job", "exited"}
          /\ missed' \subseteq Strategies
      BY <1>3 DEF StrategyTimeout, Done, Exit, NoJob, JobKind, TypeOK
    <3> QED BY <1>3, <3>1, <3>2 DEF StrategyTimeout, TypeOK, Strategies
  <2> QED
    BY <1>3, <2>1 DEF StrategyTimeout, Strike, Done, Exit, GateInv, GapsReachTheGate, Quiet,
                      Silent, TypeOK
<1>4. CASE JobEnd
  <2>1. TypeOK'
    BY <1>4 DEF JobEnd, NoJob, TypeOK, JobKind, Strategies
  <2> QED
    BY <1>4, <2>1 DEF JobEnd, HasFailures, GateInv, GapsReachTheGate, GateOpen, Quiet, Silent,
                      TypeOK
<1> QED BY <1>1, <1>2, <1>3, <1>4

-----------------------------------------------------------------------------

(* The invariant is inductive. *)
LEMMA NextPreserves == TypeOK /\ GateInv /\ [Next]_vars => TypeOK' /\ GateInv'
<1> SUFFICES ASSUME TypeOK, GateInv, [Next]_vars PROVE TypeOK' /\ GateInv'
  OBVIOUS
<1>1. CASE \E s \in Streams : Stream(s)
  BY <1>1, StreamType, StreamGate
<1>2. CASE HealthEvent \/ DrainNext
  <2>1. Take /\ phase \in {"idle", "drain"} /\ (phase = "drain" => ~GateOpen)
    BY <1>2 DEF HealthEvent, FirstArms, DrainNext, GateInv
  <2>2. drained <= Capacity
    BY <1>2, CapacityAssumption DEF HealthEvent, FirstArms, DrainNext, TypeOK
  <2> QED BY <2>1, <2>2, TakeStep
<1>3. CASE DrainEnd
  BY <1>3, DrainEndStep
<1>4. CASE Engine /\ ~HealthEvent /\ ~DrainNext /\ ~DrainEnd
  BY <1>4, LoopStep, DispatchStep DEF Engine
<1>5. CASE Stop
  BY <1>5, LoopStep
<1>6. CASE UNCHANGED vars
  BY <1>6 DEF vars, TypeOK, GateInv, GapsReachTheGate, GateOpen, AllReady, Quiet, Silent,
              Strategies
<1> QED
  BY <1>1, <1>2, <1>3, <1>4, <1>5, <1>6 DEF Next, Terminated

(* The state always has its type, and no strategy reaches the limit of     *)
(* consecutive failures while the runtime runs.                            *)
THEOREM GateTypes == Spec => []TypeOK
<1>1. Init => TypeOK /\ GateInv
  BY InitEstablishes
<1>2. TypeOK /\ GateInv /\ [Next]_vars => TypeOK' /\ GateInv'
  BY NextPreserves
<1> QED BY <1>1, <1>2, PTL DEF Spec

(* After every gap of a stream, and whatever reports a full health channel *)
(* dropped, no strategy passes the open gate before it has read the        *)
(* exchange over REST.                                                     *)
THEOREM GateIsSafe == Spec => []GapsReachTheGate
<1>1. Init => TypeOK /\ GateInv
  BY InitEstablishes
<1>2. TypeOK /\ GateInv /\ [Next]_vars => TypeOK' /\ GateInv'
  BY NextPreserves
<1>3. GateInv => GapsReachTheGate
  BY DEF GateInv
<1> QED BY <1>1, <1>2, <1>3, PTL DEF Spec

-----------------------------------------------------------------------------

(* A stream whose last report was delivered is known to the tracker: what  *)
(* is still in the channel ends with the truth about it.                   *)
TrackerInv ==
    ~dropped => \A s \in Streams :
        conn[s] # "up" =>
            /\ outbox[s] # "ack"
            /\ outbox[s] \in {"none", "trying"} =>
                  /\ s \in ready => \E j \in 1 .. Len(health) :
                        health[j].stream = s /\ health[j].kind # "ack"
                  /\ \A i \in 1 .. Len(health) :
                        health[i].stream = s /\ health[i].kind = "ack" =>
                            \E j \in i + 1 .. Len(health) :
                                health[j].stream = s /\ health[j].kind # "ack"

(* A step of a stream task keeps the tracker's knowledge. *)
LEMMA StreamTracks ==
    ASSUME TypeOK, TrackerInv, NEW s \in Streams, Stream(s)
    PROVE  TrackerInv'
<1> SUFFICES ASSUME ~dropped', NEW t \in Streams, conn'[t] # "up"
             PROVE  /\ outbox'[t] # "ack"
                    /\ outbox'[t] \in {"none", "trying"} =>
                          /\ t \in ready' => \E j \in 1 .. Len(health') :
                                health'[j].stream = t /\ health'[j].kind # "ack"
                          /\ \A i \in 1 .. Len(health') :
                                health'[i].stream = t /\ health'[i].kind = "ack" =>
                                    \E j \in i + 1 .. Len(health') :
                                        health'[j].stream = t /\ health'[j].kind # "ack"
  BY DEF TrackerInv
<1>1. UNCHANGED ready
  BY DEF Stream, Attempt, Subscribed, AttemptFails, Lost, Dies, Deliver,
         GiveUp, EngineUnchanged
<1>2. ~dropped
  BY DEF Stream, Attempt, Subscribed, AttemptFails, Lost, Dies, Deliver,
         GiveUp, TypeOK
<1>3. CASE t # s /\ UNCHANGED health
  <2>1. conn'[t] = conn[t] /\ outbox'[t] = outbox[t]
    BY <1>3 DEF TypeOK, Stream, Attempt, Subscribed, AttemptFails, Lost, Dies,
                Deliver, GiveUp, Says
  <2> QED BY <1>1, <1>2, <1>3, <2>1 DEF TrackerInv
<1>4. CASE t = s /\ UNCHANGED health
  <2>1. CASE Attempt(s)
    <3>1. conn[s] # "up" /\ outbox[s] = "none" /\ outbox'[s] = "trying"
      BY <2>1 DEF TypeOK, Attempt, Says, Silent
    <3> QED BY <1>1, <1>2, <1>4, <3>1 DEF TrackerInv
  <2>2. CASE Subscribed(s) \/ AttemptFails(s) \/ Lost(s) \/ Dies(s)
    BY <1>4, <2>2 DEF TypeOK, Subscribed, AttemptFails, Lost, Dies, Says
  <2>3. CASE GiveUp(s)
    <3>1. outbox[s] = "trying" /\ outbox'[s] = "none" /\ conn[s] # "up"
      BY <1>4, <2>3 DEF TypeOK, GiveUp
    <3> QED BY <1>1, <1>2, <1>4, <3>1 DEF TrackerInv
  <2>4. CASE Deliver(s)
    <3>1. Len(health') = Len(health) + 1 /\ Len(health) \in Nat
      BY <2>4 DEF Deliver, TypeOK, Silent
    <3> QED BY <1>4, <3>1
  <2> QED BY <2>1, <2>2, <2>3, <2>4 DEF Stream
<1>5. CASE health' # health
  <2>1. Deliver(s)
    BY <1>5 DEF Stream, Attempt, Subscribed, AttemptFails, Lost, Dies, GiveUp
  <2>2. /\ outbox[s] \in EventKind
        /\ health' = Append(health, [stream |-> s, kind |-> outbox[s]])
        /\ conn' = conn /\ outbox' = [outbox EXCEPT ![s] = "none"]
    BY <2>1 DEF Deliver, Silent, TypeOK
  <2>3. /\ Len(health') = Len(health) + 1 /\ Len(health) \in Nat
        /\ \A i \in 1 .. Len(health) : health'[i] = health[i]
        /\ health'[Len(health) + 1] = [stream |-> s, kind |-> outbox[s]]
    BY <2>2 DEF TypeOK
  <2>4. CASE t = s
    <3>1. outbox[s] # "ack"
      BY <1>2, <2>2, <2>4 DEF TrackerInv
    <3>2. health'[Len(health')].stream = t /\ health'[Len(health')].kind # "ack"
      BY <2>3, <2>4, <3>1
    <3>3. outbox'[t] = "none"
      BY <2>2, <2>4 DEF TypeOK
    <3>4. \A i \in 1 .. Len(health') : health'[i].kind = "ack" => i < Len(health')
      BY <2>3, <3>2
    <3> QED BY <2>3, <3>2, <3>3, <3>4
  <2>5. CASE t # s
    <3>1. outbox'[t] = outbox[t] /\ conn'[t] = conn[t]
      BY <2>2, <2>5 DEF TypeOK
    <3>2. health'[Len(health) + 1].stream # t
      BY <2>3, <2>5
    <3> QED BY <1>1, <1>2, <2>3, <3>1, <3>2 DEF TrackerInv
  <2> QED BY <2>4, <2>5
<1> QED BY <1>3, <1>4, <1>5

(* So does the engine when it takes a report from the channel. *)
LEMMA TakeTracks ==
    ASSUME TypeOK, TrackerInv, Take
    PROVE  TrackerInv'
<1> SUFFICES ASSUME ~dropped, NEW t \in Streams, conn[t] # "up",
                    outbox[t] \in {"none", "trying"}
             PROVE  /\ t \in ready' => \E j \in 1 .. Len(health') :
                          health'[j].stream = t /\ health'[j].kind # "ack"
                    /\ \A i \in 1 .. Len(health') :
                          health'[i].stream = t /\ health'[i].kind = "ack" =>
                              \E j \in i + 1 .. Len(health') :
                                  health'[j].stream = t /\ health'[j].kind # "ack"
  BY DEF TrackerInv, Take, streamVars
<1>1. /\ Len(health) \in Nat /\ Len(health) >= 1 /\ Len(health') = Len(health) - 1
      /\ \A i \in 1 .. Len(health') : health'[i] = health[i + 1]
      /\ Head(health) = health[1]
  BY DEF Take, TypeOK
<1>2. ASSUME NEW i \in 1 .. Len(health), health[i].stream = t, health[i].kind = "ack"
      PROVE  \E j \in i + 1 .. Len(health) : health[j].stream = t /\ health[j].kind # "ack"
  BY <1>2 DEF TrackerInv
<1>3. \A i \in 1 .. Len(health') :
          health'[i].stream = t /\ health'[i].kind = "ack" =>
              \E j \in i + 1 .. Len(health') :
                  health'[j].stream = t /\ health'[j].kind # "ack"
  <2> SUFFICES ASSUME NEW i \in 1 .. Len(health'),
                      health'[i].stream = t, health'[i].kind = "ack"
               PROVE  \E j \in i + 1 .. Len(health') :
                          health'[j].stream = t /\ health'[j].kind # "ack"
    OBVIOUS
  <2>1. i + 1 \in 1 .. Len(health) /\ health[i + 1].stream = t /\ health[i + 1].kind = "ack"
    BY <1>1
  <2>2. PICK j \in i + 2 .. Len(health) : health[j].stream = t /\ health[j].kind # "ack"
    BY <1>2, <2>1
  <2>3. j - 1 \in i + 1 .. Len(health') /\ health'[j - 1] = health[j]
    BY <1>1, <2>2
  <2> QED BY <2>2, <2>3
<1>4. ASSUME t \in ready'
      PROVE  \E j \in 1 .. Len(health') : health'[j].stream = t /\ health'[j].kind # "ack"
  <2>1. \E j \in 2 .. Len(health) : health[j].stream = t /\ health[j].kind # "ack"
    <3>1. CASE health[1].stream = t
      <4>1. health[1].kind = "ack"
        BY <1>1, <1>4, <3>1 DEF Take, Record
      <4> QED BY <1>1, <1>2, <3>1, <4>1
    <3>2. CASE health[1].stream # t
      <4>1. t \in ready
        BY <1>1, <1>4, <3>2 DEF Take, Record
      <4>2. \E j \in 1 .. Len(health) : health[j].stream = t /\ health[j].kind # "ack"
        BY <4>1 DEF TrackerInv
      <4> QED BY <1>1, <3>2, <4>2
    <3> QED BY <3>1, <3>2
  <2>2. PICK j \in 2 .. Len(health) : health[j].stream = t /\ health[j].kind # "ack"
    BY <2>1
  <2>3. j - 1 \in 1 .. Len(health') /\ health'[j - 1] = health[j]
    BY <1>1, <2>2
  <2> QED BY <2>2, <2>3
<1> QED BY <1>3, <1>4

(* Every other step leaves streams, channel and ready set alone. *)
LEMMA NextTracks == TypeOK /\ TrackerInv /\ [Next]_vars => TrackerInv'
<1> SUFFICES ASSUME TypeOK, TrackerInv, [Next]_vars PROVE TrackerInv'
  OBVIOUS
<1>1. CASE \E s \in Streams : Stream(s)
  BY <1>1, StreamTracks
<1>2. CASE HealthEvent \/ DrainNext
  BY <1>2, TakeTracks DEF HealthEvent, DrainNext
<1>3. CASE UNCHANGED <<conn, outbox, health, ready, dropped>>
  BY <1>3 DEF TrackerInv
<1>4. CASE Engine /\ ~HealthEvent /\ ~DrainNext
  <2>1. UNCHANGED <<conn, outbox, health, ready, dropped>>
    BY <1>4 DEF Engine, Startup, DrainEnd, Arrives, Timer, PendingCandle, PrivateEvent,
       ServerTimeFailure, EventDropped, ConfirmedCandle, InstrumentUpdated, Event, StrategyOk, StrategyError, StrategyTimeout, JobEnd,
       streamVars, trackerVars, LoopUnchanged
  <2> QED BY <1>3, <2>1
<1>5. CASE Stop \/ Terminated \/ UNCHANGED vars
  BY <1>3, <1>5 DEF Stop, Terminated, vars, streamVars, trackerVars
<1> QED BY <1>1, <1>2, <1>4, <1>5 DEF Next

(* As long as no critical report was given up, an open gate with nothing   *)
(* left to report means that every mandatory stream is subscribed.         *)
THEOREM OpenGateIsUp == Spec => []OpenGateMeansUp
<1>1. Init => TypeOK /\ GateInv /\ TrackerInv
  <2>1. Init => TrackerInv
    BY DEF Init, TrackerInv
  <2> QED BY <2>1, InitEstablishes
<1>2. TypeOK /\ GateInv /\ TrackerInv /\ [Next]_vars => TypeOK' /\ GateInv' /\ TrackerInv'
  BY NextPreserves, NextTracks
<1>3. TrackerInv => OpenGateMeansUp
  <2> SUFFICES ASSUME TrackerInv, ~dropped, GateOpen, Quiet, NEW s \in Streams
               PROVE  conn[s] = "up"
    BY DEF OpenGateMeansUp
  <2>1. s \in ready /\ outbox[s] = "none" /\ health = <<>>
    BY DEF GateOpen, AllReady, Quiet, Silent
  <2>2. Len(health) = 0
    BY <2>1
  <2> QED BY <2>1, <2>2 DEF TrackerInv
<1> QED BY <1>1, <1>2, <1>3, PTL DEF Spec
=============================================================================
