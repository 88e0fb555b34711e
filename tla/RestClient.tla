------------------------------ MODULE RestClient ------------------------------
(***************************************************************************)
(* What all REST requests share (okx/client.rs): the RateLimitPacer and    *)
(* the ServerTimeClock, used at the same time by the engine, by the tasks  *)
(* beside it, and by the OkxServerTimeRefresher (okx/trading_client.rs).   *)
(*                                                                         *)
(* Time passes in ticks; an Instant is kept as its age or as the time that *)
(* is left.  The local wall clock runs with OKX's but may be stepped; the  *)
(* estimate of the server time is kept as its error.                       *)
(***************************************************************************)
EXTENDS Integers, Sequences, FiniteSets

CONSTANTS
    Clients,        \* tasks that make private requests
    Refresher,      \* the OkxServerTimeRefresher
    Limit,          \* per bucket, requests allowed in a window
    Window,         \* bucket.window + OKX_RATE_LIMIT_PACING_SAFETY_MARGIN
    Cooldown,       \* OKX_RATE_LIMIT_COOLDOWN
    Ttl,            \* OKX_SERVER_TIME_TTL
    RefreshMargin,  \* OKX_SERVER_TIME_REFRESH_MARGIN: margin, period, deadline
    MaxRtt,         \* the request timeout
    MaxWait,        \* bound: time a refresh of the clock waits for its slot
    MaxRequests,    \* bound: private requests per client
    MaxFaults       \* bound: failed requests, 429s, steps of the wall clock

Buckets == {"user", "time"}
Tasks == Clients \cup {Refresher}

ASSUME TaskAssumption == Refresher \notin Clients
ASSUME LimitAssumption == \A b \in Buckets : Limit[b] \in Nat \ {0}
ASSUME TimeAssumption ==
    /\ Window \in Nat \ {0} /\ Cooldown \in Nat \ {0} /\ RefreshMargin \in Nat \ {0}
    /\ Ttl \in Nat /\ RefreshMargin <= Ttl /\ MaxRtt \in Nat \ {0}
    /\ MaxWait \in Nat
ASSUME RestBounds == MaxRequests \in [Clients -> Nat] /\ MaxFaults \in Nat

VARIABLES
    requests,   \* per bucket, the ages of the requests recorded, eldest first
    cooldowns,  \* per bucket, what is left of its cooldown
    stage,      \* per task, where its request is, see Stages
    nap,        \* per task, what is left of the sleep in wait
    snapshot,   \* the ServerTimeSnapshot: its age, the error of the estimate and
                \* (history) how long the refresh took that made it
    sync,       \* per task, the refresh_server_time it has under way: how long
                \* it waited for a slot, how long the request is on its way, and
                \* by how much the wall clock was stepped since it began
    timer,      \* time since the refresher's interval last fired
    failures,   \* failures in the channel from the refresher to the engine
    recent,     \* history: per bucket, ages of the requests of the last Window
    limited,    \* history: per bucket, time since OKX last answered 429
    stepAge,    \* history: time since the wall clock was last stepped
    made,       \* private requests so far, per client
    faults

vars == <<requests, cooldowns, stage, nap, snapshot, sync, timer, failures, recent, limited,
          stepAge, made, faults>>

Stages == {"idle", "pace", "timing", "syncPace", "sync", "flight"}
NoSnapshot == [age |-> 0, err |-> 0, span |-> 0, some |-> FALSE]
NoSync == [wait |-> 0, rtt |-> 0, step |-> 0]
Total(s) == s.wait + s.rtt
LongAgo == Ttl + MaxWait + MaxRtt + 1
Capped(n) == IF n < LongAgo THEN n ELSE LongAgo

MayFail == faults < MaxFaults /\ faults' = faults + 1
Fine == UNCHANGED faults

(* okx_rate_limit_bucket: the bucket of what the task waits to send. *)
BucketOf(s) == IF s = "pace" THEN "user" ELSE "time"

-----------------------------------------------------------------------------
(* Time.                                                                   *)

Older(ages) == [i \in DOMAIN ages |-> ages[i] + 1]

(* What is left of ages, eldest first, when the front is popped as long as *)
(* it has reached w.                                                       *)
FirstBelow(ages, w) ==
    CHOOSE n \in 1 .. Len(ages) + 1 :
        /\ \A j \in 1 .. n - 1 : ages[j] >= w
        /\ n <= Len(ages) => ages[n] < w
PopOld(ages, w) == SubSeq(ages, FirstBelow(ages, w), Len(ages))

Less(n) == IF n > 0 THEN n - 1 ELSE 0

(* A request ends at its timeout, a refresh at its deadline. *)
MayPass ==
    /\ \A t \in Tasks : /\ stage[t] = "sync" => sync[t].rtt < MaxRtt
                        /\ stage[t] = "syncPace" => sync[t].wait < MaxWait
    /\ stage[Refresher] # "idle" => timer < RefreshMargin

Tick ==
    /\ MayPass
    /\ requests' = [b \in Buckets |->
                      [i \in DOMAIN requests[b] |->
                         IF requests[b][i] < Window THEN requests[b][i] + 1 ELSE Window]]
    /\ recent' = [b \in Buckets |-> PopOld(Older(recent[b]), Window)]
    /\ cooldowns' = [b \in Buckets |-> Less(cooldowns[b])]
    /\ limited' = [b \in Buckets |-> IF limited[b] < Cooldown THEN limited[b] + 1 ELSE Cooldown]
    /\ nap' = [t \in Tasks |-> Less(nap[t])]
    /\ snapshot' = [snapshot EXCEPT !.age = IF snapshot.some /\ @ <= Ttl THEN @ + 1 ELSE @]
    /\ sync' = [t \in Tasks |->
                  CASE stage[t] = "syncPace" -> [sync[t] EXCEPT !.wait = @ + 1]
                    [] stage[t] = "sync"     -> [sync[t] EXCEPT !.rtt = @ + 1]
                    [] OTHER                 -> sync[t]]
    /\ timer' = IF timer < RefreshMargin THEN timer + 1 ELSE timer
    /\ stepAge' = Capped(stepAge + 1)
    /\ UNCHANGED <<stage, failures, made>> /\ Fine

(* The wall clock is stepped, by NTP or the operator: local time jumps and *)
(* the estimate, which is local time plus an offset, with it.              *)
WallClockStep(d) ==
    /\ MayFail
    /\ snapshot' = IF snapshot.some THEN [snapshot EXCEPT !.err = @ + d] ELSE snapshot
    /\ sync' = [t \in Tasks |-> IF stage[t] \in {"syncPace", "sync"}
                                THEN [sync[t] EXCEPT !.step = @ + d] ELSE sync[t]]
    /\ stepAge' = 0
    /\ UNCHANGED <<requests, cooldowns, stage, nap, timer, failures, recent, limited, made>>

-----------------------------------------------------------------------------
(* RateLimitPacer.                                                         *)

(* A request is about to be made: it needs a slot of its bucket first. *)
Want(t) ==
    /\ t \in Clients /\ stage[t] = "idle" /\ made[t] < MaxRequests[t]
    /\ made' = [made EXCEPT ![t] = @ + 1]
    /\ stage' = [stage EXCEPT ![t] = "pace"]
    /\ UNCHANGED <<requests, cooldowns, nap, snapshot, sync, timer, failures, recent, limited,
                   stepAge>> /\ Fine

(* Bug: a request is forgotten one tick too early. *)
KeptShort(ages) == PopOld(ages, Window - 1)

Kept(ages) == PopOld(ages, Window)

Room(b, kept) == Len(kept) < Limit[b]

TurnedAway(kept) == kept

Cooling(b) == cooldowns[b] > 0

(* reserve_or_wait: the slot is taken, or the task sleeps and tries again. *)
ReserveOrWait(t) ==
    LET b == BucketOf(stage[t])
        kept == Kept(requests[b])
    IN /\ stage[t] \in {"pace", "syncPace"} /\ nap[t] = 0
       /\ \/ /\ Cooling(b)
             /\ nap' = [nap EXCEPT ![t] = cooldowns[b]]
             /\ UNCHANGED <<requests, recent, stage>>
          \/ /\ ~Cooling(b) /\ Room(b, kept)
             /\ requests' = [requests EXCEPT ![b] = Append(kept, 0)]
             /\ recent' = [recent EXCEPT ![b] = Append(@, 0)]
             /\ stage' = [stage EXCEPT ![t] = IF b = "user" THEN "timing" ELSE "sync"]
             /\ UNCHANGED nap
          \/ /\ ~Cooling(b) /\ ~Room(b, kept)
             /\ requests' = [requests EXCEPT ![b] = TurnedAway(kept)]
             /\ nap' = [nap EXCEPT ![t] = Window - Head(kept)]
             /\ UNCHANGED <<recent, stage>>
       /\ UNCHANGED <<cooldowns, snapshot, sync, timer, failures, limited, stepAge, made>> /\ Fine

(* Bug: the cooldown counts from when the request was made. *)
RateLimitedShort(b) ==
    /\ cooldowns' = [cooldowns EXCEPT ![b] = Cooldown - 1]
    /\ limited' = [limited EXCEPT ![b] = 0]

(* record_rate_limit: OKX answered 429 or one of OKX_RATE_LIMIT_CODES. *)
RateLimited(b) ==
    /\ cooldowns' = [cooldowns EXCEPT ![b] = Cooldown]
    /\ limited' = [limited EXCEPT ![b] = 0]

NotLimited == UNCHANGED <<cooldowns, limited>>

(* The private request is answered. *)
Answer(t) ==
    /\ stage[t] = "flight"
    /\ stage' = [stage EXCEPT ![t] = "idle"]
    /\ \/ NotLimited /\ Fine
       \/ RateLimited("user") /\ MayFail
    /\ UNCHANGED <<requests, nap, snapshot, sync, timer, failures, recent, stepAge, made>>

-----------------------------------------------------------------------------
(* ServerTimeClock.                                                        *)

(* Bug: the snapshot has no time to live. *)
ExpiredNever == ~snapshot.some

Expired == ~snapshot.some \/ snapshot.age > Ttl

(* private_request_timing: sign and send, or ask OKX for its time first.   *)
(* refresh_server_time reads the local time before public_get, so before   *)
(* the request has its slot.                                               *)
ReadClock(t) ==
    /\ stage[t] = "timing"
    /\ snapshot' = IF Expired THEN NoSnapshot ELSE snapshot
    /\ stage' = [stage EXCEPT ![t] = IF Expired THEN "syncPace" ELSE "flight"]
    /\ sync' = [sync EXCEPT ![t] = NoSync]
    /\ UNCHANGED <<requests, cooldowns, nap, timer, failures, recent, limited, stepAge,
                   made>> /\ Fine

(* The error of local time + (server time - midpoint of the local times),  *)
(* where OKX read its clock up ticks into the refresh;                     *)
(* the steps of the wall clock since the refresh began are in local time.  *)
OffsetError(up, s) == up + s.step - (Total(s) + s.step) \div 2

(* report_server_time_refresh_failure: the channel holds one. *)
Report == failures' = 1

(* refresh_server_time: the answer is recorded, unless the local clock     *)
(* went backward meanwhile.  A client signs and sends with it; the         *)
(* refresher waits for its interval.                                       *)
SyncAnswered(t) ==
    LET s == sync[t]
        done == Total(s) + s.step >= 0
    IN /\ stage[t] = "sync"
       /\ \E up \in s.wait .. Total(s) :
             snapshot' = IF done THEN [age |-> 0, err |-> OffsetError(up, s),
                                       span |-> Total(s), some |-> TRUE]
                         ELSE snapshot
       /\ stage' = [stage EXCEPT ![t] = IF done /\ t \in Clients THEN "flight" ELSE "idle"]
       /\ sync' = [sync EXCEPT ![t] = NoSync]
       /\ IF t = Refresher /\ ~done THEN Report ELSE UNCHANGED failures
       /\ UNCHANGED <<requests, cooldowns, nap, timer, recent, limited, stepAge, made>> /\ Fine

(* The time request fails, or times out. *)
SyncFails(t) ==
    /\ stage[t] = "sync"
    /\ \/ NotLimited /\ MayFail
       \/ RateLimited("time") /\ MayFail
       \/ sync[t].rtt = MaxRtt /\ NotLimited /\ Fine
    /\ stage' = [stage EXCEPT ![t] = "idle"]
    /\ sync' = [sync EXCEPT ![t] = NoSync]
    /\ IF t = Refresher THEN Report ELSE UNCHANGED failures
    /\ UNCHANGED <<requests, nap, snapshot, timer, recent, stepAge, made>>

-----------------------------------------------------------------------------
(* OkxServerTimeRefresher.                                                 *)

(* needs_refresh *)
NeedsRefresh == Expired \/ Ttl - snapshot.age <= RefreshMargin

(* The interval fires. *)
Interval ==
    /\ stage[Refresher] = "idle" /\ timer >= RefreshMargin /\ timer' = 0
    /\ stage' = [stage EXCEPT ![Refresher] = IF NeedsRefresh THEN "syncPace" ELSE "idle"]
    /\ snapshot' = IF Expired THEN NoSnapshot ELSE snapshot
    /\ sync' = [sync EXCEPT ![Refresher] = NoSync]
    /\ nap' = [nap EXCEPT ![Refresher] = 0]
    /\ UNCHANGED <<requests, cooldowns, failures, recent, limited, stepAge, made>> /\ Fine

(* The refresh takes longer than its deadline. *)
Overdue ==
    /\ stage[Refresher] # "idle" /\ timer >= RefreshMargin
    /\ stage' = [stage EXCEPT ![Refresher] = "idle"]
    /\ sync' = [sync EXCEPT ![Refresher] = NoSync]
    /\ nap' = [nap EXCEPT ![Refresher] = 0]
    /\ Report
    /\ UNCHANGED <<requests, cooldowns, snapshot, timer, recent, limited, stepAge, made>> /\ Fine

(* server_time_refresh_failure_decision: the engine takes the failure.     *)
(* What it does then is in DispatchGate: it reconciles through an open     *)
(* gate (ServerTimeFailure) and does nothing behind a closed one           *)
(* (EventDropped).                                                         *)
EngineHears ==
    /\ failures = 1 /\ failures' = 0
    /\ UNCHANGED <<requests, cooldowns, stage, nap, snapshot, sync, timer, recent, limited,
                   stepAge, made>> /\ Fine

-----------------------------------------------------------------------------
Init ==
    /\ requests = [b \in Buckets |-> <<>>] /\ cooldowns = [b \in Buckets |-> 0]
    /\ stage = [t \in Tasks |-> "idle"] /\ nap = [t \in Tasks |-> 0]
    /\ snapshot = NoSnapshot /\ sync = [t \in Tasks |-> NoSync]
    /\ timer = RefreshMargin /\ failures = 0
    /\ recent = [b \in Buckets |-> <<>>] /\ limited = [b \in Buckets |-> Cooldown]
    /\ stepAge = LongAgo /\ made = [t \in Clients |-> 0] /\ faults = 0

TaskStep(t) ==
    \/ ReserveOrWait(t) \/ ReadClock(t) \/ SyncAnswered(t) \/ SyncFails(t) \/ Answer(t)

Next ==
    \/ Tick
    \/ \E t \in Tasks : Want(t) \/ TaskStep(t)
    \/ Interval \/ Overdue \/ EngineHears
    \/ \E d \in {-1, 1} : WallClockStep(d)

Spec == Init /\ [][Next]_vars

(* Time passes, tasks run, OKX answers or the request times out, and the   *)
(* engine reads its channels.                                              *)
Fairness ==
    /\ WF_vars(Tick) /\ WF_vars(Interval) /\ WF_vars(Overdue) /\ WF_vars(EngineHears)
    /\ \A t \in Tasks : WF_vars(TaskStep(t))

FairSpec == Spec /\ Fairness

-----------------------------------------------------------------------------
(* Properties.                                                             *)

(* Type invariant. *)
TypeOK ==
    /\ \A b \in Buckets : Len(requests[b]) <= Limit[b] /\ cooldowns[b] \in 0 .. Cooldown
    /\ stage \in [Tasks -> Stages] /\ stage[Refresher] \in {"idle", "syncPace", "sync"}
    /\ \A t \in Tasks : nap[t] \in 0 .. Window + Cooldown
    /\ \A t \in Tasks : sync[t].rtt \in 0 .. MaxRtt /\ sync[t].wait \in 0 .. MaxWait
    /\ timer \in 0 .. RefreshMargin /\ failures \in {0, 1} /\ faults \in 0 .. MaxFaults

(* However many tasks compete for a bucket, no more than its limit take a  *)
(* slot within any window (safety margin included).                        *)
Paced == \A b \in Buckets : Len(recent[b]) <= Limit[b]

(* No slot is taken while OKX's last "too many requests" is younger than   *)
(* the cooldown, by a task that was asleep when it came no more than by    *)
(* another.                                                                *)
CooldownKept ==
    [][\A b \in Buckets : limited[b] < Cooldown => Len(recent'[b]) <= Len(recent[b])]_vars

(* A request is signed, and its expTime computed, with a server time that  *)
(* is off by half of what its refresh took at most, the wait for a slot    *)
(* included, unless the wall clock was stepped within the time to live of  *)
(* the snapshot and that time.                                             *)
SignedInTime ==
    [][\A t \in Clients : stage[t] # "flight" /\ stage'[t] = "flight" =>
          \/ 2 * snapshot'.err \in -(snapshot'.span + 1) .. (snapshot'.span + 1)
          \/ stepAge <= Ttl + snapshot'.span]_vars

(* Nobody waits for a slot for good. *)
EveryoneServed == \A t \in Clients : stage[t] = "pace" ~> stage[t] # "pace"
==============================================================================
