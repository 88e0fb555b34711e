----------------------- MODULE TradingAuthorityProofs -----------------------
(***************************************************************************)
(* Proofs about TradingAuthority for every set of instruments, account     *)
(* levels and terms and every bound.                                       *)
(***************************************************************************)
EXTENDS TradingAuthority, TLAPS

(* The steps that only validate_trading_instrument takes. *)
EvidenceSteps == {"account", "accountByType", "maximum", "available", "balances", "fee"}

(* What the jobs of a phase are, and that nothing is validated before the  *)
(* account level is known: this makes OneLevel and CancelPossible          *)
(* inductive.                                                              *)
JobInv ==
    /\ {"op", "step"} \subseteq DOMAIN job
    /\ job.op = "none" => job.step = "none"
    /\ job.op = "config" => job.step = "config"
    /\ job.step \in EvidenceSteps => job.op = "validate"
    /\ phase # "preflight" => job.op \notin {"validate", "config"}
    /\ phase = "fatal" => job.op = "none"

LevelInv ==
    /\ generations = [i \in Instruments |-> generations[i]]
    /\ account.level # "none"
    /\ diagnostic = "none" => generations = Revoked /\ (job.op = "config" \/ phase = "fatal")
    /\ OneLevel
    /\ CancelPossible

AuthorityInv == JobInv /\ LevelInv

-----------------------------------------------------------------------------

(* The initial state satisfies the invariant. *)
LEMMA AuthorityInit == Init => AuthorityInv
<1> SUFFICES ASSUME Init PROVE AuthorityInv
  OBVIOUS
<1>1. JobInv
  BY DEF Init, Idle, JobInv, EvidenceSteps
<1>2. job.op = "config" /\ diagnostic = "none" /\ phase = "preflight" /\ generations = Revoked
  BY DEF Init, Idle, Revoked
<1>3. account.level # "none"
  BY AuthorityAssumption DEF Init, Accounts
<1> QED BY <1>1, <1>2, <1>3 DEF AuthorityInv, LevelInv, OneLevel, CancelPossible, Revoked

(* A step that leaves generations, level and phase alone. *)
LEMMA LevelKept ==
    ASSUME AuthorityInv, JobInv', UNCHANGED <<generations, diagnostic, phase>>,
           account'.level # "none", job.op # "config" \/ job'.op = "config"
    PROVE  AuthorityInv'
BY DEF AuthorityInv, LevelInv, OneLevel, CancelPossible, Revoked

(* A job that fails. *)
LEMMA JobFails ==
    ASSUME AuthorityInv, Fails, job.op # "config", UNCHANGED <<diagnostic, account>>
    PROVE  AuthorityInv'
<1>1. job' = Idle /\ Idle.op = "none" /\ Idle.step = "none" /\ {"op", "step"} \subseteq DOMAIN Idle
  BY DEF Fails, Done, Await, Idle
<1>2. JobInv'
  BY <1>1 DEF JobInv, EvidenceSteps, Fails
<1>3. CASE phase = "preflight"
  <2>1. phase' = "fatal" /\ generations' = Revoked
    BY <1>3 DEF Fails
  <2> QED BY <1>2, <2>1 DEF AuthorityInv, LevelInv, OneLevel, CancelPossible, Revoked
<1>4. CASE phase # "preflight"
  BY <1>2, <1>4, LevelKept DEF Fails, AuthorityInv, LevelInv
<1> QED BY <1>3, <1>4

(* A job that ends, moves to another step or starts. *)
LEMMA JobDone ==
    ASSUME AuthorityInv, Done, job.op # "config", UNCHANGED <<generations, diagnostic, phase, account>>
    PROVE  AuthorityInv'
<1>1. job' = Idle /\ Idle.op = "none" /\ Idle.step = "none" /\ {"op", "step"} \subseteq DOMAIN Idle
  BY DEF Done, Await, Idle
<1>2. JobInv'
  BY <1>1 DEF JobInv, EvidenceSteps
<1> QED BY <1>2, LevelKept DEF AuthorityInv, LevelInv

(* A job that goes on to its next call keeps its operation. *)
LEMMA JobMoves ==
    ASSUME AuthorityInv, UNCHANGED <<generations, diagnostic, phase, account>>,
           {"op", "step"} \subseteq DOMAIN job', job'.op = job.op, job.op \notin {"none", "config"},
           job'.step \in EvidenceSteps => job.op = "validate"
    PROVE  AuthorityInv'
<1>1. JobInv'
  BY DEF AuthorityInv, JobInv
<1> QED BY <1>1, LevelKept DEF AuthorityInv, LevelInv

(* A job begins only while the engine runs or shuts down. *)
LEMMA JobBegins ==
    ASSUME AuthorityInv, UNCHANGED <<generations, diagnostic, phase, account>>,
           phase \in {"running", "shutdown"}, job.op = "none",
           {"op", "step"} \subseteq DOMAIN job', job'.op \notin {"none", "config", "validate"},
           job'.step \notin EvidenceSteps
    PROVE  AuthorityInv'
<1>1. JobInv'
  BY DEF AuthorityInv, JobInv
<1> QED BY <1>1, LevelKept DEF AuthorityInv, LevelInv

-----------------------------------------------------------------------------

(* The world, OKX's answers and the observation up to its completion. *)
LEMMA WorldStep ==
    ASSUME AuthorityInv, World \/ Serve \/ Due \/ StartObservation \/ ObservationAnswered
    PROVE  AuthorityInv'
<1> USE DEF exchange, client
<1>1. CASE World /\ Tick
  <2>1. /\ {"op", "step"} \subseteq DOMAIN job' /\ job'.op = job.op /\ job'.step = job.step
        /\ UNCHANGED <<generations, diagnostic, phase, account>>
    BY <1>1 DEF Tick, AuthorityInv, JobInv
  <2>2. JobInv'
    BY <2>1 DEF AuthorityInv, JobInv
  <2> QED BY <2>1, <2>2, LevelKept DEF AuthorityInv, LevelInv
<1>2. CASE World /\ AccountChanges
  <2>1. account'.level # "none"
    BY <1>2, AuthorityAssumption DEF AccountChanges, Accounts
  <2>2. UNCHANGED <<job, generations, diagnostic, phase>>
    BY <1>2 DEF AccountChanges
  <2> QED BY <2>1, <2>2, LevelKept DEF AuthorityInv, JobInv
<1>3. CASE \/ World /\ ~Tick /\ ~AccountChanges
           \/ Serve \/ Due \/ StartObservation \/ ObservationAnswered
  <2>1. UNCHANGED <<job, generations, diagnostic, phase, account>>
    BY <1>3 DEF World, MetadataChanges, HintArrives, HintExpires, Serve, Due, StartObservation,
       ObservationAnswered
  <2> QED BY <2>1, LevelKept DEF AuthorityInv, JobInv, LevelInv
<1> QED BY <1>1, <1>2, <1>3

(* The preflight reads the account, starts a validation and ends. *)
LEMMA StartupStep ==
    ASSUME AuthorityInv, Startup
    PROVE  AuthorityInv'
<1> USE DEF exchange, client
<1>1. CASE PreflightReadsAccount
  <2>1. job' = Idle /\ Idle.op = "none" /\ Idle.step = "none" /\ {"op", "step"} \subseteq DOMAIN Idle
    BY <1>1 DEF PreflightReadsAccount, Done, Await, Idle
  <2>2. phase' \in {"preflight", "fatal"} /\ account' = account
    BY <1>1 DEF PreflightReadsAccount
  <2>3. JobInv'
    BY <2>1, <2>2 DEF JobInv, EvidenceSteps
  <2>4. CASE Observe(account.level)
    <3>1. diagnostic' = account.level /\ diagnostic' # "none"
      BY <2>4 DEF Observe, AuthorityInv, LevelInv
    <3>2. CASE LevelChanged(account.level) \/ diagnostic = "none"
      <4>1. generations' = Revoked
        BY <2>4, <3>2 DEF Observe, AuthorityInv, LevelInv
      <4> QED
        BY <2>2, <2>3, <3>1, <4>1 DEF AuthorityInv, LevelInv, OneLevel, CancelPossible, Revoked
    <3>3. CASE ~LevelChanged(account.level) /\ diagnostic # "none"
      <4>1. generations' = generations /\ diagnostic' = diagnostic
        BY <2>4, <3>3 DEF Observe, LevelChanged
      <4> QED
        BY <2>2, <2>3, <3>1, <4>1 DEF AuthorityInv, LevelInv, OneLevel, CancelPossible
    <3> QED BY <3>2, <3>3
  <2>5. CASE phase' = "fatal" /\ UNCHANGED <<diagnostic, levelAge, generations>>
    BY <2>2, <2>3, <2>5 DEF AuthorityInv, LevelInv, OneLevel, CancelPossible, Revoked
  <2> QED BY <1>1, <2>4, <2>5 DEF PreflightReadsAccount
<1>2. CASE Preflighted
  <2>1. /\ phase = "preflight" /\ phase' = "running" /\ job.op = "none"
        /\ \A i \in Instruments : generations[i] # NoGeneration
        /\ UNCHANGED <<generations, diagnostic, job, account>>
    BY <1>2 DEF Preflighted
  <2>2. JobInv'
    BY <2>1 DEF AuthorityInv, JobInv
  <2> QED BY <2>1, <2>2 DEF AuthorityInv, LevelInv, OneLevel, CancelPossible, Revoked
<1>3. ASSUME NEW i \in Instruments, Validate(i)
      PROVE  AuthorityInv'
  <2>1. /\ {"op", "step"} \subseteq DOMAIN job' /\ job'.op = "validate" /\ job'.step = "public"
        /\ phase = "preflight" /\ job.op = "none"
        /\ UNCHANGED <<generations, diagnostic, phase, account>>
    BY <1>3 DEF Validate, Await, Idle
  <2>2. JobInv'
    BY <2>1 DEF JobInv, EvidenceSteps
  <2> QED BY <2>1, <2>2, LevelKept DEF AuthorityInv, LevelInv
<1> QED BY <1>1, <1>2, <1>3 DEF Startup

(* An observation that changes the level or fails ends the engine. *)
LEMMA ObservationStep ==
    ASSUME AuthorityInv, ObservationCompletes
    PROVE  AuthorityInv'
<1> USE DEF exchange
<1> DEFINE level == observation.level
<1>1. /\ phase = "running" /\ job.op = "none" /\ UNCHANGED <<job, account>>
      /\ diagnostic # "none"
  BY DEF ObservationCompletes, Between, AuthorityInv, LevelInv
<1>2. phase' \in {"running", "fatal"}
  BY <1>1 DEF ObservationCompletes
<1>3. JobInv'
  BY <1>1, <1>2 DEF AuthorityInv, JobInv
<1>4. CASE level = "none" \/ LevelChanged(level)
  <2>1. phase' = "fatal" /\ generations' = Revoked
    BY <1>4 DEF ObservationCompletes, IsFatal, Observe
  <2> QED BY <1>1, <1>3, <2>1 DEF AuthorityInv, LevelInv, OneLevel, CancelPossible, Revoked
<1>5. CASE level # "none" /\ ~LevelChanged(level)
  <2>1. generations' = generations /\ diagnostic' = diagnostic
    BY <1>1, <1>5 DEF ObservationCompletes, Observe, LevelChanged
  <2> QED BY <1>1, <1>2, <1>3, <2>1 DEF AuthorityInv, LevelInv, OneLevel, CancelPossible
<1> QED BY <1>4, <1>5

(* Every answered call goes on with its job, ends it or fails. *)
LEMMA AnsweredStep ==
    ASSUME AuthorityInv, Answered
    PROVE  AuthorityInv'
<1> USE DEF exchange, client
<1>1. CASE PublicRow
  <2>1. job.op \notin {"none", "config"} /\ {"op", "step"} \subseteq DOMAIN job
    BY <1>1 DEF PublicRow, AuthorityInv, JobInv
  <2>2. UNCHANGED <<diagnostic, account>>
    BY <1>1 DEF PublicRow
  <2>3. CASE Fails
    BY <2>1, <2>2, <2>3, JobFails
  <2>4. CASE Done /\ UNCHANGED <<phase, generations>>
    BY <2>1, <2>2, <2>4, JobDone
  <2>5. CASE /\ job.op = "validate" /\ UNCHANGED <<phase, generations>>
             /\ Await([job EXCEPT !.step = "account", !.meta = reply.meta])
    <3>1. {"op", "step"} \subseteq DOMAIN job' /\ job'.op = job.op /\ job'.step = "account"
      BY <2>1, <2>5 DEF Await
    <3> QED BY <2>1, <2>2, <2>5, <3>1, JobMoves
  <2> QED BY <1>1, <2>3, <2>4, <2>5 DEF PublicRow
<1>2. CASE AccountRow \/ SizingRow \/ Evidence
  <2>1. job.op = "validate" /\ {"op", "step"} \subseteq DOMAIN job /\ UNCHANGED <<diagnostic, account>>
    BY <1>2 DEF AccountRow, SizingRow, Evidence, AuthorityInv, JobInv, EvidenceSteps
  <2>2. CASE Fails
    BY <2>1, <2>2, JobFails
  <2>3. ASSUME NEW s, Goto(s), UNCHANGED <<phase, generations>> PROVE AuthorityInv'
    <3>1. {"op", "step"} \subseteq DOMAIN job' /\ job'.op = job.op
      BY <2>1, <2>3 DEF Goto, Await
    <3> QED BY <2>1, <2>3, <3>1, JobMoves
  <2> QED BY <1>2, <2>2, <2>3 DEF AccountRow, SizingRow, Evidence
<1>3. CASE TickerRow \/ UsdRow
  <2>1. /\ job.op \notin {"none", "config"} /\ {"op", "step"} \subseteq DOMAIN job
        /\ UNCHANGED <<diagnostic, account>> /\ job.step \notin EvidenceSteps
    BY <1>3 DEF TickerRow, UsdRow, AuthorityInv, JobInv, EvidenceSteps
  <2>2. CASE Fails
    BY <2>1, <2>2, JobFails
  <2>3. CASE Done /\ UNCHANGED <<phase, generations>>
    BY <2>1, <2>3, JobDone
  <2>4. CASE Retry /\ UNCHANGED <<phase, generations>>
    <3>1. {"op", "step"} \subseteq DOMAIN job' /\ job'.op = job.op /\ job'.step = job.step
      BY <2>1, <2>4 DEF Retry, Await
    <3> QED BY <2>1, <2>4, <3>1, JobMoves
  <2>5. CASE /\ job.op = "validate" /\ UNCHANGED <<phase, generations>>
             /\ Await([job EXCEPT !.step = AfterTicker, !.tries = 0])
    <3>1. {"op", "step"} \subseteq DOMAIN job' /\ job'.op = job.op
      BY <2>1, <2>5 DEF Await
    <3> QED BY <2>1, <2>5, <3>1, JobMoves
  <2>6. CASE /\ Goto(IF job.op = "validate" THEN "maximum" ELSE "reserve")
             /\ UNCHANGED <<phase, generations>>
    <3>1. /\ {"op", "step"} \subseteq DOMAIN job' /\ job'.op = job.op
          /\ job'.step = IF job.op = "validate" THEN "maximum" ELSE "reserve"
      BY <2>1, <2>6 DEF Goto, Await
    <3> QED BY <2>1, <2>6, <3>1, JobMoves DEF EvidenceSteps
  <2> QED BY <1>3, <2>2, <2>3, <2>4, <2>5, <2>6 DEF TickerRow, UsdRow
<1>4. CASE Remember
  <2>1. /\ job.op = "validate" /\ UNCHANGED <<diagnostic, account>>
        /\ phase = "preflight" /\ diagnostic # "none"
    BY <1>4 DEF Remember, AuthorityInv, JobInv, LevelInv, EvidenceSteps
  <2>2. CASE Fails
    BY <2>1, <2>2, JobFails
  <2>3. CASE /\ generations' = [generations EXCEPT ![job.i] =
                                  [level |-> diagnostic, meta |-> job.meta]]
             /\ phase' = (IF reply.kind = "high" THEN "fatal" ELSE phase)
             /\ Done
    <3>1. job' = Idle /\ Idle.op = "none" /\ Idle.step = "none" /\ {"op", "step"} \subseteq DOMAIN Idle
      BY <2>3 DEF Done, Await, Idle
    <3>2. phase' \in {"preflight", "fatal"}
      BY <2>1, <2>3
    <3>3. JobInv'
      BY <3>1, <3>2 DEF JobInv, EvidenceSteps
    <3>4. /\ generations' = [i \in Instruments |-> generations'[i]]
          /\ \A i \in Instruments : \/ generations'[i] = generations[i]
                                    \/ generations'[i].level = diagnostic
      BY <2>3 DEF AuthorityInv, LevelInv
    <3> QED
      BY <2>1, <3>2, <3>3, <3>4 DEF AuthorityInv, LevelInv, OneLevel, CancelPossible
  <2> QED BY <1>4, <2>2, <2>3 DEF Remember
<1>5. CASE ClockReady \/ PriceChecked \/ Send
  <2>1. /\ job.op \notin {"none", "config"} /\ {"op", "step"} \subseteq DOMAIN job
        /\ UNCHANGED <<generations, diagnostic, phase, account>>
    BY <1>5 DEF ClockReady, PriceChecked, Send, AuthorityInv, JobInv
  <2>2. CASE Done
    BY <2>1, <2>2, JobDone
  <2>3. CASE ~Done
    <3>1. /\ {"op", "step"} \subseteq DOMAIN job' /\ job'.op = job.op
          /\ job'.step \in {"price", "timing"}
      BY <1>5, <2>1, <2>3 DEF ClockReady, PriceChecked, Send, Goto, Await
    <3> QED BY <2>1, <3>1, JobMoves DEF EvidenceSteps
  <2> QED BY <2>2, <2>3
<1> QED BY <1>1, <1>2, <1>3, <1>4, <1>5 DEF Answered

(* Whatever a strategy asks for starts a job without touching the          *)
(* generations, and the rate limiter lets it go on.                        *)
LEMMA BeginStep ==
    ASSUME AuthorityInv, Reserved \/ \E i \in Instruments : Begin(i)
    PROVE  AuthorityInv'
<1> USE DEF exchange, client
<1>1. UNCHANGED <<generations, diagnostic, phase, account>>
  BY DEF Reserved, Begin, BeginPriced, BeginPlain, BeginCancel, BeginRefresh, BeginTicker
<1>2. CASE Reserved
  <2>1. job.op \notin {"none", "config"} /\ {"op", "step"} \subseteq DOMAIN job
    BY <1>2 DEF Reserved, AuthorityInv, JobInv
  <2>2. CASE Done
    BY <1>1, <2>1, <2>2, JobDone
  <2>3. CASE ~Done
    <3>1. Goto("clock") \/ Goto("timing")
      BY <1>2, <2>3 DEF Reserved, HintCheck
    <3>2. /\ {"op", "step"} \subseteq DOMAIN job' /\ job'.op = job.op
          /\ job'.step \in {"clock", "timing"}
      BY <2>1, <3>1 DEF Goto, Await
    <3> QED BY <1>1, <2>1, <3>2, JobMoves DEF EvidenceSteps
  <2> QED BY <2>2, <2>3
<1>3. ASSUME NEW i \in Instruments, Begin(i) PROVE AuthorityInv'
  <2>1. job.op = "none" /\ phase \in {"running", "shutdown"}
    BY <1>3 DEF Begin, BeginPriced, BeginPlain, BeginCancel, BeginRefresh, BeginTicker, MayBegin
  <2>2. CASE Done
    BY <1>1, <2>1, <2>2, JobDone
  <2>3. CASE ~Done
    <3> DEFINE Starts(j) == /\ {"op", "step"} \subseteq DOMAIN j
                            /\ j.op \in Priced \cup Plain \cup {"cancel", "refresh", "ticker"}
                            /\ j.step \in {"usd", "reserve", "public", "ticker"}
    <3>1. ASSUME NEW op \in Priced, BeginPriced(op, i) PROVE Starts(job')
      <4>1. PICK side \in {"buy", "sell"}, px \in Prices :
               job' = [Idle EXCEPT !.op = op, !.i = i, !.side = side, !.px = px,
                       !.step = IF generations[i].meta \in UsdTerms THEN "usd" ELSE "reserve"]
        BY <3>1 DEF BeginPriced, Await
      <4> QED BY <4>1 DEF Idle
    <3>2. ASSUME NEW op \in Plain, BeginPlain(op, i) PROVE Starts(job')
      <4>1. job' = [Idle EXCEPT !.op = op, !.i = i, !.step = "reserve"]
        BY <2>3, <3>2 DEF BeginPlain, HintCheck, Await
      <4> QED BY <4>1 DEF Idle
    <3>3. ASSUME BeginCancel(i) \/ BeginRefresh(i) \/ BeginTicker(i) PROVE Starts(job')
      <4>1. \E op \in {"cancel", "refresh", "ticker"}, step \in {"reserve", "public", "ticker"} :
               job' = [Idle EXCEPT !.op = op, !.i = i, !.step = step]
        BY <2>3, <3>3 DEF BeginCancel, BeginRefresh, BeginTicker, HintCheck, Await
      <4> QED BY <4>1 DEF Idle
    <3>4. Starts(job')
      BY <1>3, <3>1, <3>2, <3>3 DEF Begin
    <3> QED BY <1>1, <2>1, <3>4, JobBegins DEF Priced, Plain, EvidenceSteps
  <2> QED BY <2>2, <2>3
<1> QED BY <1>2, <1>3

(* The invariant is inductive. *)
LEMMA AuthorityStep == AuthorityInv /\ [Next]_vars => AuthorityInv'
<1> SUFFICES ASSUME AuthorityInv, [Next]_vars PROVE AuthorityInv'
  OBVIOUS
<1>1. CASE OperatorShutdown \/ Stop
  <2>1. /\ phase \in {"running", "shutdown"} /\ phase' \in {"shutdown", "stopped"}
        /\ UNCHANGED <<job, generations, diagnostic, account>>
    BY <1>1 DEF OperatorShutdown, Between, Stop, client, exchange
  <2>2. CancelPossible'
    BY <1>1, <2>1 DEF OperatorShutdown, Between, Stop, AuthorityInv, LevelInv, CancelPossible
  <2> QED BY <2>1, <2>2 DEF AuthorityInv, JobInv, LevelInv, OneLevel, Revoked
<1>2. CASE UNCHANGED vars
  BY <1>2 DEF vars, client, exchange, AuthorityInv, JobInv, LevelInv, OneLevel, CancelPossible,
     Revoked
<1> QED
  BY <1>1, <1>2, WorldStep, StartupStep, ObservationStep, AnsweredStep, BeginStep
     DEF Next, Observer

(* No generation mixes account levels (observe_account_level_diagnostic,   *)
(* ValidatedCapabilityGeneration::cash_spot).                              *)
THEOREM LevelsAgree == Spec => []OneLevel
<1>1. AuthorityInv => OneLevel
  BY DEF AuthorityInv, LevelInv
<1> QED BY <1>1, AuthorityInit, AuthorityStep, PTL DEF Spec

(* As long as the engine runs or shuts down, every instrument has its      *)
(* generation, so no cancel is refused for want of a route                 *)
(* (revoke_capability_generations, validated_order_route).                 *)
THEOREM CancelsAreRouted == Spec => []CancelPossible
<1>1. AuthorityInv => CancelPossible
  BY DEF AuthorityInv, LevelInv
<1> QED BY <1>1, AuthorityInit, AuthorityStep, PTL DEF Spec

-----------------------------------------------------------------------------
(* What an order carries on its way to the exchange.                       *)

(* An order without a price has passed the hint check when its job begins, *)
(* a priced one when the rate limiter lets it through.                     *)
HintChecked(j) ==
    \/ j.op \in Plain
    \/ j.op \in Priced /\ j.step \in {"clock", "price", "timing"}

(* A job that may send is an order's; once its hint is checked, the latch  *)
(* stays open until it ends; at the last call a priced order lies within a *)
(* limit whose age is the one it was accepted at plus the wait.            *)
OrderOk(j, latched, wait) ==
    /\ DOMAIN j = {"op", "i", "step", "tries", "age", "meta", "side", "px", "row"}
    /\ DOMAIN j.row = {"on", "buy", "sell", "age"}
    /\ j.step \in {"clock", "price"} => j.op \in Priced
    /\ j.step \in {"reserve", "timing"} => j.op \in Orders
    /\ j.step = "usd" => j.op \in Priced \cup {"validate"}
    /\ HintChecked(j) => j.i \notin latched
    /\ j.op \in Priced /\ j.step = "timing" =>
          /\ Within(j.row, j.side, j.px)
          /\ j.row.age \in Int /\ j.row.age <= MaxStale + wait

OrderInv ==
    /\ OrderOk(job, latches, waited)
    /\ contradicted \subseteq latches
    /\ reply.age \in Int
    /\ waited \in 0 .. MaxRtt

(* No job is under way. *)
LEMMA IdleIsOk == \A latched, wait : OrderOk(Idle, latched, wait)
BY DEF OrderOk, HintChecked, Idle, NoRow, Priced, Plain

(* The next await. *)
LEMMA AwaitKeeps ==
    ASSUME Await(job'), OrderOk(job', latches', 0), contradicted' \subseteq latches'
    PROVE  OrderInv'
<1>1. MaxRtt \in Nat
  BY AuthorityAssumption
<1> QED BY <1>1 DEF Await, OrderInv, NoAnswer

(* A job that ends. *)
LEMMA DoneKeeps ==
    ASSUME Done, contradicted' \subseteq latches'
    PROVE  OrderInv'
<1>1. Await(job') /\ job' = Idle
  BY DEF Done, Await
<1>2. OrderOk(job', latches', 0)
  BY <1>1, IdleIsOk
<1> QED BY <1>1, <1>2, AwaitKeeps

(* A step to or within the reads of an evidence, and a repeated read. *)
LEMMA ReadKeeps ==
    ASSUME OrderInv, UNCHANGED <<latches, contradicted>>, Await(job'),
           DOMAIN job' = DOMAIN job, job'.row = job.row, job'.op = job.op, job'.i = job.i,
           job'.step \notin {"clock", "price", "reserve", "timing"},
           job'.step = "usd" => job.op \in Priced \cup {"validate"}
    PROVE  OrderInv'
<1>1. OrderOk(job', latches', 0)
  BY DEF OrderInv, OrderOk, HintChecked
<1> QED BY <1>1, AwaitKeeps DEF OrderInv

(* No order is on its way at first. *)
LEMMA OrderInit == Init => OrderInv
<1> SUFFICES ASSUME Init PROVE OrderInv
  OBVIOUS
<1>1. OrderOk(job, latches, waited)
  BY DEF Init, Idle, NoRow, OrderOk, HintChecked, Priced, Plain
<1> QED BY <1>1, AuthorityAssumption DEF Init, OrderInv, NoAnswer

(* Time ages the limit by what it adds to the wait. *)
LEMMA OrderTick == ASSUME OrderInv, Tick PROVE OrderInv'
<1> DEFINE a == IF Timed(job) THEN Capped(job.row.age, MaxStale + MaxRtt) ELSE job.row.age
<1>1. MaxRtt \in Nat /\ MaxStale \in Nat
  BY AuthorityAssumption
<1>2. /\ DOMAIN job' = DOMAIN job
      /\ job'.op = job.op /\ job'.i = job.i /\ job'.step = job.step
      /\ job'.side = job.side /\ job'.px = job.px
      /\ DOMAIN job'.row = DOMAIN job.row
      /\ job'.row = [job.row EXCEPT !.age = a]
  BY DEF Tick, OrderInv, OrderOk
<1>3. /\ job'.row.on = job.row.on /\ job'.row.buy = job.row.buy /\ job'.row.sell = job.row.sell
      /\ job'.row.age = a
  BY <1>2 DEF OrderInv, OrderOk
<1>4. waited' \in 0 .. MaxRtt /\ waited' = IF Timed(job) THEN waited + 1 ELSE 0
  BY <1>1 DEF Tick, OrderInv
<1>5. UNCHANGED <<latches, contradicted, reply>>
  BY DEF Tick
<1>6. job.op \in Priced /\ job.step = "timing" => a \in Int /\ a <= MaxStale + waited'
  <2> SUFFICES ASSUME job.op \in Priced, job.step = "timing"
               PROVE  a \in Int /\ a <= MaxStale + waited'
    OBVIOUS
  <2>1. Timed(job)
    BY DEF Timed
  <2>2. job.row.age \in Int /\ job.row.age <= MaxStale + waited
    BY DEF OrderInv, OrderOk
  <2> QED BY <1>1, <1>4, <2>1, <2>2 DEF OrderInv, Capped
<1>7. OrderOk(job', latches', waited')
  BY <1>2, <1>3, <1>5, <1>6 DEF OrderInv, OrderOk, HintChecked, Within
<1> QED BY <1>4, <1>5, <1>7 DEF OrderInv

(* OKX's answers carry an age. *)
LEMMA OrderServe == ASSUME OrderInv, Serve PROVE OrderInv'
<1>1. MaxStale \in Nat
  BY AuthorityAssumption
<1>2. UNCHANGED <<job, waited, latches, contradicted>>
  BY DEF Serve, client
<1>3. reply'.age \in Int
  <2>1. CASE reply' \in Answers(job.step, job.i)
    <3>1. CASE job.step \in {"public", "account", "accountByType"}
      <4>1. reply' = [kind |-> "row", meta |-> market[job.i], age |-> 0]
        BY <2>1, <3>1 DEF Answers
      <4> QED BY <4>1
    <3>2. CASE job.step \in {"ticker", "usd", "price"}
      <4>1. reply' \in [kind : {"row"}, meta : {"none"}, age : Ages]
        BY <2>1, <3>2 DEF Answers
      <4> QED BY <1>1, <4>1 DEF Ages
    <3>3. CASE job.step \notin {"public", "account", "accountByType", "ticker", "usd", "price"}
      <4>1. reply' = [NoAnswer EXCEPT !.kind = "row"]
        BY <2>1, <3>3 DEF Answers
      <4> QED BY <4>1 DEF NoAnswer
    <3> QED BY <3>1, <3>2, <3>3
  <2>2. CASE \E k \in Refusals(job.step) : reply' = [NoAnswer EXCEPT !.kind = k]
    BY <2>2 DEF NoAnswer
  <2> QED BY <2>1, <2>2 DEF Serve
<1> QED BY <1>2, <1>3 DEF OrderInv

(* The preflight and the reads of a validation. *)
LEMMA OrderEvidence ==
    ASSUME OrderInv,
           \/ Startup \/ PublicRow \/ AccountRow \/ TickerRow \/ UsdRow
           \/ SizingRow \/ Evidence \/ Remember
    PROVE  OrderInv'
<1> USE DEF client, exchange
<1> DEFINE Reading(s) == s \notin {"clock", "price", "reserve", "timing"}
<1>2. ASSUME NEW s, Reading(s), s = "usd" => job.op \in Priced \cup {"validate"}, Goto(s),
             UNCHANGED <<latches, contradicted>>
      PROVE  OrderInv'
  <2>1. /\ DOMAIN job' = DOMAIN job /\ job'.row = job.row /\ job'.op = job.op /\ job'.i = job.i
        /\ job'.step = s /\ Await(job')
    BY <1>2 DEF OrderInv, OrderOk, Goto, Await
  <2> QED BY <1>2, <2>1, ReadKeeps
<1>3. ASSUME Retry, Reading(job.step), UNCHANGED <<latches, contradicted>>
      PROVE  OrderInv'
  <2>1. /\ DOMAIN job' = DOMAIN job /\ job'.row = job.row /\ job'.op = job.op /\ job'.i = job.i
        /\ job'.step = job.step /\ Await(job')
    BY <1>3 DEF OrderInv, OrderOk, Retry, Await
  <2> QED BY <1>3, <2>1, ReadKeeps DEF OrderInv, OrderOk
<1>4. ASSUME Done, UNCHANGED <<latches, contradicted>> PROVE OrderInv'
  BY <1>4, DoneKeeps DEF OrderInv
<1>5. CASE Startup
  <2>1. CASE PreflightReadsAccount
    BY <1>4, <2>1 DEF PreflightReadsAccount
  <2>2. CASE Preflighted
    BY <2>2 DEF Preflighted, OrderInv
  <2>3. ASSUME NEW i \in Instruments, Validate(i) PROVE OrderInv'
    <3>1. Await(job') /\ job' = [Idle EXCEPT !.op = "validate", !.i = i, !.step = "public"]
      BY <2>3 DEF Validate, Await
    <3>2. OrderOk(job', latches', 0)
      BY <3>1 DEF Idle, NoRow, OrderOk, HintChecked, Priced, Plain
    <3> QED BY <2>3, <3>1, <3>2, AwaitKeeps DEF Validate, OrderInv
  <2> QED BY <1>5, <2>1, <2>2, <2>3 DEF Startup
<1>6. CASE PublicRow
  <2>1. CASE Done
    <3>1. contradicted' \subseteq latches'
      BY <1>6 DEF PublicRow, OrderInv, Latched, Seen
    <3> QED BY <2>1, <3>1, DoneKeeps
  <2>2. CASE ~Done
    <3>1. /\ Await([job EXCEPT !.step = "account", !.meta = reply.meta])
          /\ UNCHANGED <<latches, contradicted>>
      BY <1>6, <2>2 DEF PublicRow, Fails
    <3>2. /\ DOMAIN job' = DOMAIN job /\ job'.row = job.row /\ job'.op = job.op
          /\ job'.i = job.i /\ job'.step = "account" /\ Await(job')
      BY <3>1 DEF OrderInv, OrderOk, Await
    <3> QED BY <3>1, <3>2, ReadKeeps
  <2> QED BY <2>1, <2>2
<1>7. CASE AccountRow \/ SizingRow \/ Evidence \/ Remember
  <2>1. UNCHANGED <<latches, contradicted>>
    BY <1>7 DEF AccountRow, SizingRow, Evidence, Remember
  <2>2. Done \/ \E s \in {"ticker", "accountByType", "available", "balances", "fee"} : Goto(s)
    BY <1>7 DEF AccountRow, SizingRow, Evidence, Remember, Fails
  <2> QED BY <1>2, <1>4, <2>1, <2>2
<1>8. CASE TickerRow
  <2>1. UNCHANGED <<latches, contradicted>> /\ Reading(job.step)
    BY <1>8 DEF TickerRow
  <2>2. CASE job.op = "validate" /\ Await([job EXCEPT !.step = AfterTicker, !.tries = 0])
    <3>1. /\ DOMAIN job' = DOMAIN job /\ job'.row = job.row /\ job'.op = job.op
          /\ job'.i = job.i /\ job'.step \in {"usd", "maximum"} /\ Await(job')
      BY <2>2 DEF OrderInv, OrderOk, Await, AfterTicker
    <3> QED BY <2>1, <2>2, <3>1, ReadKeeps
  <2> QED BY <1>3, <1>4, <1>8, <2>1, <2>2 DEF TickerRow, Fails
<1>9. CASE UsdRow
  <2>1. UNCHANGED <<latches, contradicted>> /\ Reading(job.step) /\ job.step = "usd"
    BY <1>9 DEF UsdRow
  <2>2. CASE job.op # "validate" /\ Goto("reserve")
    <3>1. /\ DOMAIN job' = DOMAIN job /\ job'.row = job.row /\ job'.op = job.op
          /\ job'.i = job.i /\ job'.step = "reserve" /\ Await(job')
      BY <2>2 DEF OrderInv, OrderOk, Goto, Await
    <3>2. job.op \in Priced
      BY <2>1, <2>2 DEF OrderInv, OrderOk
    <3>3. OrderOk(job', latches', 0)
      BY <2>1, <3>1, <3>2 DEF OrderInv, OrderOk, HintChecked, Orders, Priced, Plain
    <3> QED BY <2>1, <3>1, <3>3, AwaitKeeps DEF OrderInv
  <2>3. CASE Goto("maximum")
    BY <1>2, <2>1, <2>3
  <2> QED BY <1>3, <1>4, <1>9, <2>1, <2>2, <2>3 DEF UsdRow, Fails
<1> QED BY <1>5, <1>6, <1>7, <1>8, <1>9

(* The steps of an order: it begins, waits, is checked and goes out. *)
LEMMA OrderSteps ==
    ASSUME OrderInv, Reserved \/ ClockReady \/ PriceChecked \/ Send
    PROVE  OrderInv'
<1> USE DEF client, exchange
<1>1. ASSUME NEW s \in {"clock", "price", "timing"}, Goto(s), contradicted' \subseteq latches',
             s \in {"clock", "price"} => job.op \in Priced,
             s = "timing" => job.op \in Orders \ Priced,
             HintChecked(job) \/ job.op \in Priced => job.i \notin latches'
      PROVE  OrderInv'
  <2>1. /\ DOMAIN job' = DOMAIN job /\ job'.row = job.row /\ job'.op = job.op /\ job'.i = job.i
        /\ job'.step = s /\ Await(job')
    BY <1>1 DEF OrderInv, OrderOk, Goto, Await
  <2>2. OrderOk(job', latches', 0)
    BY <1>1, <2>1 DEF OrderInv, OrderOk, HintChecked
  <2> QED BY <1>1, <2>1, <2>2, AwaitKeeps
<1>2. CASE Reserved
  <2>1. job.step = "reserve" /\ job.op \in Orders
    BY <1>2 DEF Reserved, OrderInv, OrderOk
  <2>2. CASE Done
    <3>1. contradicted' \subseteq latches'
      BY <1>2 DEF Reserved, HintCheck, Latched, Seen, OrderInv
    <3> QED BY <2>2, <3>1, DoneKeeps
  <2>3. CASE ~Done /\ job.op \in Priced
    <3>1. Goto("clock") /\ UNCHANGED <<latches, contradicted>> /\ job.i \notin latches
      BY <1>2, <2>3 DEF Reserved, HintCheck
    <3> QED BY <1>1, <2>3, <3>1 DEF OrderInv
  <2>4. CASE ~Done /\ job.op \notin Priced
    <3>1. Goto("timing") /\ UNCHANGED <<latches, contradicted>>
      BY <1>2, <2>4 DEF Reserved
    <3> QED BY <1>1, <2>1, <2>4, <3>1 DEF OrderInv, OrderOk
  <2> QED BY <2>2, <2>3, <2>4
<1>3. CASE ClockReady
  <2>1. /\ UNCHANGED <<latches, contradicted>> /\ job.op \in Priced /\ job.step = "clock"
        /\ job.i \notin latches /\ contradicted \subseteq latches
    BY <1>3 DEF ClockReady, OrderInv, OrderOk, HintChecked
  <2> QED BY <1>1, <1>3, <2>1, DoneKeeps DEF ClockReady
<1>4. CASE PriceChecked
  <2>1. /\ UNCHANGED <<latches, contradicted>> /\ job.op \in Priced /\ job.step = "price"
        /\ job.i \notin latches /\ contradicted \subseteq latches
    BY <1>4 DEF PriceChecked, Await, Done, OrderInv, OrderOk, HintChecked
  <2>2. CASE Done
    BY <2>1, <2>2, DoneKeeps
  <2>3. CASE ~Done
    <3>1. PICK b \in Bands :
             /\ FreshRow(reply) /\ Within(b, job.side, job.px)
             /\ job' = [job EXCEPT !.step = "timing",
                        !.row = [on |-> b.on, buy |-> b.buy, sell |-> b.sell, age |-> reply.age]]
             /\ reply' = NoAnswer /\ waited' = 0
      BY <1>4, <2>3 DEF PriceChecked, Await, Done
    <3> DEFINE row == [on |-> b.on, buy |-> b.buy, sell |-> b.sell, age |-> reply.age]
    <3>2. /\ DOMAIN job' = DOMAIN job /\ job'.row = row /\ job'.op = job.op /\ job'.i = job.i
          /\ job'.step = "timing" /\ job'.side = job.side /\ job'.px = job.px /\ Await(job')
      BY <3>1 DEF OrderInv, OrderOk, Await
    <3>3. Within(row, job.side, job.px)
      BY <3>1 DEF Within
    <3>4. row.age \in Int /\ row.age <= MaxStale + 0
      BY <3>1, AuthorityAssumption DEF FreshRow, Stale, OrderInv
    <3>5. DOMAIN row = {"on", "buy", "sell", "age"}
      OBVIOUS
    <3>6. OrderOk(job', latches', 0)
      <4> HIDE DEF row
      <4> QED BY <2>1, <3>2, <3>3, <3>4, <3>5 DEF OrderInv, OrderOk, Orders
    <3> QED BY <2>1, <3>2, <3>6, AwaitKeeps
  <2> QED BY <2>2, <2>3
<1>5. CASE Send
  BY <1>5, DoneKeeps DEF Send, OrderInv
<1> QED BY <1>2, <1>3, <1>4, <1>5

(* What a strategy asks for: only an order that carries no price has its   *)
(* hint checked now.                                                       *)
LEMMA OrderBegin ==
    ASSUME OrderInv, NEW i \in Instruments, Begin(i)
    PROVE  OrderInv'
<1> USE DEF client, exchange
<1>1. CASE Done
  <2>1. contradicted' \subseteq latches'
    BY DEF Begin, BeginPriced, BeginPlain, BeginCancel, BeginRefresh, BeginTicker, HintCheck,
       Latched, Seen, Await, Done, OrderInv
  <2> QED BY <1>1, <2>1, DoneKeeps
<1>2. ASSUME NEW op \in Priced, BeginPriced(op, i) PROVE OrderInv'
  <2>1. PICK side \in {"buy", "sell"}, px \in Prices :
          /\ job' = [Idle EXCEPT !.op = op, !.i = i, !.side = side, !.px = px,
                     !.step = IF generations[i].meta \in UsdTerms THEN "usd" ELSE "reserve"]
          /\ reply' = NoAnswer /\ waited' = 0
    BY <1>2 DEF BeginPriced, Await
  <2>2. OrderOk(job', latches', 0) /\ Await(job')
    BY <2>1 DEF Await, Idle, NoRow, OrderOk, HintChecked, Orders, Priced, Plain
  <2> QED BY <1>2, <2>2, AwaitKeeps DEF BeginPriced, OrderInv
<1>3. ASSUME UNCHANGED <<latches, contradicted>>, Await(job'), OrderOk(job', latches, 0)
      PROVE  OrderInv'
  BY <1>3, AwaitKeeps DEF OrderInv
<1>4. ASSUME NEW op \in Plain, ~Done, BeginPlain(op, i) PROVE OrderInv'
  <2>1. /\ i \notin latches /\ UNCHANGED <<latches, contradicted>>
        /\ job' = [Idle EXCEPT !.op = op, !.i = i, !.step = "reserve"] /\ Await(job')
    BY <1>4 DEF BeginPlain, HintCheck, Await
  <2>2. OrderOk(job', latches, 0)
    BY <2>1 DEF Idle, NoRow, OrderOk, HintChecked, Orders, Priced, Plain
  <2> QED BY <1>3, <2>1, <2>2
<1>5. CASE ~Done /\ (BeginCancel(i) \/ BeginRefresh(i) \/ BeginTicker(i))
  <2>1. UNCHANGED <<latches, contradicted>> /\ Await(job')
    BY <1>5 DEF BeginCancel, BeginRefresh, BeginTicker, HintCheck, Await
  <2>2. \/ job' = [Idle EXCEPT !.op = "cancel", !.i = i, !.step = "reserve"]
        \/ job' = [Idle EXCEPT !.op = "refresh", !.i = i, !.step = "public"]
        \/ job' = [Idle EXCEPT !.op = "ticker", !.i = i, !.step = "ticker"]
    BY <1>5 DEF BeginCancel, BeginRefresh, BeginTicker, HintCheck, Await
  <2>3. /\ DOMAIN job' = {"op", "i", "step", "tries", "age", "meta", "side", "px", "row"}
        /\ job'.row = NoRow
        /\ job'.op \in {"cancel", "refresh", "ticker"}
        /\ job'.step \in {"reserve", "public", "ticker"}
        /\ job'.step = "reserve" => job'.op = "cancel"
    BY <2>2 DEF Idle
  <2>4. DOMAIN NoRow = {"on", "buy", "sell", "age"}
    BY DEF NoRow
  <2>5. OrderOk(job', latches, 0)
    BY <2>3, <2>4 DEF OrderOk, HintChecked, Orders, Priced, Plain
  <2> QED BY <1>3, <2>1, <2>5
<1> QED BY <1>1, <1>2, <1>4, <1>5 DEF Begin

(* The invariant is inductive. *)
LEMMA OrderStep == OrderInv /\ [Next]_vars => OrderInv'
<1> SUFFICES ASSUME OrderInv, [Next]_vars PROVE OrderInv'
  OBVIOUS
<1>1. CASE \/ World /\ ~Tick
           \/ Observer \/ OperatorShutdown \/ Stop \/ UNCHANGED vars
  <2>1. UNCHANGED <<job, reply, waited, latches, contradicted>>
    BY <1>1 DEF World, AccountChanges, MetadataChanges, HintArrives, HintExpires, Observer, Due,
       StartObservation, ObservationAnswered, ObservationCompletes, OperatorShutdown, Stop, vars,
       client, exchange
  <2> QED BY <2>1 DEF OrderInv
<1> QED
  BY <1>1, OrderTick, OrderServe, OrderEvidence, OrderSteps, OrderBegin DEF Next, World, Answered

(* No order is created or amended any more on an instrument whose evidence *)
(* was contradicted, also when its job was waiting for the rate limiter or *)
(* another call as the contradiction was noticed                           *)
(* (ensure_instrument_metadata_safety_latch_clear,                         *)
(* latch_instrument_metadata_failure).                                     *)
THEOREM ContradictionsAreFinal == Spec => []ContradictionIsFinal
<1>1. OrderInv => ContradictionIsFinal
  BY DEF OrderInv, OrderOk, HintChecked, ContradictionIsFinal, Sending, Orders
<1> QED BY <1>1, OrderInit, OrderStep, PTL DEF Spec

(* The price of an order that goes out lies within a limit that is at most *)
(* MaxStale plus one call old, whatever the rate limiter's wait            *)
(* (fresh_spot_price_limit, ensure_price).                                 *)
THEOREM PricesAreCurrent == Spec => []PriceIsCurrent
<1>1. OrderInv => PriceIsCurrent
  BY AuthorityAssumption DEF OrderInv, OrderOk, PriceIsCurrent, Sending
<1> QED BY <1>1, OrderInit, OrderStep, PTL DEF Spec
=============================================================================
