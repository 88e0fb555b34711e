-------------------------- MODULE TradingAuthority --------------------------
(***************************************************************************)
(* What entitles the runtime to send an order.  At startup the preflight   *)
(* reads the account configuration once and collects, instrument by        *)
(* instrument, the evidence of a "capability generation"; only then may    *)
(* an order be routed.  While the engine runs, a recurring observation of  *)
(* the account level, the instrument hints of the public stream and the    *)
(* metadata refreshes may each withdraw that entitlement: the first by     *)
(* revoking every generation and stopping the engine, the others by        *)
(* latching the instrument until the process restarts.                     *)
(*                                                                         *)
(* The engine is one task: a job (a validation, a refresh, an order) runs  *)
(* from await to await, and between any two awaits OKX and the streams     *)
(* move.  Ages count time units and are capped one above their limit.      *)
(***************************************************************************)
EXTENDS Integers, FiniteSets

CONSTANTS
  Instruments,   \* the enabled strategies' instruments
  Levels,        \* account levels ("acctLv")
  Terms,         \* versions of an instrument's metadata while it is live
  UsdTerms,      \* the versions with a USD-denominated order limit
  Bands,         \* price limits: [on, buy, sell]
  Prices,        \* prices orders are made at
  MaxAge,        \* OKX_TRADING_TUPLE_EVIDENCE_MAX_AGE
  MaxStale,      \* maximum age of a ticker, an index ticker, a price limit
  MaxRtt,        \* the longest a REST call stays unanswered
  MaxAttempts,   \* OKX_STALE_MARKET_EVIDENCE_MAX_ATTEMPTS
  MaxChanges,    \* bound: changes of the account or of an instrument
  MaxFaults      \* bound: failed, absent or contradictory answers

ASSUME AuthorityAssumption ==
  /\ UsdTerms \subseteq Terms /\ "none" \notin Terms /\ "halted" \notin Terms
  /\ "none" \notin Levels
  /\ {MaxAge, MaxStale, MaxRtt, MaxChanges, MaxFaults} \subseteq Nat
  /\ MaxAttempts \in Nat \ {0}

VARIABLES
  market,        \* OKX: each instrument's metadata
  account,       \* OKX: the account's level and whether it may trade SPOT
  hint,          \* the public stream's fresh instrument hints
  diagnostic,    \* the account level last observed
  levelAge,      \* its age
  generations,   \* the validated capability generations
  snapshots,     \* the REST rows remembered for each instrument
  latches,       \* instruments whose metadata safety latch is set
  phase,         \* of the engine
  job,           \* what the engine is awaiting
  reply,         \* OKX's answer to it
  waited,        \* how long the call is under way
  observation,   \* the recurring account observation
  contradicted,  \* history: instruments seen to contradict their evidence
  changes, faults

exchange == <<market, account>>
client   == <<diagnostic, levelAge, generations, snapshots, latches>>
vars     == <<exchange, hint, client, phase, job, reply, waited, observation,
              contradicted, changes, faults>>

----------------------------------------------------------------------------
Metadata == Terms \cup {"halted"}
Accounts == [level : Levels, eligible : BOOLEAN]

Priced  == {"limit", "amend"}                      \* carry a price
Plain   == {"market", "trigger", "resize"}         \* carry none
Orders  == Priced \cup Plain \cup {"cancel"}
Reads   == {"refresh", "ticker"}

\* The steps that await an answer of OKX; "reserve" awaits the rate limiter.
Calls == {"config", "public", "account", "accountByType", "ticker", "usd",
          "maximum", "available", "balances", "fee", "clock", "price", "timing"}

NoGeneration == [level |-> "none", meta |-> "none"]
NoRow == [on |-> FALSE, buy |-> 0, sell |-> 0, age |-> 0]
NoAnswer == [kind |-> "none", meta |-> "none", age |-> 0]

Idle == [op |-> "none", i |-> "none", step |-> "none", tries |-> 0, age |-> 0,
         meta |-> "none", side |-> "buy", px |-> 0, row |-> NoRow]

\* The recurring observation: when due it is asked for, OKX answers it with
\* the account of that moment or not at all, and the loop polls the answer.
Waiting == [at |-> "waiting", level |-> "none", eligible |-> FALSE]

Capped(age, limit) == IF age > limit THEN age ELSE age + 1

Init ==
  /\ market \in [Instruments -> Metadata]
  /\ account \in Accounts
  /\ hint = [i \in Instruments |-> "none"]
  /\ diagnostic = "none" /\ levelAge = 0
  /\ generations = [i \in Instruments |-> NoGeneration]
  /\ snapshots = [i \in Instruments |-> "none"]
  /\ latches = {}
  /\ phase = "preflight"
  /\ job = [Idle EXCEPT !.op = "config", !.step = "config"]
  /\ reply = NoAnswer /\ waited = 0
  /\ observation = Waiting
  /\ contradicted = {}
  /\ changes = 0 /\ faults = 0

----------------------------------------------------------------------------
(* The world around the client.                                            *)

\* OKX changes the account or an instrument's metadata.
AccountChanges ==
  /\ changes < MaxChanges /\ changes' = changes + 1
  /\ account' \in Accounts \ {account}
  /\ UNCHANGED <<market, hint, client, phase, job, reply, waited, observation, contradicted, faults>>

MetadataChanges(i) ==
  /\ changes < MaxChanges /\ changes' = changes + 1
  /\ \E m \in Metadata \ {market[i]} : market' = [market EXCEPT ![i] = m]
  /\ UNCHANGED <<account, hint, client, phase, job, reply, waited, observation, contradicted, faults>>

\* The public stream, which starts after the preflight, caches an instrument
\* update; a hint not renewed in time is no longer fresh.
HintArrives(i) ==
  /\ phase # "preflight" /\ hint[i] # market[i]
  /\ hint' = [hint EXCEPT ![i] = market[i]]
  /\ UNCHANGED <<exchange, client, phase, job, reply, waited, observation, contradicted, changes, faults>>

HintExpires(i) ==
  /\ hint[i] # "none"
  /\ hint' = [hint EXCEPT ![i] = "none"]
  /\ UNCHANGED <<exchange, client, phase, job, reply, waited, observation, contradicted, changes, faults>>

\* Time.  A call is answered or given up within MaxRtt; only the last two
\* calls of a priced order have their wait counted, and an age is kept while
\* something is still judged by it.
Timed(j) == j.op \in Priced /\ j.step \in {"price", "timing"}

Tick ==
  /\ Timed(job) => waited < MaxRtt
  /\ waited' = IF Timed(job) THEN waited + 1 ELSE 0
  /\ levelAge' = IF phase = "preflight" THEN Capped(levelAge, MaxAge) ELSE levelAge
  /\ job' = [job EXCEPT !.age = IF job.op = "validate" THEN Capped(@, MaxAge) ELSE @,
                        !.row.age = IF Timed(job) THEN Capped(@, MaxStale + MaxRtt) ELSE @]
  /\ UNCHANGED <<exchange, hint, diagnostic, generations, snapshots, latches, phase, reply,
                 observation, contradicted, changes, faults>>

\* What OKX may answer to a call.  Rows of market data carry the moment they
\* were generated: a cached one may be old, a skewed one in the future.
Ages == {-1, 0, MaxStale, MaxStale + 1}
Answers(step, i) ==
  CASE step \in {"public", "account", "accountByType"} ->
         {[kind |-> "row", meta |-> market[i], age |-> 0]}
    [] step \in {"ticker", "usd", "price"} ->
         [kind : {"row"}, meta : {"none"}, age : Ages]
    [] OTHER -> {[NoAnswer EXCEPT !.kind = "row"]}

Refusals(step) ==
  {"failed"} \cup (IF step = "account" THEN {"absent"} ELSE {})
             \cup (IF step = "balances" THEN {"contradictory"} ELSE {})
             \cup (IF step = "fee" THEN {"high"} ELSE {})
             \cup (IF step = "public" THEN {"malformed"} ELSE {})

Serve ==
  /\ job.step \in Calls \ {"config"} /\ reply.kind = "none"
  /\ \/ reply' \in Answers(job.step, job.i) /\ UNCHANGED faults
     \/ /\ faults < MaxFaults /\ faults' = faults + 1
        /\ \E k \in Refusals(job.step) : reply' = [NoAnswer EXCEPT !.kind = k]
  /\ UNCHANGED <<exchange, hint, client, phase, job, waited, observation, contradicted, changes>>

----------------------------------------------------------------------------
(* Shared steps of the client.                                             *)

Await(j) == job' = j /\ reply' = NoAnswer /\ waited' = 0
Goto(step) == Await([job EXCEPT !.step = step])
Done == Await(Idle)

Revoked == [i \in Instruments |-> NoGeneration]

\* A job of the preflight that fails revokes every generation and ends the
\* startup; one of a strategy fails its tick and nothing more.
Fails ==
  /\ Done
  /\ IF phase = "preflight"
     THEN phase' = "fatal" /\ generations' = Revoked
     ELSE UNCHANGED <<phase, generations>>

\* A fresh hint that is not live or disagrees with the remembered REST row.
Contradicts(i, snapshot) ==
  hint[i] # "none" /\ (hint[i] = "halted" \/ (snapshot # "none" /\ hint[i] # snapshot))

\* Bug: the contradiction is not remembered.
LatchedNever(i) == UNCHANGED latches
Latched(i) == latches' = latches \cup {i}

Seen(i) == contradicted' = contradicted \cup {i}

\* The hint check of every creation and amendment: Ok continues the job, a
\* set latch refuses it, a contradiction sets the latch and refuses it.
HintCheck(i, Ok) ==
  \/ i \in latches /\ Done /\ UNCHANGED <<latches, contradicted>>
  \/ i \notin latches /\ Contradicts(i, snapshots[i]) /\ Latched(i) /\ Seen(i) /\ Done
  \/ i \notin latches /\ ~Contradicts(i, snapshots[i]) /\ Ok /\ UNCHANGED <<latches, contradicted>>

\* Bug: the age of a row is not looked at.
StaleNever(row) == FALSE

\* An old row is asked for again at most MaxAttempts times; one from the
\* future is an error at once.
Stale(row) == row.age > MaxStale
FreshRow(row) == row.kind = "row" /\ row.age >= 0 /\ ~Stale(row)
AskAgain == job.tries + 1 < MaxAttempts /\ reply.kind = "row" /\ Stale(reply)
Retry == Await([job EXCEPT !.tries = @ + 1])
GiveUp == ~FreshRow(reply) /\ ~AskAgain

----------------------------------------------------------------------------
(* The account configuration.                                              *)

\* observe_account_level_diagnostic: the level is stored; a change revokes
\* every generation and is an error.
LevelChanged(level) == diagnostic \notin {"none", level}
Observe(level) ==
  /\ diagnostic' = level /\ levelAge' = 0
  /\ generations' = IF LevelChanged(level) THEN Revoked ELSE generations

\* preflight_strategy_enabled_account, up to the first instrument.
PreflightReadsAccount ==
  /\ job.op = "config"
  /\ \/ /\ Observe(account.level)
        /\ phase' = IF account.eligible THEN "preflight" ELSE "fatal"
        /\ UNCHANGED faults
     \/ /\ faults < MaxFaults /\ faults' = faults + 1 /\ phase' = "fatal"
        /\ UNCHANGED <<diagnostic, levelAge, generations>>
  /\ Done
  /\ UNCHANGED <<exchange, hint, snapshots, latches, observation, contradicted, changes>>

\* The recurring observation is polled only between two jobs.
Between == phase = "running" /\ job.op = "none"

Due ==
  /\ observation.at = "waiting" /\ phase = "running"
  /\ observation' = [observation EXCEPT !.at = "due"]
  /\ UNCHANGED <<exchange, hint, client, phase, job, reply, waited, contradicted, changes, faults>>

StartObservation ==
  /\ Between /\ observation.at = "due"
  /\ observation' = [observation EXCEPT !.at = "asked"]
  /\ UNCHANGED <<exchange, hint, client, phase, job, reply, waited, contradicted, changes, faults>>

ObservationAnswered ==
  /\ observation.at = "asked" /\ phase = "running"
  /\ \/ /\ observation' = [at |-> "answered", level |-> account.level, eligible |-> account.eligible]
        /\ UNCHANGED faults
     \/ /\ faults < MaxFaults /\ faults' = faults + 1
        /\ observation' = [Waiting EXCEPT !.at = "answered"]
  /\ UNCHANGED <<exchange, hint, client, phase, job, reply, waited, contradicted, changes>>

\* Bug: an observation that was not answered is not fatal.
IsFatalIfAnswered(o) == o.level # "none" /\ (LevelChanged(o.level) \/ ~o.eligible)

\* A changed level, a failed or late call, an account that may not trade SPOT
\* any more: each is fatal, and the first two revoke every generation.
IsFatal(o) == o.level = "none" \/ LevelChanged(o.level) \/ ~o.eligible

Rearmed == Waiting

ObservationCompletes ==
  /\ Between /\ observation.at = "answered"
  /\ observation' = Rearmed
  /\ LET o == observation IN
       /\ IF o.level = "none"
          THEN generations' = Revoked /\ UNCHANGED <<diagnostic, levelAge>>
          ELSE Observe(o.level)
       /\ phase' = IF IsFatal(o) THEN "fatal" ELSE phase
  /\ UNCHANGED <<exchange, hint, snapshots, latches, job, reply, waited, contradicted, changes, faults>>

----------------------------------------------------------------------------
(* validate_trading_instrument: the evidence of one generation.            *)

Validate(i) ==
  /\ phase = "preflight" /\ job.op = "none" /\ generations[i] = NoGeneration
  /\ Await([Idle EXCEPT !.op = "validate", !.i = i, !.step = "public"])
  /\ UNCHANGED <<exchange, hint, client, phase, observation, contradicted, changes, faults>>

Preflighted ==
  /\ phase = "preflight" /\ job.op = "none"
  /\ \A i \in Instruments : generations[i] # NoGeneration
  /\ phase' = "running" /\ levelAge' = 0
  /\ UNCHANGED <<exchange, hint, diagnostic, generations, snapshots, latches, job, reply, waited, observation, contradicted, changes, faults>>

\* instrument_for_type: the row must be live and match the fresh hint and the
\* validated context.  Without a context a bad row is only an error; with one
\* it sets the latch.
RowAgrees(i, row) ==
  /\ row.kind = "row" /\ row.meta # "halted"
  /\ ~Contradicts(i, row.meta)
  /\ generations[i] # NoGeneration => row.meta = generations[i].meta
RowLatches(i, row) == row.kind # "failed" /\ generations[i] # NoGeneration

PublicRow ==
  /\ job.step = "public" /\ reply.kind # "none"
  /\ LET i == job.i IN
       \/ /\ RowAgrees(i, reply)
          /\ snapshots' = [snapshots EXCEPT ![i] = reply.meta]
          /\ IF job.op = "validate"
             THEN Await([job EXCEPT !.step = "account", !.meta = reply.meta])
             ELSE Done
          /\ UNCHANGED <<latches, contradicted, phase, generations>>
       \/ /\ ~RowAgrees(i, reply)
          /\ IF RowLatches(i, reply)
             THEN Latched(i) /\ Seen(i) ELSE UNCHANGED <<latches, contradicted>>
          /\ Fails /\ UNCHANGED snapshots
  /\ UNCHANGED <<exchange, hint, diagnostic, levelAge, observation, changes, faults>>

\* requested_account_instrument: the exact query, then the whole type.
AccountRow ==
  /\ job.step \in {"account", "accountByType"} /\ reply.kind # "none"
  /\ \/ reply.kind = "row" /\ reply.meta = job.meta /\ Goto("ticker") /\ UNCHANGED <<phase, generations>>
     \/ reply.kind = "absent" /\ Goto("accountByType") /\ UNCHANGED <<phase, generations>>
     \/ (reply.kind = "failed" \/ (reply.kind = "row" /\ reply.meta # job.meta)) /\ Fails
  /\ UNCHANGED <<exchange, hint, diagnostic, levelAge, snapshots, latches, observation,
                 contradicted, changes, faults>>

AfterTicker == IF job.meta \in UsdTerms THEN "usd" ELSE "maximum"

\* startup_ticker, or a strategy's ticker, which is not asked for again.
TickerRow ==
  /\ job.step = "ticker" /\ reply.kind # "none"
  /\ \/ /\ FreshRow(reply) /\ UNCHANGED <<phase, generations>>
        /\ IF job.op = "validate" THEN Await([job EXCEPT !.step = AfterTicker, !.tries = 0]) ELSE Done
     \/ job.op = "validate" /\ AskAgain /\ Retry /\ UNCHANGED <<phase, generations>>
     \/ (GiveUp \/ (job.op = "ticker" /\ ~FreshRow(reply))) /\ Fails
  /\ UNCHANGED <<exchange, hint, diagnostic, levelAge, snapshots, latches, observation,
                 contradicted, changes, faults>>

\* quote_usd_rate_for_quote, at startup and before a priced order.
UsdRow ==
  /\ job.step = "usd" /\ reply.kind # "none"
  /\ \/ /\ FreshRow(reply) /\ UNCHANGED <<phase, generations>>
        /\ Goto(IF job.op = "validate" THEN "maximum" ELSE "reserve")
     \/ AskAgain /\ Retry /\ UNCHANGED <<phase, generations>>
     \/ GiveUp /\ Fails
  /\ UNCHANGED <<exchange, hint, diagnostic, levelAge, snapshots, latches, observation,
                 contradicted, changes, faults>>

\* maximum_order_size, maximum_available_size, balances.
SizingRow ==
  /\ job.step \in {"maximum", "available"} /\ reply.kind # "none"
  /\ \/ /\ reply.kind = "row" /\ UNCHANGED <<phase, generations>>
        /\ Goto(IF job.step = "maximum" THEN "available" ELSE "balances")
     \/ reply.kind # "row" /\ Fails
  /\ UNCHANGED <<exchange, hint, diagnostic, levelAge, snapshots, latches, observation,
                 contradicted, changes, faults>>

\* from_exchange_evidence: everything read so far is young enough and agrees.
Evidence ==
  /\ job.step = "balances" /\ reply.kind # "none"
  /\ \/ reply.kind = "row" /\ job.age <= MaxAge /\ Goto("fee") /\ UNCHANGED <<phase, generations>>
     \/ (reply.kind # "row" \/ job.age > MaxAge) /\ Fails
  /\ UNCHANGED <<exchange, hint, diagnostic, levelAge, snapshots, latches, observation,
                 contradicted, changes, faults>>

\* ValidatedCapabilityGeneration::cash_spot
LevelIsFresh == levelAge <= MaxAge

\* The generation is remembered; a fee above the strategy's cap still ends
\* the startup.
Remember ==
  /\ job.step = "fee" /\ reply.kind # "none"
  /\ \/ /\ reply.kind \in {"row", "high"} /\ LevelIsFresh
        /\ generations' = [generations EXCEPT ![job.i] =
                             [level |-> diagnostic, meta |-> job.meta]]
        /\ phase' = IF reply.kind = "high" THEN "fatal" ELSE phase
        /\ Done
     \/ (reply.kind = "failed" \/ ~LevelIsFresh) /\ Fails
  /\ UNCHANGED <<exchange, hint, diagnostic, levelAge, snapshots, latches, observation,
                 contradicted, changes, faults>>

----------------------------------------------------------------------------
(* What strategies ask of the client while the engine runs.                *)

\* The loop polls the observation before every source of a strategy's work.
MayBegin(op) ==
  /\ job.op = "none"
  /\ \/ phase = "running" /\ observation.at \notin {"due", "answered"}
     \/ phase = "shutdown" /\ op = "cancel"

Routed(i) == generations[i] # NoGeneration

\* A priced order: the USD conversion where the terms need it, the rate
\* limiter, and only then the hint check and the price limit.
BeginPriced(op, i) ==
  /\ MayBegin(op) /\ Routed(i)
  /\ \E side \in {"buy", "sell"}, px \in Prices :
       Await([Idle EXCEPT !.op = op, !.i = i, !.side = side, !.px = px,
              !.step = IF generations[i].meta \in UsdTerms THEN "usd" ELSE "reserve"])
  /\ UNCHANGED <<exchange, hint, client, phase, observation, contradicted, changes, faults>>

\* An order without a price is checked first and then waits.
BeginPlain(op, i) ==
  /\ MayBegin(op) /\ Routed(i)
  /\ HintCheck(i, Await([Idle EXCEPT !.op = op, !.i = i, !.step = "reserve"]))
  /\ UNCHANGED <<exchange, hint, diagnostic, levelAge, generations, snapshots, phase, observation,
                 changes, faults>>

\* A cancel needs the route alone.
BeginCancel(i) ==
  /\ MayBegin("cancel") /\ Routed(i)
  /\ Await([Idle EXCEPT !.op = "cancel", !.i = i, !.step = "reserve"])
  /\ UNCHANGED <<exchange, hint, client, phase, observation, contradicted, changes, faults>>

BeginRefresh(i) ==
  /\ MayBegin("refresh") /\ Routed(i) /\ i \notin latches
  /\ Await([Idle EXCEPT !.op = "refresh", !.i = i, !.step = "public"])
  /\ UNCHANGED <<exchange, hint, client, phase, observation, contradicted, changes, faults>>

BeginTicker(i) ==
  /\ MayBegin("ticker")
  /\ HintCheck(i, Await([Idle EXCEPT !.op = "ticker", !.i = i, !.step = "ticker"]))
  /\ UNCHANGED <<exchange, hint, diagnostic, levelAge, generations, snapshots, phase, observation,
                 changes, faults>>

\* The rate limiter lets the request through.
Reserved ==
  /\ job.step = "reserve"
  /\ IF job.op \in Priced
     THEN HintCheck(job.i, Goto("clock"))
     ELSE Goto("timing") /\ UNCHANGED <<latches, contradicted>>
  /\ UNCHANGED <<exchange, hint, diagnostic, levelAge, generations, snapshots, phase, observation,
                 changes, faults>>
\* refresh_server_time_if_expiring
ClockReady ==
  /\ job.step = "clock" /\ reply.kind # "none"
  /\ IF reply.kind = "row" THEN Goto("price") ELSE Done
  /\ UNCHANGED <<exchange, hint, client, phase, observation, contradicted, changes, faults>>

\* fresh_spot_price_limit and ensure_price
Within(band, side, px) ==
  band.on => IF side = "buy" THEN px <= band.buy ELSE px >= band.sell

PriceChecked ==
  /\ job.step = "price" /\ reply.kind # "none"
  /\ \E b \in Bands :
       IF FreshRow(reply) /\ Within(b, job.side, job.px)
       THEN Await([job EXCEPT !.step = "timing",
                   !.row = [on |-> b.on, buy |-> b.buy, sell |-> b.sell, age |-> reply.age]])
       ELSE Done
  /\ UNCHANGED <<exchange, hint, client, phase, observation, contradicted, changes, faults>>

\* private_request_timing, and the command goes out.
Sending == job.step = "timing" /\ reply.kind = "row"

Send ==
  /\ job.step = "timing" /\ reply.kind # "none"
  /\ Done
  /\ UNCHANGED <<exchange, hint, client, phase, observation, contradicted, changes, faults>>

\* Ctrl-C ends the loop: the observation is not polled any more and the
\* strategies' shutdown only cancels.
OperatorShutdown ==
  /\ Between /\ phase' = "shutdown"
  /\ UNCHANGED <<exchange, hint, client, job, reply, waited, observation, contradicted, changes, faults>>

Stop ==
  /\ phase = "shutdown" /\ job.op = "none" /\ phase' = "stopped"
  /\ UNCHANGED <<exchange, hint, client, job, reply, waited, observation, contradicted, changes, faults>>

----------------------------------------------------------------------------
Answered == \/ PublicRow \/ AccountRow \/ TickerRow \/ UsdRow \/ SizingRow \/ Evidence
            \/ Remember \/ ClockReady \/ PriceChecked \/ Send
Startup == PreflightReadsAccount \/ Preflighted \/ \E i \in Instruments : Validate(i)
Observer == Due \/ StartObservation \/ ObservationAnswered \/ ObservationCompletes
Begin(i) == \/ \E op \in Priced : BeginPriced(op, i)
            \/ \E op \in Plain : BeginPlain(op, i)
            \/ BeginCancel(i) \/ BeginRefresh(i) \/ BeginTicker(i)

\* What happens after the process has ended is of no interest.
World == /\ phase \notin {"fatal", "stopped"}
         /\ \/ AccountChanges \/ Tick
            \/ \E i \in Instruments : MetadataChanges(i) \/ HintArrives(i) \/ HintExpires(i)

Next == \/ World \/ Serve \/ Startup \/ Answered \/ Reserved \/ Observer
        \/ OperatorShutdown \/ Stop \/ \E i \in Instruments : Begin(i)

Spec == Init /\ [][Next]_vars

\* OKX answers or the call times out, the rate limiter lets everyone through
\* in the end, and the engine's task is always polled again.
FairSpec == /\ Spec
            /\ WF_vars(Serve) /\ WF_vars(Answered) /\ WF_vars(Reserved)
            /\ WF_vars(Startup) /\ WF_vars(Observer) /\ WF_vars(Stop)

----------------------------------------------------------------------------
(* Properties.                                                             *)

\* Type invariant.
TypeOK ==
  /\ market \in [Instruments -> Metadata] /\ account \in Accounts
  /\ hint \in [Instruments -> Metadata \cup {"none"}]
  /\ diagnostic \in Levels \cup {"none"} /\ levelAge \in 0..(MaxAge + 1)
  /\ generations \in [Instruments -> [level : Levels \cup {"none"}, meta : Terms \cup {"none"}]]
  /\ snapshots \in [Instruments -> Terms \cup {"none"}]
  /\ latches \subseteq Instruments /\ contradicted \subseteq Instruments
  /\ phase \in {"preflight", "running", "shutdown", "stopped", "fatal"}
  /\ observation \in [at : {"waiting", "due", "asked", "answered"}, level : Levels \cup {"none"},
                      eligible : BOOLEAN]
  /\ job.step \in Calls \cup {"none", "reserve"}
  /\ job.tries \in 0..(MaxAttempts - 1)
  /\ waited \in 0..MaxRtt
  /\ changes \in 0..MaxChanges /\ faults \in 0..MaxFaults

\* A cancel is never refused for want of a route: as long as the engine runs
\* or shuts down, every enabled instrument has a generation, and all of them
\* were validated under the account level the client holds.  Losing a single
\* one (revocation, a failed observation) ends the engine at the same time.
CancelPossible ==
  phase \in {"running", "shutdown"} =>
    \A i \in Instruments : generations[i] # NoGeneration /\ generations[i].level = diagnostic

\* No generation mixes account levels, whatever moment OKX changes the level
\* at and whichever read of the configuration notices it.
OneLevel ==
  \A i \in Instruments : generations[i] # NoGeneration => generations[i].level = diagnostic

\* The rows remembered for an instrument never drift from the generation the
\* orders are made under: a refresh with other terms latches instead.
SnapshotsAgree ==
  phase \in {"running", "shutdown"} =>
    \A i \in Instruments : snapshots[i] = generations[i].meta

\* Once a hint or a refreshed row has contradicted an instrument's evidence,
\* no order of it is created or amended any more, even after the hint expires
\* or OKX goes back to the old terms; cancels still go out.
ContradictionIsFinal == Sending /\ job.op # "cancel" => job.i \notin contradicted

\* The price of an order that goes out lies within a limit OKX published at
\* most MaxStale plus one call ago, however long the rate limiter held the
\* order back: the reservation comes before the price check.
PriceIsCurrent ==
  Sending /\ job.op \in Priced =>
    Within(job.row, job.side, job.px) /\ job.row.age <= MaxStale + MaxRtt

\* A changed account level stops the engine, or OKX takes it back.
ChangeIsNoticed ==
  (phase = "running" /\ account.level # diagnostic) ~> (phase # "running" \/ account.level = diagnostic)

\* The preflight ends, with a running engine or a fatal exit.
PreflightEnds == <>(phase # "preflight")
=============================================================================
