---------------------------- MODULE DemoPrograms ----------------------------
(***************************************************************************)
(* The programs that exercise the order path against OKX's demo service:   *)
(* each arms Cancel-All-After, trades a minimum amount next to whatever    *)
(* the operator holds, cleans up, and disarms only after REST has shown    *)
(* that nothing of its own is left.  OKX may lose any answer, and may      *)
(* carry out a placement after its caller was told it failed, until the    *)
(* expiry that the request carries.                                        *)
(*                                                                         *)
(* Quantities are in fractions of a lot.  base is the account's base       *)
(* currency above what the operator held at the start.                     *)
(***************************************************************************)
EXTENDS Integers, FiniteSets, FiniteSetsExt

CONSTANTS
  Programs,          \* the programs run
  Lot, MinSize, Fee, \* of the instrument; Fee is taken from what a buy receives
  TerminalAttempts,  \* RECONCILE_ATTEMPTS of demo_order_smoke (12)
  CleanupAttempts,   \* RECONCILE_ATTEMPTS of demo_oco_smoke (20)
  Lifetime,          \* the expiry window of a placement, in sleeps between attempts
  MaxDeposits        \* bound: how often the operator deposits a lot

PostOnly == {"rest", "ws", "wsAmend", "caa", "cross", "expired"}
Taking == {"fill", "probe", "oco"}

\* Twenty attempts a quarter of a second apart outlast the two seconds a
\* placement is good for.
ASSUME DemoAssumption ==
  /\ Programs \subseteq PostOnly \cup Taking
  /\ {Lot, MinSize, Fee, TerminalAttempts, CleanupAttempts, Lifetime, MaxDeposits} \subseteq Nat
  /\ Lot > 0 /\ MinSize >= Lot /\ Fee < Lot
  /\ TerminalAttempts > 0 /\ Lifetime > 0 /\ CleanupAttempts > Lifetime

VARIABLES
  program,
  run,       \* the program's own state, see Start
  order,     \* OKX's record of each order of the program
  leg,       \* the side of the OCO order that executed
  base,      \* see above
  caa,       \* OKX's Cancel-All-After timer: "off", "armed", "fired"
  deposits

okx == <<order, leg, base, caa, deposits>>
demoVars == <<program, run, okx>>

Ids == {"entry", "exit", "oco", "final"}
OrderStates == {"none", "transit", "live", "done"}
Scenarios == {"C", "T", "L", "R"}

NoOrder == [state |-> "none", size |-> 0, filled |-> 0, life |-> 0, repriced |-> FALSE]

----------------------------------------------------------------------------
(* Sizes.                                                                  *)

DownToLot(n) == n - (n % Lot)
UpToLot(n) == DownToLot(n + Lot - 1)
Parts(n) == {k \in 0..n : k % Lot = 0}
Net(n) == IF n = 0 THEN 0 ELSE n - Fee      \* what a buy of n receives

SmokeSize == UpToLot(MinSize)
FillSize == UpToLot(MinSize + Fee)
AcquisitionSize == UpToLot(MinSize + Lot + Fee)

EntrySize ==
  CASE program \in PostOnly -> SmokeSize
    [] program = "fill"     -> FillSize
    [] OTHER                -> AcquisitionSize

\* Base currency that a resting OCO order holds.
Frozen == IF order["oco"].state = "live" THEN order["oco"].size ELSE 0
Bought == Net(order["entry"].filled)

At(place) == run.pc = place

----------------------------------------------------------------------------
(* OKX.                                                                    *)

Gain(o, r) == IF o = "entry" THEN Net(r.filled) - Net(order[o].filled)
                             ELSE order[o].filled - r.filled

\* Order o becomes r, and the balance follows its fills.
Becomes(o, r) ==
  /\ order' = [order EXCEPT ![o] = r]
  /\ base' = base + Gain(o, r)

\* What placing n can do at once.  A post-only order that would take is
\* canceled; a market order does not rest; a limit order may take a part.
Accepted(o, n) ==
  LET done(k) == [NoOrder EXCEPT !.state = "done", !.size = n, !.filled = k]
      live(k) == [NoOrder EXCEPT !.state = "live", !.size = n, !.filled = k]
  IN CASE o = "oco"                                     -> {live(0)}
       [] o \in {"exit", "final"}                       -> {live(0)} \cup {done(k) : k \in Parts(n)}
       [] o = "entry" /\ program = "cross"              -> {done(0), live(0)}
       [] o = "entry" /\ program \in PostOnly \ {"cross"} -> {live(0)}
       [] OTHER -> {done(n)} \cup {live(k) : k \in Parts(n) \ {n}}

\* A placement and the answer its caller gets.  A request sent after its
\* own expiry is not carried out later.
Placed(o, n, ok) ==
  \/ \E r \in Accepted(o, n) : Becomes(o, r)
  \/ ~ok /\ UNCHANGED <<order, base>>
  \/ /\ ~ok /\ program # "expired"
     /\ Becomes(o, [NoOrder EXCEPT !.state = "transit", !.size = n, !.life = Lifetime])

Gone(r) == [r EXCEPT !.state = "done"]
OpenOrders == {o \in Ids \ {"oco"} : order[o].state = "live"}

\* What a cancel does by the time it is answered: an acknowledged one may
\* still have to be carried out.
Canceled(o) ==
  \/ order[o].state = "live" /\ Becomes(o, Gone(order[o]))
  \/ UNCHANGED <<order, base>>

Arrives(o) ==
  /\ order[o].state = "transit"
  /\ \E r \in Accepted(o, order[o].size) : Becomes(o, r)
  /\ UNCHANGED <<program, run, leg, caa, deposits>>

\* A regular order trades.  What is left of a market order is canceled.
Trades(o) ==
  /\ o # "oco" /\ order[o].state = "live"
  /\ \E k \in Parts(order[o].size) :
        /\ k > order[o].filled
        /\ Becomes(o, [order[o] EXCEPT !.filled = k,
              !.state = IF o # "entry" \/ k = order[o].size THEN "done" ELSE "live"])
  /\ UNCHANGED <<program, run, leg, caa, deposits>>

\* The OCO order's take-profit or stop-loss side executes.
Triggers ==
  /\ order["oco"].state = "live"
  /\ Becomes("oco", [order["oco"] EXCEPT !.state = "done", !.filled = order["oco"].size])
  /\ leg' \in {"tp", "sl"}
  /\ UNCHANGED <<program, run, caa, deposits>>

\* The timer runs out: OKX cancels the regular orders.  Its ten seconds are
\* enough for the placement that follows the arming to be sent and to
\* arrive; they are not enough for the scenarios of the OCO program.
Fires ==
  /\ caa = "armed" /\ (At("place") => program = "oco") /\ order["entry"].state # "transit"
  /\ caa' = "fired"
  /\ order' = [o \in Ids |-> IF o \in OpenOrders THEN Gone(order[o]) ELSE order[o]]
  /\ UNCHANGED <<program, run, leg, base, deposits>>

\* A placement under way when its program ends reaches OKX too late.
Lapses(o) ==
  /\ run.result # "none" /\ order[o].state = "transit"
  /\ order' = [order EXCEPT ![o] = NoOrder]
  /\ UNCHANGED <<program, run, leg, base, caa, deposits>>

\* The operator's own business during the run.
Deposit ==
  /\ deposits < MaxDeposits /\ run.result = "none"
  /\ deposits' = deposits + 1 /\ base' = base + Lot
  /\ UNCHANGED <<program, run, order, leg, caa>>

----------------------------------------------------------------------------
(* Steps of a program.                                                     *)

To(place) == [run EXCEPT !.pc = place, !.tries = 0]
Failing(r) == [r EXCEPT !.failures = TRUE]
\* With a failure noted unless ok.
Noting(ok, r) == IF ok THEN r ELSE Failing(r)

Ended(res) == [run EXCEPT !.pc = "end", !.tries = 0, !.result = res]
Verdict == IF run.failures THEN "err" ELSE "ok"

Goes(r) == run' = r /\ UNCHANGED <<program, okx>>

\* An attempt was in vain: sleep, while placements under way grow old.
Aged(r) == IF r.state # "transit" THEN r
           ELSE IF r.life = 1 THEN NoOrder ELSE [r EXCEPT !.life = @ - 1]
Sleeps(attempts) ==
  /\ run.tries + 1 < attempts
  /\ run' = [run EXCEPT !.tries = @ + 1]
  /\ order' = [o \in Ids |-> Aged(order[o])]
  /\ UNCHANGED <<program, leg, base, caa, deposits>>
LastTry(attempts) == run.tries + 1 >= attempts

\* The scenario or the acquisition gives up and is cleaned up after; a
\* cleanup that gives up leaves the timer as it is.
GivesUp ==
  IF run.stage = "run" THEN Failing([To("cleanup") EXCEPT !.stage = "cleanup"])
                       ELSE Ended("err")

----------------------------------------------------------------------------
(* The post-only programs.                                                 *)

\* prepare_post_only_order: somebody's open order, a bad ticker, a notional
\* above the cap or too small a balance ends the program.
PrepareOrder ==
  /\ program \in PostOnly /\ At("prepare")
  /\ \/ Goes(Ended("err"))
     \/ Goes(To(CASE program = "rest"             -> "arm"
                  [] program \in {"ws", "expired"} -> "login"
                  [] OTHER                         -> "observe"))

ConnectObserver ==
  /\ At("observe")
  /\ \/ Goes(Ended("err"))
     \/ Goes(To(IF program = "wsAmend" THEN "login" ELSE "arm"))

ConnectSession == At("login") /\ (Goes(Ended("err")) \/ Goes(To("arm")))

\* The timer may be armed although the answer was lost.
Arm ==
  /\ At("arm")
  /\ \E ok \in BOOLEAN :
        /\ caa' = "armed" \/ (~ok /\ UNCHANGED caa)
        /\ run' = IF ok THEN To(IF program = "oco" THEN "clean" ELSE "place") ELSE Ended("err")
  /\ UNCHANGED <<program, order, leg, base, deposits>>

\* The first placement, and where the program goes after each answer.
PlaceEntry(after, ok) ==
  /\ At("place") /\ Placed("entry", EntrySize, ok) /\ run' = after
  /\ UNCHANGED <<program, leg, caa, deposits>>

PlaceRest ==
  program = "rest" /\ \E ok \in BOOLEAN : PlaceEntry(Noting(ok, To("cancel")), ok)

PlaceWebsocket ==
  /\ program \in {"ws", "wsAmend"}
  /\ \/ PlaceEntry(To(IF program = "ws" THEN "wsCancel" ELSE "watchPlaced"), TRUE)
     \/ PlaceEntry(Failing(To("fallback")), FALSE)

PlaceGuarded ==
  /\ program = "caa"
  /\ PlaceEntry(To("watchPlaced"), TRUE) \/ PlaceEntry(Failing(To("fallback")), FALSE)

PlaceCrossing ==
  /\ program = "cross"
  /\ PlaceEntry(To("watchCanceled"), TRUE) \/ PlaceEntry(Failing(To("fallback")), FALSE)

\* Sent after its expiry: to be refused for that reason, and for no other.
PlaceExpired ==
  /\ program = "expired"
  /\ \/ PlaceEntry(Failing(To("fallback")), TRUE)
     \/ PlaceEntry(Failing(To("absent")), FALSE)
     \/ At("place") /\ Goes(To("absent"))

\* The private stream shows the placed order as live.
WatchPlaced ==
  /\ At("watchPlaced")
  /\ \/ Goes(To(IF program = "caa" THEN "watchCanceled" ELSE "amend"))
     \/ Goes(Failing(To("fallback")))

AmendOrder ==
  /\ At("amend")
  /\ \E ok \in BOOLEAN :
        /\ \/ /\ order["entry"].state = "live"
              /\ Becomes("entry", [order["entry"] EXCEPT !.repriced = TRUE])
           \/ ~ok /\ UNCHANGED <<order, base>>
        /\ run' = IF ok THEN To("watchAmended") ELSE Failing(To("fallback"))
  /\ UNCHANGED <<program, leg, caa, deposits>>

\* The stream shows the new price; then REST is asked in either case.
WatchAmended ==
  /\ At("watchAmended")
  /\ \E seen \in BOOLEAN :
        /\ seen => order["entry"].repriced
        /\ Goes([Noting(seen, To("confirm")) EXCEPT !.flag = seen])

ConfirmAmend ==
  /\ At("confirm")
  /\ \E ok \in BOOLEAN :
        /\ ok => order["entry"].state = "live" /\ order["entry"].repriced /\ order["entry"].filled = 0
        /\ Goes(Noting(ok, To(IF run.flag THEN "wsCancel" ELSE "fallback")))

CancelEntry(place, next, otherwise) ==
  /\ At(place)
  /\ \E ok \in BOOLEAN :
        /\ Canceled("entry")
        /\ run' = IF ok THEN next ELSE otherwise
  /\ UNCHANGED <<program, leg, caa, deposits>>

CancelWebsocket ==
  CancelEntry("wsCancel", To(IF program = "ws" THEN "settle" ELSE "watchCanceled"),
              Failing(To("fallback")))

\* The stream shows the order as canceled, without a fill and, once amended,
\* at the new price.
WatchCanceled ==
  /\ At("watchCanceled")
  /\ \/ /\ order["entry"].state = "done" /\ order["entry"].filled = 0
        /\ program = "wsAmend" => order["entry"].repriced
        /\ Goes(To("settle"))
     \/ Goes(Failing(To(IF program = "wsAmend" THEN "settle" ELSE "fallback")))

CancelFallback == CancelEntry("fallback", To("settle"), Failing(To("settle")))

CancelRest ==
  program \in {"rest", "fill"} /\ CancelEntry("cancel", To("settle"), Failing(To("settle")))

\* wait_for_terminal_order: the lookup may fail at each attempt.
NotTerminal(o) == order[o].state # "done" /\ Sleeps(TerminalAttempts)

FinishLifecycle ==
  /\ program \in PostOnly /\ At("settle")
  /\ \/ NotTerminal("entry")
     \/ LET quiet == order["entry"].filled = 0
        IN order["entry"].state = "done" /\ Goes([Noting(quiet, To("survey")) EXCEPT !.flag = quiet])
     \/ Goes([Failing(To("survey")) EXCEPT !.flag = FALSE])

\* Mutant: no open order is proof enough.
SurveyOpenOrdersOnly ==
  /\ program \in PostOnly /\ At("survey")
  /\ \/ /\ OpenOrders = {}
        /\ Goes(To(IF program = "wsAmend" THEN "reconnect" ELSE "disarm"))
     \/ Goes(Ended("err"))

\* The open orders, after which the cleanup is verified or is not.
SurveyOpenOrders ==
  /\ program \in PostOnly /\ At("survey")
  /\ \/ /\ run.flag /\ OpenOrders = {}
        /\ Goes(To(IF program = "wsAmend" THEN "reconnect" ELSE "disarm"))
     \/ Goes(Ended("err"))

VerifyAbsent ==
  /\ At("absent")
  /\ \/ order["entry"].state \notin {"live", "done"} /\ Goes(To("disarm"))
     \/ Goes(Ended("err"))

ReconnectObserver == At("reconnect") /\ \E ok \in BOOLEAN : Goes(Noting(ok, To("disarm")))

\* Mutant: the answer to the disarming is not looked at.
DisarmUnheard ==
  /\ At("disarm")
  /\ caa' \in {"off", caa} /\ run' = Ended(Verdict)
  /\ UNCHANGED <<program, order, leg, base, deposits>>

DisarmTimer ==
  /\ At("disarm")
  /\ \E ok \in BOOLEAN :
        /\ caa' = "off" \/ (~ok /\ UNCHANGED caa)
        /\ run' = Ended(IF ok THEN Verdict ELSE "err")
  /\ UNCHANGED <<program, order, leg, base, deposits>>

----------------------------------------------------------------------------
(* The fill life cycle: buy the minimum, sell what was received.           *)

PrepareFill == program = "fill" /\ At("prepare") /\ (Goes(Ended("err")) \/ Goes(To("arm")))

BuyFill == program = "fill" /\ \E ok \in BOOLEAN : PlaceEntry(Noting(ok, To("cancel")), ok)

SettleFill ==
  /\ program = "fill" /\ At("settle")
  /\ \/ NotTerminal("entry")
     \/ order["entry"].state = "done" /\ Goes(To("acquired"))
     \/ Goes(Failing(To("acquired")))

WaitForAcquired ==
  /\ program = "fill" /\ At("acquired")
  /\ \/ base >= MinSize /\ Goes([To("quote") EXCEPT !.amount = DownToLot(base)])
     \/ base < MinSize /\ Sleeps(TerminalAttempts)
     \/ Goes(Failing(To("evidence")))

\* The ticker and the market-order limits; a failure here returns at once.
QuoteFill == program = "fill" /\ At("quote") /\ (Goes(Ended("err")) \/ Goes(To("sell")))

Sell(o, next, otherwise) ==
  /\ At("sell")
  /\ \E ok \in BOOLEAN : Placed(o, run.amount, ok) /\ run' = IF ok THEN next ELSE otherwise
  /\ UNCHANGED <<program, leg, caa, deposits>>

SellFill == program = "fill" /\ Sell("exit", To("settleSale"), Failing(To("settleSale")))

SettleFillSale ==
  /\ program = "fill" /\ At("settleSale")
  /\ \/ NotTerminal("exit")
     \/ order["exit"].state = "done" /\ Goes(To("evidence"))
     \/ Goes(Failing(To("evidence")))

FillEvidence ==
  /\ program = "fill" /\ At("evidence")
  /\ \/ order["entry"].filled > 0 /\ order["exit"].filled > 0 /\ Goes(To("verify"))
     \/ Goes(Failing(To("verify")))

\* verify_cleanup: the open orders, then the balance.
NoOpenOrders ==
  /\ program = "fill" /\ At("verify")
  /\ (OpenOrders = {} /\ Goes(To("residual"))) \/ Goes(Ended("err"))

VerifyResidual ==
  /\ program = "fill" /\ At("residual")
  /\ \/ base \in 0..(Lot - 1) /\ \E cost \in BOOLEAN : Goes(Noting(cost, To("disarm")))
     \/ base \notin 0..(Lot - 1) /\ Sleeps(TerminalAttempts)
     \/ Goes(Ended("err"))

----------------------------------------------------------------------------
(* Acquiring a disposable amount: the probe, and each OCO scenario.        *)

PrepareAcquisition ==
  program \in {"probe", "oco"} /\ At("prepare") /\ (Goes(Ended("err")) \/ Goes(To("arm")))

\* The remainder is canceled before the answer to the placement is looked at.
Acquire ==
  program \in {"probe", "oco"} /\ \E ok \in BOOLEAN : PlaceEntry([To("cancel") EXCEPT !.flag = ok], ok)

CancelAcquisition ==
  program \in {"probe", "oco"} /\ CancelEntry("cancel", IF run.flag THEN To("settle") ELSE GivesUp, GivesUp)

\* Its terminal state, its fills, and that the two agree.
SettleAcquisition ==
  /\ program \in {"probe", "oco"} /\ At("settle")
  /\ \/ NotTerminal("entry")
     \/ order["entry"].state = "done" /\ Bought > 0 /\ Goes(To("delta"))
     \/ Goes(GivesUp)

\* The balance above the scenario's own starting point, which must be what
\* was bought, up to less than a lot.
Above == base - run.floor

ProtectedSize ==
  LET n == DownToLot(Above) IN IF n >= MinSize /\ n <= Bought /\ Bought - n < Lot THEN {n} ELSE {}

WaitForDelta ==
  /\ At("delta")
  /\ \/ \E n \in ProtectedSize :
           Goes(IF program = "probe" THEN [To("cleanup") EXCEPT !.stage = "cleanup", !.flag = FALSE]
                                     ELSE [To("prices") EXCEPT !.amount = n])
     \/ Above < MinSize /\ Sleeps(CleanupAttempts)
     \/ Goes(GivesUp)

----------------------------------------------------------------------------
(* The probe's cleanup, of what the run itself bought and of nothing else. *)

\* The order is looked up until it is terminal, and canceled once.  One
\* never found is taken not to exist.
ReconcileAcquisition ==
  /\ program = "probe" /\ At("cleanup")
  /\ \/ order["entry"].state = "done" /\ Goes(To("weigh"))
     \/ /\ order["entry"].state = "live" /\ ~run.flag
        /\ \E ok \in BOOLEAN :
              /\ Canceled("entry")
              /\ run' = IF ok /\ ~LastTry(CleanupAttempts)
                        THEN [run EXCEPT !.flag = TRUE, !.tries = @ + 1] ELSE GivesUp
        /\ UNCHANGED <<program, leg, caa, deposits>>
     \/ order["entry"].state = "live" /\ run.flag /\ Sleeps(CleanupAttempts)
     \/ order["entry"].state \in {"none", "transit"} /\ Sleeps(CleanupAttempts)
     \/ /\ order["entry"].state \in {"none", "transit"} /\ LastTry(CleanupAttempts)
        /\ Goes(To("weigh"))
     \/ Goes(GivesUp)

SaleSize ==
  LET n == DownToLot(Min({Bought, base, base - Frozen})) IN IF n < MinSize THEN 0 ELSE n

WeighSale ==
  /\ program = "probe" /\ At("weigh")
  /\ \/ SaleSize = 0 /\ Goes(To("survey"))
     \/ SaleSize > 0 /\ Goes([To("sell") EXCEPT !.amount = SaleSize])
     \/ Goes(GivesUp)

SellAcquired == program = "probe" /\ Sell("exit", To("settleSale"), GivesUp)

SettleSale(o, next) ==
  /\ At("settleSale")
  /\ \/ NotTerminal(o)
     \/ order[o].state = "done" /\ order[o].filled > 0 /\ Goes(next)
     \/ Goes(GivesUp)

SettleAcquiredSale == program = "probe" /\ SettleSale("exit", To("survey"))

NothingOpen == OpenOrders = {} /\ order["oco"].state # "live"

SurveyAcquisition ==
  /\ program = "probe" /\ At("survey")
  /\ \/ Bought - order["exit"].filled \in 0..(Lot - 1) /\ NothingOpen /\ base >= 0 /\ Goes(To("disarm"))
     \/ Goes(GivesUp)

----------------------------------------------------------------------------
(* The OCO life cycle: four scenarios and a cleanup.                       *)

Following == [C |-> "T", T |-> "L", L |-> "R"]
ExpectedLeg == [T |-> "tp", L |-> "sl"]

\* A scenario starts from a clean account, with new order ids.
BeginScenario ==
  /\ At("clean")
  /\ \/ /\ NothingOpen /\ base >= 0
        /\ order' = [o \in Ids |-> NoOrder] /\ leg' = "none"
        /\ run' = [To("plan") EXCEPT !.floor = base]
        /\ UNCHANGED <<program, base, caa, deposits>>
     \/ Goes(GivesUp)

PlanAcquisition == At("plan") /\ (Goes(To("place")) \/ Goes(GivesUp))

OcoPrices == At("prices") /\ (Goes(To("placeOco")) \/ Goes(GivesUp))

PlaceOco ==
  /\ At("placeOco")
  /\ \E ok \in BOOLEAN :
        /\ Placed("oco", run.amount, ok)
        /\ run' = IF ok THEN To(IF run.scenario \in {"T", "L"} THEN "execute" ELSE "pending") ELSE GivesUp
  /\ UNCHANGED <<program, leg, caa, deposits>>

\* wait_for_oco, and that the operator's holdings are not encumbered.
WaitForPending ==
  /\ At("pending")
  /\ \/ /\ order["oco"].state = "live" /\ order["oco"].size = run.amount
        /\ Above >= run.amount /\ base - Frozen >= run.floor
        /\ Goes(To(IF run.scenario = "C" THEN "cancelOco" ELSE "amendOco"))
     \/ order["oco"].state # "live" /\ Sleeps(CleanupAttempts)
     \/ Goes(GivesUp)

WaitForExecution ==
  /\ At("execute")
  /\ \/ order["oco"].filled > 0 /\ leg = ExpectedLeg[run.scenario] /\ Goes(To("drained"))
     \/ (order["oco"].filled = 0 \/ leg # ExpectedLeg[run.scenario]) /\ Sleeps(CleanupAttempts)
     \/ Goes(GivesUp)

\* One lot less.
AmendOco ==
  /\ At("amendOco")
  /\ \/ /\ run.amount - Lot >= MinSize
        /\ \E ok \in BOOLEAN :
              /\ \/ /\ order["oco"].state = "live"
                    /\ Becomes("oco", [order["oco"] EXCEPT !.size = run.amount - Lot])
                 \/ ~ok /\ UNCHANGED <<order, base>>
              /\ run' = IF ok THEN [To("confirmOco") EXCEPT !.amount = @ - Lot] ELSE GivesUp
        /\ UNCHANGED <<program, leg, caa, deposits>>
     \/ Goes(GivesUp)

ConfirmOco ==
  /\ At("confirmOco")
  /\ \/ order["oco"].state = "live" /\ order["oco"].size = run.amount /\ Goes(To("cancelOco"))
     \/ order["oco"].state # "live" /\ Sleeps(CleanupAttempts)
     \/ Goes(GivesUp)

CancelOco ==
  /\ At("cancelOco")
  /\ \E ok \in BOOLEAN : Canceled("oco") /\ run' = IF ok THEN To("canceled") ELSE GivesUp
  /\ UNCHANGED <<program, leg, caa, deposits>>

WaitForCanceled ==
  /\ At("canceled")
  /\ \/ order["oco"].state = "done" /\ order["oco"].filled = 0 /\ Goes(To("liquidate"))
     \/ (order["oco"].state # "done" \/ order["oco"].filled > 0) /\ Sleeps(CleanupAttempts)
     \/ Goes(GivesUp)

Liquidate ==
  /\ At("liquidate")
  /\ \/ Above >= MinSize /\ Goes([To("sell") EXCEPT !.amount = DownToLot(Above)])
     \/ Above \in 0..(MinSize - 1) /\ Goes(To("drained"))
     \/ Goes(GivesUp)

SellDisposable ==
  program = "oco" /\ Sell(IF run.stage = "run" THEN "exit" ELSE "final", To("settleSale"), GivesUp)

SettleDisposable ==
  program = "oco" /\ SettleSale(IF run.stage = "run" THEN "exit" ELSE "final", To("drained"))

\* wait_for_delta_below_lot
WaitForDrained ==
  /\ At("drained")
  /\ \/ Above \in 0..(Lot - 1) /\ Goes(To(IF run.stage = "run" THEN "finish" ELSE "survey"))
     \/ Above >= Lot /\ Sleeps(CleanupAttempts)
     \/ Goes(GivesUp)

FinishScenario ==
  /\ At("finish")
  /\ \/ /\ NothingOpen
        /\ Goes(IF run.scenario = "R" THEN [To("cleanup") EXCEPT !.stage = "cleanup"]
                ELSE [To("clean") EXCEPT !.scenario = Following[@]])
     \/ Goes(GivesUp)

\* cleanup_test_owned_state, measured against the operator's own baseline.
CleanupOco ==
  /\ program = "oco" /\ At("cleanup")
  /\ \/ Goes([To(IF order["oco"].state = "live" THEN "cancelOco" ELSE "liquidate") EXCEPT !.floor = 0])
     \/ Goes(GivesUp)

SurveyOco ==
  /\ program = "oco" /\ At("survey")
  /\ \/ NothingOpen /\ base >= 0 /\ Goes(To("disarm"))
     \/ Goes(GivesUp)

----------------------------------------------------------------------------
Start == [pc |-> "prepare", tries |-> 0, failures |-> FALSE, flag |-> FALSE, stage |-> "run",
          scenario |-> "C", amount |-> 0, floor |-> 0, result |-> "none"]

DemoInit ==
  /\ program \in Programs
  /\ run = Start
  /\ order = [o \in Ids |-> NoOrder] /\ leg = "none"
  /\ base = 0 /\ caa = "off" /\ deposits = 0

Entry ==
  \/ PrepareOrder \/ ConnectObserver \/ ConnectSession \/ Arm \/ PlaceRest \/ PlaceWebsocket
  \/ PlaceGuarded \/ PlaceCrossing \/ PlaceExpired \/ WatchPlaced \/ AmendOrder \/ WatchAmended
  \/ ConfirmAmend \/ CancelWebsocket \/ WatchCanceled \/ CancelFallback \/ CancelRest
  \/ FinishLifecycle \/ SurveyOpenOrders \/ VerifyAbsent \/ ReconnectObserver \/ DisarmTimer

RoundTrip ==
  \/ PrepareFill \/ BuyFill \/ SettleFill \/ WaitForAcquired \/ QuoteFill \/ SellFill
  \/ SettleFillSale \/ FillEvidence \/ NoOpenOrders \/ VerifyResidual

Acquisition ==
  \/ PrepareAcquisition \/ Acquire \/ CancelAcquisition \/ SettleAcquisition \/ WaitForDelta
  \/ ReconcileAcquisition \/ WeighSale \/ SellAcquired \/ SettleAcquiredSale \/ SurveyAcquisition

Oco ==
  \/ BeginScenario \/ PlanAcquisition \/ OcoPrices \/ PlaceOco \/ WaitForPending
  \/ WaitForExecution \/ AmendOco \/ ConfirmOco \/ CancelOco \/ WaitForCanceled \/ Liquidate
  \/ SellDisposable \/ SettleDisposable \/ WaitForDrained \/ FinishScenario \/ CleanupOco \/ SurveyOco

Steps == Entry \/ RoundTrip \/ Acquisition \/ Oco

World == Triggers \/ Fires \/ Deposit \/ \E o \in Ids : Arrives(o) \/ Trades(o) \/ Lapses(o)

DemoNext == Steps \/ World

DemoSpec == DemoInit /\ [][DemoNext]_demoVars

\* The programs await nothing for ever; OKX's timer runs out, and so does a
\* placement's time.
FairDemoSpec ==
  /\ DemoSpec /\ WF_demoVars(Steps) /\ WF_demoVars(Fires)
  /\ \A o \in Ids : WF_demoVars(Lapses(o))

----------------------------------------------------------------------------
(* Properties.                                                             *)

(* Type invariant; no attempt is made beyond the last one. *)
DemoTypeOK ==
  /\ program \in Programs
  /\ run.tries >= 0 /\ (run.tries < TerminalAttempts \/ run.tries < CleanupAttempts)
  /\ {run.failures, run.flag} \subseteq BOOLEAN
  /\ run.stage \in {"run", "cleanup"} /\ run.scenario \in Scenarios
  /\ run.amount \in Nat /\ run.floor \in Nat /\ run.result \in {"none", "ok", "err"}
  /\ \A o \in Ids : /\ order[o].state \in OrderStates /\ order[o].filled \in 0..order[o].size
                    /\ order[o].life \in 0..Lifetime /\ order[o].repriced \in BOOLEAN
  /\ leg \in {"none", "tp", "sl"} /\ base \in Int
  /\ caa \in {"off", "armed", "fired"} /\ deposits \in 0..MaxDeposits

Underway(o) == order[o].state \in {"transit", "live"}

(* While the order of a program rests at OKX or may still reach it, the    *)
(* Cancel-All-After timer is armed: no program disarms it on a wrong       *)
(* notion of its own order (finish_order_lifecycle, finalize_order_        *)
(* lifecycle, verify_rejected_order_absent, cleanup_acquisition_probe).    *)
RestingIsGuarded == program \notin {"fill", "oco"} /\ Underway("entry") => caa = "armed"

(* A program that reports success has left no order behind, has sold what  *)
(* it bought down to less than a lot, and has disarmed the timer.          *)
OkIsClean ==
  run.result = "ok" =>
    /\ \A o \in Ids : ~Underway(o)
    /\ base - deposits * Lot < Lot /\ base >= 0
    /\ caa = "off"
    /\ program = "wsAmend" => order["entry"].repriced
    /\ program \in {"fill", "probe"} => order["exit"].filled > 0

(* The probe never sells more than its own order bought, whatever the      *)
(* operator deposits meanwhile (acquisition_cleanup_sale_size).            *)
SellsOnlyItsOwn == program = "probe" => order["exit"].filled <= Bought

(* A program that buys and sells once never touches what the operator held *)
(* before it started (base_delta_from_baseline, total_delta_from_baseline).*)
BaselineKept == program # "oco" => base >= 0

(* Every program ends, however many answers are lost.                      *)
ProgramEnds == <>(run.result # "none")

(* In the end nothing rests: either the program has seen it gone, or the   *)
(* timer it left armed removes it.                                         *)
NothingRests == program \notin {"fill", "oco"} => <>[](~Underway("entry"))
=============================================================================
