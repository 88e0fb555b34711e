---------------------------- MODULE OrderCommands ----------------------------
(***************************************************************************)
(* The calls that change orders on OKX: OkxTradingClient                   *)
(* (okx/trading_client.rs), its WebSocket command session                  *)
(* (okx/websocket/trading_session.rs), the REST calls it falls back to and *)
(* the reconciliation of calls that failed (okx/client.rs).                *)
(*                                                                         *)
(* Calls are made one at a time; the caller may drop one that has not      *)
(* returned (a dispatch that times out), and the request it sent is then   *)
(* still under way.  Terms stand for side, type, size and price.           *)
(***************************************************************************)
EXTENDS Integers, Sequences, FiniteSets, SequencesExt

CONSTANTS
    OrderIds,       \* client ids of regular orders
    AlgoIds,        \* client ids of trigger orders
    OcoIds,         \* client ids of OCO orders
    Terms,          \* what an order asks for
    TrackerLimit,   \* OKX_WEBSOCKET_ACK_TRACKER_MAX_IDS
    MaxCalls,       \* bound: calls made
    MaxFaults       \* bound: failures (timeouts apart), and dropped calls

ASSUME IdsAssumption ==
    /\ OrderIds \cap AlgoIds = {} /\ OrderIds \cap OcoIds = {} /\ AlgoIds \cap OcoIds = {}
ASSUME OrderBounds == TrackerLimit \in Nat \ {0} /\ MaxCalls \in Nat /\ MaxFaults \in Nat

VARIABLES
    pc,         \* where the call is, see Places
    call,       \* the call at hand, or the last one
    calls,      \* calls so far; the number of the call is its nonce too
    attempted,  \* prepare_attempted
    available,  \* available
    session,    \* the number of the connection held, 0 for None
    connected,  \* connections so far
    inbox,      \* acknowledgements sent over the session and not read
    tracker,    \* ack_tracker: the request ids seen, eldest first
    wire,       \* requests under way to OKX
    reply,      \* the answer to the REST request at hand, or "none"
    orders,     \* OKX: its orders
    accepted,   \* OKX: the calls of which it accepted a request
    soiled,     \* history: connections on which a command failed
    result,     \* of the last call
    settled,    \* history: ids whose cancel succeeded, no placement under way
    faults

vars == <<pc, call, calls, attempted, available, session, connected, inbox, tracker, wire,
          reply, orders, accepted, soiled, result, settled, faults>>
sessionVars == <<attempted, available, session, connected, inbox, tracker, soiled>>
okxVars == <<wire, orders, accepted>>

Ids == OrderIds \cup AlgoIds \cup OcoIds
Ops == {"place", "market", "cancel", "amend", "trigger", "cancelAlgo", "oco", "amendOco",
        "cancelOco"}
Places == {"idle", "ensure", "prepare", "send", "ack", "rest", "answer", "check"}

Creates(op) == op \in {"place", "market", "trigger", "oco"}
Closes(op) == op \in {"cancel", "cancelAlgo", "cancelOco"}
Amends(op) == op \in {"amend", "amendOco"}

NoOrder == [state |-> "none", placed |-> "none", terms |-> "none", by |-> 0]
NoCall == [op |-> "none", id |-> "none", terms |-> "none"]
NoResult == [res |-> "none", via |-> "none"]

MayFail == faults < MaxFaults /\ faults' = faults + 1
Fine == UNCHANGED faults

-----------------------------------------------------------------------------
(* OKX.                                                                    *)

Request(via, id) ==
    [via |-> via, call |-> calls, op |-> call.op, id |-> id, terms |-> call.terms,
     session |-> IF via = "ws" THEN session ELSE 0]

(* The answers OKX may give.  A client id is never used twice. *)
Verdicts(r) ==
    LET state == orders[r.id].state
    IN CASE Creates(r.op) -> IF state = "none" THEN {"ok", "rejected"} ELSE {"duplicate"}
         [] Closes(r.op)  -> IF state = "live" THEN {"ok"} ELSE {"rejected", "aggregate"}
         [] OTHER         -> IF state = "live" THEN {"ok", "rejected"} ELSE {"rejected"}

Effect(r) ==
    CASE Creates(r.op) -> [state |-> "live", placed |-> r.terms, terms |-> r.terms, by |-> r.call]
      [] Closes(r.op)  -> [orders[r.id] EXCEPT !.state = "done"]
      [] OTHER         -> [orders[r.id] EXCEPT !.terms = r.terms]

(* A request is carried out, however late; whether the answer finds        *)
(* someone waiting is another matter.                                      *)
Execute(r) ==
    /\ wire' = wire \ {r}
    /\ \E v \in Verdicts(r) :
          /\ orders' = IF v = "ok" THEN [orders EXCEPT ![r.id] = Effect(r)] ELSE orders
          /\ accepted' = IF v = "ok" THEN accepted \cup {r.call} ELSE accepted
          /\ inbox' = IF r.via = "ws" /\ r.session = session
                      THEN Append(inbox, [id |-> r.call, ok |-> v = "ok"]) ELSE inbox
          /\ reply' = IF r.via = "rest" /\ r.call = calls /\ pc = "answer" THEN v ELSE reply
    /\ UNCHANGED <<pc, call, calls, attempted, available, session, connected, tracker, soiled,
                   result, settled>> /\ Fine

Lost(r) ==
    /\ MayFail /\ wire' = wire \ {r}
    /\ UNCHANGED <<pc, call, calls, sessionVars, reply, orders, accepted, result, settled>>

(* An acknowledgement comes twice. *)
Repeated ==
    /\ inbox # <<>> /\ MayFail
    /\ inbox' = Append(inbox, Head(inbox))
    /\ UNCHANGED <<pc, call, calls, attempted, available, session, connected, tracker, okxVars,
                   reply, soiled, result, settled>>

(* An order is filled, triggered or canceled by OKX. *)
Finishes(id) ==
    /\ orders[id].state = "live"
    /\ orders' = [orders EXCEPT ![id].state = "done"]
    /\ UNCHANGED <<pc, call, calls, sessionVars, wire, reply, accepted, result, settled>> /\ Fine

-----------------------------------------------------------------------------
(* The call returns.                                                       *)

UnderWay(id) == \E r \in wire : r.id = id /\ Creates(r.op)

Return(res, via) ==
    /\ pc' = "idle" /\ reply' = "none"
    /\ result' = [res |-> res, via |-> via]
    /\ settled' = IF res = "ok" /\ Closes(call.op) /\ ~UnderWay(call.id)
                  THEN settled \cup {call.id} ELSE settled

Goes(place) == pc' = place /\ UNCHANGED <<reply, result, settled>>

(* A call begins: its first step is at the given place. *)
Begin(op, id, terms, place) ==
    /\ pc = "idle" /\ calls < MaxCalls
    /\ call' = [op |-> op, id |-> id, terms |-> terms]
    /\ calls' = calls + 1
    /\ pc' = place
    /\ result' = NoResult
    /\ settled' = IF Creates(op) THEN settled \ {id} ELSE settled
    /\ UNCHANGED <<sessionVars, okxVars, reply>> /\ Fine

(* place_order, cancel_order and amend_order try the command session; a    *)
(* market order and an algo order never do.  Algo orders are canceled and  *)
(* amended under the id that their acknowledgement or a lookup gave.       *)
PlaceOrder(id, terms) == Begin("place", id, terms, "ensure")
MarketOrder(id, terms) == Begin("market", id, terms, "rest")
CancelOrder(id) == Begin("cancel", id, "none", "ensure")
AmendOrder(id, terms) == Begin("amend", id, terms, "ensure")
PlaceTriggerOrder(id, terms) == Begin("trigger", id, terms, "rest")
CancelAlgoOrder(id) == orders[id].state # "none" /\ Begin("cancelAlgo", id, "none", "rest")
PlaceSpotOco(id, terms) == Begin("oco", id, terms, "rest")
AmendSpotOco(id, terms) == orders[id].state # "none" /\ Begin("amendOco", id, terms, "rest")
CancelSpotOco(id) == orders[id].state # "none" /\ Begin("cancelOco", id, "none", "rest")

(* The caller drops the call: nothing is undone, and a session waiting for *)
(* its acknowledgement is kept.                                            *)
Dropped ==
    /\ pc # "idle" /\ MayFail /\ Return("dropped", "none")
    /\ UNCHANGED <<call, calls, sessionVars, okxVars>>

-----------------------------------------------------------------------------
(* The command session.                                                    *)

Connect ==
    /\ session' = connected + 1 /\ connected' = connected + 1
    /\ available' = TRUE /\ inbox' = <<>> /\ tracker' = <<>>

Disconnect ==
    /\ session' = 0 /\ available' = FALSE /\ inbox' = <<>> /\ tracker' = <<>>
    /\ UNCHANGED connected

(* prepare_order_command_path, at start-up. *)
PrepareOrderCommandPath ==
    /\ calls = 0 /\ pc = "idle" /\ ~attempted /\ attempted' = TRUE
    /\ \/ Connect /\ Fine
       \/ Disconnect /\ MayFail
    /\ UNCHANGED <<pc, call, calls, okxVars, reply, soiled, result, settled>>

(* ensure_websocket_order_session_available *)
EnsureSession ==
    /\ pc = "ensure"
    /\ \/ available /\ Goes("prepare") /\ UNCHANGED <<session, connected, available, inbox, tracker>> /\ Fine
       \/ ~available /\ ~attempted /\ Goes("rest")
          /\ UNCHANGED <<session, connected, available, inbox, tracker>> /\ Fine
       \/ ~available /\ attempted /\ Connect /\ Goes("prepare") /\ Fine
       \/ ~available /\ attempted /\ Disconnect /\ Goes("rest") /\ MayFail
    /\ UNCHANGED <<call, calls, attempted, okxVars, soiled>>

(* websocket_inst_id_code: not known, so the call goes to REST. *)
NoInstIdCode == pc = "prepare" /\ Goes("rest") /\ UNCHANGED <<call, calls, sessionVars, okxVars>> /\ Fine

(* The rate limit reservation, the instrument hint, the price limit or the *)
(* server time refuses a place or an amend: there is no fallback.          *)
PreparePlace ==
    /\ pc = "prepare" /\ call.op = "place"
    /\ Goes("send") \/ Return("refused", "none")
    /\ UNCHANGED <<call, calls, sessionVars, okxVars>> /\ Fine

PrepareAmend ==
    /\ pc = "prepare" /\ call.op = "amend"
    /\ Goes("send") \/ Return("refused", "none")
    /\ UNCHANGED <<call, calls, sessionVars, okxVars>> /\ Fine

(* A cancel that cannot be prepared goes to REST. *)
PrepareCancel ==
    /\ pc = "prepare" /\ call.op = "cancel"
    /\ Goes("send") \/ Goes("rest")
    /\ UNCHANGED <<call, calls, sessionVars, okxVars>> /\ Fine

(* The session is locked and the command sent. *)
SendCommand ==
    /\ pc = "send"
    /\ IF session = 0
       THEN Disconnect /\ Goes("rest") /\ UNCHANGED wire
       ELSE /\ wire' = wire \cup {Request("ws", call.id)} /\ Goes("ack")
            /\ UNCHANGED <<session, available, inbox, tracker, connected>>
    /\ UNCHANGED <<call, calls, attempted, orders, accepted, soiled>> /\ Fine

(* Any error of a command gives the session up. *)
SessionFails == soiled' = soiled \cup {session} /\ Disconnect

(* NotSent: the ping of an idle session is not answered, or the socket     *)
(* refuses the command, which OKX may have got all the same.               *)
NotSent ==
    /\ pc = "send" /\ session # 0 /\ MayFail
    /\ wire' \in {wire, wire \cup {Request("ws", call.id)}}
    /\ SessionFails /\ Goes("rest")
    /\ UNCHANGED <<call, calls, attempted, orders, accepted>>

(* An ambiguous cancel is repeated over REST, anything else looked up. *)
AfterAmbiguous == Goes(IF call.op = "cancel" THEN "rest" ELSE "check")

Seen(id) == \E i \in DOMAIN tracker : tracker[i] = id

Recorded(id) ==
    IF Seen(id) THEN tracker
    ELSE LET grown == Append(tracker, id)
         IN IF Len(grown) > TrackerLimit THEN Tail(grown) ELSE grown

(* Bug: whatever acknowledgement comes first is taken. *)
IsExpectedAny(ack) == TRUE

IsExpected(ack) == ack.id = calls /\ ~Seen(ack.id)

(* handle_text_ack: another command's acknowledgement, or a repeated one,  *)
(* is passed over; a rejection is as ambiguous as a malformed answer.      *)
ReadAck ==
    /\ pc = "ack" /\ inbox # <<>>
    /\ LET ack == Head(inbox)
       IN \/ /\ ~IsExpected(ack)
             /\ inbox' = Tail(inbox) /\ tracker' = Recorded(ack.id)
             /\ UNCHANGED <<pc, reply, result, settled, session, available, connected, soiled>>
          \/ /\ IsExpected(ack) /\ ack.ok
             /\ inbox' = Tail(inbox) /\ tracker' = Recorded(ack.id)
             /\ Return("ok", "ws") /\ UNCHANGED <<session, available, connected, soiled>>
          \/ IsExpected(ack) /\ ~ack.ok /\ SessionFails /\ AfterAmbiguous
    /\ UNCHANGED <<call, calls, attempted, okxVars>> /\ Fine

(* The acknowledgement does not come in time, cannot be read, or the       *)
(* session is closed.                                                      *)
AckFails ==
    /\ pc = "ack"
    /\ SessionFails /\ AfterAmbiguous
    /\ UNCHANGED <<call, calls, attempted, okxVars>> /\ Fine

-----------------------------------------------------------------------------
(* REST.                                                                   *)

(* Bug: the fallback makes up a new client order id. *)
RestIdFresh(id) ==
    IF Creates(call.op) /\ \E o \in OrderIds : o # id THEN CHOOSE o \in OrderIds : o # id ELSE id

(* The client order id of the request: the caller's, in the fallback too. *)
RestId(id) == id

(* A request that is refused before it is sent (rate limit reservation,    *)
(* instrument hint, price limit) is not reconciled.                        *)
RestSend ==
    /\ pc = "rest"
    /\ \/ Goes("answer") /\ wire' = wire \cup {Request("rest", RestId(call.id))}
       \/ ~Closes(call.op) /\ Return("refused", "none") /\ UNCHANGED wire
    /\ UNCHANGED <<call, calls, sessionVars, orders, accepted>> /\ Fine

(* What a call makes of the answer: "ok", "err", or "check" to look the    *)
(* order up.                                                               *)
PlaceAnswered(answer) == IF answer = "ok" THEN "ok" ELSE "check"

(* An accepted amendment is looked up too. *)
AmendAnswered(answer) == IF answer = "garbled" THEN "err" ELSE "check"

(* Bug: a cancel that is refused or gets no answer counts as done. *)
CancelAnsweredLenient(answer) == "ok"

CancelAnswered(answer) ==
    CASE answer = "ok" -> "ok"
      [] answer \in {"rejected", "aggregate"} -> "check"
      [] OTHER -> "err"

(* A plain rejection of an algo order is final. *)
TriggerAnswered(answer) ==
    CASE answer = "ok" -> "ok"
      [] answer \in {"error", "duplicate"} -> "check"
      [] OTHER -> "err"

OcoAnswered(answer) == TriggerAnswered(answer)
AmendOcoAnswered(answer) == IF answer = "ok" THEN "ok" ELSE "err"
CancelOcoAnswered(answer) == CancelAnswered(answer)
CancelAlgoAnswered(answer) == CancelAnswered(answer)

Judge(op, answer) ==
    CASE op \in {"place", "market"} -> PlaceAnswered(answer)
      [] op = "amend"      -> AmendAnswered(answer)
      [] op = "cancel"     -> CancelAnswered(answer)
      [] op = "trigger"    -> TriggerAnswered(answer)
      [] op = "cancelAlgo" -> CancelAlgoAnswered(answer)
      [] op = "oco"        -> OcoAnswered(answer)
      [] op = "amendOco"   -> AmendOcoAnswered(answer)
      [] op = "cancelOco"  -> CancelOcoAnswered(answer)

Answered(answer) ==
    /\ CASE Judge(call.op, answer) = "ok"    -> Return("ok", "rest")
         [] Judge(call.op, answer) = "err"   -> Return("err", "rest")
         [] Judge(call.op, answer) = "check" ->
                pc' = "check" /\ reply' = answer /\ UNCHANGED <<result, settled>>
    /\ UNCHANGED <<call, calls, sessionVars, okxVars>>

(* The answer arrives, or arrives in a form that single_order_ack or       *)
(* single_algo_ack refuses.                                                *)
OrderAnswers ==
    /\ pc = "answer" /\ reply # "none" /\ call.id \in OrderIds
    /\ (Answered(reply) /\ Fine) \/ (Answered("garbled") /\ MayFail)

AlgoAnswers ==
    /\ pc = "answer" /\ reply # "none" /\ call.id \notin OrderIds
    /\ (Answered(reply) /\ Fine) \/ (Answered("garbled") /\ MayFail)

(* No server time, no connection, no answer in time, an HTTP or API error. *)
RestFails == pc = "answer" /\ Answered("error") /\ Fine

(* Whether what the lookup finds lets the call succeed.                    *)
SubmitConfirmed(o, terms) == o.state # "none" /\ o.terms = terms

AmendConfirmed(o, terms) == o.state # "none" /\ o.terms = terms

(* An algo order must protect still. *)
AlgoSubmitConfirmed(o, terms) == o.state = "live" /\ o.terms = terms

OcoSubmitConfirmed(o, terms) == o.state = "live" /\ o.terms = terms

OrderGone(o) == o.state # "live"
AlgoGone(o) == o.state # "live"

(* Of a rejected OCO cancel only a target known to be terminal will do. *)
OcoGone(o, answer) == o.state = "done" \/ (answer = "aggregate" /\ o.state = "none")

Confirms(op, id, terms, answer) ==
    LET o == orders[id]
    IN CASE op \in {"place", "market"} -> SubmitConfirmed(o, terms)
         [] op = "amend"      -> AmendConfirmed(o, terms)
         [] op = "trigger"    -> AlgoSubmitConfirmed(o, terms)
         [] op = "oco"        -> OcoSubmitConfirmed(o, terms)
         [] op = "cancel"     -> OrderGone(o)
         [] op = "cancelAlgo" -> AlgoGone(o)
         [] op = "cancelOco"  -> OcoGone(o, answer)

Check ==
    /\ pc = "check"
    /\ \/ Return(IF Confirms(call.op, call.id, call.terms, reply) THEN "ok" ELSE "err", "check") /\ Fine
       \/ Return("err", "check") /\ MayFail
    /\ UNCHANGED <<call, calls, sessionVars, okxVars>>

-----------------------------------------------------------------------------
Init ==
    /\ pc = "idle" /\ call = NoCall /\ calls = 0
    /\ attempted = FALSE /\ available = FALSE /\ session = 0 /\ connected = 0
    /\ inbox = <<>> /\ tracker = <<>> /\ wire = {} /\ reply = "none"
    /\ orders = [id \in Ids |-> NoOrder] /\ accepted = {} /\ soiled = {}
    /\ result = NoResult /\ settled = {} /\ faults = 0

Begins ==
    \/ \E id \in OrderIds, terms \in Terms :
          PlaceOrder(id, terms) \/ MarketOrder(id, terms) \/ AmendOrder(id, terms)
    \/ \E id \in OrderIds : CancelOrder(id)
    \/ \E id \in AlgoIds, terms \in Terms : PlaceTriggerOrder(id, terms)
    \/ \E id \in AlgoIds : CancelAlgoOrder(id)
    \/ \E id \in OcoIds, terms \in Terms : PlaceSpotOco(id, terms) \/ AmendSpotOco(id, terms)
    \/ \E id \in OcoIds : CancelSpotOco(id)

Step ==
    \/ EnsureSession \/ NoInstIdCode \/ PreparePlace \/ PrepareAmend \/ PrepareCancel
    \/ SendCommand \/ NotSent \/ ReadAck \/ AckFails
    \/ RestSend \/ OrderAnswers \/ AlgoAnswers \/ RestFails \/ Check

Next ==
    \/ Begins \/ Dropped \/ PrepareOrderCommandPath \/ Step
    \/ \E r \in wire : Execute(r) \/ Lost(r)
    \/ \E id \in Ids : Finishes(id)
    \/ Repeated

Spec == Init /\ [][Next]_vars

(* Every wait of a call has a timeout: of the connection, of the           *)
(* acknowledgement, of the REST request.                                   *)
FairSpec == Spec /\ WF_vars(Step)

-----------------------------------------------------------------------------
(* Properties.                                                             *)

(* Type invariant. *)
TypeOK ==
    /\ pc \in Places /\ calls \in 0 .. MaxCalls /\ faults \in 0 .. MaxFaults
    /\ \/ call = NoCall
       \/ call.op \in Ops /\ call.id \in Ids /\ call.terms \in Terms \cup {"none"}
    /\ attempted \in BOOLEAN /\ available \in BOOLEAN
    /\ connected \in Nat /\ session \in 0 .. connected
    /\ Len(tracker) <= TrackerLimit
    /\ \A r \in wire : r.id \in Ids /\ r.call \in 1 .. calls
    /\ \A id \in Ids : orders[id].state \in {"none", "live", "done"}
    /\ settled \subseteq Ids /\ accepted \subseteq 1 .. calls

(* A call puts at most one order on OKX, although a limit order that may   *)
(* have left over the WebSocket is sent again over REST.                   *)
OneOrderPerCall ==
    \A a, b \in Ids : orders[a].by # 0 /\ orders[a].by = orders[b].by => a = b

(* A call that says ok is right: OKX accepted this very call, and not an   *)
(* earlier one whose acknowledgement came late, or holds an order that is  *)
(* what was asked for; a cancel leaves nothing live.                       *)
OkIsTrue ==
    [][pc # "idle" /\ pc' = "idle" /\ result'.res = "ok" =>
          CASE Creates(call.op) -> /\ orders'[call.id].state # "none"
                                   /\ call.terms \in {orders'[call.id].placed, orders'[call.id].terms}
            [] Amends(call.op)  -> calls \in accepted' \/ orders'[call.id].terms = call.terms
            [] OTHER            -> orders'[call.id].state # "live"]_vars

(* Once a cancel has succeeded while no placement of the id was under way, *)
(* the order is not live again: not even a WebSocket command that was      *)
(* dropped or timed out earlier revives it.                                *)
CanceledStays == \A id \in settled : orders[id].state # "live"

(* A command is never sent over a connection on which one failed before,   *)
(* so no acknowledgement of the failed one can be mistaken for its own.    *)
NoSoiledSession == available => session # 0 /\ session \notin soiled

(* Whatever fails, every call returns. *)
CallsReturn == pc # "idle" ~> pc = "idle"
==============================================================================
